----------------------------- MODULE VolumeProofs -----------------------------
(***************************************************************************)
(* Proofs about Volume for every calendar, rule and set of processes: a    *)
(* tick works under its claim, so that a window has one verdict and its    *)
(* incidents say the same.                                                 *)
(***************************************************************************)
EXTENDS Volume, FiniteSetTheorems, WellFoundedInduction, TLAPS

-----------------------------------------------------------------------------
(* The types the proofs need                                               *)

\* Where a tick has its claim.
Busy == {"read", "look", "recheck", "write", "find", "open", "resolve", "release"}
Places == Busy \cup {"idle", "claim"}

PerProcess(f) == f = [p \in Processes |-> f[p]]

TypeInv ==
    /\ now \in Nat
    /\ crashes \in Nat
    /\ pc \in [Processes -> Places]
    /\ at \in [Processes -> Int]
    /\ PerProcess(window) /\ PerProcess(result) /\ PerProcess(fresh)

\* A place is changed for one process.
LEMMA PutOne ==
    ASSUME NEW f, PerProcess(f), NEW p \in Processes, NEW x,
           NEW next, next = [f EXCEPT ![p] = x]
    PROVE  /\ PerProcess(next) /\ next[p] = x
           /\ \A q \in Processes \ {p} : next[q] = f[q]
<1>1. f = [q \in Processes |-> f[q]]
  BY DEF PerProcess
<1>2. DOMAIN f = Processes
  BY <1>1
<1>3. next = [q \in Processes |-> IF q = p THEN x ELSE f[q]]
  BY <1>2
<1> QED BY <1>3 DEF PerProcess

\* The numbers of the model.
LEMMA Numbers ==
    /\ Begin \in Nat /\ End \in Nat /\ TickEvery \in Nat /\ TickEvery > 0
    /\ MaxStall \in Nat /\ ClaimTtl \in Nat
BY VolumeAssumption

\* The types hold at first.
LEMMA InitTypes == Init => TypeInv
<1> SUFFICES ASSUME Init PROVE TypeInv
  OBVIOUS
<1>1. now \in Nat /\ crashes \in Nat
  BY Numbers DEF Init
<1>2. pc \in [Processes -> Places]
  BY DEF Init, Places
<1>3. at \in [Processes -> Int]
  BY Numbers DEF Init
<1>4. PerProcess(window) /\ PerProcess(result) /\ PerProcess(fresh)
  BY DEF Init, PerProcess
<1> QED BY <1>1, <1>2, <1>3, <1>4 DEF TypeInv

\* A process that goes somewhere leaves the others where they are.
LEMMA GoesThere ==
    ASSUME TypeInv, NEW p \in Processes, NEW place \in Places, Goto(p, place)
    PROVE  /\ pc' \in [Processes -> Places] /\ pc'[p] = place
           /\ \A q \in Processes \ {p} : pc'[q] = pc[q]
BY DEF TypeInv, Goto

\* The places.
LEMMA PlacesAre ==
    /\ {"idle", "claim", "read", "look", "recheck", "write", "find", "open", "resolve",
        "release"} = Places
    /\ "idle" \notin Busy /\ "claim" \notin Busy
    /\ {"read", "look", "recheck", "write", "find", "open", "resolve", "release"} = Busy
BY DEF Places, Busy

\* What a tick that ends leaves behind.
LEMMA Forgets ==
    ASSUME TypeInv, NEW p \in Processes, Forget(p)
    PROVE  /\ pc' \in [Processes -> Places] /\ pc'[p] = "idle"
           /\ PerProcess(window)' /\ PerProcess(result)' /\ PerProcess(fresh)'
           /\ UNCHANGED at
           /\ \A q \in Processes \ {p} :
                 /\ pc'[q] = pc[q] /\ window'[q] = window[q]
                 /\ result'[q] = result[q] /\ fresh'[q] = fresh[q]
<1>1. Goto(p, "idle") /\ "idle" \in Places /\ UNCHANGED at
  BY PlacesAre DEF Forget
<1>2. PerProcess(window)' /\ \A q \in Processes \ {p} : window'[q] = window[q]
  <2>1. window' = [window EXCEPT ![p] = NoWindow]
    BY DEF Forget
  <2> QED BY <2>1, PutOne DEF TypeInv, PerProcess
<1>3. PerProcess(result)' /\ \A q \in Processes \ {p} : result'[q] = result[q]
  <2>1. result' = [result EXCEPT ![p] = "collecting"]
    BY DEF Forget
  <2> QED BY <2>1, PutOne DEF TypeInv, PerProcess
<1>4. PerProcess(fresh)' /\ \A q \in Processes \ {p} : fresh'[q] = fresh[q]
  <2>1. fresh' = [fresh EXCEPT ![p] = FALSE]
    BY DEF Forget
  <2> QED BY <2>1, PutOne DEF TypeInv, PerProcess
<1> QED BY <1>1, <1>2, <1>3, <1>4, GoesThere

-----------------------------------------------------------------------------
(* What the steps of a tick change                                         *)

\* The other ticks stay where they are.
Others(p) ==
    \A q \in Processes \ {p} :
        /\ pc'[q] = pc[q] /\ at'[q] = at[q] /\ window'[q] = window[q]
        /\ result'[q] = result[q] /\ fresh'[q] = fresh[q]

\* The timer fires.
LEMMA StartMoves ==
    ASSUME TypeInv, NEW p \in Processes, StartTick(p)
    PROVE  /\ TypeInv' /\ Others(p)
           /\ pc[p] = "idle" /\ pc'[p] \in {"idle", "claim"} /\ at'[p] = now
           /\ UNCHANGED <<now, crashes, claims, evaluations, incidents>>
<1>1. /\ UNCHANGED <<now, crashes, claims, evaluations, incidents, result, fresh>>
      /\ pc[p] = "idle" /\ at' = [at EXCEPT ![p] = now]
  BY DEF StartTick, envVars
<1>2. /\ at' \in [Processes -> Int] /\ at'[p] = now
      /\ \A q \in Processes \ {p} : at'[q] = at[q]
  BY <1>1 DEF TypeInv
<1>3. CASE active
  <2>1. Goto(p, "claim") /\ window' = [window EXCEPT ![p] = WindowFor(now)]
    BY <1>3 DEF StartTick
  <2>2. PerProcess(window)' /\ \A q \in Processes \ {p} : window'[q] = window[q]
    BY <2>1, PutOne DEF TypeInv, PerProcess
  <2>3. /\ pc' \in [Processes -> Places] /\ pc'[p] = "claim"
        /\ \A q \in Processes \ {p} : pc'[q] = pc[q]
    BY <2>1, GoesThere, PlacesAre
  <2> QED BY <1>1, <1>2, <2>2, <2>3 DEF TypeInv, PerProcess, Others
<1>4. CASE ~active
  <2>1. UNCHANGED <<window, pc>>
    BY <1>4 DEF StartTick
  <2> QED BY <1>1, <1>2, <2>1 DEF TypeInv, PerProcess, Others
<1> QED BY <1>3, <1>4

\* The steps that only go somewhere, whatever they do to the tables.
LEMMA JustGoes ==
    ASSUME TypeInv, NEW p \in Processes, NEW place \in Places, Goto(p, place),
           UNCHANGED <<now, crashes, locals>>
    PROVE  TypeInv' /\ Others(p) /\ pc'[p] = place
<1>1. UNCHANGED <<now, crashes, at, window, result, fresh>>
  BY DEF locals
<1>2. /\ pc' \in [Processes -> Places] /\ pc'[p] = place
      /\ \A q \in Processes \ {p} : pc'[q] = pc[q]
  BY GoesThere
<1> QED BY <1>1, <1>2 DEF TypeInv, PerProcess, Others

\* The claim is asked for.
LEMMA ClaimMoves ==
    ASSUME TypeInv, NEW p \in Processes, Claim(p)
    PROVE  /\ TypeInv' /\ Others(p)
           /\ pc[p] = "claim" /\ UNCHANGED <<now, crashes, locals, evaluations, incidents>>
           /\ \/ pc'[p] = "idle" /\ UNCHANGED claims
              \/ /\ pc'[p] = "read" /\ ~Held(p, window[p].start)
                 /\ claims' = Put(claims, window[p].start,
                                  [owner |-> p, until |-> at[p] + ClaimTtl])
<1>1. pc[p] = "claim" /\ UNCHANGED <<now, crashes, locals, evaluations, incidents>>
  BY DEF Claim, envVars
<1>2. CASE Held(p, window[p].start)
  <2>1. Goto(p, "idle") /\ UNCHANGED claims
    BY <1>2 DEF Claim
  <2> QED BY <1>1, <2>1, JustGoes, PlacesAre
<1>3. CASE ~Held(p, window[p].start)
  <2>1. /\ Goto(p, "read")
        /\ claims' = Put(claims, window[p].start, [owner |-> p, until |-> at[p] + ClaimTtl])
    BY <1>3 DEF Claim
  <2> QED BY <1>1, <1>3, <2>1, JustGoes, PlacesAre
<1> QED BY <1>2, <1>3

\* The reports are read.
LEMMA ReadMoves ==
    ASSUME TypeInv, NEW p \in Processes, Read(p)
    PROVE  /\ TypeInv' /\ Others(p)
           /\ pc[p] = "read" /\ pc'[p] = "look"
           /\ UNCHANGED <<now, crashes, at, window, claims, evaluations, incidents>>
<1>1. /\ UNCHANGED <<now, crashes, at, window, fresh, claims, evaluations, incidents>>
      /\ pc[p] = "read" /\ Goto(p, "look")
      /\ result' = [result EXCEPT ![p] = Band(window[p], at[p])]
  BY DEF Read, envVars
<1>2. PerProcess(result)' /\ \A q \in Processes \ {p} : result'[q] = result[q]
  BY <1>1, PutOne DEF TypeInv, PerProcess
<1>3. /\ pc' \in [Processes -> Places] /\ pc'[p] = "look"
      /\ \A q \in Processes \ {p} : pc'[q] = pc[q]
  BY <1>1, GoesThere, PlacesAre
<1> QED BY <1>1, <1>2, <1>3 DEF TypeInv, PerProcess, Others

\* The verdict is looked for.
LEMMA LookMoves ==
    ASSUME TypeInv, NEW p \in Processes, Look(p)
    PROVE  /\ TypeInv' /\ Others(p)
           /\ pc[p] = "look" /\ UNCHANGED <<now, crashes, locals, claims, evaluations, incidents>>
           /\ pc'[p] = IF Finalized(window[p].start) THEN "release" ELSE "recheck"
<1>1. /\ pc[p] = "look" /\ UNCHANGED <<now, crashes, locals, claims, evaluations, incidents>>
      /\ Goto(p, IF Finalized(window[p].start) THEN "release" ELSE "recheck")
  BY DEF Look, envVars
<1>2. (IF Finalized(window[p].start) THEN "release" ELSE "recheck") \in Places
  BY PlacesAre
<1> QED BY <1>1, <1>2, JustGoes

\* And again.
LEMMA RecheckMoves ==
    ASSUME TypeInv, NEW p \in Processes, Recheck(p)
    PROVE  /\ TypeInv' /\ Others(p)
           /\ pc[p] = "recheck"
           /\ UNCHANGED <<now, crashes, at, window, result, claims, evaluations, incidents>>
           /\ pc'[p] = IF Finalized(window[p].start) THEN "find" ELSE "write"
           /\ window[p].start \in DOMAIN evaluations => ~fresh'[p]
<1>1. /\ UNCHANGED <<now, crashes, at, window, result, claims, evaluations, incidents>>
      /\ pc[p] = "recheck"
      /\ Goto(p, IF Finalized(window[p].start) THEN "find" ELSE "write")
      /\ fresh' = [fresh EXCEPT ![p] = window[p].start \notin DOMAIN evaluations]
  BY DEF Recheck, envVars
<1>2. /\ PerProcess(fresh)' /\ \A q \in Processes \ {p} : fresh'[q] = fresh[q]
      /\ fresh'[p] = (window[p].start \notin DOMAIN evaluations)
  BY <1>1, PutOne DEF TypeInv, PerProcess
<1>3. (IF Finalized(window[p].start) THEN "find" ELSE "write") \in Places
  BY PlacesAre
<1>4. /\ pc' \in [Processes -> Places]
      /\ pc'[p] = IF Finalized(window[p].start) THEN "find" ELSE "write"
      /\ \A q \in Processes \ {p} : pc'[q] = pc[q]
  BY <1>1, <1>3, GoesThere
<1>5. TypeInv' /\ Others(p)
  BY <1>1, <1>2, <1>4 DEF TypeInv, PerProcess, Others
<1>6. window[p].start \in DOMAIN evaluations => ~fresh'[p]
  BY <1>2
<1> QED BY <1>1, <1>4, <1>5, <1>6

\* The evaluation is written.
LEMMA WriteMoves ==
    ASSUME TypeInv, NEW p \in Processes, Write(p)
    PROVE  /\ TypeInv' /\ Others(p)
           /\ pc[p] = "write" /\ UNCHANGED <<now, crashes, locals, claims, incidents>>
           /\ \/ /\ pc'[p] = "release" /\ UNCHANGED evaluations
                 /\ fresh[p] /\ window[p].start \in DOMAIN evaluations
              \/ /\ pc'[p] = "find"
                 /\ \E end : evaluations' =
                       Put(evaluations, window[p].start,
                           [end |-> end, about |-> window[p].end, result |-> result[p],
                            total |-> total[p], final |-> Final(result[p])])
<1>1. pc[p] = "write" /\ UNCHANGED <<now, crashes, locals, claims, incidents>>
  BY DEF Write, envVars
<1>2. CASE fresh[p] /\ window[p].start \in DOMAIN evaluations
  <2>1. Goto(p, "release") /\ UNCHANGED evaluations
    BY <1>2 DEF Write
  <2> QED BY <1>1, <1>2, <2>1, JustGoes, PlacesAre
<1>3. CASE ~(fresh[p] /\ window[p].start \in DOMAIN evaluations)
  <2>1. /\ Goto(p, "find")
        /\ \E end : evaluations' =
              Put(evaluations, window[p].start,
                  [end |-> end, about |-> window[p].end, result |-> result[p],
                   total |-> total[p], final |-> Final(result[p])])
    BY <1>3 DEF Write
  <2> QED BY <1>1, <2>1, JustGoes, PlacesAre
<1> QED BY <1>2, <1>3

\* The incident is looked for, opened or resolved.
LEMMA IncidentMoves ==
    ASSUME TypeInv, NEW p \in Processes, Find(p) \/ Open(p) \/ Resolve(p)
    PROVE  /\ TypeInv' /\ Others(p)
           /\ UNCHANGED <<now, crashes, locals, claims, evaluations>>
           /\ \/ pc[p] = "find" /\ pc'[p] \in {"open", "resolve"}
              \/ pc[p] = "open" /\ pc'[p] = "resolve"
              \/ pc[p] = "resolve" /\ pc'[p] = "release"
<1>1. UNCHANGED <<now, crashes, locals, claims, evaluations>>
  BY DEF Find, Open, Resolve, envVars
<1>2. CASE Find(p)
  <2>1. pc[p] = "find" /\ (Goto(p, "open") \/ Goto(p, "resolve"))
    BY <1>2 DEF Find
  <2> QED BY <1>1, <2>1, JustGoes, PlacesAre
<1>3. CASE Open(p)
  <2>1. pc[p] = "open" /\ Goto(p, "resolve")
    BY <1>3 DEF Open
  <2> QED BY <1>1, <2>1, JustGoes, PlacesAre
<1>4. CASE Resolve(p)
  <2>1. pc[p] = "resolve" /\ Goto(p, "release")
    BY <1>4 DEF Resolve
  <2> QED BY <1>1, <2>1, JustGoes, PlacesAre
<1> QED BY <1>2, <1>3, <1>4

\* The claim is given back.
LEMMA ReleaseMoves ==
    ASSUME TypeInv, NEW p \in Processes, Release(p)
    PROVE  /\ TypeInv' /\ Others(p)
           /\ pc'[p] = "idle" /\ pc[p] = "release"
           /\ UNCHANGED <<now, crashes, at, evaluations, incidents>>
           /\ \A x \in DOMAIN claims :
                 claims[x].owner # p => x \in DOMAIN claims' /\ claims'[x] = claims[x]
<1>1. /\ pc[p] = "release" /\ Forget(p) /\ UNCHANGED <<now, crashes, evaluations, incidents>>
      /\ claims' = [x \in {y \in DOMAIN claims :
                              y # window[p].start \/ claims[y].owner # p} |-> claims[x]]
  BY DEF Release, envVars
<1>2. \A x \in DOMAIN claims :
         claims[x].owner # p => x \in DOMAIN claims' /\ claims'[x] = claims[x]
  BY <1>1
<1> QED BY <1>1, <1>2, Forgets DEF TypeInv, PerProcess, Others

\* A process dies.
LEMMA CrashMoves ==
    ASSUME TypeInv, NEW p \in Processes, Crash(p)
    PROVE  /\ TypeInv' /\ Others(p)
           /\ pc'[p] = "idle" /\ pc[p] # "idle" /\ crashes' # 0
           /\ UNCHANGED <<now, at, evaluations, incidents, claims>>
<1>1. /\ pc[p] # "idle" /\ Forget(p) /\ crashes' = crashes + 1
      /\ UNCHANGED <<now, evaluations, incidents, claims>>
  BY DEF Crash
<1>2. crashes' \in Nat /\ crashes' # 0
  BY <1>1 DEF TypeInv
<1> QED BY <1>1, <1>2, Forgets DEF TypeInv, PerProcess, Others

-----------------------------------------------------------------------------
(* A tick works under its claim                                            *)

\* What holds of a tick wherever it is: it is not older than it may be, its claim
\* is its own, and what it has found out about the verdict is still so.
Work(p) ==
    LET s == window[p].start
    IN  /\ at[p] <= now
        /\ pc[p] # "idle" => now - at[p] <= MaxStall
        /\ pc[p] \in Busy =>
              /\ s \in DOMAIN claims
              /\ claims[s].owner = p /\ claims[s].until = at[p] + ClaimTtl
        /\ pc[p] \in {"recheck", "write"} => ~Finalized(s)
        /\ pc[p] = "write" /\ s \in DOMAIN evaluations => ~fresh[p]
        /\ pc[p] \in {"find", "open"} =>
              /\ s \in DOMAIN evaluations
              /\ evaluations[s].result = result[p]
              /\ evaluations[s].final = Final(result[p])

WorkInv == \A p \in Processes : Work(p)

\* At first nobody works.
LEMMA InitWork == Init => WorkInv
<1> SUFFICES ASSUME Init, NEW p \in Processes PROVE Work(p)
  BY DEF WorkInv
<1>1. pc[p] = "idle"
  BY DEF Init
<1>2. at[p] \in (Begin - TickEvery) .. (Begin - 1) /\ now = Begin
  BY DEF Init
<1>3. at[p] <= now
  BY <1>2, Numbers
<1> QED BY <1>1, <1>3 DEF Work, Busy

\* Two ticks do not work on one window.
LEMMA Alone ==
    ASSUME NEW p \in Processes, NEW q \in Processes, Work(p), Work(q),
           pc[p] \in Busy, pc[q] \in Busy, window[p].start = window[q].start
    PROVE  p = q
BY DEF Work

\* A tick that stays where it is goes on as long as nobody touches the rows of its
\* window.
LEMMA Stays ==
    ASSUME NEW p \in Processes, Work(p), now' = now,
           pc'[p] = pc[p], at'[p] = at[p], window'[p] = window[p],
           result'[p] = result[p], fresh'[p] = fresh[p],
           pc[p] \in Busy =>
             /\ window[p].start \in DOMAIN claims'
             /\ claims'[window[p].start] = claims[window[p].start]
             /\ \/ UNCHANGED evaluations
                \/ /\ window[p].start \in DOMAIN evaluations
                        <=> window[p].start \in DOMAIN evaluations'
                   /\ evaluations'[window[p].start] = evaluations[window[p].start]
    PROVE  Work(p)'
<1>1. CASE pc[p] \notin Busy
  <2>1. pc[p] \notin {"recheck", "write", "find", "open"}
    BY <1>1 DEF Busy
  <2> QED BY <1>1, <2>1 DEF Work
<1>2. CASE pc[p] \in Busy
  <2>1. Finalized(window[p].start) <=> Finalized(window[p].start)'
    BY <1>2 DEF Finalized
  <2> QED BY <1>2, <2>1 DEF Work
<1> QED BY <1>1, <1>2

\* A step that touches neither claims nor evaluations leaves the other ticks alone.
LEMMA OthersStay ==
    ASSUME WorkInv, NEW p \in Processes, Others(p), UNCHANGED <<now, claims, evaluations>>,
           Work(p)'
    PROVE  WorkInv'
<1> SUFFICES ASSUME NEW q \in Processes, q # p PROVE Work(q)'
  BY DEF WorkInv
<1>1. /\ pc'[q] = pc[q] /\ at'[q] = at[q] /\ window'[q] = window[q]
      /\ result'[q] = result[q] /\ fresh'[q] = fresh[q]
  BY DEF Others
<1>2. Work(q)
  BY DEF WorkInv
<1>3. pc[q] \in Busy => window[q].start \in DOMAIN claims
  BY <1>2 DEF Work
<1> QED BY <1>1, <1>2, <1>3, Stays

\* The timer fires.
LEMMA StartWorks ==
    ASSUME TypeInv, WorkInv, NEW p \in Processes, StartTick(p)
    PROVE  WorkInv'
<1>1. /\ Others(p) /\ pc'[p] \in {"idle", "claim"} /\ at'[p] = now
      /\ UNCHANGED <<now, claims, evaluations>>
  BY StartMoves
<1>2. now \in Nat /\ MaxStall \in Nat
  BY Numbers DEF TypeInv
<1>3. Work(p)'
  BY <1>1, <1>2 DEF Work, Busy
<1> QED BY <1>1, <1>3, OthersStay

\* A claim that is given is not one that another tick still works under.
LEMMA ClaimWorks ==
    ASSUME TypeInv, WorkInv, MaxStall <= ClaimTtl, NEW p \in Processes, Claim(p)
    PROVE  WorkInv'
<1>1. /\ Others(p) /\ pc[p] = "claim" /\ UNCHANGED <<now, locals, evaluations>>
      /\ \/ pc'[p] = "idle" /\ UNCHANGED claims
         \/ /\ pc'[p] = "read" /\ ~Held(p, window[p].start)
            /\ claims' = Put(claims, window[p].start,
                             [owner |-> p, until |-> at[p] + ClaimTtl])
  BY ClaimMoves
<1>2. UNCHANGED <<at, window, result, fresh>>
  BY <1>1 DEF locals
<1>3. Work(p)
  BY DEF WorkInv
<1>4. CASE pc'[p] = "idle" /\ UNCHANGED claims
  <2>1. Work(p)'
    BY <1>1, <1>2, <1>3, <1>4 DEF Work, Busy
  <2> QED BY <1>1, <1>4, <2>1, OthersStay
<1>5. CASE /\ pc'[p] = "read" /\ ~Held(p, window[p].start)
           /\ claims' = Put(claims, window[p].start,
                            [owner |-> p, until |-> at[p] + ClaimTtl])
  <2>1. PICK s : s = window[p].start
    OBVIOUS
  <2>2. /\ DOMAIN claims' = DOMAIN claims \cup {s}
        /\ claims'[s] = [owner |-> p, until |-> at[p] + ClaimTtl]
        /\ \A x \in DOMAIN claims : x # s => claims'[x] = claims[x]
    BY <1>5, <2>1 DEF Put
  <2>3. Work(p)'
    BY <1>1, <1>2, <1>3, <1>5, <2>1, <2>2 DEF Work, Busy
  <2>4. ASSUME NEW q \in Processes, q # p PROVE Work(q)'
    <3>1. /\ pc'[q] = pc[q] /\ at'[q] = at[q] /\ window'[q] = window[q]
          /\ result'[q] = result[q] /\ fresh'[q] = fresh[q]
      BY <1>1, <2>4 DEF Others
    <3>2. Work(q)
      BY DEF WorkInv
    <3>3. CASE pc[q] \notin Busy
      BY <1>1, <3>1, <3>2, <3>3, Stays
    <3>4. CASE pc[q] \in Busy
      <4>1. pc[q] # "idle"
        BY <3>4 DEF Busy
      <4>2. /\ at[p] <= now /\ now - at[q] <= MaxStall
            /\ window[q].start \in DOMAIN claims
            /\ claims[window[q].start].owner = q
            /\ claims[window[q].start].until = at[q] + ClaimTtl
        BY <1>3, <3>2, <3>4, <4>1 DEF Work
      <4>3. at[p] \in Int /\ at[q] \in Int /\ now \in Int
        BY DEF TypeInv
      <4>4. at[q] + ClaimTtl >= at[p]
        BY <4>2, <4>3, Numbers
      <4>5. window[q].start # s
        BY <1>5, <2>1, <2>4, <4>2, <4>4 DEF Held
      <4>6. /\ window[q].start \in DOMAIN claims'
            /\ claims'[window[q].start] = claims[window[q].start]
        BY <2>2, <4>2, <4>5
      <4> QED BY <1>1, <3>1, <3>2, <4>6, Stays
    <3> QED BY <3>3, <3>4
  <2> QED BY <2>3, <2>4 DEF WorkInv
<1> QED BY <1>1, <1>4, <1>5

\* What is read, and whether there is a verdict.
LEMMA LookWorks ==
    ASSUME TypeInv, WorkInv, NEW p \in Processes, Read(p) \/ Look(p) \/ Recheck(p)
    PROVE  WorkInv'
<1>0. Work(p)
  BY DEF WorkInv
<1>1. CASE Read(p)
  <2>1. /\ Others(p) /\ pc[p] = "read" /\ pc'[p] = "look"
        /\ UNCHANGED <<now, at, window, claims, evaluations>>
    BY <1>1, ReadMoves
  <2>2. Work(p)'
    BY <1>0, <2>1 DEF Work, Busy
  <2> QED BY <2>1, <2>2, OthersStay
<1>2. CASE Look(p)
  <2>1. /\ Others(p) /\ pc[p] = "look" /\ UNCHANGED <<now, at, window, claims, evaluations>>
        /\ pc'[p] = IF Finalized(window[p].start) THEN "release" ELSE "recheck"
    BY <1>2, LookMoves DEF locals
  <2>2. Finalized(window[p].start)' <=> Finalized(window[p].start)
    BY <2>1 DEF Finalized
  <2>3. Work(p)'
    BY <1>0, <2>1, <2>2 DEF Work, Busy
  <2> QED BY <2>1, <2>3, OthersStay
<1>3. CASE Recheck(p)
  <2>1. /\ Others(p) /\ pc[p] = "recheck" /\ UNCHANGED <<now, at, window, claims, evaluations>>
        /\ pc'[p] = IF Finalized(window[p].start) THEN "find" ELSE "write"
        /\ window[p].start \in DOMAIN evaluations => ~fresh'[p]
    BY <1>3, RecheckMoves
  <2>2. ~Finalized(window[p].start) /\ pc'[p] = "write"
    BY <1>0, <2>1 DEF Work
  <2>3. ~Finalized(window[p].start)'
    BY <2>1, <2>2 DEF Finalized
  <2>4. Work(p)'
    BY <1>0, <2>1, <2>2, <2>3 DEF Work, Busy
  <2> QED BY <2>1, <2>4, OthersStay
<1> QED BY <1>1, <1>2, <1>3

\* A verdict that is written is that of the only tick at work on the window.
LEMMA WriteWorks ==
    ASSUME TypeInv, WorkInv, NEW p \in Processes, Write(p)
    PROVE  WorkInv'
<1>0. Work(p)
  BY DEF WorkInv
<1>1. /\ Others(p) /\ pc[p] = "write" /\ UNCHANGED <<now, locals, claims>>
      /\ \/ /\ pc'[p] = "release" /\ UNCHANGED evaluations
            /\ fresh[p] /\ window[p].start \in DOMAIN evaluations
         \/ /\ pc'[p] = "find"
            /\ \E end : evaluations' =
                  Put(evaluations, window[p].start,
                      [end |-> end, about |-> window[p].end, result |-> result[p],
                       total |-> total[p], final |-> Final(result[p])])
  BY WriteMoves
<1>2. UNCHANGED <<at, window, result, fresh>>
  BY <1>1 DEF locals
<1>3. ~(fresh[p] /\ window[p].start \in DOMAIN evaluations)
  BY <1>0, <1>1 DEF Work
<1>4. PICK s : s = window[p].start
  OBVIOUS
<1>5. PICK end, row : /\ pc'[p] = "find" /\ evaluations' = Put(evaluations, s, row)
                      /\ row = [end |-> end, about |-> window[p].end, result |-> result[p],
                                total |-> total[p], final |-> Final(result[p])]
  BY <1>1, <1>3, <1>4
<1>6. /\ DOMAIN evaluations' = DOMAIN evaluations \cup {s} /\ evaluations'[s] = row
      /\ \A x \in DOMAIN evaluations : x # s => evaluations'[x] = evaluations[x]
  BY <1>5 DEF Put
<1>7. Work(p)'
  <2>1. evaluations'[s].result = result'[p] /\ evaluations'[s].final = Final(result[p])'
    BY <1>2, <1>5, <1>6 DEF Final
  <2> QED BY <1>0, <1>1, <1>2, <1>4, <1>5, <1>6, <2>1 DEF Work, Busy
<1>8. ASSUME NEW q \in Processes, q # p PROVE Work(q)'
  <2>1. /\ pc'[q] = pc[q] /\ at'[q] = at[q] /\ window'[q] = window[q]
        /\ result'[q] = result[q] /\ fresh'[q] = fresh[q]
    BY <1>1, <1>8 DEF Others
  <2>2. Work(q)
    BY DEF WorkInv
  <2>3. CASE pc[q] \notin Busy
    BY <1>1, <2>1, <2>2, <2>3, Stays
  <2>4. CASE pc[q] \in Busy
    <3>1. pc[p] \in Busy
      BY <1>1 DEF Busy
    <3>2. window[q].start # s
      BY <1>0, <1>4, <1>8, <2>2, <2>4, <3>1, Alone
    <3>3. window[q].start \in DOMAIN claims
      BY <2>2, <2>4 DEF Work
    <3>4. CASE window[q].start \in DOMAIN evaluations
      <4>1. /\ window[q].start \in DOMAIN evaluations'
            /\ evaluations'[window[q].start] = evaluations[window[q].start]
        BY <1>6, <3>2, <3>4
      <4> QED BY <1>1, <2>1, <2>2, <3>3, <3>4, <4>1, Stays
    <3>5. CASE window[q].start \notin DOMAIN evaluations
      <4>1. window[q].start \notin DOMAIN evaluations'
        BY <1>6, <3>2, <3>5
      <4>2. ~Finalized(window[q].start)'
        BY <2>1, <4>1 DEF Finalized
      <4>3. claims'[window[q].start] = claims[window[q].start]
        BY <1>1
      <4>4. pc[q] \notin {"find", "open"}
        BY <2>2, <3>5 DEF Work
      <4> QED BY <1>1, <2>1, <2>2, <4>1, <4>2, <4>4 DEF Work
    <3> QED BY <3>4, <3>5
  <2> QED BY <2>3, <2>4
<1> QED BY <1>7, <1>8 DEF WorkInv

\* The incidents are no matter of the claims.
LEMMA IncidentWorks ==
    ASSUME TypeInv, WorkInv, NEW p \in Processes, Find(p) \/ Open(p) \/ Resolve(p)
    PROVE  WorkInv'
<1>0. Work(p)
  BY DEF WorkInv
<1>1. /\ Others(p) /\ UNCHANGED <<now, at, window, result, fresh, claims, evaluations>>
      /\ \/ pc[p] = "find" /\ pc'[p] \in {"open", "resolve"}
         \/ pc[p] = "open" /\ pc'[p] = "resolve"
         \/ pc[p] = "resolve" /\ pc'[p] = "release"
  BY IncidentMoves DEF locals
<1>2. Final(result[p])' <=> Final(result[p])
  BY <1>1 DEF Final
<1>3. Work(p)'
  BY <1>0, <1>1, <1>2 DEF Work, Busy
<1> QED BY <1>1, <1>3, OthersStay

\* A tick that ends gives its own claim back, or leaves it.
LEMMA EndWorks ==
    ASSUME TypeInv, WorkInv, NEW p \in Processes, Release(p) \/ Crash(p)
    PROVE  WorkInv'
<1>1. /\ Others(p) /\ pc'[p] = "idle" /\ UNCHANGED <<now, at, evaluations>>
      /\ \A x \in DOMAIN claims :
            claims[x].owner # p => x \in DOMAIN claims' /\ claims'[x] = claims[x]
  BY ReleaseMoves, CrashMoves
<1>2. Work(p)'
  <2>1. Work(p)
    BY DEF WorkInv
  <2> QED BY <1>1, <2>1 DEF Work, Busy
<1>3. ASSUME NEW q \in Processes, q # p PROVE Work(q)'
  <2>1. /\ pc'[q] = pc[q] /\ at'[q] = at[q] /\ window'[q] = window[q]
        /\ result'[q] = result[q] /\ fresh'[q] = fresh[q]
    BY <1>1, <1>3 DEF Others
  <2>2. Work(q)
    BY DEF WorkInv
  <2>3. pc[q] \in Busy => /\ window[q].start \in DOMAIN claims'
                          /\ claims'[window[q].start] = claims[window[q].start]
    BY <1>1, <1>3, <2>2 DEF Work
  <2> QED BY <1>1, <2>1, <2>2, <2>3, Stays
<1> QED BY <1>2, <1>3 DEF WorkInv

\* What is not a step of a tick: reports, operators, pauses and time.
Outside ==
    \/ \E age \in 0 .. MaxLate, items \in Items : age <= now /\ Report(now - age, items)
    \/ \E i \in DOMAIN incidents : ResolveByHand(i)
    \/ Pause
    \/ Time

\* The rest of the world touches neither ticks nor what they have written.
LEMMA OutsideMoves ==
    ASSUME TypeInv, Outside
    PROVE  /\ TypeInv' /\ UNCHANGED <<pc, at, window, result, fresh, claims, evaluations, crashes>>
           /\ \/ UNCHANGED now
              \/ /\ now' = now + 1
                 /\ \A p \in Processes : pc[p] # "idle" => now - at[p] < MaxStall
           /\ \/ UNCHANGED incidents
              \/ \E i \in DOMAIN incidents : incidents' = Resolved(incidents, i)
<1>1. CASE Time
  <2>1. /\ UNCHANGED <<pc, at, window, result, fresh, claims, evaluations, crashes, incidents>>
        /\ now' = now + 1
        /\ \A p \in Processes : pc[p] # "idle" => now - at[p] < MaxStall
    BY <1>1 DEF Time, locals
  <2>2. now' \in Nat
    BY <2>1 DEF TypeInv
  <2> QED BY <2>1, <2>2 DEF TypeInv, PerProcess
<1>2. CASE \E i \in DOMAIN incidents : ResolveByHand(i)
  <2>1. /\ UNCHANGED <<pc, at, window, result, fresh, claims, evaluations, crashes, now>>
        /\ \E i \in DOMAIN incidents : incidents' = Resolved(incidents, i)
    BY <1>2 DEF ResolveByHand, locals, envVars
  <2> QED BY <2>1 DEF TypeInv, PerProcess
<1>3. CASE \/ \E age \in 0 .. MaxLate, items \in Items : age <= now /\ Report(now - age, items)
           \/ Pause
  <2>1. UNCHANGED <<pc, at, window, result, fresh, claims, evaluations, crashes, now, incidents>>
    BY <1>3 DEF Report, Pause, locals
  <2> QED BY <2>1 DEF TypeInv, PerProcess
<1> QED BY <1>1, <1>2, <1>3 DEF Outside

\* Time passes only as long as every tick may still take some.
LEMMA OutsideWorks ==
    ASSUME TypeInv, WorkInv, Outside
    PROVE  WorkInv'
<1> SUFFICES ASSUME NEW p \in Processes PROVE Work(p)'
  BY DEF WorkInv
<1>1. /\ UNCHANGED <<pc, at, window, result, fresh, claims, evaluations>>
      /\ \/ UNCHANGED now
         \/ now' = now + 1 /\ (pc[p] # "idle" => now - at[p] < MaxStall)
  BY OutsideMoves
<1>2. Work(p)
  BY DEF WorkInv
<1>3. CASE UNCHANGED now
  <2>1. pc[p] \in Busy => window[p].start \in DOMAIN claims
    BY <1>2 DEF Work
  <2> QED BY <1>1, <1>2, <1>3, <2>1, Stays
<1>4. CASE now' = now + 1 /\ (pc[p] # "idle" => now - at[p] < MaxStall)
  <2>1. now \in Nat /\ at[p] \in Int /\ MaxStall \in Nat
    BY Numbers DEF TypeInv
  <2>2. at'[p] <= now' /\ (pc'[p] # "idle" => now' - at'[p] <= MaxStall)
    BY <1>1, <1>2, <1>4, <2>1 DEF Work
  <2>3. /\ Finalized(window[p].start)' <=> Finalized(window[p].start)
        /\ Final(result[p])' <=> Final(result[p])
    BY <1>1 DEF Finalized, Final
  <2> QED BY <1>1, <1>2, <2>2, <2>3 DEF Work
<1> QED BY <1>1, <1>3, <1>4

\* What may happen in a step.
LEMMA Steps ==
    ASSUME [Next]_vars
    PROVE  \/ UNCHANGED vars
           \/ \E p \in Processes :
                 \/ StartTick(p) \/ Claim(p) \/ Write(p)
                 \/ Read(p) \/ Look(p) \/ Recheck(p)
                 \/ Find(p) \/ Open(p) \/ Resolve(p)
                 \/ Release(p) \/ Crash(p)
           \/ Outside
BY DEF Next, Step, Outside

\* What did not change is as it was.
LEMMA StutterWorks ==
    ASSUME TypeInv, WorkInv, UNCHANGED vars
    PROVE  TypeInv' /\ WorkInv'
<1>1. UNCHANGED <<pc, at, window, result, fresh, claims, evaluations, now, crashes>>
  BY DEF vars, locals, envVars
<1>2. TypeInv'
  BY <1>1 DEF TypeInv, PerProcess
<1>3. ASSUME NEW p \in Processes PROVE Work(p)'
  <2>1. Work(p)
    BY DEF WorkInv
  <2>2. pc[p] \in Busy => window[p].start \in DOMAIN claims
    BY <2>1 DEF Work
  <2> QED BY <1>1, <2>1, <2>2, Stays
<1> QED BY <1>2, <1>3 DEF WorkInv

\* Every step keeps ticks under their claims.
LEMMA NextWorks ==
    ASSUME MaxStall <= ClaimTtl
    PROVE  TypeInv /\ WorkInv /\ [Next]_vars => TypeInv' /\ WorkInv'
<1> SUFFICES ASSUME TypeInv, WorkInv, [Next]_vars PROVE TypeInv' /\ WorkInv'
  OBVIOUS
<1>1. CASE UNCHANGED vars
  BY <1>1, StutterWorks
<1>2. CASE Outside
  BY <1>2, OutsideMoves, OutsideWorks
<1>3. ASSUME NEW p \in Processes,
             \/ StartTick(p) \/ Claim(p) \/ Write(p)
             \/ Read(p) \/ Look(p) \/ Recheck(p)
             \/ Find(p) \/ Open(p) \/ Resolve(p)
             \/ Release(p) \/ Crash(p)
      PROVE  TypeInv' /\ WorkInv'
  <2>1. TypeInv'
    BY <1>3, StartMoves, ClaimMoves, WriteMoves, ReadMoves, LookMoves, RecheckMoves,
       IncidentMoves, ReleaseMoves, CrashMoves
  <2>2. WorkInv'
    BY <1>3, StartWorks, ClaimWorks, WriteWorks, LookWorks, IncidentWorks, EndWorks
  <2> QED BY <2>1, <2>2
<1> QED BY <1>1, <1>2, <1>3, Steps

-----------------------------------------------------------------------------
(* One verdict                                                             *)

\* What FinalForGood says of a step.
VerdictsStay ==
    \A s \in DOMAIN evaluations :
       evaluations[s].final => s \in DOMAIN evaluations' /\ evaluations'[s] = evaluations[s]

\* The only step that writes is a tick that has seen no verdict, and nobody else has
\* given one since.
LEMMA WriteKeepsVerdicts ==
    ASSUME TypeInv, WorkInv, NEW p \in Processes, Write(p)
    PROVE  VerdictsStay
<1>1. pc[p] = "write" /\ Work(p)
  BY WriteMoves DEF WorkInv
<1>2. ~Finalized(window[p].start)
  BY <1>1 DEF Work
<1>3. \/ UNCHANGED evaluations
      \/ \E row : evaluations' = Put(evaluations, window[p].start, row)
  BY WriteMoves
<1>4. CASE UNCHANGED evaluations
  BY <1>4 DEF VerdictsStay
<1>5. CASE \E row : evaluations' = Put(evaluations, window[p].start, row)
  <2>1. /\ DOMAIN evaluations \subseteq DOMAIN evaluations'
        /\ \A x \in DOMAIN evaluations : x # window[p].start => evaluations'[x] = evaluations[x]
    BY <1>5 DEF Put
  <2>2. \A x \in DOMAIN evaluations : evaluations[x].final => x # window[p].start
    BY <1>2 DEF Finalized
  <2> QED BY <2>1, <2>2 DEF VerdictsStay
<1> QED BY <1>3, <1>4, <1>5

\* The steps that are no Write leave the evaluations.
LEMMA OnlyWrites ==
    ASSUME TypeInv, [Next]_vars, ~\E p \in Processes : Write(p)
    PROVE  UNCHANGED evaluations
<1>1. CASE UNCHANGED vars
  BY <1>1 DEF vars
<1>2. CASE Outside
  BY <1>2, OutsideMoves
<1>3. ASSUME NEW p \in Processes,
             \/ StartTick(p) \/ Claim(p)
             \/ Read(p) \/ Look(p) \/ Recheck(p)
             \/ Find(p) \/ Open(p) \/ Resolve(p)
             \/ Release(p) \/ Crash(p)
      PROVE  UNCHANGED evaluations
  BY <1>3, StartMoves, ClaimMoves, ReadMoves, LookMoves, RecheckMoves, IncidentMoves,
     ReleaseMoves, CrashMoves
<1> QED BY <1>1, <1>2, <1>3, Steps

\* No step changes a verdict.
LEMMA StepKeepsVerdicts ==
    ASSUME TypeInv, WorkInv, [Next]_vars
    PROVE  VerdictsStay
<1>1. CASE \E p \in Processes : Write(p)
  BY <1>1, WriteKeepsVerdicts
<1>2. CASE ~\E p \in Processes : Write(p)
  BY <1>2, OnlyWrites DEF VerdictsStay
<1> QED BY <1>1, <1>2

\* As long as no tick takes longer than a claim lasts, the verdict on a window is
\* given once and never changes.
THEOREM VerdictOnce == ASSUME MaxStall <= ClaimTtl PROVE Spec => FinalForGood
<1>1. Init => TypeInv /\ WorkInv
  BY InitTypes, InitWork
<1>2. TypeInv /\ WorkInv /\ [Next]_vars => (TypeInv /\ WorkInv)'
  BY NextWorks
<1>3. TypeInv /\ WorkInv /\ [Next]_vars => [VerdictsStay]_vars
  BY StepKeepsVerdicts
<1>4. Spec => [][VerdictsStay]_vars
  BY <1>1, <1>2, <1>3, PTL DEF Spec
<1>5. [VerdictsStay]_vars
        <=> [\A s \in DOMAIN evaluations :
               evaluations[s].final =>
                 s \in DOMAIN evaluations' /\ evaluations'[s] = evaluations[s]]_vars
  BY DEF VerdictsStay
<1> QED BY <1>4, <1>5, PTL DEF FinalForGood

-----------------------------------------------------------------------------
(* The rows of the incidents                                               *)

\* The rows are a sequence, and each is about something.
RowsOK(rows) ==
    /\ rows \in Seq({rows[i] : i \in DOMAIN rows})
    /\ \A i \in DOMAIN rows : "problem" \in DOMAIN rows[i]

\* No row goes away or becomes one about something else.
Keeps(rows, next) ==
    \A i \in DOMAIN rows : i \in DOMAIN next /\ next[i].problem = rows[i].problem

\* A sequence is one of its own elements.
LEMMA OwnElements ==
    ASSUME NEW S, NEW rows \in Seq(S)
    PROVE  rows \in Seq({rows[i] : i \in DOMAIN rows})
OBVIOUS

\* The INSERT of an incident.
LEMMA OpenedRows ==
    ASSUME NEW rows, RowsOK(rows), NEW q, NEW next, next = Opened(rows, q)
    PROVE  /\ RowsOK(next) /\ Keeps(rows, next)
           /\ \E i \in DOMAIN next : next[i].problem = q
           /\ \A i \in DOMAIN next : i \in DOMAIN rows \/ next[i].problem = q
<1>1. PICK row : /\ row = [problem |-> q, status |-> "open", recovered |-> FALSE,
                           acked |-> FALSE, told |-> [e \in Announcement |-> 0],
                           pending |-> 0, age |-> 0]
  OBVIOUS
<1>2. next = Append(rows, row) /\ row.problem = q /\ "problem" \in DOMAIN row
  BY <1>1 DEF Opened
<1>3. PICK S : S = {rows[i] : i \in DOMAIN rows}
  OBVIOUS
<1>4. rows \in Seq(S \cup {row}) /\ rows \in Seq(S)
  BY <1>3 DEF RowsOK
<1>5. /\ next \in Seq(S \cup {row})
      /\ DOMAIN next = DOMAIN rows \cup {Len(rows) + 1} /\ next[Len(rows) + 1] = row
      /\ \A i \in DOMAIN rows : next[i] = rows[i]
  BY <1>2, <1>4
<1>6. next \in Seq({next[i] : i \in DOMAIN next})
  BY <1>5, OwnElements
<1>7. \A i \in DOMAIN next : "problem" \in DOMAIN next[i]
  BY <1>2, <1>5 DEF RowsOK
<1>8. Keeps(rows, next)
  BY <1>5 DEF Keeps
<1>9. /\ \E i \in DOMAIN next : next[i].problem = q
      /\ \A i \in DOMAIN next : i \in DOMAIN rows \/ next[i].problem = q
  BY <1>2, <1>5
<1> QED BY <1>6, <1>7, <1>8, <1>9 DEF RowsOK

\* The UPDATE of one.
LEMMA ResolvedRows ==
    ASSUME NEW rows, RowsOK(rows), NEW i \in DOMAIN rows, NEW next, next = Resolved(rows, i)
    PROVE  RowsOK(next) /\ Keeps(rows, next) /\ DOMAIN next = DOMAIN rows
<1>1. PICK row : row = [rows[i] EXCEPT !.status = "resolved", !.recovered = TRUE]
  OBVIOUS
<1>2. PICK S : S = {rows[j] : j \in DOMAIN rows}
  OBVIOUS
<1>3. rows \in Seq(S)
  BY <1>2 DEF RowsOK
<1>4. "problem" \in DOMAIN rows[i]
  BY DEF RowsOK
<1>5. row.problem = rows[i].problem /\ "problem" \in DOMAIN row
  BY <1>1, <1>4
<1>6. next = [rows EXCEPT ![i] = row]
  BY <1>1, <1>3 DEF Resolved
<1>7. /\ next \in Seq(S \cup {row}) /\ DOMAIN next = DOMAIN rows
      /\ \A j \in DOMAIN rows : next[j] = IF j = i THEN row ELSE rows[j]
  BY <1>3, <1>6
<1>8. next \in Seq({next[j] : j \in DOMAIN next})
  BY <1>7, OwnElements
<1>9. \A j \in DOMAIN next : "problem" \in DOMAIN next[j]
  BY <1>5, <1>7 DEF RowsOK
<1>10. Keeps(rows, next)
  BY <1>5, <1>7 DEF Keeps
<1> QED BY <1>7, <1>8, <1>9, <1>10 DEF RowsOK

\* Some of them are resolved.
LEMMA ResolvedAllRows ==
    ASSUME NEW rows, RowsOK(rows), NEW Hit,
           NEW next, next = [i \in DOMAIN rows |->
                               IF i \in Hit THEN Resolved(rows, i)[i] ELSE rows[i]]
    PROVE  RowsOK(next) /\ Keeps(rows, next) /\ DOMAIN next = DOMAIN rows
<1>1. \A i \in DOMAIN rows : /\ Resolved(rows, i)[i].problem = rows[i].problem
                             /\ "problem" \in DOMAIN Resolved(rows, i)[i]
  BY ResolvedRows DEF Keeps, RowsOK
<1>2. /\ DOMAIN next = DOMAIN rows
      /\ \A i \in DOMAIN rows : /\ next[i].problem = rows[i].problem
                                /\ "problem" \in DOMAIN next[i]
  BY <1>1 DEF RowsOK
<1>3. next \in Seq({next[i] : i \in DOMAIN next})
  <2>1. DOMAIN rows = 1 .. Len(rows) /\ Len(rows) \in Nat
    BY DEF RowsOK
  <2>2. PICK n \in Nat : DOMAIN rows = 1 .. n
    BY <2>1
  <2>3. next = [i \in 1 .. n |-> next[i]]
    BY <2>2
  <2> QED BY <1>2, <2>2, <2>3
<1> QED BY <1>2, <1>3 DEF RowsOK, Keeps

-----------------------------------------------------------------------------
(* The incidents and the verdicts                                          *)

\* What an incident is about is a window and a drift, which is the verdict on it ...
SaysSo(about) ==
    /\ Finalized(about[1])
    /\ about[2] \in Drift(evaluations[about[1]].result)

Said == \A i \in DOMAIN incidents : SaysSo(incidents[i].problem)

\* ... and a drift has its incident, or its tick is about to open it.
Followed ==
    crashes = 0 =>
       \A s \in DOMAIN evaluations : \A t \in Drift(evaluations[s].result) :
          \/ \E i \in DOMAIN incidents : incidents[i].problem = <<s, t>>
          \/ \E p \in Processes : window[p].start = s /\ pc[p] \in {"find", "open"}

IncidentInv == RowsOK(incidents) /\ Said /\ Followed

\* A drift is a verdict.
LEMMA DriftIs ==
    ASSUME NEW r, NEW t \in Drift(r)
    PROVE  /\ t \in DriftType /\ Final(r)
           /\ r = IF t = "volume_below_minimum" THEN "below_minimum" ELSE "above_maximum"
BY DEF Drift, DriftType, Final

\* And a verdict of too little or too much is a drift.
LEMMA DriftOf ==
    ASSUME NEW r, NEW t \in DriftType,
           r = IF t = "volume_below_minimum" THEN "below_minimum" ELSE "above_maximum"
    PROVE  t \in Drift(r)
BY DEF Drift, DriftType

\* Together they are the property.
LEMMA IncidentsAre == IncidentInv => IncidentsMatchVerdicts
<1> SUFFICES ASSUME IncidentInv PROVE IncidentsMatchVerdicts
  OBVIOUS
<1>1. \A i \in DOMAIN incidents :
         LET s == incidents[i].problem[1]
         IN  Finalized(s) /\ incidents[i].problem[2] \in Drift(evaluations[s].result)
  BY DEF IncidentInv, Said, SaysSo
<1>2. ASSUME crashes = 0, NEW s \in DOMAIN evaluations, NEW t \in DriftType,
             evaluations[s].result = IF t = "volume_below_minimum" THEN "below_minimum"
                                     ELSE "above_maximum"
      PROVE  \/ \E i \in DOMAIN incidents : incidents[i].problem = <<s, t>>
             \/ \E p \in Processes : window[p].start = s /\ pc[p] \in {"find", "open"}
  <2>1. t \in Drift(evaluations[s].result)
    BY <1>2, DriftOf
  <2> QED BY <1>2, <2>1 DEF IncidentInv, Followed
<1> QED BY <1>1, <1>2 DEF IncidentsMatchVerdicts

\* At first there is none of them.
LEMMA InitIncidents == Init => IncidentInv
<1> SUFFICES ASSUME Init PROVE IncidentInv
  OBVIOUS
<1>1. incidents = <<>> /\ evaluations = <<>>
  BY DEF Init
<1>2. RowsOK(incidents)
  BY <1>1 DEF RowsOK
<1>3. Said /\ Followed
  BY <1>1 DEF Said, Followed
<1> QED BY <1>2, <1>3 DEF IncidentInv

\* Verdicts that stay keep what is said about them.
LEMMA SaidStays ==
    ASSUME Said, VerdictsStay, DOMAIN incidents' = DOMAIN incidents, Keeps(incidents, incidents')
    PROVE  Said'
<1> SUFFICES ASSUME NEW i \in DOMAIN incidents, NEW about, about = incidents'[i].problem
             PROVE  SaysSo(about)'
  BY DEF Said, SaysSo, Finalized
<1>1. SaysSo(about)
  BY DEF Keeps, Said
<1>2. about[1] \in DOMAIN evaluations /\ evaluations[about[1]].final
  BY <1>1 DEF SaysSo, Finalized
<1>3. about[1] \in DOMAIN evaluations' /\ evaluations'[about[1]] = evaluations[about[1]]
  BY <1>2 DEF VerdictsStay
<1> QED BY <1>1, <1>2, <1>3 DEF SaysSo, Finalized

\* A step of a tick that is not about to open anything.
LEMMA FollowedStays ==
    ASSUME Followed, UNCHANGED <<evaluations, crashes>>, Keeps(incidents, incidents'),
           \A p \in Processes : pc[p] \in {"find", "open"} =>
              window'[p] = window[p] /\ pc'[p] = pc[p]
    PROVE  Followed'
<1> SUFFICES ASSUME crashes = 0, NEW s \in DOMAIN evaluations,
                    NEW t \in Drift(evaluations[s].result)
             PROVE  \/ \E i \in DOMAIN incidents' : incidents'[i].problem = <<s, t>>
                    \/ \E p \in Processes : window'[p].start = s /\ pc'[p] \in {"find", "open"}
  BY DEF Followed
<1>1. CASE \E i \in DOMAIN incidents : incidents[i].problem = <<s, t>>
  BY <1>1 DEF Keeps
<1>2. CASE \E p \in Processes : window[p].start = s /\ pc[p] \in {"find", "open"}
  BY <1>2
<1> QED BY <1>1, <1>2 DEF Followed

\* A step of a tick that is: its window has its incident, or it is still about to.
LEMMA FollowedMoves ==
    ASSUME Followed, UNCHANGED <<evaluations, crashes>>, Keeps(incidents, incidents'),
           NEW p \in Processes, Others(p),
           \A t \in Drift(evaluations[window[p].start].result) :
              \/ \E i \in DOMAIN incidents' : incidents'[i].problem = <<window[p].start, t>>
              \/ window'[p] = window[p] /\ pc'[p] \in {"find", "open"}
    PROVE  Followed'
<1> SUFFICES ASSUME crashes = 0, NEW s \in DOMAIN evaluations,
                    NEW t \in Drift(evaluations[s].result)
             PROVE  \/ \E i \in DOMAIN incidents' : incidents'[i].problem = <<s, t>>
                    \/ \E q \in Processes : window'[q].start = s /\ pc'[q] \in {"find", "open"}
  BY DEF Followed
<1>1. CASE \E i \in DOMAIN incidents : incidents[i].problem = <<s, t>>
  BY <1>1 DEF Keeps
<1>2. ASSUME NEW q \in Processes, window[q].start = s, pc[q] \in {"find", "open"}
      PROVE  \/ \E i \in DOMAIN incidents' : incidents'[i].problem = <<s, t>>
             \/ \E r \in Processes : window'[r].start = s /\ pc'[r] \in {"find", "open"}
  <2>1. CASE q = p
    BY <1>2, <2>1
  <2>2. CASE q # p
    BY <1>2, <2>2 DEF Others
  <2> QED BY <2>1, <2>2
<1> QED BY <1>1, <1>2 DEF Followed

\* Rows that do not change.
LEMMA SameRows ==
    ASSUME UNCHANGED incidents
    PROVE  Keeps(incidents, incidents') /\ DOMAIN incidents' = DOMAIN incidents
BY DEF Keeps

\* The steps that leave incidents and evaluations alone and open nothing.
LEMMA QuietSteps ==
    ASSUME TypeInv, IncidentInv, NEW p \in Processes,
           \/ StartTick(p) \/ Claim(p) \/ Read(p) \/ Look(p) \/ Recheck(p) \/ Release(p)
    PROVE  IncidentInv'
<1>1. /\ Others(p) /\ UNCHANGED <<crashes, evaluations, incidents>>
      /\ pc[p] \in {"idle", "claim", "read", "look", "recheck", "release"}
  BY StartMoves, ClaimMoves, ReadMoves, LookMoves, RecheckMoves, ReleaseMoves
<1>2. RowsOK(incidents)'
  BY <1>1 DEF IncidentInv
<1>3. Said'
  <2>1. VerdictsStay
    BY <1>1 DEF VerdictsStay
  <2> QED BY <1>1, <2>1, SameRows, SaidStays DEF IncidentInv
<1>4. Followed'
  <2>1. \A q \in Processes : pc[q] \in {"find", "open"} =>
           window'[q] = window[q] /\ pc'[q] = pc[q]
    BY <1>1 DEF Others
  <2> QED BY <1>1, <2>1, SameRows, FollowedStays DEF IncidentInv
<1> QED BY <1>2, <1>3, <1>4 DEF IncidentInv

\* A process that dies excuses the incident that is missing.
LEMMA CrashIncidents ==
    ASSUME TypeInv, IncidentInv, NEW p \in Processes, Crash(p)
    PROVE  IncidentInv'
<1>1. crashes' # 0 /\ UNCHANGED <<evaluations, incidents>>
  BY CrashMoves
<1>2. Said'
  <2>1. VerdictsStay
    BY <1>1 DEF VerdictsStay
  <2> QED BY <1>1, <2>1, SameRows, SaidStays DEF IncidentInv
<1>3. RowsOK(incidents)'
  BY <1>1 DEF IncidentInv
<1>4. Followed'
  BY <1>1 DEF Followed
<1> QED BY <1>2, <1>3, <1>4 DEF IncidentInv

\* The verdict that has just been written is not yet an incident, and its tick is
\* about to see to that.
LEMMA WriteIncidents ==
    ASSUME TypeInv, WorkInv, IncidentInv, NEW p \in Processes, Write(p)
    PROVE  IncidentInv'
<1>1. /\ Others(p) /\ pc[p] = "write" /\ UNCHANGED <<crashes, locals, incidents>>
      /\ \/ pc'[p] = "release" /\ UNCHANGED evaluations
         \/ /\ pc'[p] = "find"
            /\ \E row : evaluations' = Put(evaluations, window[p].start, row)
  BY WriteMoves
<1>2. RowsOK(incidents)'
  BY <1>1 DEF IncidentInv
<1>3. Said'
  BY <1>1, WriteKeepsVerdicts, SameRows, SaidStays DEF IncidentInv
<1>4. Followed'
  <2>1. CASE UNCHANGED evaluations
    <3>1. \A q \in Processes : pc[q] \in {"find", "open"} =>
             window'[q] = window[q] /\ pc'[q] = pc[q]
      BY <1>1 DEF Others
    <3> QED BY <1>1, <2>1, <3>1, SameRows, FollowedStays DEF IncidentInv
  <2>2. CASE pc'[p] = "find" /\ \E row : evaluations' = Put(evaluations, window[p].start, row)
    <3>1. /\ DOMAIN evaluations' = DOMAIN evaluations \cup {window[p].start}
          /\ \A x \in DOMAIN evaluations :
                x # window[p].start => evaluations'[x] = evaluations[x]
      BY <2>2 DEF Put
    <3>2. window'[p] = window[p]
      BY <1>1 DEF locals
    <3> SUFFICES ASSUME crashes = 0, NEW s \in DOMAIN evaluations',
                        NEW t \in Drift(evaluations'[s].result)
                 PROVE  \/ \E i \in DOMAIN incidents' : incidents'[i].problem = <<s, t>>
                        \/ \E q \in Processes :
                              window'[q].start = s /\ pc'[q] \in {"find", "open"}
      BY <1>1 DEF Followed
    <3>3. CASE s = window[p].start
      BY <2>2, <3>2, <3>3
    <3>4. CASE s # window[p].start
      <4>1. s \in DOMAIN evaluations /\ t \in Drift(evaluations[s].result)
        BY <3>1, <3>4
      <4>2. CASE \E i \in DOMAIN incidents : incidents[i].problem = <<s, t>>
        BY <1>1, <4>2
      <4>3. CASE \E q \in Processes : window[q].start = s /\ pc[q] \in {"find", "open"}
        <5>1. PICK q \in Processes : window[q].start = s /\ pc[q] \in {"find", "open"}
          BY <4>3
        <5>2. q # p
          BY <1>1, <5>1
        <5> QED BY <1>1, <5>1, <5>2 DEF Others
      <4> QED BY <4>1, <4>2, <4>3 DEF IncidentInv, Followed
    <3> QED BY <3>3, <3>4
  <2> QED BY <1>1, <2>1, <2>2
<1> QED BY <1>2, <1>3, <1>4 DEF IncidentInv

\* A tick finds the incident of its verdict, or is about to open it.
LEMMA FindIncidents ==
    ASSUME TypeInv, WorkInv, IncidentInv, NEW p \in Processes, Find(p)
    PROVE  IncidentInv'
<1>1. /\ Others(p) /\ UNCHANGED <<crashes, locals, evaluations>>
      /\ pc[p] = "find" /\ pc'[p] \in {"open", "resolve"}
  BY IncidentMoves DEF Find
<1>2. /\ UNCHANGED <<incidents, window>>
      /\ Goto(p, IF \E t \in Drift(result[p]) : Unresolved(incidents, Problem(p, t)) = {}
                 THEN "open" ELSE "resolve")
  BY DEF Find, locals
<1>3. pc'[p] = "resolve" =>
         \A t \in Drift(result[p]) : Unresolved(incidents, Problem(p, t)) # {}
  <2>1. pc'[p] = IF \E t \in Drift(result[p]) : Unresolved(incidents, Problem(p, t)) = {}
                 THEN "open" ELSE "resolve"
    BY <1>2 DEF Goto, TypeInv
  <2> QED BY <2>1
<1>4. evaluations[window[p].start].result = result[p]
  BY <1>1 DEF WorkInv, Work
<1>5. Followed'
  <2>1. ASSUME NEW t \in Drift(evaluations[window[p].start].result)
        PROVE  \/ \E i \in DOMAIN incidents' : incidents'[i].problem = <<window[p].start, t>>
               \/ window'[p] = window[p] /\ pc'[p] \in {"find", "open"}
    <3>1. CASE pc'[p] = "open"
      BY <1>2, <3>1
    <3>2. CASE pc'[p] = "resolve"
      <4>1. PICK i : i \in Unresolved(incidents, Problem(p, t))
        BY <1>3, <1>4, <3>2
      <4>2. i \in DOMAIN incidents /\ incidents[i].problem = <<window[p].start, t>>
        BY <4>1 DEF Unresolved, Problem
      <4> QED BY <1>2, <4>2
    <3> QED BY <1>1, <3>1, <3>2
  <2> QED BY <1>1, <1>2, <2>1, SameRows, FollowedMoves DEF IncidentInv
<1>6. Said'
  <2>1. VerdictsStay
    BY <1>1 DEF VerdictsStay
  <2> QED BY <1>2, <2>1, SameRows, SaidStays DEF IncidentInv
<1> QED BY <1>2, <1>5, <1>6 DEF IncidentInv

\* It opens the incident, about the verdict it has written.
LEMMA OpenIncidents ==
    ASSUME TypeInv, WorkInv, IncidentInv, NEW p \in Processes, Open(p)
    PROVE  IncidentInv'
<1>1. /\ Others(p) /\ UNCHANGED <<crashes, locals, evaluations>> /\ pc[p] = "open"
  BY IncidentMoves DEF Open
<1>2. PICK s, t : /\ s = window[p].start /\ t \in Drift(result[p])
                  /\ incidents' = IF Unresolved(incidents, Problem(p, t)) = {}
                                  THEN Opened(incidents, Problem(p, t)) ELSE incidents
  BY DEF Open
<1>3. PICK about : about = <<s, t>> /\ about = Problem(p, t)
  BY <1>2 DEF Problem
<1>4. /\ s \in DOMAIN evaluations /\ evaluations[s].result = result[p]
      /\ evaluations[s].final = Final(result[p])
  BY <1>1, <1>2 DEF WorkInv, Work
<1>5. Finalized(s)' /\ t \in Drift(evaluations'[s].result)
  <2>1. Final(result[p])
    BY <1>2, DriftIs
  <2> QED BY <1>1, <1>2, <1>4, <2>1 DEF Finalized
<1>6. /\ RowsOK(incidents)' /\ Keeps(incidents, incidents')
      /\ \E i \in DOMAIN incidents' : incidents'[i].problem = about
      /\ \A i \in DOMAIN incidents' : i \in DOMAIN incidents \/ incidents'[i].problem = about
  <2>0. RowsOK(incidents)
    BY DEF IncidentInv
  <2>1. CASE Unresolved(incidents, about) = {}
    <3>1. PICK rows, next : rows = incidents /\ next = incidents' /\ next = Opened(rows, about)
      BY <1>2, <1>3, <2>1
    <3>2. RowsOK(rows)
      BY <2>0, <3>1
    <3>3. RowsOK(next) /\ Keeps(rows, next)
      BY <3>1, <3>2, OpenedRows
    <3>4. /\ \E i \in DOMAIN next : next[i].problem = about
          /\ \A i \in DOMAIN next : i \in DOMAIN rows \/ next[i].problem = about
      BY <3>1, <3>2, OpenedRows
    <3>5. RowsOK(incidents)'
      BY <3>1, <3>3 DEF RowsOK
    <3> QED BY <3>1, <3>3, <3>4, <3>5
  <2>2. CASE Unresolved(incidents, about) # {}
    <3>1. UNCHANGED incidents
      BY <1>2, <1>3, <2>2
    <3>2. \E i \in DOMAIN incidents : incidents[i].problem = about
      BY <2>2 DEF Unresolved
    <3> QED BY <2>0, <3>1, <3>2, SameRows DEF RowsOK
  <2> QED BY <2>1, <2>2
<1>7. Followed'
  <2>1. ASSUME NEW u \in Drift(evaluations[window[p].start].result)
        PROVE  \E i \in DOMAIN incidents' : incidents'[i].problem = <<window[p].start, u>>
    <3>1. u = t
      BY <1>2, <1>4, <2>1 DEF Drift, DriftType
    <3> QED BY <1>2, <1>3, <1>6, <3>1
  <2> QED BY <1>1, <1>6, <2>1, FollowedMoves DEF IncidentInv
<1>8. Said'
  <2> SUFFICES ASSUME NEW i \in DOMAIN incidents', NEW that, that = incidents'[i].problem
               PROVE  SaysSo(that)'
    BY DEF Said, SaysSo, Finalized
  <2>1. CASE that = about
    <3>1. that[1] = s /\ that[2] = t
      BY <1>3, <2>1
    <3> QED BY <1>5, <3>1 DEF SaysSo, Finalized
  <2>2. CASE i \in DOMAIN incidents
    <3>1. SaysSo(that)
      BY <1>6, <2>2 DEF Keeps, IncidentInv, Said
    <3> QED BY <1>1, <3>1 DEF SaysSo, Finalized
  <2> QED BY <1>6, <2>1, <2>2
<1> QED BY <1>6, <1>7, <1>8 DEF IncidentInv

\* Whoever resolves incidents keeps their rows.
LEMMA ResolveIncidents ==
    ASSUME TypeInv, IncidentInv, NEW p \in Processes, Resolve(p)
    PROVE  IncidentInv'
<1>1. /\ Others(p) /\ UNCHANGED <<crashes, locals, evaluations>> /\ pc[p] = "resolve"
  BY IncidentMoves DEF Resolve
<1>2. RowsOK(incidents)' /\ Keeps(incidents, incidents') /\ DOMAIN incidents' = DOMAIN incidents
  <2>0. RowsOK(incidents)
    BY DEF IncidentInv
  <2>1. CASE UNCHANGED incidents
    BY <2>0, <2>1, SameRows DEF RowsOK
  <2>2. CASE ~UNCHANGED incidents
    <3>1. PICK rows, next, Hit :
             /\ rows = incidents /\ next = incidents'
             /\ Hit = {i \in DOMAIN rows :
                          \E t \in DriftType : i \in Unresolved(rows, Problem(p, t))}
      OBVIOUS
    <3>2. next = [i \in DOMAIN rows |-> IF i \in Hit THEN Resolved(rows, i)[i] ELSE rows[i]]
      BY <2>2, <3>1 DEF Resolve
    <3>3. RowsOK(next) /\ Keeps(rows, next) /\ DOMAIN next = DOMAIN rows
      BY <2>0, <3>1, <3>2, ResolvedAllRows
    <3> QED BY <3>1, <3>3 DEF RowsOK
  <2> QED BY <2>1, <2>2
<1>3. VerdictsStay
  BY <1>1 DEF VerdictsStay
<1>4. \A q \in Processes : pc[q] \in {"find", "open"} =>
         window'[q] = window[q] /\ pc'[q] = pc[q]
  BY <1>1 DEF Others
<1> QED BY <1>1, <1>2, <1>3, <1>4, SaidStays, FollowedStays DEF IncidentInv

\* And so does the rest of the world.
LEMMA OutsideIncidents ==
    ASSUME TypeInv, IncidentInv, Outside
    PROVE  IncidentInv'
<1>1. /\ UNCHANGED <<pc, window, evaluations, crashes>>
      /\ \/ UNCHANGED incidents
         \/ \E i \in DOMAIN incidents : incidents' = Resolved(incidents, i)
  BY OutsideMoves
<1>2. RowsOK(incidents)' /\ Keeps(incidents, incidents') /\ DOMAIN incidents' = DOMAIN incidents
  <2>0. RowsOK(incidents)
    BY DEF IncidentInv
  <2>1. CASE UNCHANGED incidents
    BY <2>0, <2>1, SameRows DEF RowsOK
  <2>2. CASE \E i \in DOMAIN incidents : incidents' = Resolved(incidents, i)
    <3>1. PICK rows, next, i : /\ rows = incidents /\ next = incidents' /\ i \in DOMAIN rows
                               /\ next = Resolved(rows, i)
      BY <2>2
    <3>2. RowsOK(next) /\ Keeps(rows, next) /\ DOMAIN next = DOMAIN rows
      BY <2>0, <3>1, ResolvedRows
    <3> QED BY <3>1, <3>2 DEF RowsOK
  <2> QED BY <1>1, <2>1, <2>2
<1>3. VerdictsStay
  BY <1>1 DEF VerdictsStay
<1> QED BY <1>1, <1>2, <1>3, SaidStays, FollowedStays DEF IncidentInv

\* Every step keeps incidents and verdicts together.
LEMMA NextIncidents ==
    TypeInv /\ WorkInv /\ IncidentInv /\ [Next]_vars => IncidentInv'
<1> SUFFICES ASSUME TypeInv, WorkInv, IncidentInv, [Next]_vars PROVE IncidentInv'
  OBVIOUS
<1>1. CASE UNCHANGED vars
  <2>1. UNCHANGED <<pc, window, evaluations, crashes, incidents>>
    BY <1>1 DEF vars, locals, envVars
  <2>2. VerdictsStay /\ RowsOK(incidents)'
    BY <2>1 DEF VerdictsStay, IncidentInv
  <2> QED BY <2>1, <2>2, SameRows, SaidStays, FollowedStays DEF IncidentInv
<1>2. CASE Outside
  BY <1>2, OutsideIncidents
<1>3. ASSUME NEW p \in Processes,
             \/ StartTick(p) \/ Claim(p) \/ Write(p)
             \/ Read(p) \/ Look(p) \/ Recheck(p)
             \/ Find(p) \/ Open(p) \/ Resolve(p)
             \/ Release(p) \/ Crash(p)
      PROVE  IncidentInv'
  BY <1>3, QuietSteps, WriteIncidents, FindIncidents, OpenIncidents, ResolveIncidents,
     CrashIncidents
<1> QED BY <1>1, <1>2, <1>3, Steps

\* As long as no tick takes longer than a claim lasts, an incident about a window says
\* what the verdict says, and a drift has its incident unless a process has died.
THEOREM VerdictsMatched == ASSUME MaxStall <= ClaimTtl PROVE Spec => []IncidentsMatchVerdicts
<1>1. Init => TypeInv /\ WorkInv /\ IncidentInv
  BY InitTypes, InitWork, InitIncidents
<1>2. TypeInv /\ WorkInv /\ IncidentInv /\ [Next]_vars => (TypeInv /\ WorkInv /\ IncidentInv)'
  BY NextWorks, NextIncidents
<1> QED BY <1>1, <1>2, IncidentsAre, PTL DEF Spec

-----------------------------------------------------------------------------
(* Adding up                                                               *)

\* A set of natural numbers that is not empty has a least one.
LEMMA LeastOf ==
    ASSUME NEW T, T \subseteq Nat, T # {}
    PROVE  \E n \in T : \A m \in T : n <= m
<1> DEFINE R == OpToRel(<, Nat)
<1>1. IsWellFoundedOn(R, Nat)
  BY NatLessThanWellFounded
<1> HIDE DEF R
<1>2. \E x \in T : \A y \in T : ~(<<y, x>> \in R)
  BY <1>1, WFMin
<1>3. \A x \in T, y \in T : <<y, x>> \in R <=> y < x
  BY DEF R, OpToRel
<1>4. PICK x \in T : \A y \in T : ~(y < x)
  BY <1>2, <1>3
<1>5. \A m \in T : x <= m
  BY <1>4
<1> QED BY <1>4, <1>5

\* Induction, for a set of numbers.
LEMMA Induction ==
    ASSUME NEW T, T \subseteq Nat, 0 \in T, \A n \in T : n + 1 \in T
    PROVE  T = Nat
<1> SUFFICES ASSUME Nat \ T # {} PROVE FALSE
  OBVIOUS
<1>1. PICK n \in Nat \ T : \A m \in Nat \ T : n <= m
  BY LeastOf
<1>2. n # 0 /\ n - 1 \in Nat
  BY <1>1
<1>3. n - 1 \in T
  BY <1>1, <1>2
<1> QED BY <1>1, <1>2, <1>3

\* What report n adds.
Adds(rows, S, n) == IF n \in S THEN rows[n].items ELSE 0

\* g has the sums of the first m reports.
Sums(g, m, rows, S) ==
    /\ g = [n \in 0 .. m |-> g[n]]
    /\ g[0] = 0
    /\ \A n \in 1 .. m : g[n] = g[n - 1] + Adds(rows, S, n)

\* There are such sums.
LEMMA SumsExist ==
    ASSUME NEW rows, NEW S, NEW m \in Nat
    PROVE  \E g : Sums(g, m, rows, S)
<1> DEFINE T == {k \in Nat : \E g : Sums(g, k, rows, S)}
<1>1. 0 \in T
  <2> DEFINE g == [n \in 0 .. 0 |-> 0]
  <2>1. Sums(g, 0, rows, S)
    BY DEF Sums
  <2> QED BY <2>1
<1>2. ASSUME NEW k \in T PROVE k + 1 \in T
  <2>1. PICK g : Sums(g, k, rows, S)
    BY <1>2
  <2> DEFINE h == [n \in 0 .. k + 1 |->
                     IF n = k + 1 THEN g[k] + Adds(rows, S, k + 1) ELSE g[n]]
  <2>2. k \in Nat
    OBVIOUS
  <2>3. h = [n \in 0 .. k + 1 |-> h[n]] /\ h[0] = 0
    BY <2>1, <2>2 DEF Sums
  <2>4. ASSUME NEW n \in 1 .. k + 1 PROVE h[n] = h[n - 1] + Adds(rows, S, n)
    <3>1. CASE n = k + 1
      BY <2>2, <3>1
    <3>2. CASE n # k + 1
      <4>1. n \in 1 .. k /\ n - 1 \in 0 .. k + 1 /\ n - 1 # k + 1
        BY <2>2, <3>2
      <4>2. g[n] = g[n - 1] + Adds(rows, S, n)
        BY <2>1, <4>1 DEF Sums
      <4> QED BY <3>2, <4>1, <4>2
    <3> QED BY <3>1, <3>2
  <2>5. Sums(h, k + 1, rows, S)
    BY <2>3, <2>4 DEF Sums
  <2> QED BY <2>2, <2>5
<1> HIDE DEF T
<1>3. T \subseteq Nat
  BY DEF T
<1>4. T = Nat
  BY <1>1, <1>2, <1>3, Induction
<1> QED BY <1>4 DEF T

\* And the loop ends with the last of them.
LEMMA AddUpIs ==
    ASSUME NEW rows, NEW S, Len(rows) \in Nat
    PROVE  \E g : Sums(g, Len(rows), rows, S) /\ AddUp(rows, S) = g[Len(rows)]
<1> DEFINE Loop(f) == f = [n \in 0 .. Len(rows) |->
                             IF n = 0 THEN 0
                             ELSE f[n - 1] + (IF n \in S THEN rows[n].items ELSE 0)]
           sum == CHOOSE f : Loop(f)
<1>1. PICK g : Sums(g, Len(rows), rows, S)
  BY SumsExist
<1>2. Loop(g)
  <2>1. \A n \in 0 .. Len(rows) :
           g[n] = IF n = 0 THEN 0
                  ELSE g[n - 1] + (IF n \in S THEN rows[n].items ELSE 0)
    BY <1>1 DEF Sums, Adds
  <2> QED BY <1>1, <2>1 DEF Sums
<1>3. Loop(sum)
  BY <1>2
<1>4. AddUp(rows, S) = sum[Len(rows)]
  BY DEF AddUp
<1> HIDE DEF sum
<1>5. Sums(sum, Len(rows), rows, S)
  <2>1. sum = [n \in 0 .. Len(rows) |-> sum[n]]
    BY <1>3
  <2>2. sum[0] = 0
    BY <1>3
  <2>3. \A n \in 1 .. Len(rows) : sum[n] = sum[n - 1] + Adds(rows, S, n)
    BY <1>3 DEF Adds
  <2> QED BY <2>1, <2>2, <2>3 DEF Sums
<1> QED BY <1>4, <1>5

\* More reports of natural numbers do not add up to less, and the same ones to
\* the same.
LEMMA AddUpGrows ==
    ASSUME NEW rows, NEW next, Len(rows) \in Nat, Len(next) \in Nat, Len(rows) <= Len(next),
           NEW S, NEW T, S \subseteq 1 .. Len(rows), S \subseteq T,
           \A n \in T : n \in 1 .. Len(next) /\ next[n].items \in Nat,
           \A n \in S : rows[n] = next[n]
    PROVE  /\ AddUp(rows, S) \in Nat /\ AddUp(next, T) \in Nat
           /\ AddUp(rows, S) <= AddUp(next, T)
           /\ T \subseteq S => AddUp(next, T) <= AddUp(rows, S)
<1>1. PICK l \in Nat : l = Len(rows)
  OBVIOUS
<1>2. PICK m \in Nat : m = Len(next)
  OBVIOUS
<1>3. PICK g : Sums(g, Len(rows), rows, S) /\ AddUp(rows, S) = g[Len(rows)]
  BY AddUpIs
<1>4. PICK h : Sums(h, Len(next), next, T) /\ AddUp(next, T) = h[Len(next)]
  BY AddUpIs
<1>5. /\ Sums(g, l, rows, S) /\ Sums(h, m, next, T) /\ l <= m /\ S \subseteq 1 .. l
      /\ \A n \in T : n \in 1 .. m /\ next[n].items \in Nat
  BY <1>1, <1>2, <1>3, <1>4
<1> DEFINE G(n) == IF n <= l THEN g[n] ELSE g[l]
           A == {n \in Nat : n <= m => /\ G(n) \in Nat /\ h[n] \in Nat /\ G(n) <= h[n]
                                       /\ S = T => G(n) = h[n]}
<1>6. 0 \in A
  BY <1>5 DEF Sums
<1>7. ASSUME NEW n \in A PROVE n + 1 \in A
  <2>1. n \in Nat
    OBVIOUS
  <2> SUFFICES ASSUME n + 1 <= m
               PROVE  /\ G(n + 1) \in Nat /\ h[n + 1] \in Nat /\ G(n + 1) <= h[n + 1]
                      /\ S = T => G(n + 1) = h[n + 1]
    BY <2>1
  <2>2. G(n) \in Nat /\ h[n] \in Nat /\ G(n) <= h[n] /\ (S = T => G(n) = h[n])
    BY <1>5, <2>1
  <2>3. n + 1 \in 1 .. m /\ (n + 1) - 1 = n
    BY <1>5, <2>1
  <2>4. h[n + 1] = h[n] + Adds(next, T, n + 1)
    BY <1>5, <2>3 DEF Sums
  <2>5. Adds(next, T, n + 1) \in Nat
    BY <1>5 DEF Adds
  <2>6. CASE n + 1 <= l
    <3>0. n + 1 \in 1 .. l
      BY <1>5, <2>1, <2>6
    <3>1. g[n + 1] = g[n] + Adds(rows, S, n + 1)
      BY <1>5, <2>3, <3>0 DEF Sums
    <3>2. /\ Adds(rows, S, n + 1) \in Nat /\ Adds(rows, S, n + 1) <= Adds(next, T, n + 1)
          /\ S = T => Adds(rows, S, n + 1) = Adds(next, T, n + 1)
      BY <1>5, <2>1 DEF Adds
    <3>3. G(n) = g[n] /\ G(n + 1) = g[n + 1]
      BY <2>1, <2>6
    <3> QED
      <4> HIDE DEF G
      <4> QED BY <2>2, <2>4, <2>5, <3>1, <3>2, <3>3
  <2>7. CASE ~(n + 1 <= l)
    <3>1. n + 1 \notin S
      BY <1>5, <2>1, <2>7
    <3>2. S = T => Adds(next, T, n + 1) = 0
      BY <3>1 DEF Adds
    <3>3. G(n + 1) = G(n)
      BY <1>5, <2>1, <2>7
    <3> QED
      <4> HIDE DEF G
      <4> QED BY <2>2, <2>4, <2>5, <3>2, <3>3
  <2> QED BY <2>6, <2>7
<1> HIDE DEF A
<1>8. A \subseteq Nat
  BY DEF A
<1>9. A = Nat
  BY <1>6, <1>7, <1>8, Induction
<1>10. m \in A
  BY <1>9
<1>11. G(m) = g[l]
  BY <1>5
<1> HIDE DEF G
<1>12. T \subseteq S => S = T
  OBVIOUS
<1> QED BY <1>10, <1>11, <1>12, <1>1, <1>2, <1>3, <1>4 DEF A

-----------------------------------------------------------------------------
(* The calendar                                                            *)

\* The last instant of S up to t.
LEMMA LastUpTo ==
    ASSUME NEW S, S \subseteq Nat, NEW t \in Int, NEW e \in S, e <= t
    PROVE  /\ Max({m \in S : m <= t}) \in S /\ Max({m \in S : m <= t}) <= t
           /\ \A m \in S : m <= t => m <= Max({k \in S : k <= t})
<1> DEFINE U == {m \in S : m <= t}
           T == {n \in Nat : t - n \in U}
<1>1. T \subseteq Nat /\ t - e \in T
  OBVIOUS
<1>2. PICK n \in T : \A k \in T : n <= k
  <2> HIDE DEF T
  <2> QED BY <1>1, LeastOf
<1>3. t - n \in U /\ \A m \in U : m <= t - n
  <2>1. ASSUME NEW m \in U PROVE m <= t - n
    <3>1. m \in Int /\ m <= t /\ t - (t - m) = m
      OBVIOUS
    <3>2. t - m \in T
      BY <3>1
    <3>3. n \in Int
      OBVIOUS
    <3>4. n <= t - m
      <4> HIDE DEF T
      <4> QED BY <1>2, <3>2
    <3> QED BY <3>1, <3>3, <3>4
  <2> QED BY <1>2, <2>1
<1>4. \E x \in U : \A y \in U : x >= y
  BY <1>3
<1>5. Max(U) \in U /\ \A y \in U : Max(U) >= y
  BY <1>4 DEF Max
<1> QED BY <1>5

\* The first instant of S after t.
LEMMA FirstAfter ==
    ASSUME NEW S, S \subseteq Nat, NEW t \in Int, NEW l \in S, l > t
    PROVE  /\ Min({m \in S : m > t}) \in S /\ Min({m \in S : m > t}) > t
           /\ \A m \in S : m > t => Min({k \in S : k > t}) <= m
<1> DEFINE U == {m \in S : m > t}
<1>1. \E x \in U : \A y \in U : x <= y
  <2>1. U \subseteq Nat /\ l \in U
    OBVIOUS
  <2> HIDE DEF U
  <2> QED BY <2>1, LeastOf
<1>2. Min(U) \in U /\ \A y \in U : Min(U) <= y
  BY <1>1 DEF Min
<1> QED BY <1>2

\* Where a window that starts at t ends, but for weeks.
EndOf(t) == IF windowType = "daily" THEN t + DayLength ELSE Min({m \in Firsts : m > t})

\* The end of a window is an instant, and what its start says.
EndFits(start, end) ==
    /\ end \in Int
    /\ windowType # "weekly" => end = EndOf(start)

\* The calendar about the clock.
LEMMA Calendar ==
    /\ Midnights \subseteq Nat /\ Firsts \subseteq Nat /\ Firsts \subseteq Midnights
    /\ DayLength \in Nat /\ WeekLength \in Nat /\ WeekLength > 0
    /\ \E m, n \in Firsts : m + WeekLength * DayLength <= n /\ m < n /\ n <= Begin
    /\ \E m \in Firsts : m > End
<1>1. /\ Midnights \subseteq Nat /\ Firsts \subseteq Nat /\ Firsts \subseteq Midnights
      /\ DayLength \in Nat \ {0} /\ WeekLength \in Nat \ {0}
  BY VolumeAssumption
<1>2. PICK m \in Firsts, n \in Firsts : m + WeekLength * DayLength <= n /\ n <= Begin
  BY VolumeAssumption
<1>3. WeekLength * DayLength \in Nat \ {0}
  BY <1>1, SMT
<1> DEFINE k == WeekLength * DayLength
<1>4. k \in Nat \ {0} /\ m + k <= n
  BY <1>2, <1>3
<1> HIDE DEF k
<1>5. m < n
  BY <1>1, <1>4
<1>6. \E l \in Firsts : l > End
  BY VolumeAssumption
<1> QED BY <1>1, <1>2, <1>5, <1>6

\* The day of an instant.
LEMMA DayOf ==
    ASSUME NEW t \in Int, NEW e \in Midnights, e <= t
    PROVE  /\ LocalMidnight(t) \in Midnights /\ LocalMidnight(t) \in Nat
           /\ e <= LocalMidnight(t) /\ LocalMidnight(t) <= t
           /\ \A m \in Midnights : m <= t => m <= LocalMidnight(t)
BY Calendar, LastUpTo DEF LocalMidnight

\* The days of a week that are over are fewer than it has.
LEMMA DaysBefore ==
    ASSUME NEW t \in Int
    PROVE  Weekday(t) \in 0 .. WeekLength - 1
<1>1. IsFiniteSet({m \in Midnights : m <= t})
  <2>1. {m \in Midnights : m <= t} \subseteq Midnights /\ IsFiniteSet(Midnights)
    BY VolumeAssumption
  <2> QED BY <2>1, FS_Subset
<1>2. PICK n \in Nat : n = Cardinality({m \in Midnights : m <= t})
  BY <1>1, FS_CardinalityType
<1>3. Weekday(t) = (n - 1) % WeekLength
  BY <1>2 DEF Weekday
<1>4. WeekLength \in Nat /\ WeekLength > 0
  BY Calendar
<1> QED BY <1>2, <1>3, <1>4

\* The window of an instant ends where it should.
LEMMA CurrentEnds ==
    ASSUME windowType \in WindowTypes, NEW t \in Begin .. End
    PROVE  /\ CurrentWindow(t).start \in Int
           /\ EndFits(CurrentWindow(t).start, CurrentWindow(t).end)
           /\ windowType = "daily" =>
                 CurrentWindow(t).start \in Midnights
           /\ windowType = "monthly" =>
                 /\ CurrentWindow(t).start \in Firsts
                 /\ \E m \in Firsts : m < CurrentWindow(t).start
<1>1. t \in Int /\ Begin <= t /\ t <= End /\ Begin \in Nat /\ End \in Nat
  BY Numbers
<1>2. PICK m \in Firsts, n \in Firsts :
         m + WeekLength * DayLength <= n /\ m < n /\ n <= Begin
  BY Calendar
<1>3. PICK l \in Firsts : l > End
  BY Calendar
<1>4. /\ m \in Nat /\ n \in Nat /\ l \in Nat /\ m \in Midnights /\ n \in Midnights
      /\ n <= t /\ l > t
  BY <1>1, <1>2, <1>3, Calendar
<1>5. /\ LocalMidnight(t) \in Midnights /\ LocalMidnight(t) \in Nat /\ n <= LocalMidnight(t)
  BY <1>1, <1>4, DayOf
<1>6. CASE windowType = "daily"
  <2>1. CurrentWindow(t) = [start |-> LocalMidnight(t), end |-> AddDays(t, 1)]
    BY <1>6 DEF CurrentWindow
  <2>2. AddDays(t, 1) = LocalMidnight(t) + DayLength
    BY Calendar DEF AddDays
  <2> QED BY <1>5, <1>6, <2>1, <2>2, Calendar DEF EndFits, EndOf
<1>7. CASE windowType = "weekly"
  <2> DEFINE start == AddDays(t, -Weekday(t))
  <2>1. /\ CurrentWindow(t).start = start
        /\ CurrentWindow(t).end = AddDays(start, WeekLength)
    BY <1>7 DEF CurrentWindow
  <2>2. PICK d \in Nat : d = Weekday(t) /\ d <= WeekLength
    BY <1>1, DaysBefore, Calendar
  <2>3. start = LocalMidnight(t) + (-d) * DayLength
    BY <2>2 DEF AddDays
  <2>4. d * DayLength <= WeekLength * DayLength /\ (-d) * DayLength = -(d * DayLength)
    BY <2>2, Calendar
  <2>5. d * DayLength \in Nat /\ WeekLength * DayLength \in Nat
    BY <2>2, Calendar
  <2>6. start \in Int /\ m <= start
    <3> DEFINE x == d * DayLength
               y == WeekLength * DayLength
    <3>1. x \in Nat /\ y \in Nat /\ x <= y /\ m + y <= n /\ start = LocalMidnight(t) + -x
      BY <1>2, <2>3, <2>4, <2>5
    <3> HIDE DEF x, y, start
    <3> QED BY <1>4, <1>5, <3>1
  <2> HIDE DEF start
  <2>7. LocalMidnight(start) \in Nat
    BY <1>4, <2>6, DayOf
  <2>8. AddDays(start, WeekLength) \in Int
    BY <2>5, <2>7 DEF AddDays
  <2> QED BY <1>7, <2>1, <2>6, <2>8 DEF EndFits
<1>8. CASE windowType = "monthly"
  <2>1. CurrentWindow(t) = [start |-> FirstOfMonth(t), end |-> Min({k \in Firsts : k > t})]
    BY <1>8 DEF CurrentWindow
  <2>2. /\ FirstOfMonth(t) \in Firsts /\ FirstOfMonth(t) <= t /\ n <= FirstOfMonth(t)
        /\ \A k \in Firsts : k <= t => k <= FirstOfMonth(t)
    BY <1>1, <1>4, Calendar, LastUpTo DEF FirstOfMonth
  <2>3. FirstOfMonth(t) \in Nat
    BY <2>2, Calendar
  <2>4. {k \in Firsts : k > t} = {k \in Firsts : k > FirstOfMonth(t)}
    <3>1. ASSUME NEW k \in Firsts PROVE k > t <=> k > FirstOfMonth(t)
      <4>1. k \in Nat
        BY Calendar
      <4> QED BY <1>1, <2>2, <2>3, <4>1
    <3> QED BY <3>1
  <2>5. Min({k \in Firsts : k > t}) \in Firsts
    BY <1>1, <1>3, <1>4, Calendar, FirstAfter
  <2>6. PICK e : e = Min({k \in Firsts : k > t})
    OBVIOUS
  <2>7. e \in Int
    <3>1. e \in Firsts
      BY <2>5, <2>6
    <3> QED BY <3>1, Calendar
  <2>8. e = EndOf(FirstOfMonth(t))
    BY <1>8, <2>4, <2>6 DEF EndOf
  <2>9. EndFits(FirstOfMonth(t), e)
    BY <2>7, <2>8 DEF EndFits
  <2>10. m < FirstOfMonth(t)
    BY <1>2, <1>4, <2>2, <2>3
  <2>11. CurrentWindow(t).start = FirstOfMonth(t) /\ CurrentWindow(t).end = e
    BY <2>1, <2>6
  <2> QED BY <1>8, <2>2, <2>3, <2>9, <2>10, <2>11
<1> QED BY <1>6, <1>7, <1>8, VolumeAssumption

\* And so does the window that is evaluated at an instant.
LEMMA WindowEnds ==
    ASSUME windowType \in WindowTypes, NEW t \in Begin .. End
    PROVE  EndFits(WindowFor(t).start, WindowFor(t).end)
<1>1. PICK c : c = CurrentWindow(t).start
  OBVIOUS
<1>2. /\ c \in Int
      /\ EndFits(CurrentWindow(t).start, CurrentWindow(t).end)
      /\ windowType = "daily" => c \in Midnights
      /\ windowType = "monthly" => c \in Firsts /\ \E m \in Firsts : m < c
  BY <1>1, CurrentEnds
<1>3. WindowFor(t) = CurrentWindow(t) \/ WindowFor(t) = PreviousWindow(c)
  BY <1>1 DEF WindowFor
<1>4. PreviousWindow(c).end = c
  BY DEF PreviousWindow
<1>5. EndFits(PreviousWindow(c).start, c)
  <2>1. CASE windowType = "daily"
    <3>1. PreviousWindow(c).start = AddDays(c, -1)
      BY <2>1 DEF PreviousWindow
    <3>2. LocalMidnight(c) = c
      <4>1. c <= LocalMidnight(c) /\ LocalMidnight(c) <= c /\ LocalMidnight(c) \in Nat
        BY <1>2, <2>1, DayOf
      <4> QED BY <1>2, <4>1
    <3>3. AddDays(c, -1) = c + (-1) * DayLength
      BY <3>2 DEF AddDays
    <3>4. AddDays(c, -1) + DayLength = c
      BY <1>2, <3>3, Calendar
    <3> QED BY <1>2, <2>1, <3>1, <3>4 DEF EndFits, EndOf
  <2>2. CASE windowType = "weekly"
    BY <1>2, <2>2 DEF EndFits
  <2>3. CASE windowType = "monthly"
    <3>1. PICK a : a = FirstOfMonth(c - 1)
      OBVIOUS
    <3>2. PreviousWindow(c).start = a
      BY <2>3, <3>1 DEF PreviousWindow
    <3>3. PICK m \in Firsts : m < c
      BY <1>2, <2>3
    <3>4. \A k \in Firsts : k \in Nat
      BY Calendar
    <3>5. c - 1 \in Int /\ m <= c - 1
      BY <1>2, <3>3, <3>4
    <3>6. a \in Firsts /\ a <= c - 1 /\ \A k \in Firsts : k <= c - 1 => k <= a
      BY <3>1, <3>5, Calendar, LastUpTo DEF FirstOfMonth
    <3>7. PICK b : b = Min({k \in Firsts : k > a})
      OBVIOUS
    <3>8. a \in Int /\ c > a /\ c \in Firsts
      BY <1>2, <2>3, <3>4, <3>6
    <3>9. b \in Firsts /\ b > a /\ b <= c
      BY <3>7, <3>8, Calendar, FirstAfter
    <3>10. b = c
      BY <1>2, <3>4, <3>6, <3>8, <3>9
    <3> QED BY <1>2, <2>3, <3>2, <3>7, <3>10 DEF EndFits, EndOf
  <2> QED BY <2>1, <2>2, <2>3, VolumeAssumption
<1> QED BY <1>2, <1>3, <1>4, <1>5

-----------------------------------------------------------------------------
(* Verdicts and reports                                                    *)

Reported == [executed : Int, received : Int, items : Nat \cup {NoCount}]

\* What counts among the rows for a window, and what of it came in time.
CountedOf(rows, start, end) ==
    {i \in DOMAIN rows : /\ start <= rows[i].executed /\ rows[i].executed < end
                         /\ ActivatedAt <= rows[i].executed}

TimelyOf(rows, start, end) ==
    {i \in CountedOf(rows, start, end) : rows[i].received < end + Grace}

KnownOf(rows, S) == {i \in S : rows[i].items # NoCount}

SumOf(rows, S) == AddUp(rows, KnownOf(rows, S))

\* Verdict r on a window is given by instant t, and agrees with the rows.
Fair(rows, t, start, end, r) ==
    LET timely == TimelyOf(rows, start, end)
        counted == CountedOf(rows, start, end)
    IN  /\ r # "collecting" => end + Grace <= t
        /\ r = "below_minimum" => SumOf(rows, timely) < Minimum
        /\ r = "above_maximum" => SumOf(rows, counted) > Maximum
        /\ r = "within_band" => /\ SumOf(rows, timely) <= Maximum
                                /\ Minimum <= SumOf(rows, counted)
                                /\ KnownOf(rows, timely) = timely
        /\ r = "inconclusive" => KnownOf(rows, counted) # counted

\* The numbers of the rule.
LEMMA RuleNumbers == Grace \in Nat /\ Minimum \in Nat /\ Maximum \in Nat
BY VolumeAssumption

\* A verdict stays fair as time passes.
LEMMA FairLater ==
    ASSUME NEW rows, NEW t \in Int, NEW u \in Int, t <= u, NEW start, NEW end \in Int, NEW r,
           Fair(rows, t, start, end, r)
    PROVE  Fair(rows, u, start, end, r)
<1>1. r # "collecting" => end + Grace <= t
  BY DEF Fair
<1>2. r # "collecting" => end + Grace <= u
  BY <1>1, RuleNumbers
<1> QED BY <1>2 DEF Fair

\* And as reports are added: they count, but they are late.
LEMMA FairGrows ==
    ASSUME NEW rows \in Seq(Reported), NEW t \in Int, NEW start, NEW end \in Int, NEW r,
           Fair(rows, t, start, end, r),
           NEW row \in Reported, row.received = t,
           NEW next, next = Append(rows, row)
    PROVE  Fair(next, t, start, end, r)
<1>1. PICK l \in Nat : l = Len(rows)
  OBVIOUS
<1>2. /\ next \in Seq(Reported) /\ Len(next) = l + 1 /\ next[l + 1] = row
      /\ DOMAIN rows = 1 .. l /\ DOMAIN next = 1 .. l + 1
      /\ \A i \in 1 .. l : next[i] = rows[i]
  BY <1>1
<1>3. \A i \in 1 .. l + 1 : next[i].items \in Nat \cup {NoCount}
  <2>1. \A i \in 1 .. l + 1 : next[i] \in Reported
    BY <1>2
  <2> QED BY <2>1 DEF Reported
<1> SUFFICES ASSUME r # "collecting" PROVE Fair(next, t, start, end, r)
  BY DEF Fair
<1>4. end + Grace <= t
  BY DEF Fair
<1> DEFINE C == CountedOf(rows, start, end)
           D == CountedOf(next, start, end)
           T == TimelyOf(rows, start, end)
           U == TimelyOf(next, start, end)
<1>5. C \subseteq D /\ C \subseteq 1 .. l /\ D \subseteq 1 .. l + 1 /\ T \subseteq C
  BY <1>2 DEF CountedOf, TimelyOf
<1>6. U = T
  <2>1. ~(row.received < end + Grace)
    BY <1>4, RuleNumbers
  <2>2. l + 1 \notin U
    BY <1>2, <2>1 DEF TimelyOf
  <2>3. \A i \in 1 .. l : i \in U <=> i \in T
    BY <1>2 DEF TimelyOf, CountedOf
  <2>4. U \subseteq 1 .. l + 1 /\ T \subseteq 1 .. l
    BY <1>5 DEF TimelyOf
  <2>5. \A i \in 1 .. l + 1 : i = l + 1 \/ i \in 1 .. l
    BY <1>1
  <2>6. \A i : i \in U <=> i \in T
    <3> HIDE DEF U, T, C, D
    <3> QED BY <2>2, <2>3, <2>4, <2>5
  <2> HIDE DEF U, T, C, D
  <2> QED BY <2>6
<1> HIDE DEF C, D, T, U
<1>7. KnownOf(next, T) = KnownOf(rows, T) /\ KnownOf(rows, C) \subseteq KnownOf(next, D)
  BY <1>2, <1>5 DEF KnownOf
<1>8. \A n \in KnownOf(next, D) : n \in 1 .. Len(next) /\ next[n].items \in Nat
  BY <1>2, <1>3, <1>5 DEF KnownOf
<1>9. /\ Len(rows) \in Nat /\ Len(next) \in Nat /\ Len(rows) <= Len(next)
  BY <1>1, <1>2
<1>10. /\ SumOf(rows, C) \in Nat /\ SumOf(next, D) \in Nat /\ SumOf(rows, C) <= SumOf(next, D)
  <2>1. KnownOf(rows, C) \subseteq 1 .. Len(rows)
    BY <1>1, <1>5 DEF KnownOf
  <2>2. \A n \in KnownOf(rows, C) : rows[n] = next[n]
    BY <1>2, <1>5 DEF KnownOf
  <2>3. PICK S, Z : S = KnownOf(rows, C) /\ Z = KnownOf(next, D)
    OBVIOUS
  <2>4. /\ S \subseteq 1 .. Len(rows) /\ S \subseteq Z /\ \A n \in S : rows[n] = next[n]
        /\ \A n \in Z : n \in 1 .. Len(next) /\ next[n].items \in Nat
    BY <1>7, <1>8, <2>1, <2>2, <2>3
  <2>5. AddUp(rows, S) \in Nat /\ AddUp(next, Z) \in Nat /\ AddUp(rows, S) <= AddUp(next, Z)
    BY <1>9, <2>4, AddUpGrows
  <2> QED BY <2>3, <2>5 DEF SumOf
<1>11. SumOf(rows, T) = SumOf(next, T)
  <2>1. KnownOf(rows, T) \subseteq 1 .. Len(rows)
    BY <1>1, <1>5 DEF KnownOf
  <2>2. \A n \in KnownOf(rows, T) : rows[n] = next[n]
    BY <1>2, <1>5 DEF KnownOf
  <2>3. \A n \in KnownOf(rows, T) : n \in 1 .. Len(next) /\ next[n].items \in Nat
    BY <1>5, <1>7, <1>8 DEF KnownOf
  <2>4. PICK S, Z : S = KnownOf(rows, T) /\ Z = S
    OBVIOUS
  <2>5. /\ S \subseteq 1 .. Len(rows) /\ S \subseteq Z /\ \A n \in S : rows[n] = next[n]
        /\ \A n \in Z : n \in 1 .. Len(next) /\ next[n].items \in Nat
    BY <2>1, <2>2, <2>3, <2>4
  <2>6. /\ AddUp(rows, S) \in Nat /\ AddUp(next, Z) \in Nat
        /\ AddUp(rows, S) <= AddUp(next, Z)
        /\ Z \subseteq S => AddUp(next, Z) <= AddUp(rows, S)
    BY <1>9, <2>5, AddUpGrows
  <2>7. AddUp(rows, S) = AddUp(next, S)
    BY <2>4, <2>6
  <2> QED BY <1>7, <2>4, <2>7 DEF SumOf
<1>12. KnownOf(rows, C) # C => KnownOf(next, D) # D
  BY <1>2, <1>5 DEF KnownOf
<1>13. Fair(rows, t, start, end, r)
  OBVIOUS
<1>14. /\ r = "below_minimum" => SumOf(rows, T) < Minimum
       /\ r = "above_maximum" => SumOf(rows, C) > Maximum
       /\ r = "within_band" => /\ SumOf(rows, T) <= Maximum
                               /\ Minimum <= SumOf(rows, C)
                               /\ KnownOf(rows, T) = T
       /\ r = "inconclusive" => KnownOf(rows, C) # C
  BY <1>13 DEF Fair, C, T
<1>15. /\ r = "below_minimum" => SumOf(next, U) < Minimum
       /\ r = "above_maximum" => SumOf(next, D) > Maximum
       /\ r = "within_band" => /\ SumOf(next, U) <= Maximum
                               /\ Minimum <= SumOf(next, D)
                               /\ KnownOf(next, U) = U
       /\ r = "inconclusive" => KnownOf(next, D) # D
  BY <1>6, <1>7, <1>10, <1>11, <1>12, <1>14, RuleNumbers
<1> QED BY <1>4, <1>15 DEF Fair, D, U

\* The verdict of an evaluation is fair.
LEMMA FairRead ==
    ASSUME reports \in Seq(Reported), NEW w, w.end \in Int, NEW t \in Int
    PROVE  Fair(reports, t, w.start, w.end, Band(w, t))
<1>0. PICK rows : rows = reports /\ rows \in Seq(Reported)
  OBVIOUS
<1>1. PICK l \in Nat : rows = reports /\ l = Len(rows) /\ DOMAIN rows = 1 .. l
  BY <1>0
<1> DEFINE C == CountedOf(rows, w.start, w.end)
           T == TimelyOf(rows, w.start, w.end)
<1>2. /\ C \subseteq 1 .. l /\ T \subseteq C
      /\ \A i \in 1 .. l : rows[i].items \in Nat \cup {NoCount}
  <2>1. \A i \in 1 .. l : rows[i] \in Reported
    BY <1>0, <1>1
  <2> QED BY <1>1, <2>1 DEF CountedOf, TimelyOf, Reported
<1>3. Counted(w) = C /\ \A S : Known(S) = KnownOf(rows, S) /\ ItemsOf(S) = AddUp(rows, S)
  BY <1>1 DEF Counted, CountedOf, Known, KnownOf, ItemsOf
<1> SUFFICES ASSUME ~FirstPartial(w), ~(t < Deadline(w))
             PROVE  Fair(reports, t, w.start, w.end, Measured(w))
  <2>1. CASE FirstPartial(w) \/ t < Deadline(w)
    BY <2>1 DEF Band, Fair
  <2> QED BY <2>1 DEF Band
<1>4. w.end + Grace <= t
  BY RuleNumbers DEF Deadline
<1> HIDE DEF C, T
<1>5. CASE KnownOf(rows, C) # C
  <2>1. TotalOf(w) = NoCount
    BY <1>3, <1>5 DEF TotalOf
  <2>2. Measured(w) = "inconclusive"
    BY <2>1, RuleNumbers DEF Measured, NoCount
  <2> QED BY <1>1, <1>4, <1>5, <2>2 DEF Fair, C
<1>6. CASE KnownOf(rows, C) = C
  <2>1. TotalOf(w) = AddUp(rows, C)
    BY <1>3, <1>6 DEF TotalOf
  <2>2. \A n \in C : n \in 1 .. Len(rows) /\ rows[n].items \in Nat
    BY <1>1, <1>2, <1>6 DEF KnownOf
  <2>3. KnownOf(rows, T) = T
    BY <1>2, <1>6 DEF KnownOf
  <2>4. AddUp(rows, T) \in Nat /\ AddUp(rows, C) \in Nat /\ AddUp(rows, T) <= AddUp(rows, C)
    <3>1. PICK S, Z : S = T /\ Z = C
      OBVIOUS
    <3>2. /\ Len(rows) \in Nat /\ Len(rows) <= Len(rows)
          /\ S \subseteq 1 .. Len(rows) /\ S \subseteq Z /\ \A n \in S : rows[n] = rows[n]
          /\ \A n \in Z : n \in 1 .. Len(rows) /\ rows[n].items \in Nat
      BY <1>1, <1>2, <2>2, <3>1
    <3>3. AddUp(rows, S) \in Nat /\ AddUp(rows, Z) \in Nat /\ AddUp(rows, S) <= AddUp(rows, Z)
      BY <3>2, AddUpGrows
    <3> QED BY <3>1, <3>3
  <2>5. PICK n \in Nat, k \in Nat : n = AddUp(rows, C) /\ k = AddUp(rows, T) /\ k <= n
    BY <2>4
  <2>6. /\ Measured(w) \in {"below_minimum", "within_band", "above_maximum"}
        /\ Measured(w) = "below_minimum" => n < Minimum
        /\ Measured(w) = "within_band" => Minimum <= n /\ n <= Maximum
        /\ Measured(w) = "above_maximum" => n > Maximum
    <3>1. TotalOf(w) = n /\ n # NoCount
      BY <2>1, <2>5 DEF NoCount
    <3>2. n < Minimum \/ n \in Minimum .. Maximum \/ n > Maximum
      BY <2>5, RuleNumbers
    <3> QED BY <2>5, <3>1, <3>2, RuleNumbers DEF Measured
  <2>7. SumOf(rows, C) = n /\ SumOf(rows, T) = k
    BY <1>6, <2>3, <2>5 DEF SumOf
  <2>8. Fair(rows, t, w.start, w.end, Measured(w))
    BY <1>4, <2>3, <2>5, <2>6, <2>7, RuleNumbers DEF Fair, C, T
  <2> QED BY <1>1, <2>8
<1> QED BY <1>5, <1>6

\* What process p has found out about its window.
Pending(p) ==
    /\ pc[p] # "idle" => EndFits(window[p].start, window[p].end)
    /\ pc[p] \in {"look", "recheck", "write"} =>
          Fair(reports, now, window[p].start, window[p].end, result[p])

\* What the row of the window that starts at s says.
RowSays(s) ==
    /\ EndFits(s, evaluations[s].about)
    /\ windowType # "weekly" => evaluations[s].end = EndOf(s)
    /\ Fair(reports, now, s, evaluations[s].about, evaluations[s].result)

FairInv ==
    /\ windowType \in WindowTypes
    /\ now \in Begin .. End
    /\ reports \in Seq(Reported)
    /\ \A p \in Processes : at[p] <= now
    /\ \A p \in Processes : Pending(p)
    /\ \A s \in DOMAIN evaluations : RowSays(s)

\* Which is what the property asks for.
LEMMA VerdictsAreFair == FairInv => VerdictIsFair
<1> SUFFICES ASSUME FairInv, NEW s \in DOMAIN evaluations, NEW row, row = evaluations[s],
                    NEW w, w = [start |-> s, end |-> row.about]
             PROVE  /\ windowType # "weekly" => row.end = row.about
                    /\ row.result = "below_minimum" => Sum(InTime(w)) < Minimum
                    /\ row.result = "above_maximum" => Sum(Counted(w)) > Maximum
                    /\ row.result = "within_band" =>
                         /\ Sum(InTime(w)) <= Maximum /\ Minimum <= Sum(Counted(w))
                         /\ Known(InTime(w)) = InTime(w)
                    /\ row.result = "inconclusive" => Known(Counted(w)) # Counted(w)
  BY DEF VerdictIsFair
<1>1. RowSays(s)
  BY DEF FairInv
<1>2. w.start = s /\ w.end = row.about
  OBVIOUS
<1>3. Counted(w) = CountedOf(reports, s, row.about)
  BY <1>2 DEF Counted, CountedOf
<1>4. InTime(w) = TimelyOf(reports, s, row.about)
  BY <1>2, <1>3 DEF InTime, TimelyOf, Deadline
<1>5. \A S : Known(S) = KnownOf(reports, S) /\ Sum(S) = SumOf(reports, S)
  BY DEF Known, KnownOf, Sum, SumOf, ItemsOf
<1>6. Fair(reports, now, s, row.about, row.result)
  BY <1>1 DEF RowSays
<1>7. windowType # "weekly" => row.end = row.about
  BY <1>1 DEF RowSays, EndFits
<1> QED BY <1>3, <1>4, <1>5, <1>6, <1>7 DEF Fair

\* It holds at first.
LEMMA InitFair == Init => FairInv
<1> SUFFICES ASSUME Init PROVE FairInv
  OBVIOUS
<1>1. /\ windowType \in WindowTypes /\ now = Begin /\ reports = <<>> /\ evaluations = <<>>
      /\ at \in [Processes -> (Begin - TickEvery) .. (Begin - 1)]
      /\ pc = [p \in Processes |-> "idle"]
  BY DEF Init
<1>2. PICK begin, end : begin = Begin /\ end = End /\ now \in begin .. end
  <2>1. Begin \in Nat /\ End \in Nat /\ Begin <= End
    BY VolumeAssumption
  <2> QED BY <1>1, <2>1
<1>3. now \in Begin .. End
  BY <1>2
<1>4. \A p \in Processes : at[p] <= now
  BY <1>1, Numbers
<1>5. \A p \in Processes : Pending(p)
  BY <1>1 DEF Pending
<1>6. DOMAIN evaluations = {}
  BY <1>1
<1>7. reports \in Seq(Reported)
  BY <1>1
<1> QED BY <1>1, <1>3, <1>4, <1>5, <1>6, <1>7 DEF FairInv

\* Process p knows what it knew.
LEMMA PendingStays ==
    ASSUME NEW p \in Processes, Pending(p), UNCHANGED <<windowType, reports, now>>,
           pc'[p] # "idle" => pc[p] # "idle" /\ window'[p] = window[p],
           pc'[p] \in {"look", "recheck", "write"} =>
              pc[p] \in {"look", "recheck", "write"} /\ result'[p] = result[p]
    PROVE  Pending(p)'
BY DEF Pending, EndFits, EndOf, Fair

\* And so does the row of a window.
LEMMA ToldStays ==
    ASSUME NEW s, RowSays(s), UNCHANGED <<windowType, reports, now>>,
           evaluations'[s] = evaluations[s]
    PROVE  RowSays(s)'
BY DEF RowSays, EndFits, EndOf, Fair

\* A step of process p keeps all verdicts fair if it keeps its own so.
LEMMA StepFair ==
    ASSUME TypeInv, FairInv, NEW p \in Processes, Others(p),
           UNCHANGED <<windowType, reports, now>>,
           at'[p] <= now, Pending(p)', \A s \in DOMAIN evaluations' : RowSays(s)'
    PROVE  FairInv'
<1>1. ASSUME NEW q \in Processes PROVE at'[q] <= now' /\ Pending(q)'
  <2>1. CASE q = p
    BY <2>1
  <2>2. CASE q # p
    <3>1. /\ pc'[q] = pc[q] /\ at'[q] = at[q] /\ window'[q] = window[q]
          /\ result'[q] = result[q]
      BY <2>2 DEF Others
    <3>2. at[q] <= now /\ Pending(q)
      BY DEF FairInv
    <3> QED BY <3>1, <3>2, PendingStays
  <2> QED BY <2>1, <2>2
<1>2. windowType' \in WindowTypes /\ now' \in Begin .. End /\ reports' \in Seq(Reported)
  BY DEF FairInv
<1> QED BY <1>1, <1>2 DEF FairInv

\* A tick begins with the window of its instant.
LEMMA StartFair ==
    ASSUME TypeInv, FairInv, NEW p \in Processes, StartTick(p)
    PROVE  FairInv'
<1>1. /\ UNCHANGED <<windowType, reports, now, evaluations>>
      /\ Others(p) /\ at'[p] = now /\ pc'[p] \in {"idle", "claim"}
  BY StartMoves DEF StartTick, envVars
<1>2. pc'[p] # "idle" => window'[p] = WindowFor(now)
  <2>1. CASE active
    BY <2>1 DEF StartTick, TypeInv, PerProcess
  <2>2. CASE ~active
    BY <2>2 DEF StartTick
  <2> QED BY <2>1, <2>2
<1>3. PICK start, end : start = WindowFor(now).start /\ end = WindowFor(now).end
  OBVIOUS
<1>4. EndFits(start, end)
  BY <1>3, WindowEnds DEF FairInv
<1>5. Pending(p)'
  BY <1>1, <1>2, <1>3, <1>4 DEF Pending, EndFits, EndOf
<1>6. \A s \in DOMAIN evaluations' : RowSays(s)'
  BY <1>1, ToldStays DEF FairInv
<1>7. now \in Nat
  BY DEF TypeInv
<1> QED BY <1>1, <1>5, <1>6, <1>7, StepFair

\* What is read gives a fair verdict.
LEMMA ReadFair ==
    ASSUME TypeInv, FairInv, NEW p \in Processes, Read(p)
    PROVE  FairInv'
<1>1. /\ UNCHANGED <<windowType, reports, now, evaluations, at, window>>
      /\ Others(p) /\ pc[p] = "read" /\ pc'[p] = "look"
  BY ReadMoves DEF Read, envVars
<1>2. result'[p] = Band(window[p], at[p])
  BY DEF Read, TypeInv, PerProcess
<1>3. /\ EndFits(window[p].start, window[p].end) /\ reports \in Seq(Reported) /\ at[p] <= now
  BY <1>1 DEF FairInv, Pending
<1>4. PICK w, t, r, u, rows : /\ w = window[p] /\ t = at[p] /\ r = Band(w, t) /\ u = now
                              /\ rows = reports
  OBVIOUS
<1>5. t \in Int /\ u \in Int /\ t <= u /\ w.end \in Int
  BY <1>3, <1>4 DEF TypeInv, EndFits
<1>6. Fair(rows, t, w.start, w.end, r)
  BY <1>3, <1>4, <1>5, FairRead
<1>7. Fair(rows, u, w.start, w.end, r)
  BY <1>5, <1>6, FairLater
<1>8. Pending(p)'
  BY <1>1, <1>2, <1>3, <1>4, <1>7 DEF Pending, EndFits, EndOf
<1>9. \A s \in DOMAIN evaluations' : RowSays(s)'
  BY <1>1, ToldStays DEF FairInv
<1> QED BY <1>1, <1>3, <1>8, <1>9, StepFair

\* And what is written is what was read.
LEMMA WriteFair ==
    ASSUME TypeInv, FairInv, NEW p \in Processes, Write(p)
    PROVE  FairInv'
<1>1. /\ UNCHANGED <<windowType, reports, now, at, window, result>>
      /\ Others(p) /\ pc[p] = "write" /\ pc'[p] \in {"release", "find"}
  BY WriteMoves DEF Write, envVars, locals
<1>2. Pending(p) /\ at[p] <= now
  BY DEF FairInv
<1>3. Pending(p)'
  BY <1>1, <1>2, PendingStays
<1> DEFINE start == window[p].start
           old == start \in DOMAIN evaluations
           row == [end |-> IF old THEN evaluations[start].end ELSE window[p].end,
                   about |-> window[p].end, result |-> result[p], total |-> total[p],
                   final |-> Final(result[p])]
<1>4. \/ UNCHANGED evaluations
      \/ evaluations' = Put(evaluations, start, row)
  BY DEF Write
<1>5. ASSUME NEW s \in DOMAIN evaluations' PROVE RowSays(s)'
  <2>1. CASE s \in DOMAIN evaluations /\ evaluations'[s] = evaluations[s]
    BY <1>1, <2>1, ToldStays DEF FairInv
  <2>2. CASE s = start /\ evaluations'[s] = row
    <3>1. EndFits(s, row.about) /\ Fair(reports, now, s, row.about, row.result)
      BY <1>1, <1>2, <2>2 DEF Pending
    <3>2. windowType # "weekly" => row.end = EndOf(s)
      <4>1. CASE old
        <5>1. RowSays(s)
          BY <2>2, <4>1 DEF FairInv
        <5> QED BY <2>2, <4>1, <5>1 DEF RowSays
      <4>2. CASE ~old
        BY <3>1, <4>2 DEF EndFits
      <4> QED BY <4>1, <4>2
    <3> HIDE DEF row
    <3> QED BY <1>1, <2>2, <3>1, <3>2 DEF RowSays, EndFits, EndOf, Fair
  <2>3. \/ s \in DOMAIN evaluations /\ evaluations'[s] = evaluations[s]
        \/ s = start /\ evaluations'[s] = row
    <3> HIDE DEF row
    <3> QED BY <1>4 DEF Put
  <2> QED BY <2>1, <2>2, <2>3
<1> QED BY <1>1, <1>2, <1>3, <1>5, StepFair

\* The other steps of a tick change neither.
LEMMA OtherFair ==
    ASSUME TypeInv, FairInv, NEW p \in Processes,
           \/ Claim(p) \/ Look(p) \/ Recheck(p) \/ Find(p) \/ Open(p) \/ Resolve(p)
           \/ Release(p) \/ Crash(p)
    PROVE  FairInv'
<1>1. /\ UNCHANGED <<windowType, reports, now, evaluations, at>> /\ Others(p)
      /\ pc[p] # "idle"
  <2>1. CASE Claim(p) \/ Look(p) \/ Recheck(p)
    BY <2>1, ClaimMoves, LookMoves, RecheckMoves DEF Claim, Look, Recheck, envVars, locals
  <2>2. CASE Find(p) \/ Open(p) \/ Resolve(p)
    BY <2>2, IncidentMoves DEF Find, Open, Resolve, envVars, locals
  <2>3. CASE Release(p) \/ Crash(p)
    BY <2>3, ReleaseMoves, CrashMoves DEF Release, Crash, envVars, Forget
  <2> QED BY <2>1, <2>2, <2>3
<1>2. /\ pc'[p] # "idle" => window'[p] = window[p]
      /\ pc'[p] \in {"look", "recheck", "write"} =>
            pc[p] \in {"look", "recheck", "write"} /\ result'[p] = result[p]
  <2>1. CASE Claim(p)
    BY <2>1, ClaimMoves DEF locals
  <2>2. CASE Look(p)
    BY <2>2, LookMoves DEF locals
  <2>3. CASE Recheck(p)
    BY <2>3, RecheckMoves
  <2>4. CASE Find(p) \/ Open(p) \/ Resolve(p)
    BY <2>4, IncidentMoves DEF locals
  <2>5. CASE Release(p) \/ Crash(p)
    BY <2>5, ReleaseMoves, CrashMoves
  <2> QED BY <2>1, <2>2, <2>3, <2>4, <2>5
<1>3. Pending(p) /\ at'[p] <= now
  BY <1>1 DEF FairInv
<1>4. Pending(p)'
  BY <1>1, <1>2, <1>3, PendingStays
<1>5. \A s \in DOMAIN evaluations' : RowSays(s)'
  BY <1>1, ToldStays DEF FairInv
<1> QED BY <1>1, <1>3, <1>4, <1>5, StepFair

\* Time passes, and what is reported now is late for every verdict.
LEMMA OutsideFair ==
    ASSUME TypeInv, FairInv, Outside
    PROVE  FairInv'
<1>1. /\ UNCHANGED <<windowType, pc, at, window, result, evaluations>>
      /\ now \in Nat
  BY OutsideMoves DEF Outside, Report, ResolveByHand, Pause, Time, envVars, TypeInv
<1>2. PICK rows, next, t, u : /\ rows = reports /\ next = reports' /\ t = now /\ u = now'
  OBVIOUS
<1>3. /\ rows \in Seq(Reported) /\ next \in Seq(Reported) /\ u \in Begin .. End
      /\ t \in Int /\ u \in Int /\ t <= u
      /\ \/ next = rows
         \/ \E row \in Reported : row.received = t /\ next = Append(rows, row)
  <2>0. rows \in Seq(Reported) /\ t \in Begin .. End
    BY <1>2 DEF FairInv
  <2>1. CASE Time
    <3>1. now < End /\ now' = now + 1 /\ reports' = reports
      BY <2>1 DEF Time
    <3> QED BY <1>1, <1>2, <2>0, <3>1, Numbers
  <2>2. CASE (\E i \in DOMAIN incidents : ResolveByHand(i)) \/ Pause
    <3>1. UNCHANGED <<now, reports>>
      BY <2>2 DEF ResolveByHand, Pause, envVars
    <3> QED BY <1>1, <1>2, <2>0, <3>1
  <2>3. CASE \E age \in 0 .. MaxLate, items \in Items : age <= now /\ Report(now - age, items)
    <3>1. PICK age \in 0 .. MaxLate, items \in Items : Report(now - age, items)
      BY <2>3
    <3>2. PICK row : row = [executed |-> now - age, received |-> now, items |-> items]
      OBVIOUS
    <3>3. next = Append(rows, row) /\ u = t
      BY <1>2, <3>1, <3>2 DEF Report
    <3>4. age \in Int /\ items \in Nat \cup {NoCount}
      BY VolumeAssumption
    <3>5. row \in Reported /\ row.received = t
      BY <1>1, <1>2, <3>2, <3>4 DEF Reported
    <3>6. next \in Seq(Reported)
      BY <2>0, <3>3, <3>5
    <3> QED BY <1>1, <1>2, <2>0, <3>3, <3>5, <3>6
  <2> QED BY <2>1, <2>2, <2>3 DEF Outside
<1>4. ASSUME NEW start, NEW end \in Int, NEW r, Fair(rows, t, start, end, r)
      PROVE  Fair(next, u, start, end, r)
  <2>1. Fair(next, t, start, end, r)
    BY <1>3, <1>4, FairGrows
  <2> QED BY <1>3, <2>1, FairLater
<1>5. ASSUME NEW p \in Processes PROVE at'[p] <= now' /\ Pending(p)'
  <2>1. at[p] <= now /\ at[p] \in Int /\ Pending(p)
    BY DEF FairInv, TypeInv
  <2>2. at'[p] <= now'
    BY <1>1, <1>2, <1>3, <2>1
  <2>3. PICK start, end, r : /\ start = window[p].start /\ end = window[p].end
                             /\ r = result[p]
    OBVIOUS
  <2>4. CASE pc[p] \in {"look", "recheck", "write"}
    <3>1. end \in Int /\ Fair(rows, t, start, end, r)
      BY <1>2, <2>1, <2>3, <2>4 DEF Pending, EndFits
    <3>2. Fair(next, u, start, end, r)
      BY <1>4, <3>1
    <3> QED BY <1>1, <1>2, <2>1, <2>2, <2>3, <3>2 DEF Pending, EndFits, EndOf
  <2>5. CASE pc[p] \notin {"look", "recheck", "write"}
    BY <1>1, <2>1, <2>2, <2>5 DEF Pending, EndFits, EndOf
  <2> QED BY <2>4, <2>5
<1>6. ASSUME NEW s \in DOMAIN evaluations' PROVE RowSays(s)'
  <2>1. RowSays(s)
    BY <1>1 DEF FairInv
  <2>2. PICK end, r : end = evaluations[s].about /\ r = evaluations[s].result
    OBVIOUS
  <2>3. end \in Int /\ Fair(rows, t, s, end, r)
    BY <1>2, <2>1, <2>2 DEF RowSays, EndFits
  <2>4. Fair(next, u, s, end, r)
    BY <1>4, <2>3
  <2> QED BY <1>1, <1>2, <2>1, <2>2, <2>4 DEF RowSays, EndFits, EndOf
<1> QED BY <1>1, <1>2, <1>3, <1>5, <1>6 DEF FairInv

\* Every step keeps the verdicts fair.
LEMMA NextFair ==
    ASSUME TypeInv, FairInv, [Next]_vars
    PROVE  TypeInv' /\ FairInv'
<1>1. CASE UNCHANGED vars
  <2>1. UNCHANGED <<windowType, reports, now, evaluations, pc, at, window, result, fresh, crashes>>
    BY <1>1 DEF vars, locals, envVars
  <2>2. \A p \in Processes : at'[p] <= now' /\ Pending(p)'
    BY <2>1, PendingStays DEF FairInv
  <2>3. \A s \in DOMAIN evaluations' : RowSays(s)'
    BY <2>1, ToldStays DEF FairInv
  <2> QED BY <2>1, <2>2, <2>3 DEF FairInv, TypeInv, PerProcess
<1>2. CASE Outside
  BY <1>2, OutsideMoves, OutsideFair
<1>3. ASSUME NEW p \in Processes,
             \/ StartTick(p) \/ Claim(p) \/ Write(p)
             \/ Read(p) \/ Look(p) \/ Recheck(p)
             \/ Find(p) \/ Open(p) \/ Resolve(p)
             \/ Release(p) \/ Crash(p)
      PROVE  TypeInv' /\ FairInv'
  <2>1. TypeInv'
    BY <1>3, StartMoves, ClaimMoves, WriteMoves, ReadMoves, LookMoves, RecheckMoves,
       IncidentMoves, ReleaseMoves, CrashMoves
  <2>2. FairInv'
    BY <1>3, StartFair, ReadFair, WriteFair, OtherFair
  <2> QED BY <2>1, <2>2
<1> QED BY <1>1, <1>2, <1>3, Steps

\* Whatever processes, claims and clocks do, no verdict is given before the deadline of
\* its window, and what was reported in time agrees with it.
THEOREM VerdictsFair == Spec => []VerdictIsFair
<1>1. Init => TypeInv /\ FairInv
  BY InitTypes, InitFair
<1>2. TypeInv /\ FairInv /\ [Next]_vars => (TypeInv /\ FairInv)'
  BY NextFair
<1> QED BY <1>1, <1>2, VerdictsAreFair, PTL DEF Spec
=============================================================================
