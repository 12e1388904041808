---------------------------- MODULE BackupProofs ----------------------------
(***************************************************************************)
(* Theorems about BackupJobs for every choice of its constants, checked    *)
(* with TLAPS.                                                             *)
(***************************************************************************)
EXTENDS BackupJobs, FiniteSetTheorems, TLAPS

-----------------------------------------------------------------------------
(* The inductive invariant *)

\* A worker has a turn of its retry loop left when it begins one.
TurnLeft ==
  \A w \in Workers :
    worker[w].pc \in {"create", "register", "attempt"} => worker[w].attempt <= MaxRetries

\* A worker that has created its run keeps it until it ends.
Unfinished == {"register", "attempt", "track", "reading", "row"}
KeepsRun ==
  \A w \in Workers :
    /\ worker[w].run < nextRun
    /\ worker[w].pc \in Unfinished \cup {"job", "release"} => worker[w].run \in RunIds

\* No two workers have the same run.
OwnRun ==
  \A v, w \in Workers : worker[v].run = worker[w].run => v = w \/ worker[v].run = NoRun

\* The run of a worker that has not recorded its result has none.
ResultIsNew ==
  \A w \in Workers : worker[w].pc \in Unfinished =>
    run[worker[w].run].status \in {"pending", "absent"}

\* There are no runs but those whose numbers were given out.
NoRunAhead == \A r \in RunIds : r >= nextRun => run[r].status = "absent"

RunInv == KeepsRun /\ OwnRun /\ ResultIsNew /\ NoRunAhead

Inv == TypeOK /\ TurnLeft /\ CancelIsFinal /\ RunInv /\ Spent <= Budget

-----------------------------------------------------------------------------
(* The parts of the invariant *)

JobPart ==
  /\ job \in [Jobs -> JobRow] /\ dialog \in [Jobs -> JobRow]
  /\ tick.rows \in [Jobs -> JobRow] /\ tick.left \subseteq Jobs
RegistryPart ==
  /\ running \in [Jobs -> RunIds \cup {NoRun}]
  /\ active \in [Jobs -> Workers \cup {NoWorker}]
  /\ stray \subseteq Jobs
WorkPart ==
  /\ worker \in [Workers -> WorkerState]
  /\ proc \in [Workers -> Final \cup {"none", "alive"}]
  /\ TurnLeft /\ CancelIsFinal
RunPart ==
  /\ run \in [RunIds -> [job: Jobs, status: Final \cup {"pending", "absent"}]]
  /\ RunInv
CountPart ==
  /\ nextRun \in 1 .. Budget \div 2 + 1 /\ events \in 0 .. Budget
  /\ Spent <= Budget

LEMMA InvParts == Inv <=> JobPart /\ RegistryPart /\ WorkPart /\ RunPart /\ CountPart
BY DEF Inv, TypeOK, JobPart, RegistryPart, WorkPart, RunPart, CountPart

LEMMA PartsAfter == JobPart' /\ RegistryPart' /\ WorkPart' /\ RunPart' /\ CountPart' => Inv'
BY InvParts, PTL

LEMMA Untouched ==
  ASSUME Inv
  PROVE  /\ UNCHANGED <<job, dialog, tick>> => JobPart'
         /\ UNCHANGED <<running, active, stray>> => RegistryPart'
         /\ UNCHANGED <<worker, proc>> => WorkPart'
         /\ UNCHANGED <<run, nextRun, worker>> => RunPart'
         /\ UNCHANGED <<nextRun, worker, events>> => CountPart'
<1>1. JobPart /\ RegistryPart /\ WorkPart /\ RunPart /\ CountPart
  BY InvParts
<1>2. UNCHANGED <<job, dialog, tick>> => JobPart'
  BY <1>1 DEF JobPart
<1>3. UNCHANGED <<running, active, stray>> => RegistryPart'
  BY <1>1 DEF RegistryPart
<1>4. UNCHANGED <<worker, proc>> => WorkPart'
  BY <1>1 DEF WorkPart, TurnLeft, CancelIsFinal
<1>5. UNCHANGED <<run, nextRun, worker>> => RunPart'
  BY <1>1 DEF RunPart, RunInv, KeepsRun, OwnRun, ResultIsNew, NoRunAhead
<1>6. UNCHANGED <<nextRun, worker, events>> => CountPart'
  BY <1>1 DEF CountPart, Spent
<1>. QED  BY <1>2, <1>3, <1>4, <1>5, <1>6

-----------------------------------------------------------------------------
(* What is used of the budget *)

Creating == {v \in Workers : worker[v].pc = "create"}

LEMMA BudgetFacts ==
  /\ Budget \div 2 \in Nat /\ RunIds \subseteq Nat /\ NoRun \notin RunIds
  /\ \A n \in Nat : 2 * n <= Budget => n <= Budget \div 2
BY BackupAssumption DEF RunIds, NoRun

LEMMA CreatingIsFinite ==
  /\ IsFiniteSet(Creating) /\ Cardinality(Creating) \in Nat
  /\ Spent = 2 * (nextRun - 1 + Cardinality(Creating)) + events
<1>1. IsFiniteSet(Creating)
  BY BackupAssumption, FS_Subset DEF Creating
<1>. QED  BY <1>1, FS_CardinalityType DEF Spent, Creating

LEMMA SpentAfter ==
  Spent' = 2 * (nextRun' - 1 + Cardinality(Creating')) + events'
BY DEF Spent, Creating

\* A worker moves: the set of those about to create a run changes with it alone.
LEMMA CreatingMoves ==
  ASSUME Inv, NEW w \in Workers, NEW s \in WorkerState, worker' = [worker EXCEPT ![w] = s]
  PROVE  /\ Creating' = IF s.pc = "create" THEN Creating \cup {w} ELSE Creating \ {w}
         /\ Cardinality(Creating') \in Nat
         /\ s.pc # "create" => Cardinality(Creating') <= Cardinality(Creating)
         /\ s.pc # "create" /\ w \in Creating =>
              Cardinality(Creating') = Cardinality(Creating) - 1
         /\ Cardinality(Creating') <= Cardinality(Creating) + 1
<1>1. Creating' = IF s.pc = "create" THEN Creating \cup {w} ELSE Creating \ {w}
  <2>1. worker \in [Workers -> WorkerState]
    BY DEF Inv, TypeOK
  <2>. QED  BY <2>1 DEF Creating
<1>2. IsFiniteSet(Creating) /\ Cardinality(Creating) \in Nat
  BY CreatingIsFinite
<1>3. Cardinality(Creating \ {w})
        = IF w \in Creating THEN Cardinality(Creating) - 1 ELSE Cardinality(Creating)
  BY <1>2, FS_RemoveElement
<1>4. Cardinality(Creating \cup {w})
        = IF w \in Creating THEN Cardinality(Creating) ELSE Cardinality(Creating) + 1
  BY <1>2, FS_AddElement
<1>5. IsFiniteSet(Creating \ {w}) /\ IsFiniteSet(Creating \cup {w})
  BY <1>2, FS_RemoveElement, FS_AddElement
<1>6. Cardinality(Creating \ {w}) \in Nat /\ Cardinality(Creating \cup {w}) \in Nat
  BY <1>5, FS_CardinalityType
<1>. QED  BY <1>1, <1>2, <1>3, <1>4, <1>6

-----------------------------------------------------------------------------
(* The workers *)

\* A worker goes on with the run it has, or ends.
LEMMA WorkerGoes ==
  ASSUME Inv, NEW w \in Workers, NEW s \in WorkerState,
         worker' = [worker EXCEPT ![w] = s],
         proc' \in [Workers -> Final \cup {"none", "alive"}],
         \A v \in Workers \ {w} : proc'[v] = proc[v],
         s.pc # "create",
         s.pc \in {"register", "attempt"} => s.attempt <= MaxRetries,
         s.status = "canceled" => s.pc \in {"row", "job", "release"} /\ proc'[w] = "none",
         UNCHANGED <<nextRun, events>>
  PROVE  WorkPart' /\ CountPart'
<1>1. worker \in [Workers -> WorkerState]
  BY DEF Inv, TypeOK
<1>2. worker' \in [Workers -> WorkerState]
      /\ \A v \in Workers : worker'[v] = IF v = w THEN s ELSE worker[v]
  BY <1>1
<1>3. TurnLeft'
  BY <1>2 DEF Inv, TurnLeft
<1>4. CancelIsFinal'
  BY <1>2 DEF Inv, CancelIsFinal
<1>5. CountPart'
  <2>1. Cardinality(Creating') <= Cardinality(Creating) /\ Cardinality(Creating') \in Nat
    BY CreatingMoves
  <2>2. Spent' <= Spent
    BY <2>1, CreatingIsFinite, SpentAfter, BudgetFacts, InvParts DEF CountPart
  <2>3. Spent \in Int /\ Spent' \in Int /\ Budget \in Nat
    BY <2>1, CreatingIsFinite, SpentAfter, BudgetFacts, InvParts, BackupAssumption DEF CountPart
  <2>. QED  BY <2>2, <2>3, InvParts DEF CountPart
<1>. QED  BY <1>2, <1>3, <1>4, <1>5 DEF WorkPart

\* The runs of the workers when one of them moves, and perhaps writes into its own run.
LEMMA RunsStay ==
  ASSUME Inv, NEW w \in Workers, NEW s \in WorkerState,
         worker' = [worker EXCEPT ![w] = s], UNCHANGED nextRun,
         s.run \in {worker[w].run, NoRun},
         s.pc \in Unfinished => worker[w].pc \in Unfinished,
         s.pc \in Unfinished \cup {"job", "release"} =>
           s.run = worker[w].run /\ worker[w].pc \in Unfinished \cup {"job", "release"},
         \/ UNCHANGED run
         \/ /\ s.pc \notin Unfinished
            /\ \E status \in Final \cup {"pending"} :
                 run' = [run EXCEPT ![worker[w].run].status = status]
  PROVE  RunPart'
<1>1. worker \in [Workers -> WorkerState]
  BY DEF Inv, TypeOK
<1>2. \A v \in Workers : worker'[v] = IF v = w THEN s ELSE worker[v]
  BY <1>1
<1>3. /\ run \in [RunIds -> [job: Jobs, status: Final \cup {"pending", "absent"}]]
      /\ nextRun \in Nat \ {0} /\ RunIds \subseteq Nat /\ NoRun \notin RunIds /\ NoRun = 0
  BY BudgetFacts DEF Inv, TypeOK, NoRun
<1>4. /\ run' \in [RunIds -> [job: Jobs, status: Final \cup {"pending", "absent"}]]
      /\ \A r \in RunIds : r # worker[w].run => run'[r] = run[r]
  <2>1. CASE UNCHANGED run
    BY <1>3, <2>1
  <2>2. ASSUME NEW status \in Final \cup {"pending"},
               run' = [run EXCEPT ![worker[w].run].status = status]
        PROVE  /\ run' \in [RunIds -> [job: Jobs, status: Final \cup {"pending", "absent"}]]
               /\ \A r \in RunIds : r # worker[w].run => run'[r] = run[r]
    BY <1>3, <2>2
  <2>. QED  BY <2>1, <2>2
<1>5. \A v \in Workers : worker[v].run \in RunIds \cup {NoRun} /\ worker[v].run < nextRun
  BY <1>1 DEF WorkerState, Inv, RunInv, KeepsRun
<1>6. KeepsRun'
  BY <1>2, <1>3, <1>5 DEF Inv, RunInv, KeepsRun
<1>7. OwnRun'
  BY <1>2 DEF Inv, RunInv, OwnRun
<1>8. ResultIsNew'
  <2>. SUFFICES ASSUME NEW v \in Workers, worker'[v].pc \in Unfinished
                PROVE  run'[worker'[v].run].status \in {"pending", "absent"}
    BY DEF ResultIsNew, Unfinished
  <2>1. /\ worker[v].pc \in Unfinished /\ worker'[v].run = worker[v].run
        /\ worker[v].run \in RunIds
    BY <1>2 DEF Inv, RunInv, KeepsRun
  <2>2. v # w => worker[v].run # worker[w].run
    BY <1>3, <2>1 DEF Inv, RunInv, OwnRun
  <2>3. v = w => UNCHANGED run
    BY <1>2
  <2>4. run'[worker[v].run] = run[worker[v].run]
    BY <1>4, <2>1, <2>2, <2>3
  <2>. QED  BY <2>1, <2>4 DEF Inv, RunInv, ResultIsNew
<1>9. NoRunAhead'
  BY <1>3, <1>4, <1>5 DEF Inv, RunInv, NoRunAhead
<1>. QED  BY <1>4, <1>6, <1>7, <1>8, <1>9 DEF RunPart, RunInv

\* The fields of the workers.
LEMMA WorkerFacts ==
  ASSUME Inv, NEW w \in Workers
  PROVE  /\ worker[w] \in WorkerState /\ worker[w].job \in Jobs
         /\ worker[w].run \in RunIds \cup {NoRun} /\ worker[w].attempt \in 0 .. MaxRetries + 1
         /\ worker[w].status \in Final \cup {"pending"}
         /\ MaxRetries \in Nat /\ 0 \in 0 .. MaxRetries + 1
         /\ worker[w].pc \in {"create", "register", "attempt"} => worker[w].attempt <= MaxRetries
BY BackupAssumption DEF Inv, TypeOK, WorkerState, TurnLeft

\* A free worker is taken for a job: one more run may come.
LEMMA LaunchStep ==
  ASSUME Inv, NEW j \in Jobs, Launch(j), UNCHANGED <<run, nextRun, proc, events>>
  PROVE  WorkPart' /\ RunPart' /\ CountPart'
<1> DEFINE free == {v \in Workers : CanLaunch(j, v)}
<1>1. CASE free = {}
  <2>1. UNCHANGED worker
    BY <1>1 DEF Launch
  <2>. QED  BY <2>1, Untouched
<1>2. CASE free # {}
  <2> DEFINE w == CHOOSE v \in free : TRUE
             s == [pc |-> "create", job |-> j, run |-> NoRun, attempt |-> 0,
                   status |-> "pending"]
  <2>1. w \in free
    BY <1>2
  <2>2. worker' = [worker EXCEPT ![w] = s]
    BY <1>2 DEF Launch
  <2>3. w \in Workers /\ worker[w].pc = "idle" /\ Spent + 2 <= Budget
    BY <2>1 DEF CanLaunch
  <2>4. /\ s \in WorkerState /\ s.pc = "create" /\ s.run = NoRun /\ s.status = "pending"
        /\ s.attempt <= MaxRetries /\ s.pc \notin Unfinished \cup {"job", "release", "attempt"}
    BY BackupAssumption DEF WorkerState, WorkerPC, Unfinished
  <2> HIDE DEF w, s
  <2>5. \A v \in Workers : worker'[v] = IF v = w THEN s ELSE worker[v]
    BY <2>2 DEF Inv, TypeOK
  <2>6. WorkPart'
    <3>1. worker' \in [Workers -> WorkerState]
          /\ proc' \in [Workers -> Final \cup {"none", "alive"}]
      BY <2>2, <2>4 DEF Inv, TypeOK
    <3>2. TurnLeft' /\ CancelIsFinal'
      BY <2>4, <2>5 DEF Inv, TurnLeft, CancelIsFinal
    <3>. QED  BY <3>1, <3>2 DEF WorkPart
  <2>7. RunPart'
    BY <2>2, <2>3, <2>4, RunsStay
  <2>8. CountPart'
    <3>1. /\ Cardinality(Creating') <= Cardinality(Creating) + 1
          /\ Cardinality(Creating') \in Nat
      BY <2>2, <2>3, <2>4, CreatingMoves
    <3>2. Spent' <= Budget
      BY <2>3, <3>1, CreatingIsFinite, SpentAfter, BackupAssumption, BudgetFacts DEF Inv, TypeOK
    <3>. QED  BY <3>2, InvParts DEF CountPart
  <2>. QED  BY <2>6, <2>7, <2>8
<1>. QED  BY <1>1, <1>2

LEMMA CreateRunKeepsInv ==
  ASSUME Inv, NEW w \in Workers, CreateRun(w) PROVE Inv'
<1>1. JobPart' /\ RegistryPart'
  BY Untouched DEF CreateRun
<1>2. worker[w].pc = "create" /\ proc' = proc /\ UNCHANGED events
  BY DEF CreateRun
<1>3. CASE job[worker[w].job].row = "there"
  <2> DEFINE s == [worker[w] EXCEPT !.pc = "register", !.run = nextRun]
  <2>1. /\ run' = Inserted(worker[w].job) /\ nextRun' = nextRun + 1
        /\ worker' = [worker EXCEPT ![w] = s]
    BY <1>3 DEF CreateRun
  <2>2. w \in Creating
    BY <1>2 DEF Creating
  <2>3. Cardinality(Creating) >= 1
    <3>1. Cardinality(Creating) # 0
      BY <2>2, CreatingIsFinite, FS_EmptySet
    <3>. QED  BY <3>1, CreatingIsFinite
  <2>4. nextRun \in RunIds /\ nextRun' \in 1 .. Budget \div 2 + 1
    <3>1. nextRun \in Nat /\ nextRun >= 1 /\ 2 * nextRun <= Budget
      BY <2>3, CreatingIsFinite, BudgetFacts, BackupAssumption DEF Inv, TypeOK
    <3>2. nextRun <= Budget \div 2
      BY <3>1, BudgetFacts
    <3>. QED  BY <2>1, <3>1, <3>2, BudgetFacts DEF RunIds
  <2>5. /\ s \in WorkerState /\ s.pc = "register" /\ s.run = nextRun
        /\ s.status = worker[w].status /\ s.attempt = worker[w].attempt
    BY <2>4, WorkerFacts DEF WorkerState, WorkerPC
  <2> HIDE DEF s
  <2>6. \A v \in Workers : worker'[v] = IF v = w THEN s ELSE worker[v]
    BY <2>1 DEF Inv, TypeOK
  <2>7. WorkPart'
    <3>1. worker' \in [Workers -> WorkerState]
          /\ proc' \in [Workers -> Final \cup {"none", "alive"}]
      BY <1>2, <2>1, <2>5 DEF Inv, TypeOK
    <3>2. TurnLeft' /\ CancelIsFinal'
      BY <1>2, <2>5, <2>6 DEF Inv, TurnLeft, CancelIsFinal
    <3>. QED  BY <3>1, <3>2 DEF WorkPart
  <2>8. CountPart'
    <3>1. Cardinality(Creating') = Cardinality(Creating) - 1
      BY <2>1, <2>2, <2>5, CreatingMoves
    <3>2. Spent' = Spent
      BY <1>2, <2>1, <3>1, CreatingIsFinite, SpentAfter, BudgetFacts DEF Inv, TypeOK
    <3>. QED  BY <1>2, <2>4, <3>2, InvParts DEF CountPart
  <2>9. RunPart'
    <3>1. /\ run \in [RunIds -> [job: Jobs, status: Final \cup {"pending", "absent"}]]
          /\ nextRun \in Nat \ {0} /\ RunIds \subseteq Nat /\ NoRun \notin RunIds /\ NoRun = 0
      BY BudgetFacts DEF Inv, TypeOK, NoRun
    <3>2. /\ run' \in [RunIds -> [job: Jobs, status: Final \cup {"pending", "absent"}]]
          /\ \A r \in RunIds : r # nextRun => run'[r] = run[r]
          /\ run'[nextRun].status = "pending"
      BY <2>1, <2>4, <3>1, WorkerFacts DEF Inserted
    <3>0. RunIds \subseteq Nat /\ NoRun \in Nat
      BY BudgetFacts DEF NoRun
    <3>3. \A v \in Workers : /\ worker[v].run \in RunIds \cup {NoRun}
                             /\ worker[v].run \in Nat /\ worker[v].run < nextRun
      <4>. SUFFICES ASSUME NEW v \in Workers
                    PROVE  /\ worker[v].run \in RunIds \cup {NoRun}
                           /\ worker[v].run \in Nat /\ worker[v].run < nextRun
        OBVIOUS
      <4>1. worker[v].run \in RunIds \cup {NoRun}
        BY WorkerFacts
      <4>2. worker[v].run < nextRun
        BY DEF Inv, RunInv, KeepsRun
      <4>. QED  BY <3>0, <4>1, <4>2
    <3>4. KeepsRun'
      <4>. SUFFICES ASSUME NEW v \in Workers
                    PROVE  /\ worker'[v].run < nextRun'
                           /\ worker'[v].pc \in Unfinished \cup {"job", "release"} =>
                                worker'[v].run \in RunIds
        BY DEF KeepsRun, Unfinished
      <4>1. v = w => worker'[v].run = nextRun
        BY <2>5, <2>6
      <4>2. v # w => worker'[v] = worker[v]
        BY <2>6
      <4>3. nextRun \in Nat /\ nextRun' = nextRun + 1
        BY <2>1, <3>1
      <4>4. worker'[v].run < nextRun'
        BY <3>3, <4>1, <4>2, <4>3
      <4>. QED  BY <2>4, <4>1, <4>2, <4>4 DEF Inv, RunInv, KeepsRun
    <3>5. OwnRun'
      BY <2>5, <2>6, <3>1, <3>3 DEF Inv, RunInv, OwnRun
    <3>6. ResultIsNew'
      <4>. SUFFICES ASSUME NEW v \in Workers, worker'[v].pc \in Unfinished
                    PROVE  run'[worker'[v].run].status \in {"pending", "absent"}
        BY DEF ResultIsNew, Unfinished
      <4>1. CASE v = w
        BY <2>5, <2>6, <3>2, <4>1
      <4>2. CASE v # w
        <5>1. worker'[v] = worker[v] /\ worker[v].run \in RunIds
              /\ run[worker[v].run].status \in {"pending", "absent"}
          BY <2>6, <4>2 DEF Inv, RunInv, ResultIsNew, KeepsRun
        <5>2. worker[v].run # nextRun
          BY <3>1, <3>3
        <5>. QED  BY <3>2, <5>1, <5>2
      <4>. QED  BY <4>1, <4>2
    <3>7. NoRunAhead'
      BY <2>1, <3>1, <3>2 DEF Inv, RunInv, NoRunAhead
    <3>. QED  BY <3>2, <3>4, <3>5, <3>6, <3>7 DEF RunPart, RunInv
  <2>. QED  BY <1>1, <2>7, <2>8, <2>9, PartsAfter
<1>4. CASE job[worker[w].job].row # "there"
  <2> DEFINE s == [worker[w] EXCEPT !.pc = "idle", !.run = NoRun, !.attempt = 0,
                                    !.status = "pending"]
  <2>1. worker' = [worker EXCEPT ![w] = s] /\ UNCHANGED <<run, nextRun>>
    BY <1>4 DEF CreateRun, Ends
  <2>2. s \in WorkerState /\ s.pc = "idle" /\ s.run = NoRun /\ s.status = "pending"
    BY WorkerFacts DEF WorkerState, WorkerPC
  <2> HIDE DEF s
  <2>3. proc' \in [Workers -> Final \cup {"none", "alive"}]
    BY <1>2 DEF Inv, TypeOK
  <2>4. WorkPart' /\ CountPart'
    BY <1>2, <2>1, <2>2, <2>3, WorkerGoes
  <2>5. RunPart'
    BY <2>1, <2>2, RunsStay DEF Unfinished
  <2>. QED  BY <1>1, <2>4, <2>5, PartsAfter
<1>. QED  BY <1>3, <1>4

\* A step that only moves the worker, with the run it has.
LEMMA WorkerStepKeepsInv ==
  ASSUME Inv, NEW w \in Workers, NEW s \in WorkerState,
         worker' = [worker EXCEPT ![w] = s],
         proc' \in [Workers -> Final \cup {"none", "alive"}],
         \A v \in Workers \ {w} : proc'[v] = proc[v],
         s.pc # "create",
         s.pc \in {"register", "attempt"} => s.attempt <= MaxRetries,
         s.status = "canceled" => s.pc \in {"row", "job", "release"} /\ proc'[w] = "none",
         s.run \in {worker[w].run, NoRun},
         s.pc \in Unfinished => worker[w].pc \in Unfinished,
         s.pc \in Unfinished \cup {"job", "release"} =>
           s.run = worker[w].run /\ worker[w].pc \in Unfinished \cup {"job", "release"},
         \/ UNCHANGED run
         \/ /\ s.pc \notin Unfinished
            /\ \E status \in Final \cup {"pending"} :
                 run' = [run EXCEPT ![worker[w].run].status = status],
         UNCHANGED <<nextRun, events>>,
         JobPart', RegistryPart'
  PROVE  Inv'
BY WorkerGoes, RunsStay, PartsAfter

\* The process a worker started or dropped, and its job's entry in the registry.
LEMMA Processes ==
  ASSUME Inv, NEW w \in Workers, NEW p \in Final \cup {"none", "alive"}
  PROVE  /\ [proc EXCEPT ![w] = p] \in [Workers -> Final \cup {"none", "alive"}]
         /\ [proc EXCEPT ![w] = p][w] = p
         /\ \A v \in Workers \ {w} : [proc EXCEPT ![w] = p][v] = proc[v]
         /\ Untracked(w) \in [Jobs -> Workers \cup {NoWorker}]
BY DEF Inv, TypeOK, Untracked

LEMMA RegisterRunKeepsInv ==
  ASSUME Inv, NEW w \in Workers, RegisterRun(w) PROVE Inv'
<1> DEFINE s == [worker[w] EXCEPT !.pc = "attempt"]
<1>1. /\ worker[w].pc = "register" /\ worker' = [worker EXCEPT ![w] = s]
      /\ running' = [running EXCEPT ![worker[w].job] = worker[w].run]
      /\ UNCHANGED <<job, run, nextRun, active, proc, stray, tick, dialog, events>>
  BY DEF RegisterRun, Goes
<1>2. /\ s \in WorkerState /\ s.pc = "attempt" /\ s.run = worker[w].run
      /\ s.status = worker[w].status /\ s.attempt = worker[w].attempt
  BY WorkerFacts DEF WorkerState, WorkerPC
<1>3. s.attempt <= MaxRetries /\ s.status # "canceled"
  BY <1>1, <1>2, WorkerFacts DEF Inv, CancelIsFinal
<1>4. RegistryPart'
  BY <1>1, InvParts, WorkerFacts DEF RegistryPart
<1> HIDE DEF s
<1>. QED  BY <1>1, <1>2, <1>3, <1>4, Untouched, WorkerStepKeepsInv, InvParts
             DEF Unfinished, WorkPart

\* A turn of the retry loop: it goes on, to be tried again, or to the record.
LEMMA AttemptKeepsInv ==
  ASSUME Inv, NEW w \in Workers, Attempt(w) PROVE Inv'
<1> DEFINE n == worker[w].attempt + 1
           S(pc, status) == [worker[w] EXCEPT !.pc = pc, !.attempt = n, !.status = status]
<1>1. /\ worker[w].pc = "attempt"
      /\ UNCHANGED <<job, run, nextRun, running, stray, tick, dialog, events>>
      /\ Launches(w, n) \/ PopenFails(w, n) \/ Offline(w, n) \/ PrecheckFails(w, n)
  BY DEF Attempt
<1>2. worker[w].attempt <= MaxRetries /\ worker[w].status # "canceled" /\ n \in 0 .. MaxRetries + 1
  BY <1>1, WorkerFacts DEF Inv, CancelIsFinal
<1>3. ASSUME NEW pc \in {"track", "attempt", "row"}, pc = "attempt" => n <= MaxRetries,
             NEW status \in {"failed", worker[w].status},
             worker' = [worker EXCEPT ![w] = S(pc, status)],
             proc' \in {proc, [proc EXCEPT ![w] = "alive"]},
             active' \in {active, Untracked(w)}
      PROVE  Inv'
  <2> DEFINE s == S(pc, status)
  <2>1. /\ s \in WorkerState /\ s.pc = pc /\ s.run = worker[w].run
        /\ s.status # "canceled" /\ s.attempt = n
    BY <1>2, <1>3, WorkerFacts DEF WorkerState, WorkerPC, Final
  <2>2. /\ proc' \in [Workers -> Final \cup {"none", "alive"}]
        /\ \A v \in Workers \ {w} : proc'[v] = proc[v]
    BY <1>3, Processes DEF Inv, TypeOK
  <2>3. RegistryPart'
    BY <1>1, <1>3, Processes, InvParts DEF RegistryPart
  <2>4. JobPart'
    BY <1>1, Untouched
  <2>5. worker' = [worker EXCEPT ![w] = s]
    BY <1>3
  <2> HIDE DEF s
  <2>. QED  BY <1>1, <1>3, <2>1, <2>2, <2>3, <2>4, <2>5, WorkerStepKeepsInv DEF Unfinished
<1>4. CASE Launches(w, n)
  <2>1. worker' = [worker EXCEPT ![w] = S("track", worker[w].status)]
    BY <1>4, WorkerFacts DEF Launches, WorkerState
  <2>. QED  BY <1>3, <1>4, <2>1 DEF Launches
<1>5. CASE PopenFails(w, n)
  <2>1. worker' = [worker EXCEPT ![w] = S(IF n <= MaxRetries THEN "attempt" ELSE "row", "failed")]
    BY <1>5, WorkerFacts DEF PopenFails, WorkerState
  <2>. QED  BY <1>3, <1>5, <2>1 DEF PopenFails
<1>6. CASE Offline(w, n)
  <2>1. worker' = [worker EXCEPT ![w] = S("attempt", worker[w].status)]
    BY <1>1, <1>6, WorkerFacts DEF Offline, WorkerState
  <2>. QED  BY <1>3, <1>6, <2>1 DEF Offline
<1>7. CASE PrecheckFails(w, n)
  <2>1. worker' = [worker EXCEPT ![w] = S("row", "failed")]
    BY <1>7, WorkerFacts DEF PrecheckFails, WorkerState
  <2>. QED  BY <1>3, <1>7, <2>1 DEF PrecheckFails
<1>. QED  BY <1>1, <1>4, <1>5, <1>6, <1>7

LEMMA TrackProcessKeepsInv ==
  ASSUME Inv, NEW w \in Workers, TrackProcess(w) PROVE Inv'
<1> DEFINE s == [worker[w] EXCEPT !.pc = "reading"]
<1>1. /\ worker[w].pc = "track" /\ worker' = [worker EXCEPT ![w] = s]
      /\ active' = [active EXCEPT ![worker[w].job] = w]
      /\ UNCHANGED <<job, run, nextRun, running, proc, stray, tick, dialog, events>>
  BY DEF TrackProcess, Goes
<1>2. /\ s \in WorkerState /\ s.pc = "reading" /\ s.run = worker[w].run
      /\ s.status = worker[w].status
  BY WorkerFacts DEF WorkerState, WorkerPC
<1>3. s.status # "canceled"
  BY <1>1, <1>2 DEF Inv, CancelIsFinal
<1>4. RegistryPart'
  BY <1>1, InvParts DEF RegistryPart
<1> HIDE DEF s
<1>. QED  BY <1>1, <1>2, <1>3, <1>4, Untouched, WorkerStepKeepsInv, InvParts
             DEF Unfinished, WorkPart

\* A process that comes to its end is not that of a worker whose cancel is being recorded.
LEMMA ProcessEndsKeepsInv ==
  ASSUME Inv, NEW w \in Workers, proc[w] = "alive", NEW code \in Final,
         proc' = [proc EXCEPT ![w] = code],
         UNCHANGED <<job, run, nextRun, running, active, stray, worker, tick, dialog, events>>
  PROVE  Inv'
<1>1. /\ proc' \in [Workers -> Final \cup {"none", "alive"}]
      /\ \A v \in Workers \ {w} : proc'[v] = proc[v]
  BY Processes
<1>2. worker[w].status # "canceled"
  BY DEF Inv, CancelIsFinal
<1>3. WorkPart'
  BY <1>1, <1>2, InvParts DEF WorkPart, TurnLeft, CancelIsFinal
<1>. QED  BY <1>3, Untouched, PartsAfter

LEMMA ProcessExitsKeepsInv ==
  ASSUME Inv, NEW w \in Workers, ProcessExits(w) PROVE Inv'
BY ProcessEndsKeepsInv DEF ProcessExits

LEMMA CancelJobKeepsInv ==
  ASSUME Inv, NEW j \in Jobs, CancelJob(j) PROVE Inv'
<1>1. CASE active[j] # NoWorker /\ proc[active[j]] = "alive"
  <2>1. active[j] \in Workers
    BY <1>1 DEF Inv, TypeOK
  <2>. QED  BY <1>1, <2>1, ProcessEndsKeepsInv DEF CancelJob, Final
<1>2. CASE ~(active[j] # NoWorker /\ proc[active[j]] = "alive")
  BY <1>2, Untouched, PartsAfter DEF CancelJob
<1>. QED  BY <1>1, <1>2

\* run_backup returns: its process is no longer the worker's.
LEMMA ReturnKeepsInv ==
  ASSUME Inv, NEW w \in Workers, NEW status \in Final,
         worker[w].pc = "reading", Returns(w, status),
         proc' = [proc EXCEPT ![w] = "none"], active' = Untracked(w),
         stray' \in {stray, stray \cup {worker[w].job}},
         UNCHANGED <<job, run, nextRun, running, tick, dialog, events>>
  PROVE  Inv'
<1> DEFINE pc == IF status = "failed" /\ worker[w].attempt <= MaxRetries THEN "attempt"
                 ELSE "row"
           s == [worker[w] EXCEPT !.pc = pc, !.status = status]
<1>1. worker' = [worker EXCEPT ![w] = s]
  BY DEF Returns, Settles
<1>2. /\ s \in WorkerState /\ s.pc = pc /\ s.run = worker[w].run
      /\ s.status = status /\ s.attempt = worker[w].attempt
  BY WorkerFacts DEF WorkerState, WorkerPC
<1>3. /\ pc \in {"attempt", "row"}
      /\ pc = "attempt" => status = "failed" /\ worker[w].attempt <= MaxRetries
  OBVIOUS
<1>4. /\ proc' \in [Workers -> Final \cup {"none", "alive"}]
      /\ proc'[w] = "none" /\ \A v \in Workers \ {w} : proc'[v] = proc[v]
  BY Processes
<1>5. RegistryPart'
  BY InvParts, Processes, WorkerFacts DEF RegistryPart
<1>6. JobPart'
  BY Untouched
<1> HIDE DEF s, pc
<1>. QED  BY <1>1, <1>2, <1>3, <1>4, <1>5, <1>6, WorkerStepKeepsInv DEF Unfinished

LEMMA ReadingKeepsInv ==
  ASSUME Inv, NEW w \in Workers, StoreTransferFails(w) \/ ReapProcess(w) PROVE Inv'
<1>1. CASE StoreTransferFails(w)
  BY <1>1, ReturnKeepsInv DEF StoreTransferFails, Final
<1>2. CASE ReapProcess(w)
  BY <1>2, ReturnKeepsInv DEF ReapProcess
<1>. QED  BY <1>1, <1>2

\* What the steps make of a row is a row.
LEMMA RowEdits ==
  ASSUME NEW r \in JobRow
  PROVE  /\ \A n \in {"none", "soon", "later", "due"} : [r EXCEPT !.next = n] \in JobRow
         /\ [r EXCEPT !.ran = "fresh"] \in JobRow
         /\ \A k \in Schedules : \A b \in BOOLEAN : Edited(r, k, b) \in JobRow
         /\ \A all \in BOOLEAN : Aged(r, all) \in JobRow
BY DEF JobRow, Edited, Aged

\* What WrittenRow does to the run of a worker.
LEMMA OwnRunWritten ==
  ASSUME Inv, NEW w \in Workers, NEW status \in Final \cup {"pending"},
         run' = WrittenRow(worker[w].run, status)
  PROVE  \/ UNCHANGED run
         \/ \E st \in Final \cup {"pending"} : run' = [run EXCEPT ![worker[w].run].status = st]
BY DEF WrittenRow

LEMMA RecordRunKeepsInv ==
  ASSUME Inv, NEW w \in Workers, RecordRun(w) PROVE Inv'
<1> DEFINE s == [worker[w] EXCEPT !.pc = "job"]
<1>1. /\ worker[w].pc = "row" /\ worker' = [worker EXCEPT ![w] = s]
      /\ run' = WrittenRow(worker[w].run, worker[w].status)
      /\ UNCHANGED <<job, nextRun, running, active, proc, stray, tick, dialog, events>>
  BY DEF RecordRun, Goes
<1>2. /\ s \in WorkerState /\ s.pc = "job" /\ s.run = worker[w].run
      /\ s.status = worker[w].status
  BY WorkerFacts DEF WorkerState, WorkerPC
<1>3. s.status = "canceled" => proc'[w] = "none"
  BY <1>1, <1>2 DEF Inv, CancelIsFinal
<1>4. /\ \/ UNCHANGED run
         \/ \E st \in Final \cup {"pending"} : run' = [run EXCEPT ![worker[w].run].status = st]
      /\ proc' \in [Workers -> Final \cup {"none", "alive"}]
  BY <1>1, OwnRunWritten, WorkerFacts DEF Inv, TypeOK
<1> HIDE DEF s
<1>. QED  BY <1>1, <1>2, <1>3, <1>4, Untouched, WorkerStepKeepsInv DEF Unfinished

LEMMA RecordJobKeepsInv ==
  ASSUME Inv, NEW w \in Workers, RecordJob(w) PROVE Inv'
<1> DEFINE S(status) == [worker[w] EXCEPT !.pc = "release", !.status = status]
<1>1. /\ worker[w].pc = "job"
      /\ UNCHANGED <<nextRun, running, active, proc, stray, tick, dialog, events>>
      /\ job' = IF job[worker[w].job].row = "there"
                THEN [job EXCEPT ![worker[w].job].ran = "fresh"] ELSE job
  BY DEF RecordJob
<1>2. JobPart'
  <2> DEFINE j == worker[w].job
  <2>1. job' \in [Jobs -> JobRow]
    <3>1. j \in Jobs /\ job \in [Jobs -> JobRow]
      BY InvParts, WorkerFacts DEF JobPart
    <3>2. [job[j] EXCEPT !.ran = "fresh"] \in JobRow
      BY <3>1, RowEdits
    <3>3. job' \in {job, [job EXCEPT ![j] = [job[j] EXCEPT !.ran = "fresh"]]}
      BY <1>1
    <3>. QED  BY <3>1, <3>2, <3>3
  <2>. QED  BY <1>1, <2>1, InvParts DEF JobPart
<1>3. PICK status \in {"failed", worker[w].status} :
        /\ worker' = [worker EXCEPT ![w] = S(status)]
        /\ UNCHANGED run \/ run' = WrittenRow(worker[w].run, "failed")
  <2>1. CASE Goes(w, "release") /\ UNCHANGED run
    <3>1. worker' = [worker EXCEPT ![w] = S(worker[w].status)]
      BY <2>1, WorkerFacts DEF Goes, WorkerState
    <3>. QED  BY <2>1, <3>1
  <2>2. CASE run' = WrittenRow(worker[w].run, "failed") /\ Settles(w, "release", "failed")
    BY <2>2 DEF Settles
  <2>. QED  BY <2>1, <2>2 DEF RecordJob
<1> DEFINE s == S(status)
<1>4. /\ s \in WorkerState /\ s.pc = "release" /\ s.run = worker[w].run /\ s.status = status
  BY WorkerFacts DEF WorkerState, WorkerPC, Final
<1>5. s.status = "canceled" => proc'[w] = "none"
  BY <1>1, <1>3, <1>4 DEF Inv, CancelIsFinal
<1>6. /\ \/ UNCHANGED run
         \/ \E st \in Final \cup {"pending"} : run' = [run EXCEPT ![worker[w].run].status = st]
      /\ proc' \in [Workers -> Final \cup {"none", "alive"}]
  BY <1>1, <1>3, OwnRunWritten DEF Inv, TypeOK, Final
<1>7. worker' = [worker EXCEPT ![w] = s]
  BY <1>3
<1> HIDE DEF s
<1>. QED  BY <1>1, <1>2, <1>4, <1>5, <1>6, <1>7, Untouched, WorkerStepKeepsInv DEF Unfinished

LEMMA ReleaseSlotKeepsInv ==
  ASSUME Inv, NEW w \in Workers, ReleaseSlot(w) PROVE Inv'
<1> DEFINE s == [worker[w] EXCEPT !.pc = "idle", !.run = NoRun, !.attempt = 0,
                                  !.status = "pending"]
<1>1. /\ worker' = [worker EXCEPT ![w] = s]
      /\ running' = [running EXCEPT ![worker[w].job] = NoRun]
      /\ UNCHANGED <<job, run, nextRun, active, proc, stray, tick, dialog, events>>
  BY DEF ReleaseSlot, Ends
<1>2. s \in WorkerState /\ s.pc = "idle" /\ s.run = NoRun /\ s.status = "pending"
  BY WorkerFacts DEF WorkerState, WorkerPC
<1>3. RegistryPart'
  BY <1>1, InvParts, WorkerFacts DEF RegistryPart
<1> HIDE DEF s
<1>. QED  BY <1>1, <1>2, <1>3, Untouched, WorkerStepKeepsInv, InvParts DEF Unfinished, WorkPart

-----------------------------------------------------------------------------
(* The scheduler, the commands and a kill of the service *)

LEMMA UnlistedIsRow == Unlisted \in JobRow
<1>1. (CHOOSE k \in Schedules : TRUE) \in Schedules
  BY BackupAssumption
<1>. QED  BY <1>1, Zenon DEF Unlisted, JobRow

\* Plans are rows.
LEMMA PlansAreRows ==
  ASSUME NEW rows \in [Jobs -> JobRow]
  PROVE  /\ \A j \in Jobs : CalculateNextRun(rows[j]) \in {"none", "soon", "later"}
         /\ \A j \in Jobs : \A n \in {"none", "soon", "later"} :
              Planned(rows, j, n) \in [Jobs -> JobRow]
         /\ Replanned(rows) \in [Jobs -> JobRow]
<1>1. \A j \in Jobs : CalculateNextRun(rows[j]) \in {"none", "soon", "later"}
  BY DEF CalculateNextRun
<1>2. ASSUME NEW j \in Jobs, NEW n \in {"none", "soon", "later"}
      PROVE  [rows[j] EXCEPT !.next = n] \in JobRow
  BY RowEdits
<1>3. ASSUME NEW j \in Jobs, NEW n \in {"none", "soon", "later"}
      PROVE  Planned(rows, j, n) \in [Jobs -> JobRow]
  <2>1. [rows EXCEPT ![j] = [rows[j] EXCEPT !.next = n]] \in [Jobs -> JobRow]
    BY <1>2
  <2>2. Planned(rows, j, n) \in {rows, [rows EXCEPT ![j] = [rows[j] EXCEPT !.next = n]]}
    BY DEF Planned
  <2>. QED  BY <2>1, <2>2
<1>4. Replanned(rows) \in [Jobs -> JobRow]
  BY <1>1, <1>2 DEF Replanned
<1>. QED  BY <1>1, <1>3, <1>4

\* The tick goes through the rows it listed.
LEMMA HandledIsTick ==
  ASSUME Inv, NEW j \in Jobs, tick' = HandledIn(tick, j)
  PROVE  tick'.rows \in [Jobs -> JobRow] /\ tick'.left \subseteq Jobs
BY UnlistedIsRow, InvParts DEF JobPart, HandledIn

LEMMA ListJobsKeepsInv == ASSUME Inv, ListJobs PROVE Inv'
<1>1. /\ tick'.rows \in [Jobs -> JobRow] /\ tick'.left \subseteq Jobs
  BY UnlistedIsRow, InvParts DEF ListJobs, JobPart
<1>2. JobPart'
  BY <1>1, InvParts DEF ListJobs, JobPart
<1>. QED  BY <1>2, Untouched, PartsAfter DEF ListJobs, workVars

LEMMA TriggerDueKeepsInv == ASSUME Inv, NEW j \in Jobs, TriggerDue(j) PROVE Inv'
<1>1. job' \in [Jobs -> JobRow]
  BY PlansAreRows, InvParts DEF TriggerDue, JobPart
<1>2. JobPart'
  BY <1>1, HandledIsTick, InvParts DEF TriggerDue, JobPart
<1>. QED  BY <1>2, LaunchStep, Untouched, PartsAfter DEF TriggerDue

LEMMA PlanOrSkipKeepsInv == ASSUME Inv, NEW j \in Jobs, PlanOrSkip(j) PROVE Inv'
<1>1. job' \in [Jobs -> JobRow]
  BY PlansAreRows, InvParts DEF PlanOrSkip, JobPart
<1>2. JobPart'
  BY <1>1, HandledIsTick, InvParts DEF PlanOrSkip, JobPart
<1>. QED  BY <1>2, Untouched, PartsAfter DEF PlanOrSkip, workVars

\* A command writes rows and starts nothing.
LEMMA RowsWritten ==
  ASSUME Inv, job' \in [Jobs -> JobRow], dialog' \in [Jobs -> JobRow],
         UNCHANGED <<run, workVars, tick, events>>
  PROVE  Inv'
<1>1. JobPart'
  BY InvParts DEF JobPart
<1>. QED  BY <1>1, Untouched, PartsAfter DEF workVars

LEMMA CreateJobKeepsInv == ASSUME Inv, NEW j \in Jobs, CreateJob(j) PROVE Inv'
<1>1. PICK kind \in Schedules, ipc \in BOOLEAN :
        LET rows == [job EXCEPT ![j] = [row |-> "there", enabled |-> TRUE, kind |-> kind,
                                        next |-> "none", ran |-> "never"]]
        IN job' = IF ipc THEN Replanned(rows) ELSE rows
  BY DEF CreateJob
<1> DEFINE r == [row |-> "there", enabled |-> TRUE, kind |-> kind, next |-> "none",
                 ran |-> "never"]
           rows == [job EXCEPT ![j] = r]
<1>2. r \in JobRow
  BY Zenon DEF JobRow
<1>3. job' \in {rows, Replanned(rows)}
  BY <1>1
<1> HIDE DEF r
<1>4. rows \in [Jobs -> JobRow]
  BY <1>2, InvParts DEF JobPart
<1> HIDE DEF rows
<1>. QED  BY <1>3, <1>4, PlansAreRows, RowsWritten, InvParts DEF CreateJob, JobPart

LEMMA SaveEditKeepsInv == ASSUME Inv, NEW j \in Jobs, SaveEdit(j) PROVE Inv'
<1>1. PICK kind \in Schedules, enabled \in BOOLEAN, ipc \in BOOLEAN :
        LET rows == IF job[j].row # "there" THEN job ELSE
                      [job EXCEPT ![j] = Edited(dialog[j], kind, enabled)]
        IN job' = IF ipc THEN Replanned(rows) ELSE rows
  BY DEF SaveEdit
<1> DEFINE rows == IF job[j].row # "there" THEN job ELSE
                     [job EXCEPT ![j] = Edited(dialog[j], kind, enabled)]
<1>2. Edited(dialog[j], kind, enabled) \in JobRow
  BY RowEdits, InvParts DEF JobPart
<1>3. job' \in {rows, Replanned(rows)}
  BY <1>1
<1>4. rows \in [Jobs -> JobRow]
  BY <1>2, InvParts DEF JobPart
<1> HIDE DEF rows
<1>5. dialog' \in [Jobs -> JobRow]
  BY UnlistedIsRow, InvParts DEF SaveEdit, JobPart
<1>. QED  BY <1>3, <1>4, <1>5, PlansAreRows, RowsWritten DEF SaveEdit

LEMMA TimePassesKeepsInv == ASSUME Inv, NEW j \in Jobs, TimePasses(j) PROVE Inv'
<1>1. PICK all \in BOOLEAN :
        /\ job' = [job EXCEPT ![j] = Aged(job[j], all)]
        /\ dialog' = [dialog EXCEPT ![j] = Aged(dialog[j], all)]
  BY DEF TimePasses
<1>2. job \in [Jobs -> JobRow] /\ dialog \in [Jobs -> JobRow]
  BY InvParts DEF JobPart
<1>3. Aged(job[j], all) \in JobRow /\ Aged(dialog[j], all) \in JobRow
  BY <1>2, RowEdits
<1>. QED  BY <1>1, <1>2, <1>3, RowsWritten DEF TimePasses

LEMMA RunNowKeepsInv == ASSUME Inv, NEW j \in Jobs, RunNow(j) PROVE Inv'
BY LaunchStep, Untouched, PartsAfter DEF RunNow

\* What is left of the budget goes to an event.
LEMMA EventCounts ==
  ASSUME Inv, Spent < Budget, events' = events + 1, UNCHANGED nextRun,
         Cardinality(Creating') \in Nat, Cardinality(Creating') <= Cardinality(Creating)
  PROVE  CountPart'
<1>1. /\ nextRun \in Nat /\ nextRun >= 1 /\ events \in Nat /\ Budget \in Nat
      /\ Cardinality(Creating) \in Nat
  BY BudgetFacts, BackupAssumption, CreatingIsFinite DEF Inv, TypeOK
<1>2. Spent' <= Budget /\ events' \in 0 .. Budget
  BY <1>1, CreatingIsFinite, SpentAfter
<1>. QED  BY <1>2, InvParts DEF CountPart

LEMMA OpenEditKeepsInv == ASSUME Inv, NEW j \in Jobs, OpenEdit(j) PROVE Inv'
<1>1. JobPart'
  BY InvParts DEF OpenEdit, JobPart, workVars
<1>2. CountPart'
  <2>1. Creating' = Creating
    BY DEF OpenEdit, workVars, Creating
  <2>. QED  BY <2>1, CreatingIsFinite, EventCounts DEF OpenEdit, workVars
<1>. QED  BY <1>1, <1>2, Untouched, PartsAfter DEF OpenEdit, workVars

\* Deleting a job leaves its worker a run that is no longer there.
LEMMA DeleteJobKeepsInv == ASSUME Inv, NEW j \in Jobs, DeleteJob(j) PROVE Inv'
<1>1. JobPart'
  <2> DEFINE r == [row |-> "deleted", enabled |-> FALSE, kind |-> job[j].kind,
                   next |-> "none", ran |-> "never"]
  <2>1. job \in [Jobs -> JobRow]
    BY InvParts DEF JobPart
  <2>2. job[j].kind \in Schedules
    BY <2>1, Zenon DEF JobRow
  <2>3. r \in JobRow
    BY <2>2, Zenon DEF JobRow
  <2>4. job' = [job EXCEPT ![j] = r]
    BY DEF DeleteJob
  <2> HIDE DEF r
  <2>. QED  BY <2>1, <2>3, <2>4, InvParts DEF DeleteJob, JobPart
<1>2. run' = [r \in RunIds |-> IF run[r].job = j THEN [run[r] EXCEPT !.status = "absent"]
                               ELSE run[r]]
  BY DEF DeleteJob
<1>3. /\ run \in [RunIds -> [job: Jobs, status: Final \cup {"pending", "absent"}]]
      /\ UNCHANGED <<nextRun, worker>>
  BY DEF DeleteJob, workVars, Inv, TypeOK
<1>4. /\ run' \in [RunIds -> [job: Jobs, status: Final \cup {"pending", "absent"}]]
      /\ \A r \in RunIds : run'[r].status \in {run[r].status, "absent"}
  BY <1>2, <1>3
<1>5. KeepsRun' /\ OwnRun' /\ NoRunAhead'
  BY <1>3, <1>4 DEF Inv, RunInv, KeepsRun, OwnRun, NoRunAhead
<1>6. ResultIsNew'
  BY <1>3, <1>4 DEF Inv, RunInv, KeepsRun, ResultIsNew
<1>7. RunPart'
  BY <1>4, <1>5, <1>6 DEF RunPart, RunInv
<1>. QED  BY <1>1, <1>7, Untouched, PartsAfter DEF DeleteJob, workVars

\* After a kill every thread is gone and no run belongs to anybody.
LEMMA RestartKeepsInv == ASSUME Inv, Restart PROVE Inv'
<1>1. /\ worker' = [w \in Workers |-> [worker[w] EXCEPT !.pc = "idle", !.run = NoRun,
                                         !.attempt = 0, !.status = "pending"]]
      /\ proc' = [w \in Workers |-> "none"]
      /\ UNCHANGED <<run, nextRun, stray, dialog>>
  BY DEF Restart
<1>2. worker' \in [Workers -> WorkerState]
  BY <1>1, WorkerFacts DEF WorkerState, WorkerPC
<1>3. \A w \in Workers : /\ worker'[w].pc = "idle" /\ worker'[w].run = NoRun
                         /\ worker'[w].status = "pending"
  BY <1>1, WorkerFacts DEF WorkerState
<1>4. WorkPart'
  BY <1>1, <1>2, <1>3 DEF WorkPart, TurnLeft, CancelIsFinal
<1>5. nextRun \in Nat /\ nextRun > NoRun
  BY BudgetFacts DEF Inv, TypeOK, NoRun
<1>6. KeepsRun' /\ OwnRun' /\ ResultIsNew' /\ NoRunAhead'
  BY <1>1, <1>3, <1>5
     DEF Inv, RunInv, KeepsRun, OwnRun, ResultIsNew, NoRunAhead, Unfinished
<1>7. RunPart'
  BY <1>1, <1>6, InvParts DEF RunPart, RunInv
<1>8. CountPart'
  <2>1. Creating' = {}
    BY <1>3 DEF Creating
  <2>2. Cardinality(Creating') = 0
    BY <2>1, FS_EmptySet
  <2>3. Cardinality(Creating') \in Nat /\ Cardinality(Creating') <= Cardinality(Creating)
    BY <2>2, CreatingIsFinite
  <2>4. Spent < Budget /\ events' = events + 1 /\ UNCHANGED nextRun
    BY DEF Restart
  <2>. QED  BY <2>3, <2>4, EventCounts
<1>9. JobPart' /\ RegistryPart'
  <2>1. job' \in [Jobs -> JobRow]
    BY PlansAreRows, InvParts DEF Restart, JobPart
  <2>2. tick'.rows \in [Jobs -> JobRow] /\ tick'.left \subseteq Jobs
    BY UnlistedIsRow DEF Restart, NoTick
  <2>3. RegistryPart'
    BY <1>1, InvParts DEF Restart, RegistryPart
  <2>. QED  BY <1>1, <2>1, <2>2, <2>3, InvParts DEF JobPart
<1>. QED  BY <1>4, <1>7, <1>8, <1>9, PartsAfter

-----------------------------------------------------------------------------
(* The theorems *)

LEMMA InitInv == Init => Inv
<1>. SUFFICES ASSUME Init PROVE Inv
  OBVIOUS
<1>1. JobPart
  BY UnlistedIsRow DEF Init, JobPart, NoTick
<1>2. RegistryPart
  BY DEF Init, RegistryPart
<1>3. (CHOOSE j \in Jobs : TRUE) \in Jobs
  BY BackupAssumption
<1>4. worker \in [Workers -> WorkerState]
  BY <1>3, BackupAssumption DEF Init, WorkerState, WorkerPC
<1>5. WorkPart
  BY <1>4 DEF Init, WorkPart, TurnLeft, CancelIsFinal
<1>6. RunPart
  <2>1. run \in [RunIds -> [job: Jobs, status: Final \cup {"pending", "absent"}]]
    BY <1>3 DEF Init
  <2>. QED  BY <2>1 DEF Init, RunPart, RunInv, KeepsRun, OwnRun, ResultIsNew, NoRunAhead,
                        Unfinished, NoRun
<1>7. CountPart
  <2>1. Creating = {}
    BY DEF Init, Creating
  <2>2. Cardinality(Creating) = 0
    BY <2>1, FS_EmptySet
  <2>3. Spent = 0
    BY <2>2, CreatingIsFinite DEF Init
  <2>. QED  BY <2>3, BudgetFacts, BackupAssumption DEF Init, CountPart
<1>. QED  BY <1>1, <1>2, <1>5, <1>6, <1>7, InvParts

LEMMA NextKeepsInv == Inv /\ [Next]_vars => Inv'
<1>. SUFFICES ASSUME Inv, [Next]_vars PROVE Inv'
  OBVIOUS
<1>1. ASSUME NEW w \in Workers, WorkerStep(w) PROVE Inv'
  BY <1>1, CreateRunKeepsInv, RegisterRunKeepsInv, AttemptKeepsInv, TrackProcessKeepsInv,
     ProcessExitsKeepsInv, ReadingKeepsInv, RecordRunKeepsInv, RecordJobKeepsInv,
     ReleaseSlotKeepsInv DEF WorkerStep
<1>2. CASE SchedulerStep
  BY <1>2, ListJobsKeepsInv, TriggerDueKeepsInv, PlanOrSkipKeepsInv DEF SchedulerStep
<1>3. ASSUME NEW j \in Jobs,
             \/ CreateJob(j) \/ DeleteJob(j) \/ OpenEdit(j) \/ SaveEdit(j)
             \/ RunNow(j) \/ CancelJob(j) \/ TimePasses(j)
      PROVE  Inv'
  BY <1>3, CreateJobKeepsInv, DeleteJobKeepsInv, OpenEditKeepsInv, SaveEditKeepsInv,
     RunNowKeepsInv, CancelJobKeepsInv, TimePassesKeepsInv
<1>4. CASE Restart
  BY <1>4, RestartKeepsInv
<1>5. CASE UNCHANGED vars
  BY <1>5, Untouched, PartsAfter DEF vars, workVars
<1>. QED  BY <1>1, <1>2, <1>3, <1>4, <1>5 DEF Next

\* The rows, the registries, the workers and the counters stay what they are: the attempts
\* of a run never exceed max_retries + 1.
THEOREM TypeCorrect == Spec => []TypeOK
<1>1. Inv => TypeOK
  BY DEF Inv
<1>. QED  BY <1>1, InitInv, NextKeepsInv, PTL DEF Spec

\* Any number of workers, jobs and turns: a worker whose rclone was canceled never tries
\* again (backup_engine.py:193-195).
THEOREM CancelEndsTheRun == Spec => []CancelIsFinal
<1>1. Inv => CancelIsFinal
  BY DEF Inv
<1>. QED  BY <1>1, InitInv, NextKeepsInv, PTL DEF Spec

\* What a worker's step does to the results that are recorded already.
LEMMA WorkerKeepsResults ==
  ASSUME Inv, NEW w \in Workers, WorkerStep(w), NEW r \in RunIds, run[r].status \in Final
  PROVE  run'[r].status \in {run[r].status, "failed", "absent"}
<1>1. run \in [RunIds -> [job: Jobs, status: Final \cup {"pending", "absent"}]]
  BY DEF Inv, TypeOK
<1>2. CASE UNCHANGED run
  BY <1>2
<1>3. CASE CreateRun(w)
  <2>1. r # nextRun
    <3>1. ASSUME r = nextRun PROVE run[r].status = "absent"
      BY <3>1, BudgetFacts DEF Inv, RunInv, NoRunAhead
    <3>. QED  BY <3>1 DEF Final
  <2>. QED  BY <1>1, <1>3, <2>1 DEF CreateRun, Inserted
<1>4. CASE RecordRun(w)
  <2>1. worker[w].run # r
    BY <1>4 DEF RecordRun, Inv, RunInv, ResultIsNew, Unfinished, Final
  <2>. QED  BY <1>1, <1>4, <2>1 DEF RecordRun, WrittenRow
<1>5. CASE RecordJob(w)
  BY <1>1, <1>5 DEF RecordJob, WrittenRow
<1>. QED  BY <1>2, <1>3, <1>4, <1>5
          DEF WorkerStep, RegisterRun, Attempt, TrackProcess, ProcessExits,
              StoreTransferFails, ReapProcess, ReleaseSlot

\* Every run has one worker, and only that one writes its result: what list_runs tells of a
\* finished run can only turn into "failed", or go with the job.
THEOREM ResultsStay == Spec => OutcomeOnlyWorsens
<1> DEFINE Worsens ==
      \A r \in RunIds : run[r].status \in Final =>
        run'[r].status \in {run[r].status, "failed", "absent"}
<1>1. ASSUME Inv, [Next]_vars PROVE [Worsens]_vars
  <2>1. CASE UNCHANGED run
    BY <2>1
  <2>2. ASSUME NEW w \in Workers, WorkerStep(w) PROVE Worsens
    BY <1>1, <2>2, WorkerKeepsResults
  <2>3. ASSUME NEW j \in Jobs, DeleteJob(j) PROVE Worsens
    BY <2>3 DEF DeleteJob, Final, Inv, TypeOK
  <2>4. CASE SchedulerStep \/ Restart
    BY <2>1, <2>4 DEF SchedulerStep, ListJobs, TriggerDue, PlanOrSkip, Restart
  <2>5. ASSUME NEW j \in Jobs,
               CreateJob(j) \/ OpenEdit(j) \/ SaveEdit(j) \/ RunNow(j) \/ CancelJob(j)
                 \/ TimePasses(j)
        PROVE  UNCHANGED run
    BY <2>5 DEF CreateJob, OpenEdit, SaveEdit, RunNow, CancelJob, TimePasses
  <2>6. CASE UNCHANGED vars
    BY <2>6
  <2>. QED  BY <1>1, <2>1, <2>2, <2>3, <2>4, <2>5, <2>6 DEF Next
<1>. QED  BY <1>1, InitInv, NextKeepsInv, PTL DEF Spec, OutcomeOnlyWorsens

\* A job that is registered as running has a thread on its way to release it, with the run
\* that is registered, also when two threads were started for it or its row was deleted:
\* nobody is refused for a run that nobody makes (backup_engine.py:89, 201-232).
SlotIsOccupied ==
  \A j \in Jobs : running[j] # NoRun =>
    \E w \in Workers : /\ worker[w].job = j /\ worker[w].run = running[j]
                       /\ worker[w].pc \notin {"idle", "create", "register"}

\* A worker's step leaves a registered job its worker, or releases it.
LEMMA WorkerKeepsSlots ==
  ASSUME Inv, SlotIsOccupied, NEW w \in Workers, WorkerStep(w)
  PROVE  SlotIsOccupied'
<1>1. /\ worker \in [Workers -> WorkerState] /\ running \in [Jobs -> RunIds \cup {NoRun}]
      /\ worker[w] \in WorkerState
  BY DEF Inv, TypeOK
<1> SUFFICES ASSUME NEW j \in Jobs, running'[j] # NoRun
             PROVE  \E v \in Workers :
                      /\ worker'[v].job = j /\ worker'[v].run = running'[j]
                      /\ worker'[v].pc \notin {"idle", "create", "register"}
  BY DEF SlotIsOccupied
<1>2. \A v \in Workers \ {w} : worker'[v] = worker[v]
  BY <1>1 DEF WorkerStep, CreateRun, RegisterRun, Attempt, Launches, PopenFails, Offline,
    PrecheckFails, TrackProcess, ProcessExits, StoreTransferFails, ReapProcess, RecordRun,
    RecordJob, ReleaseSlot, Goes, Settles, Returns, Ends
<1>3. CASE CreateRun(w)
  <2>1. PICK v \in Workers : /\ worker[v].job = j /\ worker[v].run = running[j]
                             /\ worker[v].pc \notin {"idle", "create", "register"}
    BY <1>3 DEF CreateRun, SlotIsOccupied
  <2>. QED  BY <1>2, <1>3, <2>1 DEF CreateRun
<1>4. CASE RegisterRun(w)
  <2>1. /\ worker'[w].job = worker[w].job /\ worker'[w].run = worker[w].run
        /\ worker'[w].pc = "attempt"
    BY <1>1, <1>4 DEF RegisterRun, Goes, WorkerState
  <2>2. running' = [running EXCEPT ![worker[w].job] = worker[w].run] /\ worker[w].pc = "register"
    BY <1>4 DEF RegisterRun
  <2>3. CASE worker[w].job = j
    BY <1>1, <2>1, <2>2, <2>3
  <2>4. CASE worker[w].job # j
    <3>1. running'[j] = running[j]
      BY <1>1, <2>2, <2>4
    <3>2. PICK v \in Workers : /\ worker[v].job = j /\ worker[v].run = running[j]
                               /\ worker[v].pc \notin {"idle", "create", "register"}
      BY <3>1 DEF SlotIsOccupied
    <3>. QED  BY <1>2, <2>4, <3>1, <3>2
  <2>. QED  BY <2>3, <2>4
<1>5. CASE ReleaseSlot(w)
  <2>1. running' = [running EXCEPT ![worker[w].job] = NoRun]
    BY <1>5 DEF ReleaseSlot
  <2>2. worker[w].job # j /\ running'[j] = running[j]
    BY <1>1, <2>1
  <2>3. PICK v \in Workers : /\ worker[v].job = j /\ worker[v].run = running[j]
                             /\ worker[v].pc \notin {"idle", "create", "register"}
    BY <2>2 DEF SlotIsOccupied
  <2>. QED  BY <1>2, <2>2, <2>3
<1>6. CASE Attempt(w) \/ TrackProcess(w) \/ ProcessExits(w) \/ StoreTransferFails(w)
             \/ ReapProcess(w) \/ RecordRun(w) \/ RecordJob(w)
  <2>1. UNCHANGED running
    BY <1>6 DEF Attempt, TrackProcess, ProcessExits, StoreTransferFails, ReapProcess, RecordRun,
      RecordJob
  <2>2. /\ worker'[w].job = worker[w].job /\ worker'[w].run = worker[w].run
        /\ worker'[w].pc = worker[w].pc \/ worker'[w].pc \notin {"idle", "create", "register"}
    <3> DEFINE S(pc, n, status) ==
                 [worker[w] EXCEPT !.pc = pc, !.attempt = n, !.status = status]
    <3>1. ASSUME NEW pc \in {"track", "attempt", "row", "release"}, NEW n, NEW status,
                 worker' = [worker EXCEPT ![w] = S(pc, n, status)]
          PROVE  /\ worker'[w].job = worker[w].job /\ worker'[w].run = worker[w].run
                 /\ worker'[w].pc = pc
      BY <1>1, <3>1 DEF WorkerState
    <3>2. CASE Attempt(w)
      <4> DEFINE n == worker[w].attempt + 1
      <4>1. worker[w].pc = "attempt"
            /\ (Launches(w, n) \/ PopenFails(w, n) \/ Offline(w, n) \/ PrecheckFails(w, n))
        BY <3>2 DEF Attempt
      <4> HIDE DEF n
      <4>2. CASE Launches(w, n)
        <5>1. worker' = [worker EXCEPT ![w] = S("track", n, worker[w].status)]
          BY <1>1, <4>2 DEF Launches, WorkerState
        <5>. QED  BY <3>1, <5>1
      <4>3. CASE PopenFails(w, n)
        <5>1. CASE n <= MaxRetries
          <6>1. worker' = [worker EXCEPT ![w] = S("attempt", n, "failed")]
            BY <1>1, <4>3, <5>1 DEF PopenFails, WorkerState
          <6>. QED  BY <3>1, <6>1
        <5>2. CASE ~(n <= MaxRetries)
          <6>1. worker' = [worker EXCEPT ![w] = S("row", n, "failed")]
            BY <1>1, <4>3, <5>2 DEF PopenFails, WorkerState
          <6>. QED  BY <3>1, <6>1
        <5>. QED  BY <5>1, <5>2
      <4>4. CASE Offline(w, n)
        <5>1. worker' = [worker EXCEPT ![w] = S("attempt", n, worker[w].status)]
          BY <1>1, <4>1, <4>4 DEF Offline, WorkerState
        <5>. QED  BY <3>1, <5>1
      <4>5. CASE PrecheckFails(w, n)
        <5>1. worker' = [worker EXCEPT ![w] = S("row", n, "failed")]
          BY <1>1, <4>5 DEF PrecheckFails, WorkerState
        <5>. QED  BY <3>1, <5>1
      <4>. QED  BY <4>1, <4>2, <4>3, <4>4, <4>5
    <3>3. CASE TrackProcess(w) \/ ProcessExits(w) \/ RecordRun(w)
      BY <1>1, <3>3 DEF TrackProcess, ProcessExits, RecordRun, Goes, WorkerState
    <3>4. ASSUME NEW pc \in {"attempt", "row", "release"}, NEW status, Settles(w, pc, status)
          PROVE  /\ worker'[w].job = worker[w].job /\ worker'[w].run = worker[w].run
                 /\ worker'[w].pc = pc
      <4>1. worker' = [worker EXCEPT ![w] = S(pc, worker[w].attempt, status)]
        BY <1>1, <3>4 DEF Settles, WorkerState
      <4>. QED  BY <3>1, <4>1
    <3>5. CASE StoreTransferFails(w)
      BY <3>4, <3>5 DEF StoreTransferFails, Returns
    <3>6. CASE ReapProcess(w)
      BY <3>4, <3>6 DEF ReapProcess, Returns
    <3>7. CASE RecordJob(w)
      <4>1. CASE Goes(w, "release")
        BY <1>1, <4>1 DEF Goes, WorkerState
      <4>. QED  BY <3>4, <3>7, <4>1 DEF RecordJob
    <3>. QED  BY <1>6, <3>2, <3>3, <3>5, <3>6, <3>7
  <2>3. PICK v \in Workers : /\ worker[v].job = j /\ worker[v].run = running[j]
                             /\ worker[v].pc \notin {"idle", "create", "register"}
    BY <2>1 DEF SlotIsOccupied
  <2>4. /\ worker'[v].job = j /\ worker'[v].run = running'[j]
        /\ worker'[v].pc \notin {"idle", "create", "register"}
    BY <1>2, <2>1, <2>2, <2>3
  <2>. QED  BY <2>4
<1>. QED  BY <1>3, <1>4, <1>5, <1>6 DEF WorkerStep

\* Who is launched was idle, so no registered job loses its worker.
LEMMA LaunchKeepsSlots ==
  ASSUME Inv, SlotIsOccupied, NEW j \in Jobs, Launch(j), UNCHANGED running
  PROVE  SlotIsOccupied'
<1>1. \A w \in Workers : worker[w].pc # "idle" => worker'[w] = worker[w]
  <2>1. worker \in [Workers -> WorkerState]
    BY DEF Inv, TypeOK
  <2> DEFINE free == {v \in Workers : CanLaunch(j, v)}
  <2>2. CASE free = {}
    BY <2>2 DEF Launch
  <2>3. CASE free # {}
    <3> DEFINE x == CHOOSE v \in free : TRUE
               s == [pc |-> "create", job |-> j, run |-> NoRun, attempt |-> 0,
                     status |-> "pending"]
    <3>1. x \in free
      BY <2>3
    <3>2. worker' = [worker EXCEPT ![x] = s]
      BY <2>3 DEF Launch
    <3>3. x \in Workers /\ worker[x].pc = "idle"
      BY <3>1 DEF CanLaunch
    <3> HIDE DEF x, s
    <3>. QED  BY <2>1, <3>2, <3>3
  <2>. QED  BY <2>2, <2>3
<1>. QED  BY <1>1 DEF SlotIsOccupied

\* However threads, retries, deletions and kills interleave, a job that is registered as
\* running is being run: there is a thread that will release it.
THEOREM SlotsOccupied == Spec => []SlotIsOccupied
<1>1. Init => SlotIsOccupied
  BY DEF Init, SlotIsOccupied
<1>2. ASSUME Inv, SlotIsOccupied, [Next]_vars PROVE SlotIsOccupied'
  <2>1. ASSUME NEW w \in Workers, WorkerStep(w) PROVE SlotIsOccupied'
    BY <1>2, <2>1, WorkerKeepsSlots
  <2>2. CASE UNCHANGED <<worker, running>>
    BY <1>2, <2>2 DEF SlotIsOccupied
  <2>3. CASE SchedulerStep
    BY <1>2, <2>2, <2>3, LaunchKeepsSlots DEF SchedulerStep, ListJobs, TriggerDue, PlanOrSkip,
      workVars
  <2>4. ASSUME NEW j \in Jobs,
               \/ CreateJob(j) \/ DeleteJob(j) \/ OpenEdit(j) \/ SaveEdit(j)
               \/ RunNow(j) \/ CancelJob(j) \/ TimePasses(j)
        PROVE  SlotIsOccupied'
    BY <1>2, <2>2, <2>4, LaunchKeepsSlots DEF CreateJob, DeleteJob, OpenEdit, SaveEdit, RunNow,
      CancelJob, TimePasses, workVars
  <2>5. CASE Restart
    BY <2>5 DEF Restart, SlotIsOccupied
  <2>6. CASE UNCHANGED vars
    BY <2>2, <2>6 DEF vars, workVars
  <2>. QED  BY <1>2, <2>1, <2>3, <2>4, <2>5, <2>6 DEF Next
<1>. QED  BY <1>1, <1>2, InitInv, NextKeepsInv, PTL DEF Spec

=============================================================================
