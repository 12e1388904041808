------------------------- MODULE SyncServiceProofs -------------------------
(***************************************************************************)
(* Theorems about SyncService for every choice of its constants, checked   *)
(* with TLAPS: what its engine keeps to, that it forgets no request, that  *)
(* it implements SyncPromise, and that follow-ups are as strong as what    *)
(* was asked.                                                              *)
(***************************************************************************)
EXTENDS SyncRefinement, FiniteSetTheorems, TLAPS

-----------------------------------------------------------------------------
(* The inductive invariant *)

EngineTypeOK ==
  /\ activeSyncs \subseteq Datasets
  /\ pendingSyncs \in [Datasets -> Requests \cup {NoRequest}]
  /\ deferredSyncs \subseteq Datasets
  /\ cancelRequested \subseteq Datasets
  /\ worker \in [Workers -> WorkerStates]
  /\ owed \in [Datasets -> Requests \cup {NoRequest}]

RestTypeOK ==
  /\ row \in [Datasets -> RowStates]
  /\ initialSyncDone \subseteq Datasets
  /\ online \in BOOLEAN
  /\ lockFile \subseteq Datasets
  /\ tick \in [pc : {"idle", "listed", "running"},
               listed : SUBSET Datasets, due : SUBSET Datasets]
  /\ killing \subseteq Datasets
  /\ deleting \subseteq Datasets
  /\ service \in {"starting", "up"}
  /\ crashes \in 0..MaxCrashes

\* Every thread but the idle ones works for a dataset and a request.
BusyWorkers ==
  \A w \in Workers : worker[w].pc # "idle" =>
    worker[w].ds \in Datasets /\ worker[w].req \in Requests

SlotsWithinCeiling == Cardinality(activeSyncs) <= MaxConcurrentSyncs

\* The flag of a cancelled run stays up until that run finishes.
CancelFlagStays ==
  \A w \in Workers : HoldsSlot(w) /\ worker[w].cancelled =>
    worker[w].ds \in cancelRequested

EngineInv ==
  /\ EngineTypeOK
  /\ BusyWorkers
  /\ SlotHasOneWorker
  /\ SlotsWithinCeiling
  /\ FollowUpBehindRun
  /\ CancelFlagStays

-----------------------------------------------------------------------------
(* Requests *)

\* What trigger_sync_async is given, and what folding makes of it, are requests.
LEMMA RequestFacts ==
  /\ PlainRequest \in Requests
  /\ \A old \in Requests \cup {NoRequest}, r \in Requests :
       Fold(old, r) \in Requests /\ Owing(old, r) \in Requests
  /\ NoRequest \notin Requests
BY NoRequestAssumption DEF PlainRequest, Requests, Fold, Owing, Modes

\* A new worker thread is well typed and starts uncancelled with its request.
LEMMA NewWorkerType ==
  ASSUME NEW d \in Datasets, NEW r \in Requests
  PROVE  /\ NewWorker(d, r) \in WorkerStates
         /\ NewWorker(d, r).pc = "loading"
         /\ NewWorker(d, r).ds = d
         /\ NewWorker(d, r).req = r
         /\ ~NewWorker(d, r).cancelled
         /\ IdleWorker \in WorkerStates
         /\ IdleWorker.pc = "idle"
BY DEF NewWorker, IdleWorker, WorkerStates, PCs, Attempts, Outcomes

\* trigger_sync_async keeps the engine's invariant, whoever calls it; only a
\* thread that has given its slot back may end with the call.
LEMMA TriggerKeepsEngineInv ==
  ASSUME EngineInv, NEW d \in Datasets, NEW r \in Requests,
         NEW ended \in SUBSET Workers,
         \A w \in ended : worker[w].pc = "carrying",
         TriggerSync(d, r, ended)
  PROVE  EngineInv'
<1> USE RequestFacts, NewWorkerType
<1>1. owed' \in [Datasets -> Requests \cup {NoRequest}]
  BY DEF EngineInv, EngineTypeOK, TriggerSync
<1>2. CASE d \in activeSyncs
  <2>1. /\ pendingSyncs' = [pendingSyncs EXCEPT ![d] = Fold(@, r)]
        /\ worker' = [w \in Workers |-> IF w \in ended THEN IdleWorker ELSE worker[w]]
        /\ UNCHANGED <<activeSyncs, deferredSyncs, cancelRequested>>
    BY <1>2 DEF TriggerSync
  <2>2. EngineTypeOK'
    BY <1>1, <2>1 DEF EngineInv, EngineTypeOK
  <2>3. \A w \in Workers : HoldsSlot(w)' <=> HoldsSlot(w)
    BY <2>1 DEF HoldsSlot, SlotPCs
  <2>4. \A w \in Workers : HoldsSlot(w) => worker'[w] = worker[w]
    BY <2>1 DEF HoldsSlot, SlotPCs
  <2>5. BusyWorkers'
    BY <2>1 DEF EngineInv, BusyWorkers
  <2>6. SlotHasOneWorker'
    BY <2>1, <2>3, <2>4 DEF EngineInv, SlotHasOneWorker
  <2>7. FollowUpBehindRun'
    BY <1>2, <2>1 DEF EngineInv, EngineTypeOK, FollowUpBehindRun
  <2>8. CancelFlagStays'
    BY <2>1, <2>3, <2>4 DEF EngineInv, CancelFlagStays
  <2> QED
    BY <2>1, <2>2, <2>5, <2>6, <2>7, <2>8 DEF EngineInv, SlotsWithinCeiling
<1>3. CASE d \notin activeSyncs /\ AtCeiling
  <2>1. /\ deferredSyncs' = deferredSyncs \cup {d}
        /\ worker' = [w \in Workers |-> IF w \in ended THEN IdleWorker ELSE worker[w]]
        /\ UNCHANGED <<activeSyncs, pendingSyncs, cancelRequested>>
    BY <1>3 DEF TriggerSync
  <2>2. EngineTypeOK'
    BY <1>1, <2>1 DEF EngineInv, EngineTypeOK
  <2>3. \A w \in Workers : HoldsSlot(w)' <=> HoldsSlot(w)
    BY <2>1 DEF HoldsSlot, SlotPCs
  <2>4. \A w \in Workers : HoldsSlot(w) => worker'[w] = worker[w]
    BY <2>1 DEF HoldsSlot, SlotPCs
  <2>5. BusyWorkers'
    BY <2>1 DEF EngineInv, BusyWorkers
  <2>6. SlotHasOneWorker'
    BY <2>1, <2>3, <2>4 DEF EngineInv, SlotHasOneWorker
  <2>7. CancelFlagStays'
    BY <2>1, <2>3, <2>4 DEF EngineInv, CancelFlagStays
  <2> QED
    BY <2>1, <2>2, <2>5, <2>6, <2>7
    DEF EngineInv, SlotsWithinCeiling, FollowUpBehindRun
<1>4. CASE d \notin activeSyncs /\ ~AtCeiling
  <2>1. PICK t \in Workers :
          /\ worker[t].pc = "idle" \/ t \in ended
          /\ worker' = [w \in Workers |-> IF w = t THEN NewWorker(d, r)
                                          ELSE IF w \in ended THEN IdleWorker
                                          ELSE worker[w]]
    BY <1>4 DEF TriggerSync
  <2>2. /\ activeSyncs' = activeSyncs \cup {d}
        /\ UNCHANGED <<pendingSyncs, deferredSyncs, cancelRequested>>
    BY <1>4 DEF TriggerSync
  <2>3. EngineTypeOK'
    BY <1>1, <2>1, <2>2 DEF EngineInv, EngineTypeOK
  <2>4. ~HoldsSlot(t) /\ HoldsSlot(t)' /\ worker'[t].ds = d /\ ~worker'[t].cancelled
    BY <2>1 DEF HoldsSlot, SlotPCs, PCs
  <2>5. \A w \in Workers \ {t} : HoldsSlot(w)' <=> HoldsSlot(w)
    BY <2>1 DEF HoldsSlot, SlotPCs
  <2>6. \A w \in Workers \ {t} : HoldsSlot(w) => worker'[w] = worker[w]
    BY <2>1 DEF HoldsSlot, SlotPCs
  <2>7. BusyWorkers'
    <3>1. SUFFICES ASSUME NEW w \in Workers, worker'[w].pc # "idle"
                   PROVE  worker'[w].ds \in Datasets /\ worker'[w].req \in Requests
      BY DEF BusyWorkers
    <3>2. CASE w = t
      <4>1. worker'[w] = NewWorker(d, r)
        BY <2>1, <3>2
      <4>2. NewWorker(d, r).ds = d /\ NewWorker(d, r).req = r
        BY DEF NewWorker, IdleWorker
      <4> QED
        BY <4>1, <4>2
    <3>3. CASE w # t
      <4>1. worker'[w] = worker[w]
        BY <2>1, <3>1, <3>3
      <4> QED
        BY <3>1, <4>1 DEF EngineInv, BusyWorkers
    <3> QED
      BY <3>2, <3>3
  <2>8. SlotHasOneWorker'
    BY <1>4, <2>2, <2>4, <2>5, <2>6 DEF EngineInv, SlotHasOneWorker
  <2>9. SlotsWithinCeiling'
    <3>1. IsFiniteSet(activeSyncs)
      BY DatasetsAssumption, FS_Subset DEF EngineInv, EngineTypeOK
    <3>2. Cardinality(activeSyncs \cup {d}) = Cardinality(activeSyncs) + 1
      BY <1>4, <3>1, FS_AddElement
    <3> QED
      BY <1>4, <2>2, <3>1, <3>2, CeilingAssumption, FS_CardinalityType
      DEF AtCeiling, SlotsWithinCeiling
  <2>10. FollowUpBehindRun'
    BY <2>2 DEF EngineInv, FollowUpBehindRun
  <2>11. CancelFlagStays'
    BY <2>2, <2>4, <2>5, <2>6 DEF EngineInv, CancelFlagStays
  <2> QED
    BY <2>3, <2>7, <2>8, <2>9, <2>10, <2>11 DEF EngineInv
<1> QED
  BY <1>2, <1>3, <1>4

-----------------------------------------------------------------------------
(* Steps of a worker thread *)

\* A step inside the run: the thread keeps its dataset, its request and its slot.
LEMMA RunStepKeepsEngineInv ==
  ASSUME EngineInv, NEW w \in Workers, HoldsSlot(w), NEW s \in WorkerStates,
         worker' = [worker EXCEPT ![w] = s],
         s.pc \in SlotPCs, s.ds = worker[w].ds, s.req = worker[w].req,
         s.cancelled <=> worker[w].cancelled,
         UNCHANGED <<activeSyncs, pendingSyncs, cancelRequested>>,
         deferredSyncs' \subseteq Datasets,
         owed' \in [Datasets -> Requests \cup {NoRequest}]
  PROVE  EngineInv'
<1>1. worker \in [Workers -> WorkerStates]
  BY DEF EngineInv, EngineTypeOK
<1>2. worker'[w] = s /\ \A v \in Workers \ {w} : worker'[v] = worker[v]
  BY <1>1
<1>3. \A v \in Workers : /\ HoldsSlot(v)' <=> HoldsSlot(v)
                         /\ worker'[v].ds = worker[v].ds
                         /\ worker'[v].req = worker[v].req
                         /\ worker'[v].cancelled <=> worker[v].cancelled
  BY <1>2 DEF HoldsSlot
<1>4. EngineTypeOK'
  BY <1>1 DEF EngineInv, EngineTypeOK
<1>5. BusyWorkers'
  BY <1>2, <1>3 DEF EngineInv, BusyWorkers, HoldsSlot, SlotPCs
<1>6. SlotHasOneWorker'
  BY <1>3 DEF EngineInv, SlotHasOneWorker
<1>7. CancelFlagStays'
  BY <1>3 DEF EngineInv, CancelFlagStays
<1> QED
  BY <1>4, <1>5, <1>6, <1>7 DEF EngineInv, SlotsWithinCeiling, FollowUpBehindRun

\* _finish_sync gives up the slot, the follow-up and the cancel flag together.
LEMMA FinishKeepsEngineInv ==
  ASSUME EngineInv, NEW w \in Workers, FinishSync(w)
  PROVE  EngineInv'
<1> DEFINE d == worker[w].ds
           follow == IF d \in cancelRequested THEN NoRequest ELSE pendingSyncs[d]
           s == IF follow = NoRequest THEN IdleWorker
                ELSE [IdleWorker EXCEPT !.pc = "carrying", !.ds = d, !.req = follow]
<1>1. /\ worker[w].pc = "finishing"
      /\ activeSyncs' = activeSyncs \ {d}
      /\ pendingSyncs' = [pendingSyncs EXCEPT ![d] = NoRequest]
      /\ cancelRequested' = cancelRequested \ {d}
      /\ worker' = [worker EXCEPT ![w] = s]
      /\ UNCHANGED deferredSyncs
      /\ owed' = [owed EXCEPT ![d] = IF worker[w].cancelled THEN NoRequest ELSE @]
  BY DEF FinishSync, PendingWithout
<1>2. worker \in [Workers -> WorkerStates]
  BY DEF EngineInv, EngineTypeOK
<1>3. HoldsSlot(w) /\ d \in activeSyncs /\ d \in Datasets
  BY <1>1 DEF HoldsSlot, SlotPCs, PCs, EngineInv, SlotHasOneWorker, BusyWorkers
<1>4. follow \in Requests \cup {NoRequest}
  BY <1>3 DEF EngineInv, EngineTypeOK
<1>5. /\ s \in WorkerStates
      /\ s.pc \in {"idle", "carrying"}
      /\ s.pc # "idle" => s.ds = d /\ s.req \in Requests
  BY <1>3, <1>4 DEF IdleWorker, WorkerStates, PCs, Attempts, Outcomes
<1> HIDE DEF s, follow
<1>6. worker'[w] = s /\ \A v \in Workers \ {w} : worker'[v] = worker[v]
  BY <1>1, <1>2
<1>7. ~HoldsSlot(w)' /\ \A v \in Workers \ {w} : HoldsSlot(v)' <=> HoldsSlot(v)
  BY <1>5, <1>6 DEF HoldsSlot, SlotPCs
<1>8. \A v \in Workers \ {w} : HoldsSlot(v) => worker[v].ds # d
  BY <1>3 DEF EngineInv, SlotHasOneWorker
<1> HIDE DEF d
<1>9. EngineTypeOK'
  BY <1>1, <1>2, <1>3, <1>5, <1>6 DEF EngineInv, EngineTypeOK
<1>10. BusyWorkers'
  BY <1>3, <1>5, <1>6 DEF EngineInv, BusyWorkers
<1>11. SlotHasOneWorker'
  BY <1>1, <1>6, <1>7, <1>8 DEF EngineInv, SlotHasOneWorker, d
<1>12. SlotsWithinCeiling'
  <2>1. IsFiniteSet(activeSyncs)
    BY DatasetsAssumption, FS_Subset DEF EngineInv, EngineTypeOK
  <2>2. Cardinality(activeSyncs \ {d}) <= Cardinality(activeSyncs)
    BY <2>1, FS_RemoveElement, FS_CardinalityType, FS_Subset
  <2>3. Cardinality(activeSyncs) \in Nat /\ Cardinality(activeSyncs \ {d}) \in Nat
    BY <2>1, FS_CardinalityType, FS_RemoveElement
  <2> QED
    BY <1>1, <2>2, <2>3, CeilingAssumption DEF EngineInv, SlotsWithinCeiling
<1>13. FollowUpBehindRun'
  BY <1>1 DEF EngineInv, EngineTypeOK, FollowUpBehindRun
<1>14. CancelFlagStays'
  BY <1>1, <1>6, <1>7, <1>8 DEF EngineInv, CancelFlagStays
<1> QED
  BY <1>9, <1>10, <1>11, <1>12, <1>13, <1>14 DEF EngineInv

\* Each step of a worker thread keeps the engine's invariant.
LEMMA WorkerKeepsEngineInv ==
  ASSUME EngineInv, NEW w \in Workers, WorkerStep(w)
  PROVE  EngineInv'
<1> USE DEF SlotPCs, PCs
<1>1. worker \in [Workers -> WorkerStates] /\ worker[w] \in WorkerStates
  BY DEF EngineInv, EngineTypeOK
<1>2. worker[w].pc # "idle" => worker[w].ds \in Datasets /\ worker[w].req \in Requests
  BY DEF EngineInv, BusyWorkers
<1>3. /\ owed \in [Datasets -> Requests \cup {NoRequest}]
      /\ pendingSyncs \in [Datasets -> Requests \cup {NoRequest}]
      /\ deferredSyncs \subseteq Datasets
  BY DEF EngineInv, EngineTypeOK
<1>4. CASE LoadDataset(w)
  <2> DEFINE s == IF row[worker[w].ds] = "absent" THEN [worker[w] EXCEPT !.pc = "finishing"]
                  ELSE [worker[w] EXCEPT !.pc = "checking",
                                         !.fresh = worker[w].ds \notin initialSyncDone]
  <2>1. worker' = [worker EXCEPT ![w] = s] /\ worker[w].pc = "loading"
    BY <1>1, <1>4 DEF LoadDataset
  <2>2. /\ s \in WorkerStates /\ s.pc \in SlotPCs /\ s.ds = worker[w].ds
        /\ s.req = worker[w].req /\ (s.cancelled <=> worker[w].cancelled)
    BY <1>1 DEF WorkerStates
  <2> HIDE DEF s
  <2> QED
    BY <1>3, <1>4, <2>1, <2>2, RunStepKeepsEngineInv DEF LoadDataset, HoldsSlot, queueVars
<1>5. CASE PassChecks(w)
  <2> DEFINE s == [worker[w] EXCEPT !.pc = "starting"]
  <2>1. worker' = [worker EXCEPT ![w] = s] /\ worker[w].pc = "checking"
    BY <1>1, <1>5 DEF PassChecks
  <2>2. /\ s \in WorkerStates /\ s.pc \in SlotPCs /\ s.ds = worker[w].ds
        /\ s.req = worker[w].req /\ (s.cancelled <=> worker[w].cancelled)
    BY <1>1 DEF WorkerStates
  <2> HIDE DEF s
  <2> QED
    BY <1>3, <1>5, <2>1, <2>2, RunStepKeepsEngineInv DEF PassChecks, HoldsSlot, queueVars
<1>6. CASE DeferOffline(w)
  <2> DEFINE s == [worker[w] EXCEPT !.pc = "finishing"]
  <2>1. worker' = [worker EXCEPT ![w] = s] /\ worker[w].pc = "checking"
    BY <1>1, <1>6 DEF DeferOffline
  <2>2. /\ s \in WorkerStates /\ s.pc \in SlotPCs /\ s.ds = worker[w].ds
        /\ s.req = worker[w].req /\ (s.cancelled <=> worker[w].cancelled)
    BY <1>1 DEF WorkerStates
  <2>3. deferredSyncs' \subseteq Datasets
    BY <1>2, <1>3, <1>6, <2>1 DEF DeferOffline, MarkNeedsSync
  <2> HIDE DEF s
  <2> QED
    BY <1>3, <1>6, <2>1, <2>2, <2>3, RunStepKeepsEngineInv DEF DeferOffline, HoldsSlot
<1>7. CASE FailRun(w)
  <2> DEFINE s == [worker[w] EXCEPT !.pc = "finishing", !.outcome = "none"]
  <2>1. /\ worker' = [worker EXCEPT ![w] = s]
        /\ worker[w].pc \in {"loading", "checking", "starting", "returned"}
    BY <1>1, <1>7 DEF FailRun
  <2>2. /\ s \in WorkerStates /\ s.pc \in SlotPCs /\ s.ds = worker[w].ds
        /\ s.req = worker[w].req /\ (s.cancelled <=> worker[w].cancelled)
    BY <1>1 DEF WorkerStates, Outcomes
  <2>3. owed' \in [Datasets -> Requests \cup {NoRequest}]
    BY <1>2, <1>3, <1>7, <2>1 DEF FailRun
  <2> HIDE DEF s
  <2> QED
    BY <1>3, <1>7, <2>1, <2>2, <2>3, RunStepKeepsEngineInv DEF FailRun, HoldsSlot, queueVars
<1>8. CASE StartBisync(w)
  <2>1. worker[w].pc = "starting"
    BY <1>8 DEF StartBisync
  <2>2. owed' \in [Datasets -> Requests \cup {NoRequest}]
    BY <1>2, <1>3, <1>8, <2>1 DEF StartBisync
  <2>3. CASE worker' = [worker EXCEPT ![w].pc = "returned", ![w].outcome = "lock_conflict"]
    <3> DEFINE s == [worker[w] EXCEPT !.pc = "returned", !.outcome = "lock_conflict"]
    <3>1. worker' = [worker EXCEPT ![w] = s]
      BY <1>1, <2>3
    <3>2. /\ s \in WorkerStates /\ s.pc \in SlotPCs /\ s.ds = worker[w].ds
          /\ s.req = worker[w].req /\ (s.cancelled <=> worker[w].cancelled)
      BY <1>1 DEF WorkerStates, Outcomes
    <3> HIDE DEF s
    <3> QED
      BY <1>3, <1>8, <2>1, <2>2, <3>1, <3>2, RunStepKeepsEngineInv
      DEF StartBisync, HoldsSlot, queueVars
  <2>4. CASE worker' = [worker EXCEPT ![w].pc = "transferring"]
    <3> DEFINE s == [worker[w] EXCEPT !.pc = "transferring"]
    <3>1. worker' = [worker EXCEPT ![w] = s]
      BY <1>1, <2>4
    <3>2. /\ s \in WorkerStates /\ s.pc \in SlotPCs /\ s.ds = worker[w].ds
          /\ s.req = worker[w].req /\ (s.cancelled <=> worker[w].cancelled)
      BY <1>1 DEF WorkerStates
    <3> HIDE DEF s
    <3> QED
      BY <1>3, <1>8, <2>1, <2>2, <3>1, <3>2, RunStepKeepsEngineInv
      DEF StartBisync, HoldsSlot, queueVars
  <2> QED
    BY <1>8, <2>3, <2>4 DEF StartBisync
<1>9. CASE BisyncExits(w)
  <2>1. PICK o \in ExitOutcomes :
          worker' = [worker EXCEPT ![w].pc = "returned", ![w].outcome = o]
    BY <1>9 DEF BisyncExits
  <2> DEFINE s == [worker[w] EXCEPT !.pc = "returned", !.outcome = o]
  <2>2. worker' = [worker EXCEPT ![w] = s] /\ worker[w].pc = "transferring"
    BY <1>1, <1>9, <2>1 DEF BisyncExits
  <2>3. /\ s \in WorkerStates /\ s.pc \in SlotPCs /\ s.ds = worker[w].ds
        /\ s.req = worker[w].req /\ (s.cancelled <=> worker[w].cancelled)
    BY <1>1 DEF WorkerStates, Outcomes
  <2> HIDE DEF s
  <2> QED
    BY <1>3, <1>9, <2>2, <2>3, RunStepKeepsEngineInv DEF BisyncExits, HoldsSlot, queueVars
<1>14. CASE AbandonBisync(w)
  <2> DEFINE s == [worker[w] EXCEPT !.pc = "returned", !.outcome = "failed"]
  <2>1. worker' = [worker EXCEPT ![w] = s] /\ worker[w].pc = "transferring"
    BY <1>1, <1>14 DEF AbandonBisync
  <2>2. /\ s \in WorkerStates /\ s.pc \in SlotPCs /\ s.ds = worker[w].ds
        /\ s.req = worker[w].req /\ (s.cancelled <=> worker[w].cancelled)
    BY <1>1 DEF WorkerStates, Outcomes, ExitOutcomes
  <2> HIDE DEF s
  <2> QED
    BY <1>3, <1>14, <2>1, <2>2, RunStepKeepsEngineInv DEF AbandonBisync, HoldsSlot, queueVars
<1>10. CASE RetryBisync(w)
  <2> DEFINE s == [worker[w] EXCEPT !.pc = "starting", !.outcome = "none",
                                    !.attempt = NextAttempt(w)]
  <2>1. worker' = [worker EXCEPT ![w] = s] /\ worker[w].pc = "returned"
    BY <1>1, <1>10 DEF RetryBisync
  <2>2. NextAttempt(w) \in Attempts
    BY <1>10 DEF RetryBisync, NextAttempt, Attempts
  <2>3. /\ s \in WorkerStates /\ s.pc \in SlotPCs /\ s.ds = worker[w].ds
        /\ s.req = worker[w].req /\ (s.cancelled <=> worker[w].cancelled)
    BY <1>1, <2>2 DEF WorkerStates, Outcomes
  <2> HIDE DEF s
  <2> QED
    BY <1>3, <1>10, <2>1, <2>3, RunStepKeepsEngineInv DEF RetryBisync, HoldsSlot, queueVars
<1>11. CASE RecordResult(w)
  <2> DEFINE s == [worker[w] EXCEPT !.pc = "finishing", !.outcome = "none"]
  <2>1. worker' = [worker EXCEPT ![w] = s] /\ worker[w].pc = "returned"
    BY <1>1, <1>11 DEF RecordResult
  <2>2. /\ s \in WorkerStates /\ s.pc \in SlotPCs /\ s.ds = worker[w].ds
        /\ s.req = worker[w].req /\ (s.cancelled <=> worker[w].cancelled)
    BY <1>1 DEF WorkerStates, Outcomes
  <2>3. deferredSyncs' \subseteq Datasets
    BY <1>2, <1>3, <1>11, <2>1 DEF RecordResult, MarkNeedsSync
  <2>4. owed' \in [Datasets -> Requests \cup {NoRequest}]
    <3>1. Owing(owed[worker[w].ds], worker[w].req) \in Requests
      BY <1>2, <1>3, <2>1, RequestFacts
    <3> QED
      BY <1>3, <1>11, <3>1 DEF RecordResult
  <2> HIDE DEF s
  <2> QED
    BY <1>3, <1>11, <2>1, <2>2, <2>3, <2>4, RunStepKeepsEngineInv DEF RecordResult, HoldsSlot
<1>12. CASE FinishSync(w)
  BY <1>12, FinishKeepsEngineInv
<1>13. CASE StartFollowUp(w)
  BY <1>2, <1>13, TriggerKeepsEngineInv DEF StartFollowUp
<1> QED
  BY <1>4, <1>5, <1>6, <1>7, <1>8, <1>9, <1>10, <1>11, <1>12, <1>13, <1>14 DEF WorkerStep

-----------------------------------------------------------------------------
(* Steps of the other threads *)

\* cancel_sync's critical section.
LEMMA CancelKeepsEngineInv ==
  ASSUME EngineInv, NEW d \in Datasets, CancelRequest(d)
  PROVE  EngineInv'
<1>1. worker \in [Workers -> WorkerStates]
  BY DEF EngineInv, EngineTypeOK
<1>2. \A w \in Workers :
        /\ worker'[w] \in WorkerStates
        /\ worker'[w].pc = worker[w].pc
        /\ worker'[w].ds = worker[w].ds
        /\ worker'[w].req = worker[w].req
        /\ worker'[w].cancelled => worker[w].cancelled \/ (HoldsSlot(w) /\ worker[w].ds = d)
  BY <1>1 DEF CancelRequest, WorkerStates
<1>3. \A w \in Workers : HoldsSlot(w)' <=> HoldsSlot(w)
  BY <1>2 DEF HoldsSlot
<1>4. EngineTypeOK'
  BY <1>2 DEF EngineInv, EngineTypeOK, CancelRequest, PendingWithout
<1>5. BusyWorkers'
  BY <1>2 DEF EngineInv, BusyWorkers
<1>6. SlotHasOneWorker'
  BY <1>2, <1>3 DEF EngineInv, SlotHasOneWorker, CancelRequest
<1>7. FollowUpBehindRun'
  BY DEF EngineInv, EngineTypeOK, FollowUpBehindRun, CancelRequest, PendingWithout
<1>8. CancelFlagStays'
  BY <1>2, <1>3 DEF EngineInv, CancelFlagStays, CancelRequest
<1> QED
  BY <1>4, <1>5, <1>6, <1>7, <1>8 DEF EngineInv, SlotsWithinCeiling, CancelRequest

\* cancel_bisync ends a transfer, not the run.
LEMMA TerminateKeepsEngineInv ==
  ASSUME EngineInv, NEW d \in Datasets, TerminateBisync(d), UNCHANGED <<queueVars, owed>>
  PROVE  EngineInv'
<1>1. worker \in [Workers -> WorkerStates]
  BY DEF EngineInv, EngineTypeOK
<1>a. PICK o \in ExitOutcomes :
        worker' = [w \in Workers |->
                    IF worker[w].pc = "transferring" /\ worker[w].ds = d
                    THEN [worker[w] EXCEPT !.pc = "returned", !.outcome = o]
                    ELSE worker[w]]
  BY DEF TerminateBisync
<1>2. \A w \in Workers :
        /\ worker'[w] \in WorkerStates
        /\ worker'[w].ds = worker[w].ds
        /\ worker'[w].req = worker[w].req
        /\ worker'[w].cancelled <=> worker[w].cancelled
        /\ worker'[w].pc = worker[w].pc
           \/ (worker[w].pc = "transferring" /\ worker'[w].pc = "returned")
  BY <1>1, <1>a DEF WorkerStates, PCs, Outcomes
<1>3. \A w \in Workers : HoldsSlot(w)' <=> HoldsSlot(w)
  BY <1>2 DEF HoldsSlot, SlotPCs, PCs
<1>4. EngineTypeOK'
  BY <1>2, <1>a DEF EngineInv, EngineTypeOK, queueVars
<1>5. BusyWorkers'
  BY <1>2 DEF EngineInv, BusyWorkers
<1>6. SlotHasOneWorker'
  BY <1>2, <1>3 DEF EngineInv, SlotHasOneWorker, queueVars
<1>7. CancelFlagStays'
  BY <1>2, <1>3 DEF EngineInv, CancelFlagStays, queueVars
<1> QED
  BY <1>4, <1>5, <1>6, <1>7
  DEF EngineInv, SlotsWithinCeiling, FollowUpBehindRun, queueVars

\* An empty engine satisfies the invariant.
LEMMA EmptyEngine ==
  ASSUME activeSyncs = {}, pendingSyncs = [d \in Datasets |-> NoRequest],
         deferredSyncs = {}, cancelRequested = {},
         worker = [w \in Workers |-> IdleWorker],
         owed \in [Datasets -> Requests \cup {NoRequest}]
  PROVE  EngineInv
<1>1. IdleWorker \in WorkerStates /\ IdleWorker.pc = "idle"
  BY DEF IdleWorker, WorkerStates, PCs, Attempts, Outcomes
<1>2. EngineTypeOK
  BY <1>1 DEF EngineTypeOK
<1>3. \A w \in Workers : ~HoldsSlot(w) /\ worker[w].pc = "idle"
  BY <1>1 DEF HoldsSlot, SlotPCs
<1>4. BusyWorkers /\ SlotHasOneWorker /\ FollowUpBehindRun /\ CancelFlagStays
  BY <1>3 DEF BusyWorkers, SlotHasOneWorker, FollowUpBehindRun, CancelFlagStays
<1>5. SlotsWithinCeiling
  BY FS_EmptySet, CeilingAssumption DEF SlotsWithinCeiling
<1> QED
  BY <1>2, <1>4, <1>5 DEF EngineInv

-----------------------------------------------------------------------------
(* The engine's invariant is inductive *)

\* The engine of a freshly started service satisfies its invariant.
LEMMA InitEngineInv == Init => EngineInv
<1> SUFFICES ASSUME Init PROVE EngineInv
  OBVIOUS
<1>1. owed \in [Datasets -> Requests \cup {NoRequest}]
  BY DEF Init
<1> QED
  BY <1>1, EmptyEngine DEF Init

\* A crash leaves an empty engine.
LEMMA CrashKeepsEngineInv ==
  ASSUME EngineInv, Crash
  PROVE  EngineInv'
<1>1. /\ activeSyncs' = {} /\ deferredSyncs' = {} /\ cancelRequested' = {}
      /\ pendingSyncs' = [d \in Datasets |-> NoRequest]
      /\ worker' = [w \in Workers |-> IdleWorker]
  BY DEF Crash
<1>2. owed' \in [Datasets -> Requests \cup {NoRequest}]
  BY RequestFacts DEF Crash, EngineInv, EngineTypeOK
<1>3. IdleWorker \in WorkerStates /\ IdleWorker.pc = "idle"
  BY DEF IdleWorker, WorkerStates, PCs, Attempts, Outcomes
<1>4. EngineTypeOK'
  BY <1>1, <1>2, <1>3 DEF EngineTypeOK
<1>5. \A w \in Workers : ~HoldsSlot(w)' /\ worker'[w].pc = "idle"
  BY <1>1, <1>3 DEF HoldsSlot, SlotPCs
<1>6. BusyWorkers' /\ SlotHasOneWorker' /\ FollowUpBehindRun' /\ CancelFlagStays'
  BY <1>1, <1>5 DEF BusyWorkers, SlotHasOneWorker, FollowUpBehindRun, CancelFlagStays
<1>7. SlotsWithinCeiling'
  BY <1>1, FS_EmptySet, CeilingAssumption DEF SlotsWithinCeiling
<1> QED
  BY <1>4, <1>6, <1>7 DEF EngineInv

\* Steps that only fill or drain the deferred set.
LEMMA DeferringKeepsEngineInv ==
  ASSUME EngineInv, deferredSyncs' \subseteq Datasets,
         UNCHANGED <<activeSyncs, pendingSyncs, cancelRequested, worker, owed>>
  PROVE  EngineInv'
BY DEF EngineInv, EngineTypeOK, BusyWorkers, SlotHasOneWorker, SlotsWithinCeiling,
       FollowUpBehindRun, CancelFlagStays, HoldsSlot

\* Each step of the service keeps the engine's invariant.
LEMMA NextKeepsEngineInv ==
  ASSUME EngineInv, [Next]_vars
  PROVE  EngineInv'
<1> USE DEF engineVars, queueVars
<1>0. deferredSyncs \subseteq Datasets
  BY DEF EngineInv, EngineTypeOK
<1>1. CASE UNCHANGED vars
  BY <1>0, <1>1, DeferringKeepsEngineInv DEF vars
<1>2. ASSUME NEW w \in Workers, SyncWorker(w) PROVE EngineInv'
  BY <1>2, WorkerKeepsEngineInv DEF SyncWorker
<1>3. CASE ListDatasets \/ TickEnds
  BY <1>0, <1>3, DeferringKeepsEngineInv DEF ListDatasets, TickEnds
<1>4. CASE TakeDeferred
  BY <1>4, DeferringKeepsEngineInv DEF TakeDeferred
<1>5. ASSUME NEW d \in Datasets, RunDue(d) PROVE EngineInv'
  BY <1>5, RequestFacts, TriggerKeepsEngineInv DEF RunDue
<1>6. ASSUME NEW d \in Datasets, CancelBisync(d) PROVE EngineInv'
  BY <1>6, TerminateKeepsEngineInv DEF CancelBisync
<1>7. ASSUME NEW d \in Datasets, DeleteRow(d) \/ ExpireLock(d) \/ Pause(d) PROVE EngineInv'
  BY <1>0, <1>7, DeferringKeepsEngineInv DEF DeleteRow, ExpireLock, Pause
<1>8. CASE RestoreSyncState
  BY <1>0, <1>8, DeferringKeepsEngineInv DEF RestoreSyncState, MarkNeedsSync
<1>9. ASSUME NEW d \in Datasets, WatcherTriggers(d) \/ Resume(d) PROVE EngineInv'
  BY <1>9, RequestFacts, TriggerKeepsEngineInv DEF WatcherTriggers, Resume
<1>10. ASSUME NEW d \in Datasets, SyncNow(d) PROVE EngineInv'
  <2>1. PICK f \in BOOLEAN : TriggerSync(d, [PlainRequest EXCEPT !.force = f], {})
    BY <1>10 DEF SyncNow
  <2>2. [PlainRequest EXCEPT !.force = f] \in Requests
    BY DEF PlainRequest, Requests
  <2> QED
    BY <2>1, <2>2, TriggerKeepsEngineInv
<1>11. ASSUME NEW d \in Datasets, AddDataset(d) PROVE EngineInv'
  <2>1. [mode |-> SetupMode[d], force |-> TRUE] \in Requests
    BY SetupAssumption DEF Requests
  <2> QED
    BY <1>11, <2>1, TriggerKeepsEngineInv DEF AddDataset
<1>12. ASSUME NEW d \in Datasets, CancelSync(d) \/ BeginDelete(d) PROVE EngineInv'
  BY <1>12, CancelKeepsEngineInv DEF CancelSync, BeginDelete
<1>13. CASE Crash
  BY <1>13, CrashKeepsEngineInv
<1>14. CASE Disconnect \/ Reconnect
  BY <1>0, <1>14, DeferringKeepsEngineInv DEF Disconnect, Reconnect
<1> QED
  BY <1>1, <1>2, <1>3, <1>4, <1>5, <1>6, <1>7, <1>8, <1>9, <1>10, <1>11, <1>12,
     <1>13, <1>14 DEF Next, Environment

-----------------------------------------------------------------------------
(* Type correctness of the other variables *)

\* A worker's step keeps the row, the locks and the network well typed.
LEMMA WorkerKeepsRest ==
  ASSUME EngineInv, RestTypeOK, NEW w \in Workers, SyncWorker(w)
  PROVE  RestTypeOK'
<1>1. worker[w].pc # "idle" => worker[w].ds \in Datasets
  BY DEF EngineInv, BusyWorkers
<1>2. UNCHANGED <<row, online, tick, killing, deleting, service, crashes>>
  BY DEF SyncWorker, WorkerStep, LoadDataset, PassChecks, DeferOffline, FailRun,
         StartBisync, BisyncExits, AbandonBisync, RetryBisync, RecordResult, FinishSync,
         StartFollowUp, dbVars, callerVars
<1>3. initialSyncDone' \subseteq Datasets
  BY <1>1 DEF RestTypeOK, SyncWorker, WorkerStep, LoadDataset, PassChecks, DeferOffline,
              FailRun, StartBisync, BisyncExits, AbandonBisync, RetryBisync, RecordResult,
              FinishSync, StartFollowUp, dbVars
<1>4. lockFile' \subseteq Datasets
  BY <1>1 DEF RestTypeOK, SyncWorker, WorkerStep, LoadDataset, PassChecks, DeferOffline,
              FailRun, StartBisync, BisyncExits, AbandonBisync, RetryBisync, RecordResult,
              FinishSync, StartFollowUp, dbVars
<1> QED
  BY <1>2, <1>3, <1>4 DEF RestTypeOK

\* Every step keeps the variables around the engine well typed.
LEMMA NextKeepsRest ==
  ASSUME EngineInv, RestTypeOK, [Next]_vars
  PROVE  RestTypeOK'
<1> USE DEF RestTypeOK
<1>1. CASE UNCHANGED vars
  BY <1>1 DEF vars, engineVars, queueVars, dbVars, callerVars
<1>2. ASSUME NEW w \in Workers, SyncWorker(w) PROVE RestTypeOK'
  BY <1>2, WorkerKeepsRest
<1>3. CASE ListDatasets
  BY <1>3 DEF ListDatasets, IdleTick, engineVars, queueVars, dbVars
<1>4. CASE TickEnds
  BY <1>4 DEF TickEnds, IdleTick, engineVars, queueVars, dbVars
<1>5. CASE TakeDeferred
  BY <1>5 DEF TakeDeferred, dbVars
<1>6. ASSUME NEW d \in Datasets, RunDue(d) PROVE RestTypeOK'
  BY <1>6 DEF RunDue, dbVars
<1>7. ASSUME NEW d \in Datasets, CancelBisync(d) PROVE RestTypeOK'
  BY <1>7 DEF CancelBisync, TerminateBisync, dbVars
<1>8. ASSUME NEW d \in Datasets, DeleteRow(d) PROVE RestTypeOK'
  BY <1>8 DEF DeleteRow, RowStates
<1>9. ASSUME NEW d \in Datasets, ExpireLock(d) PROVE RestTypeOK'
  BY <1>9 DEF ExpireLock, dbVars, callerVars
<1>10. ASSUME NEW d \in Datasets, WatcherTriggers(d) \/ SyncNow(d) PROVE RestTypeOK'
  BY <1>10 DEF WatcherTriggers, SyncNow, dbVars, callerVars
<1>11. ASSUME NEW d \in Datasets, AddDataset(d) PROVE RestTypeOK'
  BY <1>11 DEF AddDataset, RowStates, callerVars
<1>12. ASSUME NEW d \in Datasets, Pause(d) \/ Resume(d) PROVE RestTypeOK'
  BY <1>12 DEF Pause, Resume, RowStates, callerVars
<1>13. ASSUME NEW d \in Datasets, CancelSync(d) \/ BeginDelete(d) PROVE RestTypeOK'
  BY <1>13 DEF CancelSync, BeginDelete, dbVars
<1>14. CASE Crash
  BY <1>14, CrashesAssumption DEF Crash, IdleTick, dbVars
<1>15. CASE RestoreSyncState
  BY <1>15 DEF RestoreSyncState, dbVars, callerVars
<1>16. CASE Disconnect \/ Reconnect
  BY <1>16 DEF Disconnect, Reconnect, dbVars, callerVars
<1> QED
  BY <1>1, <1>2, <1>3, <1>4, <1>5, <1>6, <1>7, <1>8, <1>9, <1>10, <1>11, <1>12,
     <1>13, <1>14, <1>15, <1>16 DEF Next, Environment

\* The initial states are well typed.
LEMMA InitRest == Init => RestTypeOK
BY StrayLocksAssumption, CrashesAssumption DEF Init, RestTypeOK, IdleTick

\* The invariant the safety theorems below rest on holds in every state.
THEOREM Invariance == Spec => [](EngineInv /\ RestTypeOK)
<1>1. Init => EngineInv /\ RestTypeOK
  BY InitEngineInv, InitRest
<1>2. (EngineInv /\ RestTypeOK) /\ [Next]_vars => (EngineInv /\ RestTypeOK)'
  BY NextKeepsEngineInv, NextKeepsRest
<1> QED
  BY <1>1, <1>2, PTL DEF Spec

-----------------------------------------------------------------------------
(* The safety theorems *)

\* Every reachable state is well typed.
THEOREM TypeCorrect == Spec => []TypeOK
<1>1. EngineInv /\ RestTypeOK => TypeOK
  BY DEF EngineInv, EngineTypeOK, RestTypeOK, TypeOK
<1> QED
  BY <1>1, Invariance, PTL

\* Each slot in _active_syncs belongs to one worker thread, and no thread runs
\* without its slot, whatever the number of datasets and threads.
THEOREM SlotsCorrect == Spec => []SlotHasOneWorker
<1>1. EngineInv => SlotHasOneWorker
  BY DEF EngineInv
<1> QED
  BY <1>1, Invariance, PTL

\* A follow-up never waits behind a run that is not there.
THEOREM FollowUpCorrect == Spec => []FollowUpBehindRun
<1>1. EngineInv => FollowUpBehindRun
  BY DEF EngineInv
<1> QED
  BY <1>1, Invariance, PTL

\* The slots bound the threads that hold them: each has one of its own.
LEMMA ThreadsWithinSlots ==
  ASSUME EngineInv
  PROVE  ConcurrencyCeiling
<1> DEFINE H == {w \in Workers : HoldsSlot(w)}
           f == [w \in H |-> worker[w].ds]
<1>1. IsFiniteSet(activeSyncs)
  BY DatasetsAssumption, FS_Subset DEF EngineInv, EngineTypeOK
<1>2. f \in Injection(H, activeSyncs)
  BY DEF EngineInv, SlotHasOneWorker, Injection, IsInjective
<1>3. Cardinality(H) <= Cardinality(activeSyncs)
  BY <1>1, <1>2, FS_Injection DEF ExistsInjection
<1>4. IsFiniteSet(H)
  BY WorkersAssumption, FS_Subset
<1>5. Cardinality(H) \in Nat /\ Cardinality(activeSyncs) \in Nat
  BY <1>1, <1>4, FS_CardinalityType
<1> QED
  BY <1>3, <1>5, CeilingAssumption DEF EngineInv, SlotsWithinCeiling, ConcurrencyCeiling

\* There are never more running sync workers than the configured ceiling.
THEOREM CeilingCorrect == Spec => []ConcurrencyCeiling
<1>1. EngineInv => ConcurrencyCeiling
  BY ThreadsWithinSlots
<1> QED
  BY <1>1, Invariance, PTL

-----------------------------------------------------------------------------
(* Cancelled runs *)

\* A thread is made to start rclone, or to carry a follow-up, only by a step of
\* its own.
LEMMA OwnStep ==
  ASSUME EngineInv, Next, NEW w \in Workers,
         worker[w].pc \in {"returned", "finishing"},
         worker'[w].pc \in {"starting", "carrying"}
  PROVE  \/ worker[w].pc = "returned" /\ RetryBisync(w)
         \/ worker[w].pc = "finishing" /\ FinishSync(w)
<1>0. worker \in [Workers -> WorkerStates] /\ worker[w] \in WorkerStates
  BY DEF EngineInv, EngineTypeOK
<1>1. ASSUME NEW d \in Datasets, NEW r \in Requests, NEW ended \in SUBSET Workers,
             TriggerSync(d, r, ended)
      PROVE  FALSE
  <2>1. \A t \in Workers : NewWorker(d, r).pc = "loading" /\ IdleWorker.pc = "idle"
    BY DEF NewWorker, IdleWorker
  <2> QED
    BY <1>1, <2>1 DEF TriggerSync
<1>2. ASSUME NEW d \in Datasets, CancelRequest(d) \/ TerminateBisync(d) PROVE FALSE
  <2>1. worker'[w].pc \in {worker[w].pc, "returned"}
    <3>1. CASE CancelRequest(d)
      BY <1>0, <3>1 DEF CancelRequest, WorkerStates
    <3>2. CASE TerminateBisync(d)
      <4>1. \E o \in ExitOutcomes :
              worker'[w] \in {worker[w], [worker[w] EXCEPT !.pc = "returned", !.outcome = o]}
        BY <3>2 DEF TerminateBisync
      <4> QED
        BY <1>0, <4>1 DEF WorkerStates
    <3> QED
      BY <1>2, <3>1, <3>2
  <2> QED
    BY <2>1
<1>3. worker' # worker
  OBVIOUS
<1>4. \A v \in Workers : ~StartFollowUp(v)
  BY <1>1 DEF StartFollowUp, EngineInv, BusyWorkers
<1>5. ASSUME NEW v \in Workers, WorkerStep(v), v # w PROVE FALSE
  BY <1>0, <1>4, <1>5 DEF WorkerStep, LoadDataset, PassChecks, DeferOffline, FailRun,
     StartBisync, BisyncExits, AbandonBisync, RetryBisync, RecordResult, FinishSync
<1>6. ASSUME WorkerStep(w)
      PROVE  \/ worker[w].pc = "returned" /\ RetryBisync(w)
             \/ worker[w].pc = "finishing" /\ FinishSync(w)
  BY <1>0, <1>4, <1>6 DEF WorkerStep, LoadDataset, PassChecks, DeferOffline, FailRun,
     StartBisync, BisyncExits, AbandonBisync, RetryBisync, RecordResult, FinishSync, WorkerStates
<1>7. ~Crash
  BY DEF Crash, IdleWorker
<1>8. ASSUME NEW d \in Datasets,
             \/ RunDue(d) \/ WatcherTriggers(d) \/ Resume(d) \/ SyncNow(d) \/ AddDataset(d)
      PROVE  FALSE
  <2>1. \A f \in BOOLEAN : [PlainRequest EXCEPT !.force = f] \in Requests
    BY DEF PlainRequest, Requests
  <2>2. [mode |-> SetupMode[d], force |-> TRUE] \in Requests
    BY SetupAssumption DEF Requests
  <2>3. \E r \in Requests : TriggerSync(d, r, {})
    <3>1. CASE SyncNow(d)
      <4>1. PICK f \in BOOLEAN : TriggerSync(d, [PlainRequest EXCEPT !.force = f], {})
        BY <3>1 DEF SyncNow
      <4> QED
        BY <2>1, <4>1
    <3>2. CASE RunDue(d) \/ WatcherTriggers(d) \/ Resume(d)
      BY <3>2, RequestFacts DEF RunDue, WatcherTriggers, Resume
    <3>3. CASE AddDataset(d)
      BY <2>2, <3>3 DEF AddDataset
    <3> QED
      BY <1>8, <3>1, <3>2, <3>3
  <2> QED
    BY <1>1, <2>3
<1>9. \A d \in Datasets :
        ~CancelBisync(d) /\ ~CancelSync(d) /\ ~BeginDelete(d)
  BY <1>2 DEF CancelBisync, CancelSync, BeginDelete
<1>10. \A d \in Datasets : ~Pause(d) /\ ~DeleteRow(d) /\ ~ExpireLock(d)
  BY <1>3 DEF Pause, DeleteRow, ExpireLock
<1>11. /\ ~ListDatasets /\ ~TakeDeferred /\ ~TickEnds /\ ~RestoreSyncState
       /\ ~Disconnect /\ ~Reconnect
  BY <1>3 DEF ListDatasets, TakeDeferred, TickEnds, RestoreSyncState, Disconnect,
     Reconnect, engineVars
<1>12. PICK v \in Workers : WorkerStep(v)
  BY <1>7, <1>8, <1>9, <1>10, <1>11 DEF Next, Environment, SyncWorker
<1> QED
  BY <1>5, <1>6, <1>12

\* A run the user cancelled is neither retried nor followed up: its flag is
\* still up when the result is looked at and when the slot is released.
THEOREM CancelCorrect == Spec => CancelledRunEndsThere
<1> DEFINE Ends == \A w \in Workers : worker[w].cancelled =>
                     /\ worker[w].pc = "returned" => worker'[w].pc # "starting"
                     /\ worker[w].pc = "finishing" => worker'[w].pc # "carrying"
<1>1. EngineInv /\ [Next]_vars => [Ends]_vars
  <2> SUFFICES ASSUME EngineInv, Next, NEW w \in Workers, worker[w].cancelled,
                      \/ worker[w].pc = "returned" /\ worker'[w].pc = "starting"
                      \/ worker[w].pc = "finishing" /\ worker'[w].pc = "carrying"
               PROVE  FALSE
    OBVIOUS
  <2>1. worker \in [Workers -> WorkerStates]
    BY DEF EngineInv, EngineTypeOK
  <2>2. worker[w].ds \in cancelRequested
    BY DEF EngineInv, CancelFlagStays, HoldsSlot, SlotPCs, PCs
  <2>3. CASE worker[w].pc = "returned" /\ RetryBisync(w)
    BY <2>2, <2>3 DEF RetryBisync, NextAttempt
  <2>4. CASE worker[w].pc = "finishing" /\ FinishSync(w)
    <3>1. worker'[w] = IdleWorker
      BY <2>1, <2>2, <2>4 DEF FinishSync
    <3> QED
      BY <2>4, <3>1 DEF IdleWorker
  <2> QED
    BY <2>3, <2>4, OwnStep
<1> QED
  BY <1>1, Invariance, PTL DEF Spec, CancelledRunEndsThere

(***************************************************************************)
(* The service forgets no request: NoRequestForgotten.                     *)
(***************************************************************************)
-----------------------------------------------------------------------------
(* The inductive invariant *)

\* The datasets NoRequestForgotten is about.
Settled == Datasets \ (Joinable \cup Volatile \cup IdleCancellable)

\* Their rows are there and enabled, and nobody is deleting them.
RowsSettled ==
  /\ \A d \in Settled : row[d] = "enabled"
  /\ deleting \subseteq Volatile

\* A tick that will drain the deferred set has listed all of them, so a
\* deferral it takes is one it triggers.
TickListsAll ==
  /\ tick.pc = "listed" => Settled \subseteq tick.listed
  /\ tick.pc # "running" => tick.due = {}

\* Only a worker whose rclone has returned holds a result of it.
OutcomeWhenReturned ==
  \A w \in Workers : worker[w].outcome \in ExitOutcomes => worker[w].pc = "returned"

\* A cancel flag is up only while the run it was raised for holds the slot: it
\* never drops the follow-up of another run.
FlagBelongsToRun ==
  /\ \A d \in Settled : d \in cancelRequested => d \in activeSyncs
  /\ \A w \in Workers :
       HoldsSlot(w) /\ worker[w].ds \in Settled /\ worker[w].ds \in cancelRequested
         => worker[w].cancelled

OwedIsHeld == \A d \in Settled : owed[d] # NoRequest => Held(d)

MemoryInv ==
  /\ RowsSettled
  /\ TickListsAll
  /\ OutcomeWhenReturned
  /\ FlagBelongsToRun
  /\ OwedIsHeld

-----------------------------------------------------------------------------
(* Requests *)

\* trigger_sync_async leaves its dataset held, and every other one as it was.
LEMMA TriggerHolds ==
  ASSUME EngineInv, NEW d \in Datasets, NEW r \in Requests, NEW ended \in SUBSET Workers,
         \A w \in ended : worker[w].pc = "carrying" /\ worker[w].ds = d,
         TriggerSync(d, r, ended)
  PROVE  /\ HeldByEngine(d)'
         /\ \A x \in Datasets \ {d} : HeldByEngine(x) => HeldByEngine(x)'
<1> USE RequestFacts
<1>0. /\ worker \in [Workers -> WorkerStates]
      /\ pendingSyncs \in [Datasets -> Requests \cup {NoRequest}]
  BY DEF EngineInv, EngineTypeOK
<1>1. \A w \in Workers \ ended : worker[w].pc # "idle" => worker'[w] = worker[w]
  BY DEF TriggerSync
<1>2. \A x \in Datasets \ {d} : pendingSyncs'[x] = pendingSyncs[x]
  BY <1>0 DEF TriggerSync
<1>3. deferredSyncs \subseteq deferredSyncs'
  BY DEF TriggerSync
<1>4. ASSUME NEW x \in Datasets \ {d}, HeldByEngine(x) PROVE HeldByEngine(x)'
  <2>1. CASE x \in deferredSyncs \/ pendingSyncs[x] # NoRequest
    BY <1>2, <1>3, <2>1 DEF HeldByEngine
  <2>2. ASSUME NEW w \in Workers, worker[w].ds = x, Awaiting(worker[w])
        PROVE  HeldByEngine(x)'
    <3>1. w \notin ended /\ worker[w].pc # "idle"
      BY <2>2 DEF Awaiting
    <3>2. worker'[w] = worker[w]
      BY <1>1, <3>1
    <3> QED
      BY <2>2, <3>2 DEF HeldByEngine
  <2> QED
    BY <1>4, <2>1, <2>2 DEF HeldByEngine
<1>5. HeldByEngine(d)'
  <2>1. CASE d \in activeSyncs
    <3>1. pendingSyncs'[d] = Fold(pendingSyncs[d], r)
      BY <1>0, <2>1 DEF TriggerSync
    <3>2. Fold(pendingSyncs[d], r) \in Requests
      BY <1>0
    <3> QED
      BY <3>1, <3>2 DEF HeldByEngine
  <2>2. CASE d \notin activeSyncs /\ AtCeiling
    BY <2>2 DEF TriggerSync, HeldByEngine
  <2>3. CASE d \notin activeSyncs /\ ~AtCeiling
    <3>1. PICK t \in Workers : worker'[t] = NewWorker(d, r)
      BY <2>3 DEF TriggerSync
    <3>2. worker'[t].ds = d /\ Awaiting(worker'[t])
      BY <3>1 DEF NewWorker, IdleWorker, Awaiting
    <3> QED
      BY <3>2 DEF HeldByEngine
  <2> QED
    BY <2>1, <2>2, <2>3
<1> QED
  BY <1>4, <1>5

\* Whoever calls trigger_sync_async, and the scheduler's loop among them, keeps
\* the memory invariant.
LEMMA TriggerKeepsMemory ==
  ASSUME EngineInv, MemoryInv,
         NEW d \in Datasets, NEW r \in Requests, NEW ended \in SUBSET Workers,
         \A w \in ended : worker[w].pc = "carrying" /\ worker[w].ds = d,
         TriggerSync(d, r, ended),
         \A x \in Settled : row'[x] = row[x],
         tick'.pc = tick.pc, tick'.listed = tick.listed,
         tick'.due \subseteq tick.due, tick.due \ {d} \subseteq tick'.due,
         UNCHANGED <<deleting, service>>
  PROVE  MemoryInv'
<1>0. /\ worker \in [Workers -> WorkerStates]
      /\ owed \in [Datasets -> Requests \cup {NoRequest}]
  BY DEF EngineInv, EngineTypeOK
<1>1. \A w \in Workers : \/ worker'[w] = worker[w]
                         \/ worker'[w] = IdleWorker
                         \/ worker'[w] = NewWorker(d, r) /\ d \notin activeSyncs
  BY DEF TriggerSync
<1>2. UNCHANGED cancelRequested /\ activeSyncs \subseteq activeSyncs'
  BY DEF TriggerSync
<1>3. \A x \in Datasets \ {d} : owed'[x] = owed[x]
  BY <1>0 DEF TriggerSync
<1>4. /\ IdleWorker.pc = "idle" /\ IdleWorker.outcome = "none"
      /\ NewWorker(d, r).outcome = "none" /\ NewWorker(d, r).ds = d
  BY DEF IdleWorker, NewWorker
<1>5. RowsSettled' /\ TickListsAll'
  BY DEF MemoryInv, RowsSettled, TickListsAll
<1>6. OutcomeWhenReturned'
  BY <1>1, <1>4 DEF MemoryInv, OutcomeWhenReturned, ExitOutcomes
<1>7. FlagBelongsToRun'
  <2>1. \A x \in Settled : x \in cancelRequested' => x \in activeSyncs'
    BY <1>2 DEF MemoryInv, FlagBelongsToRun
  <2>2. ASSUME NEW w \in Workers, HoldsSlot(w)', worker'[w].ds \in Settled,
               worker'[w].ds \in cancelRequested'
        PROVE  worker'[w].cancelled
    <3>1. CASE worker'[w] = worker[w]
      BY <1>2, <2>2, <3>1 DEF MemoryInv, FlagBelongsToRun, HoldsSlot
    <3>2. CASE worker'[w] = IdleWorker
      BY <1>4, <2>2, <3>2 DEF HoldsSlot, SlotPCs
    <3>3. CASE worker'[w] = NewWorker(d, r) /\ d \notin activeSyncs
      BY <1>2, <1>4, <2>2, <3>3 DEF MemoryInv, FlagBelongsToRun
    <3> QED
      BY <1>1, <3>1, <3>2, <3>3
  <2> QED
    BY <2>1, <2>2 DEF FlagBelongsToRun
<1>8. OwedIsHeld'
  <2> SUFFICES ASSUME NEW x \in Settled, owed'[x] # NoRequest PROVE Held(x)'
    BY DEF OwedIsHeld
  <2>1. CASE x = d
    BY <2>1, TriggerHolds DEF Held
  <2>2. CASE x # d
    <3>1. x \in Datasets \ {d}
      BY <2>2 DEF Settled
    <3>2. Held(x)
      BY <1>3, <3>1 DEF MemoryInv, OwedIsHeld
    <3> QED
      BY <3>1, <3>2, TriggerHolds DEF Held
  <2> QED
    BY <2>1, <2>2
<1> QED
  BY <1>5, <1>6, <1>7, <1>8 DEF MemoryInv

-----------------------------------------------------------------------------
(* Steps of a worker thread *)

\* A step inside a run keeps the memory invariant if what is owed for its dataset
\* is still held by a queue, by the thread, or by what held it before.
LEMMA RunStepKeepsMemory ==
  ASSUME EngineInv, MemoryInv, NEW w \in Workers, HoldsSlot(w), NEW s \in WorkerStates,
         worker' = [worker EXCEPT ![w] = s],
         s.pc \in SlotPCs, s.ds = worker[w].ds,
         s.cancelled <=> worker[w].cancelled,
         s.outcome \in ExitOutcomes => s.pc = "returned",
         UNCHANGED <<activeSyncs, pendingSyncs, cancelRequested, row, callerVars, service>>,
         deferredSyncs \subseteq deferredSyncs',
         \A x \in Datasets \ {worker[w].ds} : owed'[x] = owed[x],
         worker[w].ds \in Settled /\ owed'[worker[w].ds] # NoRequest =>
           \/ pendingSyncs[worker[w].ds] # NoRequest
           \/ worker[w].ds \in deferredSyncs'
           \/ Awaiting(s)
           \/ owed[worker[w].ds] # NoRequest /\ ~Awaiting(worker[w])
  PROVE  MemoryInv'
<1> USE DEF callerVars
<1>0. worker \in [Workers -> WorkerStates]
  BY DEF EngineInv, EngineTypeOK
<1>1. worker'[w] = s /\ \A v \in Workers \ {w} : worker'[v] = worker[v]
  BY <1>0
<1>2. RowsSettled' /\ TickListsAll'
  BY DEF MemoryInv, RowsSettled, TickListsAll
<1>3. OutcomeWhenReturned'
  BY <1>1 DEF MemoryInv, OutcomeWhenReturned
<1>4. FlagBelongsToRun'
  BY <1>1 DEF MemoryInv, FlagBelongsToRun, HoldsSlot
<1>5. ASSUME NEW x \in Datasets \ {worker[w].ds}, Held(x) PROVE Held(x)'
  <2>1. HeldByEngine(x) => HeldByEngine(x)'
    BY <1>1 DEF HeldByEngine
  <2> QED
    BY <1>5, <2>1 DEF Held
<1>6. ASSUME owed'[worker[w].ds] # NoRequest, worker[w].ds \in Settled
      PROVE  Held(worker[w].ds)'
  <2> DEFINE d == worker[w].ds
  <2>0. worker'[w].ds = d
    BY <1>1
  <2>1. CASE pendingSyncs[d] # NoRequest \/ d \in deferredSyncs'
    BY <2>1 DEF Held, HeldByEngine
  <2>2. CASE Awaiting(s)
    BY <1>1, <2>0, <2>2 DEF Held, HeldByEngine
  <2>3. CASE owed[d] # NoRequest /\ ~Awaiting(worker[w])
    <3>1. Held(d)
      BY <1>6, <2>3 DEF MemoryInv, OwedIsHeld
    <3>2. HeldByEngine(d) => HeldByEngine(d)'
      BY <1>1, <2>3 DEF HeldByEngine
    <3> QED
      BY <3>1, <3>2 DEF Held
  <2> QED
    BY <1>6, <2>1, <2>2, <2>3
<1>7. OwedIsHeld'
  <2> SUFFICES ASSUME NEW x \in Settled, owed'[x] # NoRequest PROVE Held(x)'
    BY DEF OwedIsHeld
  <2>1. CASE x = worker[w].ds
    BY <1>6, <2>1
  <2>2. CASE x # worker[w].ds
    <3>1. x \in Datasets \ {worker[w].ds}
      BY <2>2 DEF Settled
    <3>2. Held(x)
      BY <3>1 DEF MemoryInv, OwedIsHeld
    <3> QED
      BY <1>5, <3>1, <3>2
  <2> QED
    BY <2>1, <2>2
<1> QED
  BY <1>2, <1>3, <1>4, <1>7 DEF MemoryInv

\* _finish_sync either carries the follow-up away or drops it with a flag that
\* was raised for this very run.
LEMMA FinishKeepsMemory ==
  ASSUME EngineInv, MemoryInv, NEW w \in Workers, FinishSync(w),
         UNCHANGED <<callerVars, service>>
  PROVE  MemoryInv'
<1>a. worker[w].ds \in Datasets
  BY DEF FinishSync, EngineInv, BusyWorkers
<1>b. PICK d \in Datasets : worker[w].ds = d
  BY <1>a
<1> DEFINE follow == IF d \in cancelRequested THEN NoRequest ELSE pendingSyncs[d]
           s == IF follow = NoRequest THEN IdleWorker
                ELSE [IdleWorker EXCEPT !.pc = "carrying", !.ds = d, !.req = follow]
<1> USE DEF callerVars
<1>0. /\ worker \in [Workers -> WorkerStates]
      /\ owed \in [Datasets -> Requests \cup {NoRequest}]
      /\ pendingSyncs \in [Datasets -> Requests \cup {NoRequest}]
  BY DEF EngineInv, EngineTypeOK
<1>1. /\ worker[w].pc = "finishing"
      /\ activeSyncs' = activeSyncs \ {d}
      /\ pendingSyncs' = [pendingSyncs EXCEPT ![d] = NoRequest]
      /\ cancelRequested' = cancelRequested \ {d}
      /\ worker' = [worker EXCEPT ![w] = s]
      /\ owed' = [owed EXCEPT ![d] = IF worker[w].cancelled THEN NoRequest ELSE @]
      /\ UNCHANGED <<deferredSyncs, row>>
  BY <1>b DEF FinishSync, PendingWithout, dbVars
<1>2. HoldsSlot(w)
  BY <1>1 DEF HoldsSlot, SlotPCs, PCs
<1>3. /\ s.outcome = "none" /\ s.pc \in {"idle", "carrying"}
      /\ follow # NoRequest => s.ds = d /\ Awaiting(s)
  BY DEF IdleWorker, Awaiting
<1> HIDE DEF s
<1>4. worker'[w] = s /\ \A v \in Workers \ {w} : worker'[v] = worker[v]
  BY <1>0, <1>1
<1>5. RowsSettled' /\ TickListsAll'
  BY <1>1 DEF MemoryInv, RowsSettled, TickListsAll
<1>6. OutcomeWhenReturned'
  BY <1>3, <1>4 DEF MemoryInv, OutcomeWhenReturned, ExitOutcomes
<1>7. FlagBelongsToRun'
  BY <1>1, <1>3, <1>4 DEF MemoryInv, FlagBelongsToRun, HoldsSlot, SlotPCs
<1>8. ASSUME NEW x \in Datasets \ {d}, Held(x) PROVE Held(x)'
  <2>1. pendingSyncs'[x] = pendingSyncs[x]
    BY <1>0, <1>1
  <2>2. HeldByEngine(x) => HeldByEngine(x)'
    BY <1>1, <1>4, <1>b, <2>1 DEF HeldByEngine
  <2> QED
    BY <1>8, <2>2 DEF Held
<1>9. ASSUME d \in Settled, owed'[d] # NoRequest PROVE Held(d)'
  <2>1. ~worker[w].cancelled /\ owed[d] # NoRequest
    BY <1>0, <1>1, <1>9
  <2>2. d \notin cancelRequested
    BY <1>2, <1>9, <1>b, <2>1 DEF MemoryInv, FlagBelongsToRun
  <2>3. follow = pendingSyncs[d]
    BY <2>2
  <2>4. CASE pendingSyncs[d] # NoRequest
    <3>1. worker'[w].ds = d /\ Awaiting(worker'[w])
      BY <1>3, <1>4, <2>3, <2>4
    <3> QED
      BY <3>1 DEF Held, HeldByEngine
  <2>5. CASE pendingSyncs[d] = NoRequest
    <3>1. Held(d)
      BY <1>9, <2>1 DEF MemoryInv, OwedIsHeld
    <3>2. ~Awaiting(worker[w])
      BY <1>1 DEF Awaiting
    <3>3. HeldByEngine(d) => HeldByEngine(d)'
      BY <1>1, <1>4, <1>b, <2>5, <3>2 DEF HeldByEngine
    <3> QED
      BY <3>1, <3>3 DEF Held
  <2> QED
    BY <2>4, <2>5
<1>10. OwedIsHeld'
  <2> SUFFICES ASSUME NEW x \in Settled, owed'[x] # NoRequest PROVE Held(x)'
    BY DEF OwedIsHeld
  <2>1. CASE x = d
    BY <1>9, <2>1
  <2>2. CASE x # d
    <3>1. x \in Datasets \ {d} /\ owed'[x] = owed[x]
      BY <1>0, <1>1, <2>2 DEF Settled
    <3>2. Held(x)
      BY <3>1 DEF MemoryInv, OwedIsHeld
    <3> QED
      BY <1>8, <3>1, <3>2
  <2> QED
    BY <2>1, <2>2
<1> QED
  BY <1>5, <1>6, <1>7, <1>10 DEF MemoryInv

\* Each step of a worker thread keeps the memory invariant.
LEMMA WorkerKeepsMemory ==
  ASSUME EngineInv, MemoryInv, NEW w \in Workers, SyncWorker(w)
  PROVE  MemoryInv'
<1> USE DEF SlotPCs, PCs
<1>1. worker \in [Workers -> WorkerStates] /\ worker[w] \in WorkerStates
  BY DEF EngineInv, EngineTypeOK
<1>2. worker[w].pc # "idle" => worker[w].ds \in Datasets /\ worker[w].req \in Requests
  BY DEF EngineInv, BusyWorkers
<1>3. /\ owed \in [Datasets -> Requests \cup {NoRequest}]
      /\ pendingSyncs \in [Datasets -> Requests \cup {NoRequest}]
      /\ UNCHANGED <<callerVars, service>>
  BY DEF EngineInv, EngineTypeOK, SyncWorker
<1>4. worker[w].outcome \in ExitOutcomes => worker[w].pc = "returned"
  BY DEF MemoryInv, OutcomeWhenReturned
<1>5. CASE LoadDataset(w)
  <2> DEFINE s == IF row[worker[w].ds] = "absent" THEN [worker[w] EXCEPT !.pc = "finishing"]
                  ELSE [worker[w] EXCEPT !.pc = "checking",
                                         !.fresh = worker[w].ds \notin initialSyncDone]
  <2>1. worker' = [worker EXCEPT ![w] = s] /\ worker[w].pc \notin {"idle", "carrying"}
    BY <1>1, <1>5 DEF LoadDataset
  <2>2. /\ s \in WorkerStates /\ s.pc \in SlotPCs /\ s.ds = worker[w].ds
        /\ s.cancelled <=> worker[w].cancelled
        /\ s.outcome \in ExitOutcomes => s.pc = "returned"
    BY <1>1, <1>4, <1>5 DEF LoadDataset, WorkerStates, Outcomes, ExitOutcomes, Attempts, NextAttempt
  <2>3. worker[w].ds \in Settled /\ owed'[worker[w].ds] # NoRequest =>
          \/ pendingSyncs[worker[w].ds] # NoRequest
          \/ worker[w].ds \in deferredSyncs'
          \/ Awaiting(s)
          \/ owed[worker[w].ds] # NoRequest /\ ~Awaiting(worker[w])
    BY <1>1, <1>2, <1>3, <1>4, <1>5 DEF LoadDataset, Awaiting, MemoryInv, RowsSettled
  <2> HIDE DEF s
  <2> QED
    BY <1>1, <1>2, <1>3, <1>5, <2>1, <2>2, <2>3, RunStepKeepsMemory
    DEF LoadDataset, SyncWorker, HoldsSlot, queueVars, dbVars
<1>6. CASE PassChecks(w)
  <2> DEFINE s == [worker[w] EXCEPT !.pc = "starting"]
  <2>1. worker' = [worker EXCEPT ![w] = s] /\ worker[w].pc \notin {"idle", "carrying"}
    BY <1>1, <1>6 DEF PassChecks
  <2>2. /\ s \in WorkerStates /\ s.pc \in SlotPCs /\ s.ds = worker[w].ds
        /\ s.cancelled <=> worker[w].cancelled
        /\ s.outcome \in ExitOutcomes => s.pc = "returned"
    BY <1>1, <1>4, <1>6 DEF PassChecks, WorkerStates, Outcomes, ExitOutcomes, Attempts, NextAttempt
  <2>3. worker[w].ds \in Settled /\ owed'[worker[w].ds] # NoRequest =>
          \/ pendingSyncs[worker[w].ds] # NoRequest
          \/ worker[w].ds \in deferredSyncs'
          \/ Awaiting(s)
          \/ owed[worker[w].ds] # NoRequest /\ ~Awaiting(worker[w])
    BY <1>1, <1>2, <1>3, <1>4, <1>6 DEF PassChecks, Awaiting
  <2> HIDE DEF s
  <2> QED
    BY <1>1, <1>2, <1>3, <1>6, <2>1, <2>2, <2>3, RunStepKeepsMemory
    DEF PassChecks, SyncWorker, HoldsSlot, queueVars, dbVars
<1>7. CASE DeferOffline(w)
  <2> DEFINE s == [worker[w] EXCEPT !.pc = "finishing"]
  <2>1. worker' = [worker EXCEPT ![w] = s] /\ worker[w].pc \notin {"idle", "carrying"}
    BY <1>1, <1>7 DEF DeferOffline
  <2>2. /\ s \in WorkerStates /\ s.pc \in SlotPCs /\ s.ds = worker[w].ds
        /\ s.cancelled <=> worker[w].cancelled
        /\ s.outcome \in ExitOutcomes => s.pc = "returned"
    BY <1>1, <1>4, <1>7 DEF DeferOffline, WorkerStates, Outcomes, ExitOutcomes, Attempts, NextAttempt
  <2>3. worker[w].ds \in Settled /\ owed'[worker[w].ds] # NoRequest =>
          \/ pendingSyncs[worker[w].ds] # NoRequest
          \/ worker[w].ds \in deferredSyncs'
          \/ Awaiting(s)
          \/ owed[worker[w].ds] # NoRequest /\ ~Awaiting(worker[w])
    BY <1>1, <1>2, <1>3, <1>4, <1>7 DEF DeferOffline, Awaiting, MarkNeedsSync
  <2> HIDE DEF s
  <2> QED
    BY <1>1, <1>2, <1>3, <1>7, <2>1, <2>2, <2>3, RunStepKeepsMemory
    DEF DeferOffline, SyncWorker, HoldsSlot, queueVars, dbVars, MarkNeedsSync
<1>8. CASE FailRun(w)
  <2> DEFINE s == [worker[w] EXCEPT !.pc = "finishing", !.outcome = "none"]
  <2>1. worker' = [worker EXCEPT ![w] = s] /\ worker[w].pc \notin {"idle", "carrying"}
    BY <1>1, <1>8 DEF FailRun
  <2>2. /\ s \in WorkerStates /\ s.pc \in SlotPCs /\ s.ds = worker[w].ds
        /\ s.cancelled <=> worker[w].cancelled
        /\ s.outcome \in ExitOutcomes => s.pc = "returned"
    BY <1>1, <1>4, <1>8 DEF FailRun, WorkerStates, Outcomes, ExitOutcomes, Attempts, NextAttempt
  <2>3. worker[w].ds \in Settled /\ owed'[worker[w].ds] # NoRequest =>
          \/ pendingSyncs[worker[w].ds] # NoRequest
          \/ worker[w].ds \in deferredSyncs'
          \/ Awaiting(s)
          \/ owed[worker[w].ds] # NoRequest /\ ~Awaiting(worker[w])
    BY <1>1, <1>2, <1>3, <1>4, <1>8 DEF FailRun, Awaiting, ExitOutcomes
  <2> HIDE DEF s
  <2> QED
    BY <1>1, <1>2, <1>3, <1>8, <2>1, <2>2, <2>3, RunStepKeepsMemory
    DEF FailRun, SyncWorker, HoldsSlot, queueVars, dbVars
<1>9. CASE StartBisync(w)
  <2>1. worker[w].pc = "starting"
    BY <1>9 DEF StartBisync
  <2>2. \A x \in Datasets \ {worker[w].ds} : owed'[x] = owed[x]
    BY <1>3, <1>9 DEF StartBisync
  <2>3. CASE worker' = [worker EXCEPT ![w].pc = "returned", ![w].outcome = "lock_conflict"]
    <3> DEFINE s == [worker[w] EXCEPT !.pc = "returned", !.outcome = "lock_conflict"]
    <3>1. worker' = [worker EXCEPT ![w] = s]
      BY <1>1, <2>3
    <3>2. /\ s \in WorkerStates /\ s.pc \in SlotPCs /\ s.ds = worker[w].ds
          /\ s.cancelled <=> worker[w].cancelled
          /\ s.outcome \in ExitOutcomes => s.pc = "returned"
          /\ Awaiting(s)
      BY <1>1 DEF WorkerStates, Outcomes, Awaiting
    <3> HIDE DEF s
    <3> QED
      BY <1>3, <1>9, <2>1, <2>2, <3>1, <3>2, RunStepKeepsMemory
      DEF StartBisync, HoldsSlot, queueVars, dbVars
  <2>4. CASE /\ worker' = [worker EXCEPT ![w].pc = "transferring"]
             /\ owed' = [owed EXCEPT ![worker[w].ds] = pendingSyncs[worker[w].ds]]
    <3> DEFINE s == [worker[w] EXCEPT !.pc = "transferring"]
    <3>1. worker' = [worker EXCEPT ![w] = s]
      BY <1>1, <2>4
    <3>2. /\ s \in WorkerStates /\ s.pc \in SlotPCs /\ s.ds = worker[w].ds
          /\ s.cancelled <=> worker[w].cancelled
          /\ s.outcome \in ExitOutcomes => s.pc = "returned"
      BY <1>1, <1>4, <2>1 DEF WorkerStates
    <3>3. owed'[worker[w].ds] # NoRequest => pendingSyncs[worker[w].ds] # NoRequest
      BY <1>2, <1>3, <2>1, <2>4
    <3> HIDE DEF s
    <3> QED
      BY <1>3, <1>9, <2>1, <2>2, <3>1, <3>2, <3>3, RunStepKeepsMemory
      DEF StartBisync, HoldsSlot, queueVars, dbVars
  <2> QED
    BY <1>9, <2>3, <2>4 DEF StartBisync
<1>10. CASE BisyncExits(w)
  <2>1. PICK o \in ExitOutcomes :
          worker' = [worker EXCEPT ![w].pc = "returned", ![w].outcome = o]
    BY <1>10 DEF BisyncExits
  <2> DEFINE s == [worker[w] EXCEPT !.pc = "returned", !.outcome = o]
  <2>2. worker' = [worker EXCEPT ![w] = s] /\ worker[w].pc = "transferring"
    BY <1>1, <1>10, <2>1 DEF BisyncExits
  <2>3. /\ s \in WorkerStates /\ s.pc \in SlotPCs /\ s.ds = worker[w].ds
        /\ s.cancelled <=> worker[w].cancelled
        /\ s.outcome \in ExitOutcomes => s.pc = "returned"
    BY <1>1 DEF WorkerStates, Outcomes
  <2>4. ~Awaiting(worker[w])
    BY <2>2 DEF Awaiting
  <2> HIDE DEF s
  <2> QED
    BY <1>3, <1>10, <2>2, <2>3, <2>4, RunStepKeepsMemory
    DEF BisyncExits, HoldsSlot, queueVars, dbVars
<1>15. CASE AbandonBisync(w)
  <2> DEFINE s == [worker[w] EXCEPT !.pc = "returned", !.outcome = "failed"]
  <2>1. worker' = [worker EXCEPT ![w] = s] /\ worker[w].pc = "transferring"
    BY <1>1, <1>15 DEF AbandonBisync
  <2>2. /\ s \in WorkerStates /\ s.pc \in SlotPCs /\ s.ds = worker[w].ds
        /\ s.cancelled <=> worker[w].cancelled
        /\ s.outcome \in ExitOutcomes => s.pc = "returned"
    BY <1>1 DEF WorkerStates, Outcomes, ExitOutcomes
  <2>3. ~Awaiting(worker[w])
    BY <2>1 DEF Awaiting
  <2> HIDE DEF s
  <2> QED
    BY <1>3, <1>15, <2>1, <2>2, <2>3, RunStepKeepsMemory
    DEF AbandonBisync, HoldsSlot, queueVars, dbVars
<1>11. CASE RetryBisync(w)
  <2> DEFINE s == [worker[w] EXCEPT !.pc = "starting", !.outcome = "none",
                                    !.attempt = NextAttempt(w)]
  <2>1. worker' = [worker EXCEPT ![w] = s] /\ worker[w].pc \notin {"idle", "carrying"}
    BY <1>1, <1>11 DEF RetryBisync
  <2>2. /\ s \in WorkerStates /\ s.pc \in SlotPCs /\ s.ds = worker[w].ds
        /\ s.cancelled <=> worker[w].cancelled
        /\ s.outcome \in ExitOutcomes => s.pc = "returned"
    BY <1>1, <1>4, <1>11 DEF RetryBisync, WorkerStates, Outcomes, ExitOutcomes, Attempts, NextAttempt
  <2>3. worker[w].ds \in Settled /\ owed'[worker[w].ds] # NoRequest =>
          \/ pendingSyncs[worker[w].ds] # NoRequest
          \/ worker[w].ds \in deferredSyncs'
          \/ Awaiting(s)
          \/ owed[worker[w].ds] # NoRequest /\ ~Awaiting(worker[w])
    BY <1>1, <1>2, <1>3, <1>4, <1>11 DEF RetryBisync, Awaiting
  <2> HIDE DEF s
  <2> QED
    BY <1>1, <1>2, <1>3, <1>11, <2>1, <2>2, <2>3, RunStepKeepsMemory
    DEF RetryBisync, SyncWorker, HoldsSlot, queueVars, dbVars
<1>12. CASE RecordResult(w)
  <2> DEFINE s == [worker[w] EXCEPT !.pc = "finishing", !.outcome = "none"]
  <2>1. worker' = [worker EXCEPT ![w] = s] /\ worker[w].pc \notin {"idle", "carrying"}
    BY <1>1, <1>12 DEF RecordResult
  <2>2. /\ s \in WorkerStates /\ s.pc \in SlotPCs /\ s.ds = worker[w].ds
        /\ s.cancelled <=> worker[w].cancelled
        /\ s.outcome \in ExitOutcomes => s.pc = "returned"
    BY <1>1, <1>4, <1>12 DEF RecordResult, WorkerStates, Outcomes, ExitOutcomes, Attempts, NextAttempt
  <2>3. worker[w].ds \in Settled /\ owed'[worker[w].ds] # NoRequest =>
          \/ pendingSyncs[worker[w].ds] # NoRequest
          \/ worker[w].ds \in deferredSyncs'
          \/ Awaiting(s)
          \/ owed[worker[w].ds] # NoRequest /\ ~Awaiting(worker[w])
    BY <1>1, <1>2, <1>3, <1>4, <1>12 DEF RecordResult, Awaiting, MarkNeedsSync
  <2> HIDE DEF s
  <2> QED
    BY <1>1, <1>2, <1>3, <1>12, <2>1, <2>2, <2>3, RunStepKeepsMemory
    DEF RecordResult, SyncWorker, HoldsSlot, queueVars, dbVars, MarkNeedsSync
<1>13. CASE FinishSync(w)
  BY <1>3, <1>13, FinishKeepsMemory
<1>14. CASE StartFollowUp(w)
  <2>1. TriggerSync(worker[w].ds, worker[w].req, {w}) /\ worker[w].pc = "carrying"
    BY <1>14 DEF StartFollowUp
  <2>2. PICK d \in Datasets, r \in Requests : worker[w].ds = d /\ worker[w].req = r
    BY <1>2, <2>1
  <2> QED
    BY <1>3, <1>14, <2>1, <2>2, TriggerKeepsMemory DEF StartFollowUp, dbVars, callerVars
<1> QED
  BY <1>5, <1>6, <1>7, <1>8, <1>9, <1>10, <1>11, <1>12, <1>13, <1>14, <1>15
  DEF SyncWorker, WorkerStep

-----------------------------------------------------------------------------
(* Steps of the other threads *)

\* cancel_sync withdraws what is owed; it reaches a settled dataset only while a
\* run of it holds the slot.
LEMMA CancelKeepsMemory ==
  ASSUME EngineInv, MemoryInv, NEW d \in Datasets, CancelRequest(d),
         d \in Settled => d \in activeSyncs,
         deleting' \subseteq deleting \cup Volatile,
         UNCHANGED <<row, tick, service>>
  PROVE  MemoryInv'
<1>0. /\ worker \in [Workers -> WorkerStates]
      /\ owed \in [Datasets -> Requests \cup {NoRequest}]
      /\ pendingSyncs \in [Datasets -> Requests \cup {NoRequest}]
  BY DEF EngineInv, EngineTypeOK
<1>1. \A w \in Workers :
        /\ worker'[w].pc = worker[w].pc
        /\ worker'[w].ds = worker[w].ds
        /\ worker'[w].outcome = worker[w].outcome
        /\ worker[w].cancelled \/ (HoldsSlot(w) /\ worker[w].ds = d) => worker'[w].cancelled
  BY <1>0 DEF CancelRequest, WorkerStates
<1>2. RowsSettled' /\ TickListsAll'
  BY DEF MemoryInv, RowsSettled, TickListsAll
<1>3. OutcomeWhenReturned'
  BY <1>1 DEF MemoryInv, OutcomeWhenReturned
<1>4. FlagBelongsToRun'
  BY <1>1 DEF MemoryInv, FlagBelongsToRun, HoldsSlot, CancelRequest
<1>5. OwedIsHeld'
  <2> SUFFICES ASSUME NEW x \in Settled, owed'[x] # NoRequest PROVE Held(x)'
    BY DEF OwedIsHeld
  <2>1. x \in Datasets \ {d} /\ owed[x] # NoRequest
    BY <1>0 DEF CancelRequest, Settled
  <2>2. Held(x)
    BY <2>1 DEF MemoryInv, OwedIsHeld
  <2>3. x \in deferredSyncs => x \in deferredSyncs'
    BY <2>1 DEF CancelRequest
  <2>4. pendingSyncs'[x] = pendingSyncs[x]
    BY <1>0, <2>1 DEF CancelRequest, PendingWithout
  <2>5. HeldByEngine(x) => HeldByEngine(x)'
    BY <1>1, <2>3, <2>4 DEF HeldByEngine, Awaiting
  <2> QED
    BY <2>2, <2>5 DEF Held
<1> QED
  BY <1>2, <1>3, <1>4, <1>5 DEF MemoryInv

\* cancel_bisync ends a transfer, before which nothing was owed to the thread.
LEMMA TerminateKeepsMemory ==
  ASSUME EngineInv, MemoryInv, NEW d \in Datasets, TerminateBisync(d),
         UNCHANGED <<queueVars, owed, row, tick, deleting, service>>
  PROVE  MemoryInv'
<1> USE DEF queueVars
<1>0. worker \in [Workers -> WorkerStates]
  BY DEF EngineInv, EngineTypeOK
<1>a. PICK o \in ExitOutcomes :
        worker' = [w \in Workers |->
                    IF worker[w].pc = "transferring" /\ worker[w].ds = d
                    THEN [worker[w] EXCEPT !.pc = "returned", !.outcome = o]
                    ELSE worker[w]]
  BY DEF TerminateBisync
<1>1. \A w \in Workers :
        /\ worker'[w].ds = worker[w].ds
        /\ worker'[w].cancelled <=> worker[w].cancelled
        /\ \/ worker'[w] = worker[w]
           \/ worker[w].pc = "transferring" /\ worker'[w].pc = "returned"
  BY <1>0, <1>a DEF WorkerStates
<1>2. RowsSettled' /\ TickListsAll'
  BY DEF MemoryInv, RowsSettled, TickListsAll
<1>3. OutcomeWhenReturned'
  BY <1>1 DEF MemoryInv, OutcomeWhenReturned
<1>4. \A w \in Workers : HoldsSlot(w)' <=> HoldsSlot(w)
  BY <1>1 DEF HoldsSlot, SlotPCs, PCs
<1>5. FlagBelongsToRun'
  BY <1>1, <1>4 DEF MemoryInv, FlagBelongsToRun
<1>6. \A w \in Workers : Awaiting(worker[w]) => Awaiting(worker'[w])
  BY <1>1 DEF Awaiting
<1>7. \A x \in Settled : HeldByEngine(x) => HeldByEngine(x)'
  BY <1>1, <1>6 DEF HeldByEngine
<1>8. OwedIsHeld'
  BY <1>7 DEF MemoryInv, OwedIsHeld, Held
<1> QED
  BY <1>2, <1>3, <1>5, <1>8 DEF MemoryInv

\* After a crash the catch-up deferral of every automatic dataset is still to come.
LEMMA CrashKeepsMemory ==
  ASSUME MemoryInv, Crash
  PROVE  MemoryInv'
<1> USE DEF Crash
<1>1. IdleWorker.pc = "idle" /\ IdleWorker.outcome = "none"
  BY DEF IdleWorker
<1>2. RowsSettled' /\ TickListsAll'
  BY DEF MemoryInv, RowsSettled, TickListsAll, IdleTick, dbVars
<1>3. OutcomeWhenReturned' /\ FlagBelongsToRun'
  BY <1>1 DEF OutcomeWhenReturned, FlagBelongsToRun, ExitOutcomes, HoldsSlot, SlotPCs
<1>4. OwedIsHeld'
  BY DEF OwedIsHeld, Held, Settled
<1> QED
  BY <1>2, <1>3, <1>4 DEF MemoryInv

\* A tick that drains the deferred set triggers every settled dataset of it.
LEMMA TakeKeepsMemory ==
  ASSUME RestTypeOK, MemoryInv, TakeDeferred
  PROVE  MemoryInv'
<1>1. /\ tick.pc = "listed" /\ deferredSyncs' = {}
      /\ UNCHANGED <<activeSyncs, pendingSyncs, cancelRequested, worker, row, owed,
                     deleting, service>>
  BY DEF TakeDeferred, dbVars
<1>2. tick'.pc = "running" /\ tick.listed \cap deferredSyncs \subseteq tick'.due
  BY DEF TakeDeferred, RestTypeOK
<1>3. tick.due = {} /\ Settled \subseteq tick.listed
  BY <1>1 DEF MemoryInv, TickListsAll
<1>4. \A x \in Settled : Held(x) => Held(x)'
  BY <1>1, <1>2, <1>3 DEF Held, HeldByEngine
<1>5. RowsSettled' /\ TickListsAll'
  BY <1>1, <1>2 DEF MemoryInv, RowsSettled, TickListsAll
<1>6. OutcomeWhenReturned' /\ FlagBelongsToRun'
  BY <1>1 DEF MemoryInv, OutcomeWhenReturned, FlagBelongsToRun, HoldsSlot
<1>7. OwedIsHeld'
  BY <1>1, <1>4 DEF MemoryInv, OwedIsHeld
<1> QED
  BY <1>5, <1>6, <1>7 DEF MemoryInv

\* Steps that at most add deferrals, and leave threads and requests alone.
LEMMA QuietStepKeepsMemory ==
  ASSUME MemoryInv, deferredSyncs \subseteq deferredSyncs',
         UNCHANGED <<activeSyncs, pendingSyncs, cancelRequested, worker, owed>>,
         \A x \in Settled : row'[x] = row[x],
         deleting' \subseteq deleting,
         TickListsAll', tick.due \subseteq tick'.due,
         \/ service' = service
         \/ \A x \in Settled : x \notin Manual => x \in deferredSyncs'
  PROVE  MemoryInv'
<1>1. \A x \in Settled : Held(x) => Held(x)'
  BY DEF Held, HeldByEngine
<1>2. RowsSettled' /\ OutcomeWhenReturned' /\ FlagBelongsToRun'
  BY DEF MemoryInv, RowsSettled, OutcomeWhenReturned, FlagBelongsToRun, HoldsSlot
<1>3. OwedIsHeld'
  BY <1>1 DEF MemoryInv, OwedIsHeld
<1> QED
  BY <1>2, <1>3 DEF MemoryInv

-----------------------------------------------------------------------------
(* The memory invariant is inductive *)

\* A service that has just started owes nothing.
LEMMA InitMemory == Init => MemoryInv
<1> SUFFICES ASSUME Init PROVE MemoryInv
  OBVIOUS
<1>1. IdleWorker.pc = "idle" /\ IdleWorker.outcome = "none"
  BY DEF IdleWorker
<1>2. RowsSettled
  BY DEF Init, RowsSettled, Settled, RowStates
<1>3. TickListsAll
  BY DEF Init, TickListsAll, IdleTick
<1>4. OutcomeWhenReturned /\ FlagBelongsToRun
  BY <1>1 DEF Init, OutcomeWhenReturned, FlagBelongsToRun, ExitOutcomes, HoldsSlot, SlotPCs
<1>5. OwedIsHeld
  BY DEF Init, OwedIsHeld, Settled
<1> QED
  BY <1>2, <1>3, <1>4, <1>5 DEF MemoryInv

\* Each step of the service keeps the memory invariant.
LEMMA NextKeepsMemory ==
  ASSUME EngineInv, RestTypeOK, MemoryInv, [Next]_vars
  PROVE  MemoryInv'
<1> USE DEF engineVars, queueVars, dbVars, callerVars
<1>0. TickListsAll /\ RowsSettled
  BY DEF MemoryInv
<1>1. CASE UNCHANGED vars
  BY <1>0, <1>1, QuietStepKeepsMemory DEF vars, TickListsAll
<1>2. ASSUME NEW w \in Workers, SyncWorker(w) PROVE MemoryInv'
  BY <1>2, WorkerKeepsMemory
<1>3. CASE ListDatasets
  <2>1. TickListsAll' /\ tick.due = {}
    BY <1>0, <1>3 DEF ListDatasets, IdleTick, TickListsAll, RowsSettled, Settled
  <2> QED
    BY <1>3, <2>1, QuietStepKeepsMemory DEF ListDatasets
<1>4. CASE TakeDeferred
  BY <1>4, TakeKeepsMemory
<1>5. CASE TickEnds
  <2>1. TickListsAll' /\ tick.due = {}
    BY <1>5 DEF TickEnds, IdleTick, TickListsAll
  <2> QED
    BY <1>5, <2>1, QuietStepKeepsMemory DEF TickEnds
<1>6. ASSUME NEW d \in Datasets, RunDue(d) PROVE MemoryInv'
  <2>1. /\ tick'.pc = tick.pc /\ tick'.listed = tick.listed
        /\ tick'.due = tick.due \ {d}
    BY <1>6 DEF RunDue, RestTypeOK
  <2> QED
    BY <1>6, <2>1, RequestFacts, TriggerKeepsMemory DEF RunDue
<1>7. ASSUME NEW d \in Datasets, CancelBisync(d) PROVE MemoryInv'
  BY <1>7, TerminateKeepsMemory DEF CancelBisync
<1>8. ASSUME NEW d \in Datasets, DeleteRow(d) PROVE MemoryInv'
  <2>1. d \notin Settled
    BY <1>0, <1>8 DEF DeleteRow, RowsSettled, Settled
  <2>2. \A x \in Settled : row'[x] = row[x]
    BY <1>8, <2>1 DEF DeleteRow, RestTypeOK, Settled
  <2> QED
    BY <1>0, <1>8, <2>2, QuietStepKeepsMemory DEF DeleteRow, TickListsAll
<1>9. ASSUME NEW d \in Datasets, ExpireLock(d) PROVE MemoryInv'
  BY <1>0, <1>9, QuietStepKeepsMemory DEF ExpireLock, TickListsAll
<1>10. CASE RestoreSyncState
  <2>1. \A x \in Settled : x \notin Manual => x \in deferredSyncs'
    BY <1>0, <1>10 DEF RestoreSyncState, MarkNeedsSync, RowsSettled, Settled
  <2>2. deferredSyncs \subseteq deferredSyncs'
    BY <1>10 DEF RestoreSyncState, MarkNeedsSync
  <2> QED
    BY <1>0, <1>10, <2>1, <2>2, QuietStepKeepsMemory DEF RestoreSyncState, TickListsAll
<1>11. ASSUME NEW d \in Datasets, WatcherTriggers(d) PROVE MemoryInv'
  BY <1>11, RequestFacts, TriggerKeepsMemory DEF WatcherTriggers
<1>12. ASSUME NEW d \in Datasets, SyncNow(d) PROVE MemoryInv'
  <2>1. PICK f \in BOOLEAN : TriggerSync(d, [PlainRequest EXCEPT !.force = f], {})
    BY <1>12 DEF SyncNow
  <2>2. [PlainRequest EXCEPT !.force = f] \in Requests
    BY DEF PlainRequest, Requests
  <2> QED
    BY <1>12, <2>1, <2>2, TriggerKeepsMemory DEF SyncNow
<1>13. ASSUME NEW d \in Datasets, AddDataset(d) PROVE MemoryInv'
  <2>1. [mode |-> SetupMode[d], force |-> TRUE] \in Requests
    BY SetupAssumption DEF Requests
  <2>2. \A x \in Settled : row'[x] = row[x]
    BY <1>13 DEF AddDataset, RestTypeOK, Settled
  <2> QED
    BY <1>13, <2>1, <2>2, TriggerKeepsMemory DEF AddDataset
<1>14. ASSUME NEW d \in Datasets, Pause(d) PROVE MemoryInv'
  <2>1. \A x \in Settled : row'[x] = row[x]
    BY <1>14 DEF Pause, RestTypeOK, Settled
  <2> QED
    BY <1>0, <1>14, <2>1, QuietStepKeepsMemory DEF Pause, TickListsAll
<1>15. ASSUME NEW d \in Datasets, Resume(d) PROVE MemoryInv'
  <2>1. \A x \in Settled : row'[x] = row[x]
    BY <1>15 DEF Resume, RestTypeOK, Settled
  <2> QED
    BY <1>15, <2>1, RequestFacts, TriggerKeepsMemory DEF Resume
<1>16. ASSUME NEW d \in Datasets, CancelSync(d) PROVE MemoryInv'
  <2>1. d \in Settled => d \in activeSyncs
    BY <1>16 DEF CancelSync, MayCancel, Settled
  <2> QED
    BY <1>16, <2>1, CancelKeepsMemory DEF CancelSync
<1>17. ASSUME NEW d \in Datasets, BeginDelete(d) PROVE MemoryInv'
  <2>1. d \notin Settled /\ deleting' \subseteq deleting \cup Volatile
    BY <1>17 DEF BeginDelete, Settled
  <2> QED
    BY <1>17, <2>1, CancelKeepsMemory DEF BeginDelete
<1>18. CASE Crash
  BY <1>18, CrashKeepsMemory
<1>19. CASE Disconnect \/ Reconnect
  BY <1>0, <1>19, QuietStepKeepsMemory DEF Disconnect, Reconnect, TickListsAll
<1> QED
  BY <1>1, <1>2, <1>3, <1>4, <1>5, <1>6, <1>7, <1>8, <1>9, <1>10, <1>11, <1>12,
     <1>13, <1>14, <1>15, <1>16, <1>17, <1>18, <1>19 DEF Next, Environment

\* No request for a sync is ever forgotten, however many datasets, threads and
\* crashes there are.
THEOREM RequestsRemembered == Spec => []NoRequestForgotten
<1>1. Init => MemoryInv
  BY InitMemory
<1>2. (EngineInv /\ RestTypeOK) /\ MemoryInv /\ [Next]_vars => MemoryInv'
  BY NextKeepsMemory
<1>3. MemoryInv => NoRequestForgotten
  BY DEF MemoryInv, OwedIsHeld, NoRequestForgotten, Remembered, Settled
<1> QED
  BY <1>1, <1>2, <1>3, Invariance, PTL DEF Spec

(***************************************************************************)
(* SyncService implements SyncPromise: its initial states are initial states *)
(* of the abstract queue, and each of its steps is a step of the abstract  *)
(* queue or leaves it as it is.                                            *)
(***************************************************************************)
-----------------------------------------------------------------------------
(* The phase of a dataset is that of the thread that holds its slot. *)

PhaseOf(s) ==
  IF Awaiting(s) THEN "preparing"
  ELSE IF s.pc = "transferring" THEN "transferring" ELSE "over"

LEMMA HolderPhase ==
  ASSUME EngineInv, NEW d \in Datasets, NEW w \in Workers, HoldsSlot(w), worker[w].ds = d
  PROVE  d \in activeSyncs /\ Phase(d) = PhaseOf(worker[w])
<1>1. /\ d \in activeSyncs
      /\ \A v \in Workers : HoldsSlot(v) /\ worker[v].ds = d => v = w
  BY DEF EngineInv, SlotHasOneWorker
<1>2. \A v \in Workers : worker[v].pc = "transferring" => HoldsSlot(v)
  BY DEF HoldsSlot, SlotPCs, PCs
<1>3. Preparing(d) <=> Awaiting(worker[w])
  BY <1>1 DEF Preparing
<1>4. Transferring(d) <=> worker[w].pc = "transferring"
  BY <1>1, <1>2 DEF Transferring
<1> QED
  BY <1>1, <1>3, <1>4 DEF Phase, PhaseOf

\* The same after a step.
LEMMA HolderPhaseNext ==
  ASSUME EngineInv', NEW d \in Datasets, NEW w \in Workers, HoldsSlot(w)', worker'[w].ds = d
  PROVE  d \in activeSyncs' /\ Phase(d)' = PhaseOf(worker'[w])
<1>1. /\ d \in activeSyncs'
      /\ \A v \in Workers : HoldsSlot(v)' /\ worker'[v].ds = d => v = w
  BY DEF EngineInv, SlotHasOneWorker
<1>2. \A v \in Workers : worker'[v].pc = "transferring" => HoldsSlot(v)'
  BY DEF HoldsSlot, SlotPCs, PCs
<1>3. Preparing(d)' <=> Awaiting(worker'[w])
  BY <1>1 DEF Preparing
<1>4. Transferring(d)' <=> worker'[w].pc = "transferring"
  BY <1>1, <1>2 DEF Transferring
<1> QED
  BY <1>1, <1>3, <1>4 DEF Phase, PhaseOf

\* Only a dataset without a slot has no phase.
LEMMA NoPhase ==
  ASSUME NEW d \in Datasets
  PROVE  /\ Phase(d) = "none" <=> d \notin activeSyncs
         /\ Phase(d)' = "none" <=> d \notin activeSyncs'
BY DEF Phase

\* A dataset keeps its phase while the thread that holds its slot does.
LEMMA PhaseStays ==
  ASSUME EngineInv, EngineInv', NEW e \in Datasets,
         e \in activeSyncs <=> e \in activeSyncs',
         \A w \in Workers : HoldsSlot(w) /\ worker[w].ds = e =>
           HoldsSlot(w)' /\ worker'[w].ds = e /\ PhaseOf(worker'[w]) = PhaseOf(worker[w])
  PROVE  Phase(e)' = Phase(e)
<1>1. CASE e \notin activeSyncs
  BY <1>1, NoPhase
<1>2. CASE e \in activeSyncs
  <2>1. PICK w \in Workers : HoldsSlot(w) /\ worker[w].ds = e
    BY <1>2 DEF EngineInv, SlotHasOneWorker
  <2>2. HoldsSlot(w)' /\ worker'[w].ds = e /\ PhaseOf(worker'[w]) = PhaseOf(worker[w])
    BY <2>1
  <2>3. Phase(e) = PhaseOf(worker[w])
    BY <2>1, HolderPhase
  <2>4. Phase(e)' = PhaseOf(worker'[w])
    BY <2>2, HolderPhaseNext
  <2> QED
    BY <2>2, <2>3, <2>4
<1> QED
  BY <1>1, <1>2

\* When a thread that keeps its slot moves, its dataset alone changes phase.
LEMMA HolderMoves ==
  ASSUME EngineInv, EngineInv', NEW d \in Datasets, NEW w \in Workers, HoldsSlot(w),
         HoldsSlot(w)', worker[w].ds = d, worker'[w].ds = d, activeSyncs' = activeSyncs,
         \A v \in Workers \ {w} : worker'[v] = worker[v]
  PROVE  /\ Phase(d) = PhaseOf(worker[w])
         /\ Phase(d)' = PhaseOf(worker'[w])
         /\ \A e \in Datasets \ {d} : Phase(e)' = Phase(e)
<1>1. Phase(d) = PhaseOf(worker[w]) /\ Phase(d)' = PhaseOf(worker'[w])
  BY HolderPhase, HolderPhaseNext
<1>2. ASSUME NEW e \in Datasets \ {d} PROVE Phase(e)' = Phase(e)
  <2>1. \A v \in Workers : HoldsSlot(v) /\ worker[v].ds = e =>
          HoldsSlot(v)' /\ worker'[v].ds = e /\ PhaseOf(worker'[v]) = PhaseOf(worker[v])
    BY <1>2 DEF HoldsSlot
  <2> QED
    BY <2>1, PhaseStays
<1> QED
  BY <1>1, <1>2

-----------------------------------------------------------------------------
(* The abstract steps, from what happens to Waiting and Phase. *)

\* The abstract variables as they are read off the concrete ones.
SamePhases == \A e \in Datasets : Phase(e)' = Phase(e)
OnlyPhase(d, from, to) ==
  /\ Phase(d) = from
  /\ Phase(d)' = to
  /\ \A e \in Datasets \ {d} : Phase(e)' = Phase(e)

LEMMA WaitingType ==
  ASSUME EngineInv, RestTypeOK
  PROVE  Waiting \subseteq Datasets
<1>1. \A w \in Workers : worker[w].pc = "carrying" => worker[w].ds \in Datasets
  BY DEF EngineInv, BusyWorkers
<1>2. deferredSyncs \subseteq Datasets /\ tick.due \subseteq Datasets
  BY DEF EngineInv, EngineTypeOK, RestTypeOK
<1> QED
  BY <1>1, <1>2 DEF Waiting

LEMMA WaitingTypeNext ==
  ASSUME EngineInv', RestTypeOK'
  PROVE  Waiting' \subseteq Datasets
<1>1. \A w \in Workers : worker'[w].pc = "carrying" => worker'[w].ds \in Datasets
  BY DEF EngineInv, BusyWorkers
<1>2. deferredSyncs' \subseteq Datasets /\ tick'.due \subseteq Datasets
  BY DEF EngineInv, EngineTypeOK, RestTypeOK
<1> QED
  BY <1>1, <1>2 DEF Waiting

LEMMA EnterStep ==
  ASSUME NEW d \in Datasets, NEW from, NEW to, OnlyPhase(d, from, to)
  PROVE  Promise!Enter(d, from, to)
BY DEF OnlyPhase, Promise!Enter

LEMMA StutterStep ==
  ASSUME SamePhases, Waiting' = Waiting, cancelRequested' = cancelRequested
  PROVE  UNCHANGED Promise!vars
BY DEF SamePhases, Promise!vars

LEMMA AskStep ==
  ASSUME SamePhases, cancelRequested' = cancelRequested,
         Waiting' \subseteq Datasets, Waiting \ Waiting' \subseteq Losable
  PROVE  Promise!Next
BY DEF SamePhases, Promise!Ask, Promise!Next

-----------------------------------------------------------------------------
(* Requests *)

\* What is left of Waiting when x is not the dataset a call is about.
LEMMA WaitingElsewhere ==
  ASSUME NEW d \in Datasets, NEW x \in Datasets \ {d},
         x \in deferredSyncs <=> x \in deferredSyncs',
         x \in tick.due <=> x \in tick'.due,
         pendingSyncs'[x] = pendingSyncs[x],
         \A w \in Workers : worker[w].pc = "carrying" /\ worker[w].ds = x
           <=> worker'[w].pc = "carrying" /\ worker'[w].ds = x,
         service' = service, row'[x] = row[x]
  PROVE  x \in Waiting <=> x \in Waiting'
BY DEF Waiting

\* trigger_sync_async: the run starts, or the request waits; no other request
\* is touched.
LEMMA TriggerRefines ==
  ASSUME EngineInv, EngineInv', RestTypeOK, RestTypeOK',
         NEW d \in Datasets, NEW r \in Requests, NEW ended \in SUBSET Workers,
         \A w \in ended : worker[w].pc = "carrying" /\ worker[w].ds = d,
         TriggerSync(d, r, ended),
         \A x \in Datasets \ {d} : row'[x] = row[x],
         \A x \in Datasets \ {d} : x \in tick.due <=> x \in tick'.due,
         service' = service
  PROVE  Promise!Next
<1> USE RequestFacts
<1>0. /\ worker \in [Workers -> WorkerStates]
      /\ pendingSyncs \in [Datasets -> Requests \cup {NoRequest}]
      /\ Waiting \subseteq Datasets /\ Waiting' \subseteq Datasets
  BY WaitingType, WaitingTypeNext DEF EngineInv, EngineTypeOK
<1>1. NewWorker(d, r).pc = "loading" /\ NewWorker(d, r).ds = d /\ IdleWorker.pc = "idle"
  BY DEF NewWorker, IdleWorker
<1>2. cancelRequested' = cancelRequested
  BY DEF TriggerSync
<1>3. \A w \in Workers : worker'[w] \in {worker[w], IdleWorker, NewWorker(d, r)}
  BY <1>0 DEF TriggerSync
<1>4. \A w \in Workers \ ended : worker[w].pc # "idle" => worker'[w] = worker[w]
  BY DEF TriggerSync
<1>5. \A x \in Datasets \ {d}, w \in Workers :
        worker[w].pc = "carrying" /\ worker[w].ds = x
          <=> worker'[w].pc = "carrying" /\ worker'[w].ds = x
  BY <1>1, <1>3, <1>4
<1>6. \A x \in Datasets \ {d} : x \in Waiting <=> x \in Waiting'
  <2> SUFFICES ASSUME NEW x \in Datasets \ {d} PROVE x \in Waiting <=> x \in Waiting'
    OBVIOUS
  <2>1. pendingSyncs'[x] = pendingSyncs[x] /\ (x \in deferredSyncs <=> x \in deferredSyncs')
    BY <1>0 DEF TriggerSync
  <2> QED
    BY <1>5, <2>1, WaitingElsewhere
<1>7. \A e \in Datasets, w \in Workers : HoldsSlot(w) /\ worker[w].ds = e =>
        HoldsSlot(w)' /\ worker'[w].ds = e /\ PhaseOf(worker'[w]) = PhaseOf(worker[w])
  BY <1>4 DEF HoldsSlot, SlotPCs
<1>8. CASE d \in activeSyncs \/ AtCeiling
  <2>1. activeSyncs' = activeSyncs
    BY <1>8 DEF TriggerSync
  <2>2. SamePhases
    BY <1>7, <2>1, PhaseStays DEF SamePhases
  <2>3. d \in Waiting'
    <3>1. CASE d \in activeSyncs
      <4>1. pendingSyncs'[d] = Fold(pendingSyncs[d], r)
        BY <1>0, <3>1 DEF TriggerSync
      <4>2. pendingSyncs'[d] # NoRequest
        BY <1>0, <4>1
      <4> QED
        BY <4>2 DEF Waiting
    <3>2. CASE d \notin activeSyncs
      BY <1>8, <3>2 DEF TriggerSync, Waiting
    <3> QED
      BY <3>1, <3>2
  <2> QED
    BY <1>0, <1>2, <1>6, <2>2, <2>3, AskStep
<1>9. CASE d \notin activeSyncs /\ ~AtCeiling
  <2>1. activeSyncs' = activeSyncs \cup {d}
    BY <1>9 DEF TriggerSync
  <2>2. PICK t \in Workers : worker'[t] = NewWorker(d, r)
    BY <1>9 DEF TriggerSync
  <2>3. Phase(d)' = "preparing"
    <3>1. HoldsSlot(t)' /\ worker'[t].ds = d /\ Awaiting(worker'[t])
      BY <1>1, <2>2 DEF HoldsSlot, SlotPCs, PCs, Awaiting
    <3> QED
      BY <3>1, HolderPhaseNext DEF PhaseOf
  <2>4. \A e \in Datasets \ {d} : Phase(e)' = Phase(e)
    BY <1>7, <2>1, PhaseStays
  <2>5. OnlyPhase(d, "none", "preparing")
    BY <1>9, <2>3, <2>4, NoPhase DEF OnlyPhase
  <2>6. Waiting' \in {Waiting, Waiting \ {d}, Waiting \cup {d}}
    <3>1. CASE d \in Waiting'
      BY <1>0, <1>6, <3>1
    <3>2. CASE d \notin Waiting'
      BY <1>0, <1>6, <3>2
    <3> QED
      BY <3>1, <3>2
  <2>7. Promise!Running = activeSyncs
    BY NoPhase DEF Promise!Running, EngineInv, EngineTypeOK
  <2>8. Cardinality(Promise!Running) < MaxConcurrentSyncs
    <3>1. IsFiniteSet(activeSyncs)
      BY DatasetsAssumption, FS_Subset DEF EngineInv, EngineTypeOK
    <3>2. Cardinality(activeSyncs) \in Nat
      BY <3>1, FS_CardinalityType
    <3> QED
      BY <1>9, <2>7, <3>2, CeilingAssumption DEF AtCeiling
  <2>9. Promise!Enter(d, "none", "preparing")
    BY <2>5, EnterStep
  <2>10. Promise!Cardinality(Promise!Running) = Cardinality(Promise!Running)
    BY DEF Promise!Cardinality, Cardinality
  <2>11. Promise!Take(d)
    BY <1>2, <2>6, <2>8, <2>9, <2>10 DEF Promise!Take
  <2> QED
    BY <2>11 DEF Promise!Next
<1> QED
  BY <1>8, <1>9

-----------------------------------------------------------------------------
(* Worker threads *)

\* Steps that leave alone everything Waiting is read off.
LEMMA WaitingStays ==
  ASSUME UNCHANGED <<deferredSyncs, pendingSyncs, tick, service, row>>,
         \A w \in Workers, x \in Datasets :
           worker[w].pc = "carrying" /\ worker[w].ds = x
             <=> worker'[w].pc = "carrying" /\ worker'[w].ds = x,
         Waiting \subseteq Datasets, Waiting' \subseteq Datasets
  PROVE  Waiting' = Waiting
<1>1. \A x \in Datasets : x \in Waiting <=> x \in Waiting'
  BY DEF Waiting
<1> QED
  BY <1>1

\* Before rclone runs, while it runs and after it, a thread that keeps its slot
\* moves its dataset's phase the way the abstract queue does.
LEMMA RunStepRefines ==
  ASSUME EngineInv, EngineInv', RestTypeOK, RestTypeOK', NEW w \in Workers,
         UNCHANGED <<tick, service>>,
         \/ LoadDataset(w) \/ PassChecks(w) \/ FailRun(w) \/ StartBisync(w)
         \/ BisyncExits(w) \/ AbandonBisync(w) \/ RetryBisync(w)
  PROVE  [Promise!Next]_(Promise!vars)
<1> USE DEF queueVars, dbVars
<1>0. /\ worker \in [Workers -> WorkerStates]
      /\ Waiting \subseteq Datasets /\ Waiting' \subseteq Datasets
  BY WaitingType, WaitingTypeNext DEF EngineInv, EngineTypeOK
<1>1. HoldsSlot(w) /\ worker[w].pc # "idle"
  BY DEF HoldsSlot, SlotPCs, PCs, LoadDataset, PassChecks, FailRun, StartBisync,
         BisyncExits, AbandonBisync, RetryBisync
<1>2. PICK d \in Datasets : worker[w].ds = d
  BY <1>1 DEF EngineInv, BusyWorkers
<1>3. /\ worker'[w].ds = d
      /\ worker'[w].pc \in {"checking", "starting", "transferring", "returned", "finishing"}
      /\ \A v \in Workers \ {w} : worker'[v] = worker[v]
  <2> USE <1>0, <1>2 DEF WorkerStates
  <2>1. CASE LoadDataset(w)
    BY <2>1 DEF LoadDataset
  <2>2. CASE PassChecks(w)
    BY <2>2 DEF PassChecks
  <2>3. CASE FailRun(w)
    BY <2>3 DEF FailRun
  <2>4. CASE StartBisync(w)
    BY <2>4 DEF StartBisync
  <2>5. CASE BisyncExits(w)
    BY <2>5 DEF BisyncExits
  <2>6. CASE AbandonBisync(w)
    BY <2>6 DEF AbandonBisync
  <2>7. CASE RetryBisync(w)
    BY <2>7 DEF RetryBisync
  <2> QED
    BY <2>1, <2>2, <2>3, <2>4, <2>5, <2>6, <2>7
<1>4. HoldsSlot(w)'
  BY <1>3 DEF HoldsSlot, SlotPCs, PCs
<1>5. UNCHANGED <<activeSyncs, pendingSyncs, deferredSyncs, cancelRequested, row>>
  BY DEF LoadDataset, PassChecks, FailRun, StartBisync, BisyncExits, AbandonBisync,
         RetryBisync
<1>6. Waiting' = Waiting
  <2>1. worker[w].pc # "carrying" /\ worker'[w].pc # "carrying"
    BY <1>1, <1>3 DEF HoldsSlot, SlotPCs
  <2>2. \A v \in Workers, x \in Datasets :
          worker[v].pc = "carrying" /\ worker[v].ds = x
            <=> worker'[v].pc = "carrying" /\ worker'[v].ds = x
    BY <1>3, <2>1
  <2> QED
    BY <1>0, <1>5, <2>2, WaitingStays
<1>7. /\ Phase(d) = PhaseOf(worker[w])
      /\ Phase(d)' = PhaseOf(worker'[w])
      /\ \A e \in Datasets \ {d} : Phase(e)' = Phase(e)
  BY <1>1, <1>2, <1>3, <1>4, <1>5, HolderMoves
<1>8. CASE PhaseOf(worker'[w]) = PhaseOf(worker[w])
  <2>1. SamePhases
    BY <1>7, <1>8 DEF SamePhases
  <2> QED
    BY <1>5, <1>6, <2>1, StutterStep
<1>9. ASSUME PhaseOf(worker[w]) = "preparing", PhaseOf(worker'[w]) = "over"
      PROVE  Promise!Next
  <2>1. Promise!Enter(d, "preparing", "over")
    BY <1>2, <1>7, <1>9, EnterStep DEF OnlyPhase
  <2> QED
    BY <1>2, <1>5, <1>6, <2>1 DEF Promise!Next, Promise!GiveUp
<1>10. ASSUME PhaseOf(worker[w]) = "preparing", PhaseOf(worker'[w]) = "transferring"
       PROVE  Promise!Next
  <2>1. Promise!Enter(d, "preparing", "transferring")
    BY <1>2, <1>7, <1>10, EnterStep DEF OnlyPhase
  <2> QED
    BY <1>2, <1>5, <1>6, <2>1 DEF Promise!Next, Promise!Serve
<1>11. ASSUME PhaseOf(worker[w]) = "transferring", PhaseOf(worker'[w]) = "over"
       PROVE  Promise!Next
  <2>1. Promise!Enter(d, "transferring", "over")
    BY <1>2, <1>7, <1>11, EnterStep DEF OnlyPhase
  <2> QED
    BY <1>2, <1>5, <1>6, <2>1 DEF Promise!Next, Promise!Return
<1>12. ASSUME d \notin cancelRequested,
              PhaseOf(worker[w]) = "over", PhaseOf(worker'[w]) = "preparing"
       PROVE  Promise!Next
  <2>1. Promise!Enter(d, "over", "preparing")
    BY <1>2, <1>7, <1>12, EnterStep DEF OnlyPhase
  <2> QED
    BY <1>2, <1>5, <1>6, <1>12, <2>1 DEF Promise!Next, Promise!Retry
<1>13. CASE LoadDataset(w) \/ PassChecks(w) \/ FailRun(w)
  <2>1. PhaseOf(worker[w]) \in {"preparing", "over"}
    BY <1>13 DEF LoadDataset, PassChecks, FailRun, PhaseOf, Awaiting
  <2>2. PhaseOf(worker'[w]) = "over" \/ PhaseOf(worker'[w]) = PhaseOf(worker[w])
    <3>1. CASE LoadDataset(w)
      BY <1>0, <3>1 DEF LoadDataset, PhaseOf, Awaiting, WorkerStates
    <3>2. CASE PassChecks(w)
      BY <1>0, <3>2 DEF PassChecks, PhaseOf, Awaiting, WorkerStates
    <3>3. CASE FailRun(w)
      BY <1>0, <3>3 DEF FailRun, PhaseOf, Awaiting, WorkerStates
    <3> QED
      BY <1>13, <3>1, <3>2, <3>3
  <2> QED
    BY <1>8, <1>9, <2>1, <2>2
<1>14. CASE StartBisync(w)
  <2>1. PhaseOf(worker[w]) = "preparing"
    BY <1>14 DEF StartBisync, PhaseOf, Awaiting
  <2>2. PhaseOf(worker'[w]) \in {"preparing", "transferring"}
    BY <1>0, <1>14 DEF StartBisync, PhaseOf, Awaiting, WorkerStates
  <2> QED
    BY <1>8, <1>10, <2>1, <2>2
<1>15. CASE BisyncExits(w) \/ AbandonBisync(w)
  <2>1. PhaseOf(worker[w]) = "transferring"
    BY <1>15 DEF BisyncExits, AbandonBisync, PhaseOf, Awaiting
  <2>2. PhaseOf(worker'[w]) = "over"
    BY <1>0, <1>15 DEF BisyncExits, AbandonBisync, PhaseOf, Awaiting, ExitOutcomes, WorkerStates
  <2> QED
    BY <1>11, <2>1, <2>2
<1>16. CASE RetryBisync(w)
  <2>1. d \notin cancelRequested /\ PhaseOf(worker[w]) = "over"
    BY <1>2, <1>16 DEF RetryBisync, NextAttempt, PhaseOf, Awaiting
  <2>2. PhaseOf(worker'[w]) = "preparing"
    BY <1>0, <1>16 DEF RetryBisync, PhaseOf, Awaiting, WorkerStates
  <2> QED
    BY <1>12, <2>1, <2>2
<1> QED
  BY <1>13, <1>14, <1>15, <1>16

\* A run that could not start, offline or on another run's lock, waits again;
\* any other result leaves what waits as it was.
LEMMA PutBackRefines ==
  ASSUME EngineInv, EngineInv', RestTypeOK, RestTypeOK', NEW w \in Workers,
         UNCHANGED <<tick, service>>,
         DeferOffline(w) \/ RecordResult(w)
  PROVE  [Promise!Next]_(Promise!vars)
<1> USE DEF queueVars, dbVars
<1>0. /\ worker \in [Workers -> WorkerStates]
      /\ Waiting \subseteq Datasets /\ Waiting' \subseteq Datasets
  BY WaitingType, WaitingTypeNext DEF EngineInv, EngineTypeOK
<1>1. HoldsSlot(w) /\ worker[w].pc # "idle"
  BY DEF HoldsSlot, SlotPCs, PCs, DeferOffline, RecordResult
<1>2. PICK d \in Datasets : worker[w].ds = d
  BY <1>1 DEF EngineInv, BusyWorkers
<1>3. /\ worker'[w].ds = d /\ worker'[w].pc = "finishing"
      /\ \A v \in Workers \ {w} : worker'[v] = worker[v]
  <2> USE <1>0, <1>2 DEF WorkerStates
  <2>1. CASE DeferOffline(w)
    BY <2>1 DEF DeferOffline
  <2>2. CASE RecordResult(w)
    BY <2>2 DEF RecordResult
  <2> QED
    BY <2>1, <2>2
<1>4. HoldsSlot(w)'
  BY <1>3 DEF HoldsSlot, SlotPCs, PCs
<1>5. UNCHANGED <<activeSyncs, pendingSyncs, cancelRequested, row>>
  BY DEF DeferOffline, RecordResult
<1>6. /\ Phase(d) = PhaseOf(worker[w])
      /\ Phase(d)' = PhaseOf(worker'[w])
      /\ \A e \in Datasets \ {d} : Phase(e)' = Phase(e)
  BY <1>1, <1>2, <1>3, <1>4, <1>5, HolderMoves
<1>7. PhaseOf(worker'[w]) = "over"
  BY <1>3 DEF PhaseOf, Awaiting
<1>8. \A v \in Workers, x \in Datasets :
        worker[v].pc = "carrying" /\ worker[v].ds = x
          <=> worker'[v].pc = "carrying" /\ worker'[v].ds = x
  <2>1. worker[w].pc # "carrying"
    BY <1>1 DEF HoldsSlot, SlotPCs
  <2> QED
    BY <1>3, <2>1
<1>9. CASE /\ PhaseOf(worker[w]) = "preparing"
           /\ deferredSyncs' = deferredSyncs \cup {d}
  <2>1. Waiting' = Waiting \cup {d}
    <3>1. \A x \in Datasets : x \in Waiting' <=> x \in Waiting \cup {d}
      BY <1>5, <1>8, <1>9 DEF Waiting
    <3> QED
      BY <1>0, <3>1
  <2>2. Promise!Enter(d, "preparing", "over")
    BY <1>6, <1>7, <1>9, EnterStep DEF OnlyPhase
  <2> QED
    BY <1>5, <2>1, <2>2 DEF Promise!Next, Promise!PutBack
<1>10. CASE PhaseOf(worker[w]) = "over" /\ deferredSyncs' = deferredSyncs
  <2>1. Waiting' = Waiting
    BY <1>0, <1>5, <1>8, <1>10, WaitingStays
  <2>2. SamePhases
    BY <1>6, <1>7, <1>10 DEF SamePhases
  <2> QED
    BY <1>5, <2>1, <2>2, StutterStep
<1>11. CASE DeferOffline(w)
  <2>1. PhaseOf(worker[w]) = "preparing"
    BY <1>11 DEF DeferOffline, PhaseOf, Awaiting
  <2> QED
    BY <1>2, <1>9, <1>11, <2>1 DEF DeferOffline, MarkNeedsSync
<1>12. CASE RecordResult(w)
  <2>1. PhaseOf(worker[w]) = IF worker[w].outcome = "lock_conflict" THEN "preparing" ELSE "over"
    BY <1>12 DEF RecordResult, PhaseOf, Awaiting
  <2>2. deferredSyncs' = IF worker[w].outcome = "lock_conflict"
                         THEN deferredSyncs \cup {d} ELSE deferredSyncs
    BY <1>2, <1>12 DEF RecordResult, MarkNeedsSync
  <2> QED
    BY <1>9, <1>10, <2>1, <2>2
<1> QED
  BY <1>11, <1>12

\* _finish_sync frees the slot; unless the run was cancelled, a follow-up goes
\* on waiting, now with the thread that carries it.
LEMMA FinishRefines ==
  ASSUME EngineInv, EngineInv', RestTypeOK, RestTypeOK', NEW w \in Workers,
         UNCHANGED <<tick, service>>, FinishSync(w)
  PROVE  Promise!Next
<1> USE DEF queueVars, dbVars
<1>0. /\ worker \in [Workers -> WorkerStates]
      /\ pendingSyncs \in [Datasets -> Requests \cup {NoRequest}]
      /\ Waiting \subseteq Datasets /\ Waiting' \subseteq Datasets
  BY WaitingType, WaitingTypeNext DEF EngineInv, EngineTypeOK
<1>1. HoldsSlot(w) /\ worker[w].pc = "finishing"
  BY DEF HoldsSlot, SlotPCs, PCs, FinishSync
<1>2. PICK d \in Datasets : worker[w].ds = d
  BY <1>1 DEF EngineInv, BusyWorkers
<1>3. /\ activeSyncs' = activeSyncs \ {d}
      /\ cancelRequested' = cancelRequested \ {d}
      /\ pendingSyncs' = [pendingSyncs EXCEPT ![d] = NoRequest]
      /\ UNCHANGED <<deferredSyncs, row>>
  BY <1>2 DEF FinishSync, PendingWithout
<1>4. \A v \in Workers \ {w} : worker'[v] = worker[v]
  BY <1>0 DEF FinishSync
<1>5. Phase(d) = "over" /\ Phase(d)' = "none"
  <2>1. PhaseOf(worker[w]) = "over"
    BY <1>1 DEF PhaseOf, Awaiting
  <2> QED
    BY <1>1, <1>2, <1>3, <2>1, HolderPhase, NoPhase
<1>6. ASSUME NEW e \in Datasets \ {d} PROVE Phase(e)' = Phase(e)
  <2>1. \A v \in Workers : HoldsSlot(v) /\ worker[v].ds = e =>
          HoldsSlot(v)' /\ worker'[v].ds = e /\ PhaseOf(worker'[v]) = PhaseOf(worker[v])
    BY <1>2, <1>4, <1>6 DEF HoldsSlot
  <2> QED
    BY <1>3, <2>1, PhaseStays
<1>7. Promise!Enter(d, "over", "none")
  BY <1>5, <1>6, EnterStep DEF OnlyPhase
<1>8. worker'[w].pc \in {"idle", "carrying"} /\ (worker'[w].pc = "carrying" => worker'[w].ds = d)
  BY <1>0, <1>2 DEF FinishSync, IdleWorker
<1>9. \A x \in Datasets \ {d} : x \in Waiting <=> x \in Waiting'
  <2> SUFFICES ASSUME NEW x \in Datasets \ {d} PROVE x \in Waiting <=> x \in Waiting'
    OBVIOUS
  <2>1. \A v \in Workers : worker[v].pc = "carrying" /\ worker[v].ds = x
          <=> worker'[v].pc = "carrying" /\ worker'[v].ds = x
    BY <1>1, <1>4, <1>8
  <2> QED
    BY <1>0, <1>3, <2>1, WaitingElsewhere
<1>10. d \notin cancelRequested => (d \in Waiting <=> d \in Waiting')
  <2> SUFFICES ASSUME d \notin cancelRequested PROVE d \in Waiting <=> d \in Waiting'
    OBVIOUS
  <2>1. worker'[w].pc = "carrying" <=> pendingSyncs[d] # NoRequest
    BY <1>0, <1>2 DEF FinishSync, IdleWorker
  <2>2. \A v \in Workers \ {w} : worker[v].pc = "carrying" /\ worker[v].ds = d
          <=> worker'[v].pc = "carrying" /\ worker'[v].ds = d
    BY <1>4
  <2>3. pendingSyncs'[d] = NoRequest
    BY <1>0, <1>3
  <2> QED
    BY <1>1, <1>3, <1>8, <2>1, <2>2, <2>3 DEF Waiting
<1>11. Waiting' = Waiting \/ (d \in cancelRequested /\ Waiting' = Waiting \ {d})
  <2>1. CASE d \in Waiting <=> d \in Waiting'
    <3>1. \A x \in Datasets : x \in Waiting <=> x \in Waiting'
      BY <1>9, <2>1
    <3>2. Waiting' = Waiting
      BY <1>0, <3>1
    <3> QED
      BY <3>2
  <2>2. CASE d \in cancelRequested /\ d \notin Waiting'
    BY <1>0, <1>9, <2>2
  <2>3. CASE d \in cancelRequested /\ d \in Waiting' /\ d \notin Waiting
    <3>1. worker'[w].pc = "idle"
      BY <1>0, <1>2, <2>3 DEF FinishSync, IdleWorker
    <3>2. pendingSyncs'[d] = NoRequest
      BY <1>0, <1>3
    <3> QED
      BY <1>3, <1>4, <2>3, <3>1, <3>2 DEF Waiting
  <2> QED
    BY <1>10, <2>1, <2>2, <2>3
<1> QED
  BY <1>3, <1>7, <1>11 DEF Promise!Next, Promise!End

\* Each step of a worker thread.
LEMMA WorkerRefines ==
  ASSUME EngineInv, EngineInv', RestTypeOK, RestTypeOK', NEW w \in Workers, SyncWorker(w)
  PROVE  [Promise!Next]_(Promise!vars)
<1>1. UNCHANGED <<tick, service>>
  BY DEF SyncWorker, callerVars
<1>2. CASE StartFollowUp(w)
  <2>1. worker[w].pc = "carrying" /\ TriggerSync(worker[w].ds, worker[w].req, {w})
    BY <1>2 DEF StartFollowUp
  <2>2. worker[w].ds \in Datasets /\ worker[w].req \in Requests
    BY <2>1 DEF EngineInv, BusyWorkers
  <2>3. row' = row
    BY <1>2 DEF StartFollowUp, dbVars
  <2> QED
    BY <1>1, <2>1, <2>2, <2>3, TriggerRefines
<1>3. CASE FinishSync(w)
  BY <1>1, <1>3, FinishRefines
<1>4. CASE DeferOffline(w) \/ RecordResult(w)
  BY <1>1, <1>4, PutBackRefines
<1>5. CASE \/ LoadDataset(w) \/ PassChecks(w) \/ FailRun(w) \/ StartBisync(w)
           \/ BisyncExits(w) \/ AbandonBisync(w) \/ RetryBisync(w)
  BY <1>1, <1>5, RunStepRefines
<1> QED
  BY <1>2, <1>3, <1>4, <1>5 DEF SyncWorker, WorkerStep

-----------------------------------------------------------------------------
(* The scheduler, the handlers and the environment *)

\* Steps of the other threads that leave the slots and the queue alone.
LEMMA SettingRefines ==
  ASSUME EngineInv, EngineInv', RestTypeOK, RestTypeOK',
         UNCHANGED <<activeSyncs, pendingSyncs, cancelRequested, worker>>,
         Waiting \ Waiting' \subseteq Losable
  PROVE  Promise!Next
<1>1. SamePhases
  BY DEF SamePhases, Phase, Preparing, Transferring, HoldsSlot
<1>2. Waiting' \subseteq Datasets
  BY WaitingTypeNext
<1> QED
  BY <1>1, <1>2, AskStep

\* A tick that drains the deferred set only loses what it had not listed.
LEMMA TickRefines ==
  ASSUME EngineInv, EngineInv', RestTypeOK, RestTypeOK', MemoryInv,
         ListDatasets \/ TakeDeferred \/ TickEnds
  PROVE  Promise!Next
<1> USE DEF engineVars, queueVars, dbVars
<1>0. TickListsAll /\ Waiting \subseteq Datasets
  BY WaitingType DEF MemoryInv
<1>1. CASE ListDatasets \/ TickEnds
  <2>1. tick.due = {}
    BY <1>0, <1>1 DEF ListDatasets, TickEnds, TickListsAll
  <2>2. UNCHANGED <<deferredSyncs, pendingSyncs, service, worker, row>>
    BY <1>1 DEF ListDatasets, TickEnds
  <2>3. Waiting \subseteq Waiting'
    BY <2>1, <2>2 DEF Waiting
  <2> QED
    BY <1>1, <2>3, SettingRefines DEF ListDatasets, TickEnds
<1>2. CASE TakeDeferred
  <2>1. tick.pc = "listed" /\ tick.due = {} /\ Settled \subseteq tick.listed
    BY <1>0, <1>2 DEF TakeDeferred, TickListsAll
  <2>2. tick.listed \cap deferredSyncs \subseteq tick'.due
    BY <1>2 DEF TakeDeferred, RestTypeOK
  <2>3. UNCHANGED <<pendingSyncs, service, worker, row>>
    BY <1>2 DEF TakeDeferred
  <2>4. ASSUME NEW x \in Datasets, x \in Waiting, x \notin Losable PROVE x \in Waiting'
    <3>1. x \in tick.listed
      BY <2>1, <2>4 DEF Settled, Losable
    <3> QED
      BY <2>1, <2>2, <2>3, <2>4, <3>1 DEF Waiting
  <2>5. Waiting \ Waiting' \subseteq Losable
    BY <1>0, <2>4
  <2> QED
    BY <1>2, <2>5, SettingRefines DEF TakeDeferred
<1> QED
  BY <1>1, <1>2

\* Pausing, resuming, adding and deleting change rows of losable datasets only.
LEMMA RowRefines ==
  ASSUME EngineInv, EngineInv', RestTypeOK, RestTypeOK', MemoryInv,
         NEW d \in Datasets, Pause(d) \/ DeleteRow(d)
  PROVE  Promise!Next
<1>1. d \in Losable
  BY DEF Pause, DeleteRow, MemoryInv, RowsSettled, Losable
<1>2. UNCHANGED <<deferredSyncs, pendingSyncs, service, worker, tick>>
  BY DEF Pause, DeleteRow, queueVars, callerVars
<1>3. \A x \in Datasets \ {d} : row'[x] = row[x]
  BY DEF Pause, DeleteRow, RestTypeOK
<1>4. \A x \in Datasets \ {d} : x \in Waiting => x \in Waiting'
  BY <1>2, <1>3 DEF Waiting
<1>5. Waiting \ Waiting' \subseteq Losable
  BY <1>1, <1>4, WaitingType
<1> QED
  BY <1>5, SettingRefines DEF Pause, DeleteRow, queueVars

\* restore_sync_state turns what a starting service owes into deferrals.
LEMMA RestoreRefines ==
  ASSUME EngineInv, EngineInv', RestTypeOK, RestTypeOK', RestoreSyncState
  PROVE  Promise!Next
<1> USE DEF RestoreSyncState, dbVars, callerVars
<1>1. deferredSyncs' = deferredSyncs \cup {x \in Datasets : row[x] = "enabled" /\ x \notin Manual}
  BY DEF MarkNeedsSync
<1>2. Waiting \subseteq Waiting'
  BY <1>1 DEF Waiting
<1> QED
  BY <1>2, SettingRefines

\* Locks and the network are no part of the promise.
LEMMA OutsideRefines ==
  ASSUME \/ \E d \in Datasets : ExpireLock(d)
         \/ Disconnect \/ Reconnect \/ UNCHANGED vars
  PROVE  UNCHANGED Promise!vars
<1>1. UNCHANGED <<activeSyncs, deferredSyncs, pendingSyncs, cancelRequested, service, worker,
                  row, tick>>
  BY DEF ExpireLock, Disconnect, Reconnect, vars, engineVars, queueVars, dbVars, callerVars
<1>2. Waiting' = Waiting
  BY <1>1 DEF Waiting
<1>3. SamePhases
  BY <1>1 DEF SamePhases, Phase, Preparing, Transferring, HoldsSlot
<1> QED
  BY <1>1, <1>2, <1>3, StutterStep

\* A cancel takes along at most what waits for its own dataset, and needs a run
\* to cancel unless the dataset is cancelled or deleted while idle.
LEMMA CancelRefines ==
  ASSUME EngineInv, EngineInv', RestTypeOK, RestTypeOK', NEW d \in Datasets,
         CancelRequest(d), UNCHANGED <<row, tick, service>>,
         d \in activeSyncs \/ d \in Losable
  PROVE  Promise!Next
<1> USE DEF CancelRequest
<1>0. /\ worker \in [Workers -> WorkerStates]
      /\ pendingSyncs \in [Datasets -> Requests \cup {NoRequest}]
      /\ Waiting \subseteq Datasets /\ Waiting' \subseteq Datasets
  BY WaitingType, WaitingTypeNext DEF EngineInv, EngineTypeOK
<1>1. \A w \in Workers : /\ worker'[w].pc = worker[w].pc
                         /\ worker'[w].ds = worker[w].ds
                         /\ worker'[w].outcome = worker[w].outcome
  BY <1>0 DEF WorkerStates
<1>2. SamePhases
  <2> SUFFICES ASSUME NEW e \in Datasets PROVE Phase(e)' = Phase(e)
    BY DEF SamePhases
  <2>1. \A w \in Workers : PhaseOf(worker'[w]) = PhaseOf(worker[w])
    BY <1>1 DEF PhaseOf, Awaiting
  <2> QED
    BY <1>1, <2>1, PhaseStays DEF HoldsSlot
<1>3. \A x \in Datasets \ {d} : x \in Waiting <=> x \in Waiting'
  BY <1>0, <1>1, WaitingElsewhere DEF PendingWithout
<1>4. d \in Waiting' => d \in Waiting
  <2>1. pendingSyncs'[d] = NoRequest
    BY <1>0 DEF PendingWithout
  <2> QED
    BY <1>1, <2>1 DEF Waiting
<1>5. Waiting' = Waiting \/ Waiting' = Waiting \ {d}
  <2>1. CASE d \in Waiting <=> d \in Waiting'
    <3>1. \A x \in Datasets : x \in Waiting <=> x \in Waiting'
      BY <1>3, <2>1
    <3>2. Waiting' = Waiting
      BY <1>0, <3>1
    <3> QED
      BY <3>2
  <2>2. CASE d \notin Waiting'
    BY <1>0, <1>3, <2>2
  <2> QED
    BY <1>4, <2>1, <2>2
<1>6. Phase(d) # "none" \/ d \in Losable
  BY NoPhase
<1>7. UNCHANGED [e \in Datasets |-> Phase(e)]
  BY <1>2 DEF SamePhases
<1> QED
  BY <1>5, <1>6, <1>7 DEF Promise!Next, Promise!Cancel

\* Terminating rclone ends the transfer, if there is one.
LEMMA TerminateRefines ==
  ASSUME EngineInv, EngineInv', RestTypeOK, RestTypeOK', NEW d \in Datasets, CancelBisync(d)
  PROVE  [Promise!Next]_(Promise!vars)
<1> USE DEF CancelBisync, queueVars, dbVars
<1>0. /\ worker \in [Workers -> WorkerStates]
      /\ Waiting \subseteq Datasets /\ Waiting' \subseteq Datasets
  BY WaitingType, WaitingTypeNext DEF EngineInv, EngineTypeOK
<1>1. PICK o \in ExitOutcomes :
        worker' = [w \in Workers |->
                     IF worker[w].pc = "transferring" /\ worker[w].ds = d
                     THEN [worker[w] EXCEPT !.pc = "returned", !.outcome = o]
                     ELSE worker[w]]
  BY DEF TerminateBisync
<1>2. \A w \in Workers : \/ worker'[w] = worker[w]
                         \/ /\ worker[w].pc = "transferring" /\ worker[w].ds = d
                            /\ worker'[w].pc = "returned" /\ worker'[w].ds = d
                            /\ worker'[w].outcome = o
  BY <1>0, <1>1 DEF WorkerStates
<1>3. Waiting' = Waiting
  <2>1. \A v \in Workers, x \in Datasets :
          worker[v].pc = "carrying" /\ worker[v].ds = x
            <=> worker'[v].pc = "carrying" /\ worker'[v].ds = x
    BY <1>2
  <2> QED
    BY <1>0, <2>1, WaitingStays
<1>4. \A e \in Datasets \ {d} : Phase(e)' = Phase(e)
  BY <1>2, PhaseStays DEF HoldsSlot
<1>5. CASE Transferring(d)
  <2>1. PICK w \in Workers : worker[w].pc = "transferring" /\ worker[w].ds = d
    BY <1>5 DEF Transferring
  <2>2. worker'[w].pc = "returned" /\ worker'[w].ds = d /\ worker'[w].outcome = o
    BY <1>0, <1>1, <2>1 DEF WorkerStates
  <2>3. HoldsSlot(w) /\ HoldsSlot(w)'
    BY <2>1, <2>2 DEF HoldsSlot, SlotPCs, PCs
  <2>4. PhaseOf(worker[w]) = "transferring" /\ PhaseOf(worker'[w]) = "over"
    BY <2>1, <2>2 DEF PhaseOf, Awaiting, ExitOutcomes
  <2>5. OnlyPhase(d, "transferring", "over")
    BY <1>4, <2>1, <2>2, <2>3, <2>4, HolderPhase, HolderPhaseNext DEF OnlyPhase
  <2>6. Promise!Enter(d, "transferring", "over")
    BY <2>5, EnterStep
  <2> QED
    BY <1>3, <2>6 DEF Promise!Next, Promise!Return
<1>6. CASE ~Transferring(d)
  <2>1. \A w \in Workers : worker'[w] = worker[w]
    BY <1>2, <1>6 DEF Transferring
  <2>2. SamePhases
    BY <2>1, PhaseStays DEF SamePhases, HoldsSlot
  <2> QED
    BY <1>3, <2>2, StutterStep
<1> QED
  BY <1>5, <1>6

\* After a crash the catch-up of the starting service is all that waits.
LEMMA CrashRefines ==
  ASSUME MemoryInv, Crash
  PROVE  Promise!Next
<1> USE DEF Crash, dbVars
<1>1. Waiting' = {x \in Datasets : row[x] = "enabled" /\ x \notin Manual}
  BY DEF Waiting, IdleTick, IdleWorker
<1>2. \A x \in Datasets : x \notin Losable => row[x] = "enabled"
  BY DEF MemoryInv, RowsSettled, Settled, Losable
<1>3. Promise!Fresh(Waiting')
  BY <1>1, <1>2 DEF Promise!Fresh
<1>4. [e \in Datasets |-> Phase(e)]' = [e \in Datasets |-> "none"]
  BY DEF Phase
<1> QED
  BY <1>3, <1>4 DEF Promise!Next, Promise!Restart

-----------------------------------------------------------------------------
(* The refinement *)

LEMMA InitRefines == Init => Promise!Init
<1> SUFFICES ASSUME Init PROVE Promise!Init
  OBVIOUS
<1> USE DEF Init
<1>1. Waiting = {x \in Datasets : row[x] = "enabled" /\ x \notin Manual}
  BY DEF Waiting, IdleTick, IdleWorker
<1>2. \A x \in Datasets : x \notin Losable => row[x] = "enabled"
  BY InitMemory DEF MemoryInv, RowsSettled, Settled, Losable
<1>3. Promise!Fresh(Waiting)
  BY <1>1, <1>2 DEF Promise!Fresh
<1>4. [e \in Datasets |-> Phase(e)] = [e \in Datasets |-> "none"]
  BY DEF Phase
<1> QED
  BY <1>3, <1>4 DEF Promise!Init

\* Each step of the service is a step of the abstract queue, or none.
LEMMA NextRefines ==
  ASSUME EngineInv, RestTypeOK, MemoryInv, EngineInv', RestTypeOK', [Next]_vars
  PROVE  [Promise!Next]_(Promise!vars)
<1>1. ASSUME NEW w \in Workers, SyncWorker(w) PROVE [Promise!Next]_(Promise!vars)
  BY <1>1, WorkerRefines
<1>2. CASE ListDatasets \/ TakeDeferred \/ TickEnds
  BY <1>2, TickRefines
<1>3. ASSUME NEW d \in Datasets, RunDue(d) PROVE Promise!Next
  <2>1. tick'.due = tick.due \ {d}
    BY <1>3 DEF RunDue, RestTypeOK
  <2> QED
    BY <1>3, <2>1, RequestFacts, TriggerRefines DEF RunDue, dbVars
<1>4. ASSUME NEW d \in Datasets, CancelBisync(d) PROVE [Promise!Next]_(Promise!vars)
  BY <1>4, TerminateRefines
<1>5. ASSUME NEW d \in Datasets, DeleteRow(d) \/ Pause(d) PROVE Promise!Next
  BY <1>5, RowRefines
<1>6. CASE RestoreSyncState
  BY <1>6, RestoreRefines
<1>7. ASSUME NEW d \in Datasets, WatcherTriggers(d) PROVE Promise!Next
  BY <1>7, RequestFacts, TriggerRefines DEF WatcherTriggers, dbVars, callerVars
<1>8. ASSUME NEW d \in Datasets, SyncNow(d) PROVE Promise!Next
  <2>1. PICK f \in BOOLEAN : TriggerSync(d, [PlainRequest EXCEPT !.force = f], {})
    BY <1>8 DEF SyncNow
  <2>2. [PlainRequest EXCEPT !.force = f] \in Requests
    BY DEF PlainRequest, Requests
  <2> QED
    BY <1>8, <2>1, <2>2, TriggerRefines DEF SyncNow, dbVars, callerVars
<1>9. ASSUME NEW d \in Datasets, AddDataset(d) PROVE Promise!Next
  <2>1. [mode |-> SetupMode[d], force |-> TRUE] \in Requests
    BY SetupAssumption DEF Requests
  <2>2. \A x \in Datasets \ {d} : row'[x] = row[x]
    BY <1>9 DEF AddDataset, RestTypeOK
  <2> QED
    BY <1>9, <2>1, <2>2, TriggerRefines DEF AddDataset, callerVars
<1>10. ASSUME NEW d \in Datasets, Resume(d) PROVE Promise!Next
  <2>1. \A x \in Datasets \ {d} : row'[x] = row[x]
    BY <1>10 DEF Resume, RestTypeOK
  <2> QED
    BY <1>10, <2>1, RequestFacts, TriggerRefines DEF Resume, callerVars
<1>11. ASSUME NEW d \in Datasets, CancelSync(d) PROVE Promise!Next
  BY <1>11, CancelRefines DEF CancelSync, MayCancel, Losable, dbVars
<1>12. ASSUME NEW d \in Datasets, BeginDelete(d) PROVE Promise!Next
  BY <1>12, CancelRefines DEF BeginDelete, Losable, dbVars
<1>13. CASE Crash
  BY <1>13, CrashRefines
<1>14. CASE \/ \E d \in Datasets : ExpireLock(d)
            \/ Disconnect \/ Reconnect \/ UNCHANGED vars
  BY <1>14, OutsideRefines
<1> QED
  BY <1>1, <1>2, <1>3, <1>4, <1>5, <1>6, <1>7, <1>8, <1>9, <1>10, <1>11, <1>12, <1>13,
     <1>14 DEF Next, Environment

\* The queue keeps its promise, for every number of datasets, threads, slots and
\* crashes: SyncService implements SyncPromise.
THEOREM PromiseHolds == Spec => PromiseKept
<1>1. Init => Promise!Init
  BY InitRefines
<1>2. (EngineInv /\ RestTypeOK) /\ MemoryInv /\ (EngineInv /\ RestTypeOK)' /\ [Next]_vars
        => [Promise!Next]_(Promise!vars)
  BY NextRefines
<1>3. Init => MemoryInv
  BY InitMemory
<1>4. (EngineInv /\ RestTypeOK) /\ MemoryInv /\ [Next]_vars => MemoryInv'
  BY NextKeepsMemory
<1> QED
  BY <1>1, <1>2, <1>3, <1>4, Invariance, PTL DEF Spec, PromiseKept, Promise!Spec

(***************************************************************************)
(* What a waiting run asks for.  A deferral, a lock conflict and a restart *)
(* keep a dataset but not the mode and the force flag it was asked with,   *)
(* so the theorem is about services in which none of them happens; any     *)
(* number of threads may race for the slots, and other datasets may be     *)
(* paused, deleted and cancelled.                                          *)
(***************************************************************************)
-----------------------------------------------------------------------------
(* The inductive invariant *)

\* The datasets FollowUpKeepsStrength is about.
Lasting == Datasets \ (Volatile \cup IdleCancellable)

\* A slot for everybody, no end of the network or the service, and no rclone left
\* behind by a run of a lasting dataset.
NothingDeferred ==
  /\ Cardinality(Datasets) <= MaxConcurrentSyncs
  /\ ~CanDisconnect
  /\ MaxCrashes = 0
  /\ StrayLocks \cup Cancellable \subseteq Volatile \cup IdleCancellable

\* Nobody withdraws requests for d, its lock file is that of its own running rclone, and
\* nothing works for it before it has a row.
Undisturbed(d) ==
  /\ d \notin cancelRequested \cup killing \cup deleting
  /\ d \in lockFile => Transferring(d)
  /\ row[d] = "absent" =>
       d \notin tick.listed \cup tick.due /\ \A w \in Workers : worker[w].ds # d
  /\ \A w \in Workers : worker[w].ds = d => worker[w].outcome # "lock_conflict"

\* All that is asked of d agrees on the direction, so folding loses none.
Agrees(d, r) == r # NoRequest => r.mode \in {"none", SetupMode[d]}
OneDirection(d) ==
  /\ Agrees(d, pendingSyncs[d]) /\ Agrees(d, owed[d])
  /\ \A w \in Workers : worker[w].ds = d => Agrees(d, worker[w].req)

StrengthKept(d) == owed[d] # NoRequest =>
  /\ owed[d].force => \E r \in HeldRequests(d) : r.force
  /\ owed[d].mode # "none" => \E r \in HeldRequests(d) : r.mode = owed[d].mode

StrongFor(d) == Undisturbed(d) /\ OneDirection(d) /\ StrengthKept(d)

StrengthInv == online /\ \A d \in Lasting : StrongFor(d)

-----------------------------------------------------------------------------
(* Steps *)

Asking == {"loading", "checking", "starting", "carrying"}

\* A step that leaves d's queue entry, its threads and what it is owed alone keeps what
\* is asked for d.
LEMMA AsideKeepsStrength ==
  ASSUME NEW d \in Lasting, StrongFor(d),
         \A w \in Workers : \/ worker'[w] = worker[w]
                           \/ /\ worker[w].ds # d \/ worker[w].pc = "idle"
                              /\ worker'[w].ds # d,
         pendingSyncs'[d] = pendingSyncs[d], owed'[d] = owed[d],
         d \notin cancelRequested' \cup killing' \cup deleting',
         d \in lockFile' => d \in lockFile,
         row'[d] = "absent" => row[d] = "absent" /\ d \notin tick'.listed \cup tick'.due
  PROVE  StrongFor(d)'
<1>1. Undisturbed(d)'
  <2>1. Transferring(d) => Transferring(d)'
    BY DEF Transferring
  <2> QED
    BY <2>1 DEF StrongFor, Undisturbed
<1>2. OneDirection(d)'
  BY DEF StrongFor, OneDirection, Agrees
<1>3. HeldRequests(d) \subseteq HeldRequests(d)'
  BY DEF HeldRequests, Asking
<1>4. StrengthKept(d)'
  BY <1>3 DEF StrongFor, StrengthKept
<1> QED
  BY <1>1, <1>2, <1>4 DEF StrongFor

\* With a slot for every dataset trigger_sync_async starts a run or folds the request in.
LEMMA NeverAtCeiling ==
  ASSUME NothingDeferred, EngineInv, NEW d \in Datasets, d \notin activeSyncs
  PROVE  ~AtCeiling
<1>1. activeSyncs \subseteq Datasets \ {d}
  BY DEF EngineInv, EngineTypeOK
<1>2. IsFiniteSet(Datasets)
  BY DatasetsAssumption
<1>3. /\ IsFiniteSet(Datasets \ {d}) /\ IsFiniteSet(activeSyncs)
      /\ Cardinality(Datasets \ {d}) = Cardinality(Datasets) - 1
  BY <1>1, <1>2, FS_RemoveElement, FS_Subset
<1>4. Cardinality(activeSyncs) <= Cardinality(Datasets \ {d})
  BY <1>1, <1>3, FS_Subset
<1>5. /\ Cardinality(Datasets) \in Nat /\ Cardinality(activeSyncs) \in Nat
      /\ MaxConcurrentSyncs \in Nat
  BY <1>2, <1>3, FS_CardinalityType, CeilingAssumption
<1> QED
  BY <1>3, <1>4, <1>5 DEF NothingDeferred, AtCeiling

\* What a request folded into an older one, or owed on top of one, asks for.
LEMMA FoldedStrength ==
  ASSUME NEW old \in Requests \cup {NoRequest}, NEW r \in Requests
  PROVE  /\ Fold(old, r).force <=> r.force \/ (old # NoRequest /\ old.force)
         /\ Owing(old, r).force <=> r.force \/ (old # NoRequest /\ old.force)
         /\ Fold(old, r).mode = IF old # NoRequest /\ old.mode # "none" THEN old.mode ELSE r.mode
         /\ Owing(old, r).mode = IF old # NoRequest /\ r.mode = "none" THEN old.mode ELSE r.mode
<1>1. CASE old = NoRequest
  BY <1>1 DEF Fold, Owing
<1>2. CASE old # NoRequest
  <2>1. old.force \in BOOLEAN /\ r.force \in BOOLEAN
    BY <1>2 DEF Requests
  <2>2. TRUE \in {old.force, r.force} <=> old.force \/ r.force
    BY <2>1
  <2>3. /\ Fold(old, r).force = (old.force \/ r.force)
        /\ Owing(old, r).force = (TRUE \in {old.force, r.force})
    BY <1>2 DEF Fold, Owing
  <2>4. /\ Fold(old, r).mode = IF old.mode # "none" THEN old.mode ELSE r.mode
        /\ Owing(old, r).mode = IF r.mode = "none" THEN old.mode ELSE r.mode
    BY <1>2 DEF Fold, Owing
  <2> QED
    BY <1>2, <2>2, <2>3, <2>4
<1> QED
  BY <1>1, <1>2

\* Whoever triggers a dataset, a request in its direction adds to what is asked for it.
LEMMA TriggerKeepsStrength ==
  ASSUME NothingDeferred, EngineInv, NEW d \in Lasting, StrongFor(d),
         NEW r \in Requests, Agrees(d, r), NEW ended \in SUBSET Workers,
         \A w \in ended : worker[w].ds = d /\ worker[w].req = r,
         TriggerSync(d, r, ended),
         row'[d] # "absent", UNCHANGED <<lockFile, killing, deleting>>,
         \A w \in ended : worker[w].pc = "carrying"
  PROVE  StrongFor(d)'
<1> USE RequestFacts
<1>0. d \in Datasets /\ pendingSyncs[d] \in Requests \cup {NoRequest}
      /\ owed[d] \in Requests \cup {NoRequest} /\ d \in DOMAIN pendingSyncs
  BY DEF Lasting, EngineInv, EngineTypeOK
<1>1. owed'[d] = Owing(owed[d], r) /\ UNCHANGED cancelRequested
  BY <1>0 DEF TriggerSync, EngineInv, EngineTypeOK
<1>2. /\ IdleWorker.ds # d
      /\ NewWorker(d, r).ds = d /\ NewWorker(d, r).req = r
      /\ NewWorker(d, r).pc = "loading" /\ NewWorker(d, r).outcome = "none"
  BY <1>0, DatasetsAssumption DEF IdleWorker, NewWorker
<1>3. \A w \in Workers : \/ w \notin ended /\ worker'[w] = worker[w]
                         \/ w \in ended /\ worker'[w] = IdleWorker
                         \/ worker'[w] = NewWorker(d, r)
  BY DEF TriggerSync
<1>4. \A w \in Workers : worker[w].pc \notin {"idle", "carrying"} => worker'[w] = worker[w]
  BY DEF TriggerSync
<1>5. Undisturbed(d)'
  <2>1. Transferring(d) => Transferring(d)'
    BY <1>4 DEF Transferring
  <2>2. \A w \in Workers : worker'[w].ds = d => worker'[w].outcome # "lock_conflict"
    BY <1>2, <1>3 DEF StrongFor, Undisturbed
  <2> QED
    BY <1>1, <2>1, <2>2 DEF StrongFor, Undisturbed
<1>6. \/ pendingSyncs'[d] = pendingSyncs[d] /\ \E t \in Workers : worker'[t] = NewWorker(d, r)
      \/ pendingSyncs'[d] = Fold(pendingSyncs[d], r)
  BY <1>0, NeverAtCeiling DEF TriggerSync
<1>7. OneDirection(d)'
  <2>1. Agrees(d, pendingSyncs'[d])
    BY <1>0, <1>6 DEF StrongFor, OneDirection, Agrees, Fold
  <2>2. Agrees(d, owed'[d])
    BY <1>0, <1>1 DEF StrongFor, OneDirection, Agrees, Owing
  <2>3. \A w \in Workers : worker'[w].ds = d => Agrees(d, worker'[w].req)
    BY <1>2, <1>3 DEF StrongFor, OneDirection
  <2> QED
    BY <2>1, <2>2, <2>3 DEF OneDirection, Agrees
<1>8. ASSUME NEW q \in HeldRequests(d), q # r, q # pendingSyncs[d]
      PROVE  q \in HeldRequests(d)'
  <2>1. PICK w \in Workers : worker[w].ds = d /\ worker[w].pc \in Asking /\ worker[w].req = q
    BY <1>8 DEF HeldRequests, Asking
  <2>2. w \notin ended /\ worker[w].pc # "idle" /\ q # NoRequest
    BY <1>8, <2>1 DEF Asking, HeldRequests
  <2>3. worker'[w] = worker[w]
    BY <2>2 DEF TriggerSync
  <2> QED
    BY <2>1, <2>2, <2>3 DEF HeldRequests, Asking
<1>9. \/ /\ r \in HeldRequests(d)'
         /\ pendingSyncs[d] # NoRequest => pendingSyncs[d] \in HeldRequests(d)'
      \/ Fold(pendingSyncs[d], r) \in HeldRequests(d)'
  <2>1. CASE pendingSyncs'[d] = pendingSyncs[d] /\ \E t \in Workers : worker'[t] = NewWorker(d, r)
    BY <1>2, <2>1 DEF HeldRequests
  <2>2. CASE pendingSyncs'[d] = Fold(pendingSyncs[d], r)
    BY <1>0, <2>2 DEF HeldRequests
  <2> QED
    BY <1>6, <2>1, <2>2
<1>10. StrengthKept(d)'
  <2>1. ASSUME owed'[d].force PROVE \E q \in HeldRequests(d)' : q.force
    <3>1. r.force \/ (owed[d] # NoRequest /\ owed[d].force)
      <4>1. Owing(owed[d], r).force <=> r.force \/ (owed[d] # NoRequest /\ owed[d].force)
        BY <1>0, FoldedStrength
      <4>2. Owing(owed[d], r).force
        BY <1>1, <2>1
      <4> QED
        BY <4>1, <4>2
    <3>2. r.force \/ \E q \in HeldRequests(d) : q.force
      BY <3>1 DEF StrongFor, StrengthKept
    <3>3. CASE r.force \/ (pendingSyncs[d] # NoRequest /\ pendingSyncs[d].force)
      BY <1>0, <1>9, <3>3, FoldedStrength
    <3>4. ASSUME NEW q \in HeldRequests(d), q.force PROVE \E x \in HeldRequests(d)' : x.force
      <4>1. q # NoRequest
        BY DEF HeldRequests
      <4> QED
        BY <1>8, <3>3, <3>4, <4>1
    <3> QED
      BY <3>2, <3>3, <3>4
  <2>2. ASSUME owed'[d].mode # "none"
        PROVE  \E q \in HeldRequests(d)' : q.mode = owed'[d].mode
    <3>0. owed'[d].mode = SetupMode[d] /\ SetupMode[d] # "none"
      <4>1. SetupMode[d] \in Modes /\ owed'[d] # NoRequest
        BY <1>0, <1>1, SetupAssumption
      <4> QED
        BY <1>7, <2>2, <4>1 DEF OneDirection, Agrees, Modes
    <3>1. r.mode = SetupMode[d] \/ (owed[d] # NoRequest /\ owed[d].mode = SetupMode[d])
      <4>1. Owing(owed[d], r).mode =
              IF owed[d] # NoRequest /\ r.mode = "none" THEN owed[d].mode ELSE r.mode
        BY <1>0, FoldedStrength
      <4> QED
        BY <1>1, <3>0, <4>1
    <3>2. r.mode = SetupMode[d] \/ \E q \in HeldRequests(d) : q.mode = SetupMode[d]
      BY <3>0, <3>1 DEF StrongFor, StrengthKept
    <3>3. CASE r.mode = SetupMode[d]
      <4>1. Fold(pendingSyncs[d], r).mode = SetupMode[d]
        BY <1>0, <3>0, <3>3, FoldedStrength DEF StrongFor, OneDirection, Agrees
      <4> QED
        BY <1>9, <3>0, <3>3, <4>1
    <3>4. CASE pendingSyncs[d] # NoRequest /\ pendingSyncs[d].mode = SetupMode[d]
      <4>1. Fold(pendingSyncs[d], r).mode = SetupMode[d]
        <5>1. Fold(pendingSyncs[d], r).mode =
                IF pendingSyncs[d] # NoRequest /\ pendingSyncs[d].mode # "none"
                THEN pendingSyncs[d].mode ELSE r.mode
          BY <1>0, FoldedStrength
        <5> QED
          BY <3>0, <3>4, <5>1
      <4> QED
        BY <1>9, <3>0, <3>4, <4>1
    <3>5. ASSUME NEW q \in HeldRequests(d), q.mode = SetupMode[d]
          PROVE  \E x \in HeldRequests(d)' : x.mode = SetupMode[d]
      <4>1. q # NoRequest
        BY DEF HeldRequests
      <4> QED
        BY <1>8, <3>0, <3>3, <3>4, <3>5, <4>1
    <3> QED
      BY <3>0, <3>2, <3>3, <3>5
  <2> QED
    BY <2>1, <2>2 DEF StrengthKept
<1> QED
  BY <1>5, <1>7, <1>10 DEF StrongFor

\* A step inside a run of d keeps what is asked for it if the thread goes on asking, or
\* only what is folded in behind the run is still owed.
LEMMA RunStepKeepsStrength ==
  ASSUME EngineInv, NEW w \in Workers, NEW d \in Lasting, worker[w].ds = d, StrongFor(d),
         NEW s, s.ds = d, s.req = worker[w].req, s.outcome # "lock_conflict",
         worker' = [worker EXCEPT ![w] = s],
         UNCHANGED <<pendingSyncs, cancelRequested, row, tick, killing, deleting>>,
         d \in lockFile' => Transferring(d)',
         \/ owed'[d] = pendingSyncs[d]
         \/ /\ owed'[d] = owed[d]
            /\ worker[w].pc \in Asking => s.pc \in Asking
  PROVE  StrongFor(d)'
<1>0. worker \in [Workers -> WorkerStates]
  BY DEF EngineInv, EngineTypeOK
<1>1. worker'[w] = s /\ \A v \in Workers \ {w} : worker'[v] = worker[v]
  BY <1>0
<1>2. \A v \in Workers : worker'[v].ds = worker[v].ds /\ worker'[v].req = worker[v].req
  BY <1>1
<1>3. Undisturbed(d)'
  BY <1>1, <1>2 DEF StrongFor, Undisturbed
<1>4. Agrees(d, owed'[d])
  BY DEF StrongFor, OneDirection
<1>5. OneDirection(d)'
  BY <1>2, <1>4 DEF StrongFor, OneDirection, Agrees
<1>6. CASE owed'[d] = pendingSyncs[d]
  <2>1. owed'[d] # NoRequest => owed'[d] \in HeldRequests(d)'
    BY <1>6 DEF HeldRequests
  <2>2. StrengthKept(d)'
    BY <2>1 DEF StrengthKept
  <2> QED
    BY <1>3, <1>5, <2>2 DEF StrongFor
<1>7. CASE owed'[d] = owed[d] /\ (worker[w].pc \in Asking => s.pc \in Asking)
  <2>1. ASSUME NEW q \in HeldRequests(d) PROVE q \in HeldRequests(d)'
    <3>1. CASE q = pendingSyncs[d]
      BY <3>1 DEF HeldRequests
    <3>2. CASE q # pendingSyncs[d]
      <4>1. PICK v \in Workers : worker[v].ds = d /\ worker[v].pc \in Asking /\ worker[v].req = q
        BY <3>2 DEF HeldRequests, Asking
      <4>2. worker'[v].ds = d /\ worker'[v].pc \in Asking /\ worker'[v].req = q
        BY <1>1, <1>2, <1>7, <4>1
      <4>3. q # NoRequest
        BY DEF HeldRequests
      <4> QED
        BY <4>2, <4>3 DEF HeldRequests, Asking
    <3> QED
      BY <3>1, <3>2
  <2>2. StrengthKept(d)'
    BY <1>7, <2>1 DEF StrongFor, StrengthKept
  <2> QED
    BY <1>3, <1>5, <2>2 DEF StrongFor
<1> QED
  BY <1>6, <1>7

\* _finish_sync hands the follow-up to the thread that will start it.
LEMMA FinishKeepsStrength ==
  ASSUME EngineInv, NEW w \in Workers, FinishSync(w), UNCHANGED callerVars,
         NEW d \in Lasting, worker[w].ds = d, StrongFor(d)
  PROVE  StrongFor(d)'
<1> DEFINE s == IF pendingSyncs[d] = NoRequest THEN IdleWorker
                ELSE [IdleWorker EXCEPT !.pc = "carrying", !.ds = d, !.req = pendingSyncs[d]]
<1>0. /\ worker \in [Workers -> WorkerStates]
      /\ pendingSyncs \in [Datasets -> Requests \cup {NoRequest}]
      /\ owed \in [Datasets -> Requests \cup {NoRequest}]
      /\ d \in Datasets /\ d # NoDataset
  BY DatasetsAssumption DEF EngineInv, EngineTypeOK, Lasting
<1>1. d \notin cancelRequested
  BY DEF StrongFor, Undisturbed
<1>2. /\ worker[w].pc = "finishing"
      /\ pendingSyncs' = [pendingSyncs EXCEPT ![d] = NoRequest]
      /\ cancelRequested' = cancelRequested \ {d}
      /\ worker' = [worker EXCEPT ![w] = s]
      /\ UNCHANGED <<row, lockFile, tick, killing, deleting>>
  BY <1>1 DEF FinishSync, PendingWithout, dbVars, callerVars
<1>3. owed'[d] \in {NoRequest, owed[d]}
  BY <1>0 DEF FinishSync
<1>4. /\ s.outcome = "none"
      /\ s.ds = d => s.req = pendingSyncs[d]
      /\ pendingSyncs[d] # NoRequest => s.ds = d /\ s.pc = "carrying"
  BY <1>0 DEF IdleWorker
<1> HIDE DEF s
<1>5. worker'[w] = s /\ \A v \in Workers \ {w} : worker'[v] = worker[v]
  BY <1>0, <1>2
<1>6. Undisturbed(d)'
  <2>1. Transferring(d) => Transferring(d)'
    BY <1>2, <1>5 DEF Transferring
  <2> QED
    BY <1>2, <1>4, <1>5, <2>1 DEF StrongFor, Undisturbed
<1>7. OneDirection(d)'
  <2>1. pendingSyncs'[d] = NoRequest
    BY <1>0, <1>2
  <2>2. \A v \in Workers : worker'[v].ds = d => Agrees(d, worker'[v].req)
    BY <1>4, <1>5 DEF StrongFor, OneDirection
  <2> QED
    BY <1>3, <2>1, <2>2 DEF StrongFor, OneDirection, Agrees
<1>8. ASSUME NEW q \in HeldRequests(d) PROVE q \in HeldRequests(d)'
  <2>1. q # NoRequest
    BY DEF HeldRequests
  <2>2. CASE q = pendingSyncs[d]
    <3>1. worker'[w].ds = d /\ worker'[w].pc \in Asking /\ worker'[w].req = q
      BY <1>4, <1>5, <2>1, <2>2 DEF Asking
    <3> QED
      BY <2>1, <3>1 DEF HeldRequests, Asking
  <2>3. CASE q # pendingSyncs[d]
    <3>1. PICK v \in Workers : worker[v].ds = d /\ worker[v].pc \in Asking /\ worker[v].req = q
      BY <2>3 DEF HeldRequests, Asking
    <3>2. worker'[v] = worker[v]
      BY <1>2, <1>5, <3>1 DEF Asking
    <3> QED
      BY <2>1, <3>1, <3>2 DEF HeldRequests, Asking
  <2> QED
    BY <2>2, <2>3
<1>9. StrengthKept(d)'
  BY <1>3, <1>8 DEF StrongFor, StrengthKept
<1> QED
  BY <1>6, <1>7, <1>9 DEF StrongFor

\* Two threads never hold the slot of one dataset, so a lasting one's lock file is never met.
LEMMA NoLockMet ==
  ASSUME EngineInv, NEW w \in Workers, NEW d \in Lasting, worker[w].ds = d, StrongFor(d),
         worker[w].pc = "starting"
  PROVE  d \notin lockFile
<1>1. ASSUME d \in lockFile PROVE FALSE
  <2>1. PICK v \in Workers : worker[v].pc = "transferring" /\ worker[v].ds = d
    BY <1>1 DEF StrongFor, Undisturbed, Transferring
  <2>2. HoldsSlot(v) /\ HoldsSlot(w)
    BY <2>1 DEF HoldsSlot, SlotPCs, PCs
  <2>3. v = w
    BY <2>1, <2>2 DEF EngineInv, SlotHasOneWorker
  <2> QED
    BY <2>1, <2>3
<1> QED
  BY <1>1

\* Each step of a thread that works for d keeps what is asked for d.
LEMMA OwnRunKeepsStrength ==
  ASSUME NothingDeferred, EngineInv, OutcomeWhenReturned, online, NEW w \in Workers,
         SyncWorker(w), NEW d \in Lasting, worker[w].ds = d, StrongFor(d)
  PROVE  StrongFor(d)'
<1> USE DEF Asking, queueVars, dbVars
<1>0. /\ worker \in [Workers -> WorkerStates] /\ worker[w] \in WorkerStates
      /\ owed \in [Datasets -> Requests \cup {NoRequest}]
      /\ d \in Datasets /\ d \notin Volatile \cup IdleCancellable
      /\ UNCHANGED <<tick, killing, deleting>>
  BY DEF EngineInv, EngineTypeOK, Lasting, SyncWorker, callerVars
<1>1. worker[w].outcome # "lock_conflict" /\ row[d] # "absent" /\ StrongFor(d)
  BY DEF StrongFor, Undisturbed
<1>2. d \in lockFile => Transferring(d)
  BY <1>1 DEF StrongFor, Undisturbed
<1>3. ASSUME NEW s, worker' = [worker EXCEPT ![w] = s], s.ds = d,
             worker[w].pc # "transferring", d \in lockFile' => d \in lockFile
      PROVE  d \in lockFile' => Transferring(d)'
  <2>1. \A v \in Workers : worker[v].pc = "transferring" => worker'[v] = worker[v]
    BY <1>0, <1>3
  <2> QED
    BY <1>2, <1>3, <2>1 DEF Transferring
<1>5. CASE LoadDataset(w)
  <2> DEFINE s == [worker[w] EXCEPT !.pc = "checking", !.fresh = d \notin initialSyncDone]
  <2>1. worker' = [worker EXCEPT ![w] = s] /\ worker[w].pc = "loading"
        /\ UNCHANGED <<pendingSyncs, cancelRequested, row, lockFile, owed>>
    BY <1>1, <1>5 DEF LoadDataset
  <2>2. s.ds = d /\ s.req = worker[w].req /\ s.outcome = worker[w].outcome /\ s.pc \in Asking
    BY <1>0 DEF WorkerStates
  <2> HIDE DEF s
  <2> QED
    BY <1>0, <1>1, <1>3, <2>1, <2>2, RunStepKeepsStrength
<1>6. CASE PassChecks(w)
  <2> DEFINE s == [worker[w] EXCEPT !.pc = "starting"]
  <2>1. worker' = [worker EXCEPT ![w] = s] /\ worker[w].pc = "checking"
        /\ UNCHANGED <<pendingSyncs, cancelRequested, row, lockFile, owed>>
    BY <1>0, <1>6 DEF PassChecks
  <2>2. s.ds = d /\ s.req = worker[w].req /\ s.outcome = worker[w].outcome /\ s.pc \in Asking
    BY <1>0 DEF WorkerStates
  <2> HIDE DEF s
  <2> QED
    BY <1>0, <1>1, <1>3, <2>1, <2>2, RunStepKeepsStrength
<1>7. CASE DeferOffline(w)
  BY <1>7 DEF DeferOffline
<1>8. CASE FailRun(w)
  <2> DEFINE s == [worker[w] EXCEPT !.pc = "finishing", !.outcome = "none"]
  <2>1. worker' = [worker EXCEPT ![w] = s] /\ worker[w].pc # "transferring"
        /\ UNCHANGED <<pendingSyncs, cancelRequested, row, lockFile>>
    BY <1>0, <1>8 DEF FailRun
  <2>2. s.ds = d /\ s.req = worker[w].req /\ s.outcome = "none"
    BY <1>0 DEF WorkerStates
  <2>3. \/ owed'[d] = pendingSyncs[d]
        \/ owed'[d] = owed[d] /\ worker[w].pc = "returned"
    BY <1>0, <1>8 DEF FailRun, OutcomeWhenReturned
  <2> HIDE DEF s
  <2> QED
    BY <1>0, <1>1, <1>3, <2>1, <2>2, <2>3, RunStepKeepsStrength
<1>9. CASE StartBisync(w)
  <2> DEFINE s == [worker[w] EXCEPT !.pc = "transferring"]
  <2>1. d \notin lockFile
    BY <1>9, NoLockMet DEF StartBisync
  <2>2. worker' = [worker EXCEPT ![w] = s]
        /\ UNCHANGED <<pendingSyncs, cancelRequested, row>>
    BY <1>0, <1>9, <2>1 DEF StartBisync
  <2>3. owed'[d] = pendingSyncs[d]
    BY <1>0, <1>9, <2>1 DEF StartBisync
  <2>4. s.ds = d /\ s.req = worker[w].req /\ s.outcome = worker[w].outcome
        /\ s.pc = "transferring"
    BY <1>0 DEF WorkerStates
  <2> HIDE DEF s
  <2>5. Transferring(d)'
    BY <1>0, <2>2, <2>4 DEF Transferring
  <2> QED
    BY <1>0, <1>1, <2>2, <2>3, <2>4, <2>5, RunStepKeepsStrength
<1>10. CASE BisyncExits(w)
  <2>1. PICK o \in ExitOutcomes :
          worker' = [worker EXCEPT ![w].pc = "returned", ![w].outcome = o]
    BY <1>10 DEF BisyncExits
  <2> DEFINE s == [worker[w] EXCEPT !.pc = "returned", !.outcome = o]
  <2>2. worker' = [worker EXCEPT ![w] = s] /\ worker[w].pc = "transferring"
        /\ UNCHANGED <<pendingSyncs, cancelRequested, row, owed>> /\ d \notin lockFile'
    BY <1>0, <1>10, <2>1 DEF BisyncExits
  <2>3. s.ds = d /\ s.req = worker[w].req /\ s.outcome # "lock_conflict"
    BY <1>0 DEF WorkerStates, ExitOutcomes
  <2> HIDE DEF s
  <2> QED
    BY <1>0, <1>1, <2>2, <2>3, RunStepKeepsStrength
<1>11. CASE AbandonBisync(w)
  BY <1>0, <1>11 DEF AbandonBisync, NothingDeferred
<1>12. CASE RetryBisync(w)
  <2> DEFINE s == [worker[w] EXCEPT !.pc = "starting", !.outcome = "none",
                                    !.attempt = NextAttempt(w)]
  <2>1. worker' = [worker EXCEPT ![w] = s] /\ worker[w].pc = "returned"
        /\ UNCHANGED <<pendingSyncs, cancelRequested, row, lockFile, owed>>
    BY <1>0, <1>12 DEF RetryBisync
  <2>2. s.ds = d /\ s.req = worker[w].req /\ s.outcome = "none" /\ s.pc \in Asking
    BY <1>0 DEF WorkerStates
  <2> HIDE DEF s
  <2> QED
    BY <1>0, <1>1, <1>3, <2>1, <2>2, RunStepKeepsStrength
<1>13. CASE RecordResult(w)
  <2> DEFINE s == [worker[w] EXCEPT !.pc = "finishing", !.outcome = "none"]
  <2>1. worker' = [worker EXCEPT ![w] = s] /\ worker[w].pc = "returned"
        /\ UNCHANGED <<pendingSyncs, cancelRequested, row, lockFile>>
    BY <1>0, <1>13 DEF RecordResult
  <2>2. s.ds = d /\ s.req = worker[w].req /\ s.outcome = "none"
    BY <1>0 DEF WorkerStates
  <2>3. owed'[d] = owed[d]
    BY <1>0, <1>1, <1>13 DEF RecordResult
  <2> HIDE DEF s
  <2> QED
    BY <1>0, <1>1, <1>3, <2>1, <2>2, <2>3, RunStepKeepsStrength
<1>14. CASE FinishSync(w)
  BY <1>14, FinishKeepsStrength DEF SyncWorker
<1>15. CASE StartFollowUp(w)
  <2>1. worker[w].pc = "carrying" /\ worker[w].req \in Requests
    BY <1>15 DEF StartFollowUp, EngineInv, BusyWorkers
  <2>2. Agrees(d, worker[w].req)
    BY <1>1 DEF StrongFor, OneDirection
  <2>3. TriggerSync(d, worker[w].req, {w}) /\ UNCHANGED <<row, lockFile>>
    BY <1>15 DEF StartFollowUp
  <2> QED
    BY <1>0, <1>1, <2>1, <2>2, <2>3, TriggerKeepsStrength
<1> QED
  BY <1>5, <1>6, <1>7, <1>8, <1>9, <1>10, <1>11, <1>12, <1>13, <1>14, <1>15
  DEF SyncWorker, WorkerStep

\* A request for another dataset leaves what is asked for d alone.
LEMMA TriggerAsideKeepsStrength ==
  ASSUME EngineInv, NEW d \in Lasting, StrongFor(d), NEW e \in Datasets, e # d, NEW r,
         NEW ended \in SUBSET Workers, \A w \in ended : worker[w].ds # d,
         TriggerSync(e, r, ended),
         row'[d] = row[d], UNCHANGED <<lockFile, killing, deleting>>,
         tick'.listed = tick.listed, tick'.due \subseteq tick.due
  PROVE  StrongFor(d)'
<1>0. /\ pendingSyncs \in [Datasets -> Requests \cup {NoRequest}]
      /\ owed \in [Datasets -> Requests \cup {NoRequest}]
      /\ d \in Datasets /\ d # NoDataset
  BY DatasetsAssumption DEF EngineInv, EngineTypeOK, Lasting
<1>1. IdleWorker.ds # d /\ NewWorker(e, r).ds # d
  BY <1>0 DEF IdleWorker, NewWorker
<1>2. pendingSyncs'[d] = pendingSyncs[d] /\ owed'[d] = owed[d] /\ UNCHANGED cancelRequested
  BY <1>0 DEF TriggerSync
<1>3. \A w \in Workers : \/ worker'[w] = worker[w]
                         \/ /\ worker[w].ds # d \/ worker[w].pc = "idle"
                            /\ worker'[w].ds # d
  BY <1>1 DEF TriggerSync
<1>4. /\ d \notin cancelRequested \cup killing \cup deleting
      /\ row[d] = "absent" => d \notin tick.listed \cup tick.due
  BY DEF StrongFor, Undisturbed
<1> QED
  BY <1>2, <1>3, <1>4, AsideKeepsStrength

\* A thread that works for another dataset leaves what is asked for d alone.
LEMMA OtherRunKeepsStrength ==
  ASSUME EngineInv, NEW d \in Lasting, StrongFor(d), NEW w \in Workers, worker[w].ds # d,
         SyncWorker(w)
  PROVE  StrongFor(d)'
<1> USE DEF queueVars, dbVars
<1>0. /\ worker \in [Workers -> WorkerStates] /\ worker[w] \in WorkerStates
      /\ pendingSyncs \in [Datasets -> Requests \cup {NoRequest}]
      /\ owed \in [Datasets -> Requests \cup {NoRequest}]
      /\ d \in Datasets /\ d # NoDataset
      /\ UNCHANGED <<tick, killing, deleting>>
  BY DatasetsAssumption DEF EngineInv, EngineTypeOK, Lasting, SyncWorker, callerVars
<1>1. /\ d \notin cancelRequested \cup killing \cup deleting
      /\ row[d] = "absent" => d \notin tick.listed \cup tick.due
  BY DEF StrongFor, Undisturbed
<1>2. CASE StartFollowUp(w)
  <2>1. worker[w].ds \in Datasets
    BY <1>2 DEF StartFollowUp, EngineInv, BusyWorkers
  <2> QED
    BY <1>0, <1>2, <2>1, TriggerAsideKeepsStrength DEF StartFollowUp
<1>3. CASE ~StartFollowUp(w)
  <2>1. \A v \in Workers : v # w => worker'[v] = worker[v]
    BY <1>0, <1>3 DEF SyncWorker, WorkerStep, LoadDataset, PassChecks, DeferOffline, FailRun,
      StartBisync, BisyncExits, AbandonBisync, RetryBisync, RecordResult, FinishSync
  <2>2. worker'[w].ds \in {worker[w].ds, NoDataset}
    <3>1. CASE FinishSync(w)
      BY <1>0, <3>1 DEF FinishSync, IdleWorker
    <3>2. CASE LoadDataset(w)
      BY <1>0, <3>2 DEF LoadDataset, WorkerStates
    <3>3. CASE PassChecks(w) \/ DeferOffline(w) \/ AbandonBisync(w)
      BY <1>0, <3>3 DEF PassChecks, DeferOffline, AbandonBisync, WorkerStates
    <3>4. CASE FailRun(w) \/ RecordResult(w) \/ RetryBisync(w)
      BY <1>0, <3>4 DEF FailRun, RecordResult, RetryBisync, WorkerStates
    <3>5. CASE StartBisync(w) \/ BisyncExits(w)
      BY <1>0, <3>5 DEF StartBisync, BisyncExits, WorkerStates
    <3> QED
      BY <1>3, <3>1, <3>2, <3>3, <3>4, <3>5 DEF SyncWorker, WorkerStep
  <2>3. pendingSyncs'[d] = pendingSyncs[d] /\ owed'[d] = owed[d]
    BY <1>0, <1>3 DEF SyncWorker, WorkerStep, LoadDataset, PassChecks, DeferOffline, FailRun,
      StartBisync, BisyncExits, AbandonBisync, RetryBisync, RecordResult, FinishSync,
      PendingWithout
  <2>4. /\ cancelRequested' \subseteq cancelRequested /\ UNCHANGED row
        /\ d \in lockFile' => d \in lockFile
    BY <1>0, <1>3 DEF SyncWorker, WorkerStep, LoadDataset, PassChecks, DeferOffline, FailRun,
      StartBisync, BisyncExits, AbandonBisync, RetryBisync, RecordResult, FinishSync
  <2>5. \A v \in Workers : \/ worker'[v] = worker[v]
                           \/ /\ worker[v].ds # d \/ worker[v].pc = "idle"
                              /\ worker'[v].ds # d
    BY <1>0, <2>1, <2>2
  <2> QED
    BY <1>0, <1>1, <2>3, <2>4, <2>5, AsideKeepsStrength
<1> QED
  BY <1>2, <1>3

\* Cancelling another dataset leaves what is asked for d alone.
LEMMA CancelAsideKeepsStrength ==
  ASSUME EngineInv, NEW d \in Lasting, StrongFor(d), NEW e \in Datasets, e # d,
         CancelRequest(e) \/ (TerminateBisync(e) /\ UNCHANGED <<queueVars, owed>>),
         d \notin killing' \cup deleting', UNCHANGED <<row, tick>>,
         lockFile' \subseteq lockFile
  PROVE  StrongFor(d)'
<1>0. /\ worker \in [Workers -> WorkerStates]
      /\ pendingSyncs \in [Datasets -> Requests \cup {NoRequest}]
      /\ owed \in [Datasets -> Requests \cup {NoRequest}]
  BY DEF EngineInv, EngineTypeOK
<1>1. \A w \in Workers : worker[w].ds # e => worker'[w] = worker[w]
  BY DEF CancelRequest, TerminateBisync
<1>2. ASSUME NEW w \in Workers PROVE worker'[w].ds = worker[w].ds
  <2>1. CASE CancelRequest(e)
    BY <1>0, <2>1 DEF CancelRequest, WorkerStates
  <2>2. CASE TerminateBisync(e)
    BY <1>0, <2>2 DEF TerminateBisync, WorkerStates
  <2> QED
    BY <2>1, <2>2
<1>3. /\ pendingSyncs'[d] = pendingSyncs[d] /\ owed'[d] = owed[d]
      /\ d \in cancelRequested' => d \in cancelRequested
  BY <1>0 DEF CancelRequest, PendingWithout, queueVars, Lasting
<1>4. /\ d \notin cancelRequested
      /\ row[d] = "absent" => d \notin tick.listed \cup tick.due
  BY DEF StrongFor, Undisturbed
<1>5. \A w \in Workers : worker'[w] = worker[w] \/ (worker[w].ds # d /\ worker'[w].ds # d)
  BY <1>1, <1>2
<1> QED
  BY <1>3, <1>4, <1>5, AsideKeepsStrength

\* Scheduler, rows, locks and the restore leave what is asked for d alone.
LEMMA QuietStepKeepsStrength ==
  ASSUME NEW d \in Lasting, StrongFor(d),
         UNCHANGED <<worker, pendingSyncs, owed, cancelRequested, killing>>,
         lockFile' \subseteq lockFile, deleting' \subseteq deleting,
         row'[d] = row[d],
         tick'.listed \cup tick'.due \subseteq
           tick.listed \cup tick.due \cup {x \in Datasets : row[x] # "absent"}
  PROVE  StrongFor(d)'
<1>1. /\ d \notin cancelRequested \cup killing \cup deleting
      /\ row[d] = "absent" => d \notin tick.listed \cup tick.due
  BY DEF StrongFor, Undisturbed
<1>2. row'[d] = "absent" => row[d] = "absent" /\ d \notin tick'.listed \cup tick'.due
  BY <1>1
<1> QED
  BY <1>1, <1>2, AsideKeepsStrength

\* A request from outside, for d in its direction or for another dataset, keeps what is
\* asked for d.
LEMMA RequestKeepsStrength ==
  ASSUME NothingDeferred, EngineInv, NEW d \in Lasting, StrongFor(d),
         NEW e \in Datasets, NEW r \in Requests, Agrees(e, r), TriggerSync(e, r, {}),
         row'[e] # "absent", e # d => row'[d] = row[d],
         UNCHANGED <<lockFile, killing, deleting>>,
         tick'.listed = tick.listed, tick'.due \subseteq tick.due
  PROVE  StrongFor(d)'
<1>1. CASE e = d
  BY <1>1, TriggerKeepsStrength
<1>2. CASE e # d
  BY <1>2, TriggerAsideKeepsStrength
<1> QED
  BY <1>1, <1>2

\* Each step of the service keeps what is asked for a lasting dataset.
LEMMA NextKeepsStrength ==
  ASSUME NothingDeferred, EngineInv, RestTypeOK, OutcomeWhenReturned, StrengthInv,
         [Next]_vars
  PROVE  StrengthInv'
<1> USE DEF engineVars, queueVars, dbVars, callerVars
<1>0. online /\ ~CanDisconnect /\ crashes = 0 /\ MaxCrashes = 0
  BY DEF StrengthInv, NothingDeferred, RestTypeOK
<1>1. online'
  BY <1>0 DEF vars, Next, Environment, SyncWorker, WorkerStep, LoadDataset, PassChecks,
    DeferOffline, FailRun, StartBisync, BisyncExits, AbandonBisync, RetryBisync,
    RecordResult, FinishSync, StartFollowUp, ListDatasets, TakeDeferred, TickEnds, RunDue,
    CancelBisync, DeleteRow, ExpireLock, RestoreSyncState, WatcherTriggers, SyncNow,
    AddDataset, Pause, Resume, CancelSync, BeginDelete, Crash, Disconnect, Reconnect
<1> SUFFICES ASSUME NEW d \in Lasting PROVE StrongFor(d)'
  BY <1>1 DEF StrengthInv
<1>a. /\ StrongFor(d) /\ d \in Datasets /\ d \notin Volatile \cup IdleCancellable \cup Cancellable
      /\ d \notin cancelRequested \cup killing \cup deleting
      /\ row[d] = "absent" => d \notin tick.listed \cup tick.due
  BY DEF StrengthInv, Lasting, StrongFor, Undisturbed, NothingDeferred
<1>b. PlainRequest \in Requests /\ \A e \in Datasets : Agrees(e, PlainRequest)
  BY RequestFacts DEF Agrees, PlainRequest
<1>c. tick.due \subseteq Datasets /\ tick.listed \subseteq Datasets
      /\ row \in [Datasets -> RowStates]
      /\ tick \in [pc : {"idle", "listed", "running"},
                   listed : SUBSET Datasets, due : SUBSET Datasets]
  BY DEF RestTypeOK
<1>2. CASE UNCHANGED vars
  BY <1>a, <1>2, QuietStepKeepsStrength DEF vars
<1>3. ASSUME NEW w \in Workers, SyncWorker(w) PROVE StrongFor(d)'
  BY <1>0, <1>3, <1>a, OwnRunKeepsStrength, OtherRunKeepsStrength
<1>4. CASE ListDatasets
  <2>1. tick'.listed \cup tick'.due \subseteq {x \in Datasets : row[x] # "absent"}
    BY <1>4 DEF ListDatasets, IdleTick
  <2> QED
    BY <1>4, <1>a, <2>1, QuietStepKeepsStrength DEF ListDatasets
<1>5. CASE TakeDeferred
  <2>1. tick'.listed \cup tick'.due \subseteq tick.listed
    BY <1>5, <1>c DEF TakeDeferred
  <2> QED
    BY <1>5, <1>a, <2>1, QuietStepKeepsStrength DEF TakeDeferred
<1>6. CASE TickEnds
  <2>1. tick'.listed \cup tick'.due = {}
    BY <1>6 DEF TickEnds, IdleTick
  <2> QED
    BY <1>6, <1>a, <2>1, QuietStepKeepsStrength DEF TickEnds
<1>7. ASSUME NEW e \in Datasets, RunDue(e) PROVE StrongFor(d)'
  <2>1. tick'.listed = tick.listed /\ tick'.due \subseteq tick.due /\ e \in tick.due
    BY <1>7, <1>c DEF RunDue
  <2>2. TriggerSync(e, PlainRequest, {}) /\ UNCHANGED <<row, lockFile, killing, deleting>>
    BY <1>7 DEF RunDue
  <2>3. CASE e = d
    BY <1>a, <1>b, <2>1, <2>2, <2>3, TriggerKeepsStrength
  <2>4. CASE e # d
    BY <1>a, <2>1, <2>2, <2>4, TriggerAsideKeepsStrength
  <2> QED
    BY <2>3, <2>4
<1>8. ASSUME NEW e \in Datasets, CancelBisync(e) PROVE StrongFor(d)'
  <2>1. e # d /\ TerminateBisync(e) /\ UNCHANGED <<queueVars, owed, row, tick, deleting>>
        /\ killing' \subseteq killing
    BY <1>8, <1>a DEF CancelBisync
  <2>2. lockFile' \subseteq lockFile
    BY <2>1 DEF TerminateBisync
  <2> QED
    BY <1>a, <2>1, <2>2, CancelAsideKeepsStrength
<1>9. ASSUME NEW e \in Datasets, DeleteRow(e) PROVE StrongFor(d)'
  <2>1. row'[d] = row[d]
    BY <1>9, <1>a, <1>c DEF DeleteRow
  <2> QED
    BY <1>9, <1>a, <2>1, QuietStepKeepsStrength DEF DeleteRow
<1>10. ASSUME NEW e \in Datasets, ExpireLock(e) PROVE StrongFor(d)'
  BY <1>10, <1>a, QuietStepKeepsStrength DEF ExpireLock
<1>11. CASE RestoreSyncState
  BY <1>11, <1>a, QuietStepKeepsStrength DEF RestoreSyncState
<1>12. ASSUME NEW e \in Datasets, WatcherTriggers(e) PROVE StrongFor(d)'
  BY <1>12, <1>a, <1>b, RequestKeepsStrength DEF WatcherTriggers
<1>13. ASSUME NEW e \in Datasets, SyncNow(e) PROVE StrongFor(d)'
  <2>1. PICK f \in BOOLEAN : TriggerSync(e, [PlainRequest EXCEPT !.force = f], {})
    BY <1>13 DEF SyncNow
  <2>2. [PlainRequest EXCEPT !.force = f] \in Requests
    BY DEF PlainRequest, Requests
  <2>3. Agrees(e, [PlainRequest EXCEPT !.force = f])
    BY DEF Agrees, PlainRequest
  <2> QED
    BY <1>13, <1>a, <2>1, <2>2, <2>3, RequestKeepsStrength DEF SyncNow
<1>14. ASSUME NEW e \in Datasets, AddDataset(e) PROVE StrongFor(d)'
  <2> DEFINE r == [mode |-> SetupMode[e], force |-> TRUE]
  <2>1. r \in Requests /\ Agrees(e, r)
    BY SetupAssumption DEF Requests, Agrees
  <2>2. row'[e] # "absent" /\ (e # d => row'[d] = row[d])
    BY <1>14, <1>a, <1>c DEF AddDataset
  <2>3. TriggerSync(e, r, {}) /\ UNCHANGED <<lockFile, callerVars>>
    BY <1>14 DEF AddDataset
  <2> HIDE DEF r
  <2> QED
    BY <1>a, <2>1, <2>2, <2>3, RequestKeepsStrength
<1>15. ASSUME NEW e \in Datasets, Pause(e) PROVE StrongFor(d)'
  <2>1. row'[d] = row[d]
    BY <1>15, <1>a, <1>c DEF Pause
  <2> QED
    BY <1>15, <1>a, <2>1, QuietStepKeepsStrength DEF Pause
<1>16. ASSUME NEW e \in Datasets, Resume(e) PROVE StrongFor(d)'
  <2>1. row'[e] # "absent" /\ (e # d => row'[d] = row[d])
    BY <1>16, <1>a, <1>c DEF Resume
  <2> QED
    BY <1>16, <1>a, <1>b, <2>1, RequestKeepsStrength DEF Resume
<1>17. ASSUME NEW e \in Datasets, CancelSync(e) PROVE StrongFor(d)'
  <2>1. e # d /\ d \notin killing'
    BY <1>17, <1>a DEF CancelSync, MayCancel
  <2> QED
    BY <1>17, <1>a, <2>1, CancelAsideKeepsStrength DEF CancelSync
<1>18. ASSUME NEW e \in Datasets, BeginDelete(e) PROVE StrongFor(d)'
  <2>1. e # d /\ d \notin killing' \cup deleting'
    BY <1>18, <1>a DEF BeginDelete
  <2> QED
    BY <1>18, <1>a, <2>1, CancelAsideKeepsStrength DEF BeginDelete
<1>19. CASE Crash
  BY <1>0, <1>19 DEF Crash
<1>20. CASE Disconnect \/ Reconnect
  BY <1>0, <1>20 DEF Disconnect, Reconnect
<1> QED
  BY <1>2, <1>3, <1>4, <1>5, <1>6, <1>7, <1>8, <1>9, <1>10, <1>11, <1>12, <1>13, <1>14,
     <1>15, <1>16, <1>17, <1>18, <1>19, <1>20 DEF Next, Environment

\* At first nothing is asked and no lasting dataset has a lock file.
LEMMA InitStrength ==
  ASSUME NothingDeferred, Init
  PROVE  StrengthInv
<1>1. IdleWorker.ds = NoDataset /\ IdleWorker.outcome = "none"
  BY DEF IdleWorker
<1> SUFFICES ASSUME NEW d \in Lasting PROVE StrongFor(d)
  BY DEF Init, StrengthInv
<1>2. d \in Datasets /\ d # NoDataset /\ d \notin StrayLocks
  BY DatasetsAssumption DEF Lasting, NothingDeferred
<1>3. worker = [w \in Workers |-> IdleWorker] /\ tick = IdleTick
  BY DEF Init
<1>4. Undisturbed(d)
  BY <1>1, <1>2, <1>3 DEF Init, Undisturbed, IdleTick
<1>5. pendingSyncs[d] = NoRequest /\ owed[d] = NoRequest
  BY <1>2 DEF Init
<1>6. OneDirection(d)
  BY <1>1, <1>2, <1>3, <1>5 DEF OneDirection, Agrees
<1>7. StrengthKept(d)
  BY <1>5 DEF StrengthKept
<1> QED
  BY <1>4, <1>6, <1>7 DEF StrongFor

\* "A follow-up must be at least as strong as the strongest request that was folded into
\* it": where nothing is deferred, a force flag or a direction that is owed is asked for by
\* a waiting run, however requests, follow-ups and ticks race for the slots.
THEOREM FollowUpsKeepStrength ==
  ASSUME NothingDeferred
  PROVE  Spec => []FollowUpKeepsStrength
<1>1. Init => StrengthInv
  BY InitStrength
<1>2. (EngineInv /\ RestTypeOK) /\ MemoryInv /\ StrengthInv /\ [Next]_vars => StrengthInv'
  BY NextKeepsStrength DEF MemoryInv
<1>3. StrengthInv => FollowUpKeepsStrength
  BY DEF StrengthInv, StrongFor, StrengthKept, FollowUpKeepsStrength, Lasting
<1>4. Init => MemoryInv
  BY InitMemory
<1>5. (EngineInv /\ RestTypeOK) /\ MemoryInv /\ [Next]_vars => MemoryInv'
  BY NextKeepsMemory
<1> QED
  BY <1>1, <1>2, <1>3, <1>4, <1>5, Invariance, PTL DEF Spec

=============================================================================
