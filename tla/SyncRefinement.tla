--------------------------- MODULE SyncRefinement ---------------------------
(***************************************************************************)
(* SyncService implements SyncPromise: where the abstract queue's requests *)
(* and runs are found in the engine, the scheduler thread and the workers. *)
(***************************************************************************)
EXTENDS SyncService

\* Places that lead to a later run: the deferred set, a folded follow-up, the
\* datasets this tick still has to trigger, a follow-up on its way from a
\* finished worker, and the catch-up of a service that is starting.
Waiting ==
  deferredSyncs \cup tick.due
  \cup {d \in Datasets : pendingSyncs[d] # NoRequest}
  \cup {worker[w].ds : w \in {v \in Workers : worker[v].pc = "carrying"}}
  \cup IF service = "starting"
         THEN {d \in Datasets : row[d] = "enabled" /\ d \notin Manual} ELSE {}

\* A slot is held for d by a worker whose rclone has not started yet.
Preparing(d) ==
  \E w \in Workers : HoldsSlot(w) /\ worker[w].ds = d /\ Awaiting(worker[w])

Phase(d) ==
  IF d \notin activeSyncs THEN "none"
  ELSE IF Preparing(d) THEN "preparing"
  ELSE IF Transferring(d) THEN "transferring"
  ELSE "over"

\* Datasets that are added, paused, deleted or cancelled while idle may lose a
\* deferral to a tick that listed the rows before.
Losable == Joinable \cup Volatile \cup IdleCancellable

Promise ==
  INSTANCE SyncPromise WITH
    Ceiling <- MaxConcurrentSyncs,
    Automatic <- Datasets \ Manual,
    Unkept <- Losable,
    waiting <- Waiting,
    phase <- [d \in Datasets |-> Phase(d)],
    cancelled <- cancelRequested

\* The queue keeps its promise: through folding, deferring, ticks, carried
\* follow-ups, cancels and restarts, a waiting dataset stops waiting only when
\* a run takes it or the user cancels it; no dataset has two runs; none goes on
\* after a cancel; and never do more run than the ceiling allows.
PromiseKept == Promise!Spec

=============================================================================
