---------------------------- MODULE SyncPromise ----------------------------
(***************************************************************************)
(* What r2sync's sync queue promises its callers, without the threads,     *)
(* follow-ups, deferrals and ticks it is made of: every dataset either has *)
(* one run, in some phase, or none; a request waits until a run takes it   *)
(* or the user withdraws it; no more than Ceiling datasets run at once.    *)
(* SyncRefinement shows that SyncService keeps this promise.               *)
(***************************************************************************)
EXTENDS Naturals, FiniteSets

CONSTANTS
  Datasets,   \* dataset ids
  Ceiling,    \* how many datasets may have a run at once
  Automatic,  \* datasets a restarted service syncs by itself
  Unkept      \* datasets whose waiting requests the code may lose

VARIABLES
  waiting,    \* datasets for which somebody's request still waits for a run
  phase,      \* the run of each dataset
  cancelled   \* datasets the user cancelled and whose run has not ended since

vars == <<waiting, phase, cancelled>>

\* A run is "preparing" until rclone has started for it, "transferring" until
\* rclone is gone, and "over" until its slot is given back.
Phases == {"none", "preparing", "transferring", "over"}

Running == {d \in Datasets : phase[d] # "none"}

\* The run of d, and no other, goes from one phase to another.
Enter(d, from, to) == phase[d] = from /\ phase' = [phase EXCEPT ![d] = to]

\* The service has just started: all it knows is what restore_sync_state will
\* find.
Fresh(w) == w \subseteq Automatic /\ Automatic \ w \subseteq Unkept

Init ==
  /\ Fresh(waiting)
  /\ phase = [d \in Datasets |-> "none"]
  /\ cancelled = {}

-----------------------------------------------------------------------------

\* Requests arrive and wait.  None that was there is lost, but for Unkept.
Ask ==
  /\ UNCHANGED <<cancelled, phase>>
  /\ waiting' \subseteq Datasets
  /\ waiting \ waiting' \subseteq Unkept

\* A run starts, for a waiting request or one that comes just now, if there is
\* room and the dataset has no run.
Take(d) ==
  /\ Enter(d, "none", "preparing")
  /\ Cardinality(Running) < Ceiling
  /\ waiting' \in {waiting, waiting \ {d}, waiting \cup {d}}
  /\ UNCHANGED cancelled

\* rclone starts: whatever the run was taken for is being served.
Serve(d) == Enter(d, "preparing", "transferring") /\ UNCHANGED <<waiting, cancelled>>

\* The run cannot go on now: its request waits again.
PutBack(d) ==
  /\ Enter(d, "preparing", "over")
  /\ waiting' = waiting \cup {d}
  /\ UNCHANGED cancelled

\* The run ends with an error the user is shown, or because its dataset is gone.
GiveUp(d) == Enter(d, "preparing", "over") /\ UNCHANGED <<waiting, cancelled>>

\* rclone exits, is stopped or is abandoned.
Return(d) == Enter(d, "transferring", "over") /\ UNCHANGED <<waiting, cancelled>>

\* Another attempt, unless the user cancelled.
Retry(d) ==
  /\ d \notin cancelled
  /\ Enter(d, "over", "preparing")
  /\ UNCHANGED <<waiting, cancelled>>

\* The slot is given back.  A cancelled run takes what waited behind it along;
\* any other leaves it waiting.
End(d) ==
  /\ Enter(d, "over", "none")
  /\ \/ UNCHANGED waiting
     \/ d \in cancelled /\ waiting' = waiting \ {d}
  /\ cancelled' = cancelled \ {d}

\* The user cancels the run, and with it what waits behind it.
Cancel(d) ==
  /\ cancelled' = cancelled \cup {d}
  /\ phase[d] # "none" \/ d \in Unkept
  /\ waiting' \in {waiting, waiting \ {d}}
  /\ UNCHANGED phase

\* The service dies and starts again.
Restart ==
  /\ cancelled' = {}
  /\ phase' = [d \in Datasets |-> "none"]
  /\ Fresh(waiting')

Next ==
  \/ Ask
  \/ \E d \in Datasets :
       \/ Take(d) \/ Serve(d) \/ PutBack(d) \/ GiveUp(d) \/ Return(d) \/ Retry(d)
       \/ End(d) \/ Cancel(d)
  \/ Restart

Spec == Init /\ [][Next]_vars

=============================================================================
