--------------------------- MODULE DeletionGuard ---------------------------
(* "Pause if more than N files are deleted", for one dataset on one computer.  The user's N *)
(* becomes a percentage of the files r2sync last counted in the folder; bisync applies it   *)
(* to the files it remembers from its last run.  The two numbers are taken by different     *)
(* walks of a folder that is in use: the count follows the run it belongs to, and is        *)
(* applied in a later one.                                                                   *)
EXTENDS Naturals, FiniteSets

CONSTANTS
  Files,      \* files of the dataset
  Threshold,  \* max_delete_threshold of its row
  LandsAbove, \* totals for which the floating-point percentage of a whole number lands above it
  MaxEdits    \* bound: files added or deleted in the folder or by other computers

ASSUME DeletionGuardAssumption ==
  /\ IsFiniteSet(Files) /\ Threshold \in Nat /\ MaxEdits \in Nat

\* A threshold of zero counts as none given.
MaxFiles == IF Threshold = 0 THEN 50 ELSE Threshold

\* 7 of 100 is 7.000000000000001 percent, 11 of 20 is 55.00000000000001.  Only a percentage
\* that is whole can land on the other side of a whole number: any other is 1 / total away
\* from it, far beyond the precision of a double.
ASSUME LandsAboveAssumption ==
  \A known \in LandsAbove : known \in Nat \ {0} /\ (MaxFiles * 100) % known = 0

VARIABLES
  local, remote,  \* the files in the folder and in the bucket
  tracked,        \* the files in bisync's listings
  row,            \* [total, synced]: total_files and initial_sync_done of the row
  seen,           \* the row as the run in progress read it
  pc,             \* the run: none, before bisync, before its repetition with --force, before the
                  \* count
  drift,          \* history: the count missed something, or the folder was edited before it
  late,           \* history: files added or deleted since the bisync that is repeated looked
  last,           \* history: the last incremental bisync
  edits           \* how many there were

folder == <<local, remote, tracked>>
vars == <<folder, row, seen, pc, drift, late, last, edits>>

Rows == [total : 0 .. Cardinality(Files), synced : BOOLEAN]
NoBisync == [before |-> {}, gone |-> {}, late |-> {}, result |-> "none", drift |-> FALSE]

TypeOK ==
  /\ local \subseteq Files /\ remote \subseteq Files /\ tracked \subseteq Files
  /\ row \in Rows /\ seen \in Rows /\ (row.synced \/ row.total = 0)
  /\ pc \in {"none", "bisync", "forced", "count"}
  /\ drift \in BOOLEAN /\ (drift => row.synced \/ pc = "count")
  /\ late \subseteq Files /\ (pc # "forced" => late = {})
  /\ last \in [before : SUBSET Files, gone : SUBSET SUBSET Files, late : SUBSET Files,
               result : {"none", "synced", "refused"}, drift : BOOLEAN]
  /\ edits \in 0 .. MaxEdits

-----------------------------------------------------------------------------
(* compute_max_delete_percent. *)

DefaultPercent == 20

Clamped(n) == IF n < 1 THEN 1 ELSE IF n > 100 THEN 100 ELSE n

\* (mutant) rounded down
PercentDown(known) ==
  Clamped(IF known = 0 THEN DefaultPercent ELSE (MaxFiles * 100) \div known)

\* math.ceil of a quotient of doubles, times 100; nothing counted counts as no baseline.
MaxDeletePercent(known) ==
  Clamped(IF known = 0 THEN DefaultPercent
          ELSE (MaxFiles * 100 + known - 1) \div known + (IF known \in LandsAbove THEN 1 ELSE 0))

-----------------------------------------------------------------------------
Edits(f) ==
  /\ edits < MaxEdits /\ edits' = edits + 1
  /\ late' = IF pc = "forced" THEN late \cup {f} ELSE late

\* Before its count, an edit of the folder is counted though bisync has not seen it.
EditFolder(f) ==
  /\ Edits(f)
  /\ local' = IF f \in local THEN local \ {f} ELSE local \cup {f}
  /\ drift' = (drift \/ pc = "count")
  /\ UNCHANGED <<remote, tracked, row, seen, pc, last>>

\* Another computer's sync.
EditRemote(f) ==
  /\ Edits(f)
  /\ remote' = IF f \in remote THEN remote \ {f} ELSE remote \cup {f}
  /\ UNCHANGED <<local, tracked, row, seen, pc, drift, last>>

StartSync ==
  /\ pc = "none"
  /\ pc' = "bisync" /\ seen' = row
  /\ UNCHANGED <<folder, row, drift, late, last, edits>>

\* What is missing on each side of what was there.
Deletions == {tracked \ local, tracked \ remote}

Excessive(gone) ==
  Cardinality(gone) * 100 > MaxDeletePercent(seen.total) * Cardinality(tracked)

Agree(files) == local' = files /\ remote' = files /\ tracked' = files

\* A re-baseline keeps every file of either side: the first sync, one that the user asked to
\* start afresh, or the second bisync of a run that found its listings stale.
Resync ==
  /\ pc = "bisync"
  /\ Agree(local \cup remote)
  /\ pc' = "count" /\ drift' = FALSE
  /\ UNCHANGED <<row, seen, late, last, edits>>

Incremental(result) ==
  last' = [before |-> tracked, gone |-> Deletions, late |-> late, result |-> result,
           drift |-> drift]

\* A side that is empty though it was not is for the user to decide on.
Emptied == tracked # {} /\ {} \in {local, remote}

\* A bisync that gets as far as looking at what changed, under the limit or with --force.
Looks == pc = "bisync" /\ seen.synced /\ ~Emptied
Forced == pc = "forced" /\ ~Emptied

WithinLimit == \A gone \in Deletions : ~Excessive(gone)

\* (mutant) a refusal for its deletions is repeated with --force as well
RepeatAnyChange ==
  /\ Looks
  /\ tracked # {}
  /\ pc' = "forced"
  /\ UNCHANGED <<folder, row, seen, drift, late, last, edits>>

\* Every file of a side changed: bisync aborts, and is repeated at once with --force.
RepeatAllChanged ==
  /\ Looks /\ WithinLimit
  /\ tracked # {}
  /\ pc' = "forced"
  /\ UNCHANGED <<folder, row, seen, drift, late, last, edits>>

\* Unless it is forced, bisync needs one file that did not change on either side.  rclone's
\* --force waives --max-delete as well: the limit holds as far as the first bisync looked.
Propagate ==
  /\ Forced \/ (Looks /\ WithinLimit /\ (tracked # {} => tracked \notin Deletions))
  /\ Agree((local \cup remote) \ UNION Deletions)
  /\ Incremental("synced")
  /\ pc' = "count" /\ drift' = FALSE /\ late' = {}
  /\ UNCHANGED <<row, seen, edits>>

RefuseMassDeletion ==
  /\ Looks /\ ~WithinLimit
  /\ Incremental("refused")
  /\ pc' = "none"
  /\ UNCHANGED <<folder, row, seen, drift, late, edits>>

\* No network, a lock, a cancel, an emptied side: bisync leaves things as they are.
Abort ==
  /\ pc \in {"bisync", "forced"}
  /\ pc' = "none" /\ late' = {}
  /\ UNCHANGED <<folder, row, seen, drift, last, edits>>

\* (mutant) the recovery directory in the folder is counted as well
ScansTrash ==
  {[n |-> n, complete |-> c] : n \in 0 .. Cardinality(Files) + 1, c \in BOOLEAN}

\* scan_local_tree: [n, complete].  A file that cannot be looked at is passed over; a
\* directory that cannot be read makes the count incomplete.
Scans ==
  {[n |-> n, complete |-> c] : n \in 0 .. Cardinality(local), c \in BOOLEAN}

\* An incomplete count is not stored: the one the run started with stays.
StoreCount ==
  /\ pc = "count"
  /\ \E scan \in Scans :
       LET n == IF scan.complete THEN scan.n ELSE seen.total IN
         /\ row' = [total |-> n, synced |-> TRUE]
         /\ drift' = (drift \/ n # Cardinality(local))
  /\ pc' = "none"
  /\ UNCHANGED <<folder, seen, late, last, edits>>

Init ==
  /\ local \in SUBSET Files /\ remote \in SUBSET Files /\ tracked = {}
  /\ row = [total |-> 0, synced |-> FALSE] /\ seen = row
  /\ pc = "none" /\ drift = FALSE /\ late = {} /\ last = NoBisync /\ edits = 0

Next ==
  \/ \E f \in Files : EditFolder(f) \/ EditRemote(f)
  \/ StartSync \/ Resync \/ RepeatAllChanged \/ Propagate \/ RefuseMassDeletion \/ Abort
  \/ StoreCount

Spec == Init /\ [][Next]_vars

-----------------------------------------------------------------------------
(* Properties.  They are about counts of the files bisync had just brought to agree; what a  *)
(* count that missed some, or took in a later edit, does to the guard is outside them.       *)

Within(gone, before) == Cardinality(gone) * 100 <= MaxFiles * 100 + Cardinality(before)

\* A sync lets no more deletions through on a side than the user's number and one percent of
\* the files (rclone_engine.py:219-241, sync_engine.py:675-702), whatever was re-baselined,
\* repeated with --force or refused before.  What was deleted between a bisync and its
\* repetition is outside it: --force waives --max-delete too, so that nothing limits it, though
\* rclone_engine.py:881-882 says "the deletion ceiling above still applies".
DeletionsWithinNumber ==
  last.result = "synced" /\ ~last.drift =>
    \A gone \in last.gone : Within(gone \ last.late, last.before)

\* Deleting no more files than the user's number never pauses the dataset, however small
\* it is (rclone_engine.py:231-234).
AllowedIsNotRefused ==
  last.result = "refused" /\ ~last.drift =>
    \E gone \in last.gone : Cardinality(gone) > MaxFiles

=============================================================================
