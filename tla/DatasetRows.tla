---------------------------- MODULE DatasetRows ----------------------------
(* The row of a synchronized folder through its life: adding the folder (again),      *)
(* joining, pausing, editing and removing it by IPC threads, the runs of the sync     *)
(* worker that record their result in it, the conflict copies a run leaves in the     *)
(* folder with the rows of sync_conflicts about them, and a kill of the service with  *)
(* restore_sync_state after it.  Every read and every write of the database is a step *)
(* of its own.  There is one folder and one bucket; how requests queue for a run is   *)
(* SyncEngine's matter and kept here as: at most one run per dataset, at most one     *)
(* follow-up behind it, and a set of deferred datasets.                               *)
EXTENDS Naturals, FiniteSets

CONSTANTS
  Ids,            \* dataset ids
  Added,          \* those that may have been added and synced before the service was started
  Clients,        \* IPC threads
  Copies,         \* files of the folder with "conflict" in their name
  SelfNamed,      \* those without " (conflict", which the scan takes for their own original
  Commands,       \* the commands in use
  PurgeOutcomes,  \* whether `rclone purge` removes the data
  MaxEvents,      \* bound: commands and kills of the service, together
  MaxConflicts,   \* bound: rows of sync_conflicts ever created
  MaxCrashes      \* bound: kills of the service alone

Resolutions == {"keep_local", "keep_remote", "keep_both"}
NoId == "no dataset"

ASSUME RowsAssumption ==
  /\ Ids # {} /\ NoId \notin Ids /\ Added \subseteq Ids
  /\ Copies # {} /\ SelfNamed \subseteq Copies
  /\ PurgeOutcomes \subseteq BOOLEAN
  /\ MaxEvents \in Nat /\ MaxConflicts \in Nat /\ MaxCrashes \in Nat
  /\ Commands \subseteq Resolutions \cup {"add", "add new", "join", "delete", "purge",
                                          "pause", "resume", "update", "sync now", "cancel"}

Original == "original"
Statuses == {"waiting", "syncing", "synced", "conflict", "error", "offline",
             "needs_attention", "paused"}
Rows == [there: BOOLEAN, status: Statuses, paused: BOOLEAN]
NoRow == [there |-> FALSE, status |-> "waiting", paused |-> FALSE]
NewRow == [NoRow EXCEPT !.there = TRUE]
ConflictIds == 1 .. MaxConflicts
ConflictRows == [ds: Ids, copy: Copies, state: {"none", "open", "resolved", "gone"}]
RunPCs == {"idle", "load", "check", "bisync", "device", "scan", "count", "record", "finish"}
Outcomes == {"success", "attention", "lock", "failed"}

VARIABLES
  row,        \* sync_datasets
  device,     \* datasets this computer has a row of sync_devices for
  note,       \* detached_datasets: the dataset noted for the folder
  remote,     \* datasets whose prefix in R2 holds data
  disk,       \* which of the copies and the original are in the folder
  conflict,   \* sync_conflicts
  run,        \* the sync worker of each dataset
  pending,    \* datasets with a follow-up waiting behind their run
  deferred,   \* SyncEngine._deferred_syncs
  cancelled,  \* SyncEngine._cancel_requested
  cmd,        \* the IPC threads
  restore,    \* restore_sync_state: the rows it listed and those it still has to see
  commands, crashes,  \* how many there were
  excused,    \* history: rows whose status is the doing of a stale editor, of a follow-up
              \* dropped by a cancel or a pause, or of a kill while they were paused, until
              \* the next result of a run that is not cancelled
  unwritten,  \* history: datasets whose run raised and could not store that either, until
              \* their status is written again
  outlived,   \* history: datasets removed while a run or an adding thread went on, until the
              \* next result for a row of theirs
  superseded  \* history: datasets the note need not name: the folder belonged to them together
              \* with another one, was purged, was added and removed by two threads at once,
              \* or a thread whose own row was gone meanwhile overwrote the note

vars == <<row, device, note, remote, disk, conflict, run, pending, deferred, cancelled,
          cmd, restore, commands, crashes, excused, unwritten, outlived, superseded>>
tables == <<row, device, note, conflict>>
queue == <<pending, deferred, cancelled>>
counts == <<commands, crashes>>
history == <<excused, unwritten, outlived, superseded>>

Open(d) == {k \in ConflictIds : conflict[k].state = "open" /\ conflict[k].ds = d}
OriginalOf(c) == IF c \in SelfNamed THEN c ELSE Original

IdleRun == [pc |-> "idle", before |-> "waiting", outcome |-> "failed", open |-> FALSE]
IdleCmd == [op |-> "none", pc |-> 0, id |-> CHOOSE d \in Ids : TRUE, status |-> "waiting",
            known |-> FALSE, k |-> 0]
NoRestore == [pc |-> "done", reset |-> {}, defer |-> {}, left |-> {}]

TypeOK ==
  /\ row \in [Ids -> Rows]
  /\ device \subseteq Ids /\ remote \subseteq Ids /\ note \in Ids \cup {NoId}
  /\ disk \subseteq Copies \cup {Original}
  /\ conflict \in [ConflictIds -> ConflictRows]
  /\ run \in [Ids -> [pc: RunPCs, before: Statuses, outcome: Outcomes, open: BOOLEAN]]
  /\ pending \subseteq {d \in Ids : run[d].pc # "idle"}
  /\ deferred \subseteq Ids /\ cancelled \subseteq Ids
  /\ cmd \in [Clients -> [op: Commands \cup {"none"}, pc: 0 .. 6, id: Ids,
                          status: Statuses, known: BOOLEAN, k: 0 .. MaxConflicts]]
  /\ restore \in [pc: {"list", "rows", "done"}, reset: SUBSET Ids, defer: SUBSET Ids,
                  left: SUBSET Ids]
  /\ commands \in 0 .. MaxEvents /\ crashes \in 0 .. MaxCrashes
  /\ excused \subseteq Ids /\ unwritten \subseteq Ids
  /\ outlived \subseteq Ids /\ superseded \subseteq Ids

-----------------------------------------------------------------------------
(* Writes of the database.  An UPDATE of a row that is gone changes nothing. *)

Updated(d, r) == IF row[d].there THEN [row EXCEPT ![d] = r] ELSE row

\* (mutant) the columns that are not given get their defaults
ReplaceStatus(d, s) == Updated(d, [NewRow EXCEPT !.status = s])

WithStatus(d, s) == Updated(d, [row[d] EXCEPT !.status = s])

\* trigger_sync_async, as far as it is kept here.
Trigger(d) ==
  IF run[d].pc = "idle"
  THEN run' = [run EXCEPT ![d] = [IdleRun EXCEPT !.pc = "load"]] /\ UNCHANGED pending
  ELSE pending' = pending \cup {d} /\ UNCHANGED run

-----------------------------------------------------------------------------
(* The sync worker. *)

Runs(d, pc) == run' = [run EXCEPT ![d] = [@ EXCEPT !.pc = pc]]
Stops(d) == run' = [run EXCEPT ![d] = [IdleRun EXCEPT !.pc = "finish"]]

\* What a run that meets another one's lock will write.
LockStatus(status) == IF status \in {"synced", "conflict"} THEN status ELSE "waiting"

\* The row is read once; the status it had is kept to the end of the run.
LoadRow(d) ==
  /\ run[d].pc = "load"
  /\ run' = [run EXCEPT ![d] = [@ EXCEPT !.before = LockStatus(row[d].status),
                                         !.pc = IF row[d].there THEN "check" ELSE "finish"]]
  /\ UNCHANGED <<tables, remote, disk, pending, deferred, cancelled, cmd, restore, counts,
                 history>>

\* The checks before a transfer: an error, no network, or the row says "syncing".
FailsChecks(d) == row' = WithStatus(d, "error") /\ Stops(d) /\ UNCHANGED deferred
IsOffline(d) == /\ row' = WithStatus(d, "offline")
                /\ deferred' = deferred \cup {d}
                /\ Stops(d)
GoesOn(d) == row' = WithStatus(d, "syncing") /\ Runs(d, "bisync") /\ UNCHANGED deferred

PassChecks(d) ==
  /\ run[d].pc = "check"
  /\ FailsChecks(d) \/ IsOffline(d) \/ GoesOn(d)
  /\ unwritten' = unwritten \ {d}
  /\ UNCHANGED <<device, note, conflict, remote, disk, pending, cancelled, cmd, restore,
                 counts, excused, outlived, superseded>>

\* The metadata is uploaded and bisync runs: it leaves any of the copies in the folder, except
\* that a run that met another one's lock did not touch it.
Bisync(d) ==
  /\ run[d].pc = "bisync"
  /\ remote' = remote \cup {d}
  /\ \E outcome \in Outcomes, copies \in SUBSET Copies :
       /\ outcome = "lock" => copies = disk \cap Copies
       /\ disk' = copies \cup (disk \cap {Original})
       /\ run' = [run EXCEPT ![d] = [@ EXCEPT !.pc = "device", !.outcome = outcome]]
  /\ UNCHANGED <<tables, pending, deferred, cancelled, cmd, restore, counts, history>>

\* upsert_sync_device needs no dataset row; register_remote_device may fail.
UpsertDevice(d) ==
  /\ run[d].pc = "device"
  /\ device' = device \cup {d}
  /\ remote' \in {remote, remote \cup {d}}
  /\ Runs(d, "scan")
  /\ UNCHANGED <<row, note, conflict, disk, pending, deferred, cancelled, cmd, restore,
                 counts, history>>

\* _scan_and_record_conflicts: one row for a copy unless an open one is about the copy or
\* its original.  Without the dataset's row the foreign key ends the scan.
Unrecorded(d) ==
  {c \in disk \cap Copies : \A k \in Open(d) :
     conflict[k].copy # c /\ OriginalOf(conflict[k].copy) # OriginalOf(c)}

RecordConflict(d) ==
  /\ run[d].pc = "scan" /\ row[d].there
  /\ \E c \in Unrecorded(d), k \in ConflictIds :
       /\ \A i \in ConflictIds : conflict[i].state = "none" <=> i >= k
       /\ conflict' = [conflict EXCEPT ![k] = [ds |-> d, copy |-> c, state |-> "open"]]
  /\ UNCHANGED <<row, device, note, remote, disk, run, pending, deferred, cancelled, cmd,
                 restore, counts, history>>

EndScan(d) ==
  /\ run[d].pc = "scan"
  /\ Unrecorded(d) = {} \/ ~row[d].there
  /\ Runs(d, "count")
  /\ UNCHANGED <<tables, remote, disk, pending, deferred, cancelled, cmd, restore, counts,
                 history>>

\* The number counts only after a success or a failure.
CountOpen(d) ==
  /\ run[d].pc = "count"
  /\ run' = [run EXCEPT ![d] = [@ EXCEPT !.pc = "record",
                                         !.open = /\ run[d].outcome \in {"success", "failed"}
                                                  /\ Open(d) # {}]]
  /\ UNCHANGED <<tables, remote, disk, pending, deferred, cancelled, cmd, restore, counts,
                 history>>

\* What the run's outcome makes of the status.
ResultStatus(d) ==
  LET r == run[d]
  IN CASE r.outcome = "success" -> IF r.open THEN "conflict" ELSE "synced"
       [] r.outcome = "attention" -> "needs_attention"
       [] r.outcome = "lock" -> r.before
       [] r.outcome = "failed" -> IF r.open THEN "conflict" ELSE "error"

\* update_sync_status writes the columns it is given; a lock conflict is deferred.
RecordResult(d) ==
  /\ run[d].pc = "record"
  /\ row' = WithStatus(d, ResultStatus(d))
  /\ IF run[d].outcome = "lock" THEN deferred' = deferred \cup {d} /\ UNCHANGED history
     ELSE /\ excused' = IF row[d].there /\ d \notin cancelled THEN excused \ {d} ELSE excused
          /\ outlived' = IF row[d].there THEN outlived \ {d} ELSE outlived
          /\ UNCHANGED <<deferred, unwritten, superseded>>
  /\ Stops(d)
  /\ UNCHANGED <<device, note, conflict, remote, disk, pending, cancelled, cmd, restore, counts>>

\* An exception anywhere in the worker, the reading of the row included.  When the database
\* is what failed, storing "error" may fail as well: that is logged and the status stays.
RunRaises(d) ==
  /\ run[d].pc \notin {"idle", "finish"}
  /\ \/ row' = WithStatus(d, "error") /\ unwritten' = unwritten \ {d}
     \/ UNCHANGED row /\ unwritten' = unwritten \cup {d}
  /\ Stops(d)
  /\ UNCHANGED <<device, note, conflict, remote, disk, pending, deferred, cancelled, cmd,
                 restore, counts, excused, outlived, superseded>>

\* (mutant) the follow-up stays behind when it is not started
FinishRunKeepsFollowUp(d) ==
  /\ run[d].pc = "finish"
  /\ pending' = pending \ ({d} \ cancelled)
  /\ cancelled' = cancelled \ {d}
  /\ run' = [run EXCEPT ![d] = IF d \in pending \ cancelled THEN [IdleRun EXCEPT !.pc = "load"]
                               ELSE IdleRun]
  /\ UNCHANGED <<tables, remote, disk, deferred, cmd, restore, counts, history>>

\* _finish_sync: a cancel drops the follow-up.
FinishRun(d) ==
  /\ run[d].pc = "finish"
  /\ pending' = pending \ {d}
  /\ cancelled' = cancelled \ {d}
  /\ run' = [run EXCEPT ![d] = IF d \in pending \ cancelled THEN [IdleRun EXCEPT !.pc = "load"]
                               ELSE IdleRun]
  /\ excused' = IF d \in pending \cap cancelled THEN excused \cup {d} ELSE excused
  /\ UNCHANGED <<tables, remote, disk, deferred, cmd, restore, counts, unwritten, outlived,
                 superseded>>

RunStep(d) ==
  \/ LoadRow(d) \/ PassChecks(d) \/ Bisync(d) \/ UpsertDevice(d) \/ RecordConflict(d)
  \/ EndScan(d) \/ CountOpen(d) \/ RecordResult(d) \/ RunRaises(d) \/ FinishRun(d)

\* A schedule or the watcher asks for a run, or the tick takes a deferral.
Due(d) ==
  /\ row[d].there /\ ~row[d].paused
  /\ Trigger(d)
  /\ UNCHANGED <<tables, remote, disk, deferred, cancelled, cmd, restore, counts, history>>

TakeDeferred(d) ==
  /\ d \in deferred
  /\ deferred' = deferred \ {d}
  /\ IF row[d].there /\ ~row[d].paused THEN Trigger(d) /\ UNCHANGED excused
     ELSE UNCHANGED <<run, pending>> /\ excused' = excused \cup {d}
  /\ UNCHANGED <<tables, remote, disk, cancelled, cmd, restore, counts, unwritten, outlived,
                 superseded>>

-----------------------------------------------------------------------------
(* Commands of the IPC threads.  A command begins with reading the row; the status that *)
(* update will write back stays in the thread. *)

Adding == {"add", "add new", "join"}
Moves == Adding \cup {"delete", "purge"}

Begins(c, op, d, known, k) ==
  /\ op \in Commands
  /\ cmd[c].op = "none" /\ commands + crashes < MaxEvents
  /\ cmd' = [cmd EXCEPT ![c] = [op |-> op, pc |-> 1, id |-> d,
                                status |-> IF op = "update" THEN row[d].status ELSE "waiting",
                                known |-> known, k |-> k]]
  /\ commands' = commands + 1
  /\ superseded' = IF op \in Moves /\ \E other \in Clients : cmd[other].op \in Moves
                                                          /\ cmd[other].id = d
                   THEN superseded \cup {d} ELSE superseded
  /\ UNCHANGED <<tables, remote, disk, run, queue, restore, crashes, excused, unwritten,
                 outlived>>

At(c, ops, pc) == cmd[c].op \in ops /\ cmd[c].pc = pc
Goes(c, pc) == cmd' = [cmd EXCEPT ![c] = [@ EXCEPT !.pc = pc]]
Ends(c) == cmd' = [cmd EXCEPT ![c] = IdleCmd]

\* A fresh uuid: an id nothing is left of.
Fresh(d) ==
  /\ ~row[d].there /\ d \notin remote \cup device /\ note # d /\ run[d].pc = "idle"
  /\ \A c \in Clients : cmd[c].op = "none" \/ cmd[c].id # d
  /\ \A k \in ConflictIds : conflict[k].ds # d \/ conflict[k].state = "none"

\* create_and_init_dataset looks the folder up, unless a second copy is asked for.
BeginAdd(c, op, d) ==
  /\ op \in {"add", "add new"}
  /\ IF op = "add" /\ note # NoId THEN d = note ELSE Fresh(d)
  /\ Begins(c, op, d, op = "add" /\ note # NoId, 0)

BeginJoin(c, d) == d \in remote /\ Begins(c, "join", d, FALSE, 0)

\* A second dataset of the folder: the note can name only one of them.
InsertRow(c) ==
  /\ At(c, Adding, 1)
  /\ LET d == cmd[c].id
         others == {e \in Ids \ {d} : row[e].there \/ note = e}
     IN IF row[d].there THEN Ends(c) /\ UNCHANGED <<row, superseded>>
        ELSE /\ row' = [row EXCEPT ![d] = NewRow]
             /\ superseded' = IF others = {} THEN superseded
                              ELSE superseded \cup others \cup {d}
             /\ Goes(c, 2)
  /\ UNCHANGED <<device, note, conflict, remote, disk, run, queue, restore, counts, excused,
                 unwritten, outlived>>

RegisterDevice(c) ==
  /\ At(c, Adding, 2)
  /\ device' = device \cup {cmd[c].id}
  /\ Goes(c, 3)
  /\ UNCHANGED <<row, note, conflict, remote, disk, run, queue, restore, counts, history>>

\* What a thread writes over when its own dataset was removed behind its back.
Overwrites(c) ==
  superseded' = IF row[cmd[c].id].there \/ note' = note THEN superseded
                ELSE superseded \cup (Ids \cap {note})

\* The note goes even if a removal that began meanwhile has just written it.
ForgetNote(c) ==
  /\ At(c, Adding, 3)
  /\ note' = IF cmd[c].known THEN NoId ELSE note
  /\ Overwrites(c)
  /\ Goes(c, 4)
  /\ UNCHANGED <<row, device, conflict, remote, disk, run, queue, restore, counts, excused,
                 unwritten, outlived>>

\* The last step of adding, joining, resuming and resolving, and all of sync_dataset_now.
TriggerSync(c) ==
  /\ \/ At(c, Adding, 4)
     \/ At(c, {"resume"}, 2)
     \/ At(c, {"sync now"}, 1)
     \/ At(c, Resolutions, 6)
  /\ Trigger(cmd[c].id)
  /\ Ends(c)
  /\ UNCHANGED <<tables, remote, disk, deferred, cancelled, restore, counts, history>>

\* delete_dataset: cancel, purge, note, row.
BeginOnRow(c, op, d) ==
  /\ op \in {"delete", "purge", "pause", "resume", "update", "sync now"}
  /\ row[d].there
  /\ Begins(c, op, d, FALSE, 0)

\* cancel_sync_dataset does not look whether there is a row.
BeginCancel(c, d) == Begins(c, "cancel", d, FALSE, 0)

\* A run whose process is stopped fails, raises or is over already.
CancelSync(c) ==
  /\ At(c, {"delete", "purge", "cancel"}, 1)
  /\ LET d == cmd[c].id IN
       /\ cancelled' = cancelled \cup {d}
       /\ excused' = IF d \in pending \cup deferred THEN excused \cup {d} ELSE excused
       /\ pending' = pending \ {d}
       /\ deferred' = deferred \ {d}
  /\ \/ cmd[c].op = "delete" /\ Goes(c, 3)
     \/ cmd[c].op = "purge" /\ Goes(c, 2)
     \/ cmd[c].op = "cancel" /\ Ends(c)
  /\ UNCHANGED <<tables, remote, disk, run, restore, counts, unwritten, outlived, superseded>>

\* Whether the purge worked is not looked at.
Purge(c) ==
  /\ At(c, {"purge"}, 2)
  /\ \E done \in PurgeOutcomes : remote' = IF done THEN remote \ {cmd[c].id} ELSE remote
  /\ superseded' = superseded \cup {cmd[c].id}
  /\ Goes(c, 3)
  /\ UNCHANGED <<tables, disk, run, queue, restore, counts, excused, unwritten, outlived>>

\* (mutant) the row goes first and the note is written after it
DeleteRowFirst(c) ==
  /\ At(c, {"delete", "purge"}, 3)
  /\ row' = [row EXCEPT ![cmd[c].id] = NoRow]
  /\ Goes(c, 4)
  /\ UNCHANGED <<device, note, conflict, remote, disk, run, queue, restore, counts, history>>

RememberDetached(c) ==
  /\ At(c, {"delete", "purge"}, 3)
  /\ note' = IF cmd[c].op = "purge" THEN NoId ELSE cmd[c].id
  /\ Overwrites(c)
  /\ Goes(c, 4)
  /\ UNCHANGED <<row, device, conflict, remote, disk, run, queue, restore, counts, excused,
                 unwritten, outlived>>

\* (mutant) only the row and what its foreign keys take with it
DeleteRowAlone(c) ==
  /\ At(c, {"delete", "purge"}, 4)
  /\ row' = [row EXCEPT ![cmd[c].id] = NoRow]
  /\ Ends(c)
  /\ UNCHANGED <<device, note, conflict, remote, disk, run, queue, restore, counts, history>>

\* A run, or an adding thread, that goes on after the row is gone.
Outlives(d) ==
  \/ run[d].pc \notin {"idle", "load"}
  \/ \E c \in Clients : At(c, Adding, 2) /\ cmd[c].id = d

DeleteRow(c) ==
  /\ At(c, {"delete", "purge"}, 4)
  /\ LET d == cmd[c].id IN
       /\ row' = [row EXCEPT ![d] = NoRow]
       /\ device' = device \ {d}
       /\ conflict' = [k \in ConflictIds |-> IF conflict[k].ds = d /\ conflict[k].state # "none"
                                             THEN [conflict[k] EXCEPT !.state = "gone"]
                                             ELSE conflict[k]]
       /\ outlived' = IF Outlives(d) THEN outlived \cup {d} ELSE outlived
  /\ Ends(c)
  /\ UNCHANGED <<note, remote, disk, run, queue, restore, counts, excused, unwritten,
                 superseded>>

\* pause and resume write the row they read, with the status and the pause changed.
PauseRow(c) ==
  /\ At(c, {"pause"}, 1)
  /\ row' = Updated(cmd[c].id, [NewRow EXCEPT !.paused = TRUE, !.status = "paused"])
  /\ Ends(c)
  /\ UNCHANGED <<device, note, conflict, remote, disk, run, queue, restore, counts, history>>

ResumeRow(c) ==
  /\ At(c, {"resume"}, 1)
  /\ row' = Updated(cmd[c].id, NewRow)
  /\ Goes(c, 2)
  /\ UNCHANGED <<device, note, conflict, remote, disk, run, queue, restore, counts, history>>

\* update_sync_dataset writes the row a client got some time before.
UpdateRow(c) ==
  /\ At(c, {"update"}, 1)
  /\ \E paused \in BOOLEAN :
       row' = Updated(cmd[c].id, [NewRow EXCEPT !.paused = paused, !.status = cmd[c].status])
  /\ excused' = IF cmd[c].status = row[cmd[c].id].status THEN excused
                ELSE excused \cup {cmd[c].id}
  /\ Ends(c)
  /\ UNCHANGED <<device, note, conflict, remote, disk, run, queue, restore, counts, unwritten,
                 outlived, superseded>>

-----------------------------------------------------------------------------
(* resolve_conflict.  That the conflict may be resolved already is not looked at. *)

BeginResolve(c, op, k) ==
  /\ op \in Resolutions
  /\ conflict[k].state \in {"open", "resolved"}
  /\ Begins(c, op, conflict[k].ds, FALSE, k)

ReadDataset(c) ==
  /\ At(c, Resolutions, 1)
  /\ cmd' = [cmd EXCEPT ![c] = [@ EXCEPT !.pc = 2, !.known = row[cmd[c].id].there
                                              /\ row[cmd[c].id].status = "conflict"]]
  /\ UNCHANGED <<tables, remote, disk, run, queue, restore, counts, history>>

\* keep_local removes the copy, keep_remote moves it over the original; an error of either
\* ends the command.
ResolveFile(c) ==
  /\ At(c, Resolutions, 2)
  /\ LET copy == conflict[cmd[c].k].copy
         kept == IF copy \notin disk THEN disk
                 ELSE CASE cmd[c].op = "keep_both" -> disk
                        [] cmd[c].op = "keep_local" -> disk \ {copy}
                        [] cmd[c].op = "keep_remote" -> (disk \ {copy}) \cup {OriginalOf(copy)}
     IN \/ disk' = kept /\ Goes(c, 3)
        \/ copy \in disk /\ cmd[c].op # "keep_both" /\ Ends(c) /\ UNCHANGED disk
  /\ UNCHANGED <<tables, remote, run, queue, restore, counts, history>>

MarkResolved(c) ==
  /\ At(c, Resolutions, 3)
  /\ conflict' = [conflict EXCEPT ![cmd[c].k].state = IF @ = "gone" THEN @ ELSE "resolved"]
  /\ Goes(c, 4)
  /\ UNCHANGED <<row, device, note, remote, disk, run, queue, restore, counts, history>>

\* The status is renewed only if none remains and the row read at the beginning said
\* "conflict".
CountRemaining(c) ==
  /\ At(c, Resolutions, 4)
  /\ Goes(c, IF Open(cmd[c].id) = {} /\ cmd[c].known THEN 5 ELSE 6)
  /\ UNCHANGED <<tables, remote, disk, run, queue, restore, counts, history>>

\* (mutant) the resolution is recorded and no run follows
RenewStatusOnly(c) ==
  /\ At(c, Resolutions, 5)
  /\ row' = WithStatus(cmd[c].id, "synced")
  /\ Ends(c)
  /\ UNCHANGED <<device, note, conflict, remote, disk, run, queue, restore, counts, history>>

RenewStatus(c) ==
  /\ At(c, Resolutions, 5)
  /\ row' = WithStatus(cmd[c].id, "synced")
  /\ Goes(c, 6)
  /\ UNCHANGED <<device, note, conflict, remote, disk, run, queue, restore, counts, history>>

BeginCommand(c) ==
  \/ \E d \in Ids, op \in Commands : BeginAdd(c, op, d) \/ BeginOnRow(c, op, d)
  \/ \E d \in Ids : BeginJoin(c, d) \/ BeginCancel(c, d)
  \/ \E k \in ConflictIds, op \in Commands : BeginResolve(c, op, k)

CommandStep(c) ==
  \/ InsertRow(c) \/ RegisterDevice(c) \/ ForgetNote(c) \/ TriggerSync(c)
  \/ CancelSync(c) \/ Purge(c) \/ RememberDetached(c) \/ DeleteRow(c)
  \/ PauseRow(c) \/ ResumeRow(c) \/ UpdateRow(c)
  \/ ReadDataset(c) \/ ResolveFile(c) \/ MarkResolved(c) \/ CountRemaining(c)
  \/ RenewStatus(c)

-----------------------------------------------------------------------------
(* The service is killed and restore_sync_state brings it back.  *)

Crash ==
  /\ crashes < MaxCrashes /\ commands + crashes < MaxEvents
  /\ crashes' = crashes + 1
  /\ run' = [d \in Ids |-> IdleRun]
  /\ pending' = {} /\ deferred' = {} /\ cancelled' = {}
  /\ cmd' = [c \in Clients |-> IdleCmd]
  /\ restore' = [NoRestore EXCEPT !.pc = "list"]
  /\ UNCHANGED <<tables, remote, disk, commands, history>>

\* A paused dataset gets no run: what its status missed before the kill it goes on missing.
RestoreLists ==
  /\ restore.pc = "list"
  /\ LET there == {d \in Ids : row[d].there}
         missing == {d \in there : row[d].paused /\ row[d].status \in {"synced", "conflict"}}
     IN /\ restore' = IF there = {} THEN NoRestore
                      ELSE [pc |-> "rows", reset |-> {d \in there : row[d].status = "syncing"},
                            defer |-> {d \in there : ~row[d].paused}, left |-> there]
        /\ excused' = excused \cup missing
  /\ UNCHANGED <<tables, remote, disk, run, queue, cmd, counts, unwritten, outlived,
                 superseded>>

\* (mutant) what was interrupted is deferred and keeps its status
RestoreRowDefers(d) ==
  /\ d \in restore.left
  /\ deferred' = deferred \cup (restore.defer \cap {d})
  /\ restore' = IF restore.left = {d} THEN NoRestore
                ELSE [restore EXCEPT !.left = @ \ {d}]
  /\ UNCHANGED <<row, device, note, conflict, remote, disk, run, pending, cancelled, cmd, counts,
                 history>>

\* The scheduler and the IPC threads work already: what was listed may be old.
RestoreRow(d) ==
  /\ d \in restore.left
  /\ row' = IF d \in restore.reset THEN WithStatus(d, "waiting") ELSE row
  /\ unwritten' = unwritten \ (restore.reset \cap {d})
  /\ deferred' = deferred \cup (restore.defer \cap {d})
  /\ restore' = IF restore.left = {d} THEN NoRestore
                ELSE [restore EXCEPT !.left = @ \ {d}]
  /\ UNCHANGED <<device, note, conflict, remote, disk, run, pending, cancelled, cmd, counts,
                 excused, outlived, superseded>>

Init ==
  /\ \E added \in SUBSET Added :
       /\ row = [d \in Ids |-> IF d \in added THEN [NewRow EXCEPT !.status = "synced"] ELSE NoRow]
       /\ device = added /\ remote = added
       /\ superseded = {d \in added : added # {d}}
  /\ note = NoId
  /\ disk = {Original}
  /\ conflict = [k \in ConflictIds |-> [ds |-> CHOOSE d \in Ids : TRUE,
                                        copy |-> CHOOSE c \in Copies : TRUE, state |-> "none"]]
  /\ run = [d \in Ids |-> IdleRun]
  /\ pending = {} /\ deferred = {} /\ cancelled = {}
  /\ cmd = [c \in Clients |-> IdleCmd]
  /\ restore = NoRestore
  /\ commands = 0 /\ crashes = 0
  /\ excused = {} /\ unwritten = {} /\ outlived = {}

Next ==
  \/ \E d \in Ids : RunStep(d) \/ Due(d) \/ TakeDeferred(d) \/ RestoreRow(d)
  \/ \E c \in Clients : BeginCommand(c) \/ CommandStep(c)
  \/ Crash \/ RestoreLists

Spec == Init /\ [][Next]_vars

-----------------------------------------------------------------------------
(* Properties. *)

\* Nothing is under way for d: no run, follow-up or deferral, no command, no restore.
Quiet(d) ==
  /\ run[d].pc = "idle" /\ d \notin pending \cup deferred
  /\ \A c \in Clients : cmd[c].op = "none" \/ cmd[c].id # d
  /\ restore.pc = "done"

\* Workers write the status from counts that resolutions make old, and resolutions write it
\* from rows that workers make old; but when everything has come to rest, a dataset says
\* "conflict" only while conflicts are open, and "synced" only while none is
\* (sync_engine.py:672-674, 938-944: the run that follows a resolution repairs it).
\* Excused is, until the next result of a run that is not cancelled (what a cancelled run
\* counted may be older than the resolution), a row written by a stale editor, one whose
\* follow-up a cancel or a pause dropped, and a paused one whose run a kill took before it
\* wrote; a run that could store neither its result nor its failure leaves what was there
\* (unwritten).
StatusSettles ==
  \A d \in Ids \ (excused \cup unwritten) : Quiet(d) /\ row[d].there =>
    /\ row[d].status = "conflict" => Open(d) # {}
    /\ row[d].status = "synced" => Open(d) = {}

\* No dataset shows "syncing" for ever: either a run is on its way to a result,
\* or the restore after a kill is still to reset it (daemon.py:133-139).  Two ways to show it
\* without a run are left by the code, until the status is written next: a stale editor that
\* writes it back, and a run that raises while "error" cannot be stored, which is only logged
\* (sync_engine.py:495-499).
SyncingHasRun ==
  \A d \in Ids \ (excused \cup unwritten) : row[d].there /\ row[d].status = "syncing" =>
    \/ run[d].pc \in {"check", "bisync", "device", "scan", "count", "record"}
    \/ restore.pc = "list" \/ d \in restore.left

\* A pause stays: only resuming or editing the dataset ends it, never the result of a run
\* that read the row before (db.py:819-858 writes single columns).
PauseStays ==
  [][\A d \in Ids : row[d].paused /\ row'[d].there /\ ~row'[d].paused =>
       \E c \in Clients : /\ At(c, {"resume", "update"}, 1)
                          /\ cmd[c].id = d /\ cmd'[c] # cmd[c]]_vars

\* The data left of a removed dataset can be found again from its folder, whenever the service
\* was killed during the removal or the adding: "Remember where the data is, so re-adding
\* this folder goes back to it" (sync_engine.py:1042).  Superseded is a purged dataset,
\* one the folder had together with another (the note has room for one), one that is added
\* and removed at the same time (the adding thread forgets the note the removal wrote), and
\* one whose note is overwritten by the slower of two removals of the dataset before it.
DetachedIsRemembered ==
  \A d \in remote \ superseded : ~row[d].there => note = d

\* What is left of a removed dataset in the device table was written by a run that outlived
\* the removal (db.py:809-816, sync_engine.py:660).
OrphansOutlived == \A d \in device : row[d].there \/ d \in outlived

\* "Keep local original, remove the conflict file" (sync_engine.py:920).
KeepLocalKeepsOriginal ==
  [][\A c \in Clients : ResolveFile(c) /\ cmd[c].op = "keep_local" =>
       LET original == OriginalOf(conflict[cmd[c].k].copy)
       IN original \in disk => original \in disk']_vars

=============================================================================
