----------------------------- MODULE BackupJobs -----------------------------
(* Backup jobs: the rows of backup_jobs and backup_runs, the scheduler's job half     *)
(* (scheduler.py), the worker threads of BackupEngine (backup_engine.py), the rclone  *)
(* processes RcloneEngine starts for them, and the commands of the desktop and of IPC *)
(* clients.  Times are kept as what the code compares them for: next_run_at is unset, *)
(* seconds away, further away or past; last_run_at is unset, less than the job's      *)
(* interval ago, or longer ago.                                                       *)
EXTENDS Naturals, FiniteSets

CONSTANTS
  Jobs,         \* rows the table may come to hold
  Workers,      \* backup-worker threads
  MaxRetries,   \* trigger_job_async's max_retries
  Schedules,    \* the schedule types in use: "manual", "interval", "daily"
  Budget        \* bound on runs, dialogs opened and kills of the service: see Spent

ASSUME BackupAssumption ==
  /\ MaxRetries \in Nat /\ Budget \in Nat
  /\ Jobs # {} /\ Schedules # {} /\ Schedules \subseteq {"manual", "interval", "daily"}
  /\ IsFiniteSet(Workers)

RunIds == 1 .. Budget \div 2
NoRun == 0
NoWorker == "no worker"
Final == {"completed", "failed", "canceled"}

JobRow == [row: {"new", "there", "deleted"}, enabled: BOOLEAN, kind: Schedules,
           next: {"none", "soon", "later", "due"}, ran: {"never", "fresh", "elapsed"}]
WorkerPC == {"idle", "create", "register", "attempt", "track", "reading",
             "row", "job", "release"}
WorkerState == [pc: WorkerPC, job: Jobs, run: RunIds \cup {NoRun},
                attempt: 0 .. MaxRetries + 1, status: Final \cup {"pending"}]

VARIABLES
  job,      \* backup_jobs
  run,      \* backup_runs: whose run it is and its status; "absent" before and after
  nextRun,  \* AUTOINCREMENT of backup_runs
  running,  \* BackupEngine._running_jobs
  active,   \* RcloneEngine._active_processes: the worker whose process it is
  proc,     \* each worker's rclone process of this attempt
  stray,    \* jobs an rclone process was left behind for, read by nobody
  worker,   \* the worker threads
  tick,     \* the scheduler's pass over the jobs: the rows it listed, those still to do
  dialog,   \* the row an edit dialog of the desktop was opened on (Unlisted: closed)
  events    \* dialogs opened and kills of the service

vars == <<job, run, nextRun, running, active, proc, stray, worker, tick, dialog,
          events>>
workVars == <<nextRun, running, active, proc, stray, worker>>

TypeOK ==
  /\ job \in [Jobs -> JobRow]
  /\ run \in [RunIds -> [job: Jobs, status: Final \cup {"pending", "absent"}]]
  /\ nextRun \in 1 .. Budget \div 2 + 1
  /\ running \in [Jobs -> RunIds \cup {NoRun}]
  /\ active \in [Jobs -> Workers \cup {NoWorker}]
  /\ proc \in [Workers -> Final \cup {"none", "alive"}]
  /\ stray \subseteq Jobs
  /\ worker \in [Workers -> WorkerState]
  /\ tick.rows \in [Jobs -> JobRow] /\ tick.left \subseteq Jobs
  /\ dialog \in [Jobs -> JobRow]
  /\ events \in 0 .. Budget

-----------------------------------------------------------------------------
(* The scheduler. *)

Unlisted == [row |-> "new", enabled |-> FALSE, kind |-> CHOOSE k \in Schedules : TRUE,
             next |-> "none", ran |-> "never"]
NoTick == [rows |-> [j \in Jobs |-> Unlisted], left |-> {}]
HandledIn(t, j) == [rows |-> [t.rows EXCEPT ![j] = Unlisted], left |-> t.left \ {j}]

\* calculate_next_run: an interval that is already over means five seconds from now.
CalculateNextRun(r) ==
  IF ~r.enabled \/ r.kind = "manual" THEN "none"
  ELSE IF r.kind = "interval" /\ r.ran = "elapsed" THEN "soon" ELSE "later"

\* update_job_status(next_run_at = n): None means "leave it", so a plan is never erased.
Planned(rows, j, n) ==
  IF n = "none" \/ rows[j].row # "there" THEN rows ELSE [rows EXCEPT ![j].next = n]

\* update_all_next_runs: when the scheduler starts and after an IPC create or update.
Replanned(rows) ==
  [j \in Jobs |-> LET n == CalculateNextRun(rows[j]) IN
     IF rows[j].row = "there" /\ n # "none" THEN [rows[j] EXCEPT !.next = n] ELSE rows[j]]

\* What is used of the Budget: a run, also one about to be created, counts twice.
Spent ==
  2 * (nextRun - 1 + Cardinality({v \in Workers : worker[v].pc = "create"})) + events

\* trigger_job_async: refused while the job is registered as running; otherwise a thread
\* starts, which registers the job only later.
CanLaunch(j, w) ==
  /\ running[j] = NoRun
  /\ worker[w].pc = "idle"
  /\ Spent + 2 <= Budget

Launch(j) ==
  LET free == {w \in Workers : CanLaunch(j, w)} IN
  worker' = IF free = {} THEN worker
            ELSE [worker EXCEPT ![CHOOSE w \in free : TRUE] =
                    [pc |-> "create", job |-> j, run |-> NoRun, attempt |-> 0,
                     status |-> "pending"]]

\* The tick lists the jobs (with `now` already taken) ...
ListJobs ==
  /\ tick.left = {}
  /\ LET listed == {j \in Jobs : job[j].row = "there" /\ job[j].enabled} IN
       tick' = [rows |-> [j \in Jobs |-> IF j \in listed THEN job[j] ELSE Unlisted],
                left |-> listed]
  /\ UNCHANGED <<job, run, workVars, dialog, events>>

\* ... and goes through them: a due one gets its next time and is triggered.
TriggerDue(j) ==
  /\ j \in tick.left
  /\ tick.rows[j].next = "due"
  /\ job' = Planned(job, j, CalculateNextRun(tick.rows[j]))
  /\ Launch(j)
  /\ tick' = HandledIn(tick, j)
  /\ UNCHANGED <<run, nextRun, running, active, proc, stray, dialog, events>>

\* (mutant) a job without a time waits for somebody to plan it
OnlySkip(j) ==
  /\ j \in tick.left
  /\ tick.rows[j].next # "due"
  /\ tick' = HandledIn(tick, j)
  /\ UNCHANGED <<job, run, workVars, dialog, events>>

\* One without a time only gets it (calculate_next_run is never in the past).
PlanOrSkip(j) ==
  /\ j \in tick.left
  /\ tick.rows[j].next # "due"
  /\ job' = IF tick.rows[j].next = "none"
            THEN Planned(job, j, CalculateNextRun(tick.rows[j])) ELSE job
  /\ tick' = HandledIn(tick, j)
  /\ UNCHANGED <<run, workVars, dialog, events>>

-----------------------------------------------------------------------------
(* The worker: _run_job_with_retries around run_backup. *)

Goes(w, pc) == worker' = [worker EXCEPT ![w] = [@ EXCEPT !.pc = pc]]
Settles(w, pc, status) ==
  worker' = [worker EXCEPT ![w] = [@ EXCEPT !.pc = pc, !.status = status]]
\* (mutants) the last turn is followed by another; a canceled run is tried again
ReturnsOnceMore(w, status) ==
  Settles(w, IF status = "failed" /\ worker[w].attempt <= MaxRetries + 1 THEN "attempt"
             ELSE "row", status)
ReturnsUnlessCompleted(w, status) ==
  Settles(w, IF status # "completed" /\ worker[w].attempt <= MaxRetries THEN "attempt"
             ELSE "row", status)

\* run_backup returned: completed and canceled leave the loop, and so does a failure of
\* the last turn.
Returns(w, status) ==
  Settles(w, IF status = "failed" /\ worker[w].attempt <= MaxRetries THEN "attempt"
             ELSE "row", status)
Ends(w) ==
  worker' = [worker EXCEPT ![w] = [@ EXCEPT !.pc = "idle", !.run = NoRun, !.attempt = 0,
                                            !.status = "pending"]]
Untracked(w) == [active EXCEPT ![worker[w].job] = NoWorker]

\* (mutant) the job's row of the last run is used again
CreateRunInPlace(w) ==
  /\ worker[w].pc = "create"
  /\ run' = [run EXCEPT ![nextRun] = [job |-> worker[w].job, status |-> "pending"]]
  /\ worker' = [worker EXCEPT ![w] = [@ EXCEPT !.pc = "register", !.run = nextRun]]
  /\ UNCHANGED <<job, nextRun, running, active, proc, stray, tick, dialog, events>>

\* A new row of backup_runs.
Inserted(j) == [run EXCEPT ![nextRun] = [job |-> j, status |-> "pending"]]

\* create_run: the foreign key refuses a run of a deleted job and the thread dies of it.
CreateRun(w) ==
  /\ worker[w].pc = "create"
  /\ IF job[worker[w].job].row = "there"
     THEN /\ run' = Inserted(worker[w].job)
          /\ nextRun' = nextRun + 1
          /\ worker' = [worker EXCEPT ![w] = [@ EXCEPT !.pc = "register", !.run = nextRun]]
     ELSE /\ Ends(w) /\ UNCHANGED <<run, nextRun>>
  /\ UNCHANGED <<job, running, active, proc, stray, tick, dialog, events>>

RegisterRun(w) ==
  /\ worker[w].pc = "register"
  /\ running' = [running EXCEPT ![worker[w].job] = worker[w].run]
  /\ Goes(w, "attempt")
  /\ UNCHANGED <<job, run, nextRun, active, proc, stray, tick, dialog, events>>

\* One turn of the retry loop: Popen, or a pre-check that ends the loop, or being offline,
\* which ends it only in the last turn.
Launches(w, n) ==
  /\ proc' = [proc EXCEPT ![w] = "alive"]
  /\ worker' = [worker EXCEPT ![w] = [@ EXCEPT !.pc = "track", !.attempt = n]]
  /\ UNCHANGED active

\* When Popen raises, the finally of run_backup still drops the job's process.
PopenFails(w, n) ==
  /\ worker' = [worker EXCEPT ![w] = [@ EXCEPT !.attempt = n, !.status = "failed",
                                        !.pc = IF n <= MaxRetries THEN "attempt" ELSE "row"]]
  /\ active' = Untracked(w)
  /\ UNCHANGED proc

Offline(w, n) ==
  /\ n <= MaxRetries
  /\ worker' = [worker EXCEPT ![w] = [@ EXCEPT !.attempt = n]]
  /\ UNCHANGED <<active, proc>>

PrecheckFails(w, n) ==
  /\ worker' = [worker EXCEPT ![w] = [@ EXCEPT !.pc = "row", !.attempt = n,
                                                !.status = "failed"]]
  /\ UNCHANGED <<active, proc>>

Attempt(w) ==
  /\ worker[w].pc = "attempt"
  /\ LET n == worker[w].attempt + 1 IN
       Launches(w, n) \/ PopenFails(w, n) \/ Offline(w, n) \/ PrecheckFails(w, n)
  /\ UNCHANGED <<job, run, nextRun, running, stray, tick, dialog, events>>

TrackProcess(w) ==
  /\ worker[w].pc = "track"
  /\ active' = [active EXCEPT ![worker[w].job] = w]
  /\ Goes(w, "reading")
  /\ UNCHANGED <<job, run, nextRun, running, proc, stray, tick, dialog, events>>

\* rclone ends by itself; exit code 1 counts as canceled, as -15 does.
ProcessExits(w) ==
  /\ proc[w] = "alive"
  /\ \E code \in Final : proc' = [proc EXCEPT ![w] = code]
  /\ UNCHANGED <<job, run, nextRun, running, active, stray, worker, tick, dialog, events>>

\* add_transfer: the foreign key of file_transfers needs the run's row.
TransferRefused(r) == run[r].status = "absent"

\* A line about a file is stored by add_transfer: when that is refused run_backup raises,
\* and the process it read from is left as it is.
StoreTransferFails(w) ==
  /\ worker[w].pc = "reading"
  /\ TransferRefused(worker[w].run)
  /\ stray' = IF proc[w] = "alive" THEN stray \cup {worker[w].job} ELSE stray
  /\ proc' = [proc EXCEPT ![w] = "none"]
  /\ active' = Untracked(w)
  /\ Returns(w, "failed")
  /\ UNCHANGED <<job, run, nextRun, running, tick, dialog, events>>

ReapProcess(w) ==
  /\ worker[w].pc = "reading"
  /\ proc[w] \in Final
  /\ proc' = [proc EXCEPT ![w] = "none"]
  /\ active' = Untracked(w)
  /\ Returns(w, proc[w])
  /\ UNCHANGED <<job, run, nextRun, running, stray, tick, dialog, events>>

WrittenRow(r, status) ==
  IF run[r].status = "absent" THEN run ELSE [run EXCEPT ![r].status = status]

RecordRun(w) ==
  /\ worker[w].pc = "row"
  /\ run' = WrittenRow(worker[w].run, worker[w].status)
  /\ Goes(w, "job")
  /\ UNCHANGED <<job, nextRun, running, active, proc, stray, tick, dialog, events>>

\* (mutant) the release is not in a finally: what raises leaves the job registered
RecordJobLeaks(w) ==
  /\ worker[w].pc = "job"
  /\ job' = IF job[worker[w].job].row = "there"
            THEN [job EXCEPT ![worker[w].job].ran = "fresh"] ELSE job
  /\ \/ Goes(w, "release") /\ UNCHANGED run
     \/ /\ run' = WrittenRow(worker[w].run, "failed")
        /\ Ends(w)
  /\ UNCHANGED <<nextRun, running, active, proc, stray, tick, dialog, events>>

\* update_job_status, the log and the toast; what raises there marks the run failed, stores
\* that, and the slot is released in any case.
RecordJob(w) ==
  /\ worker[w].pc = "job"
  /\ job' = IF job[worker[w].job].row = "there"
            THEN [job EXCEPT ![worker[w].job].ran = "fresh"] ELSE job
  /\ \/ Goes(w, "release") /\ UNCHANGED run
     \/ /\ run' = WrittenRow(worker[w].run, "failed")
        /\ Settles(w, "release", "failed")
  /\ UNCHANGED <<nextRun, running, active, proc, stray, tick, dialog, events>>

ReleaseSlot(w) ==
  /\ worker[w].pc = "release"
  /\ running' = [running EXCEPT ![worker[w].job] = NoRun]
  /\ Ends(w)
  /\ UNCHANGED <<job, run, nextRun, active, proc, stray, tick, dialog, events>>

-----------------------------------------------------------------------------
(* Commands, time and failures. *)

\* create_job by the desktop or, with the plans renewed, over IPC.
CreateJob(j) ==
  /\ job[j].row = "new"
  /\ \E kind \in Schedules, ipc \in BOOLEAN :
       LET rows == [job EXCEPT ![j] = [row |-> "there", enabled |-> TRUE, kind |-> kind,
                                       next |-> "none", ran |-> "never"]]
       IN job' = IF ipc THEN Replanned(rows) ELSE rows
  /\ UNCHANGED <<run, workVars, tick, dialog, events>>

\* delete_job: the rows of its runs and transfers go with it.
DeleteJob(j) ==
  /\ job[j].row = "there"
  /\ job' = [job EXCEPT ![j] = [row |-> "deleted", enabled |-> FALSE, kind |-> @.kind,
                                next |-> "none", ran |-> "never"]]
  /\ run' = [r \in RunIds |-> IF run[r].job = j THEN [run[r] EXCEPT !.status = "absent"]
                              ELSE run[r]]
  /\ UNCHANGED <<workVars, tick, dialog, events>>

\* The edit dialog and the toggle read the row ...
OpenEdit(j) ==
  /\ job[j].row = "there" /\ dialog[j] = Unlisted /\ Spent < Budget
  /\ dialog' = [dialog EXCEPT ![j] = job[j]]
  /\ events' = events + 1
  /\ UNCHANGED <<job, run, workVars, tick>>

\* What the dialog makes of the row it was opened on.
Edited(r, kind, enabled) == [r EXCEPT !.kind = kind, !.enabled = enabled]

\* ... and update_job writes all of it back; over IPC the plans are renewed after it.
SaveEdit(j) ==
  /\ dialog[j] # Unlisted
  /\ \E kind \in Schedules, enabled, ipc \in BOOLEAN :
       LET rows == IF job[j].row # "there" THEN job ELSE
                     [job EXCEPT ![j] = Edited(dialog[j], kind, enabled)]
       IN job' = IF ipc THEN Replanned(rows) ELSE rows
  /\ dialog' = [dialog EXCEPT ![j] = Unlisted]
  /\ UNCHANGED <<run, workVars, tick, events>>

\* run_job_now, the desktop's and the terminal client's buttons.
RunNow(j) ==
  /\ job[j].row = "there"
  /\ Launch(j)
  /\ UNCHANGED <<job, run, nextRun, running, active, proc, stray, tick, dialog, events>>

\* cancel_run terminates the process registered for the job, if it still runs.
CancelJob(j) ==
  /\ proc' = IF active[j] # NoWorker /\ proc[active[j]] = "alive"
             THEN [proc EXCEPT ![active[j]] = "canceled"] ELSE proc
  /\ UNCHANGED <<job, run, nextRun, running, active, stray, worker, tick, dialog, events>>

\* Time: the seconds of a "soon" pass, or the interval (the day) passes for every copy
\* of the row alike.
Aged(r, all) ==
  [r EXCEPT !.next = IF @ = "soon" \/ (all /\ @ = "later") THEN "due" ELSE @,
            !.ran = IF all /\ @ = "fresh" THEN "elapsed" ELSE @]
TimePasses(j) ==
  \E all \in BOOLEAN :
    /\ job' = [job EXCEPT ![j] = Aged(@, all)]
    /\ dialog' = [dialog EXCEPT ![j] = Aged(@, all)]
    /\ UNCHANGED <<run, workVars, tick, events>>

\* The service is killed and started again: threads and registries are gone, the rows
\* stay as they are, and the scheduler begins by renewing the plans.
Restart ==
  /\ Spent < Budget
  /\ events' = events + 1
  /\ worker' = [w \in Workers |-> [worker[w] EXCEPT !.pc = "idle", !.run = NoRun,
                                     !.attempt = 0, !.status = "pending"]]
  /\ running' = [j \in Jobs |-> NoRun]
  /\ active' = [j \in Jobs |-> NoWorker]
  /\ proc' = [w \in Workers |-> "none"]
  /\ tick' = NoTick
  /\ job' = Replanned(job)
  /\ UNCHANGED <<run, nextRun, stray, dialog>>

-----------------------------------------------------------------------------
Init ==
  /\ job = [j \in Jobs |-> Unlisted]
  /\ run = [r \in RunIds |-> [job |-> CHOOSE j \in Jobs : TRUE, status |-> "absent"]]
  /\ nextRun = 1
  /\ running = [j \in Jobs |-> NoRun]
  /\ active = [j \in Jobs |-> NoWorker]
  /\ proc = [w \in Workers |-> "none"]
  /\ stray = {}
  /\ worker = [w \in Workers |-> [pc |-> "idle", job |-> CHOOSE j \in Jobs : TRUE,
                                  run |-> NoRun, attempt |-> 0, status |-> "pending"]]
  /\ tick = NoTick
  /\ dialog = [j \in Jobs |-> Unlisted]
  /\ events = 0

WorkerStep(w) ==
  \/ CreateRun(w) \/ RegisterRun(w) \/ Attempt(w) \/ TrackProcess(w)
  \/ ProcessExits(w) \/ StoreTransferFails(w) \/ ReapProcess(w)
  \/ RecordRun(w) \/ RecordJob(w) \/ ReleaseSlot(w)

SchedulerStep == ListJobs \/ \E j \in Jobs : TriggerDue(j) \/ PlanOrSkip(j)

Next ==
  \/ \E w \in Workers : WorkerStep(w)
  \/ SchedulerStep
  \/ \E j \in Jobs : \/ CreateJob(j) \/ DeleteJob(j) \/ OpenEdit(j) \/ SaveEdit(j)
                     \/ RunNow(j) \/ CancelJob(j) \/ TimePasses(j)
  \/ Restart

Spec == Init /\ [][Next]_vars

\* The threads and the scheduler's loop go on; nobody has to command anything.
FairSpec == /\ Spec
            /\ \A w \in Workers : WF_vars(WorkerStep(w))
            /\ WF_vars(SchedulerStep)

-----------------------------------------------------------------------------
(* Properties. *)

\* Once a worker's rclone was canceled the worker makes no other attempt: it is on its way
\* to record that and to release the job (backup_engine.py:193-195).
CancelIsFinal ==
  \A w \in Workers : worker[w].status = "canceled" =>
    /\ worker[w].pc \in {"row", "job", "release"}
    /\ proc[w] = "none"

\* What list_runs tells of a finished run may still turn into "failed" (when the
\* bookkeeping after it raises) but never improves or becomes unfinished again.
OutcomeOnlyWorsens ==
  [][\A r \in RunIds : run[r].status \in Final =>
       run'[r].status \in {run[r].status, "failed", "absent"}]_vars

\* A worker that registered its job lets go of it: retries, exceptions, cancels and
\* deletions included, the job can be run again.
SlotIsReleased == \A j \in Jobs : running[j] # NoRun ~> running[j] = NoRun

\* An enabled scheduled job whose time has come is not left behind: the tick gives it a
\* later one (having triggered it), or it was disabled, deleted or made manual.
DueJobMovesOn ==
  \A j \in Jobs :
    (job[j].enabled /\ job[j].kind # "manual" /\ job[j].next \in {"due", "none"})
      ~> (~job[j].enabled \/ job[j].kind = "manual" \/ job[j].next \in {"soon", "later"})

=============================================================================
