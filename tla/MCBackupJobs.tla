---------------------------- MODULE MCBackupJobs ----------------------------
(* Instances of BackupJobs for TLC. *)
EXTENDS BackupJobs

CONSTANTS j1, w1, w2

MCJobs == {j1}
MCWorkers == {w1, w2}
MCSchedules == {"interval", "manual"}

=============================================================================
