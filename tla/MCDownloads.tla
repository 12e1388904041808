---------------------------- MODULE MCDownloads ----------------------------
(* Instances of Downloads for TLC. *)
EXTENDS Downloads

CONSTANTS w1, w2, i1

MCWorkers == {w1, w2}
MCInstallers == {i1}
MCWindowsOrNot == BOOLEAN

=============================================================================
