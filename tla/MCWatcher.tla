----------------------------- MODULE MCWatcher -----------------------------
(* Instances of Watcher for TLC. *)
EXTENDS Watcher, TLC

CONSTANTS c1, docs

MCOneThread == {c1}
MCOneTarget == {docs}

=============================================================================
