--------------------------- MODULE MCDatasetRows ---------------------------
(* Instances of DatasetRows for TLC. *)
EXTENDS DatasetRows, TLC

CONSTANTS a, t1, t2, marked, renamed

MCOneId == {a}
MCClients == {t1, t2}
MCMarked == {marked}
MCCopies == {marked, renamed}
MCRenamed == {renamed}
MCNone == {}
MCAll == Resolutions \cup {"add", "add new", "join", "delete", "purge", "pause", "resume",
                           "update", "sync now", "cancel"}
\* While the original is in the folder, keep_remote does to the files what keep_local does.
MCWithoutRemote == MCAll \ {"keep_remote"}
MCWorks == {TRUE}

\* The threads are interchangeable.
ClientSymmetry == Permutations(Clients)

=============================================================================
