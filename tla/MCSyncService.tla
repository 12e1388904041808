--------------------------- MODULE MCSyncService ---------------------------
(* Instances of SyncService for TLC. *)
EXTENDS SyncRefinement, TLC

CONSTANTS d1, d2, w1, w2, w3

MCDatasets == {d1, d2}
MCWorkers == {w1, w2, w3}
MCTwoWorkers == {w1, w2}
MCSetupMode == [d \in MCDatasets |-> "path2"]
MCOnlyD1 == {d1}
MCOnlyD2 == {d2}
MCNone == {}
MCOneDataset == {d1}
MCOneSetupMode == [d \in MCOneDataset |-> "path2"]

\* Worker threads are interchangeable (used only where no property is temporal).
WorkerSymmetry == Permutations(Workers)

=============================================================================
