-------------------------- MODULE MCDatasetUpload --------------------------
(* Instances of DatasetUpload for TLC.                                     *)
EXTENDS DatasetUpload, TLC

CONSTANTS l1, l2, d1

TwoLoops == {l1, l2}
OneDataset == {d1}
LoopsAlike == Permutations(TwoLoops)
=============================================================================
