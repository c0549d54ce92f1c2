------------------------ MODULE MCVisualizationPoll ------------------------
(* Instance of VisualizationPoll for TLC.                                  *)
EXTENDS VisualizationPoll

CONSTANTS q1, q2

TwoRequests == {q1, q2}
=============================================================================
