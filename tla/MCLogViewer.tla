---------------------------- MODULE MCLogViewer ----------------------------
(* Instances of LogViewer for TLC.                                         *)
EXTENDS LogViewer

CONSTANTS s1, s2, i1, i2

OneStream  == {s1}
TwoStreams == {s1, s2}
OneStart   == {i1}
TwoStarts  == {i1, i2}
=============================================================================
