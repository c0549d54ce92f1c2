---------------------------- MODULE MCRunMonitor ----------------------------
(* Instances of RunMonitor for TLC.                                        *)
EXTENDS RunMonitor

CONSTANTS p1, p2, p3

OneRun == {"r1"}

SameProcess == [r \in Runs |-> "preprocessing"]

ThreePolls == {p1, p2, p3}
=============================================================================
