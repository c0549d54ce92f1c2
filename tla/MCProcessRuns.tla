--------------------------- MODULE MCProcessRuns ---------------------------
(* Instances of ProcessRuns for TLC.                                       *)
EXTENDS ProcessRuns, TLC

CONSTANTS r1, r2, p0, p1, p2

\* One preprocessing run of dataset 1; an admin may register its output by hand.
OneRun       == {r1}
TwoPrefixes  == {p0, p1}
OneKind      == r1 :> "preprocessing"
OnePrefix    == r1 :> p1
OneInput     == r1 :> 1
ByHand       == {<<p1, "PREPROCESSED">>}

\* A preprocessing run of dataset 1 and a generation run without a comparison
\* dataset, each with its own prefix.
TwoRuns       == {r1, r2}
ThreePrefixes == {p0, p1, p2}
MixedKind     == (r1 :> "preprocessing") @@ (r2 :> "generate")
MixedPrefix   == (r1 :> p1) @@ (r2 :> p2)
MixedInput    == (r1 :> 1) @@ (r2 :> NoId)

\* Two generation runs.
GenKind  == [r \in TwoRuns |-> "generate"]
GenInput == [r \in TwoRuns |-> NoId]

Nothing  == {}
=============================================================================
