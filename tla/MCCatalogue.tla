---------------------------- MODULE MCCatalogue -----------------------------
(* Instances of Catalogue for TLC.                                         *)
EXTENDS Catalogue, TLC

CONSTANTS r1, r2, d1, w1, w2, f1

TwoRequests == {r1, r2}
OneDataset == {d1}
TwoWeights == {w1, w2}
OneFile == {f1}

B(k, e, c, d) == [key |-> k, enc |-> e, cfg |-> c, ds |-> d]
SomeBodies == {B(w1, f1, f1, d1), B(w2, Null, Null, d1)}
SomeBuckets == {{w1, w2, f1}, {w1, f1}}
Alike == Permutations(TwoRequests)
=============================================================================
