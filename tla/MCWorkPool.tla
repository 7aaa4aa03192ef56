----------------------------- MODULE MCWorkPool -----------------------------
(* Small pools for TLC.                                                    *)
EXTENDS WorkPool, TLC

CONSTANTS p1, p2, w1, w2

Pool(n1, n2, workers) == [tasks |-> p1 :> n1 @@ p2 :> n2, workers |-> workers]

\* One producer that goes round a ring of two cells, and two that do with one
\* worker.
SmallPools == {Pool(3, 0, {w1, w2}), Pool(2, 1, {w1})}
TwoByTwo   == {Pool(2, 1, {w1, w2})}
TwoByOne   == {Pool(1, 1, {w1})}

WorkerSymmetry == Permutations(Workers)
=============================================================================
