--------------------------- MODULE MCTaskDispatch ---------------------------
(* Small tables for TLC. Row numbers follow the order of addTask.          *)
EXTENDS TaskDispatchRefines, TLC

CONSTANTS PoolZeroWorkers, PoolZeroCtxs

\* Under the frame contract the tables here are built as the theorems ask, and
\* with two pools the contexts are enough.
ASSUME FrameTables == FrameContract => ChainTable /\ (NumPools > 1 => Sized)

\* A chain of two rows and a free-running row, all in every tick.
MixedSlots  == << <<1, 2, 3>> >>
MixedGroup  == <<"g", "g", "none">>
MixedPhase  == <<1, 2, 1>>
MixedMax    == [g \in {"g"} |-> 2]

\* Two rows of phase 1 in parallel and one that waits for both; in the second
\* tick only the first is listed, and it is not due.
ForkSlots   == << <<1, 2, 3>>, <<1>> >>
ForkGroup   == <<"g", "g", "g">>
ForkPhase   == <<1, 1, 3>>
ForkMax     == [g \in {"g"} |-> 3]
ForkRuns    == <<{0}, {0}, {0}>>

Always3     == <<{0}, {0}, {0}>>
OnePool3    == <<0, 0, 0>>
\* The third row asks for pool 7, which no table configures.
Clamped3    == <<0, 0, 7>>
TwoPools3   == <<0, 1, 7>>

AllToPool0  == [w \in Workers |-> 0]
CtxsToPool0 == [c \in Ctxs |-> 0]

\* With two pools, those that serve pool 0.
SplitWorkers == [w \in Workers |-> IF w \in PoolZeroWorkers THEN 0 ELSE 1]
SplitCtxs    == [c \in Ctxs |-> IF c \in PoolZeroCtxs THEN 0 ELSE 1]

NoRows      == {}
Row3        == {3}
CtxSymmetry == Permutations(Ctxs)
ThreadSymmetry == Permutations(Ctxs) \cup Permutations(Workers)
=============================================================================
