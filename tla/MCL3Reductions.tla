--------------------------- MODULE MCL3Reductions ---------------------------
(* A small instance of L3Reductions: one core contributes twice and loads,  *)
(* the other one stores and releases.                                       *)
EXTENDS L3Reductions

First == CHOOSE c \in Cores : TRUE
PhaseBound == [c \in Cores |-> IF c = First THEN <<1, 2, 1>> ELSE <<1, 1, 1>>]
MixBound ==
    [c \in Cores |-> IF c = First THEN {"init", "reduce", "finalize", "load"}
                     ELSE {"store", "reduce", "finalize", "release"}]
=============================================================================
