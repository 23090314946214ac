------------------------------- MODULE MCLsq --------------------------------
(* A small instance of Lsq. *)
EXTENDS Lsq

Make(kinds, S, l) == [kind : kinds, slots : S, line : {l}]
\* One line and two slots; a vector load and a DMA copy span both.
SmallOps ==
    Make({"spmst"}, {{0}}, "a") \cup Make({"spmld"}, {{0}, {0, 1}}, "a")
    \cup Make({"spmcp"}, {{0}, {1}}, "a")
    \cup Make({"spmdma"}, {{0, 1}}, "a") \cup Make({"spmwb"}, {{0}}, "a")
    \cup Make({"store", "load", "dsb"}, {{}}, "a")
=============================================================================
