---------------------------- MODULE MCSpmSlots ----------------------------
(* Small arrays for SpmSlots: two sets, three coherent lines competing for *)
(* set 0 and one in set 1, slots that a set stride sends to either set.    *)
EXTENDS SpmSlots, TLC

CONSTANTS a0, b0, c0, d1, s00, s01, s11

MCLines == {a0, b0, c0, d1}
MCLineSet == (a0 :> 0) @@ (b0 :> 0) @@ (c0 :> 0) @@ (d1 :> 1)
MCSlots == {s00, s01, s11}
MCSlotSet == (s00 :> 0) @@ (s01 :> 0) @@ (s11 :> 1)
MCSlotWay == (s00 :> 0) @@ (s01 :> 1) @@ (s11 :> 1)
=============================================================================
