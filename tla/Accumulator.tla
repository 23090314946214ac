---------------------------- MODULE Accumulator -----------------------------
(***************************************************************************)
(* What the reduction engine promises: rows of slots that are updated in   *)
(* one step each.  A contribution is folded into the value every slot of   *)
(* its row has at that moment, once; a store or an initializing reduction  *)
(* replaces the values; slots are claimed empty and given up.              *)
(***************************************************************************)
EXTENDS L3Geometry

VARIABLES
    held,  \* the slots that are claimed
    value  \* per slot, what was folded into it; empty when not claimed

accVars == <<held, value>>

RowBases == {b \in Way : b + RowWays <= Ways}
\* The slots S get the values f(old value).
Update(S, f(_)) ==
    value' = [w \in Way |-> IF w \in S THEN f(value[w]) ELSE value[w]]

Fold(b, id) ==
    LET row == Slots(b, RowWays) IN
    /\ row \subseteq held
    /\ \A w \in row : \A i \in DOMAIN value[w] : value[w][i] # id
    /\ Update(row, LAMBDA v : Append(v, id))
    /\ UNCHANGED held
Replace(b, id) ==
    /\ Update(Slots(b, RowWays), LAMBDA v : <<id>>)
    /\ held' = held \cup Slots(b, RowWays)
Claim(b) == held' = held \cup Slots(b, RowWays) /\ UNCHANGED value
GiveUp(S) ==
    /\ S \subseteq held
    /\ held' = held \ S
    /\ Update(S, LAMBDA v : <<>>)

Init == held = {} /\ value = [w \in Way |-> <<>>]
Next ==
    \/ \E b \in RowBases : Claim(b) \/ \E id \in Ids : Fold(b, id) \/ Replace(b, id)
    \/ \E b \in Way : GiveUp({b}) \/ GiveUp(Slots(b, FinalWays))
Spec == Init /\ [][Next]_accVars
=============================================================================
