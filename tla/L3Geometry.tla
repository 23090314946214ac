----------------------------- MODULE L3Geometry -----------------------------
(***************************************************************************)
(* The shared L3 scratchpad of one LLC bank, at one set: the slots are the *)
(* ways 0 .. Ways - 1 of that set, an access of n slots takes n ways in a  *)
(* row.  An FP32 reduction row takes RowWays slots (four in the code), a   *)
(* finalization FinalWays of them (two).                                   *)
(*                                                                         *)
(* The content of a slot is the list of what was folded into it: a store   *)
(* or an initializing reduction starts a list, a reduction appends to it.  *)
(* Scale-and-add does not commute, so the order is part of the value.      *)
(***************************************************************************)
EXTENDS Integers, Sequences, FiniteSets

CONSTANTS
    Cores,     \* the cores that use the bank
    Ways,      \* number of scratchpad ways of the set
    RowWays,   \* slots of a reduction row
    FinalWays, \* slots of a finalization
    MaxOps     \* bound: operations of a core

ASSUME GeometryAssumption ==
    /\ Ways \in Nat /\ RowWays \in 1 .. Ways /\ FinalWays \in 1 .. RowWays
    /\ MaxOps \in Nat

Way == 0 .. Ways - 1
\* The slots of an access that starts at way b and takes n ways.
Slots(b, n) == b .. b + n - 1

\* What a CPU packet asks for; n numbers the operations of its core.
Kinds == {"reduce", "init", "finalize", "load", "store", "release"}
Reductions == {"reduce", "init"}
Op(c, n, kind, b) == [core |-> c, n |-> n, kind |-> kind, base |-> b]
\* The slots an operation touches: a compact contribution still updates the
\* whole row; loads and stores of the model take a whole row, a release one
\* slot.
Size(op) == CASE op.kind = "finalize" -> FinalWays
              [] op.kind = "release" -> 1
              [] OTHER -> RowWays
Touched(op) == Slots(op.base, Size(op))
\* Two accesses, by base and size, share a slot.
Overlap(a, na, b, nb) == a < b + nb /\ b < a + na
Ids == Cores \X (1 .. MaxOps)
Id(op) == <<op.core, op.n>>
=============================================================================
