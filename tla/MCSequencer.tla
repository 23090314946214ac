---------------------------- MODULE MCSequencer -----------------------------
(* Small instances of Sequencer. *)
EXTENDS Sequencer, SequencesExt

Coherent(kind, line) == [kind |-> kind, at |-> line, slot |-> "none", size |-> 1]
Private(kind, n) == [kind |-> kind, at |-> "s", slot |-> "s", size |-> n]
Bridge(line, s) == [kind |-> "spmcp", at |-> line, slot |-> s, size |-> 1]
ld(x) == Coherent("ld", x)
st(x) == Coherent("st", x)
if(x) == Coherent("if", x)

Short ==
    { ld("x"), st("x"), Coherent("pf", "x"), if("y"), Bridge("x", "s"),
      Private("spmld", 1), Private("spmst", 1) }
\* Longer programs: a stalled store beside a request the bypass may pick,
\* copies that fill the bridge, reissues into a full queue, SPM loads around
\* a copy, and more targets than a line, or a line being missed, may have.
Long ==
    { <<ld("x"), st("y"), ld("z"), if("w")>>,
      <<ld("x"), ld("y"), ld("z"), if("w")>>,
      <<Bridge("x", "s"), Bridge("y", "t"), Bridge("z", "u"), ld("w")>>,
      <<ld("x"), st("x"), st("y"), if("z"), Private("spmld", 1)>>,
      <<ld("x"), st("x"), if("y"), Private("spmst", 1), ld("z"), Private("spmld", 1)>>,
      <<Private("spmld", 1), Bridge("x", "s"), Private("spmld", 1), Private("spmst", 1)>>,
      <<ld("x"), st("x"), ld("x"), Bridge("x", "s")>>,
      <<if("x"), Coherent("pf", "x"), ld("x"), st("x")>> }
MixRequests == Short \cup UNION {Range(m) : m \in Long}
MixAsks(q) ==
    \/ Len(q) <= 3 /\ Range(q) \subseteq Short
    \/ \E m \in Long : IsPrefix(q, m)

FetchPort(r) == IF r.kind = "if" THEN "fetch" ELSE "data"
=============================================================================
