---------------------------- MODULE FlowProofs ------------------------------
(***************************************************************************)
(* Shared reductions and accesses on their way from the Sequencers to the  *)
(* bank and back, for any number of cores, rows, entries and operations:   *)
(* every operation is in one place, the hazard counts and the barrier's    *)
(* credit count the outstanding reductions, and no operation overtakes an  *)
(* older one of its core that it overlaps.                                 *)
(***************************************************************************)
EXTENDS BankProofs

\* A leaf is tried with SMT, again with more time, and with Zenon.
USE SMT, SMTT(20), Zenon

-----------------------------------------------------------------------------
\* Where an operation can be.
Reds(c) == Range(source[c]) \cup {f.op : f \in flight[c]}
Inboxed == {inbox[i].op : i \in DOMAIN inbox}
Engaged == {tbe[b].op : b \in Captured}
Replied == {r.op : r \in replies}
Sent == toBank \cup Inboxed \cup Engaged \cup Replied
\* Accepted operations the bank has not performed yet.
Unsent(c) == Range(source[c]) \cup {f.op : f \in {g \in flight[c] : ~ g.issued}}
Held == UNION {Unsent(c) : c \in Cores}
Todo == Held \cup toBank \cup Inboxed \cup Engaged

Apart(o, p) == Touched(o) \cap Touched(p) = {}
Feeds(op) == op.kind \in Setup \cup {"reduce"}

\* What the programs have issued.
Numbered ==
    /\ issued \subseteq [op : FitOps, phase : Nat] /\ IsFiniteSet(issued)
    /\ phase \in Nat /\ arrived \subseteq Cores
    /\ phase >= 3 => arrived = {}
    /\ phase > 3 => Cores = {}
    /\ \A e \in issued : e.phase <= phase /\ e.op.n <= Cardinality(Of(e.op.core))
    /\ \A d, e \in issued : Id(d.op) = Id(e.op) => d = e
SetUp(b) == \E s \in issued : s.op.kind \in Setup /\ s.op.base = b
Lawful(e) ==
    /\ e.op.kind \notin Reclaim => e.op.base \in Rows
    /\ e.op.kind \in Setup => e.phase = 1
    /\ e.op.kind = "reduce" => e.phase = 2 /\ SetUp(e.op.base)
    /\ e.op.kind \in Reclaim =>
          e.phase = 3 /\ \E r \in Rows : e.op.base \in Halves(r) /\ SetUp(r)
Disciplined ==
    /\ \A e \in issued : Lawful(e)
    /\ \A d, e \in issued :
          /\ d.op.base = e.op.base
          /\ \/ d.op.kind \in Setup /\ e.op.kind \in Setup
             \/ d.op.kind \in Reclaim /\ e.op.kind \in Reclaim
          => d = e
ProgramInv == Numbered /\ Disciplined

\* The Sequencers: operations outstanding are of this phase, the counters
\* count them, and what was sent overtakes nothing older it overlaps.
Owned(c) ==
    /\ \A o \in Reds(c) : o.core = c /\ o.kind \in Reductions
    /\ \A o \in table[c] : o.core = c /\ o.kind \notin Reductions
    /\ \A o \in Reds(c) \cup table[c] : [op |-> o, phase |-> phase] \in issued
    /\ c \in arrived => Reds(c) = {} /\ table[c] = {}
InOrder(c) ==
    /\ \A i, j \in DOMAIN source[c] : i < j => source[c][i].n < source[c][j].n
    /\ \A f \in flight[c] : \A o \in Range(source[c]) : f.op.n < o.n
    /\ \A f, g \in flight[c] : f.op = g.op => f = g
    /\ \A f, g \in flight[c] :
          f.issued /\ g.op.n < f.op.n => g.issued /\ Apart(f.op, g.op)
NoHazard(c) ==
    /\ \A r \in table[c] : \A o \in Reds(c) : Apart(r, o)
    /\ \A r, s \in table[c] : r # s => Apart(r, s)
CountedOps(c) ==
    /\ IsFiniteSet(Reds(c)) /\ credit[c] = Cardinality(Reds(c))
    /\ \A w \in Way : pending[c][w] = Cardinality({o \in Reds(c) : w \in Touched(o)})
CountersTyped == credit \in [Cores -> Nat] /\ pending \in [Cores -> [Way -> Nat]]
SourceInv ==
    /\ CountersTyped
    /\ \A c \in Cores : Owned(c) /\ InOrder(c) /\ NoHazard(c) /\ CountedOps(c)

\* An operation that was sent is outstanding at its core, and in one place.
Outstanding(o) ==
    /\ o.core \in Cores
    /\ \/ o \in table[o.core]
       \/ [op |-> o, issued |-> TRUE] \in flight[o.core]
PlaceInv ==
    /\ \A o \in Sent : Outstanding(o)
    /\ toBank \cap (Inboxed \cup Engaged \cup Replied) = {}
    /\ Inboxed \cap (Engaged \cup Replied) = {} /\ Engaged \cap Replied = {}
    /\ \A i, j \in DOMAIN inbox : inbox[i].op = inbox[j].op => i = j
    /\ \A r, s \in replies : r.op = s.op => r = s

-----------------------------------------------------------------------------
\* Two operations overlap when they share a slot.
LEMMA OverlapIs ==
  ASSUME NEW o \in FitOps, NEW p \in FitOps
  PROVE  /\ Overlap(o.base, Size(o), p.base, Size(p)) <=> ~ Apart(o, p)
         /\ o.kind \in Reductions => Size(o) = RowWays /\ Touched(o) = Slots(o.base, RowWays)
         /\ \A w \in Way : Overlap(o.base, Size(o), w, 1) <=> w \in Touched(o)
<1>1. o \in Ops /\ p \in Ops
  BY DEF FitOps
<1>2. /\ Size(o) \in Nat \ {0} /\ Touched(o) = o.base .. o.base + Size(o) - 1
      /\ Size(p) \in Nat \ {0} /\ Touched(p) = p.base .. p.base + Size(p) - 1
      /\ o.base \in Nat /\ p.base \in Nat
  BY <1>1, TouchedIs DEF Way
<1>3. Overlap(o.base, Size(o), p.base, Size(p)) => ~ Apart(o, p)
  <2> SUFFICES ASSUME Overlap(o.base, Size(o), p.base, Size(p)) PROVE ~ Apart(o, p)
    OBVIOUS
  <2>1. CASE o.base <= p.base
    <3>1. p.base \in Touched(o) /\ p.base \in Touched(p)
      BY <2>1, <1>2 DEF Overlap
    <3> QED BY <3>1 DEF Apart
  <2>2. CASE p.base <= o.base
    <3>1. o.base \in Touched(o) /\ o.base \in Touched(p)
      BY <2>2, <1>2 DEF Overlap
    <3> QED BY <3>1 DEF Apart
  <2> QED BY <2>1, <2>2, <1>2
<1>4. ~ Apart(o, p) => Overlap(o.base, Size(o), p.base, Size(p))
  BY <1>2 DEF Apart, Overlap
<1>5. o.kind \in Reductions => Size(o) = RowWays /\ Touched(o) = Slots(o.base, RowWays)
  BY DEF Reductions, Size, Touched
<1>6. \A w \in Way : Overlap(o.base, Size(o), w, 1) <=> w \in Touched(o)
  BY <1>2 DEF Overlap, Way
<1> QED BY <1>3, <1>4, <1>5, <1>6

LEMMA ApartSymmetric ==
  ASSUME NEW o, NEW p
  PROVE  Apart(o, p) <=> Apart(p, o)
BY DEF Apart

\* An operation that is issued has a number of its own.
LEMMA IssueIs ==
  ASSUME Numbered, NEW op \in Asked, Issue(op)
  PROVE  /\ op \in FitOps /\ op \in Ops /\ op.core \in Cores /\ op.n \in Nat
         /\ op.n = Cardinality(Of(op.core)) + 1 /\ op.core \notin arrived
         /\ Legal(op) /\ Ordered(op) /\ op.kind \in Kinds
         /\ issued' = issued \cup {[op |-> op, phase |-> phase]}
         /\ phase' = phase /\ arrived' = arrived /\ UNCHANGED <<bankVars, replies>>
         /\ \A e \in issued : e.op.core = op.core => e.op.n < op.n
         /\ \A e \in issued : Id(e.op) # Id(op) /\ e.op # op
<1>1. op \in FitOps
  BY IssuedFits
<1>2. op \in Ops /\ op.core \in Cores /\ op.n \in Nat /\ op.kind \in Kinds
  BY <1>1, TouchedIs DEF FitOps
<1>3. /\ op.n = Cardinality(Of(op.core)) + 1 /\ op.core \notin arrived
      /\ Legal(op) /\ Ordered(op)
      /\ issued' = issued \cup {[op |-> op, phase |-> phase]}
      /\ phase' = phase /\ arrived' = arrived /\ UNCHANGED <<bankVars, replies>>
  BY DEF Issue
<1>4. ASSUME NEW e \in issued, e.op.core = op.core PROVE e.op.n < op.n
  <2>1. e.op.n <= Cardinality(Of(op.core)) /\ e.op \in FitOps
    BY <1>4 DEF Numbered
  <2>2. e.op.n \in Nat
    BY <2>1, TouchedIs DEF FitOps
  <2>3. Of(op.core) \subseteq issued
    BY DEF Of
  <2>4. Cardinality(Of(op.core)) \in Nat
    BY <2>3, FS_Subset, FS_CardinalityType DEF Numbered
  <2> QED BY <1>2, <1>3, <2>1, <2>2, <2>4
<1>5. ASSUME NEW e \in issued PROVE Id(e.op) # Id(op) /\ e.op # op
  <2>1. CASE e.op.core = op.core
    <3>1. e.op.n < op.n /\ e.op \in FitOps
      BY <1>4, <2>1 DEF Numbered
    <3>2. e.op.n \in Nat
      BY <3>1, TouchedIs DEF FitOps
    <3> QED BY <3>1, <3>2, <1>2 DEF Id
  <2>2. CASE e.op.core # op.core
    BY <2>2 DEF Id
  <2> QED BY <2>1, <2>2
<1> QED BY <1>1, <1>2, <1>3, <1>4, <1>5

-----------------------------------------------------------------------------
\* The programs keep their discipline.
LEMMA IssueNumbered ==
  ASSUME Numbered, NEW op \in Asked, Issue(op)
  PROVE  Numbered'
<1>1. PICK new : new = [op |-> op, phase |-> phase]
  BY Zenon
<1>2. /\ op \in FitOps /\ op.n \in Nat /\ op.n = Cardinality(Of(op.core)) + 1
      /\ issued' = issued \cup {new} /\ phase' = phase /\ arrived' = arrived
      /\ \A e \in issued : Id(e.op) # Id(op) /\ e.op # op
  BY <1>1, IssueIs
<1>3. new.op = op /\ new.phase = phase /\ new \in [op : FitOps, phase : Nat] /\ new \notin issued
  BY <1>1, <1>2 DEF Numbered
<1>4. IsFiniteSet(issued') /\ issued' \subseteq [op : FitOps, phase : Nat]
  BY <1>2, <1>3, FS_AddElement DEF Numbered
<1>5. ASSUME NEW e \in issued' PROVE e.phase <= phase /\ e.op.n <= Cardinality(Of(e.op.core))'
  <2>1. PICK c : c = e.op.core
    OBVIOUS
  <2>2. Of(c) \subseteq issued /\ Of(c)' = IF c = op.core THEN Of(c) \cup {new} ELSE Of(c)
    BY <1>2, <1>3 DEF Of
  <2>3. IsFiniteSet(Of(c)) /\ Cardinality(Of(c)) \in Nat /\ new \notin Of(c)
    BY <2>2, <1>3, FS_Subset, FS_CardinalityType DEF Numbered
  <2>4. Cardinality(Of(c) \cup {new}) = Cardinality(Of(c)) + 1
    BY <2>3, FS_AddElement, Zenon
  <2>5. Cardinality(Of(c)') >= Cardinality(Of(c))
    BY <2>2, <2>3, <2>4
  <2>6. CASE e \in issued
    <3>1. e.phase <= phase /\ e.op.n <= Cardinality(Of(c)) /\ e.op \in FitOps
      BY <2>1, <2>6 DEF Numbered
    <3>2. e.op.n \in Nat
      BY <3>1, TouchedIs DEF FitOps
    <3>3. Cardinality(Of(c)') \in Nat
      BY <2>2, <2>3, <2>4
    <3> QED BY <2>1, <2>3, <2>5, <3>1, <3>2, <3>3
  <2>7. CASE e = new
    BY <2>1, <2>2, <2>3, <2>4, <2>7, <1>2, <1>3 DEF Numbered
  <2> QED BY <2>6, <2>7, <1>2
<1>6. \A d, e \in issued' : Id(d.op) = Id(e.op) => d = e
  BY <1>2, <1>3 DEF Numbered
<1> QED BY <1>2, <1>4, <1>5, <1>6 DEF Numbered

LEMMA IssueDisciplined ==
  ASSUME Numbered, Disciplined, NEW op \in Asked, Issue(op)
  PROVE  Disciplined'
<1>1. PICK new : new = [op |-> op, phase |-> phase]
  BY Zenon
<1>2. /\ op.kind \in Kinds /\ Legal(op) /\ issued' = issued \cup {new}
      /\ new.op = op /\ new.phase = phase
  BY <1>1, IssueIs
<1>3. \A b : SetUp(b) => SetUp(b)'
  BY <1>2 DEF SetUp
<1>4. ASSUME NEW e \in issued PROVE Lawful(e)'
  BY <1>3 DEF Disciplined, Lawful
<1>5. Lawful(new)'
  <2>1. op.kind \in Setup => phase = 1 /\ op.base \in Rows
    BY <1>2, Zenon DEF Legal, Setup, Reclaim
  <2>2. op.kind = "reduce" => phase = 2 /\ op.base \in Rows /\ SetUp(op.base)
    BY <1>2 DEF Legal, Setup, Reclaim, SetUp, Here
  <2>3. op.kind \in Reclaim =>
          phase = 3 /\ \E r \in Rows : op.base \in Halves(r) /\ SetUp(r)
    BY <1>2, Zenon DEF Legal, Setup, Reclaim, SetUp, Here
  <2>4. op.kind = "load" => op.base \in Rows
    BY <1>2 DEF Legal, Setup, Reclaim
  <2>5. op.kind \in Setup \cup Reclaim \cup {"reduce", "load"}
    BY <1>2 DEF Kinds, Setup, Reclaim
  <2> QED BY <1>2, <1>3, <2>1, <2>2, <2>3, <2>4, <2>5 DEF Lawful
<1>6. ASSUME NEW e \in issued, e.op.base = op.base,
             \/ e.op.kind \in Setup /\ op.kind \in Setup
             \/ e.op.kind \in Reclaim /\ op.kind \in Reclaim
      PROVE  FALSE
  <2>1. op.kind \in Setup => Here(Setup, op.base) = {}
    BY <1>2, Zenon DEF Legal, Setup, Reclaim
  <2>2. op.kind \in Reclaim => Here(Reclaim, op.base) = {}
    BY <1>2, Zenon DEF Legal, Setup, Reclaim
  <2> QED BY <1>6, <2>1, <2>2 DEF Here
<1>7. \A e \in issued' : e \in issued \/ e = new
  BY <1>2
<1>8. ASSUME NEW d \in issued', NEW e \in issued', d.op.base = e.op.base,
             \/ d.op.kind \in Setup /\ e.op.kind \in Setup
             \/ d.op.kind \in Reclaim /\ e.op.kind \in Reclaim
      PROVE  d = e
  BY <1>2, <1>6, <1>7, <1>8 DEF Disciplined
<1> QED BY <1>4, <1>5, <1>7, <1>8 DEF Disciplined

LEMMA ProgramStep ==
  ASSUME ProgramInv, [Next]_vars
  PROVE  ProgramInv'
<1>1. CASE \E op \in Asked : Issue(op)
  BY <1>1, IssueNumbered, IssueDisciplined DEF ProgramInv
<1>2. CASE issued' = issued /\ phase' = phase /\ arrived' \subseteq Cores
           /\ (phase >= 3 => arrived' = {})
  BY <1>2 DEF ProgramInv, Numbered, Disciplined, Lawful, SetUp, Of
<1>3. CASE UNCHANGED cpuVars
  BY <1>2, <1>3 DEF cpuVars, ProgramInv, Numbered
<1>4. CASE \E c \in Cores : Barrier(c)
  <2>1. issued' = issued /\ phase' = phase /\ arrived' \subseteq Cores /\ phase < 3
    BY <1>4 DEF Barrier, ProgramInv, Numbered
  <2> QED BY <1>2, <2>1 DEF ProgramInv, Numbered
<1>5. CASE NextPhase
  <2>1. issued' = issued /\ phase' = phase + 1 /\ arrived' = {} /\ arrived = Cores
    BY <1>5 DEF NextPhase
  <2>2. Disciplined'
    BY <2>1 DEF ProgramInv, Disciplined, Lawful, SetUp
  <2>3. phase \in Nat /\ (phase' > 3 => Cores = {})
    BY <2>1 DEF ProgramInv, Numbered
  <2>4. \A e \in issued : e.phase <= phase' /\ e.op.n <= Cardinality(Of(e.op.core))
    BY <2>1, <2>3 DEF ProgramInv, Numbered
  <2> QED BY <2>1, <2>2, <2>3, <2>4 DEF ProgramInv, Numbered, Of
<1>6. CASE \/ \E c \in Cores : Service(c)
           \/ \E op \in toBank : Deliver(op)
           \/ \E r \in replies : Complete(r)
           \/ BankRuns \/ TimerExpires \/ UNCHANGED vars
  BY <1>3, <1>6 DEF Service, Deliver, Complete, BankRuns, TimerExpires, vars
<1> QED BY <1>1, <1>4, <1>5, <1>6 DEF Next

-----------------------------------------------------------------------------
CoreInv(c) == Owned(c) /\ InOrder(c) /\ NoHazard(c) /\ CountedOps(c)

\* A step that leaves a core's records alone keeps what is said of it.
LEMMA CoreSame ==
  ASSUME NEW c, CoreInv(c),
         source'[c] = source[c], flight'[c] = flight[c], table'[c] = table[c],
         pending'[c] = pending[c], credit'[c] = credit[c],
         phase' = phase, issued \subseteq issued', c \in arrived' => c \in arrived
  PROVE  CoreInv(c)'
<1>1. Reds(c)' = Reds(c)
  BY DEF Reds
<1>2. Owned(c)'
  BY <1>1 DEF CoreInv, Owned
<1>3. InOrder(c)'
  BY DEF CoreInv, InOrder
<1>4. NoHazard(c)'
  BY <1>1 DEF CoreInv, NoHazard
<1>5. CountedOps(c)'
  BY <1>1 DEF CoreInv, CountedOps
<1> QED BY <1>2, <1>3, <1>4, <1>5 DEF CoreInv

\* The operations of a core fit the set and are issued under their number.
LEMMA RedsFit ==
  ASSUME SourceTypes, NEW c \in Cores
  PROVE  /\ Reds(c) \subseteq FitOps /\ table[c] \subseteq FitOps
         /\ source[c] \in Seq(FitOps) /\ flight[c] \subseteq [op : FitOps, issued : BOOLEAN]
         /\ \A o \in Reds(c) \cup table[c] : o.n \in Nat /\ o \in Ops
<1>1. /\ source[c] \in Seq(FitOps) /\ flight[c] \subseteq [op : FitOps, issued : BOOLEAN]
      /\ table[c] \subseteq FitOps
  BY DEF SourceTypes
<1>2. Range(source[c]) \subseteq FitOps
  <2>1. \A i \in 1 .. Len(source[c]) : source[c][i] \in FitOps
    BY <1>1, ElementOfSeq
  <2>2. DOMAIN source[c] = 1 .. Len(source[c])
    BY <1>1, LenProperties
  <2> QED BY <2>1, <2>2 DEF Range
<1>3. Reds(c) \subseteq FitOps
  BY <1>1, <1>2 DEF Reds
<1>4. \A o \in FitOps : o.n \in Nat /\ o \in Ops
  BY TouchedIs DEF FitOps
<1> QED BY <1>1, <1>3, <1>4

\* Counting one reduction more.
LEMMA CountMore ==
  ASSUME NEW S, NEW T, NEW o, IsFiniteSet(S), o \notin S, T = S \cup {o}
  PROVE  /\ IsFiniteSet(T) /\ Cardinality(T) = Cardinality(S) + 1
         /\ \A w : Cardinality({x \in T : w \in Touched(x)}) =
                     IF w \in Touched(o) THEN Cardinality({x \in S : w \in Touched(x)}) + 1
                     ELSE Cardinality({x \in S : w \in Touched(x)})
<1>1. IsFiniteSet(T) /\ Cardinality(T) = Cardinality(S) + 1
  BY FS_AddElement
<1>2. ASSUME NEW w
      PROVE  Cardinality({x \in T : w \in Touched(x)}) =
               IF w \in Touched(o) THEN Cardinality({x \in S : w \in Touched(x)}) + 1
               ELSE Cardinality({x \in S : w \in Touched(x)})
  <2>1. PICK A, B : A = {x \in S : w \in Touched(x)} /\ B = {x \in T : w \in Touched(x)}
    BY Zenon
  <2>2. A \subseteq S /\ o \notin A
    BY <2>1
  <2>3. IsFiniteSet(A)
    BY <2>2, FS_Subset
  <2>4. B = IF w \in Touched(o) THEN A \cup {o} ELSE A
    BY <2>1
  <2>5. Cardinality(A \cup {o}) = Cardinality(A) + 1
    BY <2>2, <2>3, FS_AddElement
  <2>6. Cardinality(B) = IF w \in Touched(o) THEN Cardinality(A) + 1 ELSE Cardinality(A)
    BY <2>4, <2>5
  <2> QED BY <2>1, <2>6
<1> QED BY <1>1, <1>2

\* No pending count on a slot of an access: it overlaps no outstanding reduction.
LEMMA NoConflictApart ==
  ASSUME SourceTypes, CountersTyped, NEW op \in FitOps, op.core \in Cores,
         CountedOps(op.core), ~ ReductionConflicts(op)
  PROVE  \A o \in Reds(op.core) : Apart(op, o)
<1> SUFFICES ASSUME NEW o \in Reds(op.core), NEW w \in Touched(op), w \in Touched(o)
             PROVE  FALSE
  BY DEF Apart
<1>1. w \in Way
  BY DEF FitOps
<1>2. PICK A : A = {x \in Reds(op.core) : w \in Touched(x)}
  BY Zenon
<1>3. o \in A /\ A \subseteq Reds(op.core) /\ IsFiniteSet(A)
  BY <1>2, FS_Subset DEF CountedOps
<1>4. Cardinality(A) # 0 /\ Cardinality(A) \in Nat
  BY <1>3, FS_EmptySet, FS_CardinalityType
<1>5. pending[op.core][w] > 0
  BY <1>1, <1>2, <1>4 DEF CountedOps
<1>6. Overlap(op.base, Size(op), w, 1)
  BY <1>1, OverlapIs
<1> QED BY <1>1, <1>5, <1>6 DEF ReductionConflicts

\* makeRequest captures a reduction.
LEMMA AcceptReductionCore ==
  ASSUME SourceTypes, Numbered, CountersTyped, NEW op \in Asked, Issue(op),
         AcceptReduction(op), NEW c, c = op.core, CoreInv(c)
  PROVE  CoreInv(c)'
<1>1. /\ op \in FitOps /\ c \in Cores /\ op.n \in Nat /\ c \notin arrived
      /\ issued' = issued \cup {[op |-> op, phase |-> phase]}
      /\ phase' = phase /\ arrived' = arrived
      /\ \A e \in issued : e.op.core = op.core => e.op.n < op.n
  BY IssueIs
<1>2. /\ op.kind \in Reductions /\ ~ ReductionOlderAccess(op)
      /\ pending' = Charge(pending, op, 1)
      /\ credit' = [credit EXCEPT ![c] = @ + 1]
      /\ source' = [source EXCEPT ![c] = Append(@, op)]
      /\ flight' = flight /\ table' = table
  BY DEF AcceptReduction
<1>3. source[c] \in Seq(FitOps) /\ source'[c] = Append(source[c], op)
  BY <1>1, <1>2 DEF SourceTypes
<1>4. /\ Len(source'[c]) = Len(source[c]) + 1 /\ source'[c][Len(source[c]) + 1] = op
      /\ \A i \in 1 .. Len(source[c]) : source'[c][i] = source[c][i]
      /\ DOMAIN source[c] = 1 .. Len(source[c]) /\ Len(source[c]) \in Nat
      /\ DOMAIN source'[c] = 1 .. Len(source[c]) + 1
  BY <1>1, <1>3, AppendProperties, LenProperties
<1>5. Range(source'[c]) = Range(source[c]) \cup {op}
  BY <1>1, <1>3, AppendIs
<1>6. Reds(c)' = Reds(c) \cup {op}
  BY <1>2, <1>5 DEF Reds
<1>7. \A o \in Reds(c) : o.n < op.n /\ o # op
  <2> SUFFICES ASSUME NEW o \in Reds(c) PROVE o.n < op.n
    BY <1>1
  <2>1. [op |-> o, phase |-> phase] \in issued /\ o.core = c
    BY DEF CoreInv, Owned
  <2> QED BY <1>1, <2>1
<1>8. Owned(c)'
  BY <1>1, <1>2, <1>6 DEF CoreInv, Owned
<1>9. InOrder(c)'
  <2>1. \A i \in 1 .. Len(source[c]) : source[c][i] \in Range(source[c])
    BY <1>4 DEF Range
  <2>2. \A i \in 1 .. Len(source[c]) : source[c][i].n < op.n
    BY <2>1, <1>7 DEF Reds
  <2>3. \A i, j \in DOMAIN source'[c] : i < j => source'[c][i].n < source'[c][j].n
    <3> SUFFICES ASSUME NEW i \in DOMAIN source'[c], NEW j \in DOMAIN source'[c], i < j
                 PROVE  source'[c][i].n < source'[c][j].n
      OBVIOUS
    <3>1. i \in 1 .. Len(source[c]) /\ source'[c][i] = source[c][i]
      BY <1>4
    <3>2. CASE j \in 1 .. Len(source[c])
      BY <1>4, <3>1, <3>2 DEF CoreInv, InOrder
    <3>3. CASE j = Len(source[c]) + 1
      BY <1>4, <2>2, <3>1, <3>3
    <3> QED BY <1>4, <3>2, <3>3
  <2>4. \A f \in flight[c] : \A o \in Range(source'[c]) : f.op.n < o.n
    BY <1>5, <1>7 DEF CoreInv, InOrder, Reds
  <2> QED BY <1>2, <2>3, <2>4 DEF CoreInv, InOrder
<1>10. NoHazard(c)'
  <2>1. ASSUME NEW r \in table[c] PROVE Apart(r, op)
    <3>1. ~ Overlap(op.base, RowWays, r.base, Size(r)) /\ r \in FitOps
      BY <1>1, <1>2, RedsFit DEF ReductionOlderAccess
    <3> QED BY <1>1, <1>2, <3>1, OverlapIs, ApartSymmetric
  <2> QED BY <1>2, <1>6, <2>1 DEF CoreInv, NoHazard
<1>11. CountedOps(c)'
  <2>1. PICK S : S = Reds(c)
    OBVIOUS
  <2>2. PICK T : T = Reds(c)'
    OBVIOUS
  <2>3. IsFiniteSet(S) /\ op \notin S /\ T = S \cup {op}
    BY <2>1, <2>2, <1>6, <1>7 DEF CoreInv, CountedOps
  <2>4. /\ IsFiniteSet(T) /\ Cardinality(T) = Cardinality(S) + 1
        /\ \A w : Cardinality({x \in T : w \in Touched(x)}) =
                    IF w \in Touched(op) THEN Cardinality({x \in S : w \in Touched(x)}) + 1
                    ELSE Cardinality({x \in S : w \in Touched(x)})
    BY ONLY <2>3, CountMore
  <2>5. credit[c] = Cardinality(S)
        /\ \A w \in Way : pending[c][w] = Cardinality({x \in S : w \in Touched(x)})
    BY <2>1 DEF CoreInv, CountedOps
  <2>6. Touched(op) = Slots(op.base, RowWays)
    BY <1>1, <1>2, OverlapIs
  <2>7. credit'[c] = credit[c] + 1
        /\ \A w \in Way : pending'[c][w] =
              IF w \in Touched(op) THEN pending[c][w] + 1 ELSE pending[c][w]
    BY <1>1, <1>2, <2>6 DEF Charge, CountersTyped
  <2> QED BY <2>2, <2>4, <2>5, <2>7, Zenon DEF CountedOps
<1> QED BY <1>8, <1>9, <1>10, <1>11 DEF CoreInv

\* makeRequest records any other access.
LEMMA AcceptAccessCore ==
  ASSUME SourceTypes, Numbered, CountersTyped, NEW op \in Asked, Issue(op),
         AcceptAccess(op), NEW c, c = op.core, CoreInv(c)
  PROVE  CoreInv(c)'
<1>1. /\ op \in FitOps /\ c \in Cores /\ c \notin arrived /\ Ordered(op)
      /\ issued' = issued \cup {[op |-> op, phase |-> phase]}
      /\ phase' = phase /\ arrived' = arrived
  BY IssueIs
<1>2. /\ op.kind \notin Reductions /\ ~ ReductionConflicts(op)
      /\ table' = [table EXCEPT ![c] = @ \cup {op}]
      /\ source' = source /\ flight' = flight /\ pending' = pending /\ credit' = credit
  BY DEF AcceptAccess
<1>3. table'[c] = table[c] \cup {op} /\ Reds(c)' = Reds(c)
  BY <1>1, <1>2 DEF SourceTypes, Reds
<1>4. Owned(c)'
  BY <1>1, <1>2, <1>3 DEF CoreInv, Owned
<1>5. InOrder(c)'
  BY <1>2 DEF CoreInv, InOrder
<1>6. NoHazard(c)'
  <2>1. \A o \in Reds(c) : Apart(op, o)
    BY <1>1, <1>2, NoConflictApart DEF CoreInv
  <2>2. ASSUME NEW r \in table[c] PROVE Apart(r, op) /\ Apart(op, r)
    <3>1. ~ Overlap(op.base, Size(op), r.base, Size(r)) /\ r \in FitOps
      BY <1>1, <1>2, RedsFit DEF Ordered
    <3> QED BY <1>1, <3>1, OverlapIs, ApartSymmetric
  <2> QED BY <1>3, <2>1, <2>2 DEF CoreInv, NoHazard
<1>7. CountedOps(c)'
  BY <1>2, <1>3 DEF CoreInv, CountedOps
<1> QED BY <1>4, <1>5, <1>6, <1>7 DEF CoreInv

-----------------------------------------------------------------------------
\* serviceL3Reduction: the records after the oldest command got one, and the
\* commands that stay in the source.
Remaining(c) == IF Moves(c) THEN Tail(source[c]) ELSE source[c]
Admitted(c, F, rest) ==
    /\ F \subseteq [op : FitOps, issued : BOOLEAN] /\ flight[c] \subseteq F
    /\ \A f \in F : f \in flight[c] \/ ~ f.issued
    /\ \A f \in F : f.op \in Reds(c)
    /\ Reds(c) = Range(rest) \cup {f.op : f \in F}
    /\ \A i, j \in DOMAIN rest : i < j => rest[i].n < rest[j].n
    /\ \A f \in F : \A o \in Range(rest) : f.op.n < o.n
    /\ \A f, g \in F : f.op = g.op => f = g
    /\ \A f, g \in F : f.issued /\ g.op.n < f.op.n => g.issued /\ Apart(f.op, g.op)

LEMMA AdmitIs ==
  ASSUME SourceTypes, NEW c \in Cores, CoreInv(c)
  PROVE  Admitted(c, Admit(c), Remaining(c))
<1>0. PICK F : F = Admit(c)
  OBVIOUS
<1>00. PICK rest : rest = Remaining(c)
  OBVIOUS
<1> SUFFICES Admitted(c, F, rest)
  BY <1>0, <1>00
<1>1. /\ source[c] \in Seq(FitOps) /\ flight[c] \subseteq [op : FitOps, issued : BOOLEAN]
      /\ \A o \in Reds(c) : o.n \in Nat
  BY RedsFit
<1>2. InOrder(c)
  BY DEF CoreInv
<1>3. CASE ~ Moves(c)
  <2>1. F = flight[c] /\ rest = source[c]
    BY <1>0, <1>00, <1>3 DEF Admit, Remaining
  <2> QED BY <1>1, <1>2, <2>1 DEF InOrder, Reds, Admitted
<1>4. CASE Moves(c)
  <2>1. PICK h : h = Head(source[c])
    OBVIOUS
  <2>2. PICK new : new = [op |-> h, issued |-> FALSE]
    BY Zenon
  <2>3. rest = Tail(source[c]) /\ F = flight[c] \cup {new} /\ source[c] # <<>>
    BY <1>0, <1>00, <1>4, <2>1, <2>2 DEF Admit, Moves, Remaining
  <2>4. /\ rest \in Seq(FitOps) /\ Len(rest) = Len(source[c]) - 1 /\ h = source[c][1]
        /\ \A i \in 1 .. Len(rest) : rest[i] = source[c][i + 1]
        /\ Len(source[c]) \in Nat \ {0}
        /\ DOMAIN source[c] = 1 .. Len(source[c]) /\ DOMAIN rest = 1 .. Len(source[c]) - 1
    BY <1>1, <2>1, <2>3, HeadTailProperties, LenProperties, EmptySeq
  <2>5. h \in Range(source[c]) /\ h \in FitOps
    BY <2>1, <2>3, <2>4, <1>1, ElementOfSeq DEF Range
  <2>6. new.op = h /\ ~ new.issued /\ new \in [op : FitOps, issued : BOOLEAN]
    BY <2>2, <2>5
  <2>7. \A o \in Range(rest) : \E i \in DOMAIN source[c] : i > 1 /\ o = source[c][i]
    <3> SUFFICES ASSUME NEW k \in DOMAIN rest
                 PROVE  \E i \in DOMAIN source[c] : i > 1 /\ rest[k] = source[c][i]
      BY DEF Range
    <3>1. k + 1 \in DOMAIN source[c] /\ k + 1 > 1 /\ rest[k] = source[c][k + 1]
      BY <2>4
    <3> QED BY <3>1
  <2>8. Range(source[c]) = Range(rest) \cup {h}
    <3>1. \A o \in Range(source[c]) : o = h \/ o \in Range(rest)
      <4> SUFFICES ASSUME NEW i \in DOMAIN source[c], i # 1 PROVE source[c][i] \in Range(rest)
        BY <2>4 DEF Range
      <4>1. i - 1 \in DOMAIN rest /\ rest[i - 1] = source[c][i]
        BY <2>4
      <4> QED BY <4>1 DEF Range
    <3>2. Range(rest) \subseteq Range(source[c])
      BY <2>7 DEF Range
    <3> QED BY <3>1, <3>2, <2>5
  <2>9. Reds(c) = Range(rest) \cup {f.op : f \in F}
    BY <2>3, <2>6, <2>8 DEF Reds
  <2>10. \A i, j \in DOMAIN rest : i < j => rest[i].n < rest[j].n
    <3> SUFFICES ASSUME NEW i \in DOMAIN rest, NEW j \in DOMAIN rest, i < j
                 PROVE  rest[i].n < rest[j].n
      OBVIOUS
    <3>0. \A k \in DOMAIN rest : /\ k \in Int /\ k + 1 \in DOMAIN source[c]
                                 /\ rest[k] = source[c][k + 1]
      BY <2>4
    <3>1. /\ i + 1 \in DOMAIN source[c] /\ j + 1 \in DOMAIN source[c] /\ i + 1 < j + 1
          /\ rest[i] = source[c][i + 1] /\ rest[j] = source[c][j + 1]
      BY <3>0
    <3> QED BY <3>1, <1>2 DEF InOrder
  <2>11. \A o \in Range(rest) : h.n < o.n
    BY <2>4, <2>7, <1>2 DEF InOrder
  <2>12. \A f \in F : \A o \in Range(rest) : f.op.n < o.n
    BY <2>3, <2>6, <2>8, <2>11, <1>2 DEF InOrder
  <2>13. \A f \in flight[c] : f.op.n < h.n /\ f.op \in Reds(c)
    BY <2>5, <1>2 DEF InOrder, Reds
  <2>14. h \in Reds(c) /\ h.n \in Nat
    BY <2>5, <1>1 DEF Reds
  <2>15. \A f \in flight[c] : f.op.n \in Nat
    BY <2>13, <1>1
  <2>16. \A f, g \in F : f.op = g.op => f = g
    BY <2>3, <2>6, <2>13, <2>14, <2>15, <1>2 DEF InOrder
  <2>17. ASSUME NEW f \in F, NEW g \in F, f.issued, g.op.n < f.op.n
         PROVE  g.issued /\ Apart(f.op, g.op)
    <3>1. f \in flight[c]
      BY <2>3, <2>6, <2>17
    <3>2. g \in flight[c]
      BY <2>3, <2>6, <2>13, <2>14, <2>15, <2>17, <3>1
    <3> QED BY <3>1, <3>2, <2>17, <1>2 DEF InOrder
  <2>18. \A f \in F : f.op \in Reds(c)
    BY <2>3, <2>6, <2>13, <2>14
  <2> QED BY <1>1, <2>3, <2>6, <2>9, <2>10, <2>12, <2>16, <2>17, <2>18 DEF Admitted
<1> QED BY <1>3, <1>4

\* What serviceL3Reduction does to a core's records: send are those it sends.
Sends(c, sent) == {f \in Issuable(Admit(c)) : f.op \in sent}
Serviced(c, sent, F, send) ==
    /\ send \subseteq F /\ \A f \in send : ~ f.issued
    /\ sent = {f.op : f \in send}
    /\ \A f \in send : \A g \in F : g.op.n < f.op.n => g.issued /\ Apart(f.op, g.op)
    /\ source' = [source EXCEPT ![c] = Remaining(c)]
    /\ flight' = [flight EXCEPT ![c] =
                    (F \ send) \cup {[op |-> f.op, issued |-> TRUE] : f \in send}]
    /\ pending' = pending /\ credit' = credit /\ table' = table

LEMMA ServiceIs ==
  ASSUME SourceTypes, NEW c \in Cores, CoreInv(c), NEW sent, ServiceSource(c, sent)
  PROVE  Serviced(c, sent, Admit(c), Sends(c, sent))
<1>0. PICK F : F = Admit(c)
  OBVIOUS
<1>00. PICK send : send = Sends(c, sent)
  OBVIOUS
<1> SUFFICES Serviced(c, sent, F, send)
  BY <1>0, <1>00
<1>1. /\ F \subseteq [op : FitOps, issued : BOOLEAN] /\ \A f \in F : f.op \in Reds(c)
  BY <1>0, AdmitIs DEF Admitted
<1>2. /\ sent \subseteq {f.op : f \in Issuable(F)}
      /\ flight' = [flight EXCEPT ![c] =
                      (F \ send) \cup {[f EXCEPT !.issued = TRUE] : f \in send}]
      /\ pending' = pending /\ credit' = credit /\ table' = table
  BY <1>0, <1>00 DEF ServiceSource, Sends
<1>21. source' = [source EXCEPT ![c] = Remaining(c)]
  BY DEF ServiceSource, Remaining, SourceTypes
<1>3. send \subseteq F /\ \A f \in send : f \in Oldest(F) /\ ~ OlderOverlaps(f, F) /\ ~ f.issued
  BY <1>0, <1>00 DEF Issuable, Oldest, Sends
<1>4. sent = {f.op : f \in send}
  BY <1>0, <1>00, <1>2 DEF Sends
<1>5. ASSUME NEW f \in send
      PROVE  [f EXCEPT !.issued = TRUE] = [op |-> f.op, issued |-> TRUE]
  <2>1. f \in [op : FitOps, issued : BOOLEAN]
    BY <1>1, <1>3
  <2>2. PICK r : r = [f EXCEPT !.issued = TRUE]
    BY Zenon
  <2>3. r \in [op : FitOps, issued : BOOLEAN] /\ r.op = f.op /\ r.issued = TRUE
    BY ONLY <2>1, <2>2, Zenon
  <2>4. r = [op |-> r.op, issued |-> r.issued]
    BY ONLY <2>3
  <2> QED BY ONLY <2>2, <2>3, <2>4
<1>6. {[f EXCEPT !.issued = TRUE] : f \in send} = {[op |-> f.op, issued |-> TRUE] : f \in send}
  BY ONLY <1>5, Zenon
<1>7. ASSUME NEW f \in send, NEW g \in F, g.op.n < f.op.n
      PROVE  g.issued /\ Apart(f.op, g.op)
  <2>1. /\ f \in F /\ f.op \in FitOps /\ g.op \in FitOps /\ f.op.n \in Nat /\ g.op.n \in Nat
        /\ f.op.kind \in Reductions /\ g.op.kind \in Reductions /\ f.issued \in BOOLEAN
        /\ g.issued \in BOOLEAN
    BY <1>1, <1>3, RedsFit DEF CoreInv, Owned
  <2>2. g.issued
    BY <2>1, <1>3, <1>7 DEF Oldest
  <2>3. ~ Overlap(f.op.base, RowWays, g.op.base, RowWays)
    BY <2>2, <1>3, <1>7 DEF OlderOverlaps
  <2> QED BY <2>1, <2>2, <2>3, OverlapIs
<1> QED BY <1>2, <1>21, <1>3, <1>4, <1>6, <1>7, Zenon DEF Serviced

LEMMA ServiceCore ==
  ASSUME SourceTypes, NEW c \in Cores, CoreInv(c), NEW sent, ServiceSource(c, sent),
         UNCHANGED cpuVars
  PROVE  CoreInv(c)' /\ Reds(c)' = Reds(c)
<1>1. PICK F : F = Admit(c)
  OBVIOUS
<1>2. PICK send : send = Sends(c, sent)
  OBVIOUS
<1>3. PICK rest : rest = Remaining(c)
  OBVIOUS
<1>4. Admitted(c, F, rest)
  BY <1>1, <1>3, AdmitIs
<1>5. Serviced(c, sent, F, send)
  BY <1>1, <1>2, ServiceIs
<1>6. /\ source'[c] = rest
      /\ flight'[c] = (F \ send) \cup {[op |-> f.op, issued |-> TRUE] : f \in send}
  BY <1>3, <1>5 DEF SourceTypes, Serviced
<1>7. ASSUME NEW h \in flight'[c]
      PROVE  \E f \in F : /\ f.op = h.op /\ h.issued = (f.issued \/ f \in send)
                          /\ h = IF f \in send THEN [op |-> f.op, issued |-> TRUE] ELSE f
  <2>1. CASE h \in F \ send
    BY <2>1, <1>4 DEF Admitted
  <2>2. CASE \E f \in send : h = [op |-> f.op, issued |-> TRUE]
    <3>1. PICK f \in send : h = [op |-> f.op, issued |-> TRUE]
      BY <2>2, Zenon
    <3>2. f \in F /\ h.op = f.op /\ h.issued = TRUE
      BY <3>1, <1>5 DEF Serviced
    <3>3. h.issued = (f.issued \/ f \in send)
      BY <3>1, <3>2, Zenon
    <3> QED BY <3>1, <3>2, <3>3, Zenon
  <2> QED BY <1>6, <2>1, <2>2
<1>8. {f.op : f \in flight'[c]} = {f.op : f \in F}
  <2>1. \A f \in F : \E h \in flight'[c] : h.op = f.op
    <3> SUFFICES ASSUME NEW f \in F PROVE \E h \in flight'[c] : h.op = f.op
      OBVIOUS
    <3>1. CASE f \in send
      <4>1. [op |-> f.op, issued |-> TRUE] \in flight'[c]
        BY <3>1, <1>6, Zenon
      <4> QED BY <4>1
    <3>2. CASE f \notin send
      BY <3>2, <1>6
    <3> QED BY <3>1, <3>2
  <2> QED BY <1>7, <2>1
<1>9. Reds(c)' = Reds(c)
  BY <1>4, <1>6, <1>8 DEF Reds, Admitted
<1>10. InOrder(c)'
  <2>1. \A h \in flight'[c] : \A o \in Range(source'[c]) : h.op.n < o.n
    BY <1>4, <1>6, <1>7 DEF Admitted
  <2>2. \A h, k \in flight'[c] : h.op = k.op => h = k
    BY <1>4, <1>7 DEF Admitted
  <2>3. ASSUME NEW h \in flight'[c], NEW k \in flight'[c], h.issued, k.op.n < h.op.n
        PROVE  k.issued /\ Apart(h.op, k.op)
    <3>1. PICK f \in F : f.op = h.op /\ h.issued = (f.issued \/ f \in send)
      BY <1>7
    <3>2. PICK g \in F : g.op = k.op /\ k.issued = (g.issued \/ g \in send)
      BY <1>7
    <3>3. g.op.n < f.op.n /\ (f.issued \/ f \in send)
      BY <2>3, <3>1, <3>2, Zenon
    <3>4. g.issued /\ Apart(f.op, g.op)
      BY <3>3, <1>4, <1>5 DEF Admitted, Serviced
    <3> QED BY <3>1, <3>2, <3>4, Zenon
  <2> QED BY <1>4, <1>6, <2>1, <2>2, <2>3 DEF InOrder, Admitted
<1>11. Owned(c)' /\ NoHazard(c)' /\ CountedOps(c)'
  BY <1>5, <1>9, Zenon DEF Serviced, CoreInv, Owned, NoHazard, CountedOps, cpuVars
<1> QED BY <1>9, <1>10, <1>11 DEF CoreInv

-----------------------------------------------------------------------------
\* completeL3Reduction.
LEMMA CompleteReductionCore ==
  ASSUME SourceTypes, CountersTyped, NEW op \in FitOps, NEW c \in Cores, c = op.core,
         CoreInv(c), [op |-> op, issued |-> TRUE] \in flight[c],
         CompleteReduction(op), UNCHANGED cpuVars
  PROVE  CoreInv(c)' /\ CountersTyped'
<1>1. /\ flight' = [flight EXCEPT ![c] = {f \in @ : f.op # op}]
      /\ pending' = Charge(pending, op, -1)
      /\ credit' = [credit EXCEPT ![c] = @ - 1]
      /\ source' = source /\ table' = table
  BY DEF CompleteReduction
<1>2. flight'[c] = {f \in flight[c] : f.op # op} /\ flight'[c] \subseteq flight[c]
  BY <1>1 DEF SourceTypes
<1>3. op \in Reds(c) /\ op.n \in Nat /\ op.kind \in Reductions
  <2>1. op \in Reds(c)
    BY DEF Reds
  <2> QED BY <2>1, RedsFit DEF CoreInv, Owned
<1>4. op \notin Range(source[c])
  BY <1>3 DEF CoreInv, InOrder
<1>5. Reds(c)' = Reds(c) \ {op}
  BY <1>1, <1>2, <1>4 DEF Reds
<1>6. Owned(c)'
  BY <1>1, <1>5 DEF CoreInv, Owned, cpuVars
<1>7. InOrder(c)'
  BY <1>1, <1>2 DEF CoreInv, InOrder
<1>8. NoHazard(c)'
  BY <1>1, <1>5 DEF CoreInv, NoHazard
<1>9. PICK T : T = Reds(c)
  OBVIOUS
<1>10. PICK S : S = Reds(c)'
  OBVIOUS
<1>11. IsFiniteSet(T) /\ S \subseteq T /\ op \notin S /\ T = S \cup {op} /\ op \in T
  BY <1>3, <1>5, <1>9, <1>10 DEF CoreInv, CountedOps
<1>12. IsFiniteSet(S)
  BY <1>11, FS_Subset
<1>13. /\ Cardinality(T) = Cardinality(S) + 1
       /\ \A w : Cardinality({x \in T : w \in Touched(x)}) =
                   IF w \in Touched(op) THEN Cardinality({x \in S : w \in Touched(x)}) + 1
                   ELSE Cardinality({x \in S : w \in Touched(x)})
  BY ONLY <1>11, <1>12, CountMore
<1>14. /\ Cardinality(S) \in Nat
       /\ \A w : Cardinality({x \in S : w \in Touched(x)}) \in Nat
  <2>1. \A w : {x \in S : w \in Touched(x)} \in SUBSET S
    OBVIOUS
  <2>2. \A w : IsFiniteSet({x \in S : w \in Touched(x)})
    BY <1>12, <2>1, FS_Subset
  <2> QED BY <1>12, <2>2, FS_CardinalityType
<1>15. Touched(op) = Slots(op.base, RowWays)
  BY <1>3, OverlapIs
<1>16. /\ credit'[c] = credit[c] - 1
       /\ \A w \in Way : pending'[c][w] =
             IF w \in Touched(op) THEN pending[c][w] + (-1) ELSE pending[c][w]
  BY <1>1, <1>15 DEF Charge, CountersTyped
<1>17. /\ credit[c] = Cardinality(T)
       /\ \A w \in Way : pending[c][w] = Cardinality({x \in T : w \in Touched(x)})
  BY <1>9 DEF CoreInv, CountedOps
<1>18. credit'[c] = Cardinality(S)
  BY <1>13, <1>14, <1>16, <1>17
<1>19. ASSUME NEW w \in Way PROVE pending'[c][w] = Cardinality({x \in S : w \in Touched(x)})
  <2>1. PICK m \in Nat : m = Cardinality({x \in S : w \in Touched(x)})
    BY <1>14, Zenon
  <2>2. pending[c][w] = IF w \in Touched(op) THEN m + 1 ELSE m
    BY <1>13, <1>17, <2>1, Zenon
  <2>3. pending'[c][w] = m
    BY <1>16, <2>1, <2>2
  <2> QED BY <2>1, <2>3
<1>20. CountedOps(c)'
  BY <1>10, <1>12, <1>18, <1>19 DEF CountedOps
<1>21. CountersTyped'
  <2>1. credit' \in [Cores -> Nat]
    BY <1>1, <1>14, <1>18 DEF CountersTyped
  <2>2. pending' = [pending EXCEPT ![c] = pending'[c]] /\ pending'[c] \in [Way -> Nat]
    <3>1. \A w \in Way : pending'[c][w] \in Nat
      BY <1>14, <1>19, Zenon
    <3>2. /\ pending'[c] = [w \in Way |-> pending'[c][w]]
          /\ pending' = [pending EXCEPT ![c] = pending'[c]]
      BY <1>1, Zenon DEF Charge, CountersTyped
    <3> QED BY <3>1, <3>2
  <2>3. pending' \in [Cores -> [Way -> Nat]]
    BY <2>2 DEF CountersTyped
  <2> QED BY <2>1, <2>3 DEF CountersTyped
<1> QED BY <1>6, <1>7, <1>8, <1>20, <1>21, Zenon DEF CoreInv

\* The answer to any other access.
LEMMA CompleteAccessCore ==
  ASSUME SourceTypes, NEW op, NEW c \in Cores, c = op.core, CoreInv(c),
         CompleteAccess(op), UNCHANGED cpuVars
  PROVE  CoreInv(c)'
<1>1. /\ table'[c] \subseteq table[c] /\ source' = source /\ flight' = flight
      /\ pending' = pending /\ credit' = credit
  BY DEF CompleteAccess, SourceTypes
<1>2. Reds(c)' = Reds(c)
  BY <1>1 DEF Reds
<1>3. Owned(c)'
  BY <1>1, <1>2 DEF CoreInv, Owned, cpuVars
<1>4. NoHazard(c)'
  BY <1>1, <1>2 DEF CoreInv, NoHazard
<1>5. CountedOps(c)'
  BY <1>1, <1>2 DEF CoreInv, CountedOps
<1>6. InOrder(c)'
  BY <1>1, Zenon DEF CoreInv, InOrder
<1> QED BY <1>3, <1>4, <1>5, <1>6 DEF CoreInv

\* A core whose barrier may pass has nothing outstanding.
LEMMA NotBusyIdle ==
  ASSUME NEW c, CoreInv(c), ~ Busy(c)
  PROVE  Reds(c) = {} /\ table[c] = {}
BY FS_EmptySet, Zenon DEF Busy, CoreInv, CountedOps

LEMMA SourceStep ==
  ASSUME SourceTypes, ProgramInv, SourceInv, PlaceInv, [Next]_vars
  PROVE  SourceInv'
<1>0. CountersTyped /\ \A c \in Cores : CoreInv(c)
  BY DEF SourceInv, CoreInv
<1> SUFFICES CountersTyped' /\ \A c \in Cores : CoreInv(c)'
  BY DEF SourceInv, CoreInv
<1>1. CASE UNCHANGED sourceVars /\ phase' = phase /\ issued \subseteq issued'
           /\ arrived' \subseteq arrived
  <2>1. /\ source' = source /\ flight' = flight /\ table' = table
        /\ pending' = pending /\ credit' = credit
    BY <1>1 DEF sourceVars
  <2>2. ASSUME NEW c \in Cores PROVE CoreInv(c)'
    <3>1. CoreInv(c)
      BY <1>0
    <3> QED BY <1>1, <2>1, <3>1, CoreSame
  <2> QED BY <1>0, <2>1, <2>2 DEF CountersTyped
<1>2. ASSUME NEW op \in Asked, Issue(op) PROVE CountersTyped' /\ \A c \in Cores : CoreInv(c)'
  <2>1. Numbered
    BY DEF ProgramInv
  <2>2. /\ op \in FitOps /\ op.core \in Cores /\ phase' = phase /\ arrived' = arrived
        /\ issued \subseteq issued'
    BY <1>2, <2>1, IssueIs
  <2>3. CASE AcceptReduction(op)
    <3>1. /\ pending' = Charge(pending, op, 1)
          /\ credit' = [credit EXCEPT ![op.core] = @ + 1]
          /\ source' = [source EXCEPT ![op.core] = Append(@, op)]
          /\ flight' = flight /\ table' = table
      BY <2>3 DEF AcceptReduction
    <3>2. ASSUME NEW c \in Cores, c # op.core PROVE CoreInv(c)'
      <4>1. /\ source'[c] = source[c] /\ flight'[c] = flight[c] /\ table'[c] = table[c]
            /\ pending'[c] = pending[c] /\ credit'[c] = credit[c]
        BY <3>1, <3>2 DEF Charge
      <4>2. CoreInv(c)
        BY <1>0
      <4> QED BY <2>2, <4>1, <4>2, CoreSame
    <3>3. CoreInv(op.core)'
      BY <1>0, <1>2, <2>1, <2>2, <2>3, AcceptReductionCore
    <3>4. CountersTyped'
      BY <1>0, <2>2, <3>1 DEF CountersTyped, Charge
    <3> QED BY <3>2, <3>3, <3>4
  <2>4. CASE AcceptAccess(op)
    <3>1. /\ table' = [table EXCEPT ![op.core] = @ \cup {op}]
          /\ source' = source /\ flight' = flight /\ pending' = pending /\ credit' = credit
      BY <2>4 DEF AcceptAccess
    <3>2. ASSUME NEW c \in Cores, c # op.core PROVE CoreInv(c)'
      <4>1. table'[c] = table[c]
        BY <3>1, <3>2
      <4>2. CoreInv(c)
        BY <1>0
      <4> QED BY <2>2, <3>1, <4>1, <4>2, CoreSame
    <3>3. CoreInv(op.core)'
      BY <1>0, <1>2, <2>1, <2>2, <2>4, AcceptAccessCore
    <3> QED BY <1>0, <3>1, <3>2, <3>3 DEF CountersTyped
  <2> QED BY <1>2, <2>3, <2>4 DEF Issue
<1>3. ASSUME NEW c \in Cores, Service(c) PROVE CountersTyped' /\ \A d \in Cores : CoreInv(d)'
  <2>1. PICK sent : ServiceSource(c, sent) /\ UNCHANGED cpuVars
    BY <1>3 DEF Service
  <2>2. /\ \A d \in Cores : d # c => source'[d] = source[d] /\ flight'[d] = flight[d]
        /\ pending' = pending /\ credit' = credit /\ table' = table
        /\ phase' = phase /\ issued' = issued /\ arrived' = arrived
    BY <2>1 DEF ServiceSource, cpuVars
  <2>3. ASSUME NEW d \in Cores, d # c PROVE CoreInv(d)'
    <3>1. CoreInv(d)
      BY <1>0
    <3> QED BY <2>2, <2>3, <3>1, CoreSame
  <2>4. CoreInv(c)'
    BY <1>0, <2>1, ServiceCore
  <2> QED BY <1>0, <2>2, <2>3, <2>4 DEF CountersTyped
<1>4. ASSUME NEW r \in replies, Complete(r) PROVE CountersTyped' /\ \A d \in Cores : CoreInv(d)'
  <2>1. PICK op, c : op = r.op /\ c = op.core
    OBVIOUS
  <2>2. Outstanding(op)
    BY <2>1 DEF PlaceInv, Sent, Replied
  <2>3. c \in Cores /\ CoreInv(c) /\ UNCHANGED cpuVars
    BY <1>0, <1>4, <2>1, <2>2 DEF Outstanding, Complete
  <2>4. CASE op.kind \in Reductions
    <3>1. CompleteReduction(op)
      BY <1>4, <2>1, <2>4 DEF Complete
    <3>2. [op |-> op, issued |-> TRUE] \in flight[c]
      BY <2>1, <2>2, <2>3, <2>4 DEF Outstanding, CoreInv, Owned
    <3>3. op \in FitOps
      BY <2>3, <3>2 DEF SourceTypes
    <3>4. CoreInv(c)' /\ CountersTyped'
      BY <1>0, <2>1, <2>3, <3>1, <3>2, <3>3, CompleteReductionCore
    <3>5. ASSUME NEW d \in Cores, d # c PROVE CoreInv(d)'
      <4>1. /\ source'[d] = source[d] /\ flight'[d] = flight[d] /\ table'[d] = table[d]
            /\ pending'[d] = pending[d] /\ credit'[d] = credit[d]
        BY <2>1, <3>1, <3>5 DEF CompleteReduction, Charge
      <4>2. CoreInv(d) /\ phase' = phase /\ issued' = issued /\ arrived' = arrived
        BY <1>0, <2>3 DEF cpuVars
      <4> QED BY <4>1, <4>2, CoreSame
    <3> QED BY <3>4, <3>5
  <2>5. CASE op.kind \notin Reductions
    <3>1. CompleteAccess(op)
      BY <1>4, <2>1, <2>5 DEF Complete
    <3>2. CoreInv(c)'
      BY <2>1, <2>3, <3>1, CompleteAccessCore
    <3>3. /\ \A d \in Cores : d # c => table'[d] = table[d]
          /\ source' = source /\ flight' = flight /\ pending' = pending /\ credit' = credit
      BY <2>1, <3>1 DEF CompleteAccess
    <3>4. ASSUME NEW d \in Cores, d # c PROVE CoreInv(d)'
      <4>1. CoreInv(d) /\ phase' = phase /\ issued' = issued /\ arrived' = arrived
        BY <1>0, <2>3 DEF cpuVars
      <4> QED BY <3>3, <3>4, <4>1, CoreSame
    <3> QED BY <1>0, <3>2, <3>3, <3>4 DEF CountersTyped
  <2> QED BY <2>4, <2>5
<1>5. ASSUME NEW c \in Cores, Barrier(c) PROVE CountersTyped' /\ \A d \in Cores : CoreInv(d)'
  <2>1. /\ source' = source /\ flight' = flight /\ table' = table
        /\ pending' = pending /\ credit' = credit
        /\ phase' = phase /\ issued' = issued /\ arrived' = arrived \cup {c} /\ ~ Busy(c)
    BY <1>5 DEF Barrier, sourceVars
  <2>2. ASSUME NEW d \in Cores, d # c PROVE CoreInv(d)'
    <3>1. CoreInv(d)
      BY <1>0
    <3> QED BY <2>1, <2>2, <3>1, CoreSame
  <2>3. CoreInv(c)'
    <3>1. Reds(c) = {} /\ table[c] = {} /\ CoreInv(c)
      BY <1>0, <2>1, NotBusyIdle
    <3>2. Reds(c)' = Reds(c)
      BY <2>1 DEF Reds
    <3> QED BY <2>1, <3>1, <3>2, Zenon DEF CoreInv, Owned, InOrder, NoHazard, CountedOps
  <2> QED BY <1>0, <2>1, <2>2, <2>3 DEF CountersTyped
<1>6. ASSUME NextPhase PROVE CountersTyped' /\ \A d \in Cores : CoreInv(d)'
  <2>1. /\ source' = source /\ flight' = flight /\ table' = table
        /\ pending' = pending /\ credit' = credit
        /\ issued' = issued /\ arrived = Cores /\ arrived' = {}
    BY <1>6 DEF NextPhase, sourceVars
  <2>2. ASSUME NEW c \in Cores PROVE CoreInv(c)'
    <3>1. Reds(c) = {} /\ table[c] = {} /\ CoreInv(c)
      BY <1>0, <2>1, Zenon DEF CoreInv, Owned
    <3>2. Reds(c)' = Reds(c)
      BY <2>1 DEF Reds
    <3> QED BY <2>1, <3>1, <3>2, Zenon DEF CoreInv, Owned, InOrder, NoHazard, CountedOps
  <2> QED BY <1>0, <2>1, <2>2 DEF CountersTyped
<1>7. CASE \/ \E op \in toBank : Deliver(op)
           \/ BankRuns \/ TimerExpires \/ UNCHANGED vars
  BY <1>1, <1>7 DEF Deliver, BankRuns, TimerExpires, vars, cpuVars
<1> QED BY <1>2, <1>3, <1>4, <1>5, <1>6, <1>7 DEF Next

-----------------------------------------------------------------------------
\* How a step of the bank moves operations.
InboxOnce == \A i, j \in DOMAIN inbox : inbox[i].op = inbox[j].op => i = j

LEMMA InboxSame ==
  ASSUME InboxOnce, DOMAIN inbox' = DOMAIN inbox,
         \A i \in DOMAIN inbox : inbox'[i].op = inbox[i].op
  PROVE  Inboxed' = Inboxed /\ InboxOnce'
BY DEF Inboxed, InboxOnce

LEMMA InboxPop ==
  ASSUME BankTypes, InboxOnce, NEW i \in DOMAIN inbox, inbox' = Pop(inbox, i)
  PROVE  Inboxed' = Inboxed \ {inbox[i].op} /\ InboxOnce'
<1>1. inbox \in Seq(Requests) /\ Len(inbox) \in Nat /\ DOMAIN inbox = 1 .. Len(inbox)
  BY LenProperties DEF BankTypes
<1>2. /\ DOMAIN inbox' = 1 .. Len(inbox) - 1
      /\ \A k \in DOMAIN inbox' :
            /\ k \in DOMAIN inbox /\ k + 1 \in DOMAIN inbox
            /\ inbox'[k] = IF k < i THEN inbox[k] ELSE inbox[k + 1]
  BY <1>1, PopIs
<1>3. InboxOnce'
  <2> SUFFICES ASSUME NEW k \in DOMAIN inbox', NEW m \in DOMAIN inbox',
                      inbox'[k].op = inbox'[m].op
               PROVE  k = m
    BY DEF InboxOnce
  <2>1. PICK x \in DOMAIN inbox : inbox'[k] = inbox[x] /\ x = IF k < i THEN k ELSE k + 1
    BY <1>2
  <2>2. PICK y \in DOMAIN inbox : inbox'[m] = inbox[y] /\ y = IF m < i THEN m ELSE m + 1
    BY <1>2
  <2>3. x = y
    BY <2>1, <2>2 DEF InboxOnce
  <2> QED BY <2>1, <2>2, <2>3, <1>1, <1>2
<1>4. ASSUME NEW o \in Inboxed' PROVE o \in Inboxed /\ o # inbox[i].op
  <2>1. PICK k \in DOMAIN inbox' : o = inbox'[k].op
    BY <1>4 DEF Inboxed
  <2>2. PICK x \in DOMAIN inbox : inbox'[k] = inbox[x] /\ x = IF k < i THEN k ELSE k + 1
    BY <1>2
  <2>3. x # i
    BY <2>2, <1>1, <1>2
  <2> QED BY <2>1, <2>2, <2>3 DEF Inboxed, InboxOnce
<1>5. ASSUME NEW o \in Inboxed, o # inbox[i].op PROVE o \in Inboxed'
  <2>1. PICK x \in DOMAIN inbox : o = inbox[x].op
    BY <1>5 DEF Inboxed
  <2>2. x # i
    BY <1>5, <2>1
  <2>3. CASE x < i
    <3>1. x \in DOMAIN inbox' /\ inbox'[x] = inbox[x]
      BY <1>1, <1>2, <2>3
    <3> QED BY <2>1, <3>1 DEF Inboxed
  <2>4. CASE x > i
    <3>1. x - 1 \in DOMAIN inbox' /\ x - 1 + 1 = x /\ ~ (x - 1 < i)
      BY <1>1, <1>2, <2>4
    <3>2. inbox'[x - 1] = inbox[x]
      BY <1>2, <3>1
    <3> QED BY <2>1, <3>1, <3>2 DEF Inboxed
  <2> QED BY <1>1, <2>2, <2>3, <2>4
<1> QED BY <1>3, <1>4, <1>5

LEMMA InboxArrives ==
  ASSUME BankTypes, InboxOnce, NEW op \in FitOps, op \notin Inboxed,
         inbox' = Append(inbox, [op |-> op, on |-> Unlocked])
  PROVE  Inboxed' = Inboxed \cup {op} /\ InboxOnce'
<1>1. inbox \in Seq(Requests) /\ Len(inbox) \in Nat /\ DOMAIN inbox = 1 .. Len(inbox)
  BY LenProperties DEF BankTypes
<1>2. /\ DOMAIN inbox' = 1 .. Len(inbox) + 1
      /\ \A k \in DOMAIN inbox : inbox'[k] = inbox[k]
      /\ inbox'[Len(inbox) + 1] = [op |-> op, on |-> Unlocked]
  BY <1>1
<1>3. inbox'[Len(inbox) + 1].op = op /\ Len(inbox) + 1 \in DOMAIN inbox'
  BY <1>1, <1>2
<1>4. \A k \in DOMAIN inbox' : k \in DOMAIN inbox \/ k = Len(inbox) + 1
  BY <1>1, <1>2
<1>5. DOMAIN inbox \subseteq DOMAIN inbox'
  BY <1>1, <1>2
<1>6. Inboxed' = Inboxed \cup {op}
  BY <1>2, <1>3, <1>4, <1>5 DEF Inboxed
<1>7. InboxOnce'
  BY <1>2, <1>3, <1>4 DEF InboxOnce, Inboxed
<1> QED BY <1>6, <1>7

\* A command that finishes leaves the engine; its answer is in the network.
LEMMA FinishMoves ==
  ASSUME BankInv, InboxOnce, NEW b \in Way, FinishStep(b)
  PROVE  LET op == tbe[b].op IN
         /\ op \in Engaged /\ b \in Captured
         /\ Inboxed' = Inboxed /\ InboxOnce' /\ Engaged' = Engaged \ {op}
         /\ replies' = replies \cup {[op |-> op, value |-> Result(op)]}
<1>1. BankTypes /\ LocksExact /\ UpdateCurrent
  BY DEF BankInv
<1>2. Finish(b, tbe[b].result) /\ Answers(tbe[b].op, tbe[b].result)
  BY DEF FinishStep
<1>3. /\ b \in Captured /\ tbe[b].result = Result(tbe[b].op)
      /\ Captured' = Captured \ {b} /\ \A d \in Way : d # b => tbe'[d] = tbe[d]
  BY <1>1, <1>2, FinishIs
<1>4. \A d \in Captured : d \in Way /\ tbe[d].op.base = d
  BY <1>1, CapturedIs
<1>5. Engaged' = Engaged \ {tbe[b].op} /\ tbe[b].op \in Engaged
  BY <1>3, <1>4 DEF Engaged
<1>6. inbox' = inbox
  BY <1>1, <1>2, ReanalyzeIs DEF Finish
<1>7. Inboxed' = Inboxed /\ InboxOnce'
  BY <1>6 DEF Inboxed, InboxOnce
<1> QED BY <1>2, <1>3, <1>5, <1>7 DEF Answers

\* A captured command leaves the port for the engine.
LEMMA CaptureMoves ==
  ASSUME BankInv, InboxOnce, Waiting # {}, NEW i, i = HeadIndex,
         NEW op, op = inbox[i].op, Capture(i, op)
  PROVE  /\ op \in Inboxed /\ op \in FitOps
         /\ Inboxed' = Inboxed \ {op} /\ InboxOnce' /\ Engaged' = Engaged \cup {op}
<1>1. BankTypes /\ LocksExact
  BY DEF BankInv
<1>2. /\ op \in FitOps /\ op.base \in Way /\ op.base \notin Captured
      /\ Captured' = Captured \cup {op.base} /\ tbe'[op.base] = [st |-> "queued", op |-> op]
      /\ \A d \in Way : d # op.base => tbe'[d] = tbe[d]
      /\ i \in DOMAIN inbox /\ inbox' = Pop(inbox, i)
  BY <1>1, CaptureIs
<1>3. tbe'[op.base].op = op /\ \A d \in Captured : tbe'[d].op = tbe[d].op
  <2>1. \A d \in Captured : d \in Way /\ d # op.base
    BY ONLY <1>2 DEF Captured
  <2>2. [st |-> "queued", op |-> op].op = op
    OBVIOUS
  <2> QED BY ONLY <1>2, <2>1, <2>2
<1>4. Engaged' = Engaged \cup {op}
  BY ONLY <1>2, <1>3 DEF Engaged
<1>5. Inboxed' = Inboxed \ {op} /\ InboxOnce' /\ op \in Inboxed
  BY <1>1, <1>2, InboxPop, Zenon DEF Inboxed
<1> QED BY <1>2, <1>4, <1>5

LEMMA AccessMoves ==
  ASSUME BankInv, InboxOnce, Waiting # {}, NEW i, i = HeadIndex,
         NEW op, op = inbox[i].op, NEW out, Access(i, op, out)
  PROVE  /\ op \in Inboxed /\ op \in FitOps
         /\ Inboxed' = Inboxed \ {op} /\ InboxOnce' /\ Engaged' = Engaged
<1>1. BankTypes
  BY DEF BankInv
<1>2. i \in DOMAIN inbox /\ op \in FitOps
  BY <1>1, HeadWaits
<1>3. inbox' = Pop(inbox, i) /\ tbe' = tbe
  BY DEF Access, engineVars
<1>4. Engaged' = Engaged
  BY <1>3 DEF Engaged, Captured
<1> QED BY <1>1, <1>2, <1>3, <1>4, InboxPop DEF Inboxed

\* Any other step of the bank moves nothing.
Quiet ==
    \/ ReduceStart \/ Sleep \/ ServiceExpires \/ IssueExpires
    \/ \E b \in Way : ReductionExpires(b)
    \/ Waiting # {} /\ \/ ReduceWait(HeadIndex, inbox[HeadIndex].op)
                       \/ EvictVictim(HeadIndex, inbox[HeadIndex].op)
LEMMA QuietMoves ==
  ASSUME BankInv, InboxOnce, Quiet
  PROVE  /\ Inboxed' = Inboxed /\ InboxOnce' /\ Engaged' = Engaged
         /\ claimed' = claimed /\ data' = data
<1>1. BankTypes /\ LocksExact
  BY DEF BankInv
<1>2. CASE ReduceStart
  <2>1. inbox' = inbox /\ claimed' = claimed /\ data' = data
    BY <1>2 DEF ReduceStart, slotVars
  <2>2. Captured' = Captured /\ \A d \in Captured : tbe'[d].op = tbe[d].op
    BY <1>1, <1>2, StartIs, Zenon
  <2>3. Engaged' = Engaged
    BY <2>2 DEF Engaged
  <2> QED BY <2>1, <2>3 DEF Inboxed, InboxOnce
<1>3. CASE Sleep \/ ServiceExpires \/ IssueExpires
  <2>1. inbox' = inbox /\ tbe' = tbe /\ claimed' = claimed /\ data' = data
    BY <1>3 DEF Sleep, ServiceExpires, IssueExpires, slotVars, engineVars
  <2> QED BY <2>1 DEF Inboxed, InboxOnce, Engaged, Captured
<1>4. ASSUME NEW b \in Way, ReductionExpires(b)
      PROVE  /\ Inboxed' = Inboxed /\ InboxOnce' /\ Engaged' = Engaged
             /\ claimed' = claimed /\ data' = data
  <2>1. /\ inbox' = inbox /\ claimed' = claimed /\ data' = data
        /\ tbe' = [tbe EXCEPT ![b].st = "expired"] /\ tbe[b].st = "running"
    BY <1>4 DEF ReductionExpires, slotVars
  <2>2. DOMAIN tbe = Way /\ b \in Captured
    BY <1>1, <2>1 DEF BankTypes, Captured
  <2>3. DOMAIN tbe[b] = {"st", "op", "result"}
    BY <1>1, <2>1, <2>2, CapturedIs
  <2>4. /\ tbe'[b].st = "expired" /\ tbe'[b].op = tbe[b].op
        /\ \A d \in Way : d # b => tbe'[d] = tbe[d]
    BY <2>1, <2>2, <2>3
  <2>5. Captured' = Captured
    BY <2>2, <2>4 DEF Captured
  <2>6. \A d \in Captured : tbe'[d].op = tbe[d].op
    BY <2>4 DEF Captured
  <2>7. Engaged' = Engaged
    BY <2>5, <2>6 DEF Engaged
  <2> QED BY <2>1, <2>7 DEF Inboxed, InboxOnce
<1>5. CASE Waiting # {} /\ ReduceWait(HeadIndex, inbox[HeadIndex].op)
  <2>1. PICK i : i = HeadIndex
    OBVIOUS
  <2>2. i \in DOMAIN inbox
    BY <1>1, <1>5, <2>1, HeadWaits
  <2>3. /\ inbox' = [inbox EXCEPT ![i].on = Conflict(inbox[i].op)]
        /\ tbe' = tbe /\ claimed' = claimed /\ data' = data
    BY <1>5, <2>1 DEF ReduceWait, slotVars, engineVars
  <2>4. inbox[i] \in Requests
    BY <1>1, <2>2, ElementOfSeq, LenProperties DEF BankTypes
  <2>5. inbox'[i].op = inbox[i].op /\ DOMAIN inbox' = DOMAIN inbox
    BY <2>2, <2>3, <2>4 DEF Requests
  <2>6. \A k \in DOMAIN inbox : inbox'[k].op = inbox[k].op
    BY <2>2, <2>3, <2>5
  <2>7. Engaged' = Engaged
    BY <2>3 DEF Engaged, Captured
  <2> QED BY <2>3, <2>5, <2>6, <2>7, InboxSame
<1>6. CASE Waiting # {} /\ EvictVictim(HeadIndex, inbox[HeadIndex].op)
  <2>1. inbox' = inbox /\ tbe' = tbe /\ claimed' = claimed /\ data' = data
    BY <1>6 DEF EvictVictim, engineVars
  <2> QED BY <2>1 DEF Inboxed, InboxOnce, Engaged, Captured
<1> QED BY <1>2, <1>3, <1>4, <1>5, <1>6 DEF Quiet

\* Every step of the bank is one of these.
LEMMA BankSteps ==
  ASSUME BankRuns \/ TimerExpires
  PROVE  /\ UNCHANGED <<sourceVars, toBank, cpuVars>>
         /\ \/ Quiet /\ replies' = replies
            \/ \E b \in Way : FinishStep(b)
            \/ /\ Waiting # {} /\ Capture(HeadIndex, inbox[HeadIndex].op)
               /\ replies' = replies
            \/ /\ Waiting # {}
               /\ \E out : /\ out = [w \in Touched(inbox[HeadIndex].op) |-> data[w]]
                           /\ Access(HeadIndex, inbox[HeadIndex].op, out)
                           /\ Answers(inbox[HeadIndex].op, out)
BY DEF BankRuns, TimerExpires, Quiet, HeadStepOf, netVars

-----------------------------------------------------------------------------
\* An outstanding operation was issued in this phase; one that was sent is
\* no longer waiting in its Sequencer.
LEMMA OutstandingIs ==
  ASSUME SourceTypes, SourceInv, NEW o, Outstanding(o)
  PROVE  /\ o.core \in Cores /\ o \in FitOps /\ [op |-> o, phase |-> phase] \in issued
         /\ \A c \in Cores : o \notin Unsent(c)
<1>1. PICK c \in Cores : c = o.core
  BY DEF Outstanding
<1>2. Owned(c) /\ InOrder(c)
  BY DEF SourceInv
<1>3. o \in Reds(c) \cup table[c]
  BY <1>1 DEF Outstanding, Reds
<1>4. o \in FitOps /\ o.n \in Nat
  BY <1>3, RedsFit
<1>5. ASSUME NEW d \in Cores, o \in Unsent(d) PROVE FALSE
  <2>1. o \in Reds(d)
    BY <1>5 DEF Unsent, Reds
  <2>2. d = c /\ o.kind \in Reductions
    BY <1>1, <2>1 DEF SourceInv, Owned
  <2>3. [op |-> o, issued |-> TRUE] \in flight[c]
    BY <1>1, <1>2, <2>2 DEF Outstanding, Owned
  <2>4. CASE o \in Range(source[c])
    BY <1>2, <1>4, <2>3, <2>4 DEF InOrder
  <2>5. CASE o \in {f.op : f \in {g \in flight[c] : ~ g.issued}}
    BY <1>2, <2>3, <2>5 DEF InOrder
  <2> QED BY <1>5, <2>2, <2>4, <2>5 DEF Unsent
<1> QED BY <1>1, <1>2, <1>3, <1>4, <1>5, Zenon DEF Owned

LEMMA RepliedMore ==
  ASSUME NEW op, NEW val, replies' = replies \cup {[op |-> op, value |-> val]}
  PROVE  Replied' = Replied \cup {op}
<1>1. PICK new : new = [op |-> op, value |-> val]
  BY Zenon
<1>2. new.op = op /\ replies' = replies \cup {new}
  BY <1>1
<1> QED BY <1>2 DEF Replied

LEMMA PlaceBank ==
  ASSUME BankInv, PlaceInv, BankRuns \/ TimerExpires
  PROVE  PlaceInv'
<1>1. /\ InboxOnce /\ toBank' = toBank /\ table' = table /\ flight' = flight
      /\ Sent' = toBank \cup Inboxed' \cup Engaged' \cup Replied'
  BY BankSteps DEF PlaceInv, InboxOnce, sourceVars, Sent
<1>2. \A o : Outstanding(o) => Outstanding(o)'
  BY <1>1 DEF Outstanding
<1>3. CASE /\ Inboxed' = Inboxed /\ InboxOnce' /\ Engaged' = Engaged /\ replies' = replies
  <2>1. Replied' = Replied
    BY <1>3 DEF Replied
  <2> QED BY <1>1, <1>2, <1>3, <2>1 DEF PlaceInv, Sent, InboxOnce
<1>4. ASSUME NEW b \in Way, FinishStep(b) PROVE PlaceInv'
  <2>1. PICK op, val : op = tbe[b].op /\ val = Result(op)
    OBVIOUS
  <2>2. /\ op \in Engaged /\ Inboxed' = Inboxed /\ InboxOnce' /\ Engaged' = Engaged \ {op}
        /\ replies' = replies \cup {[op |-> op, value |-> val]}
    BY <1>1, <1>4, <2>1, FinishMoves
  <2>3. Replied' = Replied \cup {op} /\ op \notin Replied
    BY <2>2, RepliedMore DEF PlaceInv
  <2>4. \A r, s \in replies' : r.op = s.op => r = s
    BY <2>2, <2>3 DEF PlaceInv, Replied
  <2> QED BY <1>1, <1>2, <2>2, <2>3, <2>4 DEF PlaceInv, Sent, InboxOnce
<1>5. ASSUME Waiting # {}, Capture(HeadIndex, inbox[HeadIndex].op), replies' = replies
      PROVE  PlaceInv'
  <2>1. PICK op : op = inbox[HeadIndex].op
    OBVIOUS
  <2>2. /\ op \in Inboxed /\ Inboxed' = Inboxed \ {op} /\ InboxOnce'
        /\ Engaged' = Engaged \cup {op}
    BY <1>1, <1>5, <2>1, CaptureMoves
  <2>3. Replied' = Replied
    BY <1>5 DEF Replied
  <2> QED BY <1>1, <1>2, <1>5, <2>2, <2>3 DEF PlaceInv, Sent, InboxOnce
<1>6. ASSUME Waiting # {}, NEW out, Access(HeadIndex, inbox[HeadIndex].op, out),
             Answers(inbox[HeadIndex].op, out)
      PROVE  PlaceInv'
  <2>1. PICK op : op = inbox[HeadIndex].op
    OBVIOUS
  <2>2. /\ op \in Inboxed /\ Inboxed' = Inboxed \ {op} /\ InboxOnce' /\ Engaged' = Engaged
    BY <1>1, <1>6, <2>1, AccessMoves
  <2>3. replies' = replies \cup {[op |-> op, value |-> out]}
    BY <1>6, <2>1 DEF Answers
  <2>4. Replied' = Replied \cup {op} /\ op \notin Replied
    BY <2>2, <2>3, RepliedMore DEF PlaceInv
  <2>5. \A r, s \in replies' : r.op = s.op => r = s
    BY <2>3, <2>4 DEF PlaceInv, Replied
  <2> QED BY <1>1, <1>2, <2>2, <2>4, <2>5 DEF PlaceInv, Sent, InboxOnce
<1>7. CASE Quiet /\ replies' = replies
  BY <1>1, <1>3, <1>7, QuietMoves
<1> QED BY <1>4, <1>5, <1>6, <1>7, BankSteps

\* What a core sends was waiting in its Sequencer.
LEMMA ServiceMoves ==
  ASSUME SourceTypes, SourceInv, NEW c \in Cores, NEW sent, ServiceSource(c, sent)
  PROVE  /\ sent \subseteq Unsent(c) /\ Unsent(c)' \cup sent = Unsent(c)
         /\ \A o \in sent : o.core = c /\ [op |-> o, issued |-> TRUE] \in flight'[c]
         /\ \A d \in Cores : d # c => Unsent(d)' = Unsent(d)
         /\ \A o : Outstanding(o) => Outstanding(o)'
<1>1. PICK F, send, rest : F = Admit(c) /\ send = Sends(c, sent) /\ rest = Remaining(c)
  OBVIOUS
<1>2. CoreInv(c)
  BY DEF SourceInv, CoreInv
<1>3. Admitted(c, F, rest) /\ Serviced(c, sent, F, send)
  BY <1>1, <1>2, AdmitIs, ServiceIs
<1>4. /\ source'[c] = rest
      /\ flight'[c] = (F \ send) \cup {[op |-> f.op, issued |-> TRUE] : f \in send}
      /\ \A d \in Cores : d # c => source'[d] = source[d] /\ flight'[d] = flight[d]
      /\ table' = table
  BY <1>1, <1>3, Zenon DEF Serviced, SourceTypes
<1>5. Unsent(c) = Range(rest) \cup {f.op : f \in {g \in F : ~ g.issued}}
  <2>1. F = IF Moves(c) THEN flight[c] \cup {[op |-> Head(source[c]), issued |-> FALSE]}
            ELSE flight[c]
    BY <1>1 DEF Admit
  <2>2. CASE Moves(c)
    <3>1. source[c] \in Seq(FitOps) /\ source[c] # <<>> /\ rest = Tail(source[c])
      BY <1>1, <2>2, RedsFit DEF Moves, Remaining
    <3>2. Range(source[c]) = Range(rest) \cup {Head(source[c])}
      <4>1. /\ Len(source[c]) \in Nat \ {0} /\ DOMAIN source[c] = 1 .. Len(source[c])
            /\ DOMAIN rest = 1 .. Len(source[c]) - 1 /\ Head(source[c]) = source[c][1]
            /\ \A i \in 1 .. Len(source[c]) - 1 : rest[i] = source[c][i + 1]
        BY <3>1, LenProperties, EmptySeq, HeadTailProperties
      <4>2. ASSUME NEW i \in DOMAIN source[c]
            PROVE  source[c][i] \in Range(rest) \cup {Head(source[c])}
        <5>1. CASE i = 1
          BY <4>1, <5>1
        <5>2. CASE i # 1
          <6>1. i - 1 \in DOMAIN rest /\ i - 1 + 1 = i
            BY <4>1, <5>2
          <6>2. rest[i - 1] = source[c][i]
            BY <4>1, <6>1
          <6> QED BY <6>1, <6>2 DEF Range
        <5> QED BY <5>1, <5>2
      <4>3. ASSUME NEW i \in DOMAIN rest PROVE rest[i] \in Range(source[c])
        <5>1. i + 1 \in DOMAIN source[c] /\ rest[i] = source[c][i + 1]
          BY <4>1
        <5> QED BY <5>1 DEF Range
      <4>4. Head(source[c]) \in Range(source[c])
        BY <4>1 DEF Range
      <4> QED BY <4>2, <4>3, <4>4 DEF Range
    <3>3. {f.op : f \in {g \in F : ~ g.issued}} =
             {f.op : f \in {g \in flight[c] : ~ g.issued}} \cup {Head(source[c])}
      <4>1. PICK h : h = [op |-> Head(source[c]), issued |-> FALSE]
        BY Zenon
      <4>2. F = flight[c] \cup {h} /\ h.op = Head(source[c]) /\ ~ h.issued
        BY <2>1, <2>2, <4>1
      <4> QED BY <4>2
    <3> QED BY <3>2, <3>3 DEF Unsent
  <2>3. CASE ~ Moves(c)
    <3>1. F = flight[c] /\ rest = source[c]
      BY <1>1, <2>1, <2>3 DEF Remaining
    <3> QED BY <3>1 DEF Unsent
  <2> QED BY <2>2, <2>3, Zenon
<1>6. /\ send \subseteq F /\ \A f \in send : ~ f.issued
      /\ sent = {f.op : f \in send} /\ \A f \in F : f.op \in Reds(c)
      /\ \A f, g \in F : f.op = g.op => f = g
      /\ flight[c] \subseteq F
  BY <1>3 DEF Admitted, Serviced
<1>7. \A f : f \in flight'[c] /\ ~ f.issued <=> f \in F \ send /\ ~ f.issued
  <2>1. \A f \in {[op |-> g.op, issued |-> TRUE] : g \in send} : f.issued
    OBVIOUS
  <2> QED BY ONLY <1>4, <2>1, Zenon
<1>8. Unsent(c)' = Range(rest) \cup {f.op : f \in {g \in F \ send : ~ g.issued}}
  BY <1>4, <1>7, Zenon DEF Unsent
<1>9. sent \subseteq Unsent(c) /\ Unsent(c)' \cup sent = Unsent(c)
  BY <1>5, <1>6, <1>8
<1>10. \A o \in sent : o.core = c /\ [op |-> o, issued |-> TRUE] \in flight'[c]
  <2>1. \A o \in Reds(c) : o.core = c
    BY <1>2, Zenon DEF CoreInv, Owned
  <2>2. \A f \in send : [op |-> f.op, issued |-> TRUE] \in flight'[c]
    BY ONLY <1>4, Zenon
  <2> QED BY ONLY <1>6, <2>1, <2>2, Zenon
<1>11. \A d \in Cores : d # c => Unsent(d)' = Unsent(d)
  BY <1>4 DEF Unsent
<1>12. ASSUME NEW o, Outstanding(o) PROVE Outstanding(o)'
  <2>1. ASSUME [op |-> o, issued |-> TRUE] \in flight[c]
        PROVE  [op |-> o, issued |-> TRUE] \in flight'[c]
    <3>1. PICK r : r = [op |-> o, issued |-> TRUE]
      BY Zenon
    <3>2. r.issued /\ r \in F
      BY <2>1, <1>6, <3>1
    <3> QED BY <1>4, <1>6, <3>1, <3>2
  <2> QED BY <1>4, <1>12, <2>1, Zenon DEF Outstanding
<1> QED BY <1>9, <1>10, <1>11, <1>12

LEMMA InTodo ==
  ASSUME NEW o
  PROVE  /\ o \in Todo <=> \/ \E c \in Cores : o \in Unsent(c)
                           \/ o \in toBank \/ o \in Inboxed \/ o \in Engaged
         /\ o \in Todo' <=> \/ \E c \in Cores : o \in Unsent(c)'
                            \/ o \in toBank' \/ o \in Inboxed' \/ o \in Engaged'
<1>1. o \in Held <=> \E c \in Cores : o \in Unsent(c)
  BY DEF Held
<1>2. o \in Held' <=> \E c \in Cores : o \in Unsent(c)'
  BY DEF Held
<1> QED BY <1>1, <1>2 DEF Todo

\* What is still to be performed was issued in this phase.
LEMMA TodoIs ==
  ASSUME SourceTypes, SourceInv, PlaceInv, NEW o \in Todo
  PROVE  o.core \in Cores /\ o \in FitOps /\ [op |-> o, phase |-> phase] \in issued
<1>1. CASE o \in Sent
  BY <1>1, OutstandingIs DEF PlaceInv
<1>2. ASSUME NEW c \in Cores, o \in Unsent(c)
      PROVE  o.core \in Cores /\ o \in FitOps /\ [op |-> o, phase |-> phase] \in issued
  <2>1. o \in Reds(c)
    BY <1>2 DEF Unsent, Reds
  <2> QED BY <2>1, RedsFit DEF SourceInv, Owned
<1> QED BY <1>1, <1>2, InTodo DEF Sent

LEMMA IssueMoves ==
  ASSUME SourceTypes, Numbered, SourceInv, PlaceInv, NEW op \in Asked, Issue(op)
  PROVE  PlaceInv' /\ Todo' = Todo \cup {op} /\ op \notin Todo
<1>1. /\ op \in FitOps /\ op.core \in Cores /\ \A e \in issued : e.op # op
      /\ UNCHANGED <<bankVars, replies>>
  BY IssueIs
<1>2. Inboxed' = Inboxed /\ Engaged' = Engaged /\ Replied' = Replied /\ inbox' = inbox
      /\ replies' = replies
  BY <1>1 DEF bankVars, engineVars, Inboxed, Engaged, Captured, Replied
<1>3. op \notin Sent /\ op \notin Todo
  <2>1. \A o : [op |-> o, phase |-> phase] \in issued => o # op
    BY <1>1
  <2> QED BY <2>1, OutstandingIs, TodoIs, Zenon DEF PlaceInv
<1>4. CASE AcceptReduction(op) /\ toBank' = toBank
  <2>1. /\ source' = [source EXCEPT ![op.core] = Append(@, op)]
        /\ flight' = flight /\ table' = table
    BY <1>4 DEF AcceptReduction
  <2>2. source[op.core] \in Seq(FitOps) /\ source'[op.core] = Append(source[op.core], op)
    BY <1>1, <2>1, RedsFit DEF SourceTypes
  <2>3. Range(source'[op.core]) = Range(source[op.core]) \cup {op}
    <3>1. op \in FitOps
      BY <1>1
    <3>2. Range(Append(source[op.core], op)) = Range(source[op.core]) \cup {op}
      BY ONLY <2>2, <3>1, AppendIs
    <3> QED BY ONLY <2>2, <3>2
  <2>4. Unsent(op.core)' = Unsent(op.core) \cup {op}
    BY <2>1, <2>3 DEF Unsent
  <2>5. \A c \in Cores : c # op.core => Unsent(c)' = Unsent(c)
    BY <2>1 DEF Unsent
  <2>6. Todo' = Todo \cup {op}
    BY <1>1, <1>2, <1>4, <2>4, <2>5, InTodo
  <2>7. PlaceInv'
    BY <1>2, <1>4, <2>1 DEF PlaceInv, Sent, Outstanding
  <2> QED BY <1>3, <2>6, <2>7
<1>5. CASE AcceptAccess(op) /\ toBank' = toBank \cup {op}
  <2>1. /\ table' = [table EXCEPT ![op.core] = @ \cup {op}]
        /\ source' = source /\ flight' = flight
    BY <1>5 DEF AcceptAccess
  <2>2. \A c \in Cores : Unsent(c)' = Unsent(c)
    BY <2>1 DEF Unsent
  <2>3. Todo' = Todo \cup {op}
    BY <1>2, <1>5, <2>2, InTodo
  <2>4. \A o : Outstanding(o) => Outstanding(o)'
    BY <1>1, <2>1 DEF Outstanding, SourceTypes
  <2>5. Outstanding(op)'
    BY <1>1, <2>1 DEF Outstanding, SourceTypes
  <2>6. PlaceInv'
    BY <1>2, <1>3, <1>5, <2>4, <2>5 DEF PlaceInv, Sent
  <2> QED BY <1>3, <2>3, <2>6
<1> QED BY <1>4, <1>5, Zenon DEF Issue

LEMMA SendMoves ==
  ASSUME SourceTypes, SourceInv, PlaceInv, NEW c \in Cores, Service(c)
  PROVE  PlaceInv' /\ Todo' = Todo
<1>1. PICK sent : /\ ServiceSource(c, sent) /\ toBank' = toBank \cup sent
                  /\ UNCHANGED <<bankVars, replies, cpuVars>>
  BY DEF Service
<1>2. Inboxed' = Inboxed /\ Engaged' = Engaged /\ Replied' = Replied /\ inbox' = inbox
      /\ replies' = replies
  BY <1>1 DEF bankVars, engineVars, Inboxed, Engaged, Captured, Replied
<1>3. /\ sent \subseteq Unsent(c) /\ Unsent(c)' \cup sent = Unsent(c)
      /\ \A o \in sent : o.core = c /\ [op |-> o, issued |-> TRUE] \in flight'[c]
      /\ \A d \in Cores : d # c => Unsent(d)' = Unsent(d)
      /\ \A o : Outstanding(o) => Outstanding(o)'
  BY <1>1, ServiceMoves
<1>4. Todo' = Todo
  BY <1>1, <1>2, <1>3, InTodo, Zenon
<1>5. sent \cap Sent = {}
  BY <1>3, OutstandingIs, Zenon DEF PlaceInv
<1>6. \A o \in sent : Outstanding(o)'
  BY <1>3, Zenon DEF Outstanding
<1>7. PlaceInv'
  BY <1>1, <1>2, <1>3, <1>5, <1>6, Zenon DEF PlaceInv, Sent
<1> QED BY <1>4, <1>7

LEMMA DeliverMoves ==
  ASSUME BankTypes, SourceTypes, PlaceInv, NEW op \in toBank, Deliver(op)
  PROVE  PlaceInv' /\ Todo' = Todo
<1>1. /\ inbox' = Append(inbox, [op |-> op, on |-> Unlocked]) /\ toBank' = toBank \ {op}
      /\ UNCHANGED <<sourceVars, replies, cpuVars, engineVars>>
  BY DEF Deliver, Arrive
<1>2. Engaged' = Engaged /\ Replied' = Replied /\ replies' = replies
      /\ table' = table /\ flight' = flight
  BY <1>1 DEF engineVars, sourceVars, Engaged, Captured, Replied
<1>3. op \in FitOps /\ op \notin Inboxed /\ InboxOnce
  BY DEF PlaceInv, SourceTypes, InboxOnce
<1>4. Inboxed' = Inboxed \cup {op} /\ InboxOnce'
  BY <1>1, <1>3, InboxArrives
<1>5. \A c \in Cores : Unsent(c)' = Unsent(c)
  BY <1>1 DEF Unsent, sourceVars
<1>6. Todo' = Todo
  BY <1>1, <1>2, <1>4, <1>5, InTodo, Zenon
<1>7. \A o : Outstanding(o) => Outstanding(o)'
  BY <1>2, Zenon DEF Outstanding
<1>8. PlaceInv'
  BY <1>1, <1>2, <1>4, <1>7 DEF PlaceInv, Sent, InboxOnce
<1> QED BY <1>6, <1>8

LEMMA CompleteMoves ==
  ASSUME SourceTypes, SourceInv, PlaceInv, NEW r \in replies, Complete(r)
  PROVE  PlaceInv' /\ Todo' = Todo
<1>1. PICK op : op = r.op
  OBVIOUS
<1>2. /\ replies' = replies \ {r} /\ UNCHANGED <<bankVars, toBank, cpuVars>>
      /\ IF op.kind \in Reductions THEN CompleteReduction(op) ELSE CompleteAccess(op)
  BY <1>1 DEF Complete
<1>3. Inboxed' = Inboxed /\ Engaged' = Engaged /\ inbox' = inbox /\ toBank' = toBank
  BY <1>2 DEF bankVars, engineVars, Inboxed, Engaged, Captured
<1>4. Replied' = Replied \ {op} /\ op \in Replied
  BY <1>1, <1>2 DEF Replied, PlaceInv
<1>5. op \in Sent /\ Outstanding(op)
  BY <1>4 DEF Sent, PlaceInv
<1>6. op.core \in Cores /\ \A c \in Cores : op \notin Unsent(c)
  BY <1>5, OutstandingIs, Zenon
<1>7. ASSUME NEW o, Outstanding(o), o # op PROVE Outstanding(o)'
  <2>1. CASE op.kind \in Reductions
    <3>1. table' = table /\ flight' = [flight EXCEPT ![op.core] = {f \in @ : f.op # op}]
      BY <1>2, <2>1 DEF CompleteReduction
    <3>2. PICK rec : rec = [op |-> o, issued |-> TRUE]
      BY Zenon
    <3>3. rec.op # op
      BY <1>7, <3>2
    <3> QED BY <1>6, <1>7, <3>1, <3>2, <3>3 DEF Outstanding, SourceTypes
  <2>2. CASE op.kind \notin Reductions
    <3>1. flight' = flight /\ table' = [table EXCEPT ![op.core] = @ \ {op}]
      BY <1>2, <2>2 DEF CompleteAccess
    <3> QED BY <1>6, <1>7, <3>1 DEF Outstanding, SourceTypes
  <2> QED BY <2>1, <2>2
<1>8. ASSUME NEW c \in Cores PROVE Unsent(c)' = Unsent(c)
  <2>1. CASE op.kind \in Reductions
    <3>1. source' = source /\ flight' = [flight EXCEPT ![op.core] = {f \in @ : f.op # op}]
      BY <1>2, <2>1 DEF CompleteReduction
    <3>2. \A f \in flight[c] : ~ f.issued => f.op # op
      BY <1>6 DEF Unsent
    <3>3. {g \in flight'[c] : ~ g.issued} = {g \in flight[c] : ~ g.issued}
      BY <1>6, <3>1, <3>2 DEF SourceTypes
    <3> QED BY <3>1, <3>3 DEF Unsent
  <2>2. CASE op.kind \notin Reductions
    BY <1>2, <2>2 DEF CompleteAccess, Unsent
  <2> QED BY <2>1, <2>2
<1>9. Todo' = Todo
  BY <1>3, <1>8, InTodo
<1>10. PlaceInv'
  BY <1>2, <1>3, <1>4, <1>7 DEF PlaceInv, Sent
<1> QED BY <1>9, <1>10

\* The bank performs one operation at a time: a command when it finishes, an
\* access when it leaves the port.
LEMMA BankTodo ==
  ASSUME BankInv, SourceTypes, SourceInv, PlaceInv, UNCHANGED <<sourceVars, toBank>>
  PROVE  /\ \A op : /\ op \in Inboxed \cup Engaged
                    /\ Inboxed' \cup Engaged' = (Inboxed \cup Engaged) \ {op}
                    => op \in Todo /\ Todo' = Todo \ {op}
         /\ Inboxed' \cup Engaged' = Inboxed \cup Engaged => Todo' = Todo
<1>1. \A c \in Cores : Unsent(c)' = Unsent(c)
  BY DEF Unsent, sourceVars
<1>2. \A op \in Inboxed \cup Engaged : op \notin toBank /\ \A c \in Cores : op \notin Unsent(c)
  <2>1. \A op \in Inboxed \cup Engaged : op \notin toBank /\ Outstanding(op)
    BY DEF PlaceInv, Sent
  <2> QED BY <2>1, OutstandingIs, Zenon
<1> QED BY <1>1, <1>2, InTodo, Zenon

LEMMA PlaceStep ==
  ASSUME BankInv, ProgramInv, SourceInv, PlaceInv, [Next]_vars
  PROVE  PlaceInv'
<1>0. SourceTypes /\ BankTypes /\ Numbered
  BY DEF BankInv, ProgramInv
<1>1. CASE (\E c \in Cores : Barrier(c)) \/ NextPhase \/ UNCHANGED vars
  <2>1. UNCHANGED <<sourceVars, bankVars, netVars>>
    BY <1>1 DEF Barrier, NextPhase, vars
  <2>2. /\ Inboxed' = Inboxed /\ Engaged' = Engaged /\ Replied' = Replied /\ inbox' = inbox
        /\ replies' = replies /\ toBank' = toBank /\ table' = table /\ flight' = flight
    BY <2>1 DEF bankVars, engineVars, netVars, sourceVars, Inboxed, Engaged, Captured, Replied
  <2> QED BY <2>2 DEF PlaceInv, Sent, Outstanding
<1> QED BY <1>0, <1>1, IssueMoves, SendMoves, DeliverMoves, CompleteMoves, PlaceBank DEF Next

-----------------------------------------------------------------------------
FlowInv == BankInv /\ ProgramInv /\ SourceInv /\ PlaceInv

LEMMA FlowInvInit == Init => FlowInv
<1> SUFFICES ASSUME Init PROVE FlowInv
  OBVIOUS
<1>1. BankInv
  BY BankInvInit
<1>2. /\ toBank = {} /\ replies = {} /\ phase = 1 /\ arrived = {} /\ issued = {}
      /\ inbox = <<>> /\ tbe = [b \in Way |-> NoTbe]
  BY DEF Init, BankInit
<1>3. ProgramInv
  BY <1>2, FS_EmptySet DEF ProgramInv, Numbered, Disciplined
<1>4. ASSUME NEW c \in Cores PROVE CoreInv(c)
  <2>1. /\ source[c] = <<>> /\ flight[c] = {} /\ table[c] = {} /\ credit[c] = 0
        /\ \A w \in Way : pending[c][w] = 0
    BY DEF Init, SourceInit
  <2>2. DOMAIN source[c] = {} /\ Range(source[c]) = {}
    BY <2>1 DEF Range
  <2>3. Reds(c) = {}
    BY <2>1, <2>2 DEF Reds
  <2>4. \A w : {o \in Reds(c) : w \in Touched(o)} = {}
    BY <2>3
  <2>5. CountedOps(c)
    BY <2>1, <2>3, <2>4, FS_EmptySet DEF CountedOps
  <2> QED BY <2>1, <2>2, <2>3, <2>5, Zenon DEF CoreInv, Owned, InOrder, NoHazard
<1>5. CountersTyped
  BY DEF Init, SourceInit, CountersTyped
<1>6. SourceInv
  BY <1>4, <1>5 DEF SourceInv, CoreInv
<1>7. Captured = {} /\ DOMAIN inbox = {}
  BY <1>2 DEF Captured, NoTbe
<1>8. Inboxed = {} /\ Engaged = {} /\ Replied = {}
  BY <1>2, <1>7 DEF Inboxed, Engaged, Replied
<1>9. PlaceInv
  BY <1>2, <1>7, <1>8 DEF PlaceInv, Sent
<1> QED BY <1>1, <1>3, <1>6, <1>9 DEF FlowInv

LEMMA FlowInvStep ==
  ASSUME FlowInv, [Next]_vars
  PROVE  FlowInv'
<1>1. /\ BankInv /\ ProgramInv /\ SourceInv /\ PlaceInv
      /\ BankTypes /\ SourceTypes /\ LocksExact /\ UpdateCurrent /\ Asleep /\ count <= Entries
  BY DEF FlowInv, BankInv
<1>2. BankInv'
  BY <1>1, SourceTypesStep, EngineStep, AsleepStep, EntriesStep DEF BankInv
<1>3. ProgramInv'
  BY <1>1, ProgramStep
<1>4. SourceInv'
  BY <1>1, SourceStep
<1>5. PlaceInv'
  BY <1>1, PlaceStep
<1> QED BY <1>2, <1>3, <1>4, <1>5 DEF FlowInv

\* Every operation a Sequencer accepted is in one place of the system until
\* it is answered; reductionPending and the barrier's credit count the
\* reductions of a core that are not installed; a reduction that was sent
\* overlaps no older one of its core that is not installed.
THEOREM FlowInvariant == Spec => []FlowInv
<1>1. ASSUME FlowInv, [Next]_vars PROVE FlowInv'
  BY <1>1, FlowInvStep
<1> QED BY <1>1, FlowInvInit, PTL DEF Spec
=============================================================================
