-------------------------- MODULE ReductionProofs ---------------------------
(***************************************************************************)
(* The values of the shared rows, for any number of cores, rows, entries   *)
(* and operations: the engine implements an accumulator that is updated in *)
(* one step, and contributions are neither lost, doubled nor reordered.    *)
(***************************************************************************)
EXTENDS FlowProofs

\* A leaf is tried with SMT, again with more time, and with Zenon.
USE SMT, SMTT(20), Zenon

-----------------------------------------------------------------------------
\* The slots.  A slot that was given up holds nothing; any other one holds
\* what the operations performed on it contributed.
GivenUp(w) ==
    \E d \in issued : d.op.kind \in Reclaim /\ w \in Touched(d.op) /\ d.op \notin Todo
Fed(w) ==
    {Id(e.op) : e \in {x \in issued :
        Feeds(x.op) /\ w \in Touched(x.op) /\ x.op \notin Todo}}
Kept ==
    \A e \in issued : \A w \in Touched(e.op) :
        e.op.kind \in Setup /\ e.op \notin Todo => w \in claimed \/ GivenUp(w)
Content ==
    \A w \in Way :
        /\ Range(data[w]) = IF GivenUp(w) THEN {} ELSE Fed(w)
        /\ IsInjective(data[w])
NoOvertaking ==
    \A e \in issued : \A o \in Todo :
        e.op \notin Todo /\ e.op.core = o.core /\ ~ Apart(e.op, o) => e.op.n < o.n
SlotInv == LockedClaimed /\ Kept /\ Content /\ NoOvertaking /\ OwnOrder

-----------------------------------------------------------------------------
\* Rows share no slot.
LEMMA SameRow ==
  ASSUME NEW r \in Rows, NEW s \in Rows, NEW w,
         w \in Slots(r, RowWays), w \in Slots(s, RowWays)
  PROVE  r = s
<1>1. r \in Nat /\ s \in Nat /\ RowWays \in Nat
  BY ProgramAssumption, GeometryAssumption DEF Way
<1>2. Overlap(r, RowWays, s, RowWays)
  BY <1>1 DEF Slots, Overlap
<1> QED BY <1>2, ProgramAssumption

\* Halves of a row share no slot.
LEMMA SameHalf ==
  ASSUME NEW r \in Nat, NEW a \in Halves(r), NEW b \in Halves(r), NEW w \in Nat,
         a <= w, w < a + FinalWays, b <= w, w < b + FinalWays
  PROVE  a = b
<1>1. FinalWays \in Nat /\ RowWays \in Nat /\ FinalWays > 0
  BY GeometryAssumption
<1>2. RowWays \div FinalWays \in Nat
  BY <1>1
<1>3. PICK i \in Nat : a = r + FinalWays * i
  BY <1>2 DEF Halves
<1>4. PICK j \in Nat : b = r + FinalWays * j
  BY <1>2 DEF Halves
<1>5. ASSUME NEW m \in Nat, NEW n \in Nat, m < n PROVE FinalWays * m + FinalWays <= FinalWays * n
  <2>1. PICK k \in Nat : n = m + 1 + k
    <3>1. n - m - 1 \in Nat /\ n = m + 1 + (n - m - 1)
      BY <1>5
    <3> QED BY <3>1
  <2>2. FinalWays * n = FinalWays * m + FinalWays + FinalWays * k
    BY <1>1, <2>1
  <2>3. FinalWays * k \in Nat /\ FinalWays * m \in Nat
    BY <1>1
  <2> QED BY <1>1, <2>2, <2>3
<1>6. FinalWays * i \in Nat /\ FinalWays * j \in Nat
  BY <1>1
<1>7. ~ (i < j)
  <2> SUFFICES ASSUME i < j PROVE FALSE
    OBVIOUS
  <2>1. FinalWays * i + FinalWays <= FinalWays * j
    BY <1>5
  <2> QED BY <1>1, <1>3, <1>4, <1>6, <2>1
<1>8. ~ (j < i)
  <2> SUFFICES ASSUME j < i PROVE FALSE
    OBVIOUS
  <2>1. FinalWays * j + FinalWays <= FinalWays * i
    BY <1>5
  <2> QED BY <1>1, <1>3, <1>4, <1>6, <2>1
<1>9. i = j
  BY <1>7, <1>8
<1> QED BY <1>3, <1>4, <1>9

\* What feeds a row touches all of it.
LEMMA FeedsRow ==
  ASSUME ProgramInv, NEW e \in issued, Feeds(e.op)
  PROVE  e.op.base \in Rows /\ Touched(e.op) = Slots(e.op.base, RowWays)
<1>1. Lawful(e)
  BY DEF ProgramInv, Disciplined
<1>2. e.op.kind \notin Reclaim /\ Size(e.op) = RowWays
  BY DEF Feeds, Setup, Reclaim, Size
<1> QED BY <1>1, <1>2 DEF Lawful, Touched

\* What gives slots up does so for one half of a row that was set up.
LEMMA ReclaimRow ==
  ASSUME ProgramInv, NEW e \in issued, e.op.kind \in Reclaim
  PROVE  \E r \in Rows : /\ SetUp(r) /\ e.op.base \in Halves(r)
                         /\ r \in Nat /\ e.op.base \in Slots(r, RowWays)
                         /\ Touched(e.op) \subseteq Slots(r, RowWays)
                         /\ \A w \in Touched(e.op) :
                              w \in Nat /\ e.op.base <= w /\ w < e.op.base + FinalWays
<1>1. Lawful(e) /\ e.op \in FitOps
  BY DEF ProgramInv, Disciplined, Numbered
<1>2. PICK r \in Rows : e.op.base \in Halves(r) /\ SetUp(r)
  BY <1>1 DEF Lawful
<1>3. r \in Nat /\ RowWays \in Nat /\ FinalWays \in Nat /\ FinalWays >= 1
  BY ProgramAssumption, GeometryAssumption DEF Way
<1>4. e.op.base \in Nat /\ r <= e.op.base /\ e.op.base + FinalWays <= r + RowWays
  BY <1>2, <1>3, HalvesFit
<1>5. Size(e.op) \in Nat /\ Size(e.op) <= FinalWays /\ Size(e.op) >= 1
  BY <1>3 DEF Reclaim, Size
<1>6. ASSUME NEW w \in Touched(e.op)
      PROVE  w \in Nat /\ e.op.base <= w /\ w < e.op.base + FinalWays
  BY <1>3, <1>4, <1>5 DEF Touched, Slots
<1>7. Touched(e.op) \subseteq Slots(r, RowWays) /\ e.op.base \in Slots(r, RowWays)
  BY <1>3, <1>4, <1>6 DEF Slots
<1> QED BY <1>2, <1>3, <1>6, <1>7

\* A slot is given up by one operation.
LEMMA ReclaimOnce ==
  ASSUME ProgramInv, NEW d \in issued, NEW e \in issued,
         d.op.kind \in Reclaim, e.op.kind \in Reclaim,
         NEW w \in Touched(d.op), w \in Touched(e.op)
  PROVE  d = e
<1>1. PICK r \in Rows : /\ d.op.base \in Halves(r) /\ r \in Nat /\ w \in Slots(r, RowWays)
                        /\ w \in Nat /\ d.op.base <= w /\ w < d.op.base + FinalWays
  BY ReclaimRow
<1>2. PICK s \in Rows : /\ e.op.base \in Halves(s) /\ s \in Nat /\ w \in Slots(s, RowWays)
                        /\ e.op.base <= w /\ w < e.op.base + FinalWays
  BY ReclaimRow
<1>3. r = s
  BY <1>1, <1>2, SameRow
<1>4. d.op.base = e.op.base
  BY <1>1, <1>2, <1>3, SameHalf
<1> QED BY <1>4 DEF ProgramInv, Disciplined

\* An operation still to be performed was issued once, in this phase.
LEMMA TodoEntry ==
  ASSUME FlowInv, NEW o \in Todo
  PROVE  /\ o \in FitOps /\ o \in Ops /\ o.core \in Cores /\ o.n \in Nat /\ o.base \in Way
         /\ o.kind \in Kinds /\ Touched(o) \subseteq Way /\ phase \in Nat /\ phase <= 3
         /\ [op |-> o, phase |-> phase] \in issued
         /\ \A e \in issued : Id(e.op) = Id(o) => e.op = o /\ e.phase = phase
<1>1. /\ SourceTypes /\ SourceInv /\ PlaceInv /\ Numbered /\ Disciplined
  BY DEF FlowInv, BankInv, ProgramInv
<1>2. o.core \in Cores /\ o \in FitOps /\ [op |-> o, phase |-> phase] \in issued
  BY <1>1, TodoIs
<1>3. PICK x : x = [op |-> o, phase |-> phase]
  BY Zenon
<1>4. x \in issued /\ x.op = o /\ x.phase = phase
  BY <1>2, <1>3
<1>5. \A e \in issued : Id(e.op) = Id(o) => e.op = o /\ e.phase = phase
  BY <1>1, <1>4 DEF Numbered
<1>6. phase \in Nat /\ phase <= 3
  BY <1>1, <1>2 DEF Numbered
<1>7. /\ o \in Ops /\ o.n \in Nat /\ o.base \in Way /\ o.kind \in Kinds /\ Touched(o) \subseteq Way
  BY <1>2, TouchedIs DEF FitOps
<1> QED BY <1>2, <1>5, <1>6, <1>7

\* Nothing is given up before the last phase, and what was issued in an
\* earlier phase has been performed.
LEMMA EarlierPhases ==
  ASSUME FlowInv
  PROVE  /\ phase \in Nat
         /\ phase < 3 => \A w : ~ GivenUp(w)
         /\ \A e \in issued : e.phase # phase => e.op \notin Todo
         /\ \A e \in issued : Lawful(e) /\ e.phase <= phase /\ e.phase \in Nat /\ e.op \in FitOps
<1>1. \A e \in issued : Lawful(e) /\ e.phase <= phase /\ e.phase \in Nat /\ e.op \in FitOps
  BY DEF FlowInv, ProgramInv, Disciplined, Numbered
<1>2. phase \in Nat
  BY DEF FlowInv, ProgramInv, Numbered
<1>3. phase < 3 => \A w : ~ GivenUp(w)
  BY <1>1, <1>2 DEF GivenUp, Lawful
<1>4. \A e \in issued : e.phase # phase => e.op \notin Todo
  BY TodoEntry, Zenon
<1> QED BY <1>1, <1>2, <1>3, <1>4

\* What is still to be folded into a row, or to give slots of it up, finds
\* these slots claimed.
LEMMA StillClaimed ==
  ASSUME FlowInv, Kept, NEW op \in Todo, op.kind \in Reclaim \cup {"reduce"}
  PROVE  Touched(op) \subseteq claimed /\ \A w \in Touched(op) : ~ GivenUp(w)
<1>1. PICK x : x = [op |-> op, phase |-> phase]
  BY Zenon
<1>2. x \in issued /\ x.op = op /\ x.phase = phase /\ Lawful(x)
  BY <1>1, TodoEntry, EarlierPhases
<1>3. ProgramInv /\ phase \in Nat
  BY EarlierPhases DEF FlowInv
<1>4. \E r \in Rows : SetUp(r) /\ Touched(op) \subseteq Slots(r, RowWays)
  <2>1. CASE op.kind \in Reclaim
    BY <1>2, <1>3, <2>1, ReclaimRow
  <2>2. CASE op.kind = "reduce"
    <3>1. Feeds(op) /\ SetUp(op.base)
      BY <1>2, <2>2 DEF Feeds, Lawful
    <3> QED BY <1>2, <1>3, <3>1, FeedsRow
  <2> QED BY <2>1, <2>2
<1>5. PICK r \in Rows : SetUp(r) /\ Touched(op) \subseteq Slots(r, RowWays)
  BY <1>4
<1>6. PICK s \in issued : s.op.kind \in Setup /\ s.op.base = r
  BY <1>5 DEF SetUp
<1>7. Touched(s.op) = Slots(r, RowWays)
  BY <1>3, <1>6, FeedsRow DEF Feeds
<1>8. s.phase = 1 /\ phase # 1
  BY <1>2, <1>6, EarlierPhases DEF Lawful
<1>9. s.op \notin Todo
  BY <1>8, EarlierPhases
<1>10. \A w \in Touched(op) : w \in claimed \/ GivenUp(w)
  BY <1>5, <1>6, <1>7, <1>9 DEF Kept
<1>11. ASSUME NEW w \in Touched(op), GivenUp(w) PROVE FALSE
  <2>1. PICK d \in issued : d.op.kind \in Reclaim /\ w \in Touched(d.op) /\ d.op \notin Todo
    BY <1>11 DEF GivenUp
  <2>2. CASE op.kind \in Reclaim
    BY <1>2, <1>3, <2>1, <2>2, ReclaimOnce
  <2>3. CASE op.kind = "reduce"
    <3>1. phase = 2
      BY <1>2, <2>3 DEF Lawful
    <3> QED BY <1>11, <3>1, EarlierPhases
  <2> QED BY <2>2, <2>3
<1> QED BY <1>10, <1>11

\* What was sent is older than everything of its core it overlaps.
LEMMA SentFirst ==
  ASSUME FlowInv, NEW op \in Sent, NEW o \in Todo, o # op, o.core = op.core, ~ Apart(op, o)
  PROVE  op.n < o.n
<1>1. SourceTypes /\ SourceInv /\ PlaceInv
  BY DEF FlowInv, BankInv
<1>2. Outstanding(op) /\ op \in FitOps /\ [op |-> op, phase |-> phase] \in issued
  BY <1>1, OutstandingIs DEF PlaceInv
<1>3. PICK c \in Cores : c = op.core
  BY <1>2 DEF Outstanding
<1>4. o \in FitOps /\ o.n \in Nat /\ \A e \in issued : Id(e.op) = Id(o) => e.op = o
  BY TodoEntry, Zenon
<1>5. op.n \in Nat /\ op.n # o.n
  <2>1. PICK x : x = [op |-> op, phase |-> phase]
    BY Zenon
  <2>2. x \in issued /\ x.op = op
    BY <1>2, <2>1
  <2>3. Id(op) # Id(o)
    BY <1>4, <2>2
  <2>4. op.n # o.n
    BY <2>3 DEF Id
  <2>5. op \in Ops
    BY <1>2 DEF FitOps
  <2> QED BY <2>4, <2>5, TouchedIs
<1>6. InOrder(c) /\ NoHazard(c) /\ Owned(c)
  BY <1>1 DEF SourceInv
<1>7. o \in Reds(c) \cup table[c]
  <2>1. CASE o \in Sent
    <3>1. o \in table[c] \/ [op |-> o, issued |-> TRUE] \in flight[c]
      BY <1>1, <1>3, <2>1 DEF PlaceInv, Outstanding
    <3>2. ASSUME [op |-> o, issued |-> TRUE] \in flight[c] PROVE \E f \in flight[c] : f.op = o
      BY <3>2
    <3> QED BY <3>1, <3>2 DEF Reds
  <2>2. ASSUME NEW d \in Cores, o \in Unsent(d) PROVE o \in Reds(c) \cup table[c]
    <3>1. o \in Reds(d)
      BY <2>2 DEF Unsent, Reds
    <3>2. d = c
      BY <1>1, <1>3, <3>1 DEF SourceInv, Owned
    <3> QED BY <3>1, <3>2
  <2> QED BY <2>1, <2>2, InTodo DEF Sent
<1>8. CASE op \in table[c]
  BY <1>6, <1>7, <1>8 DEF NoHazard
<1>9. CASE [op |-> op, issued |-> TRUE] \in flight[c]
  <2>1. PICK f \in flight[c] : f.op = op /\ f.issued
    BY <1>9
  <2>2. op \in Reds(c)
    BY <2>1 DEF Reds
  <2>3. CASE o \in table[c]
    BY <1>6, <2>2, <2>3, ApartSymmetric DEF NoHazard
  <2>4. CASE o \in Range(source[c])
    BY <1>6, <2>1, <2>4 DEF InOrder
  <2>5. ASSUME NEW g \in flight[c], g.op = o PROVE op.n < o.n
    <3>1. ~ (o.n < op.n)
      BY <1>6, <2>1, <2>5 DEF InOrder
    <3> QED BY <1>4, <1>5, <3>1
  <2> QED BY <1>7, <2>3, <2>4, <2>5 DEF Reds
<1> QED BY <1>2, <1>3, <1>8, <1>9 DEF Outstanding

-----------------------------------------------------------------------------
\* Performing an operation: what it leaves in a slot, and in the set.
After(op, w) ==
    CASE op.kind \in Setup -> <<Id(op)>>
      [] op.kind = "reduce" -> Append(data[w], Id(op))
      [] op.kind \in Reclaim -> <<>>
      [] OTHER -> data[w]
Performs(op) ==
    /\ op \in Sent /\ op \in Todo /\ Todo' = Todo \ {op} /\ issued' = issued
    /\ data' = [w \in Way |-> IF w \in Touched(op) THEN After(op, w) ELSE data[w]]
    /\ \A w \in claimed : w \notin claimed' => op.kind \in Reclaim /\ w \in Touched(op)
    /\ op.kind \in Setup => Touched(op) \subseteq claimed'

LEMMA PerformsIs ==
  ASSUME FlowInv, NEW op, Performs(op), NEW w
  PROVE  /\ GivenUp(w)' <=> GivenUp(w) \/ (op.kind \in Reclaim /\ w \in Touched(op))
         /\ Feeds(op) /\ w \in Touched(op) => Fed(w)' = Fed(w) \cup {Id(op)}
         /\ ~ (Feeds(op) /\ w \in Touched(op)) => Fed(w)' = Fed(w)
<1>1. PICK x : x = [op |-> op, phase |-> phase]
  BY Zenon
<1>2. x \in issued /\ x.op = op
  BY <1>1, TodoEntry DEF Performs
<1>3. issued' = issued /\ \A o : o \notin Todo' <=> o \notin Todo \/ o = op
  BY DEF Performs
<1>4. GivenUp(w)' <=> GivenUp(w) \/ (op.kind \in Reclaim /\ w \in Touched(op))
  BY <1>2, <1>3 DEF GivenUp
<1>5. ASSUME NEW id PROVE id \in Fed(w)' <=> \/ id \in Fed(w)
                                             \/ Feeds(op) /\ w \in Touched(op) /\ id = Id(op)
  <2>1. id \in Fed(w) <=> \E e \in issued : /\ Feeds(e.op) /\ w \in Touched(e.op)
                                            /\ e.op \notin Todo /\ id = Id(e.op)
    BY DEF Fed
  <2>2. id \in Fed(w)' <=> \E e \in issued : /\ Feeds(e.op) /\ w \in Touched(e.op)
                                             /\ e.op \notin Todo' /\ id = Id(e.op)
    BY <1>3 DEF Fed
  <2> QED BY <1>2, <1>3, <2>1, <2>2
<1>6. \A id \in Fed(w)' \cup Fed(w) \cup {Id(op)} :
        id \in Fed(w)' <=> \/ id \in Fed(w)
                           \/ Feeds(op) /\ w \in Touched(op) /\ id = Id(op)
  BY <1>5
<1> QED BY <1>4, <1>6

\* A slot holds every contribution performed on it, once.
LEMMA PerformsContent ==
  ASSUME FlowInv, Kept, Content, NEW op, Performs(op)
  PROVE  Content'
<1>1. PICK x : x = [op |-> op, phase |-> phase]
  BY Zenon
<1>2. /\ x \in issued /\ x.op = op /\ x.phase = phase /\ Lawful(x) /\ phase \in Nat
      /\ op.kind \in Kinds /\ op \in Todo
  BY <1>1, TodoEntry, EarlierPhases DEF Performs
<1>3. ProgramInv
  BY DEF FlowInv
<1> SUFFICES ASSUME NEW w \in Way
             PROVE  /\ Range(data'[w]) = IF GivenUp(w)' THEN {} ELSE Fed(w)'
                    /\ IsInjective(data'[w])
  BY DEF Content
<1>4. /\ Range(data[w]) = IF GivenUp(w) THEN {} ELSE Fed(w)
      /\ IsInjective(data[w]) /\ data[w] \in Seq(Ids)
  BY DEF Content, FlowInv, BankInv, BankTypes
<1>5. data'[w] = IF w \in Touched(op) THEN After(op, w) ELSE data[w]
  BY DEF Performs
<1>6. CASE w \notin Touched(op)
  BY <1>4, <1>5, <1>6, PerformsIs
<1>7. CASE w \in Touched(op) /\ op.kind \in Setup
  <2>1. data'[w] = <<Id(op)>>
    BY <1>5, <1>7 DEF After, Setup, Reclaim
  <2>2. Range(data'[w]) = {Id(op)} /\ IsInjective(data'[w])
    <3>1. DOMAIN data'[w] = {1} /\ data'[w][1] = Id(op)
      BY <2>1
    <3> QED BY <3>1 DEF Range, IsInjective
  <2>3. phase = 1 /\ op.kind \notin Reclaim /\ Feeds(op)
    BY <1>2, <1>7 DEF Lawful, Setup, Reclaim, Feeds
  <2>4. ~ GivenUp(w) /\ ~ GivenUp(w)'
    BY <2>3, EarlierPhases, PerformsIs
  <2>5. ASSUME NEW e \in issued, Feeds(e.op), w \in Touched(e.op), e.op \notin Todo
        PROVE  FALSE
    <3>1. e.op.kind \in Setup
      BY <2>3, <2>5, EarlierPhases DEF Feeds, Lawful
    <3>2. e.op.base \in Rows /\ w \in Slots(e.op.base, RowWays)
      BY <1>3, <2>5, FeedsRow
    <3>3. op.base \in Rows /\ w \in Slots(op.base, RowWays)
      BY <1>2, <1>3, <1>7, <2>3, FeedsRow
    <3>4. e = x
      BY <1>2, <1>3, <1>7, <3>1, <3>2, <3>3, SameRow DEF ProgramInv, Disciplined
    <3> QED BY <1>2, <2>5, <3>4
  <2>6. Fed(w) = {}
    BY <2>5 DEF Fed
  <2>7. Fed(w)' = {Id(op)}
    BY <1>7, <2>3, <2>6, PerformsIs
  <2> QED BY <2>2, <2>4, <2>7
<1>8. CASE w \in Touched(op) /\ op.kind = "reduce"
  <2>1. data'[w] = Append(data[w], Id(op))
    BY <1>5, <1>8 DEF After, Setup, Reclaim
  <2>2. ~ GivenUp(w) /\ ~ GivenUp(w)' /\ Fed(w)' = Fed(w) \cup {Id(op)}
    BY <1>2, <1>8, StillClaimed, PerformsIs DEF Reclaim, Feeds
  <2>3. Id(op) \notin Fed(w)
    BY <1>2, TodoEntry, Zenon DEF Fed
  <2>4. Id(op) \in Ids
    BY <1>2, TodoEntry, TouchedIs, Zenon
  <2>5. /\ Range(data'[w]) = Range(data[w]) \cup {Id(op)}
        /\ Id(op) \notin Range(data[w]) => IsInjective(data'[w])
    BY <1>4, <2>1, <2>4, AppendIs
  <2> QED BY <1>4, <2>2, <2>3, <2>5
<1>9. CASE w \in Touched(op) /\ op.kind \in Reclaim
  <2>1. data'[w] = <<>>
    BY <1>5, <1>9 DEF After, Setup, Reclaim
  <2>2. Range(data'[w]) = {} /\ IsInjective(data'[w])
    BY <2>1 DEF Range, IsInjective
  <2> QED BY <1>9, <2>2, PerformsIs
<1>10. CASE w \in Touched(op) /\ op.kind = "load"
  <2>1. data'[w] = data[w] /\ ~ Feeds(op) /\ op.kind \notin Reclaim
    BY <1>5, <1>10 DEF After, Setup, Reclaim, Feeds
  <2> QED BY <1>4, <2>1, PerformsIs
<1> QED BY <1>2, <1>6, <1>7, <1>8, <1>9, <1>10 DEF Kinds, Setup, Reclaim

\* Nothing overtakes, so contributions of a core stay in order.
LEMMA PerformsOrder ==
  ASSUME FlowInv, Content, NoOvertaking, OwnOrder, NEW op, Performs(op)
  PROVE  NoOvertaking' /\ OwnOrder'
<1>1. op \in Todo /\ op \in Sent /\ Todo' = Todo \ {op} /\ issued' = issued
  BY DEF Performs
<1>2. NoOvertaking'
  <2> SUFFICES ASSUME NEW e \in issued, NEW o \in Todo', e.op \notin Todo',
                      e.op.core = o.core, ~ Apart(e.op, o)
               PROVE  e.op.n < o.n
    BY <1>1 DEF NoOvertaking
  <2>1. o \in Todo /\ o # op
    BY <1>1
  <2>2. CASE e.op = op
    BY <1>1, <2>1, <2>2, SentFirst
  <2>3. CASE e.op # op
    BY <1>1, <2>1, <2>3 DEF NoOvertaking
  <2> QED BY <2>2, <2>3
<1>3. OwnOrder'
  <2> SUFFICES ASSUME NEW w \in Way, NEW i \in DOMAIN data'[w], NEW j \in DOMAIN data'[w],
                      i < j, data'[w][i][1] = data'[w][j][1]
               PROVE  data'[w][i][2] < data'[w][j][2]
    BY DEF OwnOrder
  <2>1. data'[w] = IF w \in Touched(op) THEN After(op, w) ELSE data[w]
    BY DEF Performs
  <2>2. data[w] \in Seq(Ids) /\ op.kind \in Kinds
    BY <1>1, TodoEntry, Zenon DEF FlowInv, BankInv, BankTypes
  <2>3. Len(data[w]) \in Nat /\ DOMAIN data[w] = 1 .. Len(data[w])
    BY <2>2, LenProperties
  <2>4. CASE data'[w] = data[w]
    BY <2>4 DEF OwnOrder
  <2>5. CASE data'[w] = <<Id(op)>>
    <3>1. i = 1 /\ j = 1
      BY <2>5
    <3> QED BY <3>1
  <2>6. CASE data'[w] = <<>>
    BY <2>6
  <2>7. CASE w \in Touched(op) /\ data'[w] = Append(data[w], Id(op))
    <3>1. /\ DOMAIN data'[w] = 1 .. Len(data[w]) + 1
          /\ \A k \in DOMAIN data[w] : data'[w][k] = data[w][k]
          /\ data'[w][Len(data[w]) + 1] = Id(op)
      BY <2>2, <2>3, <2>7
    <3>2. i \in DOMAIN data[w] /\ data'[w][i] = data[w][i]
      BY <2>3, <3>1
    <3>3. CASE j \in DOMAIN data[w]
      BY <3>1, <3>2, <3>3 DEF OwnOrder
    <3>4. CASE j = Len(data[w]) + 1
      <4>1. data[w][i] \in Range(data[w])
        BY <3>2 DEF Range
      <4>2. data[w][i] \in Fed(w)
        BY <4>1 DEF Content
      <4>3. PICK e \in issued : /\ w \in Touched(e.op) /\ e.op \notin Todo
                                /\ data[w][i] = Id(e.op)
        BY <4>2 DEF Fed
      <4>4. /\ data'[w][j] = Id(op) /\ data'[w][i] = Id(e.op)
        BY <3>1, <3>2, <3>4, <4>3
      <4>5. e.op.core = op.core
        BY <4>4 DEF Id
      <4>6. ~ Apart(e.op, op)
        BY <2>7, <4>3 DEF Apart
      <4>7. e.op.n < op.n
        BY <1>1, <4>3, <4>5, <4>6 DEF NoOvertaking
      <4> QED BY <4>4, <4>7 DEF Id
    <3> QED BY <2>3, <3>1, <3>3, <3>4
  <2> QED BY <2>1, <2>2, <2>4, <2>5, <2>6, <2>7 DEF After, Kinds, Setup, Reclaim
<1> QED BY <1>2, <1>3

LEMMA PerformsKept ==
  ASSUME FlowInv, Kept, NEW op, Performs(op)
  PROVE  Kept'
<1> SUFFICES ASSUME NEW e \in issued, NEW w \in Touched(e.op), e.op.kind \in Setup,
                    e.op \notin Todo', w \notin claimed'
             PROVE  GivenUp(w)'
  BY DEF Kept, Performs
<1>1. CASE e.op = op
  BY <1>1 DEF Performs
<1>2. CASE e.op # op
  <2>1. w \in claimed \/ GivenUp(w)
    BY <1>2 DEF Kept, Performs
  <2>2. w \in claimed => op.kind \in Reclaim /\ w \in Touched(op)
    BY DEF Performs
  <2> QED BY <2>1, <2>2, PerformsIs
<1> QED BY <1>1, <1>2

-----------------------------------------------------------------------------
\* The slots of a captured command are locked, hence claimed.
LEMMA CapturedClaimed ==
  ASSUME BankTypes, LocksExact, LockedClaimed, NEW b \in Captured
  PROVE  Touched(tbe[b].op) \subseteq claimed
<1>1. b \in Way /\ Touched(tbe[b].op) \subseteq Way
  BY CapturedIs
<1>2. ASSUME NEW w \in Touched(tbe[b].op) PROVE w \in claimed
  <2>1. owners[w] = b /\ w \in Way
    BY <1>1, <1>2 DEF LocksExact
  <2>2. b # Unlocked
    BY <1>1 DEF Way, Unlocked
  <2> QED BY <2>1, <2>2 DEF LockedClaimed
<1> QED BY <1>2

\* L3ReduceFinish and L3FinalizeFinish perform the command.
LEMMA FinishPerforms ==
  ASSUME FlowInv, LockedClaimed, NEW b \in Way, FinishStep(b), NEW op, op = tbe[b].op,
         UNCHANGED <<sourceVars, toBank, cpuVars>>
  PROVE  /\ Performs(op) /\ Touched(op) \subseteq claimed /\ op.base = b
         /\ op.kind \in Reductions \cup {"finalize"} /\ claimed' = claimed \ Reclaimed(op)
         /\ replies' = replies \cup {[op |-> op, value |-> Result(op)]}
         /\ LockedClaimed'
<1>1. /\ BankInv /\ BankTypes /\ LocksExact /\ UpdateCurrent /\ SourceTypes
      /\ SourceInv /\ PlaceInv /\ InboxOnce
  BY DEF FlowInv, BankInv, PlaceInv, InboxOnce
<1>2. /\ op \in Engaged /\ b \in Captured /\ Inboxed' = Inboxed /\ Engaged' = Engaged \ {op}
      /\ replies' = replies \cup {[op |-> op, value |-> Result(op)]}
  BY <1>1, FinishMoves
<1>4. op \in Sent /\ op \notin Inboxed
  BY <1>1, <1>2 DEF Sent, PlaceInv
<1>5. op \in Todo /\ Todo' = Todo \ {op}
  <2>1. Inboxed' \cup Engaged' = (Inboxed \cup Engaged) \ {op}
    BY <1>2, <1>4
  <2> QED BY <1>1, <1>2, <2>1, BankTodo
<1>6. Finish(b, tbe[b].result)
  BY DEF FinishStep
<1>7. /\ op \in FitOps /\ op.base = b /\ EntersEngine(op) /\ Reclaimed(op) \subseteq Touched(op)
      /\ data' = [w \in Way |-> IF w \in Reclaimed(op) THEN <<>>
                                ELSE IF w \in Touched(op) THEN Result(op)[w] ELSE data[w]]
  BY <1>1, <1>6, FinishIs
<1>8. Touched(op) \subseteq claimed
  BY <1>1, <1>2, CapturedClaimed
<1>9. claimed' = claimed \ Reclaimed(op) /\ Unlock(Touched(op))
  BY <1>6 DEF Finish
<1>10. op.kind \in {"reduce", "init", "finalize"}
  BY <1>7 DEF EntersEngine, Reductions
<1>11. data' = [w \in Way |-> IF w \in Touched(op) THEN After(op, w) ELSE data[w]]
  <2>1. ASSUME NEW w \in Touched(op)
        PROVE  After(op, w) = IF w \in Reclaimed(op) THEN <<>> ELSE Result(op)[w]
    BY <1>10 DEF After, Result, Reclaimed, Setup, Reclaim
  <2> QED BY <1>7, <2>1
<1>12. Performs(op)
  <2>1. issued' = issued
    BY DEF cpuVars
  <2>2. op.kind \in Setup => Reclaimed(op) = {}
    BY DEF Setup, Reclaimed
  <2>3. \A w \in Reclaimed(op) : op.kind \in Reclaim /\ w \in Touched(op)
    BY DEF Reclaim, Reclaimed
  <2> QED BY <1>4, <1>5, <1>8, <1>9, <1>11, <2>1, <2>2, <2>3 DEF Performs
<1>13. LockedClaimed'
  <2>1. \A w \in Way : owners'[w] = IF w \in Touched(op) THEN Unlocked ELSE owners[w]
    BY <1>9 DEF Unlock
  <2> QED BY <1>7, <1>9, <2>1 DEF LockedClaimed
<1> QED BY <1>2, <1>7, <1>8, <1>9, <1>10, <1>12, <1>13 DEF Reductions

\* l3_access and l3_release perform the access.
LEMMA AccessPerforms ==
  ASSUME FlowInv, LockedClaimed, Kept, Waiting # {}, NEW i, i = HeadIndex,
         NEW op, op = inbox[i].op, NEW out, Access(i, op, out),
         UNCHANGED <<sourceVars, toBank, cpuVars>>
  PROVE  /\ Performs(op) /\ op.kind \in {"load", "store", "release"} /\ LockedClaimed'
         /\ op.kind = "release" => Touched(op) \subseteq claimed
<1>1. /\ BankInv /\ BankTypes /\ SourceTypes /\ SourceInv /\ PlaceInv /\ InboxOnce
  BY DEF FlowInv, BankInv, PlaceInv, InboxOnce
<1>2. op \in Inboxed /\ op \in FitOps /\ Inboxed' = Inboxed \ {op} /\ Engaged' = Engaged
  BY <1>1, AccessMoves
<1>3. op \in Sent /\ op \notin Engaged
  BY <1>1, <1>2 DEF Sent, PlaceInv
<1>4. op \in Todo /\ Todo' = Todo \ {op}
  <2>1. Inboxed' \cup Engaged' = (Inboxed \cup Engaged) \ {op}
    BY <1>2, <1>3
  <2> QED BY <1>1, <1>2, <2>1, BankTodo
<1>5. /\ op.kind \in {"load", "store", "release"}
      /\ op.kind = "load" => claimed' = claimed /\ data' = data
      /\ op.kind = "store" =>
            /\ claimed' = claimed \cup Touched(op)
            /\ data' = [w \in Way |-> IF w \in Touched(op) THEN <<Id(op)>> ELSE data[w]]
      /\ op.kind = "release" =>
            /\ claimed' = claimed \ Touched(op)
            /\ data' = [w \in Way |-> IF w \in Touched(op) THEN <<>> ELSE data[w]]
  BY <1>1, <1>2, AccessIs
<1>6. data \in [Way -> Seq(Ids)]
  BY <1>1 DEF BankTypes
<1>7. data' = [w \in Way |-> IF w \in Touched(op) THEN After(op, w) ELSE data[w]]
  <2>1. ASSUME NEW w
        PROVE  After(op, w) = IF op.kind = "load" THEN data[w]
                              ELSE IF op.kind = "store" THEN <<Id(op)>> ELSE <<>>
    BY <1>5 DEF After, Setup, Reclaim
  <2> QED BY <1>5, <1>6, <2>1
<1>8. issued' = issued
  BY DEF cpuVars
<1>9. /\ \A w \in claimed : w \notin claimed' => op.kind \in Reclaim /\ w \in Touched(op)
      /\ op.kind \in Setup => Touched(op) \subseteq claimed'
  BY <1>5 DEF Setup, Reclaim
<1>10. Performs(op)
  BY <1>3, <1>4, <1>7, <1>8, <1>9 DEF Performs
<1>11. LockedClaimed'
  <2>1. owners' = owners /\ \A w \in Touched(op) : owners[w] = Unlocked
    BY DEF Access, engineVars, Locked
  <2> QED BY <1>9, <2>1 DEF LockedClaimed
<1>12. op.kind = "release" => Touched(op) \subseteq claimed
  BY <1>4, StillClaimed DEF Reclaim
<1> QED BY <1>5, <1>10, <1>11, <1>12

\* A captured command finds its slots claimed, or claims them.
LEMMA CaptureClaims ==
  ASSUME FlowInv, SlotInv, Waiting # {}, NEW i, i = HeadIndex,
         NEW op, op = inbox[i].op, Capture(i, op), UNCHANGED <<sourceVars, toBank, cpuVars>>
  PROVE  /\ Todo' = Todo /\ issued' = issued /\ data' = data
         /\ claimed' = claimed \cup ClaimedBy(op) /\ LockedClaimed'
         /\ op \in FitOps
<1>1. /\ BankInv /\ BankTypes /\ LocksExact /\ SourceTypes /\ SourceInv /\ PlaceInv /\ InboxOnce
      /\ LockedClaimed /\ Kept
  BY DEF FlowInv, BankInv, PlaceInv, InboxOnce, SlotInv
<1>2. op \in Inboxed /\ op \in FitOps /\ Inboxed' = Inboxed \ {op} /\ Engaged' = Engaged \cup {op}
  BY <1>1, CaptureMoves
<1>3. Inboxed' \cup Engaged' = Inboxed \cup Engaged
  BY <1>2
<1>4. Todo' = Todo /\ op \in Todo
  BY <1>1, <1>2, <1>3, BankTodo, InTodo
<1>5. /\ claimed' = claimed \cup ClaimedBy(op) /\ data' = data /\ EntersEngine(op)
      /\ owners' = [w \in Way |-> IF w \in Touched(op) THEN op.base ELSE owners[w]]
      /\ issued' = issued
  BY DEF Capture, cpuVars
<1>6. Touched(op) \subseteq claimed'
  <2>1. CASE op.kind = "init"
    BY <1>5, <2>1 DEF ClaimedBy
  <2>2. CASE op.kind # "init"
    <3>1. op.kind \in Reclaim \cup {"reduce"}
      BY <1>5, <2>2 DEF EntersEngine, Reductions, Reclaim
    <3> QED BY <1>1, <1>4, <1>5, <3>1, StillClaimed
  <2> QED BY <2>1, <2>2
<1>7. LockedClaimed'
  BY <1>1, <1>5, <1>6 DEF LockedClaimed
<1> QED BY <1>2, <1>4, <1>5, <1>7

-----------------------------------------------------------------------------
\* Steps that perform nothing.
LEMMA SlotSame ==
  ASSUME SlotInv, Todo' = Todo, issued' = issued, data' = data,
         claimed \subseteq claimed', LockedClaimed'
  PROVE  SlotInv'
<1>1. \A w : (GivenUp(w)' <=> GivenUp(w)) /\ Fed(w)' = Fed(w)
  BY DEF GivenUp, Fed
<1>2. Kept'
  BY <1>1 DEF SlotInv, Kept
<1>3. Content'
  BY <1>1 DEF SlotInv, Content
<1>4. NoOvertaking' /\ OwnOrder'
  BY DEF SlotInv, NoOvertaking, OwnOrder
<1> QED BY <1>2, <1>3, <1>4 DEF SlotInv

LEMMA SlotIssue ==
  ASSUME FlowInv, SlotInv, NEW op \in Asked, Issue(op)
  PROVE  SlotInv'
<1>1. SourceTypes /\ Numbered /\ SourceInv /\ PlaceInv
  BY DEF FlowInv, BankInv, ProgramInv
<1>2. Todo' = Todo \cup {op} /\ op \notin Todo
  BY <1>1, IssueMoves
<1>3. PICK new : new = [op |-> op, phase |-> phase]
  BY Zenon
<1>4. /\ issued' = issued \cup {new} /\ new.op = op /\ UNCHANGED bankVars
      /\ \A e \in issued : e.op.core = op.core => e.op.n < op.n
      /\ \A e \in issued : e.op # op
  BY <1>1, <1>3, IssueIs
<1>5. claimed' = claimed /\ data' = data /\ owners' = owners
  BY <1>4 DEF bankVars, slotVars, engineVars
<1>6. \A e : e \in issued' /\ e.op \notin Todo' <=> e \in issued /\ e.op \notin Todo
  BY <1>2, <1>4
<1>7. ASSUME NEW w PROVE (GivenUp(w)' <=> GivenUp(w)) /\ Fed(w)' = Fed(w)
  BY <1>6 DEF GivenUp, Fed
<1>8. LockedClaimed' /\ OwnOrder'
  BY <1>5 DEF SlotInv, LockedClaimed, OwnOrder
<1>9. Kept'
  BY <1>5, <1>6, <1>7 DEF SlotInv, Kept
<1>10. Content'
  BY <1>5, <1>7 DEF SlotInv, Content
<1>11. NoOvertaking'
  BY <1>2, <1>4, <1>6 DEF SlotInv, NoOvertaking
<1> QED BY <1>8, <1>9, <1>10, <1>11 DEF SlotInv

LEMMA SlotPerforms ==
  ASSUME FlowInv, SlotInv, NEW op, Performs(op), LockedClaimed'
  PROVE  SlotInv'
BY PerformsContent, PerformsOrder, PerformsKept DEF SlotInv

\* The other steps leave the slots alone.
Passes ==
    \/ \E c \in Cores : Barrier(c) \/ Service(c)
    \/ NextPhase \/ (\E op \in toBank : Deliver(op)) \/ (\E r \in replies : Complete(r))
    \/ Quiet /\ UNCHANGED <<sourceVars, toBank, replies, cpuVars>>
    \/ UNCHANGED vars
LEMMA PassesKeeps ==
  ASSUME FlowInv, Passes
  PROVE  /\ Todo' = Todo /\ issued' = issued /\ data' = data /\ claimed' = claimed
         /\ owners' = owners /\ replies' \subseteq replies
<1>1. /\ BankInv /\ BankTypes /\ SourceTypes /\ SourceInv /\ PlaceInv /\ InboxOnce
  BY DEF FlowInv, BankInv, PlaceInv, InboxOnce
<1>2. CASE (\E c \in Cores : Barrier(c)) \/ NextPhase \/ UNCHANGED vars
  <2>1. UNCHANGED <<sourceVars, bankVars, netVars, issued>>
    BY <1>2 DEF Barrier, NextPhase, vars, cpuVars
  <2>2. /\ Inboxed' = Inboxed /\ Engaged' = Engaged /\ toBank' = toBank
        /\ \A c \in Cores : Unsent(c)' = Unsent(c)
    BY <2>1 DEF bankVars, engineVars, netVars, sourceVars, Inboxed, Engaged, Captured, Unsent
  <2>3. Todo' = Todo
    BY <2>2, InTodo
  <2> QED BY <2>1, <2>3 DEF bankVars, slotVars, engineVars, netVars
<1>3. ASSUME NEW c \in Cores, Service(c)
      PROVE  /\ Todo' = Todo /\ issued' = issued /\ data' = data /\ claimed' = claimed
             /\ owners' = owners /\ replies' \subseteq replies
  <2>1. UNCHANGED <<bankVars, replies, cpuVars>>
    BY <1>3 DEF Service
  <2> QED BY <1>1, <1>3, <2>1, SendMoves DEF bankVars, slotVars, engineVars, cpuVars
<1>4. ASSUME NEW op \in toBank, Deliver(op)
      PROVE  /\ Todo' = Todo /\ issued' = issued /\ data' = data /\ claimed' = claimed
             /\ owners' = owners /\ replies' \subseteq replies
  <2>1. UNCHANGED <<replies, cpuVars, slotVars, engineVars>>
    BY <1>4 DEF Deliver, Arrive
  <2> QED BY <1>1, <1>4, <2>1, DeliverMoves DEF slotVars, engineVars, cpuVars
<1>5. ASSUME NEW r \in replies, Complete(r)
      PROVE  /\ Todo' = Todo /\ issued' = issued /\ data' = data /\ claimed' = claimed
             /\ owners' = owners /\ replies' \subseteq replies
  <2>1. UNCHANGED <<bankVars, cpuVars>> /\ replies' \subseteq replies
    BY <1>5 DEF Complete
  <2> QED BY <1>1, <1>5, <2>1, CompleteMoves DEF bankVars, slotVars, engineVars, cpuVars
<1>6. CASE Quiet /\ UNCHANGED <<sourceVars, toBank, replies, cpuVars>>
  <2>1. Inboxed' = Inboxed /\ Engaged' = Engaged /\ claimed' = claimed /\ data' = data
    BY <1>1, <1>6, QuietMoves
  <2>2. Todo' = Todo
    BY <1>1, <1>6, <2>1, BankTodo
  <2>3. owners' = owners
    BY <1>6 DEF Quiet, ReduceStart, Sleep, ServiceExpires, IssueExpires, ReductionExpires,
                ReduceWait, EvictVictim, engineVars
  <2> QED BY <1>6, <2>1, <2>2, <2>3 DEF cpuVars
<1> QED BY <1>2, <1>3, <1>4, <1>5, <1>6 DEF Passes

\* Every step issues, passes, captures or performs.
Finishes(op) ==
    /\ UNCHANGED <<sourceVars, toBank, cpuVars>>
    /\ \E b \in Way : FinishStep(b) /\ op = tbe[b].op
Captures(op) ==
    /\ UNCHANGED <<sourceVars, toBank, cpuVars, replies>>
    /\ Waiting # {} /\ op = inbox[HeadIndex].op /\ Capture(HeadIndex, op)
Accesses(op, out) ==
    /\ UNCHANGED <<sourceVars, toBank, cpuVars>>
    /\ Waiting # {} /\ op = inbox[HeadIndex].op
    /\ out = [w \in Touched(op) |-> data[w]]
    /\ Access(HeadIndex, op, out) /\ Answers(op, out)
LEMMA StepIs ==
  ASSUME [Next]_vars
  PROVE  \/ \E op \in Asked : Issue(op)
         \/ Passes
         \/ \E op : Finishes(op) \/ Captures(op) \/ \E out : Accesses(op, out)
<1>1. CASE BankRuns \/ TimerExpires
  BY <1>1, BankSteps DEF Passes, Finishes, Captures, Accesses
<1> QED BY <1>1 DEF Next, Passes

LEMMA SlotStep ==
  ASSUME FlowInv, SlotInv, [Next]_vars
  PROVE  SlotInv'
<1>0. LockedClaimed /\ Kept
  BY DEF SlotInv
<1>1. CASE Passes
  <2>1. LockedClaimed'
    BY <1>0, <1>1, PassesKeeps DEF LockedClaimed
  <2> QED BY <1>1, <2>1, PassesKeeps, SlotSame
<1>2. ASSUME NEW op, Finishes(op) PROVE SlotInv'
  <2>1. Performs(op) /\ LockedClaimed'
    BY <1>0, <1>2, FinishPerforms DEF Finishes
  <2> QED BY <2>1, SlotPerforms
<1>3. ASSUME NEW op, Captures(op) PROVE SlotInv'
  <2>1. /\ Todo' = Todo /\ issued' = issued /\ data' = data
        /\ claimed' = claimed \cup ClaimedBy(op) /\ LockedClaimed'
    BY <1>3, CaptureClaims DEF Captures
  <2> QED BY <2>1, SlotSame
<1>4. ASSUME NEW op, NEW out, Accesses(op, out) PROVE SlotInv'
  <2>1. Performs(op) /\ LockedClaimed'
    BY <1>0, <1>4, AccessPerforms DEF Accesses
  <2> QED BY <2>1, SlotPerforms
<1> QED BY <1>1, <1>2, <1>3, <1>4, StepIs, SlotIssue

-----------------------------------------------------------------------------
\* What a finalization finds in its slots.
LEMMA FinalValue ==
  ASSUME FlowInv, Kept, Content, NEW op \in Todo, op.kind = "finalize", NEW w \in Touched(op)
  PROVE  Range(data[w]) = FoldedInto(op.base) /\ IsInjective(data[w])
<1>1. PICK x : x = [op |-> op, phase |-> phase]
  BY Zenon
<1>2. /\ x \in issued /\ x.op = op /\ x.phase = phase /\ Lawful(x) /\ w \in Way
  BY <1>1, TodoEntry, EarlierPhases
<1>3. ProgramInv /\ op.kind \in Reclaim
  BY DEF FlowInv, Reclaim
<1>4. PICK r \in Rows : op.base \in Slots(r, RowWays) /\ Touched(op) \subseteq Slots(r, RowWays)
  BY <1>2, <1>3, ReclaimRow
<1>5. RowOf(op.base) = r
  <2>1. \A s \in Rows : op.base \in Slots(s, RowWays) => s = r
    BY <1>4, SameRow
  <2> QED BY <1>4, <2>1 DEF RowOf
<1>6. phase = 3
  BY <1>2, <1>3 DEF Lawful
<1>7. ~ GivenUp(w)
  BY <1>3, StillClaimed
<1>8. ASSUME NEW e \in issued, Feeds(e.op)
      PROVE  (w \in Touched(e.op) /\ e.op \notin Todo) <=> e.op.base = r
  <2>1. e.op \notin Todo
    <3>1. e.phase # phase
      BY <1>6, <1>8, EarlierPhases DEF Lawful, Feeds
    <3> QED BY <3>1, EarlierPhases
  <2>2. e.op.base \in Rows /\ Touched(e.op) = Slots(e.op.base, RowWays)
    BY <1>3, <1>8, FeedsRow
  <2>3. w \in Slots(r, RowWays)
    BY <1>4
  <2> QED BY <2>1, <2>2, <2>3, SameRow
<1>9. Fed(w) = FoldedInto(op.base)
  <2>1. {y \in issued : Feeds(y.op) /\ w \in Touched(y.op) /\ y.op \notin Todo} =
        {y \in issued : y.op.base = r /\ y.op.kind \in Setup \cup {"reduce"}}
    BY <1>8 DEF Feeds
  <2> QED BY <1>5, <2>1 DEF Fed, FoldedInto
<1> QED BY <1>2, <1>7, <1>9 DEF Content

\* What a load finds in its slots.
LEMMA ReadValue ==
  ASSUME FlowInv, Content, NEW op \in Todo, op \in Sent, op.kind = "load",
         NEW e \in issued, e.op.core = op.core, e.op.n < op.n, Feeds(e.op),
         e.op.base = op.base, [op |-> op, phase |-> 3] \notin issued, NEW w \in Touched(op)
  PROVE  Id(e.op) \in Range(data[w])
<1>1. /\ w \in Way /\ op \in Ops /\ op.n \in Nat /\ phase \in Nat /\ phase <= 3
      /\ [op |-> op, phase |-> phase] \in issued
  BY TodoEntry
<1>2. ~ GivenUp(w)
  <2>1. phase # 3
    BY <1>1
  <2> QED BY <1>1, <2>1, EarlierPhases
<1>3. w \in Touched(e.op)
  <2>1. Touched(e.op) = Slots(e.op.base, RowWays)
    BY FeedsRow DEF FlowInv
  <2> QED BY <2>1 DEF Touched, Size
<1>4. e.op \notin Todo
  <2> SUFFICES ASSUME e.op \in Todo PROVE FALSE
    OBVIOUS
  <2>0. e.op.n \in Nat
    BY TodoEntry, Zenon
  <2>1. e.op.n \in Nat /\ e.op # op
    BY <1>1, <2>0
  <2>2. ~ Apart(op, e.op)
    BY <1>3 DEF Apart
  <2>3. op.n < e.op.n
    BY <2>1, <2>2, SentFirst
  <2> QED BY <1>1, <2>1, <2>3
<1>5. Id(e.op) \in Fed(w)
  BY <1>3, <1>4 DEF Fed
<1> QED BY <1>1, <1>2, <1>5 DEF Content

ReplyInv == FinalExact /\ ReadsOwn

\* A new answer that is right keeps the answers right.
LEMMA RepliesMore ==
  ASSUME ReplyInv, issued' = issued, NEW op, NEW val,
         replies' \subseteq replies \cup {[op |-> op, value |-> val]},
         op.kind = "finalize" =>
            \A w \in Touched(op) :
                Range(val[w]) = FoldedInto(op.base) /\ IsInjective(val[w]),
         op.kind = "load" =>
            \A e \in issued :
                /\ e.op.core = op.core /\ e.op.n < op.n
                /\ Feeds(e.op) /\ e.op.base = op.base
                /\ [op |-> op, phase |-> 3] \notin issued
                => \A w \in Touched(op) : Id(e.op) \in Range(val[w])
  PROVE  ReplyInv'
<1>1. PICK new : new = [op |-> op, value |-> val]
  BY Zenon
<1>2. /\ new.op = op /\ new.value = val /\ replies' \subseteq replies \cup {new}
  BY <1>1
<1>3. \A b : FoldedInto(b)' = FoldedInto(b)
  BY DEF FoldedInto
<1>4. FinalExact'
  BY <1>2, <1>3 DEF ReplyInv, FinalExact
<1>5. ReadsOwn'
  BY <1>2 DEF ReplyInv, ReadsOwn, Feeds
<1> QED BY <1>4, <1>5 DEF ReplyInv

\* An operation issued later does not change what an answer had to contain.
LEMMA RepliesIssue ==
  ASSUME FlowInv, ReplyInv, NEW op \in Asked, Issue(op)
  PROVE  ReplyInv'
<1>1. SourceTypes /\ Numbered /\ SourceInv /\ PlaceInv /\ Disciplined
  BY DEF FlowInv, BankInv, ProgramInv
<1>2. PICK new : new = [op |-> op, phase |-> phase]
  BY Zenon
<1>3. /\ issued' = issued \cup {new} /\ new.op = op /\ replies' = replies
      /\ op.n \in Nat /\ op.kind \in Kinds /\ Legal(op)
      /\ \A e \in issued : e.op.core = op.core => e.op.n < op.n
  BY <1>1, <1>2, IssueIs
<1>4. ASSUME NEW r \in replies PROVE \E x \in issued : x.op = r.op /\ x.phase = phase
  <2>1. Outstanding(r.op)
    BY <1>1 DEF PlaceInv, Sent, Replied
  <2>2. [op |-> r.op, phase |-> phase] \in issued
    BY <1>1, <2>1, OutstandingIs
  <2> QED BY <2>2
<1>5. FinalExact'
  <2> SUFFICES ASSUME NEW r \in replies, r.op.kind = "finalize", NEW w \in Touched(r.op)
               PROVE  /\ Range(r.value[w]) = FoldedInto(r.op.base)'
                      /\ IsInjective(r.value[w])
    BY <1>3 DEF FinalExact
  <2>1. PICK x \in issued : x.op = r.op /\ x.phase = phase
    BY <1>4
  <2>2. phase = 3
    BY <1>1, <2>1 DEF Disciplined, Lawful, Reclaim
  <2>3. op.kind \notin Setup \cup {"reduce"}
    <3>1. Disciplined'
      BY <1>1, IssueDisciplined
    <3>2. Lawful(new)'
      BY <1>3, <3>1 DEF Disciplined
    <3>3. new.phase = 3
      BY <1>2, <2>2
    <3> QED BY <1>3, <3>2, <3>3 DEF Lawful
  <2>4. FoldedInto(r.op.base)' = FoldedInto(r.op.base)
    <3>1. {y \in issued' : y.op.base = RowOf(r.op.base) /\ y.op.kind \in Setup \cup {"reduce"}} =
          {y \in issued : y.op.base = RowOf(r.op.base) /\ y.op.kind \in Setup \cup {"reduce"}}
      BY <1>3, <2>3
    <3> QED BY <3>1 DEF FoldedInto
  <2> QED BY <2>4 DEF ReplyInv, FinalExact
<1>6. ReadsOwn'
  <2> SUFFICES ASSUME NEW r \in replies, r.op.kind = "load", NEW e \in issued',
                      e.op.core = r.op.core, e.op.n < r.op.n,
                      e.op.kind \in Setup \cup {"reduce"}, e.op.base = r.op.base,
                      [op |-> r.op, phase |-> 3] \notin issued', NEW w \in Touched(r.op)
               PROVE  Id(e.op) \in Range(r.value[w])
    BY <1>3 DEF ReadsOwn
  <2>1. PICK x \in issued : x.op = r.op /\ x.phase = phase
    BY <1>4
  <2>2. CASE e \in issued
    BY <1>3, <2>2 DEF ReplyInv, ReadsOwn
  <2>3. CASE e = new
    <3>1. r.op.n < op.n /\ op.n < r.op.n
      BY <1>3, <2>1, <2>3
    <3>2. x.op \in FitOps
      BY <1>1 DEF Numbered
    <3>3. r.op.n \in Nat
      BY <2>1, <3>2, TouchedIs DEF FitOps
    <3> QED BY <1>3, <3>1, <3>3
  <2> QED BY <1>3, <2>2, <2>3
<1> QED BY <1>5, <1>6 DEF ReplyInv

LEMMA ReplyStep ==
  ASSUME FlowInv, SlotInv, ReplyInv, [Next]_vars
  PROVE  ReplyInv'
<1>0. LockedClaimed /\ Kept /\ Content
  BY DEF SlotInv
<1>1. CASE Passes
  <2>1. issued' = issued /\ replies' \subseteq replies
    BY <1>1, PassesKeeps
  <2>2. \A b : FoldedInto(b)' = FoldedInto(b)
    BY <2>1 DEF FoldedInto
  <2> QED BY <2>1, <2>2 DEF ReplyInv, FinalExact, ReadsOwn
<1>2. ASSUME NEW op, Finishes(op) PROVE ReplyInv'
  <2>1. /\ Performs(op) /\ op.kind \in Reductions \cup {"finalize"}
        /\ replies' = replies \cup {[op |-> op, value |-> Result(op)]}
    BY <1>0, <1>2, FinishPerforms DEF Finishes
  <2>2. ASSUME op.kind = "finalize", NEW w \in Touched(op)
        PROVE  Range(Result(op)[w]) = FoldedInto(op.base) /\ IsInjective(Result(op)[w])
    <3>1. Result(op)[w] = data[w]
      BY <2>2 DEF Result
    <3> QED BY <1>0, <2>1, <2>2, <3>1, FinalValue, Zenon DEF Performs
  <2>3. op.kind # "load" /\ issued' = issued
    BY <2>1 DEF Reductions, Performs
  <2> QED BY <2>1, <2>2, <2>3, RepliesMore, Zenon
<1>3. ASSUME NEW op, Captures(op) PROVE ReplyInv'
  <2>1. issued' = issued /\ replies' = replies
    BY <1>3 DEF Captures, cpuVars
  <2> QED BY <2>1 DEF ReplyInv, FinalExact, ReadsOwn, FoldedInto
<1>4. ASSUME NEW op, NEW out, Accesses(op, out) PROVE ReplyInv'
  <2>1. Performs(op) /\ op.kind \in {"load", "store", "release"}
    BY <1>0, <1>4, AccessPerforms DEF Accesses
  <2>2. /\ replies' = replies \cup {[op |-> op, value |-> out]} /\ issued' = issued
        /\ \A w \in Touched(op) : out[w] = data[w]
    BY <1>4 DEF Accesses, Answers, cpuVars
  <2>3. ASSUME op.kind = "load", NEW e \in issued, e.op.core = op.core, e.op.n < op.n,
               Feeds(e.op), e.op.base = op.base, [op |-> op, phase |-> 3] \notin issued,
               NEW w \in Touched(op)
        PROVE  Id(e.op) \in Range(out[w])
    BY <1>0, <2>1, <2>2, <2>3, ReadValue DEF Performs
  <2> QED BY <2>1, <2>2, <2>3, RepliesMore
<1> QED BY <1>1, <1>2, <1>3, <1>4, StepIs, RepliesIssue

-----------------------------------------------------------------------------
ReductionInv == FlowInv /\ SlotInv /\ ReplyInv

LEMMA ReductionInvInit == Init => ReductionInv
<1> SUFFICES ASSUME Init PROVE ReductionInv
  OBVIOUS
<1>1. FlowInv
  BY FlowInvInit
<1>2. /\ issued = {} /\ replies = {} /\ data = [w \in Way |-> <<>>]
      /\ owners = [w \in Way |-> Unlocked]
  BY DEF Init, BankInit
<1>3. \A w : ~ GivenUp(w) /\ Fed(w) = {}
  BY <1>2 DEF GivenUp, Fed
<1>4. \A w \in Way : Range(data[w]) = {} /\ IsInjective(data[w]) /\ DOMAIN data[w] = {}
  BY <1>2 DEF Range, IsInjective
<1>5. SlotInv
  BY <1>2, <1>3, <1>4, Zenon DEF SlotInv, LockedClaimed, Kept, Content, NoOvertaking, OwnOrder
<1> QED BY <1>1, <1>2, <1>5 DEF ReductionInv, ReplyInv, FinalExact, ReadsOwn

\* The inductive invariant of the whole system.
THEOREM ReductionInvariant == Spec => []ReductionInv
<1>1. ASSUME ReductionInv, [Next]_vars PROVE ReductionInv'
  BY <1>1, FlowInvStep, SlotStep, ReplyStep DEF ReductionInv
<1> QED BY <1>1, ReductionInvInit, PTL DEF Spec

\* A captured command owns its destination alone, and the destination stays
\* claimed from capture to completion: l3ReductionReserve's panic and the
\* engine's invalid transitions are unreachable.
THEOREM CommandsExclusive == Spec => []Exclusive
<1>1. ReductionInv => Exclusive
  BY DEF ReductionInv, FlowInv, BankInv, SlotInv, Exclusive
<1> QED BY <1>1, ReductionInvariant, PTL

\* Contributions are neither lost, doubled nor reordered: in the slots, in
\* what a core reads back and in what a finalization returns.
THEOREM FoldsCorrect == Spec => []FoldsExact
<1>1. ReductionInv => FoldsExact
  BY DEF ReductionInv, SlotInv, ReplyInv, FoldsExact
<1> QED BY <1>1, ReductionInvariant, PTL

-----------------------------------------------------------------------------
\* Every step of the system is a step of the accumulator, or leaves it alone.
LEMMA AtomicStep ==
  ASSUME ReductionInv, [Next]_vars
  PROVE  Acc!Next \/ (claimed' = claimed /\ data' = data)
<1>0. FlowInv /\ SlotInv /\ LockedClaimed /\ Kept /\ Content /\ data \in [Way -> Seq(Ids)]
  BY DEF ReductionInv, SlotInv, FlowInv, BankInv, BankTypes
<1>1. ASSUME NEW op \in FitOps, Touched(op) = Slots(op.base, RowWays)
      PROVE  op.base \in Acc!RowBases
  <2>1. op \in Ops /\ op.base \in Way /\ Touched(op) \subseteq Way
    BY TouchedIs DEF FitOps
  <2>2. op.base + RowWays - 1 \in Touched(op)
    BY <1>1, <2>1, GeometryAssumption DEF Slots, Way
  <2>3. op.base + RowWays - 1 \in Way
    BY <2>1, <2>2
  <2>4. op.base + RowWays <= Ways
    BY <2>1, <2>3, GeometryAssumption DEF Way
  <2> QED BY <2>1, <2>4 DEF Acc!RowBases, Acc!Way, Way
<1>2. ASSUME NEW op, Performs(op), op.kind \in Setup, claimed' = claimed \cup Touched(op)
      PROVE  Acc!Next
  <2>1. op \in FitOps /\ op \in Ops
    BY <1>0, <1>2, TodoEntry, Zenon DEF Performs
  <2>2. Touched(op) = Slots(op.base, RowWays) /\ Id(op) \in Ids
    BY <1>2, <2>1, TouchedIs DEF Setup, Touched, Size
  <2>3. data' = [w \in Way |-> IF w \in Slots(op.base, RowWays) THEN <<Id(op)>> ELSE data[w]]
    BY <1>2, <2>2 DEF Performs, After, Setup, Reclaim
  <2>4. Acc!Replace(op.base, Id(op))
    BY <1>2, <2>2, <2>3 DEF Acc!Replace, Acc!Update, Acc!Slots, Acc!Way, Slots, Way
  <2> QED BY <1>1, <2>1, <2>2, <2>4 DEF Acc!Next, Acc!Ids, Ids
<1>3. ASSUME NEW op, Performs(op), op.kind = "reduce", claimed' = claimed,
             Touched(op) \subseteq claimed
      PROVE  Acc!Next
  <2>1. op \in FitOps /\ op \in Ops /\ op \in Todo
    BY <1>0, <1>3, TodoEntry, Zenon DEF Performs
  <2>2. Touched(op) = Slots(op.base, RowWays) /\ Id(op) \in Ids
    BY <1>3, <2>1, TouchedIs DEF Touched, Size
  <2>3. data' = [w \in Way |-> IF w \in Slots(op.base, RowWays) THEN Append(data[w], Id(op))
                               ELSE data[w]]
    BY <1>3, <2>2 DEF Performs, After, Setup, Reclaim
  <2>4. ASSUME NEW w \in Touched(op), NEW i \in DOMAIN data[w] PROVE data[w][i] # Id(op)
    <3>1. w \in Way
      BY <2>1 DEF FitOps
    <3>2. data[w][i] \in Range(data[w])
      BY DEF Range
    <3>3. data[w][i] \in Fed(w)
      BY <1>0, <3>1, <3>2 DEF Content
    <3>4. \A e \in issued : Id(e.op) = Id(op) => e.op = op
      BY <1>0, <2>1, TodoEntry, Zenon
    <3> QED BY <2>1, <3>3, <3>4 DEF Fed
  <2>5. Acc!Fold(op.base, Id(op))
    BY <1>3, <2>2, <2>3, <2>4 DEF Acc!Fold, Acc!Update, Acc!Slots, Acc!Way, Slots, Way
  <2> QED BY <1>1, <2>1, <2>2, <2>5 DEF Acc!Next, Acc!Ids, Ids
<1>4. ASSUME NEW op, Performs(op), op.kind \in Reclaim, claimed' = claimed \ Touched(op),
             Touched(op) \subseteq claimed
      PROVE  Acc!Next
  <2>1. op \in FitOps /\ op.base \in Way
    BY <1>0, <1>4, TodoEntry, Zenon DEF Performs
  <2>2. data' = [w \in Way |-> IF w \in Touched(op) THEN <<>> ELSE data[w]]
    BY <1>4 DEF Performs, After, Setup, Reclaim
  <2>3. Acc!GiveUp(Touched(op))
    BY <1>4, <2>2 DEF Acc!GiveUp, Acc!Update, Acc!Way, Way
  <2>4. Touched(op) = {op.base} \/ Touched(op) = Slots(op.base, FinalWays)
    <3>1. CASE op.kind = "release"
      <4>1. Touched(op) = op.base .. op.base
        BY <2>1, <3>1 DEF Touched, Size, Slots, Way
      <4> QED BY <2>1, <4>1 DEF Way
    <3>2. CASE op.kind = "finalize"
      BY <3>2 DEF Touched, Size
    <3> QED BY <1>4, <3>1, <3>2 DEF Reclaim
  <2> QED BY <2>1, <2>3, <2>4, Zenon DEF Acc!Next, Acc!Slots, Acc!Way, Slots, Way
<1>5. ASSUME NEW op, Finishes(op) PROVE Acc!Next
  <2>1. /\ Performs(op) /\ Touched(op) \subseteq claimed
        /\ op.kind \in Reductions \cup {"finalize"} /\ claimed' = claimed \ Reclaimed(op)
    BY <1>0, <1>5, FinishPerforms DEF Finishes
  <2>2. CASE op.kind = "init"
    <3>1. claimed' = claimed \cup Touched(op)
      BY <2>1, <2>2 DEF Reclaimed
    <3> QED BY <1>2, <2>1, <2>2, <3>1 DEF Setup
  <2>3. CASE op.kind = "reduce"
    <3>1. claimed' = claimed
      BY <2>1, <2>3 DEF Reclaimed
    <3> QED BY <1>3, <2>1, <2>3, <3>1
  <2>4. CASE op.kind = "finalize"
    BY <1>4, <2>1, <2>4 DEF Reclaimed, Reclaim
  <2> QED BY <2>1, <2>2, <2>3, <2>4 DEF Reductions
<1>6. ASSUME NEW op, NEW out, Accesses(op, out)
      PROVE  Acc!Next \/ (claimed' = claimed /\ data' = data)
  <2>1. /\ Performs(op) /\ op.kind \in {"load", "store", "release"}
        /\ op.kind = "release" => Touched(op) \subseteq claimed
    BY <1>0, <1>6, AccessPerforms DEF Accesses
  <2>2. op \in FitOps
    BY <1>0, <2>1, TodoEntry, Zenon DEF Performs
  <2>3. /\ op.kind = "load" => claimed' = claimed /\ data' = data
        /\ op.kind = "store" => claimed' = claimed \cup Touched(op)
        /\ op.kind = "release" => claimed' = claimed \ Touched(op)
    BY <1>0, <1>6, <2>2, AccessIs, Zenon DEF Accesses, FlowInv, BankInv
  <2> QED BY <1>2, <1>4, <2>1, <2>3 DEF Setup, Reclaim
<1>7. ASSUME NEW op, Captures(op)
      PROVE  Acc!Next \/ (claimed' = claimed /\ data' = data)
  <2>1. data' = data /\ claimed' = claimed \cup ClaimedBy(op) /\ op \in FitOps
    BY <1>0, <1>7, CaptureClaims DEF Captures
  <2>2. CASE op.kind = "init"
    <3>1. Touched(op) = Slots(op.base, RowWays)
      BY <2>2 DEF Touched, Size
    <3>2. Acc!Claim(op.base)
      BY <2>1, <2>2, <3>1 DEF ClaimedBy, Acc!Claim, Acc!Slots, Slots
    <3> QED BY <1>1, <2>1, <3>1, <3>2 DEF Acc!Next
  <2>3. CASE op.kind # "init"
    BY <2>1, <2>3 DEF ClaimedBy
  <2> QED BY <2>2, <2>3
<1>8. CASE Passes
  BY <1>0, <1>8, PassesKeeps
<1>9. ASSUME NEW op \in Asked, Issue(op) PROVE claimed' = claimed /\ data' = data
  BY <1>9 DEF Issue, bankVars, slotVars
<1> QED BY <1>5, <1>6, <1>7, <1>8, <1>9, StepIs

\* The read at the start of a command, its arithmetic and the write at the
\* end implement one atomic step of an accumulator: L3Reductions refines
\* Accumulator.
THEOREM EngineAtomic == Spec => Atomic
<1>1. Init => Acc!Init
  BY DEF Init, BankInit, Acc!Init, Acc!Way, Way
<1>2. ASSUME ReductionInv, [Next]_vars PROVE [Acc!Next]_(Acc!accVars)
  BY <1>2, AtomicStep DEF Acc!accVars
<1> QED BY <1>1, <1>2, ReductionInvariant, PTL DEF Spec, Atomic, Acc!Spec

-----------------------------------------------------------------------------
\* The capacities of a Sequencer's reduction queues.
Capped(c) ==
    /\ Len(source[c]) <= SourceCap
    /\ IsFiniteSet(flight[c]) /\ Cardinality(flight[c]) <= FlightCap
CapInv == \A c \in Cores : Capped(c)

\* Marking records as issued makes no more of them.
LEMMA MarkedFit ==
  ASSUME NEW F, IsFiniteSet(F), NEW send \in SUBSET F, NEW G,
         G = (F \ send) \cup {[op |-> f.op, issued |-> TRUE] : f \in send}
  PROVE  IsFiniteSet(G) /\ Cardinality(G) <= Cardinality(F)
<1>1. PICK mark : mark = [f \in F |-> IF f \in send THEN [op |-> f.op, issued |-> TRUE] ELSE f]
  BY Zenon
<1>2. mark \in [F -> G]
  BY <1>1, Zenon
<1>3. \A g \in G : \E f \in F : mark[f] = g
  BY <1>1
<1>4. mark \in Surjection(F, G)
  BY <1>2, <1>3 DEF Surjection
<1> QED BY <1>4, FS_Surjection

\* serviceL3Reduction moves a command only into a flight with room.
LEMMA ServiceCapped ==
  ASSUME SourceTypes, SourceInv, NEW c \in Cores, Capped(c), NEW sent, ServiceSource(c, sent)
  PROVE  Capped(c)'
<1>1. PICK F, send : F = Admit(c) /\ send = Sends(c, sent)
  OBVIOUS
<1>2. CoreInv(c)
  BY DEF SourceInv, CoreInv
<1>3. Serviced(c, sent, F, send)
  BY <1>1, <1>2, ServiceIs
<1>4. /\ source'[c] = Remaining(c) /\ send \subseteq F
      /\ flight'[c] = (F \ send) \cup {[op |-> f.op, issued |-> TRUE] : f \in send}
  BY <1>3 DEF Serviced, SourceTypes
<1>5. source[c] \in Seq(FitOps) /\ IsFiniteSet(flight[c]) /\ Cardinality(flight[c]) \in Nat
  BY RedsFit, FS_CardinalityType DEF Capped
<1>6. Len(source'[c]) <= SourceCap
  <2>1. CASE Moves(c)
    <3>1. source[c] # <<>> /\ source'[c] = Tail(source[c])
      BY <1>4, <2>1 DEF Moves, Remaining
    <3>2. Len(source'[c]) = Len(source[c]) - 1 /\ Len(source[c]) \in Nat
      BY <1>5, <3>1, HeadTailProperties, LenProperties
    <3> QED BY <3>2, SourceAssumption DEF Capped
  <2>2. CASE ~ Moves(c)
    BY <1>4, <2>2 DEF Remaining, Capped
  <2> QED BY <2>1, <2>2
<1>7. IsFiniteSet(F) /\ Cardinality(F) <= FlightCap /\ Cardinality(F) \in Nat
  <2>1. CASE Moves(c)
    <3>1. PICK h : h = [op |-> Head(source[c]), issued |-> FALSE]
      BY Zenon
    <3>2. F = flight[c] \cup {h} /\ Cardinality(flight[c]) < FlightCap
      BY <1>1, <2>1, <3>1 DEF Admit, Moves
    <3>3. /\ IsFiniteSet(flight[c] \cup {h})
          /\ \/ Cardinality(flight[c] \cup {h}) = Cardinality(flight[c])
             \/ Cardinality(flight[c] \cup {h}) = Cardinality(flight[c]) + 1
      BY <1>5, FS_AddElement, Zenon
    <3>4. Cardinality(F) \in Nat
      BY <3>2, <3>3, FS_CardinalityType
    <3> QED BY <1>5, <3>2, <3>3, <3>4, SourceAssumption
  <2>2. CASE ~ Moves(c)
    BY <1>1, <1>5, <2>2, Zenon DEF Admit, Capped
  <2> QED BY <2>1, <2>2
<1>8. IsFiniteSet(flight'[c]) /\ Cardinality(flight'[c]) <= Cardinality(F)
  BY <1>4, <1>7, MarkedFit
<1>9. Cardinality(flight'[c]) \in Nat
  BY <1>8, FS_CardinalityType
<1> QED BY <1>6, <1>7, <1>8, <1>9, SourceAssumption DEF Capped

LEMMA CapStep ==
  ASSUME FlowInv, CapInv, [Next]_vars
  PROVE  CapInv'
<1>0. SourceTypes /\ SourceInv /\ PlaceInv /\ Numbered
  BY DEF FlowInv, BankInv, ProgramInv
<1>1. CASE source' = source /\ flight' = flight
  BY <1>1 DEF CapInv, Capped
<1>2. ASSUME NEW op \in Asked, Issue(op) PROVE CapInv'
  <2>1. op \in FitOps /\ op.core \in Cores
    BY <1>0, <1>2, IssueIs
  <2>2. CASE AcceptReduction(op)
    <3>1. /\ flight' = flight /\ source' = [source EXCEPT ![op.core] = Append(@, op)]
          /\ Len(source[op.core]) < SourceCap
      BY <2>2 DEF AcceptReduction
    <3>2. source[op.core] \in Seq(FitOps) /\ source'[op.core] = Append(source[op.core], op)
      BY <1>0, <2>1, <3>1, RedsFit DEF SourceTypes
    <3>3. Len(Append(source[op.core], op)) = Len(source[op.core]) + 1 /\ Len(source[op.core]) \in Nat
      BY ONLY <2>1, <3>2, AppendProperties, LenProperties
    <3>4. Len(source'[op.core]) <= SourceCap
      BY <3>1, <3>2, <3>3, SourceAssumption
    <3>5. \A c \in Cores : c # op.core => source'[c] = source[c]
      BY <3>1
    <3> QED BY <3>1, <3>4, <3>5 DEF CapInv, Capped
  <2>3. CASE AcceptAccess(op)
    BY <1>1, <2>3 DEF AcceptAccess
  <2> QED BY <1>2, <2>2, <2>3 DEF Issue
<1>3. ASSUME NEW c \in Cores, Service(c) PROVE CapInv'
  <2>1. PICK sent : ServiceSource(c, sent)
    BY <1>3 DEF Service
  <2>2. Capped(c)'
    BY <1>0, <2>1, ServiceCapped DEF CapInv
  <2>3. \A d \in Cores : d # c => source'[d] = source[d] /\ flight'[d] = flight[d]
    BY <2>1 DEF ServiceSource
  <2> QED BY <2>2, <2>3 DEF CapInv, Capped
<1>4. ASSUME NEW r \in replies, Complete(r) PROVE CapInv'
  <2>1. PICK op : op = r.op
    OBVIOUS
  <2>2. CASE op.kind \in Reductions
    <3>1. source' = source /\ flight' = [flight EXCEPT ![op.core] = {f \in @ : f.op # op}]
      BY <1>4, <2>1, <2>2 DEF Complete, CompleteReduction
    <3>2. ASSUME NEW c \in Cores PROVE Capped(c)'
      <4>1. flight'[c] \subseteq flight[c]
        BY <1>0, <3>1 DEF SourceTypes
      <4>2. /\ IsFiniteSet(flight[c]) /\ IsFiniteSet(flight'[c])
            /\ Cardinality(flight'[c]) <= Cardinality(flight[c])
        BY <4>1, FS_Subset DEF CapInv, Capped
      <4>3. Cardinality(flight'[c]) \in Nat /\ Cardinality(flight[c]) \in Nat
        BY <4>2, FS_CardinalityType
      <4> QED BY <3>1, <4>2, <4>3, SourceAssumption DEF CapInv, Capped
    <3> QED BY <3>2 DEF CapInv
  <2>3. CASE op.kind \notin Reductions
    BY <1>1, <1>4, <2>1, <2>3 DEF Complete, CompleteAccess
  <2> QED BY <2>2, <2>3
<1>5. CASE \/ \E c \in Cores : Barrier(c)
           \/ \E op \in toBank : Deliver(op)
           \/ NextPhase \/ BankRuns \/ TimerExpires \/ UNCHANGED vars
  <2>1. UNCHANGED sourceVars
    BY <1>5 DEF Barrier, NextPhase, Deliver, BankRuns, TimerExpires, vars
  <2> QED BY <1>1, <2>1 DEF sourceVars
<1> QED BY <1>2, <1>3, <1>4, <1>5 DEF Next

\* Type correctness of sources and bank.  The source queue and the flight of
\* a Sequencer stay within their capacities, and so does the command buffer.
THEOREM ReductionTypes == Spec => []TypeOK
<1>1. Init => CapInv
  <2>1. ASSUME Init, NEW c \in Cores PROVE Capped(c)
    <3>1. source[c] = <<>> /\ flight[c] = {}
      BY <2>1 DEF Init, SourceInit
    <3> QED BY <3>1, FS_EmptySet, SourceAssumption DEF Capped
  <2> QED BY <2>1 DEF CapInv
<1>2. ASSUME ReductionInv, CapInv, [Next]_vars PROVE CapInv'
  BY <1>2, CapStep DEF ReductionInv
<1>3. ASSUME ReductionInv, CapInv PROVE TypeOK
  <2>1. BankTypes /\ SourceTypes /\ LocksExact /\ CountersTyped /\ count <= Entries
    BY <1>3 DEF ReductionInv, FlowInv, BankInv, SourceInv
  <2>2. FitOps \subseteq Ops
    BY DEF FitOps
  <2>3. source \in [Cores -> Seq(Ops)]
    BY <2>1, <2>2 DEF SourceTypes
  <2>4. flight \in [Cores -> SUBSET [op : Ops, issued : BOOLEAN]] /\ table \in [Cores -> SUBSET Ops]
    BY <2>1, <2>2 DEF SourceTypes
  <2>5. inbox \in Seq([op : Ops, on : Way \cup {Unlocked}])
    <3>1. PICK R : R = [op : Ops, on : Way \cup {Unlocked}]
      BY Zenon
    <3>2. Requests \subseteq R
      BY <2>2, <3>1 DEF Requests
    <3>3. inbox \in Seq(Requests)
      BY <2>1 DEF BankTypes
    <3>4. inbox \in Seq(R)
      BY ONLY <3>2, <3>3
    <3> QED BY <3>1, <3>4
  <2>6. count \in 0 .. Entries /\ active \in 0 .. count
    <3>1. IsFiniteSet(Way)
      BY FS_Interval, GeometryAssumption DEF Way
    <3>2. IsFiniteSet(Captured) /\ Started \subseteq Captured
      BY <3>1, FS_Subset DEF Captured, Started
    <3>3. Cardinality(Started) <= Cardinality(Captured)
      BY <3>2, FS_Subset
    <3> QED BY <2>1, <3>3, BankAssumption DEF LocksExact, BankTypes
  <2> QED BY <1>3, <2>1, <2>3, <2>4, <2>5, <2>6 DEF TypeOK, BankTypes, CountersTyped, CapInv, Capped
<1> QED BY <1>1, <1>2, <1>3, ReductionInvariant, PTL DEF Spec
=============================================================================
