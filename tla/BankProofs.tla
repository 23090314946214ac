----------------------------- MODULE BankProofs -----------------------------
(***************************************************************************)
(* The reduction engine of an LLC bank, for any number of cores, ways,     *)
(* entries and rows: its locks and counters are exact, what a started      *)
(* command will install is never out of date, and the bank does not sleep  *)
(* on work.                                                                *)
(***************************************************************************)
EXTENDS L3Reductions, TLAPS, FiniteSetTheorems, SequenceTheorems

-----------------------------------------------------------------------------
\* Operations whose slots are all in the set.
FitOps == {op \in Ops : Touched(op) \subseteq Way}

\* A set of naturals that is not empty has a smallest element.
LEMMA Smallest ==
  ASSUME NEW S, S \subseteq Nat, S # {}
  PROVE  \E x \in S : \A y \in S : x <= y
<1> DEFINE R == {ss \in Nat \X Nat : ss[1] < ss[2]}
<1>1. IsWellFoundedOn(R, Nat)
  BY NatLessThanWellFounded, Zenon DEF OpToRel
<1>2. PICK x \in S : \A y \in S : ~ (<<y, x>> \in R)
  <2> HIDE DEF R
  <2> QED BY <1>1, WFMin, Zenon
<1>3. \A y \in S : x <= y
  <2> SUFFICES ASSUME NEW y \in S PROVE x <= y
    OBVIOUS
  <2>1. x \in Nat /\ y \in Nat
    OBVIOUS
  <2>2. ~ (<<y, x>> \in R)
    BY <1>2
  <2>3. ~ (y < x)
    BY <2>1, <2>2
  <2> QED BY <2>1, <2>3
<1> QED BY <1>3

\* The set of ways is finite, and so is every set of bases.
LEMMA WaysFinite == IsFiniteSet(Way) /\ \A S \in SUBSET Way : IsFiniteSet(S)
<1>1. 0 \in Int /\ Ways - 1 \in Int
  BY GeometryAssumption
<1>2. IsFiniteSet(0 .. Ways - 1)
  BY ONLY <1>1, FS_Interval, Zenon
<1>3. IsFiniteSet(Way)
  BY <1>2 DEF Way
<1> QED BY ONLY <1>3, FS_Subset, Zenon

\* What an operation touches is an interval that starts at its base.
LEMMA TouchedIs ==
  ASSUME NEW op \in Ops
  PROVE  /\ Size(op) \in 1 .. RowWays /\ Touched(op) = op.base .. op.base + Size(op) - 1
         /\ op.base \in Touched(op) /\ op.base \in Way /\ op.n \in 1 .. MaxOps
         /\ op.core \in Cores /\ op.kind \in Kinds /\ Id(op) \in Ids
<1>1. PICK c \in Cores, n \in 1 .. MaxOps, k \in Kinds, b \in Way : op = Op(c, n, k, b)
  BY DEF Ops
<1>2. /\ op.base = b /\ op.n = n /\ op.kind = k /\ op.core = c
  BY <1>1 DEF Op
<1>3. b \in Nat /\ RowWays \in Nat /\ RowWays >= 1 /\ FinalWays \in 1 .. RowWays
  BY GeometryAssumption DEF Way
<1>4. Size(op) \in 1 .. RowWays
  BY <1>3 DEF Size
<1>5. Touched(op) = op.base .. op.base + Size(op) - 1
  BY DEF Touched, Slots
<1>6. op.base \in Touched(op)
  BY <1>2, <1>3, <1>4, <1>5
<1>7. Id(op) \in Ids
  BY <1>2 DEF Id, Ids
<1> QED BY <1>2, <1>4, <1>5, <1>6, <1>7

\* Pop takes one element out of a queue and keeps the others in order.
LEMMA PopIs ==
  ASSUME NEW S, NEW q \in Seq(S), NEW i \in DOMAIN q
  PROVE  /\ Pop(q, i) \in Seq(S) /\ DOMAIN Pop(q, i) = 1 .. Len(q) - 1
         /\ \A k \in DOMAIN Pop(q, i) :
                /\ k \in DOMAIN q /\ k + 1 \in DOMAIN q
                /\ Pop(q, i)[k] = IF k < i THEN q[k] ELSE q[k + 1]
<1>1. Len(q) \in Nat /\ DOMAIN q = 1 .. Len(q) /\ i \in 1 .. Len(q)
  BY LenProperties
<1>2. \A k \in 1 .. Len(q) : q[k] \in S
  BY ElementOfSeq
<1> DEFINE front == SubSeq(q, 1, i - 1)
           back == SubSeq(q, i + 1, Len(q))
<1>3. /\ front \in Seq(S) /\ Len(front) = i - 1
      /\ \A k \in 1 .. i - 1 : front[k] = q[k]
  <2>1. 1 \in Int /\ i - 1 \in Int /\ \A k \in 1 .. i - 1 : q[k] \in S
    BY <1>1, <1>2
  <2>2. /\ SubSeq(q, 1, i - 1) \in Seq(S)
        /\ Len(SubSeq(q, 1, i - 1)) = IF 1 <= i - 1 THEN i - 1 - 1 + 1 ELSE 0
        /\ \A k \in 1 .. i - 1 - 1 + 1 : SubSeq(q, 1, i - 1)[k] = q[1 + k - 1]
    BY ONLY <2>1, SubSeqProperties
  <2> QED BY <2>2, <1>1
<1>4. /\ back \in Seq(S) /\ Len(back) = Len(q) - i
      /\ \A k \in 1 .. Len(q) - i : back[k] = q[k + i]
  <2>1. i + 1 \in Int /\ Len(q) \in Int /\ \A k \in i + 1 .. Len(q) : q[k] \in S
    BY <1>1, <1>2
  <2>2. /\ SubSeq(q, i + 1, Len(q)) \in Seq(S)
        /\ Len(SubSeq(q, i + 1, Len(q))) =
              IF i + 1 <= Len(q) THEN Len(q) - (i + 1) + 1 ELSE 0
        /\ \A k \in 1 .. Len(q) - (i + 1) + 1 :
              SubSeq(q, i + 1, Len(q))[k] = q[i + 1 + k - 1]
    BY ONLY <2>1, SubSeqProperties
  <2>3. \A k \in 1 .. Len(q) - i : i + 1 + k - 1 = k + i
    BY <1>1
  <2> QED BY <2>2, <2>3, <1>1
<1> HIDE DEF front, back
<1>5. /\ front \o back \in Seq(S) /\ Len(front \o back) = Len(q) - 1
      /\ \A k \in 1 .. Len(q) - 1 :
            (front \o back)[k] = IF k <= i - 1 THEN front[k] ELSE back[k - (i - 1)]
  <2>1. /\ front \o back \in Seq(S) /\ Len(front \o back) = Len(front) + Len(back)
        /\ \A k \in 1 .. Len(front) + Len(back) :
              (front \o back)[k] = IF k <= Len(front) THEN front[k]
                                   ELSE back[k - Len(front)]
    BY ONLY <1>3, <1>4, ConcatProperties, Zenon
  <2>2. Len(front) + Len(back) = Len(q) - 1
    BY <1>1, <1>3, <1>4
  <2> QED BY <2>1, <2>2, <1>3
<1>6. Pop(q, i) = front \o back
  BY DEF Pop, front, back
<1>7. DOMAIN Pop(q, i) = 1 .. Len(q) - 1
  BY <1>5, <1>6, LenProperties
<1>8. ASSUME NEW k \in 1 .. Len(q) - 1
      PROVE  Pop(q, i)[k] = IF k < i THEN q[k] ELSE q[k + 1]
  <2>1. CASE k < i
    BY <2>1, <1>1, <1>3, <1>5, <1>6
  <2>2. CASE ~ (k < i)
    <3>1. k - (i - 1) \in 1 .. Len(q) - i /\ k - (i - 1) + i = k + 1
      BY <2>2, <1>1
    <3>2. back[k - (i - 1)] = q[k + 1]
      BY <3>1, <1>4
    <3> QED BY <3>2, <2>2, <1>1, <1>5, <1>6
  <2> QED BY <2>1, <2>2
<1>9. \A k \in 1 .. Len(q) - 1 : k \in DOMAIN q /\ k + 1 \in DOMAIN q
  BY <1>1
<1> QED BY <1>5, <1>6, <1>7, <1>8, <1>9, Zenon

\* Taking the head off a queue without repetitions takes it out of its set.
LEMMA TailIs ==
  ASSUME NEW S, NEW q \in Seq(S), q # <<>>, IsInjective(q)
  PROVE  /\ Head(q) \in S /\ Tail(q) \in Seq(S) /\ Head(q) \in Range(q)
         /\ Range(Tail(q)) = Range(q) \ {Head(q)} /\ IsInjective(Tail(q))
<1>1. /\ Tail(q) \in Seq(S) /\ Len(Tail(q)) = Len(q) - 1
      /\ \A i \in 1 .. Len(Tail(q)) : Tail(q)[i] = q[i + 1]
  BY HeadTailProperties
<1>2. /\ Len(q) \in Nat \ {0} /\ DOMAIN q = 1 .. Len(q)
      /\ DOMAIN Tail(q) = 1 .. Len(q) - 1 /\ Head(q) = q[1]
  BY <1>1, LenProperties, EmptySeq
<1>3. Head(q) \in S /\ Head(q) \in Range(q)
  BY <1>2, ElementOfSeq DEF Range
<1>4. IsInjective(Tail(q))
  BY <1>1, <1>2 DEF IsInjective
<1>5. Range(Tail(q)) \subseteq Range(q) \ {Head(q)}
  BY <1>1, <1>2 DEF Range, IsInjective
<1>6. ASSUME NEW x \in Range(q) \ {Head(q)} PROVE x \in Range(Tail(q))
  <2>1. PICK i \in DOMAIN q : x = q[i]
    BY DEF Range
  <2>2. i - 1 \in DOMAIN Tail(q) /\ Tail(q)[i - 1] = x
    BY <2>1, <1>1, <1>2
  <2> QED BY <2>2 DEF Range
<1> QED BY <1>1, <1>3, <1>4, <1>5, <1>6

\* Appending a new element to a queue without repetitions.
LEMMA AppendIs ==
  ASSUME NEW S, NEW q \in Seq(S), NEW e \in S
  PROVE  /\ Append(q, e) \in Seq(S) /\ Range(Append(q, e)) = Range(q) \cup {e}
         /\ IsInjective(q) /\ e \notin Range(q) => IsInjective(Append(q, e))
<1>1. /\ Append(q, e) \in Seq(S) /\ Len(Append(q, e)) = Len(q) + 1
      /\ \A i \in 1 .. Len(q) : Append(q, e)[i] = q[i]
      /\ Append(q, e)[Len(q) + 1] = e
  BY AppendProperties
<1>2. /\ Len(q) \in Nat /\ DOMAIN q = 1 .. Len(q)
      /\ DOMAIN Append(q, e) = 1 .. Len(q) + 1
  BY <1>1, LenProperties
<1>3. Range(Append(q, e)) = Range(q) \cup {e}
  BY <1>1, <1>2 DEF Range
<1>4. ASSUME IsInjective(q), e \notin Range(q) PROVE IsInjective(Append(q, e))
  BY <1>1, <1>2, <1>4 DEF IsInjective, Range
<1> QED BY <1>1, <1>3, <1>4

-----------------------------------------------------------------------------
\* The bank's state is well formed: the command of a base fits the set.
TbeOK(b) ==
    \/ tbe[b] = NoTbe
    \/ /\ tbe[b].st \in {"queued", "running", "expired"}
       /\ tbe[b].op \in FitOps /\ tbe[b].op.base = b /\ EntersEngine(tbe[b].op)
       /\ DOMAIN tbe[b] = IF tbe[b].st = "queued" THEN {"st", "op"}
                          ELSE {"st", "op", "result"}
Requests == [op : FitOps, on : Way \cup {Unlocked}]
BankTypes ==
    /\ claimed \subseteq Way /\ live \subseteq Way /\ data \in [Way -> Seq(Ids)]
    /\ owners \in [Way -> Way \cup {Unlocked}]
    /\ DOMAIN tbe = Way /\ \A b \in Way : TbeOK(b)
    /\ queue \in Seq(Way) /\ count \in Nat /\ active \in Nat
    /\ inbox \in Seq(Requests)
    /\ service \in Timer /\ issue \in Timer /\ awake \in BOOLEAN
\* Requests on their way fit the set too.
SourceTypes ==
    /\ source \in [Cores -> Seq(FitOps)]
    /\ flight \in [Cores -> SUBSET [op : FitOps, issued : BOOLEAN]]
    /\ table \in [Cores -> SUBSET FitOps]
    /\ toBank \subseteq FitOps
\* The controller sleeps only when no port has a transition to trigger.
Asleep == ~ awake => ~ FinishReady /\ ~ StartReady /\ ~ HeadStep
\* The engine's inductive invariant.
BankInv ==
    /\ BankTypes /\ SourceTypes /\ LocksExact /\ UpdateCurrent /\ Asleep
    /\ count <= Entries

\* A captured command fits the set and is kept under its base.
LEMMA CapturedIs ==
  ASSUME BankTypes, NEW b \in Captured
  PROVE  /\ b \in Way /\ tbe[b].op \in FitOps /\ tbe[b].op \in Ops
         /\ tbe[b].op.base = b /\ EntersEngine(tbe[b].op)
         /\ Touched(tbe[b].op) \subseteq Way
         /\ DOMAIN tbe[b] = IF tbe[b].st = "queued" THEN {"st", "op"}
                            ELSE {"st", "op", "result"}
<1>1. b \in Way /\ TbeOK(b) /\ tbe[b] # NoTbe
  BY DEF Captured, BankTypes, NoTbe
<1> QED BY ONLY <1>1 DEF TbeOK, FitOps

\* The oldest request that is not stalled is one.
LEMMA HeadWaits ==
  ASSUME BankTypes, Waiting # {}
  PROVE  /\ HeadIndex \in Waiting /\ HeadIndex \in DOMAIN inbox
         /\ inbox[HeadIndex].op \in FitOps /\ inbox[HeadIndex].on = Unlocked
<1>1. inbox \in Seq(Requests) /\ DOMAIN inbox = 1 .. Len(inbox)
  BY LenProperties DEF BankTypes
<1>2. Waiting \subseteq Nat /\ Waiting \subseteq DOMAIN inbox
  BY <1>1, LenProperties DEF Waiting
<1>3. \E x \in Waiting : \A y \in Waiting : x <= y
  BY ONLY <1>2, Smallest, Waiting # {}, Zenon
<1>4. HeadIndex \in Waiting
  BY ONLY <1>3, Zenon DEF HeadIndex
<1>5. inbox[HeadIndex] \in Requests
  BY <1>1, <1>2, <1>4, ElementOfSeq
<1> QED BY <1>2, <1>4, <1>5 DEF Requests, Waiting

\* A request that meets a lock waits for a captured command.
LEMMA ConflictCaptured ==
  ASSUME BankTypes, LocksExact, NEW op \in FitOps, Locked(op) # {}
  PROVE  Conflict(op) \in Captured
<1>1. Locked(op) \subseteq Way /\ Way \subseteq Nat
  BY DEF Locked, FitOps, Way
<1>2. \E x \in Locked(op) : \A y \in Locked(op) : x <= y
  <2>1. Locked(op) \subseteq Nat
    BY <1>1, Zenon
  <2> QED BY ONLY <2>1, Smallest, Locked(op) # {}, Zenon
<1> DEFINE w == CHOOSE x \in Locked(op) : \A y \in Locked(op) : x <= y
<1>3. w \in Locked(op)
  BY ONLY <1>2, Zenon
<1>4. Conflict(op) = owners[w]
  BY DEF Conflict
<1> HIDE DEF w
<1>5. w \in Way /\ owners[w] \in Way
  BY <1>1, <1>3, Zenon DEF Locked, BankTypes
<1> QED BY <1>4, <1>5 DEF LocksExact

\* The value computed at a command's start.
LEMMA ResultType ==
  ASSUME BankTypes, NEW op \in FitOps
  PROVE  Result(op) \in [Touched(op) -> Seq(Ids)]
<1>1. op \in Ops /\ Touched(op) \subseteq Way
  BY DEF FitOps
<1>2. Id(op) \in Ids
  BY <1>1, TouchedIs
<1>3. <<Id(op)>> \in Seq(Ids)
  BY <1>2
<1>4. ASSUME NEW w \in Touched(op) PROVE Append(data[w], Id(op)) \in Seq(Ids) /\ data[w] \in Seq(Ids)
  BY <1>1, <1>2, AppendProperties DEF BankTypes
<1>5. ASSUME NEW w \in Touched(op)
      PROVE  (CASE op.kind = "init" -> <<Id(op)>>
                [] op.kind = "reduce" -> Append(data[w], Id(op))
                [] OTHER -> data[w]) \in Seq(Ids)
  BY <1>3, <1>4
<1> QED BY <1>5 DEF Result

\* Two captured commands share no slot.
LEMMA CapturedDisjoint ==
  ASSUME BankTypes, LocksExact, NEW b \in Captured, NEW d \in Captured, b # d
  PROVE  Touched(tbe[b].op) \cap Touched(tbe[d].op) = {}
<1>1. b \in Way /\ d \in Way /\ tbe[b].op \in FitOps
  BY CapturedIs
<1>2. Touched(tbe[b].op) \subseteq Way
  BY <1>1 DEF FitOps
<1> QED BY <1>1, <1>2 DEF LocksExact

-----------------------------------------------------------------------------
\* l3_reduceStart takes the oldest queued command and changes nothing else.
LEMMA StartIs ==
  ASSUME BankTypes, LocksExact, ReduceStart, NEW b, b = Head(queue)
  PROVE  /\ b \in Captured \ Started /\ Captured' = Captured
         /\ Started' = Started \cup {b}
         /\ queue' \in Seq(Way) /\ Range(queue') = Range(queue) \ {b}
         /\ IsInjective(queue') /\ DOMAIN tbe' = Way
         /\ tbe'[b] = [st |-> "running", op |-> tbe[b].op, result |-> Result(tbe[b].op)]
         /\ \A d \in Way : d # b => tbe'[d] = tbe[d]
         /\ \A d \in Captured : tbe'[d].op = tbe[d].op
<1>1. queue \in Seq(Way) /\ queue # <<>> /\ IsInjective(queue)
  BY DEF BankTypes, ReduceStart, StartReady, LocksExact
<1>2. /\ b \in Way /\ queue' \in Seq(Way) /\ b \in Range(queue)
      /\ Range(queue') = Range(queue) \ {b} /\ IsInjective(queue')
  BY <1>1, TailIs DEF ReduceStart
<1>3. b \in Captured \ Started
  BY <1>2 DEF LocksExact
<1>4. /\ tbe'[b] = [st |-> "running", op |-> tbe[b].op, result |-> Result(tbe[b].op)]
      /\ \A d \in Way : d # b => tbe'[d] = tbe[d]
      /\ DOMAIN tbe' = Way
  BY <1>2 DEF ReduceStart, BankTypes
<1>5. Captured' = Captured
  BY <1>2, <1>3, <1>4 DEF Captured
<1>6. Started' = Started \cup {b}
  BY <1>2, <1>4 DEF Started
<1>7. \A d \in Captured : tbe'[d].op = tbe[d].op
  BY <1>4 DEF Captured
<1> QED BY <1>2, <1>3, <1>4, <1>5, <1>6, <1>7

LEMMA StartKeeps ==
  ASSUME BankTypes, LocksExact, UpdateCurrent, ReduceStart
  PROVE  (BankTypes /\ LocksExact /\ UpdateCurrent)'
<1>0. PICK b : b = Head(queue)
  OBVIOUS
<1>1. /\ b \in Captured \ Started /\ Captured' = Captured
      /\ Started' = Started \cup {b}
      /\ queue' \in Seq(Way) /\ Range(queue') = Range(queue) \ {b}
      /\ IsInjective(queue') /\ DOMAIN tbe' = Way
      /\ tbe'[b] = [st |-> "running", op |-> tbe[b].op, result |-> Result(tbe[b].op)]
      /\ \A d \in Way : d # b => tbe'[d] = tbe[d]
      /\ \A d \in Captured : tbe'[d].op = tbe[d].op
  BY <1>0, StartIs
<1>2. /\ claimed' = claimed /\ live' = live /\ data' = data /\ owners' = owners
      /\ count' = count /\ inbox' = inbox /\ awake' = awake /\ active' = active + 1
  BY DEF ReduceStart, slotVars
<1>3. service' \in Timer /\ issue' \in Timer
  BY DEF ReduceStart, Occupied, Cleared, Timer, BankTypes
<1>4. b \in Way /\ \A d \in Way : TbeOK(d)'
  <2>1. b \in Way /\ TbeOK(b) /\ tbe[b].st # "none"
    BY <1>1 DEF Captured, BankTypes
  <2>2. TbeOK(b)'
    BY <1>1, <2>1 DEF TbeOK, NoTbe
  <2>3. \A d \in Way : d # b => TbeOK(d)'
    BY <1>1 DEF TbeOK, BankTypes
  <2> QED BY <2>1, <2>2, <2>3
<1>5. BankTypes'
  BY <1>1, <1>2, <1>3, <1>4 DEF BankTypes
<1>6. active' = Cardinality(Started')
  <2>1. Started \subseteq Way /\ b \notin Started
    BY <1>1 DEF Started
  <2>2. IsFiniteSet(Started)
    BY <2>1, WaysFinite
  <2>3. Cardinality(Started \cup {b}) = Cardinality(Started) + 1
    BY ONLY <2>1, <2>2, FS_AddElement, Zenon
  <2> QED BY <1>1, <1>2, <2>3 DEF LocksExact
<1>7. LocksExact'
  <2>1. \A w \in Way, d \in Way :
           owners'[w] = d <=> d \in Captured' /\ w \in Touched(tbe'[d].op)
    BY <1>1, <1>2 DEF LocksExact
  <2>2. count' = Cardinality(Captured')
    BY <1>1, <1>2 DEF LocksExact
  <2>3. Range(queue') = Captured' \ Started'
    BY <1>1 DEF LocksExact
  <2> QED BY <1>1, <1>6, <2>1, <2>2, <2>3 DEF LocksExact
<1>8. UpdateCurrent'
  <2> SUFFICES ASSUME NEW d \in Started' PROVE tbe'[d].result = Result(tbe[d].op)'
    BY DEF UpdateCurrent
  <2>1. d \in Way /\ d \in Captured
    BY <1>1, <1>4 DEF Started, Captured
  <2>2. tbe'[d].op = tbe[d].op
    BY <1>1, <2>1
  <2>3. tbe'[d].result = Result(tbe[d].op)
    BY <1>1, <2>1 DEF UpdateCurrent
  <2> QED BY <1>2, <2>2, <2>3 DEF Result
<1> QED BY <1>5, <1>7, <1>8

-----------------------------------------------------------------------------
\* L3ReduceFinish and L3FinalizeFinish install what was computed, which the
\* array's current content would give too, and free the command's entry.
LEMMA FinishIs ==
  ASSUME BankTypes, LocksExact, UpdateCurrent, NEW b \in Way, NEW out, Finish(b, out)
  PROVE  LET op == tbe[b].op IN
         /\ b \in Started /\ b \in Captured /\ op \in FitOps /\ op.base = b
         /\ EntersEngine(op) /\ out = Result(op) /\ Reclaimed(op) \subseteq Touched(op)
         /\ Captured' = Captured \ {b} /\ Started' = Started \ {b}
         /\ DOMAIN tbe' = Way /\ tbe'[b] = NoTbe
         /\ \A d \in Way : d # b => tbe'[d] = tbe[d]
         /\ data' = [w \in Way |-> IF w \in Reclaimed(op) THEN <<>>
                                   ELSE IF w \in Touched(op) THEN Result(op)[w]
                                   ELSE data[w]]
<1> DEFINE op == tbe[b].op
<1>1. tbe[b].st = "expired" /\ b \in Started /\ b \in Captured
  BY DEF Finish, Done, Started, Captured
<1>2. op \in FitOps /\ op.base = b /\ EntersEngine(op)
  BY <1>1, CapturedIs
<1>3. out = Result(op)
  BY <1>1 DEF Finish, UpdateCurrent
<1>4. Reclaimed(op) \subseteq Touched(op)
  BY DEF Reclaimed
<1>5. DOMAIN tbe' = Way /\ tbe'[b] = NoTbe /\ \A d \in Way : d # b => tbe'[d] = tbe[d]
  BY DEF Finish, BankTypes
<1>6. Captured' = Captured \ {b} /\ Started' = Started \ {b}
  BY <1>5 DEF Captured, Started, NoTbe
<1>7. data' = [w \in Way |-> IF w \in Reclaimed(op) THEN <<>>
                             ELSE IF w \in Touched(op) THEN Result(op)[w]
                             ELSE data[w]]
  BY <1>3 DEF Finish
<1> QED BY <1>1, <1>2, <1>3, <1>4, <1>5, <1>6, <1>7

\* The timer's port ranks no higher than the port requests are stalled at,
\* so its wakeUpBuffers reaches none of them.
LEMMA ReanalyzeIs ==
  ASSUME BankTypes, NEW B
  PROVE  Reanalyze(B, TimerRank) = inbox
<1>1. inbox \in Seq(Requests) /\ inbox = [i \in DOMAIN inbox |-> inbox[i]]
  BY DEF BankTypes
<1>2. Reanalyze(B, TimerRank) = [i \in DOMAIN inbox |-> inbox[i]]
  BY DEF Reanalyze, TimerRank, RequestRank
<1> QED BY <1>1, <1>2

LEMMA FinishKeeps ==
  ASSUME BankTypes, LocksExact, UpdateCurrent, NEW b \in Way, NEW out, Finish(b, out)
  PROVE  (BankTypes /\ LocksExact /\ UpdateCurrent)'
<1>0. PICK op : op = tbe[b].op
  OBVIOUS
<1>1. /\ b \in Started /\ b \in Captured /\ op \in FitOps /\ op.base = b
      /\ EntersEngine(op) /\ out = Result(op) /\ Reclaimed(op) \subseteq Touched(op)
      /\ Captured' = Captured \ {b} /\ Started' = Started \ {b}
      /\ DOMAIN tbe' = Way /\ tbe'[b] = NoTbe
      /\ \A d \in Way : d # b => tbe'[d] = tbe[d]
      /\ data' = [w \in Way |-> IF w \in Reclaimed(op) THEN <<>>
                                ELSE IF w \in Touched(op) THEN Result(op)[w]
                                ELSE data[w]]
  BY <1>0, FinishIs
<1>2. /\ live' = live /\ queue' = queue /\ awake' = awake
      /\ active' = active - 1 /\ count' = count - 1 /\ claimed' = claimed \ Reclaimed(op)
      /\ owners' = [w \in Way |-> IF w \in Touched(op) THEN Unlocked ELSE owners[w]]
      /\ inbox' = inbox
  BY <1>0, ReanalyzeIs DEF Finish, Unlock
<1>3. service' \in Timer /\ issue' \in Timer
  BY DEF Finish, Occupied, Cleared, Timer, BankTypes
<1>4. Touched(op) \subseteq Way
  BY <1>1 DEF FitOps
<1>5. Result(op) \in [Touched(op) -> Seq(Ids)]
  BY <1>1, ResultType
<1>6. data' \in [Way -> Seq(Ids)]
  BY <1>1, <1>5 DEF BankTypes
<1>7. inbox' \in Seq(Requests)
  BY <1>2 DEF BankTypes
<1>8. /\ Started \subseteq Way /\ Captured \subseteq Way
      /\ IsFiniteSet(Started) /\ IsFiniteSet(Captured)
  <2>1. Started \subseteq Way /\ Captured \subseteq Way
    BY DEF Started, Captured
  <2> QED BY <2>1, WaysFinite
<1>9. Cardinality(Started \ {b}) = Cardinality(Started) - 1
      /\ Cardinality(Captured \ {b}) = Cardinality(Captured) - 1
  BY ONLY <1>1, <1>8, FS_RemoveElement, Zenon
<1>10. /\ active' = Cardinality(Started') /\ count' = Cardinality(Captured')
       /\ Cardinality(Started') \in Nat /\ Cardinality(Captured') \in Nat
  <2>1. IsFiniteSet(Started \ {b}) /\ IsFiniteSet(Captured \ {b})
    BY ONLY <1>8, FS_RemoveElement, Zenon
  <2>2. Cardinality(Started \ {b}) \in Nat /\ Cardinality(Captured \ {b}) \in Nat
    BY ONLY <2>1, FS_CardinalityType, Zenon
  <2> QED BY <1>1, <1>2, <1>9, <2>2 DEF LocksExact
<1>11. \A d \in Way : TbeOK(d)'
  <2>1. TbeOK(b)'
    BY <1>1 DEF TbeOK
  <2>2. \A d \in Way : d # b => TbeOK(d)'
    BY <1>1 DEF TbeOK, BankTypes
  <2> QED BY <2>1, <2>2
<1>12. BankTypes'
  <2>1. owners' \in [Way -> Way \cup {Unlocked}]
    BY <1>2 DEF BankTypes
  <2>2. claimed' \subseteq Way /\ live' \subseteq Way /\ queue' \in Seq(Way) /\ awake' \in BOOLEAN
    BY <1>2 DEF BankTypes
  <2> QED BY <1>1, <1>3, <1>6, <1>7, <1>10, <1>11, <2>1, <2>2 DEF BankTypes
<1>13. LocksExact'
  <2>1. ASSUME NEW w \in Way, NEW d \in Way
        PROVE  owners'[w] = d <=> d \in Captured' /\ w \in Touched(tbe'[d].op)
    <3>1. owners[w] = d <=> d \in Captured /\ w \in Touched(tbe[d].op)
      BY DEF LocksExact
    <3>2. owners[w] = b <=> b \in Captured /\ w \in Touched(tbe[b].op)
      BY DEF LocksExact
    <3>3. d # Unlocked
      BY DEF Way, Unlocked
    <3>4. CASE d = b
      BY <1>0, <1>1, <1>2, <3>2, <3>3, <3>4
    <3>5. CASE d # b
      BY <1>0, <1>1, <1>2, <3>1, <3>2, <3>3, <3>5
    <3> QED BY <3>4, <3>5
  <2>2. Range(queue') = Captured' \ Started' /\ IsInjective(queue')
    BY <1>1, <1>2 DEF LocksExact
  <2> QED BY <1>10, <2>1, <2>2 DEF LocksExact
<1>14. UpdateCurrent'
  <2> SUFFICES ASSUME NEW d \in Started' PROVE tbe'[d].result = Result(tbe[d].op)'
    BY DEF UpdateCurrent
  <2>1. d \in Way /\ d # b /\ d \in Started /\ d \in Captured
    BY <1>1 DEF Started, Captured
  <2>2. tbe'[d] = tbe[d]
    BY <1>1, <2>1
  <2>3. tbe[d].result = Result(tbe[d].op)
    BY <2>1 DEF UpdateCurrent
  <2>4. Touched(tbe[d].op) \cap Touched(op) = {}
    BY <1>0, <1>1, <2>1, CapturedDisjoint
  <2>5. Touched(tbe[d].op) \subseteq Way
    BY <2>1, CapturedIs
  <2>6. \A w \in Touched(tbe[d].op) : data'[w] = data[w]
    BY <1>1, <2>4, <2>5
  <2> QED BY <2>2, <2>3, <2>6 DEF Result
<1> QED BY <1>12, <1>13, <1>14

-----------------------------------------------------------------------------
\* l3_reduceCapture and l3_finalizeCapture take a free entry and lock slots
\* that no captured command has locked.
LEMMA CaptureIs ==
  ASSUME BankTypes, LocksExact, Waiting # {},
         NEW i, i = HeadIndex, NEW op, op = inbox[i].op, Capture(i, op)
  PROVE  /\ op \in FitOps /\ EntersEngine(op) /\ op.base \in Way
         /\ op.base \notin Captured /\ \A w \in Touched(op) : owners[w] = Unlocked
         /\ Captured' = Captured \cup {op.base} /\ Started' = Started
         /\ DOMAIN tbe' = Way /\ tbe'[op.base] = [st |-> "queued", op |-> op]
         /\ \A d \in Way : d # op.base => tbe'[d] = tbe[d]
         /\ i \in DOMAIN inbox /\ inbox' = Pop(inbox, i)
<1>1. op \in FitOps /\ i \in DOMAIN inbox
  BY HeadWaits
<1>2. op \in Ops /\ Touched(op) \subseteq Way /\ op.base \in Way /\ op.base \in Touched(op)
  BY <1>1, TouchedIs DEF FitOps
<1>3. \A w \in Touched(op) : owners[w] = Unlocked
  BY DEF Capture, Locked
<1>4. op.base \notin Captured
  <2> SUFFICES ASSUME op.base \in Captured PROVE FALSE
    OBVIOUS
  <2>1. tbe[op.base].op \in Ops /\ tbe[op.base].op.base = op.base
    BY CapturedIs
  <2>2. op.base \in Touched(tbe[op.base].op)
    BY <2>1, TouchedIs
  <2>3. owners[op.base] = op.base
    BY <1>2, <2>2 DEF LocksExact
  <2>4. op.base # Unlocked
    BY <1>2 DEF Way, Unlocked
  <2> QED BY <1>2, <1>3, <2>3, <2>4
<1>5. /\ DOMAIN tbe' = Way /\ tbe'[op.base] = [st |-> "queued", op |-> op]
      /\ \A d \in Way : d # op.base => tbe'[d] = tbe[d]
  BY <1>2 DEF Capture, BankTypes
<1>6. Captured' = Captured \cup {op.base} /\ Started' = Started
  BY <1>2, <1>4, <1>5 DEF Captured, Started
<1>7. EntersEngine(op) /\ inbox' = Pop(inbox, i)
  BY DEF Capture
<1> QED BY <1>1, <1>2, <1>3, <1>4, <1>5, <1>6, <1>7

\* A request leaves the queue: the others keep what they wait for.
LEMMA PopKeeps ==
  ASSUME BankTypes, NEW i \in DOMAIN inbox
  PROVE  /\ Pop(inbox, i) \in Seq(Requests)
         /\ \A k \in DOMAIN Pop(inbox, i) :
                \E j \in DOMAIN inbox : Pop(inbox, i)[k] = inbox[j]
<1>1. inbox \in Seq(Requests)
  BY DEF BankTypes
<1>2. /\ Pop(inbox, i) \in Seq(Requests)
      /\ \A k \in DOMAIN Pop(inbox, i) :
                /\ k \in DOMAIN inbox /\ k + 1 \in DOMAIN inbox
                /\ Pop(inbox, i)[k] = IF k < i THEN inbox[k] ELSE inbox[k + 1]
  BY ONLY <1>1, PopIs, i \in DOMAIN inbox, Zenon
<1> QED BY <1>2

LEMMA CaptureKeeps ==
  ASSUME BankTypes, LocksExact, UpdateCurrent, Waiting # {},
         NEW i, i = HeadIndex, NEW op, op = inbox[i].op, Capture(i, op)
  PROVE  (BankTypes /\ LocksExact /\ UpdateCurrent)'
<1>1. /\ op \in FitOps /\ EntersEngine(op) /\ op.base \in Way
      /\ op.base \notin Captured /\ \A w \in Touched(op) : owners[w] = Unlocked
      /\ Captured' = Captured \cup {op.base} /\ Started' = Started
      /\ DOMAIN tbe' = Way /\ tbe'[op.base] = [st |-> "queued", op |-> op]
      /\ \A d \in Way : d # op.base => tbe'[d] = tbe[d]
      /\ i \in DOMAIN inbox /\ inbox' = Pop(inbox, i)
  BY CaptureIs
<1>2. /\ live' = live /\ data' = data /\ active' = active /\ awake' = awake
      /\ claimed' = claimed \cup ClaimedBy(op) /\ count' = count + 1
      /\ owners' = [w \in Way |-> IF w \in Touched(op) THEN op.base ELSE owners[w]]
      /\ queue' = Append(queue, op.base)
  BY DEF Capture, HeadVisit
<1>3. service' \in Timer /\ issue' \in Timer
  BY DEF Capture, HeadVisit, Cleared, Timer, BankTypes
<1>4. Touched(op) \subseteq Way /\ ClaimedBy(op) \subseteq Way
  BY <1>1 DEF FitOps, ClaimedBy
<1>5. /\ inbox' \in Seq(Requests)
      /\ \A k \in DOMAIN inbox' : \E j \in DOMAIN inbox : inbox'[k] = inbox[j]
  BY <1>1, PopKeeps
<1>6. /\ queue' \in Seq(Way) /\ Range(queue') = Range(queue) \cup {op.base}
      /\ IsInjective(queue')
  <2>1. queue \in Seq(Way) /\ IsInjective(queue) /\ op.base \notin Range(queue)
    BY <1>1 DEF BankTypes, LocksExact
  <2> QED BY <1>1, <1>2, <2>1, AppendIs
<1>7. count' = Cardinality(Captured') /\ count' \in Nat
  <2>1. Captured \subseteq Way
    BY DEF Captured
  <2>2. IsFiniteSet(Captured)
    BY <2>1, WaysFinite
  <2>3. Cardinality(Captured \cup {op.base}) = Cardinality(Captured) + 1
    BY ONLY <1>1, <2>2, FS_AddElement, Zenon
  <2>4. count = Cardinality(Captured) /\ count \in Nat
    BY DEF LocksExact, BankTypes
  <2> QED BY <1>1, <1>2, <2>3, <2>4
<1>8. \A d \in Way : TbeOK(d)'
  <2>1. TbeOK(op.base)'
    BY <1>1 DEF TbeOK
  <2>2. \A d \in Way : d # op.base => TbeOK(d)'
    BY <1>1 DEF TbeOK, BankTypes
  <2> QED BY <2>1, <2>2
<1>9. BankTypes'
  <2>1. owners' \in [Way -> Way \cup {Unlocked}]
    BY <1>1, <1>2 DEF BankTypes
  <2>2. claimed' \subseteq Way /\ live' \subseteq Way /\ data' \in [Way -> Seq(Ids)]
        /\ active' \in Nat /\ awake' \in BOOLEAN
    BY <1>2, <1>4 DEF BankTypes
  <2> QED BY <1>1, <1>3, <1>5, <1>6, <1>7, <1>8, <2>1, <2>2 DEF BankTypes
<1>10. LocksExact'
  <2>1. ASSUME NEW w \in Way, NEW d \in Way
        PROVE  owners'[w] = d <=> d \in Captured' /\ w \in Touched(tbe'[d].op)
    <3>1. owners[w] = d <=> d \in Captured /\ w \in Touched(tbe[d].op)
      BY DEF LocksExact
    <3>2. d # Unlocked
      BY DEF Way, Unlocked
    <3>3. CASE d = op.base
      BY <1>1, <1>2, <3>1, <3>2, <3>3
    <3>4. CASE d # op.base
      BY <1>1, <1>2, <3>1, <3>2, <3>4
    <3> QED BY <3>3, <3>4
  <2>2. Range(queue') = Captured' \ Started'
    <3>1. op.base \notin Started
      BY <1>1 DEF Started, Captured
    <3> QED BY <1>1, <1>6, <3>1 DEF LocksExact
  <2>3. active' = Cardinality(Started')
    BY <1>1, <1>2 DEF LocksExact
  <2> QED BY <1>6, <1>7, <2>1, <2>2, <2>3 DEF LocksExact
<1>11. UpdateCurrent'
  <2> SUFFICES ASSUME NEW d \in Started' PROVE tbe'[d].result = Result(tbe[d].op)'
    BY DEF UpdateCurrent
  <2>1. d \in Way /\ d # op.base /\ d \in Started
    BY <1>1 DEF Started, Captured
  <2>2. tbe'[d] = tbe[d] /\ tbe[d].result = Result(tbe[d].op)
    BY <1>1, <2>1, Zenon DEF UpdateCurrent
  <2> QED BY <1>2, <2>2 DEF Result
<1> QED BY <1>9, <1>10, <1>11

-----------------------------------------------------------------------------
\* Steps that leave the engine alone, and no slot of a captured command
\* touched, keep the invariant.
LEMMA EngineKeeps ==
  ASSUME BankTypes, LocksExact, UpdateCurrent, UNCHANGED engineVars,
         claimed' \subseteq Way, live' \subseteq Way, data' \in [Way -> Seq(Ids)],
         \A b \in Captured : \A w \in Touched(tbe[b].op) : data'[w] = data[w],
         inbox' \in Seq(Requests),
         service' \in Timer, issue' \in Timer, awake' \in BOOLEAN
  PROVE  (BankTypes /\ LocksExact /\ UpdateCurrent)'
<1>1. owners' = owners /\ tbe' = tbe /\ queue' = queue /\ count' = count /\ active' = active
  BY Zenon DEF engineVars
<1>2. Captured' = Captured /\ Started' = Started
  BY <1>1 DEF Captured, Started
<1>3. \A b \in Way : TbeOK(b)'
  BY <1>1 DEF TbeOK, BankTypes
<1>4. BankTypes'
  BY <1>1, <1>3 DEF BankTypes
<1>5. LocksExact'
  BY <1>1, <1>2 DEF LocksExact
<1>6. UpdateCurrent'
  <2> SUFFICES ASSUME NEW b \in Started' PROVE tbe'[b].result = Result(tbe[b].op)'
    BY DEF UpdateCurrent
  <2>1. b \in Captured /\ tbe[b].result = Result(tbe[b].op)
    BY <1>2 DEF UpdateCurrent, Captured, Started
  <2>2. \A w \in Touched(tbe[b].op) : data'[w] = data[w]
    BY <2>1
  <2> QED BY <1>1, <2>1, <2>2 DEF Result
<1> QED BY <1>4, <1>5, <1>6

LEMMA WaitKeeps ==
  ASSUME BankTypes, LocksExact, UpdateCurrent, Waiting # {},
         NEW i, i = HeadIndex, NEW op, op = inbox[i].op, ReduceWait(i, op)
  PROVE  (BankTypes /\ LocksExact /\ UpdateCurrent)'
<1>1. i \in DOMAIN inbox /\ op \in FitOps /\ inbox \in Seq(Requests)
  BY HeadWaits DEF BankTypes
<1>2. Locked(op) # {} /\ inbox' = [inbox EXCEPT ![i].on = Conflict(op)]
  BY DEF ReduceWait
<1>3. Conflict(op) \in Captured /\ Conflict(op) \in Way
  BY <1>1, <1>2, ConflictCaptured DEF Captured
<1>4. inbox[i] \in Requests /\ i \in 1 .. Len(inbox)
  BY <1>1, ElementOfSeq, LenProperties
<1>5. [inbox[i] EXCEPT !.on = Conflict(op)] \in Requests
  BY <1>3, <1>4 DEF Requests
<1>6. inbox' = [inbox EXCEPT ![i] = [inbox[i] EXCEPT !.on = Conflict(op)]]
  BY <1>1, <1>2
<1>7. /\ inbox' \in Seq(Requests) /\ Len(inbox') = Len(inbox)
      /\ \A k \in 1 .. Len(inbox) :
            inbox'[k] = IF k = i THEN [inbox[i] EXCEPT !.on = Conflict(op)] ELSE inbox[k]
  <2>1. PICK e : e = [inbox[i] EXCEPT !.on = Conflict(op)]
    BY Zenon
  <2>2. e \in Requests /\ inbox' = [inbox EXCEPT ![i] = e]
    BY <2>1, <1>5, <1>6
  <2>3. /\ inbox' \in Seq(Requests) /\ Len(inbox') = Len(inbox)
        /\ \A k \in 1 .. Len(inbox) : inbox'[k] = IF k = i THEN e ELSE inbox[k]
    BY ONLY <1>1, <1>4, <2>2, ExceptSeq
  <2> QED BY ONLY <2>1, <2>3
<1>8. DOMAIN inbox' = 1 .. Len(inbox) /\ DOMAIN inbox = 1 .. Len(inbox)
  BY <1>1, <1>7, LenProperties
<1>10. /\ UNCHANGED engineVars /\ UNCHANGED slotVars /\ awake' = awake
       /\ service' \in Timer /\ issue' \in Timer
  BY DEF ReduceWait, HeadVisit, Cleared, Timer, BankTypes
<1>11. claimed' = claimed /\ live' = live /\ data' = data
  BY <1>10 DEF slotVars
<1>12. /\ claimed' \subseteq Way /\ live' \subseteq Way /\ data' \in [Way -> Seq(Ids)]
       /\ awake' \in BOOLEAN
  BY <1>10, <1>11 DEF BankTypes
<1> QED BY <1>7, <1>10, <1>11, <1>12, EngineKeeps

LEMMA EvictKeeps ==
  ASSUME BankTypes, LocksExact, UpdateCurrent, Waiting # {},
         NEW i, i = HeadIndex, NEW op, op = inbox[i].op, EvictVictim(i, op)
  PROVE  (BankTypes /\ LocksExact /\ UpdateCurrent)'
<1>1. /\ claimed' = claimed /\ data' = data /\ UNCHANGED engineVars /\ inbox' = inbox
      /\ live' \subseteq live /\ awake' = awake /\ service' \in Timer /\ issue' \in Timer
  BY DEF EvictVictim, HeadVisit, Cleared, Timer, BankTypes
<1>2. /\ claimed' \subseteq Way /\ live' \subseteq Way /\ data' \in [Way -> Seq(Ids)]
      /\ inbox' \in Seq(Requests) /\ awake' \in BOOLEAN
  BY <1>1 DEF BankTypes
<1> QED BY <1>1, <1>2, EngineKeeps

\* l3_access and l3_release touch no slot of a captured command.
LEMMA AccessFree ==
  ASSUME BankTypes, LocksExact, NEW op \in FitOps, Locked(op) = {}, NEW b \in Captured
  PROVE  Touched(op) \cap Touched(tbe[b].op) = {}
<1>1. b \in Way /\ Touched(op) \subseteq Way
  BY DEF Captured, FitOps
<1>2. \A w \in Touched(op) : owners[w] = Unlocked
  BY DEF Locked
<1>3. b # Unlocked
  BY <1>1 DEF Way, Unlocked
<1> QED BY <1>1, <1>2, <1>3 DEF LocksExact

\* What an access does to the slots.
LEMMA AccessIs ==
  ASSUME BankTypes, NEW i, NEW op \in FitOps, NEW out, Access(i, op, out)
  PROVE  /\ op.kind \in {"load", "store", "release"}
         /\ op.kind = "load" => claimed' = claimed /\ data' = data
         /\ op.kind = "store" =>
                /\ claimed' = claimed \cup Touched(op)
                /\ data' = [w \in Way |-> IF w \in Touched(op) THEN <<Id(op)>> ELSE data[w]]
         /\ op.kind = "release" =>
                /\ claimed' = claimed \ Touched(op)
                /\ data' = [w \in Way |-> IF w \in Touched(op) THEN <<>> ELSE data[w]]
<1>1. op.kind \in Kinds /\ ~ EntersEngine(op)
  BY TouchedIs DEF FitOps, Access
<1>2. op.kind \in {"load", "store", "release"}
  BY <1>1 DEF Kinds, EntersEngine, Reductions
<1> QED BY <1>2, Zenon DEF Access

LEMMA AccessKeeps ==
  ASSUME BankTypes, LocksExact, UpdateCurrent, Waiting # {},
         NEW i, i = HeadIndex, NEW op, op = inbox[i].op, NEW out, Access(i, op, out)
  PROVE  (BankTypes /\ LocksExact /\ UpdateCurrent)'
<1>1. i \in DOMAIN inbox /\ op \in FitOps
  BY HeadWaits
<1>2. inbox' \in Seq(Requests)
  <2>1. inbox' = Pop(inbox, i)
    BY DEF Access
  <2> QED BY <1>1, <2>1, PopKeeps
<1>4. /\ live' = live /\ UNCHANGED engineVars /\ awake' = awake
      /\ service' \in Timer /\ issue' \in Timer /\ Locked(op) = {}
  BY DEF Access, HeadVisit, Occupied, Cleared, Timer, BankTypes
<1>5. op \in Ops /\ Touched(op) \subseteq Way /\ Id(op) \in Ids /\ <<Id(op)>> \in Seq(Ids)
  BY <1>1, TouchedIs DEF FitOps
<1>6. /\ op.kind \in {"load", "store", "release"}
      /\ op.kind = "load" => claimed' = claimed /\ data' = data
      /\ op.kind = "store" =>
             /\ claimed' = claimed \cup Touched(op)
             /\ data' = [w \in Way |-> IF w \in Touched(op) THEN <<Id(op)>> ELSE data[w]]
      /\ op.kind = "release" =>
             /\ claimed' = claimed \ Touched(op)
             /\ data' = [w \in Way |-> IF w \in Touched(op) THEN <<>> ELSE data[w]]
  BY <1>1, AccessIs
<1>7. /\ claimed' \subseteq Way /\ data' \in [Way -> Seq(Ids)]
      /\ \A w \in Way \ Touched(op) : data'[w] = data[w]
  <2>1. claimed \subseteq Way /\ data \in [Way -> Seq(Ids)] /\ <<>> \in Seq(Ids)
    BY EmptySeq DEF BankTypes
  <2>2. CASE op.kind = "load"
    BY <2>1, <2>2, <1>6
  <2>3. CASE op.kind = "store"
    BY <2>1, <2>3, <1>5, <1>6, Zenon
  <2>4. CASE op.kind = "release"
    BY <2>1, <2>4, <1>5, <1>6, Zenon
  <2> QED BY <1>6, <2>2, <2>3, <2>4
<1>8. \A b \in Captured : \A w \in Touched(tbe[b].op) : data'[w] = data[w]
  <2> SUFFICES ASSUME NEW b \in Captured, NEW w \in Touched(tbe[b].op)
               PROVE  data'[w] = data[w]
    OBVIOUS
  <2>1. w \in Way
    BY CapturedIs
  <2>2. w \notin Touched(op)
    BY <1>1, <1>4, AccessFree
  <2> QED BY <1>7, <2>1, <2>2
<1>9. live' \subseteq Way /\ awake' \in BOOLEAN
  BY <1>4 DEF BankTypes
<1> QED BY <1>2, <1>4, <1>7, <1>8, <1>9, EngineKeeps

LEMMA ExpiresKeeps ==
  ASSUME BankTypes, LocksExact, UpdateCurrent, NEW b \in Way, ReductionExpires(b)
  PROVE  (BankTypes /\ LocksExact /\ UpdateCurrent)'
<1>1. /\ claimed' = claimed /\ live' = live /\ data' = data /\ owners' = owners
      /\ queue' = queue /\ count' = count /\ active' = active /\ inbox' = inbox
      /\ service' = service /\ issue' = issue /\ awake' = TRUE
  BY DEF ReductionExpires, slotVars, timerVars
<1>2. tbe[b].st = "running" /\ b \in Started /\ tbe[b].op \in FitOps
  <2>1. tbe[b].st = "running" /\ b \in Started /\ b \in Captured
    BY DEF ReductionExpires, Started, Captured
  <2> QED BY <2>1, CapturedIs
<1>3. /\ DOMAIN tbe' = Way /\ tbe'[b] = [tbe[b] EXCEPT !.st = "expired"]
      /\ \A d \in Way : d # b => tbe'[d] = tbe[d]
  BY DEF ReductionExpires, BankTypes
<1>4. /\ tbe'[b].st = "expired" /\ tbe'[b].op = tbe[b].op /\ tbe'[b].result = tbe[b].result
      /\ DOMAIN tbe'[b] = DOMAIN tbe[b] /\ DOMAIN tbe[b] = {"st", "op", "result"}
  <2>1. DOMAIN tbe[b] = {"st", "op", "result"}
    BY <1>2, CapturedIs DEF Captured
  <2> QED BY <1>3, <2>1
<1>5. Captured' = Captured /\ Started' = Started
  BY <1>2, <1>3, <1>4 DEF Captured, Started
<1>6. \A d \in Way : TbeOK(d)'
  <2>1. TbeOK(b)'
    BY <1>2, <1>4 DEF TbeOK, BankTypes, NoTbe
  <2>2. \A d \in Way : d # b => TbeOK(d)'
    BY <1>3 DEF TbeOK, BankTypes
  <2> QED BY <2>1, <2>2
<1>7. BankTypes'
  BY <1>1, <1>3, <1>6 DEF BankTypes
<1>8. \A d \in Captured : tbe'[d].op = tbe[d].op
  BY <1>3, <1>4 DEF Captured
<1>9. LocksExact'
  BY <1>1, <1>5, <1>8, Zenon DEF LocksExact, Captured
<1>10. UpdateCurrent'
  <2> SUFFICES ASSUME NEW d \in Started' PROVE tbe'[d].result = Result(tbe[d].op)'
    BY DEF UpdateCurrent
  <2>1. d \in Started /\ d \in Captured /\ d \in Way
    BY <1>5 DEF Started, Captured
  <2>2. tbe'[d].op = tbe[d].op /\ tbe'[d].result = tbe[d].result
    BY <2>1, <1>3, <1>4
  <2>3. tbe[d].result = Result(tbe[d].op)
    BY <2>1 DEF UpdateCurrent
  <2> QED BY <1>1, <2>2, <2>3 DEF Result
<1> QED BY <1>7, <1>9, <1>10

\* The timers, a wake-up used up, and an arriving request.
LEMMA QuietKeeps ==
  ASSUME BankTypes, LocksExact, UpdateCurrent, Sleep \/ ServiceExpires \/ IssueExpires
  PROVE  (BankTypes /\ LocksExact /\ UpdateCurrent)'
<1>1. /\ UNCHANGED engineVars /\ UNCHANGED slotVars /\ inbox' = inbox
      /\ service' \in Timer /\ issue' \in Timer /\ awake' \in BOOLEAN
  BY Zenon DEF Sleep, ServiceExpires, IssueExpires, Timer, Cleared, BankTypes
<1>2. /\ claimed' \subseteq Way /\ live' \subseteq Way /\ data' \in [Way -> Seq(Ids)]
      /\ data' = data /\ inbox' \in Seq(Requests)
  BY <1>1 DEF slotVars, BankTypes
<1> QED BY <1>1, <1>2, EngineKeeps

LEMMA ArriveKeeps ==
  ASSUME BankTypes, LocksExact, UpdateCurrent, NEW op \in FitOps, Arrive(op)
  PROVE  (BankTypes /\ LocksExact /\ UpdateCurrent)'
<1>1. /\ UNCHANGED engineVars /\ UNCHANGED slotVars /\ UNCHANGED timerVars
      /\ inbox' = Append(inbox, [op |-> op, on |-> Unlocked]) /\ awake' \in BOOLEAN
  BY DEF Arrive
<1>2. inbox \in Seq(Requests) /\ [op |-> op, on |-> Unlocked] \in Requests
  BY DEF BankTypes, Requests
<1>3. PICK e \in Requests : e = [op |-> op, on |-> Unlocked]
  BY <1>2
<1>4. inbox' = Append(inbox, e) /\ e.on = Unlocked
  BY <1>1, <1>3
<1>5. /\ inbox' \in Seq(Requests) /\ Len(inbox') = Len(inbox) + 1
      /\ \A k \in 1 .. Len(inbox) : inbox'[k] = inbox[k]
      /\ inbox'[Len(inbox) + 1] = e
  BY ONLY <1>2, <1>4, AppendProperties
<1>6. DOMAIN inbox' = 1 .. Len(inbox) + 1 /\ DOMAIN inbox = 1 .. Len(inbox) /\ Len(inbox) \in Nat
  BY <1>2, <1>5, LenProperties
<1>8. /\ claimed' \subseteq Way /\ live' \subseteq Way /\ data' \in [Way -> Seq(Ids)]
      /\ data' = data /\ service' \in Timer /\ issue' \in Timer
  BY <1>1 DEF slotVars, timerVars, BankTypes
<1> QED BY <1>1, <1>5, <1>8, EngineKeeps

-----------------------------------------------------------------------------
\* The halves of a row lie in the row.
LEMMA HalvesFit ==
  ASSUME NEW r \in Nat, NEW b \in Halves(r)
  PROVE  b \in Nat /\ r <= b /\ b + FinalWays <= r + RowWays
<1>1. PICK i \in 0 .. (RowWays \div FinalWays) - 1 : b = r + FinalWays * i
  BY DEF Halves
<1>2. RowWays \in Nat /\ FinalWays \in Nat \ {0}
  BY GeometryAssumption
<1>3. RowWays \div FinalWays \in Int /\ FinalWays * (RowWays \div FinalWays) <= RowWays
  BY <1>2
<1>4. i \in Nat /\ i + 1 <= RowWays \div FinalWays
  BY <1>1, <1>3
<1>5. PICK q \in Int : q = RowWays \div FinalWays
  BY <1>3
<1>6. FinalWays * (i + 1) <= FinalWays * q
  BY <1>2, <1>4, <1>5
<1>7. FinalWays * (i + 1) = FinalWays * i + FinalWays /\ FinalWays * i \in Nat
  BY <1>2, <1>4
<1>8. FinalWays * i + FinalWays <= RowWays
  BY <1>2, <1>3, <1>4, <1>5, <1>6, <1>7
<1> QED BY <1>1, <1>2, <1>7, <1>8

\* The operations of a program fit the set.
LEMMA IssuedFits ==
  ASSUME NEW op \in Asked, Issue(op)
  PROVE  op \in FitOps
<1>0. PICK c \in Cores : op \in {Op(c, n, k, b) : n \in 1 .. MaxOps, k \in Mix[c], b \in Way}
  BY DEF Asked
<1>1. PICK n \in 1 .. MaxOps, k \in Mix[c], b \in Way : op = Op(c, n, k, b)
  BY <1>0
<1>2. op \in Ops /\ op.kind = k /\ op.base = b /\ k \in Kinds
  BY <1>1, ProgramAssumption DEF Ops, Op
<1>3. Legal(op)
  BY DEF Issue
<1>4. op.base \in Nat /\ Ways \in Nat /\ RowWays \in Nat \ {0} /\ FinalWays \in 1 .. RowWays
  BY <1>2, GeometryAssumption DEF Way
<1>5. op.base + Size(op) <= Ways
  <2>1. CASE op.kind \in Setup \cup {"reduce", "load"}
    <3>1. op.base \in Rows
      BY <2>1, <1>3, Zenon DEF Legal, Setup, Reclaim
    <3>2. Size(op) = RowWays
      BY <2>1 DEF Size, Setup
    <3> QED BY <3>1, <3>2, ProgramAssumption
  <2>2. CASE op.kind \in Reclaim
    <3>1. PICK r \in Rows : op.base \in Halves(r)
      BY <2>2, <1>3, Zenon DEF Legal, Setup, Reclaim
    <3>2. r \in Nat /\ r + RowWays <= Ways
      BY <3>1, ProgramAssumption DEF Way
    <3>3. op.base + FinalWays <= r + RowWays
      BY <3>1, <3>2, HalvesFit
    <3>4. Size(op) \in 1 .. FinalWays
      BY <2>2, <1>4 DEF Size, Reclaim
    <3> QED BY <3>2, <3>3, <3>4, <1>4
  <2> QED BY <1>2, <2>1, <2>2 DEF Kinds, Setup, Reclaim
<1>6. Touched(op) \subseteq Way
  <2>1. Touched(op) = op.base .. op.base + Size(op) - 1 /\ Size(op) \in 1 .. RowWays
    BY <1>2, TouchedIs
  <2> QED BY <2>1, <1>4, <1>5 DEF Way
<1> QED BY <1>2, <1>6 DEF FitOps

-----------------------------------------------------------------------------
LEMMA IssueTypes ==
  ASSUME SourceTypes, NEW op \in Asked, Issue(op)
  PROVE  SourceTypes'
<1>1. op \in FitOps
  BY IssuedFits
<1>2. CASE AcceptReduction(op) /\ UNCHANGED toBank
  <2>1. \A c \in Cores : source[c] \in Seq(FitOps)
    BY DEF SourceTypes
  <2>2. \A c \in Cores : Append(source[c], op) \in Seq(FitOps)
    BY <1>1, <2>1, AppendProperties
  <2>3. source' \in [Cores -> Seq(FitOps)]
    BY <1>2, <2>2, Zenon DEF AcceptReduction, SourceTypes
  <2> QED BY <1>2, <2>3 DEF AcceptReduction, SourceTypes
<1>3. CASE AcceptAccess(op) /\ toBank' = toBank \cup {op}
  BY <1>1, <1>3, Zenon DEF AcceptAccess, SourceTypes
<1> QED BY <1>2, <1>3 DEF Issue

LEMMA ServiceTypes ==
  ASSUME SourceTypes, NEW c \in Cores, Service(c)
  PROVE  SourceTypes'
<1>1. PICK sent \in SUBSET {f.op : f \in Issuable(Admit(c))} :
        ServiceSource(c, sent) /\ toBank' = toBank \cup sent
  BY DEF Service
<1>2. /\ source[c] \in Seq(FitOps) /\ flight[c] \subseteq [op : FitOps, issued : BOOLEAN]
  BY DEF SourceTypes
<1>3. Moves(c) => Head(source[c]) \in FitOps /\ Tail(source[c]) \in Seq(FitOps)
  BY <1>2, HeadTailProperties DEF Moves
<1>4. Admit(c) \subseteq [op : FitOps, issued : BOOLEAN]
  <2>1. ASSUME NEW op \in FitOps PROVE [op |-> op, issued |-> FALSE] \in [op : FitOps, issued : BOOLEAN]
    OBVIOUS
  <2>2. CASE Moves(c)
    BY <1>2, <1>3, <2>1, <2>2, Zenon DEF Admit
  <2>3. CASE ~ Moves(c)
    BY <1>2, <2>3 DEF Admit
  <2> QED BY <2>2, <2>3
<1>5. sent \subseteq FitOps
  BY <1>4 DEF Issuable, Oldest
<1>6. PICK F : F = Admit(c)
  OBVIOUS
<1>7. PICK send \in SUBSET F :
        flight' = [flight EXCEPT ![c] = (F \ send) \cup {[f EXCEPT !.issued = TRUE] : f \in send}]
  BY <1>1, <1>6, Zenon DEF ServiceSource, Issuable, Oldest
<1>8. {[f EXCEPT !.issued = TRUE] : f \in send} \subseteq [op : FitOps, issued : BOOLEAN]
  BY <1>4, <1>6, <1>7, Zenon
<1>9. flight' \in [Cores -> SUBSET [op : FitOps, issued : BOOLEAN]]
  BY <1>4, <1>6, <1>7, <1>8 DEF SourceTypes
<1>10. source' \in [Cores -> Seq(FitOps)]
  BY <1>1, <1>3 DEF ServiceSource, SourceTypes
<1>11. table' = table /\ toBank' \subseteq FitOps
  BY <1>1, <1>5 DEF ServiceSource, SourceTypes
<1> QED BY <1>9, <1>10, <1>11 DEF SourceTypes

LEMMA CompleteTypes ==
  ASSUME SourceTypes, NEW r, Complete(r)
  PROVE  SourceTypes'
<1>1. toBank' = toBank /\ source' = source
  BY DEF Complete, CompleteReduction, CompleteAccess
<1>2. flight' \in [Cores -> SUBSET [op : FitOps, issued : BOOLEAN]]
  BY DEF Complete, CompleteReduction, CompleteAccess, SourceTypes
<1>3. table' \in [Cores -> SUBSET FitOps]
  BY DEF Complete, CompleteReduction, CompleteAccess, SourceTypes
<1> QED BY <1>1, <1>2, <1>3 DEF SourceTypes

\* Every step keeps the requests well formed.
LEMMA SourceTypesStep ==
  ASSUME SourceTypes, [Next]_vars
  PROVE  SourceTypes'
<1>1. CASE UNCHANGED <<sourceVars, toBank>>
  BY <1>1 DEF SourceTypes, sourceVars
<1>2. CASE \E op \in Asked : Issue(op)
  BY <1>2, IssueTypes
<1>3. CASE \E c \in Cores : Service(c)
  BY <1>3, ServiceTypes
<1>4. CASE \E op \in toBank : Deliver(op)
  BY <1>4 DEF Deliver, SourceTypes, sourceVars
<1>5. CASE \E r \in replies : Complete(r)
  BY <1>5, CompleteTypes
<1>6. CASE (\E c \in Cores : Barrier(c)) \/ NextPhase \/ BankRuns \/ TimerExpires \/ UNCHANGED vars
  BY <1>1, <1>6 DEF Barrier, NextPhase, BankRuns, TimerExpires, vars, netVars
<1> QED BY <1>2, <1>3, <1>4, <1>5, <1>6 DEF Next

\* Every step keeps the engine's state exact.
LEMMA EngineStep ==
  ASSUME BankTypes, SourceTypes, LocksExact, UpdateCurrent, [Next]_vars
  PROVE  (BankTypes /\ LocksExact /\ UpdateCurrent)'
<1>1. CASE UNCHANGED bankVars
  <2>1. /\ UNCHANGED engineVars /\ UNCHANGED slotVars /\ UNCHANGED timerVars
        /\ inbox' = inbox /\ awake' = awake
    BY <1>1 DEF bankVars
  <2>2. /\ claimed' \subseteq Way /\ live' \subseteq Way /\ data' \in [Way -> Seq(Ids)]
        /\ data' = data /\ inbox' \in Seq(Requests)
        /\ service' \in Timer /\ issue' \in Timer /\ awake' \in BOOLEAN
    BY <2>1 DEF slotVars, timerVars, BankTypes
  <2> QED BY <2>1, <2>2, EngineKeeps
<1>2. CASE \E op \in toBank : Deliver(op)
  BY <1>2, ArriveKeeps DEF Deliver, SourceTypes
<1>3. CASE TimerExpires
  BY <1>3, QuietKeeps, ExpiresKeeps DEF TimerExpires
<1>4. CASE BankRuns
  <2>1. CASE \E b \in Way : FinishStep(b)
    BY <2>1, FinishKeeps DEF FinishStep
  <2>2. CASE ReduceStart
    BY <2>2, StartKeeps
  <2>3. CASE Sleep
    BY <2>3, QuietKeeps
  <2>4. CASE Waiting # {} /\ HeadStepOf(HeadIndex, inbox[HeadIndex].op)
    <3>1. PICK i, op : i = HeadIndex /\ op = inbox[i].op
      OBVIOUS
    <3>2. HeadStepOf(i, op)
      BY <2>4, <3>1
    <3>3. CASE ReduceWait(i, op)
      BY <2>4, <3>1, <3>3, WaitKeeps
    <3>4. CASE EvictVictim(i, op)
      BY <2>4, <3>1, <3>4, EvictKeeps
    <3>5. CASE Capture(i, op)
      BY <2>4, <3>1, <3>5, CaptureKeeps
    <3>6. CASE \E out : Access(i, op, out)
      BY <2>4, <3>1, <3>6, AccessKeeps
    <3> QED BY <3>2, <3>3, <3>4, <3>5, <3>6 DEF HeadStepOf
  <2> QED BY <1>4, <2>1, <2>2, <2>3, <2>4 DEF BankRuns
<1>5. CASE \/ \E op \in Asked : Issue(op)
           \/ \E c \in Cores : Barrier(c) \/ Service(c)
           \/ NextPhase \/ (\E r \in replies : Complete(r)) \/ UNCHANGED vars
  BY <1>1, <1>5, Zenon DEF Issue, Barrier, Service, NextPhase, Complete, vars
<1> QED BY <1>2, <1>3, <1>4, <1>5 DEF Next

\* A controller that goes to sleep has visited every port.
LEMMA AsleepStep ==
  ASSUME BankTypes, Asleep, [Next]_vars
  PROVE  Asleep'
<1>1. CASE UNCHANGED bankVars
  <2>1. /\ owners' = owners /\ tbe' = tbe /\ queue' = queue /\ count' = count
        /\ active' = active /\ live' = live /\ inbox' = inbox /\ awake' = awake
        /\ service' = service /\ issue' = issue
    BY <1>1 DEF bankVars, slotVars, engineVars, timerVars
  <2> QED BY <2>1, Zenon DEF Asleep, FinishReady, StartReady, HeadStep, Done, PortClear,
          IssueClear, HeadReady, Waiting, HeadIndex, HeadTriggers, Locked, Victims
<1>2. CASE awake' = TRUE
  BY <1>2 DEF Asleep
<1>3. CASE Sleep
  <2>1. /\ owners' = owners /\ tbe' = tbe /\ queue' = queue /\ count' = count
        /\ active' = active /\ live' = live /\ inbox' = inbox
        /\ service' = Cleared(service) /\ issue' = Cleared(issue)
        /\ ~ FinishReady /\ ~ StartReady /\ ~ HeadStep
    BY <1>3 DEF Sleep, slotVars, engineVars
  <2>2. PortClear' = PortClear /\ IssueClear' = IssueClear
    BY <2>1 DEF PortClear, IssueClear, Cleared
  <2>3. FinishReady' = FinishReady /\ StartReady' = StartReady
    BY <2>1, <2>2 DEF FinishReady, StartReady, Done
  <2>4. HeadStep' = HeadStep
    BY <2>1, <2>2 DEF HeadStep, HeadReady, Waiting, HeadIndex, HeadTriggers, Locked, Victims
  <2> QED BY <2>1, <2>3, <2>4 DEF Asleep
<1>4. CASE BankRuns
  <2>1. CASE ~ Sleep
    <3>1. awake' = TRUE
      BY <1>4, <2>1, Zenon DEF BankRuns, FinishStep, Finish, ReduceStart, HeadStepOf, ReduceWait,
             EvictVictim, Capture, Access, HeadVisit, BankTypes
    <3> QED BY <3>1, <1>2
  <2> QED BY <2>1, <1>3
<1>5. CASE TimerExpires \/ \E op \in toBank : Deliver(op)
  BY <1>2, <1>5, Zenon DEF TimerExpires, ServiceExpires, IssueExpires, ReductionExpires, Deliver, Arrive
<1>6. CASE \/ \E op \in Asked : Issue(op)
           \/ \E c \in Cores : Barrier(c) \/ Service(c)
           \/ NextPhase \/ (\E r \in replies : Complete(r)) \/ UNCHANGED vars
  BY <1>1, <1>6, Zenon DEF Issue, Barrier, Service, NextPhase, Complete, vars
<1> QED BY <1>4, <1>5, <1>6 DEF Next

\* A command is captured only when an entry is free.
LEMMA EntriesStep ==
  ASSUME BankTypes, count <= Entries, [Next]_vars
  PROVE  count' <= Entries
<1>0. count \in Nat /\ Entries \in Nat
  BY BankAssumption DEF BankTypes
<1>1. \/ count' = count \/ count' = count - 1
      \/ count' = count + 1 /\ count < Entries
  <2>1. CASE UNCHANGED count
    BY <2>1
  <2>2. CASE BankRuns
    BY <2>2, Zenon DEF BankRuns, FinishStep, Finish, ReduceStart, HeadStepOf, ReduceWait,
             EvictVictim, Capture, Access, Sleep, engineVars
  <2>3. CASE TimerExpires \/ \E op \in toBank : Deliver(op)
    BY <2>3, Zenon DEF TimerExpires, ServiceExpires, IssueExpires, ReductionExpires, Deliver,
             Arrive, engineVars
  <2>4. CASE \/ \E op \in Asked : Issue(op)
             \/ \E c \in Cores : Barrier(c) \/ Service(c)
             \/ NextPhase \/ (\E r \in replies : Complete(r)) \/ UNCHANGED vars
    BY <2>4, Zenon DEF Issue, Barrier, Service, NextPhase, Complete, vars, bankVars, engineVars
  <2> QED BY <2>2, <2>3, <2>4 DEF Next
<1> QED BY <1>0, <1>1

LEMMA BankInvInit == Init => BankInv
<1> SUFFICES ASSUME Init PROVE BankInv
  OBVIOUS
<1>1. /\ claimed = {} /\ live \subseteq Way /\ data = [w \in Way |-> <<>>]
      /\ owners = [w \in Way |-> Unlocked] /\ tbe = [b \in Way |-> NoTbe]
      /\ queue = <<>> /\ count = 0 /\ active = 0 /\ inbox = <<>>
      /\ service = "free" /\ issue = "free" /\ awake = FALSE
  BY DEF Init, BankInit
<1>2. Captured = {} /\ Started = {} /\ Done = {} /\ Waiting = {}
  BY <1>1 DEF Captured, Started, Done, Waiting, NoTbe
<1>3. BankTypes
  <2>1. /\ \A w \in Way : data[w] = <<>> /\ owners[w] = Unlocked /\ tbe[w] = NoTbe
        /\ DOMAIN tbe = Way
    BY <1>1
  <2>2. <<>> \in Seq(Ids) /\ queue \in Seq(Way) /\ inbox \in Seq(Requests)
    BY <1>1, EmptySeq
  <2>3. data \in [Way -> Seq(Ids)] /\ owners \in [Way -> Way \cup {Unlocked}]
    BY <1>1, <2>2
  <2>4. \A b \in Way : TbeOK(b)
    BY <2>1 DEF TbeOK
  <2> QED BY <1>1, <2>1, <2>2, <2>3, <2>4, Zenon DEF BankTypes, Timer
<1>4. SourceTypes
  BY DEF Init, SourceInit, SourceTypes
<1>5. LocksExact
  <2>1. Cardinality({}) = 0
    BY FS_EmptySet
  <2>2. \A w \in Way, b \in Way : owners[w] # b
    BY <1>1 DEF Way, Unlocked
  <2> QED BY <1>1, <1>2, <2>1, <2>2 DEF LocksExact, Range, IsInjective
<1>6. UpdateCurrent /\ Asleep
  BY <1>1, <1>2 DEF UpdateCurrent, Asleep, FinishReady, StartReady, HeadStep, HeadReady
<1>7. count <= Entries
  BY <1>1, BankAssumption
<1> QED BY <1>3, <1>4, <1>5, <1>6, <1>7 DEF BankInv

\* The engine's invariant holds throughout.
THEOREM BankInvariant == Spec => []BankInv
<1>1. ASSUME BankInv, [Next]_vars PROVE BankInv'
  BY <1>1, SourceTypesStep, EngineStep, AsleepStep, EntriesStep DEF BankInv
<1> QED BY <1>1, BankInvInit, PTL DEF Spec

\* A bank asleep with no timer running has no work it can see.
LEMMA InvariantWakes == BankInv => BankWakes
<1> SUFFICES ASSUME BankInv, ~ awake, service # "busy", issue # "busy",
                    \A b \in Way : tbe[b].st # "running"
             PROVE  Captured = {} /\ queue = <<>> /\ Waiting = {}
  BY DEF BankWakes
<1>1. PortClear /\ IssueClear /\ ~ FinishReady /\ ~ StartReady /\ ~ HeadStep
  BY DEF PortClear, IssueClear, BankInv, Asleep
<1>2. Started = {}
  BY <1>1 DEF FinishReady, Done, Started
<1>3. active = 0
  BY <1>2, FS_EmptySet DEF BankInv, LocksExact
<1>4. queue = <<>>
  BY <1>1, <1>3 DEF StartReady
<1>5. Captured = {}
  BY <1>2, <1>4 DEF BankInv, LocksExact, Range
<1>6. count < Entries
  BY <1>5, FS_EmptySet, BankAssumption DEF BankInv, LocksExact
<1>7. Waiting = {}
  BY <1>1, <1>6 DEF HeadStep, HeadReady, HeadTriggers
<1> QED BY <1>4, <1>5, <1>7

\* l3ReductionOwners, the count and the queue agree with the commands
\* captured, whatever the network delivers and when the timers expire; the
\* asserts on the count in L2cache.sm hold.
THEOREM LocksCorrect == Spec => [](LocksExact /\ count <= Entries)
<1>1. BankInv => LocksExact /\ count <= Entries
  BY DEF BankInv
<1> QED BY <1>1, BankInvariant, PTL

\* No lost update: what a started command installs is one step from what the
\* array holds when it is installed.
THEOREM UpdatesCurrent == Spec => []UpdateCurrent
<1>1. BankInv => UpdateCurrent
  BY DEF BankInv
<1> QED BY <1>1, BankInvariant, PTL

\* Asleep with no timer to wake it, the controller has no command left, and
\* every request it still holds is one that stall_and_wait put aside.
THEOREM BankAlwaysWakes == Spec => []BankWakes
BY BankInvariant, InvariantWakes, PTL
=============================================================================
