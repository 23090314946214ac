------------------------------ MODULE LsqProofs ------------------------------
(***************************************************************************)
(* The load/store queues keep within their capacity, never defer a copy    *)
(* for ever, replay every parked load once, and drain at a DSB, for every  *)
(* program, every number of slots and every size of the queues.            *)
(***************************************************************************)
EXTENDS Lsq, TLAPS, FiniteSetTheorems, SequenceTheorems, WellFoundedInduction

\* A leaf is tried with Zenon, then with SMT.
USE ZenonT(4), SMT, SMTT(20)

Statuses == {"waiting", "executed", "sent", "performed", "done"}
Entry(N) == [valid : BOOLEAN, ready : BOOLEAN, retired : BOOLEAN, waiting : SUBSET N]

CoreTyped ==
    /\ prog \in Seq(Ops) /\ Len(prog) <= MaxSeq
    /\ squashed \subseteq DOMAIN prog
    /\ status \in [DOMAIN prog -> Statuses] /\ iq \in [DOMAIN prog -> Nat]
    /\ committed \in 0 .. Len(prog)
    /\ blocked \in [{"spm", "regular"} -> BOOLEAN]
TablesTyped ==
    /\ DOMAIN shadow \subseteq Live
    /\ \A j \in DOMAIN shadow : shadow[j] \in Entry(DOMAIN prog)
    /\ pending \subseteq Live /\ early \subseteq Live
MemTyped ==
    /\ net \in Seq(DOMAIN prog) /\ todo \in [DOMAIN prog -> SUBSET Slots]
    /\ slot \in [Slots -> 0 .. MaxSeq] /\ mem \in [Lines -> 0 .. MaxSeq]

\* What has committed is past the point where it could be squashed or wait:
\* a store has its address, everything else is done.
CommitInv ==
    \A i \in Live : i <= committed =>
        IF Kind(i) \in Stores THEN Known(i) ELSE status[i] = "done"

\* The memory system holds each request once, while it is outstanding; only
\* loads are sent before they commit, so only loads are squashed in flight.
NetInv ==
    /\ \A n \in DOMAIN net : status[net[n]] = "sent"
    /\ \A m, n \in DOMAIN net : net[m] = net[n] => m = n
    /\ \A i \in squashed : Kind(i) \notin Loads => status[i] = "done"
    /\ \A i \in Live : status[i] \in {"sent", "performed"} =>
          Kind(i) \in Loads \/ i <= committed
\* The store a blocked unit sends later without checks passed them before.
BlockedInv ==
    \A u \in {"spm", "regular"} : blocked[u] => \E i \in NextStore(u) : CanWB(i)

\* A bridge instruction has an entry that is not ready until it is answered,
\* retired once it commits; an entry that is ready holds nobody.
ShadowInv ==
    /\ \A j \in DOMAIN shadow :
          /\ Kind(j) \in Bridge
          /\ shadow[j].ready => status[j] = "done" /\ shadow[j].waiting = {}
          /\ j <= committed => shadow[j].retired
    /\ \A j \in OfKind(Bridge) : status[j] # "done" => j \in DOMAIN shadow

\* A load listed anywhere waits outside the instruction queue for an older
\* bridge instruction.
WaitInv ==
    \A j \in DOMAIN shadow : \A w \in shadow[j].waiting :
        /\ j < w
        /\ w \in Live => Kind(w) \in Loads /\ status[w] = "waiting" /\ iq[w] = 0

\* The pending-load table holds uncommitted loads without an answer.
PendingInv ==
    \A i \in pending : Kind(i) = "spmld" /\ i > committed /\ status[i] # "done"

Typed == CoreTyped /\ TablesTyped /\ MemTyped
Control == CommitInv /\ NetInv /\ BlockedInv /\ ShadowInv
Waits == WaitInv /\ PendingInv /\ Replays
LsqInv == Typed /\ Control /\ Waits /\ FenceDrains /\ Budgets

-----------------------------------------------------------------------------
\* The least element of a set of naturals is in it.
LEMMA MinInSet ==
  ASSUME NEW S \in SUBSET Nat, S # {}
  PROVE  Min(S) \in S
<1> DEFINE R == {ss \in Nat \X Nat : ss[1] < ss[2]}
<1>1. IsWellFoundedOn(R, Nat)
  BY NatLessThanWellFounded DEF OpToRel
<1>2. PICK m \in S : \A y \in S : ~ (<<y, m>> \in R)
  <2> HIDE DEF R
  <2> QED BY <1>1, WFMin
<1>3. \A y \in S : m <= y
  <2> TAKE y \in S
  <2>1. ~ (<<y, m>> \in R)
    BY <1>2
  <2>2. y \in Nat /\ m \in Nat
    OBVIOUS
  <2>3. ~ (y < m)
    BY <2>1, <2>2
  <2> QED BY <2>2, <2>3
<1> QED
  BY <1>3 DEF Min

\* A sequence without its n-th element.
RemoveAt(s, n) == SubSeq(s, 1, n - 1) \o SubSeq(s, n + 1, Len(s))

\* What is left of a sequence are its other elements, each once.
LEMMA RemoveAtFacts ==
  ASSUME NEW S, NEW s \in Seq(S), NEW n \in DOMAIN s
  PROVE  /\ RemoveAt(s, n) \in Seq(S)
         /\ \A k \in DOMAIN RemoveAt(s, n) :
               \E m \in DOMAIN s \ {n} : RemoveAt(s, n)[k] = s[m]
         /\ (\A a, b \in DOMAIN s : s[a] = s[b] => a = b) =>
               \A a, b \in DOMAIN RemoveAt(s, n) :
                   RemoveAt(s, n)[a] = RemoveAt(s, n)[b] => a = b
<1> DEFINE A == SubSeq(s, 1, n - 1)
           B == SubSeq(s, n + 1, Len(s))
<1>1. n \in 1 .. Len(s) /\ Len(s) \in Nat
  BY LenProperties
<1>2. A \in Seq(S) /\ Len(A) = n - 1 /\ \A i \in 1 .. n - 1 : A[i] = s[i]
  BY <1>1, SubSeqProperties
<1>3. B \in Seq(S) /\ Len(B) = Len(s) - n /\ \A i \in 1 .. Len(s) - n : B[i] = s[n + i]
  BY <1>1, SubSeqProperties
<1>4. /\ A \o B \in Seq(S) /\ Len(A \o B) = Len(s) - 1
      /\ \A i \in 1 .. Len(s) - 1 : (A \o B)[i] = IF i < n THEN s[i] ELSE s[i + 1]
  <2> HIDE DEF A, B
  <2>0. /\ Len(A \o B) = Len(A) + Len(B) /\ A \o B \in Seq(S)
        /\ \A i \in 1 .. Len(A) + Len(B) :
              (A \o B)[i] = IF i <= Len(A) THEN A[i] ELSE B[i - Len(A)]
    BY <1>2, <1>3, ConcatProperties
  <2>a. Len(A) + Len(B) = Len(s) - 1
    BY <1>1, <1>2, <1>3
  <2>1. /\ Len(A \o B) = Len(s) - 1 /\ A \o B \in Seq(S)
        /\ \A i \in 1 .. Len(A) + Len(B) :
              (A \o B)[i] = IF i <= Len(A) THEN A[i] ELSE B[i - Len(A)]
    BY <2>0, <2>a
  <2> SUFFICES ASSUME NEW i \in 1 .. Len(s) - 1
               PROVE  (A \o B)[i] = IF i < n THEN s[i] ELSE s[i + 1]
    BY <2>1
  <2>2. CASE i < n
    BY <1>1, <1>2, <1>3, <2>1, <2>2
  <2>3. CASE ~ (i < n)
    <3>1. i - Len(A) \in 1 .. Len(s) - n /\ i > Len(A) /\ i \in 1 .. Len(A) + Len(B)
      BY <1>1, <1>2, <1>3, <2>3
    <3>2. (A \o B)[i] = B[i - Len(A)] /\ n + (i - Len(A)) = i + 1
      BY <1>1, <1>2, <2>1, <3>1
    <3> QED BY <1>3, <2>3, <3>1, <3>2
  <2> QED BY <2>2, <2>3
<1> HIDE DEF A, B
<1>5. RemoveAt(s, n) = A \o B
  BY DEF RemoveAt, A, B
<1>6. DOMAIN RemoveAt(s, n) = 1 .. Len(s) - 1 /\ DOMAIN s = 1 .. Len(s)
  BY <1>4, <1>5, LenProperties
<1> DEFINE R == RemoveAt(s, n)
<1>7. R \in Seq(S) /\ \A i \in 1 .. Len(s) - 1 : R[i] = IF i < n THEN s[i] ELSE s[i + 1]
  BY <1>4, <1>5
<1> HIDE DEF R
<1>8. \A k \in 1 .. Len(s) - 1 : \E m \in 1 .. Len(s) : m # n /\ R[k] = s[m]
  <2> TAKE k \in 1 .. Len(s) - 1
  <2>1. CASE k < n
    BY <1>1, <1>7, <2>1
  <2>2. CASE ~ (k < n)
    <3>1. k + 1 \in 1 .. Len(s) /\ k + 1 # n /\ R[k] = s[k + 1]
      BY <1>1, <1>7, <2>2
    <3> QED BY <3>1
  <2> QED BY <2>1, <2>2
<1>9. ASSUME \A a, b \in 1 .. Len(s) : s[a] = s[b] => a = b,
             NEW a \in 1 .. Len(s) - 1, NEW b \in 1 .. Len(s) - 1, R[a] = R[b]
      PROVE  a = b
  <2> DEFINE Up(i) == IF i < n THEN i ELSE i + 1
  <2>1. Up(a) \in 1 .. Len(s) /\ Up(b) \in 1 .. Len(s)
    BY <1>1
  <2>2. s[Up(a)] = s[Up(b)]
    BY <1>7, <1>9
  <2>3. Up(a) = Up(b)
    <3> HIDE DEF Up
    <3> QED BY <1>9, <2>1, <2>2
  <2> QED BY <1>1, <2>3
<1> QED BY <1>6, <1>7, <1>8, <1>9 DEF R

\* One more instruction.
LEMMA AppendFunction ==
  ASSUME NEW S, NEW n \in Nat, NEW f \in [1 .. n -> S], NEW v \in S
  PROVE  /\ Append(f, v) \in [1 .. n + 1 -> S]
         /\ \A i \in 1 .. n : Append(f, v)[i] = f[i]
         /\ Append(f, v)[n + 1] = v
<1>1. f \in Seq(S)
  BY IsASeq
<1>2. Len(f) = n
  BY <1>1, LenProperties
<1>3. /\ Append(f, v) \in Seq(S) /\ Len(Append(f, v)) = n + 1
      /\ \A i \in 1 .. n : Append(f, v)[i] = f[i]
      /\ Append(f, v)[n + 1] = v
  BY <1>1, <1>2, AppendProperties
<1>4. Append(f, v) \in [1 .. n + 1 -> S]
  BY <1>3, LenProperties, ElementOfSeq
<1> QED BY <1>3, <1>4

\* What cleanupRetiredShadow leaves: every entry that is not ready, as it was.
LEMMA CleanupFacts ==
  /\ DOMAIN Cleanup(shadow) \subseteq DOMAIN shadow
  /\ \A j \in DOMAIN Cleanup(shadow) : Cleanup(shadow)[j] = shadow[j]
  /\ \A j \in DOMAIN shadow : ~ shadow[j].ready => j \in DOMAIN Cleanup(shadow)
BY DEF Cleanup, Restrict

-----------------------------------------------------------------------------
LEMMA ProgFacts ==
  ASSUME Typed
  PROVE  /\ Len(prog) \in Nat /\ DOMAIN prog = 1 .. Len(prog)
         /\ \A i \in DOMAIN prog : i \in Nat /\ prog[i] \in Ops /\ prog[i] \in Op
         /\ Live \subseteq DOMAIN prog
BY LenProperties, ElementOfSeq, LsqAssumption DEF Typed, CoreTyped, Live

\* The entry of a bridge instruction whose address has become known.
Resolved(i) ==
    [Cleanup(shadow) EXCEPT ![i].valid = TRUE, ![i].ready = FALSE, ![i].retired = FALSE]
LEMMA ResolvedFacts ==
  ASSUME NEW N, NEW i, \A j \in DOMAIN shadow : shadow[j] \in Entry(N)
  PROVE  /\ DOMAIN Resolved(i) \subseteq DOMAIN shadow
         /\ \A j \in DOMAIN shadow : ~ shadow[j].ready => j \in DOMAIN Resolved(i)
         /\ \A j \in DOMAIN Resolved(i) :
               /\ Resolved(i)[j] \in Entry(N)
               /\ Resolved(i)[j].waiting = shadow[j].waiting
               /\ j # i => Resolved(i)[j] = shadow[j]
               /\ j = i => ~ Resolved(i)[j].ready
<1> DEFINE C == Cleanup(shadow)
<1>1. /\ DOMAIN C \subseteq DOMAIN shadow
      /\ \A j \in DOMAIN C : C[j] = shadow[j] /\ C[j] \in Entry(N)
      /\ \A j \in DOMAIN shadow : ~ shadow[j].ready => j \in DOMAIN C
  BY CleanupFacts
<1> HIDE DEF C
<1>2. Resolved(i) = [C EXCEPT ![i].valid = TRUE, ![i].ready = FALSE, ![i].retired = FALSE]
  BY DEF Resolved, C
<1>3. DOMAIN Resolved(i) = DOMAIN C
  BY <1>2
<1>4. \A j \in DOMAIN C : j # i => Resolved(i)[j] = C[j]
  BY <1>2
<1>5. i \in DOMAIN C => /\ Resolved(i)[i] \in Entry(N)
                        /\ Resolved(i)[i].waiting = C[i].waiting
                        /\ ~ Resolved(i)[i].ready
  <2> SUFFICES ASSUME i \in DOMAIN C
               PROVE  /\ Resolved(i)[i] \in Entry(N)
                      /\ Resolved(i)[i].waiting = C[i].waiting
                      /\ ~ Resolved(i)[i].ready
    OBVIOUS
  <2> DEFINE e == C[i]
  <2>1. e \in Entry(N)
    BY <1>1
  <2>2. Resolved(i)[i] = [[[e EXCEPT !.valid = TRUE] EXCEPT !.ready = FALSE] EXCEPT !.retired = FALSE]
    BY <1>2
  <2> HIDE DEF e
  <2> DEFINE e1 == [e EXCEPT !.valid = TRUE]
  <2>3. e1 \in Entry(N) /\ e1.waiting = e.waiting
    BY <2>1 DEF Entry
  <2> HIDE DEF e1
  <2> DEFINE e2 == [e1 EXCEPT !.ready = FALSE]
  <2>4. e2 \in Entry(N) /\ e2.waiting = e.waiting /\ ~ e2.ready
    BY <2>3 DEF Entry
  <2> HIDE DEF e2
  <2> DEFINE e3 == [e2 EXCEPT !.retired = FALSE]
  <2>5. e3 \in Entry(N) /\ e3.waiting = e.waiting /\ ~ e3.ready
    BY <2>4 DEF Entry
  <2>6. Resolved(i)[i] = e3
    BY <2>2 DEF e1, e2
  <2> HIDE DEF e3
  <2> QED BY <2>5, <2>6 DEF e
<1> QED BY <1>1, <1>3, <1>4, <1>5

\* Entries are only dropped, and only ready ones.
Trim == shadow' = shadow \/ shadow' = Cleanup(shadow)
LEMMA TrimFacts ==
  ASSUME Trim
  PROVE  /\ DOMAIN shadow' \subseteq DOMAIN shadow
         /\ \A j \in DOMAIN shadow' : shadow'[j] = shadow[j]
         /\ \A j \in DOMAIN shadow : ~ shadow[j].ready => j \in DOMAIN shadow'
BY CleanupFacts DEF Trim

\* LSQUnit::read of either unit parks the load, leaves it in the instruction
\* queue, forwards to it or sends it.
ReadFrame(i) ==
    /\ i \in OfKind(Loads) /\ status[i] = "waiting" /\ iq[i] > 0
    /\ UNCHANGED <<prog, squashed, committed, blocked>>
    /\ early' \subseteq Live
    /\ pending' \subseteq pending \cup (IF Kind(i) = "spmld" THEN {i} ELSE {})
Parks(i) ==
    /\ Blockers(i) # {} /\ iq' = [iq EXCEPT ![i] = @ - 1]
    /\ \E sh \in {shadow, Cleanup(shadow)} :
          shadow' = [j \in DOMAIN sh |->
                       IF j \in Blockers(i)
                       THEN [sh[j] EXCEPT !.waiting = @ \cup {i}] ELSE sh[j]]
    /\ UNCHANGED <<status, memVars>>
Stays == Trim /\ UNCHANGED <<status, iq, memVars>>
Forwards(i) ==
    /\ Trim /\ status' = [status EXCEPT ![i] = "done"]
    /\ iq' = [iq EXCEPT ![i] = @ - 1] /\ i \notin pending'
    /\ UNCHANGED memVars
Sends(i) == Trim /\ Send(i) /\ iq' = [iq EXCEPT ![i] = @ - 1]

LEMMA ReadCases ==
  ASSUME Typed, PendingInv, NEW i \in DOMAIN prog, ReadSpm(i) \/ ReadRegular(i)
  PROVE  ReadFrame(i) /\ (Parks(i) \/ Stays \/ Forwards(i) \/ Sends(i))
<1>0. /\ i \in OfKind(Loads) /\ status[i] = "waiting" /\ iq[i] > 0
      /\ UNCHANGED <<prog, squashed, committed, blocked>>
  BY DEF ReadSpm, ReadRegular, Issued
<1>1. CASE ReadSpm(i)
  <2>1. pending' \subseteq pending \cup {i} /\ Kind(i) = "spmld"
    BY <1>1 DEF ReadSpm
  <2>2. early' \subseteq Live
    <3>1. CASE Retry(i)
      <4>1. HoldingStores(i) \subseteq Live
        BY DEF HoldingStores, OlderStores, InSpmSq, OfKind
      <4>2. CASE HoldingStores(i) = {}
        <5>1. Unresolved(i)
          BY <3>1, <4>2 DEF Retry
        <5> QED BY <3>1, <5>1 DEF Retry, Typed, TablesTyped
      <4>3. CASE HoldingStores(i) # {}
        <5>1. Min(HoldingStores(i)) \in Live
          BY <4>1, <4>3, ProgFacts, MinInSet
        <5> QED BY <3>1, <5>1 DEF Retry, Typed, TablesTyped
      <4> QED BY <4>2, <4>3
    <3> QED BY <1>1, <3>1 DEF ReadSpm, Park, Forward, SendLoad, Typed, TablesTyped
  <2>3. Parks(i) \/ Stays \/ Forwards(i) \/ Sends(i)
    <3>1. CASE Park(i, Cleanup(shadow))
      BY <3>1 DEF Park, Parks
    <3>2. CASE Retry(i) /\ shadow' = Cleanup(shadow)
      BY <3>2 DEF Retry, Stays, Trim
    <3>3. ASSUME NEW j, Forward(i, j), pending' = pending \ {i}, shadow' = Cleanup(shadow)
          PROVE  Forwards(i)
      BY <3>3 DEF Forward, Forwards, Trim
    <3>4. CASE SendLoad(i) /\ shadow' = Cleanup(shadow)
      BY <3>4 DEF SendLoad, Sends, Trim
    <3>5. CASE UNCHANGED <<iqVars, early, memVars>> /\ shadow' = Cleanup(shadow)
      BY <3>5 DEF iqVars, Stays, Trim
    <3> QED BY <1>1, <3>1, <3>2, <3>3, <3>4, <3>5 DEF ReadSpm
  <2> QED BY <1>0, <2>1, <2>2, <2>3 DEF ReadFrame
<1>2. CASE ReadRegular(i)
  <2>1. pending' = pending /\ Kind(i) = "load" /\ i \notin pending
    BY <1>2 DEF ReadRegular, PendingInv
  <2>2. early' \subseteq Live
    BY <1>2 DEF ReadRegular, Park, Forward, SendLoad, Typed, TablesTyped
  <2>3. Park(i, shadow) => Parks(i)
    BY DEF Park, Parks
  <2>4. ASSUME NEW j, Forward(i, j), shadow' = shadow
        PROVE  Forwards(i)
    BY <2>1, <2>4 DEF Forward, Forwards, Trim
  <2>5. SendLoad(i) /\ shadow' = shadow => Sends(i)
    BY DEF SendLoad, Sends, Trim
  <2>6. Parks(i) \/ Forwards(i) \/ Sends(i)
    BY <1>2, <2>3, <2>4, <2>5 DEF ReadRegular
  <2> QED BY <1>0, <2>1, <2>2, <2>6 DEF ReadFrame
<1> QED BY <1>1, <1>2

\* writebackStores and writebackBlockedStore send a committed store or mark
\* its unit blocked.
WriteFrame(u, i) ==
    /\ i \in NextStore(u) /\ CanWB(i)
    /\ UNCHANGED <<prog, squashed, committed, shadow, pending, early, iq>>
    /\ \/ /\ Send(i) /\ ~ blocked'[u]
          /\ \A v \in {"spm", "regular"} \ {u} : blocked'[v] = blocked[v]
       \/ UNCHANGED <<status, memVars>> /\ \A v \in {"spm", "regular"} \ {u} : blocked'[v] = blocked[v]
LEMMA WriteCases ==
  ASSUME Typed, BlockedInv, NEW u \in {"spm", "regular"},
         Writeback(u) \/ WritebackBlocked(u)
  PROVE  /\ blocked' \in [{"spm", "regular"} -> BOOLEAN]
         /\ \E i \in NextStore(u) : WriteFrame(u, i)
<1>1. CASE Writeback(u)
  BY <1>1 DEF Writeback, WriteFrame, Typed, CoreTyped
<1>2. CASE WritebackBlocked(u)
  <2>1. PICK i \in NextStore(u) : Send(i)
    BY <1>2 DEF WritebackBlocked
  <2>2. CanWB(i)
    <3>1. PICK j \in NextStore(u) : CanWB(j)
      BY <1>2 DEF BlockedInv, WritebackBlocked
    <3>2. i = j
      BY <2>1, <3>1, ProgFacts DEF NextStore, OfKind
    <3> QED BY <3>1, <3>2
  <2> QED BY <1>2, <2>1, <2>2 DEF WritebackBlocked, WriteFrame, Typed, CoreTyped
<1> QED BY <1>1, <1>2

-----------------------------------------------------------------------------
(* Type correctness, action by action. *)
\* A request leaves a unit's queue for the memory system.
LEMMA SendTyped ==
  ASSUME Typed, NEW i \in DOMAIN prog, Send(i), prog' = prog
  PROVE  MemTyped' /\ status' \in [DOMAIN prog -> Statuses]
<1>1. net' \in Seq(DOMAIN prog)
  BY AppendProperties DEF Typed, MemTyped, Send
<1>2. prog[i].slots \subseteq Slots
  BY ProgFacts DEF Op
<1>3. todo' \in [DOMAIN prog -> SUBSET Slots]
  BY <1>2 DEF Typed, MemTyped, Send
<1> QED BY <1>1, <1>3 DEF Typed, MemTyped, CoreTyped, Send, Statuses

LEMMA InitTyped == Init => Typed
<1> SUFFICES ASSUME Init PROVE Typed
  OBVIOUS
<1>1. /\ prog = <<>> /\ DOMAIN prog = {} /\ Len(prog) = 0 /\ prog \in Seq(Ops)
      /\ net \in Seq({}) /\ DOMAIN status = {} /\ DOMAIN iq = {} /\ DOMAIN shadow = {} /\ DOMAIN todo = {}
  BY EmptySeq DEF Init
<1>2. CoreTyped
  BY <1>1, LsqAssumption DEF Init, CoreTyped, Statuses
<1>3. TablesTyped
  BY <1>1 DEF Init, TablesTyped, Live
<1>4. MemTyped
  BY <1>1, LsqAssumption DEF Init, MemTyped
<1> QED BY <1>2, <1>3, <1>4 DEF Typed

LEMMA DispatchTyped ==
  ASSUME Typed, NEW o \in Ops, Dispatch(o)
  PROVE  Typed'
<1> DEFINE n == Len(prog) + 1
<1>1. /\ prog' \in Seq(Ops) /\ Len(prog') = n /\ DOMAIN prog' = DOMAIN prog \cup {n}
      /\ n \notin DOMAIN prog /\ n \in Nat /\ n <= MaxSeq
  BY ProgFacts, AppendProperties, LsqAssumption DEF Dispatch, Typed, CoreTyped
<1>2. /\ Live' = Live \cup {n}
      /\ squashed' = squashed
  BY <1>1 DEF Live, Dispatch, Typed, CoreTyped
<1>3. CoreTyped'
  <2>1. status' \in [DOMAIN prog' -> Statuses]
    <3>1. status' = Append(status, "waiting") /\ "waiting" \in Statuses
      BY DEF Dispatch, Statuses
    <3>2. status \in [1 .. Len(prog) -> Statuses]
      BY ProgFacts DEF Typed, CoreTyped
    <3>3. status' \in [1 .. n -> Statuses]
      BY <3>1, <3>2, ProgFacts, AppendFunction
    <3> QED BY <1>1, <3>3, ProgFacts
  <2>2. iq' \in [DOMAIN prog' -> Nat]
    <3>1. iq' = Append(iq, 1) /\ iq \in [1 .. Len(prog) -> Nat]
      BY ProgFacts DEF Dispatch, Typed, CoreTyped
    <3>2. iq' \in [1 .. n -> Nat]
      BY <3>1, ProgFacts, AppendFunction
    <3> QED BY <1>1, <3>2, ProgFacts
  <2> QED BY <1>1, <1>2, <2>1, <2>2 DEF Dispatch, Typed, CoreTyped
<1>4. TablesTyped'
  BY <1>1, <1>2, CleanupFacts DEF Dispatch, Typed, TablesTyped, Entry, Reserve
<1>5. MemTyped'
  <2>1. todo' = Append(todo, {}) /\ todo \in [1 .. Len(prog) -> SUBSET Slots]
    BY ProgFacts DEF Dispatch, Typed, MemTyped
  <2>2. todo' \in [DOMAIN prog' -> SUBSET Slots]
    <3>1. todo' \in [1 .. n -> SUBSET Slots]
      BY <2>1, ProgFacts, AppendFunction
    <3> QED BY <1>1, <3>1, ProgFacts
  <2>3. net' \in Seq(DOMAIN prog')
    BY <1>1, SeqMonotonic DEF Dispatch, Typed, MemTyped
  <2> QED BY <2>2, <2>3 DEF Dispatch, Typed, MemTyped
<1> QED BY <1>3, <1>4, <1>5 DEF Typed

LEMMA ExecuteStoreTyped ==
  ASSUME Typed, NEW i \in DOMAIN prog, ExecuteStore(i)
  PROVE  Typed'
<1>1. CoreTyped'
  BY DEF Typed, CoreTyped, ExecuteStore, Statuses
<1>2. TablesTyped'
  <2>1. \A j \in DOMAIN shadow' : j \in DOMAIN shadow /\ shadow'[j] \in Entry(DOMAIN prog)
    <3>1. \A j \in DOMAIN shadow : shadow[j] \in Entry(DOMAIN prog)
      BY DEF Typed, TablesTyped
    <3>2. CASE Kind(i) \notin Bridge
      BY <3>1, <3>2 DEF ExecuteStore
    <3>3. CASE Kind(i) \in Bridge
      <4>1. shadow' = Resolved(i)
        BY <3>3 DEF ExecuteStore, Resolved
      <4> QED BY <3>1, <4>1, ResolvedFacts
    <3> QED BY <3>2, <3>3
  <2> QED BY <2>1 DEF Typed, TablesTyped, ExecuteStore, Live
<1>3. MemTyped'
  BY DEF Typed, MemTyped, ExecuteStore, memVars
<1> QED BY <1>1, <1>2, <1>3 DEF Typed

LEMMA ReadTyped ==
  ASSUME Typed, PendingInv, NEW i \in DOMAIN prog, ReadSpm(i) \/ ReadRegular(i)
  PROVE  Typed'
<1>1. ReadFrame(i) /\ (Parks(i) \/ Stays \/ Forwards(i) \/ Sends(i))
  BY ReadCases
<1>2. /\ i \in Live /\ Live' = Live /\ prog' = prog
      /\ pending' \subseteq Live' /\ early' \subseteq Live'
  BY <1>1 DEF ReadFrame, OfKind, Typed, TablesTyped, Live
<1>3. iq' \in [DOMAIN prog -> Nat]
  BY <1>1 DEF ReadFrame, Parks, Stays, Forwards, Sends, Typed, CoreTyped
<1>4. MemTyped' /\ status' \in [DOMAIN prog -> Statuses]
  <2>1. CASE UNCHANGED memVars /\ status' \in [DOMAIN prog -> Statuses]
    BY <1>2, <2>1 DEF Typed, MemTyped, memVars
  <2>2. CASE Sends(i)
    BY <1>2, <2>2, SendTyped DEF Sends
  <2> QED BY <1>1, <2>1, <2>2 DEF Parks, Stays, Forwards, Typed, CoreTyped, Statuses
<1>5. DOMAIN shadow' \subseteq DOMAIN shadow /\ \A j \in DOMAIN shadow' : shadow'[j] \in Entry(DOMAIN prog)
  <2>1. CASE Parks(i)
    <3>1. PICK sh \in {shadow, Cleanup(shadow)} :
            shadow' = [j \in DOMAIN sh |->
                         IF j \in Blockers(i)
                         THEN [sh[j] EXCEPT !.waiting = @ \cup {i}] ELSE sh[j]]
      BY <2>1 DEF Parks
    <3>2. DOMAIN sh \subseteq DOMAIN shadow /\ \A j \in DOMAIN sh : sh[j] = shadow[j]
      BY CleanupFacts
    <3>3. \A j \in DOMAIN sh : sh[j] \in Entry(DOMAIN prog)
      BY <3>2 DEF Typed, TablesTyped
    <3>4. \A j \in DOMAIN sh : [sh[j] EXCEPT !.waiting = @ \cup {i}] \in Entry(DOMAIN prog)
      BY <3>3 DEF Entry
    <3> HIDE <3>1
    <3>5. DOMAIN shadow' = DOMAIN sh
      BY <3>1
    <3>6. \A j \in DOMAIN sh : shadow'[j] = [sh[j] EXCEPT !.waiting = @ \cup {i}] \/ shadow'[j] = sh[j]
      BY <3>1
    <3> QED BY <3>2, <3>3, <3>4, <3>5, <3>6
  <2>2. CASE Trim
    BY <2>2, TrimFacts DEF Typed, TablesTyped
  <2> QED BY <1>1, <2>1, <2>2 DEF Stays, Forwards, Sends
<1> QED BY <1>1, <1>2, <1>3, <1>4, <1>5 DEF Typed, CoreTyped, TablesTyped, ReadFrame

LEMMA WriteTyped ==
  ASSUME Typed, BlockedInv, NEW u \in {"spm", "regular"},
         Writeback(u) \/ WritebackBlocked(u)
  PROVE  Typed'
<1>1. PICK i \in NextStore(u) : WriteFrame(u, i)
  BY WriteCases
<1>2. blocked' \in [{"spm", "regular"} -> BOOLEAN]
  BY WriteCases
<1>3. i \in DOMAIN prog /\ prog' = prog /\ Live' = Live
  BY <1>1 DEF WriteFrame, NextStore, OfKind, Live
<1>4. MemTyped' /\ status' \in [DOMAIN prog -> Statuses]
  <2>1. CASE Send(i)
    BY <1>3, <2>1, SendTyped
  <2>2. CASE UNCHANGED <<status, memVars>>
    BY <1>3, <2>2 DEF Typed, CoreTyped, MemTyped, memVars
  <2> QED BY <1>1, <2>1, <2>2 DEF WriteFrame
<1> QED BY <1>1, <1>2, <1>3, <1>4 DEF WriteFrame, Typed, CoreTyped, TablesTyped

LEMMA PerformTyped ==
  ASSUME Typed, NEW i \in DOMAIN prog, NEW part \in Parts(i), Perform(i, part)
  PROVE  Typed'
<1>0. /\ prog[i] \in Op /\ prog[i] \in Ops /\ i \in 0 .. MaxSeq
      /\ prog[i].line \in Lines /\ prog[i].slots \subseteq Slots /\ Slots \subseteq Nat
  BY ProgFacts, LsqAssumption DEF Typed, CoreTyped, Op
<1>1. net' \in Seq(DOMAIN prog)
  <2>1. PICK n \in DOMAIN net : net' = RemoveAt(net, n) \/ net' = net
    BY DEF Perform, RemoveAt
  <2>2. net \in Seq(DOMAIN prog)
    BY DEF Typed, MemTyped
  <2> QED BY <2>1, <2>2, RemoveAtFacts
<1>2. status' \in [DOMAIN prog -> Statuses]
  BY DEF Perform, Typed, CoreTyped, Statuses
<1>3. todo' \in [DOMAIN prog -> SUBSET Slots]
  BY DEF Perform, Typed, MemTyped
<1>4. slot' \in [Slots -> 0 .. MaxSeq]
  <2>1. slot \in [Slots -> 0 .. MaxSeq] /\ mem[prog[i].line] \in 0 .. MaxSeq
    BY <1>0 DEF Typed, MemTyped
  <2>2. slot' = [s \in Slots |->
                  IF s \in part /\ Kind(i) = "spmst" THEN i
                  ELSE IF s \in part /\ Kind(i) \in Copies THEN mem[prog[i].line]
                  ELSE slot[s]]
    BY DEF Perform
  <2> QED BY <1>0, <2>1, <2>2
<1>5. mem' \in [Lines -> 0 .. MaxSeq]
  <2>1. CASE Kind(i) = "spmwb"
    <3>1. prog[i].slots # {}
      BY <1>0, <2>1, LsqAssumption DEF Kind
    <3>2. Min(prog[i].slots) \in Slots
      BY <1>0, <3>1, MinInSet
    <3>3. slot[Min(prog[i].slots)] \in 0 .. MaxSeq
      BY <3>2 DEF Typed, MemTyped
    <3>4. mem' = [mem EXCEPT ![prog[i].line] = slot[Min(prog[i].slots)]]
      BY <2>1 DEF Perform
    <3> QED BY <3>3, <3>4 DEF Typed, MemTyped
  <2>2. CASE Kind(i) # "spmwb"
    BY <1>0, <2>2 DEF Perform, Typed, MemTyped
  <2> QED BY <2>1, <2>2
<1>6. UNCHANGED <<prog, squashed, committed, shadow, pending, early, blocked, iq>>
  BY DEF Perform
<1> QED BY <1>1, <1>2, <1>3, <1>4, <1>5, <1>6 DEF Typed, CoreTyped, TablesTyped, MemTyped, Live

\* What markShadowReady and the wake-up of its loads do to the shadow table.
Readied(i) == [shadow EXCEPT ![i].ready = TRUE, ![i].waiting = {}]
LEMMA WakeFacts ==
  ASSUME NEW N, NEW i, Wake(i), \A j \in DOMAIN shadow : shadow[j] \in Entry(N)
  PROVE  /\ DOMAIN shadow' \subseteq DOMAIN shadow
         /\ \A j \in DOMAIN shadow : j # i /\ ~ shadow[j].ready => j \in DOMAIN shadow'
         /\ \A j \in DOMAIN shadow' :
               /\ shadow'[j] \in Entry(N)
               /\ j # i => shadow'[j] = shadow[j]
               /\ j = i => shadow'[j].waiting = {} /\ shadow'[j].retired = shadow[j].retired
<1> DEFINE R == Readied(i)
<1>1. DOMAIN R = DOMAIN shadow /\ \A j \in DOMAIN shadow : j # i => R[j] = shadow[j]
  BY DEF Readied
<1>2. i \in DOMAIN shadow => /\ R[i] \in Entry(N) /\ R[i].waiting = {}
                             /\ R[i].retired = shadow[i].retired
  <2> SUFFICES ASSUME i \in DOMAIN shadow
               PROVE  /\ R[i] \in Entry(N) /\ R[i].waiting = {}
                      /\ R[i].retired = shadow[i].retired
    OBVIOUS
  <2> DEFINE e == shadow[i]
  <2>1. e \in Entry(N)
    OBVIOUS
  <2>2. R[i] = [[e EXCEPT !.ready = TRUE] EXCEPT !.waiting = {}]
    BY DEF Readied
  <2> HIDE DEF e, R
  <2> DEFINE e1 == [e EXCEPT !.ready = TRUE]
  <2>3. e1 \in Entry(N) /\ e1.retired = e.retired
    BY <2>1 DEF Entry
  <2> HIDE DEF e1
  <2> DEFINE e2 == [e1 EXCEPT !.waiting = {}]
  <2>4. e2 \in Entry(N) /\ e2.retired = e.retired /\ e2.waiting = {}
    BY <2>3 DEF Entry
  <2>5. R[i] = e2
    BY <2>2 DEF e1
  <2> HIDE DEF e2
  <2> QED BY <2>4, <2>5 DEF e
<1> HIDE DEF R
<1>3. shadow' = R \/ shadow' = Cleanup(R)
  BY DEF Wake, R, Readied
<1>4. /\ DOMAIN Cleanup(R) \subseteq DOMAIN R
      /\ \A j \in DOMAIN Cleanup(R) : Cleanup(R)[j] = R[j]
      /\ \A j \in DOMAIN R : ~ R[j].ready => j \in DOMAIN Cleanup(R)
  BY DEF Cleanup, Restrict
<1>5. /\ DOMAIN shadow' \subseteq DOMAIN shadow
      /\ \A j \in DOMAIN shadow' : shadow'[j] = R[j]
      /\ \A j \in DOMAIN shadow : ~ R[j].ready => j \in DOMAIN shadow'
  BY <1>1, <1>3, <1>4
<1>6. \A j \in DOMAIN shadow : R[j] \in Entry(N)
  BY <1>1, <1>2
<1> QED BY <1>1, <1>2, <1>5, <1>6

\* The answer to a bridge instruction finds its entry in the table.
LEMMA AnswerFinds ==
  ASSUME Typed, NetInv, ShadowInv, NEW i \in DOMAIN prog, status[i] = "performed",
         Kind(i) \in Bridge
  PROVE  i \in Live /\ i \in DOMAIN shadow /\ ~ shadow[i].ready
<1>1. Kind(i) \notin Loads
  BY DEF Bridge, Copies, Loads
<1>2. i \notin squashed
  BY <1>1 DEF NetInv
<1>3. i \in Live
  BY <1>2 DEF Live
<1> QED BY <1>3 DEF ShadowInv, OfKind

LEMMA RecvTimingRespTyped ==
  ASSUME Typed, NEW i \in DOMAIN prog, RecvTimingResp(i)
  PROVE  Typed'
<1>0. \A j \in DOMAIN shadow : shadow[j] \in Entry(DOMAIN prog)
  BY DEF Typed, TablesTyped
<1>1. DOMAIN shadow' \subseteq DOMAIN shadow /\ \A j \in DOMAIN shadow' : shadow'[j] \in Entry(DOMAIN prog)
  <2>1. CASE Wake(i)
    BY <1>0, <2>1, WakeFacts
  <2>2. CASE shadow' = shadow
    BY <1>0, <2>2
  <2> QED BY <2>1, <2>2 DEF RecvTimingResp
<1>2. iq' \in [DOMAIN prog -> Nat]
  BY DEF RecvTimingResp, Wake, Typed, CoreTyped
<1>3. status' \in [DOMAIN prog -> Statuses]
  BY DEF RecvTimingResp, Typed, CoreTyped, Statuses
<1> QED BY <1>1, <1>2, <1>3
  DEF RecvTimingResp, Typed, CoreTyped, TablesTyped, MemTyped, Live, memVars

LEMMA ExecuteFenceTyped ==
  ASSUME Typed, NEW i \in DOMAIN prog, ExecuteFence(i)
  PROVE  Typed'
BY DEF ExecuteFence, Typed, CoreTyped, TablesTyped, MemTyped, Live, memVars, Statuses

LEMMA CommitTyped ==
  ASSUME Typed, NEW i \in DOMAIN prog, Commit(i)
  PROVE  Typed'
<1>1. \A j \in DOMAIN shadow : [shadow[j] EXCEPT !.retired = TRUE] \in Entry(DOMAIN prog)
  BY DEF Typed, TablesTyped, Entry
<1>2. DOMAIN shadow' = DOMAIN shadow /\ \A j \in DOMAIN shadow : shadow'[j] \in Entry(DOMAIN prog)
  BY <1>1 DEF Commit, Typed, TablesTyped
<1>3. committed' \in 0 .. Len(prog)
  BY ProgFacts DEF Commit
<1> QED BY <1>2, <1>3 DEF Commit, Typed, CoreTyped, TablesTyped, MemTyped, Live, memVars, iqVars

LEMMA SquashTyped ==
  ASSUME Typed, NEW k \in 0 .. Len(prog), Squash(k)
  PROVE  Typed'
<1>1. /\ Live' = {i \in Live : i <= k} /\ prog' = prog
      /\ squashed' = squashed \cup {i \in Live : i > k}
  BY ProgFacts DEF Squash, Live
<1>2. CoreTyped'
  <2>1. status' \in [DOMAIN prog -> Statuses]
    BY DEF Squash, Typed, CoreTyped, Statuses
  <2>2. iq' \in [DOMAIN prog -> Nat]
    BY DEF Squash, Typed, CoreTyped
  <2> QED BY <1>1, <2>1, <2>2, ProgFacts DEF Squash, Typed, CoreTyped
<1>3. TablesTyped'
  BY <1>1 DEF Squash, Typed, TablesTyped, Restrict, SquashPending
<1>4. MemTyped'
  BY DEF Squash, Typed, MemTyped, memVars
<1> QED BY <1>2, <1>3, <1>4 DEF Typed

LEMMA TypedStep == ASSUME Typed, BlockedInv, PendingInv, [Next]_vars PROVE Typed'
<1>1. CASE \E u \in DOMAIN blocked : Writeback(u) \/ WritebackBlocked(u)
  <2>1. DOMAIN blocked = {"spm", "regular"}
    BY DEF Typed, CoreTyped
  <2> QED BY <1>1, <2>1, WriteTyped
<1>2. CASE UNCHANGED vars
  BY <1>2 DEF vars, iqVars, memVars, Typed, CoreTyped, TablesTyped, MemTyped, Live
<1> QED BY <1>1, <1>2, DispatchTyped, ExecuteStoreTyped, ReadTyped, PerformTyped,
           RecvTimingRespTyped, ExecuteFenceTyped, CommitTyped, SquashTyped DEF Next

-----------------------------------------------------------------------------
(* The control invariants, action by action. *)
Inv0 == Typed /\ Control /\ PendingInv

\* The first request of a unit's queue stays the first while its unit is
\* blocked: what changes behind it is younger, squashed or not a store.
LEMMA BlockedKept ==
  ASSUME Typed, BlockedInv, NEW u \in {"spm", "regular"}, blocked[u],
         Live' \subseteq Nat,
         \A i \in DOMAIN prog : Kind(i)' = Kind(i),
         committed <= committed', committed' \in Nat,
         \A i \in Live : i <= committed => i \in Live',
         \A i \in Live : i \in Live' /\ Kind(i) \in Unit(u) => status'[i] = status[i]
           \/ (status[i] \notin {"waiting", "executed"} /\ status'[i] \notin {"waiting", "executed"})
           \/ (status[i] = "waiting" /\ status'[i] = "executed"),
         \A i \in Live' : i \in Live \/ \A j \in DOMAIN prog : j < i
  PROVE  \E i \in NextStore(u)' : CanWB(i)'
<1>1. PICK i \in NextStore(u) : CanWB(i)
  BY DEF BlockedInv
<1>2. /\ i \in Live /\ Kind(i) \in Unit(u) /\ i <= committed /\ status[i] = "executed"
      /\ i \in Live' /\ i \in DOMAIN prog /\ i \in Nat
      /\ \A j \in Live : Kind(j) \in Unit(u) /\ status[j] \in {"waiting", "executed"} => i <= j
  BY <1>1, ProgFacts DEF NextStore, CanWB, OfKind
<1>3. status'[i] = "executed" /\ Kind(i)' \in Unit(u)
  BY <1>2
<1>4. i <= committed'
  BY <1>2 DEF Typed, CoreTyped
<1>5. ASSUME NEW j \in Live', Kind(j)' \in Unit(u), status'[j] \in {"waiting", "executed"}
      PROVE  i <= j
  <2>1. CASE j \in Live
    BY <1>2, <1>5, <2>1, ProgFacts
  <2>2. CASE j \notin Live
    <3>1. i < j
      BY <1>2, <2>2
    <3>2. j \in Nat
      OBVIOUS
    <3> QED BY <1>2, <3>1, <3>2
  <2> QED BY <2>1, <2>2
<1>6. Unit(u)' = Unit(u)
  BY DEF Unit
<1>7. i \in NextStore(u)'
  BY <1>2, <1>3, <1>5, <1>6 DEF NextStore, OfKind
<1>8. CanWB(i)'
  BY <1>3, <1>4 DEF CanWB
<1> QED BY <1>7, <1>8

LEMMA DispatchControl ==
  ASSUME Inv0, NEW o \in Ops, Dispatch(o)
  PROVE  Control'
<1>0. PICK n \in Nat : n = Len(prog) + 1
  BY ProgFacts DEF Inv0
<1>1. /\ n \in Nat /\ \A i \in DOMAIN prog : i < n /\ i \in Nat
      /\ DOMAIN prog' = DOMAIN prog \cup {n} /\ prog'[n] = o
      /\ \A i \in DOMAIN prog : prog'[i] = prog[i]
      /\ committed' = committed /\ committed < n /\ squashed' = squashed
      /\ n \notin DOMAIN prog /\ committed \in Nat
  BY <1>0, ProgFacts, AppendProperties DEF Dispatch, Inv0, Typed, CoreTyped
<1>2. /\ Live' = Live \cup {n} /\ Live \subseteq DOMAIN prog /\ squashed \subseteq DOMAIN prog
      /\ \A i \in DOMAIN prog : Kind(i)' = Kind(i)
      /\ Kind(n)' = o.kind
  BY <1>1 DEF Live, Kind, Inv0, Typed, CoreTyped
<1>3. /\ \A i \in DOMAIN prog : status'[i] = status[i]
      /\ status'[n] = "waiting"
  <2>1. status' = Append(status, "waiting") /\ "waiting" \in Statuses
    BY DEF Dispatch, Statuses
  <2>2. status \in [1 .. Len(prog) -> Statuses] /\ DOMAIN prog = 1 .. Len(prog) /\ Len(prog) \in Nat
    BY ProgFacts DEF Inv0, Typed, CoreTyped
  <2> QED BY <1>0, <2>1, <2>2, AppendFunction
<1>4. CommitInv'
  <2> SUFFICES ASSUME NEW i \in Live', i <= committed'
               PROVE  IF Kind(i)' \in Stores THEN status'[i] # "waiting" ELSE status'[i] = "done"
    BY DEF CommitInv, Known
  <2>1. i # n /\ i \in Live /\ i \in DOMAIN prog /\ i <= committed
    BY <1>1, <1>2
  <2> QED BY <1>2, <1>3, <2>1 DEF CommitInv, Inv0, Control, Known
<1>5. NetInv'
  <2>1. net' = net /\ \A m \in DOMAIN net : net[m] \in DOMAIN prog
    BY ElementOfSeq DEF Dispatch, Inv0, Typed, MemTyped
  <2> QED BY <1>1, <1>2, <1>3, <2>1 DEF NetInv, Inv0, Control
<1>6. BlockedInv'
  <2> SUFFICES ASSUME NEW u \in {"spm", "regular"}, blocked'[u]
               PROVE  (\E i \in NextStore(u) : CanWB(i))'
    BY DEF BlockedInv
  <2>1. blocked[u] /\ Live' \subseteq Nat /\ committed' \in Nat /\ committed <= committed'
    BY <1>1, <1>2 DEF Dispatch, Inv0, Typed, CoreTyped
  <2> QED BY <1>1, <1>2, <1>3, <2>1, BlockedKept DEF Inv0, Control
<1>7. ShadowInv'
  <2>1. /\ DOMAIN shadow' \subseteq DOMAIN shadow \cup {n}
        /\ n \in DOMAIN shadow' => o.kind \in Bridge /\ ~ shadow'[n].ready
        /\ o.kind \in Bridge => n \in DOMAIN shadow'
        /\ \A j \in DOMAIN shadow' : j # n => shadow'[j] = shadow[j]
        /\ \A j \in DOMAIN shadow : ~ shadow[j].ready => j \in DOMAIN shadow'
    <3>1. DOMAIN shadow \subseteq DOMAIN prog
      BY <1>2 DEF Inv0, Typed, TablesTyped
    <3>2. CASE o.kind \in Bridge
      <4>1. shadow' = Reserve(Cleanup(shadow), n)
        BY <1>0, <3>2 DEF Dispatch
      <4> QED BY <1>1, <3>1, <3>2, <4>1, CleanupFacts DEF Reserve
    <3>3. CASE o.kind \notin Bridge
      BY <1>1, <3>1, <3>3 DEF Dispatch
    <3> QED BY <3>2, <3>3
  <2>2. DOMAIN shadow \subseteq DOMAIN prog
    BY <1>2 DEF Inv0, Typed, TablesTyped
  <2>3. \A j \in DOMAIN shadow' : /\ Kind(j)' \in Bridge
                                  /\ shadow'[j].ready => status'[j] = "done" /\ shadow'[j].waiting = {}
                                  /\ j <= committed' => shadow'[j].retired
    <3> TAKE j \in DOMAIN shadow'
    <3>1. CASE j = n
      BY <1>1, <1>2, <2>1, <3>1
    <3>2. CASE j # n
      BY <1>1, <1>2, <1>3, <2>1, <2>2, <3>2 DEF Inv0, Control, ShadowInv
    <3> QED BY <3>1, <3>2
  <2>4. ASSUME NEW j \in Live', Kind(j)' \in Bridge, status'[j] # "done"
        PROVE  j \in DOMAIN shadow'
    BY <1>1, <1>2, <1>3, <2>1, <2>4 DEF Inv0, Control, ShadowInv, OfKind
  <2> QED BY <2>3, <2>4 DEF ShadowInv, OfKind
<1> QED BY <1>4, <1>5, <1>6, <1>7 DEF Control

LEMMA ExecuteStoreControl ==
  ASSUME Inv0, NEW i \in DOMAIN prog, ExecuteStore(i)
  PROVE  Control'
<1>1. /\ i \in Live /\ Kind(i) \in Stores /\ status[i] = "waiting"
      /\ prog' = prog /\ Live' = Live /\ squashed' = squashed /\ committed' = committed
      /\ net' = net /\ blocked' = blocked
      /\ status' = [status EXCEPT ![i] = "executed"] /\ DOMAIN status = DOMAIN prog
  BY DEF ExecuteStore, OfKind, Live, Inv0, Typed, CoreTyped, memVars
<1>2. \A j : Kind(j)' = Kind(j)
  BY <1>1 DEF Kind
<1>3. CommitInv'
  BY <1>1, <1>2 DEF CommitInv, Inv0, Control, Known
<1>4. NetInv'
  BY <1>1, <1>2 DEF NetInv, Inv0, Control
<1>5. BlockedInv'
  <2> SUFFICES ASSUME NEW u \in {"spm", "regular"}, blocked'[u]
               PROVE  (\E j \in NextStore(u) : CanWB(j))'
    BY DEF BlockedInv
  <2>1. blocked[u] /\ Live' \subseteq Nat /\ committed' \in Nat /\ committed <= committed' /\ Live \subseteq DOMAIN prog
    BY <1>1, ProgFacts DEF Inv0, Typed, CoreTyped
  <2> QED BY <1>1, <1>2, <2>1, BlockedKept DEF Inv0, Control
<1>6. ~ (i <= committed)
  BY <1>1 DEF Inv0, Control, CommitInv, Known
<1>7. /\ DOMAIN shadow' \subseteq DOMAIN shadow
      /\ \A j \in DOMAIN shadow : ~ shadow[j].ready => j \in DOMAIN shadow'
      /\ \A j \in DOMAIN shadow' : j # i => shadow'[j] = shadow[j]
      /\ i \in DOMAIN shadow' => ~ shadow'[i].ready
  <2>1. \A j \in DOMAIN shadow : shadow[j] \in Entry(DOMAIN prog)
    BY DEF Inv0, Typed, TablesTyped
  <2>2. CASE Kind(i) \in Bridge
    <3>1. shadow' = Resolved(i)
      BY <2>2 DEF ExecuteStore, Resolved
    <3> QED BY <2>1, <3>1, ResolvedFacts
  <2>3. CASE Kind(i) \notin Bridge
    BY <2>3 DEF ExecuteStore, Inv0, Control, ShadowInv
  <2> QED BY <2>2, <2>3
<1>8. ShadowInv'
  <2>1. \A j \in DOMAIN shadow' : /\ Kind(j) \in Bridge
                                  /\ shadow'[j].ready => status'[j] = "done" /\ shadow'[j].waiting = {}
                                  /\ j <= committed => shadow'[j].retired
    BY <1>1, <1>6, <1>7 DEF Inv0, Control, ShadowInv, Typed, TablesTyped, Live
  <2>2. \A j \in Live : Kind(j) \in Bridge /\ status'[j] # "done" => j \in DOMAIN shadow'
    BY <1>1, <1>7 DEF Inv0, Control, ShadowInv, OfKind, Live
  <2> QED BY <1>1, <1>2, <2>1, <2>2 DEF ShadowInv, OfKind
<1> QED BY <1>3, <1>4, <1>5, <1>8 DEF Control

\* The shadow table loses ready entries at most and the others keep what the
\* control invariants say; statuses move forward.
LEMMA ShadowKept ==
  ASSUME Inv0, UNCHANGED <<prog, squashed, committed>>,
         DOMAIN shadow' \subseteq DOMAIN shadow,
         \A j \in DOMAIN shadow : ~ shadow[j].ready => j \in DOMAIN shadow',
         \A j \in DOMAIN shadow' : /\ shadow'[j].ready = shadow[j].ready
                                   /\ shadow'[j].retired = shadow[j].retired
                                   /\ shadow[j].ready => shadow'[j].waiting = shadow[j].waiting,
         \A j \in OfKind(Bridge) : status[j] = "done" <=> status'[j] = "done"
  PROVE  ShadowInv'
<1>1. Live' = Live /\ \A j : Kind(j)' = Kind(j)
  BY DEF Live, Kind
<1>2. DOMAIN shadow \subseteq OfKind(Bridge)
  BY DEF Inv0, Typed, TablesTyped, Control, ShadowInv, OfKind
<1>3. OfKind(Bridge)' = OfKind(Bridge)
  BY <1>1 DEF OfKind
<1>4. \A j \in DOMAIN shadow' : /\ Kind(j) \in Bridge
                                /\ shadow'[j].ready => status'[j] = "done" /\ shadow'[j].waiting = {}
                                /\ j <= committed => shadow'[j].retired
  BY <1>2 DEF Inv0, Control, ShadowInv
<1>5. \A j \in OfKind(Bridge) : status'[j] # "done" => j \in DOMAIN shadow'
  BY DEF Inv0, Control, ShadowInv
<1> QED BY <1>1, <1>3, <1>4, <1>5 DEF ShadowInv

\* A request that enters the memory system.
LEMMA SendNet ==
  ASSUME Inv0, NEW i \in Live, Send(i), UNCHANGED <<prog, squashed, committed>>,
         status[i] \in {"waiting", "executed"}, Kind(i) \in Loads \/ i <= committed
  PROVE  NetInv'
<1>1. /\ i \in DOMAIN prog /\ Live' = Live /\ \A j : Kind(j)' = Kind(j)
      /\ status' = [status EXCEPT ![i] = "sent"] /\ DOMAIN status = DOMAIN prog
      /\ Live \subseteq DOMAIN prog /\ i \notin squashed /\ squashed \subseteq DOMAIN prog
  BY DEF Live, Kind, Send, Inv0, Typed, CoreTyped
<1>2. /\ net \in Seq(DOMAIN prog) /\ Len(net) \in Nat /\ DOMAIN net = 1 .. Len(net)
      /\ \A n \in DOMAIN net : net[n] \in DOMAIN prog
  BY LenProperties, ElementOfSeq DEF Inv0, Typed, MemTyped
<1>3. /\ DOMAIN net' = 1 .. Len(net) + 1 /\ net'[Len(net) + 1] = i
      /\ \A n \in DOMAIN net : net'[n] = net[n]
  BY <1>1, <1>2, AppendProperties DEF Send
<1>4. \A n \in DOMAIN net : status[net[n]] = "sent" /\ net[n] # i
  BY DEF Inv0, Control, NetInv
<1>5. \A n \in DOMAIN net' : n \in DOMAIN net \/ n = Len(net) + 1
  BY <1>2, <1>3
<1>6. \A n \in DOMAIN net' : status'[net'[n]] = "sent"
  BY <1>1, <1>2, <1>3, <1>4, <1>5
<1>7. \A m, n \in DOMAIN net' : net'[m] = net'[n] => m = n
  <2>1. \A m, n \in DOMAIN net : net[m] = net[n] => m = n
    BY DEF Inv0, Control, NetInv
  <2> QED BY <1>3, <1>4, <1>5, <2>1
<1>8. \A j \in squashed : Kind(j) \notin Loads => status'[j] = "done"
  BY <1>1 DEF Inv0, Control, NetInv
<1>9. \A j \in Live : status'[j] \in {"sent", "performed"} => Kind(j) \in Loads \/ j <= committed
  BY <1>1 DEF Inv0, Control, NetInv
<1> QED BY <1>1, <1>6, <1>7, <1>8, <1>9 DEF NetInv

LEMMA ReadControl ==
  ASSUME Inv0, NEW i \in DOMAIN prog, ReadSpm(i) \/ ReadRegular(i)
  PROVE  Control'
<1>1. ReadFrame(i) /\ (Parks(i) \/ Stays \/ Forwards(i) \/ Sends(i))
  BY ReadCases DEF Inv0
<1>2. /\ i \in Live /\ Kind(i) \in Loads /\ status[i] = "waiting"
      /\ UNCHANGED <<prog, squashed, committed, blocked>>
      /\ Live' = Live /\ \A j : Kind(j)' = Kind(j)
      /\ DOMAIN status = DOMAIN prog /\ Live \subseteq DOMAIN prog /\ squashed \subseteq DOMAIN prog
  BY <1>1 DEF ReadFrame, OfKind, Live, Kind, Inv0, Typed, CoreTyped
<1>3. \/ status' = status /\ net' = net
      \/ status' = [status EXCEPT ![i] = "done"] /\ net' = net
      \/ status' = [status EXCEPT ![i] = "sent"] /\ Send(i)
  BY <1>1 DEF Parks, Stays, Forwards, Sends, Send, memVars
<1>4. \A j \in Live : j # i => status'[j] = status[j]
  BY <1>2, <1>3
<1>5. CommitInv'
  <2>1. ~ (i <= committed)
    BY <1>2 DEF Inv0, Control, CommitInv, Stores, Bridge, Copies, Loads
  <2> QED BY <1>2, <1>4, <2>1 DEF Inv0, Control, CommitInv, Known
<1>6. NetInv'
  <2>1. CASE Send(i)
    BY <1>2, <2>1, SendNet
  <2>2. CASE net' = net /\ (status' = status \/ status' = [status EXCEPT ![i] = "done"])
    <3>1. \A n \in DOMAIN net : net[n] # i
      BY <1>2 DEF Inv0, Control, NetInv
    <3>2. i \notin squashed /\ \A n \in DOMAIN net : net[n] \in DOMAIN prog
      BY <1>2, ElementOfSeq DEF Live, Inv0, Typed, MemTyped
    <3>3. \A j \in DOMAIN prog : j # i => status'[j] = status[j]
      BY <1>2, <2>2
    <3>4. status'[i] \notin {"sent", "performed"}
      BY <1>2, <2>2
    <3> QED BY <1>2, <2>2, <3>1, <3>2, <3>3, <3>4 DEF Inv0, Control, NetInv
  <2> QED BY <1>3, <2>1, <2>2
<1>7. BlockedInv'
  <2> SUFFICES ASSUME NEW u \in {"spm", "regular"}, blocked'[u]
               PROVE  (\E j \in NextStore(u) : CanWB(j))'
    BY DEF BlockedInv
  <2>1. blocked[u] /\ Live' \subseteq Nat /\ committed' \in Nat /\ committed <= committed'
    BY <1>2, ProgFacts DEF Inv0, Typed, CoreTyped
  <2>2. Kind(i) \notin Unit(u)
    BY <1>2 DEF Unit, Loads, Bridge, Copies
  <2> QED BY <1>2, <1>4, <2>1, <2>2, BlockedKept DEF Inv0, Control
<1>8. ShadowInv'
  <2>1. Kind(i) \notin Bridge
    BY <1>2 DEF Loads, Bridge, Copies
  <2>2. \A j \in OfKind(Bridge) : status[j] = "done" <=> status'[j] = "done"
    BY <1>4, <2>1 DEF OfKind
  <2>3. CASE Trim
    BY <1>2, <2>2, <2>3, TrimFacts, ShadowKept
  <2>4. CASE Parks(i)
    <3>1. PICK sh \in {shadow, Cleanup(shadow)} :
            shadow' = [j \in DOMAIN sh |->
                         IF j \in Blockers(i)
                         THEN [sh[j] EXCEPT !.waiting = @ \cup {i}] ELSE sh[j]]
      BY <2>4 DEF Parks
    <3>2. /\ DOMAIN sh \subseteq DOMAIN shadow /\ \A j \in DOMAIN sh : sh[j] = shadow[j]
          /\ \A j \in DOMAIN shadow : ~ shadow[j].ready => j \in DOMAIN sh
      BY CleanupFacts
    <3>3. \A j \in DOMAIN sh : sh[j] \in Entry(DOMAIN prog)
      BY <3>2 DEF Inv0, Typed, TablesTyped
    <3>4. \A j \in DOMAIN sh : /\ [sh[j] EXCEPT !.waiting = @ \cup {i}].ready = sh[j].ready
                               /\ [sh[j] EXCEPT !.waiting = @ \cup {i}].retired = sh[j].retired
      BY <3>3 DEF Entry
    <3>5. \A j \in DOMAIN sh : j \in Blockers(i) => ~ sh[j].ready
      BY <3>2 DEF Blockers, Older
    <3>6. DOMAIN shadow' = DOMAIN sh
      BY <3>1
    <3>7. \A j \in DOMAIN sh : IF j \in Blockers(i) THEN shadow'[j] = [sh[j] EXCEPT !.waiting = @ \cup {i}]
                               ELSE shadow'[j] = sh[j]
      BY <3>1
    <3>8. \A j \in DOMAIN shadow' : /\ shadow'[j].ready = shadow[j].ready
                                    /\ shadow'[j].retired = shadow[j].retired
                                    /\ shadow[j].ready => shadow'[j].waiting = shadow[j].waiting
      BY <3>2, <3>4, <3>5, <3>6, <3>7
    <3> QED BY <1>2, <2>2, <3>2, <3>6, <3>8, ShadowKept
  <2> QED BY <1>1, <2>3, <2>4 DEF Stays, Forwards, Sends
<1> QED BY <1>5, <1>6, <1>7, <1>8 DEF Control

LEMMA WriteControl ==
  ASSUME Inv0, NEW u \in {"spm", "regular"}, Writeback(u) \/ WritebackBlocked(u)
  PROVE  Control'
<1>1. PICK i \in NextStore(u) : WriteFrame(u, i)
  BY WriteCases DEF Inv0, Control
<1>2. /\ i \in Live /\ Kind(i) \in Unit(u) /\ status[i] = "executed" /\ i <= committed
      /\ UNCHANGED <<prog, squashed, committed, shadow>>
      /\ Live' = Live /\ \A j : Kind(j)' = Kind(j)
      /\ DOMAIN status = DOMAIN prog /\ Live \subseteq DOMAIN prog
      /\ \A v \in {"spm", "regular"} \ {u} : blocked'[v] = blocked[v]
  BY <1>1 DEF WriteFrame, NextStore, CanWB, OfKind, Live, Kind, Inv0, Typed, CoreTyped
<1>3. Kind(i) \in Stores /\ \A v \in {"spm", "regular"} \ {u} : Kind(i) \notin Unit(v)
  BY <1>2 DEF Unit, Stores, Bridge, Copies
<1>4. CASE UNCHANGED <<status, memVars>>
  <2>1. CommitInv'
    BY <1>2, <1>4 DEF Inv0, Control, CommitInv, Known
  <2>2. NetInv'
    BY <1>2, <1>4 DEF Inv0, Control, NetInv, memVars
  <2>3. ShadowInv'
    BY <1>2, <1>4, ShadowKept
  <2>4. BlockedInv'
    <3> SUFFICES ASSUME NEW v \in {"spm", "regular"}, blocked'[v]
                 PROVE  (\E j \in NextStore(v) : CanWB(j))'
      BY DEF BlockedInv
    <3>1. \E j \in NextStore(v) : CanWB(j)
      <4>1. CASE v = u
        BY <1>1, <4>1 DEF WriteFrame
      <4>2. CASE v # u
        BY <1>2, <4>2 DEF Inv0, Control, BlockedInv
      <4> QED BY <4>1, <4>2
    <3>2. NextStore(v)' = NextStore(v)
      BY <1>2, <1>4 DEF NextStore, OfKind, Unit
    <3>3. \A j : CanWB(j)' = CanWB(j)
      BY <1>2, <1>4 DEF CanWB
    <3> QED BY <3>1, <3>2, <3>3
  <2> QED BY <2>1, <2>2, <2>3, <2>4 DEF Control
<1>5. CASE Send(i) /\ ~ blocked'[u]
  <2>0. status' = [status EXCEPT ![i] = "sent"]
    BY <1>5 DEF Send
  <2>1. CommitInv'
    BY <1>2, <1>3, <2>0 DEF Inv0, Control, CommitInv, Known
  <2>2. NetInv'
    BY <1>2, <1>5, SendNet
  <2>3. ShadowInv'
    <3>1. \A j \in OfKind(Bridge) : status[j] = "done" <=> status'[j] = "done"
      BY <1>2, <2>0 DEF OfKind
    <3> QED BY <1>2, <3>1, ShadowKept
  <2>4. BlockedInv'
    <3> SUFFICES ASSUME NEW v \in {"spm", "regular"}, blocked'[v]
                 PROVE  (\E j \in NextStore(v) : CanWB(j))'
      BY DEF BlockedInv
    <3>1. v # u /\ blocked[v]
      BY <1>2, <1>5
    <3>2. Live' \subseteq Nat /\ committed' \in Nat /\ committed <= committed'
      BY <1>2, ProgFacts DEF Inv0, Typed, CoreTyped
    <3>3. \A j \in Live : Kind(j) \in Unit(v) => status'[j] = status[j]
      BY <1>2, <1>3, <2>0, <3>1
    <3> QED BY <1>2, <3>1, <3>2, <3>3, BlockedKept DEF Inv0, Control
  <2> QED BY <2>1, <2>2, <2>3, <2>4 DEF Control
<1> QED BY <1>1, <1>4, <1>5 DEF WriteFrame

LEMMA PerformControl ==
  ASSUME Inv0, NEW i \in DOMAIN prog, NEW part \in Parts(i), Perform(i, part)
  PROVE  Control'
<1>1. PICK n \in DOMAIN net :
        /\ net[n] = i
        /\ \/ net' = RemoveAt(net, n) /\ status' = [status EXCEPT ![i] = "performed"]
           \/ net' = net /\ status' = status
  BY DEF Perform, RemoveAt
<1>2. /\ UNCHANGED <<prog, squashed, committed, shadow, blocked>>
      /\ Live' = Live /\ \A j : Kind(j)' = Kind(j)
      /\ DOMAIN status = DOMAIN prog /\ Live \subseteq DOMAIN prog /\ squashed \subseteq DOMAIN prog
      /\ status[i] = "sent"
  BY <1>1 DEF Perform, Live, Kind, Inv0, Typed, CoreTyped, Control, NetInv
<1>3. /\ \A j \in DOMAIN prog : j # i => status'[j] = status[j]
      /\ status'[i] \in {"sent", "performed"}
  BY <1>1, <1>2
<1>4. CommitInv'
  BY <1>2, <1>3 DEF Inv0, Control, CommitInv, Known
<1>5. NetInv'
  <2>1. /\ net \in Seq(DOMAIN prog) /\ \A m \in DOMAIN net : net[m] \in DOMAIN prog
        /\ \A a, b \in DOMAIN net : net[a] = net[b] => a = b
    BY ElementOfSeq DEF Inv0, Typed, MemTyped, Control, NetInv
  <2>2. /\ \A m \in DOMAIN net' : status'[net'[m]] = "sent"
        /\ \A a, b \in DOMAIN net' : net'[a] = net'[b] => a = b
    <3>1. CASE net' = net /\ status' = status
      BY <2>1, <3>1 DEF Inv0, Control, NetInv
    <3>2. CASE net' = RemoveAt(net, n)
      <4>1. /\ \A k \in DOMAIN net' : \E m \in DOMAIN net \ {n} : net'[k] = net[m]
            /\ \A a, b \in DOMAIN net' : net'[a] = net'[b] => a = b
        <5>1. /\ \A k \in DOMAIN RemoveAt(net, n) : \E m \in DOMAIN net \ {n} : RemoveAt(net, n)[k] = net[m]
              /\ \A a, b \in DOMAIN RemoveAt(net, n) : RemoveAt(net, n)[a] = RemoveAt(net, n)[b] => a = b
          BY <2>1, RemoveAtFacts
        <5> QED BY <3>2, <5>1
      <4>2. \A m \in DOMAIN net \ {n} : net[m] # i /\ status[net[m]] = "sent"
        BY <1>1, <2>1 DEF Inv0, Control, NetInv
      <4>3. \A m \in DOMAIN net \ {n} : status'[net[m]] = "sent"
        BY <1>3, <2>1, <4>2
      <4> QED BY <4>1, <4>3
    <3> QED BY <1>1, <3>1, <3>2
  <2> QED BY <1>2, <1>3, <2>2 DEF Inv0, Control, NetInv
<1>6. BlockedInv'
  <2> SUFFICES ASSUME NEW u \in {"spm", "regular"}, blocked'[u]
               PROVE  (\E j \in NextStore(u) : CanWB(j))'
    BY DEF BlockedInv
  <2>1. blocked[u] /\ Live' \subseteq Nat /\ committed' \in Nat /\ committed <= committed'
    BY <1>2, ProgFacts DEF Inv0, Typed, CoreTyped
  <2>2. \A j \in Live : status'[j] = status[j]
           \/ (status[j] \notin {"waiting", "executed"} /\ status'[j] \notin {"waiting", "executed"})
    BY <1>2, <1>3
  <2> QED BY <1>2, <2>1, <2>2, BlockedKept DEF Inv0, Control
<1>7. ShadowInv'
  <2>1. \A j \in OfKind(Bridge) : status[j] = "done" <=> status'[j] = "done"
    BY <1>2, <1>3 DEF OfKind
  <2> QED BY <1>2, <2>1, ShadowKept
<1> QED BY <1>4, <1>5, <1>6, <1>7 DEF Control

LEMMA RecvTimingRespControl ==
  ASSUME Inv0, NEW i \in DOMAIN prog, RecvTimingResp(i)
  PROVE  Control'
<1>1. /\ UNCHANGED <<prog, squashed, committed, blocked, net>>
      /\ Live' = Live /\ \A j : Kind(j)' = Kind(j)
      /\ DOMAIN status = DOMAIN prog /\ Live \subseteq DOMAIN prog /\ squashed \subseteq DOMAIN prog
      /\ status[i] = "performed" /\ status' = [status EXCEPT ![i] = "done"]
  BY DEF RecvTimingResp, memVars, Live, Kind, Inv0, Typed, CoreTyped
<1>2. CommitInv'
  BY <1>1 DEF Inv0, Control, CommitInv, Known
<1>3. NetInv'
  <2>1. \A n \in DOMAIN net : net[n] # i /\ net[n] \in DOMAIN prog
    BY <1>1, ElementOfSeq DEF Inv0, Control, NetInv, Typed, MemTyped
  <2> QED BY <1>1, <2>1 DEF Inv0, Control, NetInv
<1>4. BlockedInv'
  <2> SUFFICES ASSUME NEW u \in {"spm", "regular"}, blocked'[u]
               PROVE  (\E j \in NextStore(u) : CanWB(j))'
    BY DEF BlockedInv
  <2>1. blocked[u] /\ Live' \subseteq Nat /\ committed' \in Nat /\ committed <= committed'
    BY <1>1, ProgFacts DEF Inv0, Typed, CoreTyped
  <2>2. \A j \in Live : status'[j] = status[j]
           \/ (status[j] \notin {"waiting", "executed"} /\ status'[j] \notin {"waiting", "executed"})
    BY <1>1
  <2> QED BY <1>1, <2>1, <2>2, BlockedKept DEF Inv0, Control
<1>5. ShadowInv'
  <2>1. CASE Kind(i) \notin Bridge
    <3>1. shadow' = shadow
      BY <2>1 DEF RecvTimingResp
    <3>2. \A j \in OfKind(Bridge) : status[j] = "done" <=> status'[j] = "done"
      BY <1>1, <2>1 DEF OfKind
    <3> QED BY <1>1, <3>1, <3>2, ShadowKept
  <2>2. CASE Kind(i) \in Bridge
    <3>1. \A j \in DOMAIN shadow : shadow[j] \in Entry(DOMAIN prog)
      BY DEF Inv0, Typed, TablesTyped
    <3>2. Wake(i)
      BY <2>2 DEF RecvTimingResp
    <3>3. /\ DOMAIN shadow' \subseteq DOMAIN shadow
          /\ \A j \in DOMAIN shadow : j # i /\ ~ shadow[j].ready => j \in DOMAIN shadow'
          /\ \A j \in DOMAIN shadow' :
                /\ j # i => shadow'[j] = shadow[j]
                /\ j = i => shadow'[j].waiting = {} /\ shadow'[j].retired = shadow[j].retired
      BY <3>1, <3>2, WakeFacts
    <3>4. DOMAIN shadow \subseteq Live
      BY DEF Inv0, Typed, TablesTyped
    <3>5. \A j \in DOMAIN shadow' : /\ Kind(j) \in Bridge
                                    /\ shadow'[j].ready => status'[j] = "done" /\ shadow'[j].waiting = {}
                                    /\ j <= committed => shadow'[j].retired
      BY <1>1, <3>3, <3>4 DEF Inv0, Control, ShadowInv
    <3>6. \A j \in Live : Kind(j) \in Bridge /\ status'[j] # "done" => j \in DOMAIN shadow'
      BY <1>1, <3>3 DEF Inv0, Control, ShadowInv, OfKind
    <3> QED BY <1>1, <3>5, <3>6 DEF ShadowInv, OfKind
  <2> QED BY <2>1, <2>2
<1> QED BY <1>2, <1>3, <1>4, <1>5 DEF Control

LEMMA ExecuteFenceControl ==
  ASSUME Inv0, NEW i \in DOMAIN prog, ExecuteFence(i)
  PROVE  Control'
<1>1. /\ UNCHANGED <<prog, squashed, committed, blocked, net, shadow>>
      /\ Live' = Live /\ \A j : Kind(j)' = Kind(j)
      /\ DOMAIN status = DOMAIN prog /\ Live \subseteq DOMAIN prog /\ squashed \subseteq DOMAIN prog
      /\ Kind(i) = "dsb" /\ status[i] = "waiting" /\ status' = [status EXCEPT ![i] = "done"]
  BY DEF ExecuteFence, memVars, Live, Kind, Inv0, Typed, CoreTyped
<1>2. CommitInv'
  BY <1>1 DEF Inv0, Control, CommitInv, Known
<1>3. NetInv'
  <2>1. \A n \in DOMAIN net : net[n] # i /\ net[n] \in DOMAIN prog
    BY <1>1, ElementOfSeq DEF Inv0, Control, NetInv, Typed, MemTyped
  <2> QED BY <1>1, <2>1 DEF Inv0, Control, NetInv
<1>4. BlockedInv'
  <2> SUFFICES ASSUME NEW u \in {"spm", "regular"}, blocked'[u]
               PROVE  (\E j \in NextStore(u) : CanWB(j))'
    BY DEF BlockedInv
  <2>1. blocked[u] /\ Live' \subseteq Nat /\ committed' \in Nat /\ committed <= committed'
    BY <1>1, ProgFacts DEF Inv0, Typed, CoreTyped
  <2>2. \A j \in Live : Kind(j) \in Unit(u) => status'[j] = status[j]
    BY <1>1 DEF Unit, Bridge, Copies
  <2> QED BY <1>1, <2>1, <2>2, BlockedKept DEF Inv0, Control
<1>5. ShadowInv'
  <2>1. \A j \in OfKind(Bridge) : status[j] = "done" <=> status'[j] = "done"
    BY <1>1 DEF OfKind, Bridge, Copies
  <2> QED BY <1>1, <2>1, ShadowKept
<1> QED BY <1>2, <1>3, <1>4, <1>5 DEF Control

\* Commit advances to the oldest live instruction, so nothing between the
\* old and the new head is skipped.
LEMMA CommitControl ==
  ASSUME Inv0, NEW i \in DOMAIN prog, Commit(i)
  PROVE  Control'
<1>1. /\ UNCHANGED <<prog, squashed, blocked, net, status>>
      /\ Live' = Live /\ \A j : Kind(j)' = Kind(j)
      /\ i \in Live /\ i > committed /\ committed' = i
      /\ \A j \in Live : j > committed => i <= j
      /\ IF Kind(i) \in Stores THEN Known(i) ELSE status[i] = "done"
  BY DEF Commit, AtHead, iqVars, memVars, Live, Kind
<1>2. /\ committed \in Nat /\ i \in Nat
      /\ \A j \in Live : j \in Nat /\ (j <= i <=> j <= committed \/ j = i)
  <2>1. committed \in Nat /\ i \in Nat /\ \A j \in Live : j \in Nat
    BY <1>1, ProgFacts DEF Inv0, Typed, CoreTyped
  <2> QED BY <1>1, <2>1
<1>3. CommitInv'
  BY <1>1, <1>2 DEF Inv0, Control, CommitInv, Known
<1>4. NetInv'
  BY <1>1, <1>2 DEF Inv0, Control, NetInv
<1>5. BlockedInv'
  <2> SUFFICES ASSUME NEW u \in {"spm", "regular"}, blocked'[u]
               PROVE  (\E j \in NextStore(u) : CanWB(j))'
    BY DEF BlockedInv
  <2>1. blocked[u] /\ Live' \subseteq Nat /\ committed' \in Nat /\ committed <= committed'
    BY <1>1, <1>2
  <2> QED BY <1>1, <2>1, BlockedKept DEF Inv0, Control
<1>6. ShadowInv'
  <2>1. \A j \in DOMAIN shadow : shadow[j] \in Entry(DOMAIN prog) /\ j \in Live
    BY DEF Inv0, Typed, TablesTyped
  <2>2. \A j \in DOMAIN shadow :
          /\ [shadow[j] EXCEPT !.retired = TRUE].retired
          /\ [shadow[j] EXCEPT !.retired = TRUE].ready = shadow[j].ready
          /\ [shadow[j] EXCEPT !.retired = TRUE].waiting = shadow[j].waiting
    BY <2>1 DEF Entry
  <2>3. DOMAIN shadow' = DOMAIN shadow
    BY DEF Commit
  <2>4. \A j \in DOMAIN shadow : IF j <= i THEN shadow'[j] = [shadow[j] EXCEPT !.retired = TRUE]
                                 ELSE shadow'[j] = shadow[j]
    BY DEF Commit
  <2>5. \A j \in DOMAIN shadow : /\ shadow'[j].ready = shadow[j].ready
                                 /\ shadow'[j].waiting = shadow[j].waiting
                                 /\ j <= i => shadow'[j].retired
    BY <2>2, <2>4
  <2> QED BY <1>1, <2>3, <2>5 DEF Inv0, Control, ShadowInv, OfKind
<1> QED BY <1>3, <1>4, <1>5, <1>6 DEF Control

LEMMA SquashControl ==
  ASSUME Inv0, NEW k \in 0 .. Len(prog), Squash(k)
  PROVE  Control'
<1>1. /\ UNCHANGED <<prog, committed, blocked, net>> /\ \A j : Kind(j)' = Kind(j)
      /\ Live' = {i \in Live : i <= k} /\ squashed' = squashed \cup {i \in Live : i > k}
      /\ \A i \in Live : i \in Nat /\ i \in DOMAIN prog
      /\ committed \in Nat /\ k \in Nat /\ committed <= k /\ squashed \subseteq DOMAIN prog
      /\ \A i \in squashed : i \notin Live
  <2>1. UNCHANGED <<prog, committed, blocked, net>> /\ \A j : Kind(j)' = Kind(j)
    BY DEF Squash, memVars, Kind
  <2>2. squashed' = squashed \cup {i \in Live : i > k} /\ committed <= k
    BY DEF Squash
  <2>3. /\ \A i \in Live : i \in Nat /\ i \in DOMAIN prog
        /\ committed \in Nat /\ k \in Nat /\ squashed \subseteq DOMAIN prog
        /\ \A i \in squashed : i \notin Live
    BY ProgFacts DEF Inv0, Typed, CoreTyped, Live
  <2>4. Live' = {i \in Live : i <= k}
    BY <2>1, <2>2, <2>3 DEF Live
  <2> QED BY <2>1, <2>2, <2>3, <2>4
<1>2. /\ \A i \in DOMAIN prog : ~ (i \in Live /\ i > k) => status'[i] = status[i]
      /\ \A i \in Live : i > k => status'[i] = IF status[i] \in {"sent", "performed"} THEN status[i] ELSE "done"
  BY <1>1 DEF Squash, Inv0, Typed, CoreTyped
<1>3. \A i \in Live' : status'[i] = status[i]
  BY <1>1, <1>2
<1>4. CommitInv'
  BY <1>1, <1>3 DEF Inv0, Control, CommitInv, Known
<1>5. NetInv'
  <2>1. \A n \in DOMAIN net : net[n] \in DOMAIN prog
    BY ElementOfSeq DEF Inv0, Typed, MemTyped
  <2>2. \A n \in DOMAIN net : status'[net[n]] = "sent"
    BY <1>1, <1>2, <2>1 DEF Inv0, Control, NetInv
  <2>3. \A i \in squashed' : Kind(i) \notin Loads => status'[i] = "done"
    <3> TAKE i \in squashed'
    <3>1. CASE i \in squashed
      BY <1>1, <1>2, <3>1 DEF Inv0, Control, NetInv
    <3>2. CASE i \notin squashed
      BY <1>1, <1>2, <3>2 DEF Inv0, Control, NetInv
    <3> QED BY <3>1, <3>2
  <2>4. \A i \in Live' : status'[i] \in {"sent", "performed"} => Kind(i) \in Loads \/ i <= committed
    BY <1>1, <1>3 DEF Inv0, Control, NetInv
  <2> QED BY <1>1, <2>2, <2>3, <2>4 DEF Inv0, Control, NetInv
<1>6. BlockedInv'
  <2> SUFFICES ASSUME NEW u \in {"spm", "regular"}, blocked'[u]
               PROVE  (\E j \in NextStore(u) : CanWB(j))'
    BY DEF BlockedInv
  <2>1. blocked[u] /\ Live' \subseteq Nat /\ committed' \in Nat /\ committed <= committed'
    BY <1>1
  <2>2. \A i \in Live : i <= committed => i \in Live'
    BY <1>1
  <2> QED BY <1>1, <1>3, <2>1, <2>2, BlockedKept DEF Inv0, Control
<1>7. ShadowInv'
  <2>1. /\ DOMAIN shadow' = {j \in DOMAIN shadow : j <= k}
        /\ \A j \in DOMAIN shadow' : shadow'[j] = shadow[j]
    BY DEF Squash, Restrict
  <2>2. DOMAIN shadow \subseteq Live
    BY DEF Inv0, Typed, TablesTyped
  <2> QED BY <1>1, <1>3, <2>1, <2>2 DEF Inv0, Control, ShadowInv, OfKind
<1> QED BY <1>4, <1>5, <1>6, <1>7 DEF Control

LEMMA ControlStep == ASSUME Inv0, [Next]_vars PROVE Control'
<1>1. CASE \E u \in DOMAIN blocked : Writeback(u) \/ WritebackBlocked(u)
  <2>1. DOMAIN blocked = {"spm", "regular"}
    BY DEF Inv0, Typed, CoreTyped
  <2> QED BY <1>1, <2>1, WriteControl
<1>2. CASE UNCHANGED vars
  <2>1. UNCHANGED <<prog, squashed, committed, blocked, net, shadow, status>>
    BY <1>2 DEF vars, iqVars, memVars
  <2>2. Live' = Live /\ (\A j : Kind(j)' = Kind(j)) /\ (\A j : CanWB(j)' = CanWB(j))
    BY <2>1 DEF Live, Kind, CanWB
  <2>3. \A u : NextStore(u)' = NextStore(u)
    BY <2>1, <2>2 DEF NextStore, OfKind, Unit
  <2> QED BY <2>1, <2>2, <2>3 DEF Inv0, Control, CommitInv, NetInv, BlockedInv, ShadowInv, OfKind, Known
<1> QED BY <1>1, <1>2, DispatchControl, ExecuteStoreControl, ReadControl, PerformControl,
           RecvTimingRespControl, ExecuteFenceControl, CommitControl, SquashControl DEF Next

-----------------------------------------------------------------------------
(* Parked and pending loads, action by action. *)
Inv1 == Typed /\ Control /\ Waits

LEMMA Inv1Implies == ASSUME Inv1 PROVE Inv0
BY DEF Inv1, Inv0, Waits

\* The lists of the entries that are not ready are kept, and a load keeps
\* its place unless it is issued from the instruction queue for good.
LEMMA WaitsKept ==
  ASSUME Inv1, UNCHANGED <<prog, squashed>>,
         DOMAIN shadow' \subseteq DOMAIN shadow,
         \A j \in DOMAIN shadow : ~ shadow[j].ready => j \in DOMAIN shadow',
         \A j \in DOMAIN shadow' : shadow'[j].waiting = shadow[j].waiting,
         \A j \in DOMAIN shadow' : ~ shadow[j].ready => ~ shadow'[j].ready,
         \A w \in OfKind(Loads) :
            \/ iq'[w] = iq[w] /\ (status'[w] = "waiting" <=> status[w] = "waiting")
            \/ iq[w] > 0 /\ iq'[w] = 0 /\ status'[w] # "waiting"
  PROVE  WaitInv' /\ Replays'
<1>1. Live' = Live /\ (\A j : Kind(j)' = Kind(j)) /\ OfKind(Loads)' = OfKind(Loads)
  BY DEF Live, Kind, OfKind
<1>2. WaitInv'
  <2> SUFFICES ASSUME NEW j \in DOMAIN shadow', NEW w \in shadow'[j].waiting
               PROVE  j < w /\ (w \in Live => Kind(w) \in Loads /\ status'[w] = "waiting" /\ iq'[w] = 0)
    BY <1>1 DEF WaitInv
  <2>1. j < w /\ (w \in Live => Kind(w) \in Loads /\ status[w] = "waiting" /\ iq[w] = 0)
    BY DEF Inv1, Waits, WaitInv
  <2> QED BY <2>1 DEF OfKind
<1>3. WakeOnce'
  <2> SUFFICES ASSUME NEW w \in OfKind(Loads)
               PROVE  iq'[w] <= IF status'[w] = "waiting" THEN 1 ELSE 0
    BY <1>1 DEF WakeOnce
  <2>1. iq[w] <= IF status[w] = "waiting" THEN 1 ELSE 0
    BY DEF Inv1, Waits, Replays, WakeOnce
  <2> QED BY <2>1
<1>4. ParkedIsListed'
  <2> SUFFICES ASSUME NEW w \in OfKind(Loads), status'[w] = "waiting", iq'[w] = 0
               PROVE  \E j \in DOMAIN shadow' : j < w /\ ~ shadow'[j].ready /\ w \in shadow'[j].waiting
    BY <1>1 DEF ParkedIsListed, Older
  <2>1. status[w] = "waiting" /\ iq[w] = 0
    OBVIOUS
  <2>2. PICK j \in DOMAIN shadow : j < w /\ ~ shadow[j].ready /\ w \in shadow[j].waiting
    BY <2>1 DEF Inv1, Waits, Replays, ParkedIsListed, Older
  <2> QED BY <2>2
<1> QED BY <1>2, <1>3, <1>4 DEF Replays

LEMMA DispatchWaits ==
  ASSUME Inv1, NEW o \in Ops, Dispatch(o)
  PROVE  Waits'
<1>0. PICK n \in Nat : n = Len(prog) + 1
  BY ProgFacts DEF Inv1
<1>1. /\ n \in Nat /\ \A i \in DOMAIN prog : i < n /\ i \in Nat
      /\ DOMAIN prog' = DOMAIN prog \cup {n} /\ prog'[n] = o
      /\ \A i \in DOMAIN prog : prog'[i] = prog[i]
      /\ committed' = committed /\ squashed' = squashed /\ pending' = pending
      /\ n \notin DOMAIN prog
  BY <1>0, ProgFacts, AppendProperties DEF Dispatch, Inv1, Typed, CoreTyped
<1>2. /\ Live' = Live \cup {n} /\ Live \subseteq DOMAIN prog /\ n \notin Live
      /\ \A i \in DOMAIN prog : Kind(i)' = Kind(i)
      /\ Kind(n)' = o.kind /\ pending \subseteq Live /\ DOMAIN shadow \subseteq Live
      /\ \A j \in DOMAIN shadow : shadow[j].waiting \subseteq DOMAIN prog
  BY <1>1 DEF Live, Kind, Inv1, Typed, CoreTyped, TablesTyped, Entry
<1>3. /\ \A i \in DOMAIN prog : status'[i] = status[i] /\ iq'[i] = iq[i]
      /\ status'[n] = "waiting" /\ iq'[n] = 1
  <2>1. status' = Append(status, "waiting") /\ "waiting" \in Statuses /\ iq' = Append(iq, 1)
    BY DEF Dispatch, Statuses
  <2>2. /\ status \in [1 .. Len(prog) -> Statuses] /\ DOMAIN prog = 1 .. Len(prog)
        /\ Len(prog) \in Nat /\ iq \in [1 .. Len(prog) -> Nat]
    BY ProgFacts DEF Inv1, Typed, CoreTyped
  <2> QED BY <1>0, <2>1, <2>2, AppendFunction
<1>4. PendingInv'
  BY <1>1, <1>2, <1>3 DEF Inv1, Waits, PendingInv
<1>5. /\ DOMAIN shadow' \subseteq DOMAIN shadow \cup {n}
      /\ n \in DOMAIN shadow' => shadow'[n].waiting = {}
      /\ \A j \in DOMAIN shadow' : j # n => j \in DOMAIN shadow /\ shadow'[j] = shadow[j]
      /\ \A j \in DOMAIN shadow : ~ shadow[j].ready => j \in DOMAIN shadow'
  <2>2. CASE o.kind \in Bridge
    <3>1. shadow' = Reserve(Cleanup(shadow), n)
      BY <1>0, <2>2 DEF Dispatch
    <3> QED BY <1>1, <1>2, <2>2, <3>1, CleanupFacts DEF Reserve
  <2>3. CASE o.kind \notin Bridge
    BY <1>1, <1>2, <2>3 DEF Dispatch
  <2> QED BY <2>2, <2>3
<1>6. WaitInv'
  <2> SUFFICES ASSUME NEW j \in DOMAIN shadow', NEW w \in shadow'[j].waiting
               PROVE  j < w /\ (w \in Live' => Kind(w)' \in Loads /\ status'[w] = "waiting" /\ iq'[w] = 0)
    BY DEF WaitInv
  <2>1. j # n /\ j \in DOMAIN shadow /\ w \in shadow[j].waiting /\ w # n /\ w \in DOMAIN prog
    BY <1>1, <1>2, <1>5
  <2>2. j < w /\ (w \in Live => Kind(w) \in Loads /\ status[w] = "waiting" /\ iq[w] = 0)
    BY <2>1 DEF Inv1, Waits, WaitInv
  <2> QED BY <1>2, <1>3, <2>1, <2>2
<1>7. WakeOnce'
  <2> SUFFICES ASSUME NEW w \in Live', Kind(w)' \in Loads
               PROVE  iq'[w] <= IF status'[w] = "waiting" THEN 1 ELSE 0
    BY DEF WakeOnce, OfKind
  <2> QED BY <1>2, <1>3 DEF Inv1, Waits, Replays, WakeOnce, OfKind
<1>8. ParkedIsListed'
  <2> SUFFICES ASSUME NEW w \in Live', Kind(w)' \in Loads, status'[w] = "waiting", iq'[w] = 0
               PROVE  \E j \in DOMAIN shadow' : j < w /\ ~ shadow'[j].ready /\ w \in shadow'[j].waiting
    BY DEF ParkedIsListed, Older, OfKind
  <2>1. w # n /\ w \in Live /\ Kind(w) \in Loads /\ status[w] = "waiting" /\ iq[w] = 0
    BY <1>2, <1>3
  <2>2. PICK j \in DOMAIN shadow : j < w /\ ~ shadow[j].ready /\ w \in shadow[j].waiting
    BY <2>1 DEF Inv1, Waits, Replays, ParkedIsListed, Older, OfKind
  <2> QED BY <1>2, <1>5, <2>2
<1> QED BY <1>4, <1>6, <1>7, <1>8 DEF Waits, Replays

LEMMA ExecuteStoreWaits ==
  ASSUME Inv1, NEW i \in DOMAIN prog, ExecuteStore(i)
  PROVE  Waits'
<1>1. /\ i \in Live /\ Kind(i) \in Stores /\ DOMAIN iq = DOMAIN prog /\ DOMAIN status = DOMAIN prog
      /\ UNCHANGED <<prog, squashed, committed, pending>> /\ pending \subseteq Live /\ Live \subseteq DOMAIN prog
      /\ status' = [status EXCEPT ![i] = "executed"] /\ iq' = [iq EXCEPT ![i] = 0]
      /\ \A j : Kind(j)' = Kind(j)
  BY DEF ExecuteStore, OfKind, Live, Inv1, Typed, CoreTyped, TablesTyped, Kind
<1>2. \A w \in OfKind(Loads) : iq'[w] = iq[w] /\ status'[w] = status[w]
  BY <1>1 DEF OfKind, Loads, Stores, Bridge, Copies
<1>3. PendingInv'
  BY <1>1 DEF Inv1, Waits, PendingInv
<1>4. /\ DOMAIN shadow' \subseteq DOMAIN shadow
      /\ \A j \in DOMAIN shadow : ~ shadow[j].ready => j \in DOMAIN shadow'
      /\ \A j \in DOMAIN shadow' : shadow'[j].waiting = shadow[j].waiting
      /\ \A j \in DOMAIN shadow' : ~ shadow[j].ready => ~ shadow'[j].ready
  <2>1. \A j \in DOMAIN shadow : shadow[j] \in Entry(DOMAIN prog)
    BY DEF Inv1, Typed, TablesTyped
  <2>2. CASE Kind(i) \in Bridge
    <3>1. shadow' = Resolved(i)
      BY <2>2 DEF ExecuteStore, Resolved
    <3> QED BY <2>1, <3>1, ResolvedFacts
  <2>3. CASE Kind(i) \notin Bridge
    BY <2>3 DEF ExecuteStore
  <2> QED BY <2>2, <2>3
<1>5. WaitInv' /\ Replays'
  BY <1>1, <1>2, <1>4, WaitsKept
<1> QED BY <1>3, <1>5 DEF Waits

LEMMA ReadWaits ==
  ASSUME Inv1, NEW i \in DOMAIN prog, ReadSpm(i) \/ ReadRegular(i)
  PROVE  Waits'
<1>1. ReadFrame(i) /\ (Parks(i) \/ Stays \/ Forwards(i) \/ Sends(i))
  BY ReadCases DEF Inv1, Waits
<1>2. /\ i \in Live /\ Kind(i) \in Loads /\ status[i] = "waiting" /\ iq[i] > 0
      /\ UNCHANGED <<prog, squashed, committed>> /\ Live' = Live /\ \A j : Kind(j)' = Kind(j)
      /\ DOMAIN status = DOMAIN prog /\ DOMAIN iq = DOMAIN prog /\ Live \subseteq DOMAIN prog
      /\ pending \subseteq Live
      /\ pending' \subseteq pending \cup (IF Kind(i) = "spmld" THEN {i} ELSE {})
  BY <1>1 DEF ReadFrame, OfKind, Live, Kind, Inv1, Typed, CoreTyped, TablesTyped
<1>3. iq[i] = 1
  BY <1>2 DEF Inv1, Waits, Replays, WakeOnce, OfKind, Typed, CoreTyped
<1>4. i > committed
  <2>1. ~ (i <= committed)
    BY <1>2 DEF Inv1, Control, CommitInv, Stores, Bridge, Copies, Loads, Known
  <2> QED BY <2>1, ProgFacts DEF Inv1, Typed, CoreTyped
<1>5. \/ status' = status
      \/ status' = [status EXCEPT ![i] = "done"] /\ i \notin pending'
      \/ status' = [status EXCEPT ![i] = "sent"]
  BY <1>1 DEF Parks, Stays, Forwards, Sends, Send
<1>6. PendingInv'
  <2> SUFFICES ASSUME NEW j \in pending'
               PROVE  Kind(j) = "spmld" /\ j > committed /\ status'[j] # "done"
    BY <1>2 DEF PendingInv
  <2>1. CASE j = i
    BY <1>2, <1>4, <1>5, <2>1 DEF Inv1, Waits, PendingInv
  <2>2. CASE j # i
    BY <1>2, <1>5, <2>2 DEF Inv1, Waits, PendingInv
  <2> QED BY <2>1, <2>2
<1>7. CASE Stays \/ Forwards(i) \/ Sends(i)
  <2>1. Trim
    BY <1>7 DEF Stays, Forwards, Sends
  <2>2. \A w \in OfKind(Loads) :
            \/ iq'[w] = iq[w] /\ (status'[w] = "waiting" <=> status[w] = "waiting")
            \/ iq[w] > 0 /\ iq'[w] = 0 /\ status'[w] # "waiting"
    <3> TAKE w \in OfKind(Loads)
    <3>1. CASE Stays
      BY <3>1 DEF Stays
    <3>2. CASE Forwards(i) \/ Sends(i)
      BY <1>2, <1>3, <3>2 DEF Forwards, Sends, Send, OfKind
    <3> QED BY <1>7, <3>1, <3>2
  <2>3. WaitInv' /\ Replays'
    BY <1>2, <2>1, <2>2, TrimFacts, WaitsKept
  <2> QED BY <1>6, <2>3 DEF Waits
<1>8. CASE Parks(i)
  <2>0. status' = status /\ iq' = [iq EXCEPT ![i] = 0]
    BY <1>3, <1>8 DEF Parks
  <2>1. PICK sh \in {shadow, Cleanup(shadow)} :
          shadow' = [j \in DOMAIN sh |->
                       IF j \in Blockers(i)
                       THEN [sh[j] EXCEPT !.waiting = @ \cup {i}] ELSE sh[j]]
    BY <1>8 DEF Parks
  <2>2. /\ DOMAIN sh \subseteq DOMAIN shadow /\ \A j \in DOMAIN sh : sh[j] = shadow[j]
        /\ \A j \in DOMAIN shadow : ~ shadow[j].ready => j \in DOMAIN sh
    BY CleanupFacts
  <2>3. \A j \in DOMAIN sh : sh[j] \in Entry(DOMAIN prog)
    BY <2>2 DEF Inv1, Typed, TablesTyped
  <2>4. \A j \in DOMAIN sh : /\ [sh[j] EXCEPT !.waiting = @ \cup {i}].ready = sh[j].ready
                             /\ [sh[j] EXCEPT !.waiting = @ \cup {i}].waiting = sh[j].waiting \cup {i}
    BY <2>3 DEF Entry
  <2>5. \A j \in Blockers(i) : j < i /\ j \in DOMAIN shadow /\ ~ shadow[j].ready
    BY DEF Blockers, Older
  <2>6. DOMAIN shadow' = DOMAIN sh
    BY <2>1
  <2>7. \A j \in DOMAIN sh : IF j \in Blockers(i) THEN shadow'[j] = [sh[j] EXCEPT !.waiting = @ \cup {i}]
                             ELSE shadow'[j] = sh[j]
    BY <2>1
  <2>8. \A j \in DOMAIN shadow' :
          /\ shadow'[j].ready = shadow[j].ready
          /\ shadow'[j].waiting = IF j \in Blockers(i) THEN shadow[j].waiting \cup {i} ELSE shadow[j].waiting
    BY <2>2, <2>4, <2>6, <2>7
  <2>9. WaitInv'
    <3> SUFFICES ASSUME NEW j \in DOMAIN shadow', NEW w \in shadow'[j].waiting
                 PROVE  j < w /\ (w \in Live => Kind(w) \in Loads /\ status'[w] = "waiting" /\ iq'[w] = 0)
      BY <1>2 DEF WaitInv
    <3>1. CASE w \in shadow[j].waiting
      <4>1. j < w /\ (w \in Live => Kind(w) \in Loads /\ status[w] = "waiting" /\ iq[w] = 0)
        BY <2>2, <2>6, <3>1 DEF Inv1, Waits, WaitInv
      <4> QED BY <1>2, <1>3, <2>0, <4>1
    <3>2. CASE w = i /\ j \in Blockers(i)
      BY <1>2, <2>0, <2>5, <3>2
    <3> QED BY <2>8, <3>1, <3>2
  <2>10. WakeOnce'
    <3> SUFFICES ASSUME NEW w \in Live, Kind(w) \in Loads
                 PROVE  iq'[w] <= IF status'[w] = "waiting" THEN 1 ELSE 0
      BY <1>2 DEF WakeOnce, OfKind
    <3> QED BY <1>2, <2>0 DEF Inv1, Waits, Replays, WakeOnce, OfKind
  <2>11. ParkedIsListed'
    <3> SUFFICES ASSUME NEW w \in Live, Kind(w) \in Loads, status'[w] = "waiting", iq'[w] = 0
                 PROVE  \E j \in DOMAIN shadow' : j < w /\ ~ shadow'[j].ready /\ w \in shadow'[j].waiting
      BY <1>2 DEF ParkedIsListed, Older, OfKind
    <3>1. CASE w = i
      <4>1. PICK j \in Blockers(i) : TRUE
        BY <1>8 DEF Parks
      <4>2. j \in DOMAIN shadow'
        BY <2>2, <2>5, <2>6, <4>1
      <4> QED BY <2>5, <2>8, <3>1, <4>1, <4>2
    <3>2. CASE w # i
      <4>1. PICK j \in DOMAIN shadow : j < w /\ ~ shadow[j].ready /\ w \in shadow[j].waiting
        BY <1>2, <2>0, <3>2 DEF Inv1, Waits, Replays, ParkedIsListed, Older, OfKind
      <4>2. j \in DOMAIN shadow'
        BY <2>2, <2>6, <4>1
      <4> QED BY <2>8, <4>1, <4>2
    <3> QED BY <3>1, <3>2
  <2> QED BY <1>6, <2>9, <2>10, <2>11 DEF Waits, Replays
<1> QED BY <1>1, <1>7, <1>8

LEMMA WriteWaits ==
  ASSUME Inv1, NEW u \in {"spm", "regular"}, Writeback(u) \/ WritebackBlocked(u)
  PROVE  Waits'
<1>1. PICK i \in NextStore(u) : WriteFrame(u, i)
  BY WriteCases DEF Inv1, Control
<1>2. /\ i \in Live /\ Kind(i) \in Unit(u)
      /\ UNCHANGED <<prog, squashed, committed, shadow, pending, iq>> /\ \A j : Kind(j)' = Kind(j)
      /\ status' = status \/ status' = [status EXCEPT ![i] = "sent"]
      /\ DOMAIN status = DOMAIN prog /\ Live \subseteq DOMAIN prog /\ pending \subseteq Live
  BY <1>1 DEF WriteFrame, NextStore, OfKind, Live, Kind, Send, Inv1, Typed, CoreTyped, TablesTyped
<1>3. Kind(i) \notin Loads
  BY <1>2 DEF Unit, Bridge, Copies, Loads
<1>4. \A w \in OfKind(Loads) : status'[w] = status[w]
  BY <1>2, <1>3 DEF OfKind
<1>5. PendingInv'
  BY <1>2, <1>3 DEF Inv1, Waits, PendingInv, Loads
<1>6. WaitInv' /\ Replays'
  BY <1>2, <1>4, WaitsKept
<1> QED BY <1>5, <1>6 DEF Waits

LEMMA PerformWaits ==
  ASSUME Inv1, NEW i \in DOMAIN prog, NEW part \in Parts(i), Perform(i, part)
  PROVE  Waits'
<1>1. PICK n \in DOMAIN net :
        net[n] = i /\ (status' = [status EXCEPT ![i] = "performed"] \/ status' = status)
  BY DEF Perform
<1>2. /\ UNCHANGED <<prog, squashed, committed, shadow, pending, iq>> /\ \A j : Kind(j)' = Kind(j)
      /\ DOMAIN status = DOMAIN prog /\ Live \subseteq DOMAIN prog /\ pending \subseteq Live
      /\ status[i] = "sent"
  BY <1>1 DEF Perform, Live, Kind, Inv1, Typed, CoreTyped, TablesTyped, Control, NetInv
<1>3. \A w \in OfKind(Loads) : status'[w] = "waiting" <=> status[w] = "waiting"
  BY <1>1, <1>2 DEF OfKind
<1>4. PendingInv'
  BY <1>1, <1>2 DEF Inv1, Waits, PendingInv
<1>5. WaitInv' /\ Replays'
  BY <1>2, <1>3, WaitsKept
<1> QED BY <1>4, <1>5 DEF Waits

\* The last answer a parked load waits for puts it back, once.
LEMMA RecvTimingRespWaits ==
  ASSUME Inv1, NEW i \in DOMAIN prog, RecvTimingResp(i)
  PROVE  Waits'
<1>1. /\ UNCHANGED <<prog, squashed, committed>> /\ Live' = Live /\ \A j : Kind(j)' = Kind(j)
      /\ DOMAIN status = DOMAIN prog /\ Live \subseteq DOMAIN prog /\ pending \subseteq Live
      /\ status[i] = "performed" /\ status' = [status EXCEPT ![i] = "done"]
      /\ pending' = pending \ {i} /\ DOMAIN iq = DOMAIN prog
  BY DEF RecvTimingResp, Live, Kind, Inv1, Typed, CoreTyped, TablesTyped
<1>2. PendingInv'
  BY <1>1 DEF Inv1, Waits, PendingInv
<1>3. \A w \in OfKind(Loads) : status'[w] = "waiting" <=> status[w] = "waiting"
  BY <1>1 DEF OfKind
<1>4. CASE Kind(i) \notin Bridge
  <2>1. iq' = iq /\ shadow' = shadow
    BY <1>4 DEF RecvTimingResp
  <2>2. WaitInv' /\ Replays'
    BY <1>1, <1>3, <2>1, WaitsKept
  <2> QED BY <1>2, <2>2 DEF Waits
<1>5. CASE Kind(i) \in Bridge
  <2>1. \A j \in DOMAIN shadow : shadow[j] \in Entry(DOMAIN prog)
    BY DEF Inv1, Typed, TablesTyped
  <2>2. Wake(i)
    BY <1>5 DEF RecvTimingResp
  <2>3. /\ DOMAIN shadow' \subseteq DOMAIN shadow
        /\ \A j \in DOMAIN shadow : j # i /\ ~ shadow[j].ready => j \in DOMAIN shadow'
        /\ \A j \in DOMAIN shadow' : /\ j # i => shadow'[j] = shadow[j]
                                     /\ j = i => shadow'[j].waiting = {}
    BY <2>1, <2>2, WakeFacts
  <2>4. \A w \in DOMAIN prog :
          iq'[w] = IF w \in shadow[i].waiting \cap Live /\ ~ StillWaiting(w, i) THEN iq[w] + 1 ELSE iq[w]
    BY <1>1, <2>2 DEF Wake
  <2>5. i \in DOMAIN shadow /\ ~ shadow[i].ready
    BY <1>1, <1>5, AnswerFinds DEF Inv1, Control
  <2>6. \A j \in DOMAIN shadow : \A w \in shadow[j].waiting :
          ~ shadow[j].ready /\ j < w /\ (w \in Live => Kind(w) \in Loads /\ status[w] = "waiting" /\ iq[w] = 0)
    BY DEF Inv1, Control, ShadowInv, Waits, WaitInv
  <2>7. \A w : StillWaiting(w, i) <=> \E j \in DOMAIN shadow \ {i} : w \in shadow[j].waiting
    BY <2>6 DEF StillWaiting
  <2>8. WaitInv'
    <3> SUFFICES ASSUME NEW j \in DOMAIN shadow', NEW w \in shadow'[j].waiting
                 PROVE  j < w /\ (w \in Live => Kind(w) \in Loads /\ status'[w] = "waiting" /\ iq'[w] = 0)
      BY <1>1 DEF WaitInv
    <3>1. j # i /\ j \in DOMAIN shadow /\ w \in shadow[j].waiting
      BY <2>3
    <3>2. StillWaiting(w, i)
      BY <2>7, <3>1
    <3> QED BY <1>1, <2>4, <2>6, <3>1, <3>2
  <2>9. WakeOnce'
    <3> SUFFICES ASSUME NEW w \in Live, Kind(w) \in Loads
                 PROVE  iq'[w] <= IF status'[w] = "waiting" THEN 1 ELSE 0
      BY <1>1 DEF WakeOnce, OfKind
    <3>1. iq[w] <= IF status[w] = "waiting" THEN 1 ELSE 0
      BY DEF Inv1, Waits, Replays, WakeOnce, OfKind
    <3>2. status'[w] = "waiting" <=> status[w] = "waiting"
      BY <1>3 DEF OfKind
    <3>3. CASE w \in shadow[i].waiting
      <4>1. status[w] = "waiting" /\ iq[w] = 0
        BY <2>5, <2>6, <3>3
      <4> QED BY <1>1, <2>4, <3>2, <4>1
    <3>4. CASE w \notin shadow[i].waiting
      BY <1>1, <2>4, <3>1, <3>2, <3>4
    <3> QED BY <3>3, <3>4
  <2>10. ParkedIsListed'
    <3> SUFFICES ASSUME NEW w \in Live, Kind(w) \in Loads, status'[w] = "waiting", iq'[w] = 0
                 PROVE  \E j \in DOMAIN shadow' : j < w /\ ~ shadow'[j].ready /\ w \in shadow'[j].waiting
      BY <1>1 DEF ParkedIsListed, Older, OfKind
    <3>1. status[w] = "waiting" /\ iq[w] \in Nat
      BY <1>1, <1>3 DEF OfKind, Inv1, Typed, CoreTyped
    <3>2. iq[w] = 0
      BY <1>1, <2>4, <3>1
    <3>3. PICK j \in DOMAIN shadow : j < w /\ ~ shadow[j].ready /\ w \in shadow[j].waiting
      BY <3>1, <3>2 DEF Inv1, Waits, Replays, ParkedIsListed, Older, OfKind
    <3>4. \E l \in DOMAIN shadow \ {i} : w \in shadow[l].waiting
      <4>1. CASE j # i
        BY <3>3, <4>1
      <4>2. CASE j = i
        <5>1. StillWaiting(w, i)
          BY <1>1, <2>4, <3>2, <3>3, <4>2
        <5> QED BY <2>7, <5>1
      <4> QED BY <4>1, <4>2
    <3> QED BY <2>3, <2>6, <3>4
  <2> QED BY <1>2, <2>8, <2>9, <2>10 DEF Waits, Replays
<1> QED BY <1>4, <1>5

LEMMA ExecuteFenceWaits ==
  ASSUME Inv1, NEW i \in DOMAIN prog, ExecuteFence(i)
  PROVE  Waits'
<1>1. /\ UNCHANGED <<prog, squashed, committed, shadow, pending>> /\ \A j : Kind(j)' = Kind(j)
      /\ DOMAIN status = DOMAIN prog /\ DOMAIN iq = DOMAIN prog /\ Live \subseteq DOMAIN prog
      /\ pending \subseteq Live /\ Kind(i) = "dsb"
      /\ status' = [status EXCEPT ![i] = "done"] /\ iq' = [iq EXCEPT ![i] = 0]
  BY DEF ExecuteFence, Live, Kind, Inv1, Typed, CoreTyped, TablesTyped
<1>2. \A w \in OfKind(Loads) : status'[w] = status[w] /\ iq'[w] = iq[w]
  BY <1>1 DEF OfKind, Loads
<1>3. PendingInv'
  BY <1>1 DEF Inv1, Waits, PendingInv
<1>4. WaitInv' /\ Replays'
  BY <1>1, <1>2, WaitsKept
<1> QED BY <1>3, <1>4 DEF Waits

LEMMA CommitWaits ==
  ASSUME Inv1, NEW i \in DOMAIN prog, Commit(i)
  PROVE  Waits'
<1>1. /\ UNCHANGED <<prog, squashed, status, iq, pending>> /\ \A j : Kind(j)' = Kind(j)
      /\ i \in Live /\ committed' = i /\ \A j \in Live : j > committed => i <= j
      /\ IF Kind(i) \in Stores THEN Known(i) ELSE status[i] = "done"
      /\ i \in Nat /\ \A j \in Live : j \in Nat
  BY ProgFacts DEF Commit, AtHead, iqVars, Kind, Inv1
<1>2. PendingInv'
  <2> SUFFICES ASSUME NEW j \in pending
               PROVE  j > i
    BY <1>1 DEF PendingInv, Inv1, Waits
  <2>1. j \in Live /\ Kind(j) = "spmld" /\ j > committed /\ status[j] # "done"
    BY DEF Inv1, Waits, PendingInv, Typed, TablesTyped
  <2>2. j # i
    BY <1>1, <2>1 DEF Stores, Bridge, Copies
  <2> QED BY <1>1, <2>1, <2>2
<1>3. /\ DOMAIN shadow' = DOMAIN shadow
      /\ \A j \in DOMAIN shadow' : /\ shadow'[j].waiting = shadow[j].waiting
                                   /\ shadow'[j].ready = shadow[j].ready
  <2>1. \A j \in DOMAIN shadow : shadow[j] \in Entry(DOMAIN prog)
    BY DEF Inv1, Typed, TablesTyped
  <2>2. \A j \in DOMAIN shadow :
          /\ [shadow[j] EXCEPT !.retired = TRUE].ready = shadow[j].ready
          /\ [shadow[j] EXCEPT !.retired = TRUE].waiting = shadow[j].waiting
    BY <2>1 DEF Entry
  <2>3. DOMAIN shadow' = DOMAIN shadow
    BY DEF Commit
  <2>4. \A j \in DOMAIN shadow : IF j <= i THEN shadow'[j] = [shadow[j] EXCEPT !.retired = TRUE]
                                 ELSE shadow'[j] = shadow[j]
    BY DEF Commit
  <2> QED BY <2>2, <2>3, <2>4
<1>4. WaitInv' /\ Replays'
  BY <1>1, <1>3, WaitsKept
<1> QED BY <1>2, <1>4 DEF Waits

LEMMA SquashWaits ==
  ASSUME Inv1, NEW k \in 0 .. Len(prog), Squash(k)
  PROVE  Waits'
<1>1. /\ UNCHANGED <<prog, committed>> /\ \A j : Kind(j)' = Kind(j)
      /\ Live' = {i \in Live : i <= k} /\ pending' = {i \in pending : i <= k}
      /\ \A i \in Live : i \in Nat /\ i \in DOMAIN prog
      /\ k \in Nat /\ pending \subseteq Live
  BY ProgFacts DEF Squash, SquashPending, Live, Kind, Inv1, Typed, CoreTyped, TablesTyped
<1>2. \A i \in Live' : status'[i] = status[i] /\ iq'[i] = iq[i]
  <2>1. DOMAIN status = DOMAIN prog /\ DOMAIN iq = DOMAIN prog
    BY DEF Inv1, Typed, CoreTyped
  <2> TAKE i \in Live'
  <2>2. i \in Live /\ i \in DOMAIN prog /\ ~ (i > k)
    BY <1>1
  <2> QED BY ONLY <2>1, <2>2, Squash(k), Zenon DEF Squash
<1>3. PendingInv'
  BY <1>1, <1>2 DEF Inv1, Waits, PendingInv
<1>4. /\ DOMAIN shadow' = {j \in DOMAIN shadow : j <= k} /\ DOMAIN shadow \subseteq Live
      /\ \A j \in DOMAIN shadow' : shadow'[j] = shadow[j]
  BY DEF Squash, Restrict, Inv1, Typed, TablesTyped
<1>5. WaitInv'
  BY <1>1, <1>2, <1>4 DEF Inv1, Waits, WaitInv
<1>6. WakeOnce'
  BY <1>1, <1>2 DEF Inv1, Waits, Replays, WakeOnce, OfKind
<1>7. ParkedIsListed'
  <2> SUFFICES ASSUME NEW w \in Live', Kind(w) \in Loads, status'[w] = "waiting", iq'[w] = 0
               PROVE  \E j \in DOMAIN shadow' : j < w /\ ~ shadow'[j].ready /\ w \in shadow'[j].waiting
    BY <1>1 DEF ParkedIsListed, Older, OfKind
  <2>1. PICK j \in DOMAIN shadow : j < w /\ ~ shadow[j].ready /\ w \in shadow[j].waiting
    BY <1>1, <1>2 DEF Inv1, Waits, Replays, ParkedIsListed, Older, OfKind
  <2>2. w \in Nat /\ j \in Nat /\ w <= k
    BY <1>1, <1>4, <2>1
  <2> QED BY <1>1, <1>4, <2>1, <2>2
<1> QED BY <1>3, <1>5, <1>6, <1>7 DEF Waits, Replays

LEMMA WaitsStep == ASSUME Inv1, [Next]_vars PROVE Waits'
<1>1. CASE \E u \in DOMAIN blocked : Writeback(u) \/ WritebackBlocked(u)
  <2>1. DOMAIN blocked = {"spm", "regular"}
    BY DEF Inv1, Typed, CoreTyped
  <2> QED BY <1>1, <2>1, WriteWaits
<1>2. CASE UNCHANGED vars
  <2>1. UNCHANGED <<prog, squashed, committed, shadow, status, iq, pending>>
    BY <1>2 DEF vars, iqVars
  <2>2. PendingInv'
    BY <2>1 DEF Inv1, Waits, PendingInv, Kind
  <2>3. WaitInv' /\ Replays'
    BY <2>1, WaitsKept
  <2> QED BY <2>2, <2>3 DEF Waits
<1> QED BY <1>1, <1>2, DispatchWaits, ExecuteStoreWaits, ReadWaits, PerformWaits,
           RecvTimingRespWaits, ExecuteFenceWaits, CommitWaits, SquashWaits DEF Next

-----------------------------------------------------------------------------
(* Fences and capacities. *)
\* The uncommitted SPM loads; with the detached ones they fill the queue.
Reading == {i \in OfKind({"spmld"}) : i > committed}

\* A step other than a dispatch takes no entry: nothing that is done comes
\* back, no shadow entry is added, and a load leaves the queue or, squashed
\* in flight, is detached from it.
Frees ==
    /\ prog' = prog /\ Live' \subseteq Live /\ DOMAIN shadow' \subseteq DOMAIN shadow
    /\ \A i \in Live' : status[i] = "done" => status'[i] = "done"
    /\ Reading' \subseteq Reading
    /\ Detached' \subseteq Detached \cup Reading
LEMMA FreesByStatus ==
  ASSUME Inv1, UNCHANGED <<prog, squashed>>, DOMAIN shadow' \subseteq DOMAIN shadow,
         committed' \in Nat, committed <= committed',
         \A i \in DOMAIN prog : status[i] = "done" => status'[i] = "done",
         \A i \in squashed : status'[i] \in {"sent", "performed"} => status[i] \in {"sent", "performed"}
  PROVE  Frees
<1>1. Live' = Live /\ Live \subseteq DOMAIN prog /\ \A j : Kind(j)' = Kind(j)
  BY DEF Live, Kind
<1>2. Reading' \subseteq Reading
  BY <1>1, ProgFacts DEF Reading, OfKind, Inv1, Typed, CoreTyped
<1>3. Detached' \subseteq Detached
  BY <1>1 DEF Detached
<1> QED BY <1>1, <1>2, <1>3 DEF Frees

LEMMA ReadFrees ==
  ASSUME Inv1, NEW i \in DOMAIN prog, ReadSpm(i) \/ ReadRegular(i)
  PROVE  Frees
<1>1. ReadFrame(i) /\ (Parks(i) \/ Stays \/ Forwards(i) \/ Sends(i))
  BY ReadCases DEF Inv1, Waits
<1>2. /\ i \in Live /\ status[i] = "waiting" /\ DOMAIN status = DOMAIN prog
      /\ UNCHANGED <<prog, squashed, committed>> /\ committed \in Nat
      /\ i \notin squashed /\ squashed \subseteq DOMAIN prog
  BY <1>1 DEF ReadFrame, OfKind, Live, Inv1, Typed, CoreTyped
<1>3. status' = status \/ \E v \in {"done", "sent"} : status' = [status EXCEPT ![i] = v]
  BY <1>1 DEF Parks, Stays, Forwards, Sends, Send
<1>4. /\ \A j \in DOMAIN prog : status[j] = "done" => status'[j] = "done"
      /\ \A j \in squashed : status'[j] = status[j]
  BY <1>2, <1>3
<1>5. DOMAIN shadow' \subseteq DOMAIN shadow
  <2>1. CASE Trim
    BY <2>1, TrimFacts
  <2>2. CASE Parks(i)
    BY <2>2, CleanupFacts DEF Parks
  <2> QED BY <1>1, <2>1, <2>2 DEF Stays, Forwards, Sends
<1> QED BY <1>2, <1>4, <1>5, FreesByStatus

LEMMA StepFrees ==
  ASSUME Inv1, Next, \A o \in Ops : ~ Dispatch(o)
  PROVE  Frees
<1>0. /\ DOMAIN status = DOMAIN prog /\ committed \in Nat /\ squashed \subseteq DOMAIN prog
      /\ DOMAIN blocked = {"spm", "regular"}
      /\ \A j \in DOMAIN shadow : shadow[j] \in Entry(DOMAIN prog)
  BY DEF Inv1, Typed, CoreTyped, TablesTyped
<1>1. ASSUME NEW i \in DOMAIN prog, ExecuteStore(i) PROVE Frees
  <2>1. DOMAIN shadow' \subseteq DOMAIN shadow
    <3>1. CASE Kind(i) \in Bridge
      <4>1. shadow' = Resolved(i)
        BY <1>1, <3>1 DEF ExecuteStore, Resolved
      <4> QED BY <1>0, <4>1, ResolvedFacts
    <3>2. CASE Kind(i) \notin Bridge
      BY <1>1, <3>2 DEF ExecuteStore
    <3> QED BY <3>1, <3>2
  <2>2. /\ UNCHANGED <<prog, squashed, committed>>
        /\ i \notin squashed /\ status[i] = "waiting" /\ status' = [status EXCEPT ![i] = "executed"]
    BY <1>1 DEF ExecuteStore, OfKind, Live
  <2> QED BY <1>0, <2>1, <2>2, FreesByStatus
<1>2. ASSUME NEW i \in DOMAIN prog, ReadSpm(i) \/ ReadRegular(i) PROVE Frees
  BY <1>2, ReadFrees
<1>3. ASSUME NEW u \in DOMAIN blocked, Writeback(u) \/ WritebackBlocked(u) PROVE Frees
  <2>1. PICK i \in NextStore(u) : WriteFrame(u, i)
    BY <1>0, <1>3, WriteCases DEF Inv1, Control
  <2>2. /\ UNCHANGED <<prog, squashed, committed, shadow>>
        /\ i \notin squashed /\ status[i] = "executed"
        /\ status' = status \/ status' = [status EXCEPT ![i] = "sent"]
    BY <2>1 DEF WriteFrame, NextStore, CanWB, OfKind, Live, Send
  <2> QED BY <1>0, <2>2, FreesByStatus
<1>4. ASSUME NEW i \in DOMAIN prog, NEW part \in Parts(i), Perform(i, part) PROVE Frees
  <2>1. PICK n \in DOMAIN net :
          net[n] = i /\ (status' = [status EXCEPT ![i] = "performed"] \/ status' = status)
    BY <1>4 DEF Perform
  <2>2. UNCHANGED <<prog, squashed, committed, shadow>> /\ status[i] = "sent"
    BY <1>4, <2>1 DEF Perform, Inv1, Control, NetInv
  <2> QED BY <1>0, <2>1, <2>2, FreesByStatus
<1>5. ASSUME NEW i \in DOMAIN prog, RecvTimingResp(i) PROVE Frees
  <2>1. UNCHANGED <<prog, squashed, committed>> /\ status' = [status EXCEPT ![i] = "done"]
    BY <1>5 DEF RecvTimingResp
  <2>2. DOMAIN shadow' \subseteq DOMAIN shadow
    <3>1. CASE Wake(i)
      BY <1>0, <3>1, WakeFacts
    <3>2. CASE shadow' = shadow
      BY <3>2
    <3>3. Wake(i) \/ shadow' = shadow
      BY ONLY <1>5 DEF RecvTimingResp
    <3> QED BY <3>1, <3>2, <3>3
  <2> QED BY <1>0, <2>1, <2>2, FreesByStatus
<1>6. ASSUME NEW i \in DOMAIN prog, ExecuteFence(i) PROVE Frees
  <2>1. UNCHANGED <<prog, squashed, committed, shadow>> /\ status' = [status EXCEPT ![i] = "done"]
    BY <1>6 DEF ExecuteFence
  <2> QED BY <1>0, <2>1, FreesByStatus
<1>7. ASSUME NEW i \in DOMAIN prog, Commit(i) PROVE Frees
  <2>1. /\ UNCHANGED <<prog, squashed, status>> /\ DOMAIN shadow' = DOMAIN shadow
        /\ committed' \in Nat /\ committed <= committed'
    BY <1>0, <1>7, ProgFacts DEF Commit, AtHead, iqVars, Inv1
  <2> QED BY <1>0, <2>1, FreesByStatus
<1>8. ASSUME NEW k \in 0 .. Len(prog), Squash(k) PROVE Frees
  <2>1. /\ UNCHANGED <<prog, committed>> /\ \A j : Kind(j)' = Kind(j)
        /\ Live' = {i \in Live : i <= k} /\ squashed' = squashed \cup {i \in Live : i > k}
        /\ \A i \in Live : i \in Nat /\ i \in DOMAIN prog
        /\ k \in Nat
    BY <1>8, ProgFacts DEF Squash, Live, Kind, Inv1, Typed, CoreTyped
  <2>2. \A i \in DOMAIN prog : status'[i] = status[i] \/ status'[i] = "done"
    BY <1>0, <1>8 DEF Squash
  <2>3. DOMAIN shadow' \subseteq DOMAIN shadow
    BY <1>8 DEF Squash, Restrict
  <2>4. Reading' \subseteq Reading
    BY <2>1 DEF Reading, OfKind
  <2>5. Detached' \subseteq Detached \cup Reading
    <3> SUFFICES ASSUME NEW i \in squashed', Kind(i) = "spmld", status'[i] \in {"sent", "performed"}
                 PROVE  i \in Detached \cup Reading
      BY <2>1 DEF Detached
    <3>1. status[i] \in {"sent", "performed"}
      BY <1>0, <2>1, <2>2
    <3>2. CASE i \in squashed
      BY <3>1, <3>2 DEF Detached
    <3>3. CASE i \in Live
      <4>1. ~ (i <= committed)
        BY <3>1, <3>3 DEF Inv1, Control, CommitInv, Stores, Bridge, Copies
      <4> QED BY <1>0, <2>1, <3>3, <4>1 DEF Reading, OfKind
    <3> QED BY <2>1, <3>2, <3>3
  <2> QED BY <2>1, <2>2, <2>3, <2>4, <2>5 DEF Frees
<1> QED BY <1>1, <1>2, <1>3, <1>4, <1>5, <1>6, <1>7, <1>8 DEF Next

\* What a new instruction changes: it waits, and takes one entry at most.
LEMMA DispatchFacts ==
  ASSUME Typed, NEW o \in Ops, Dispatch(o)
  PROVE  \E n \in Nat :
           /\ \A i \in DOMAIN prog : i < n /\ i \in Nat
           /\ committed' = committed /\ squashed' = squashed /\ squashed \subseteq DOMAIN prog
           /\ n \notin DOMAIN prog /\ Live' = Live \cup {n} /\ Live \subseteq DOMAIN prog
           /\ (\A i \in DOMAIN prog : prog'[i] = prog[i]) /\ prog'[n] = o
           /\ (\A i \in DOMAIN prog : status'[i] = status[i]) /\ status'[n] = "waiting"
           /\ DOMAIN shadow' \subseteq DOMAIN shadow \cup (IF o.kind \in Bridge THEN {n} ELSE {})
<1>0. PICK n \in Nat : n = Len(prog) + 1
  BY ProgFacts
<1>1. /\ \A i \in DOMAIN prog : i < n /\ i \in Nat
      /\ DOMAIN prog' = DOMAIN prog \cup {n} /\ prog'[n] = o
      /\ \A i \in DOMAIN prog : prog'[i] = prog[i]
      /\ committed' = committed /\ squashed' = squashed /\ squashed \subseteq DOMAIN prog
      /\ n \notin DOMAIN prog
  <2>1. prog' = Append(prog, o) /\ committed' = committed /\ squashed' = squashed
    BY DEF Dispatch
  <2>2. squashed \subseteq DOMAIN prog
    BY DEF Typed, CoreTyped
  <2>3. prog \in Seq(Ops) /\ DOMAIN prog = 1 .. Len(prog) /\ Len(prog) \in Nat
    BY ProgFacts DEF Typed, CoreTyped
  <2> QED BY ONLY <1>0, <2>1, <2>2, <2>3, AppendProperties
<1>2. Live' = Live \cup {n} /\ Live \subseteq DOMAIN prog
  BY <1>1 DEF Live
<1>3. (\A i \in DOMAIN prog : status'[i] = status[i]) /\ status'[n] = "waiting"
  <2>1. status' = Append(status, "waiting") /\ "waiting" \in Statuses
    BY DEF Dispatch, Statuses
  <2>2. status \in [1 .. Len(prog) -> Statuses] /\ DOMAIN prog = 1 .. Len(prog) /\ Len(prog) \in Nat
    BY ProgFacts DEF Typed, CoreTyped
  <2> QED BY <1>0, <2>1, <2>2, AppendFunction
<1>4. DOMAIN shadow' \subseteq DOMAIN shadow \cup (IF o.kind \in Bridge THEN {n} ELSE {})
  <2>1. CASE o.kind \in Bridge
    <3>1. shadow' = Reserve(Cleanup(shadow), n)
      BY <1>0, <2>1 DEF Dispatch
    <3> QED BY <2>1, <3>1, CleanupFacts DEF Reserve
  <2>2. CASE o.kind \notin Bridge
    BY <2>2 DEF Dispatch
  <2> QED BY <2>1, <2>2
<1> QED BY <1>1, <1>2, <1>3, <1>4

\* A barrier that is not executing now was done before.
LEMMA FenceUnmoved ==
  ASSUME Inv1, Next, \A o \in Ops : ~ Dispatch(o), NEW d \in Live', Kind(d) = "dsb",
         status'[d] = "done", ~ ExecuteFence(d)
  PROVE  status[d] = "done"
<1>0. /\ DOMAIN status = DOMAIN prog /\ DOMAIN blocked = {"spm", "regular"}
      /\ d \in Live /\ d \in DOMAIN prog
  BY StepFrees DEF Frees, Live, Inv1, Typed, CoreTyped
<1>1. status[d] \notin {"sent", "performed"}
  BY <1>0 DEF Inv1, Control, CommitInv, NetInv, Loads, Stores, Bridge, Copies
<1>2. ASSUME NEW i \in DOMAIN prog, ExecuteStore(i) PROVE status[d] = "done"
  BY <1>0, <1>2 DEF ExecuteStore
<1>3. ASSUME NEW i \in DOMAIN prog, ReadSpm(i) \/ ReadRegular(i) PROVE status[d] = "done"
  <2>1. ReadFrame(i) /\ (Parks(i) \/ Stays \/ Forwards(i) \/ Sends(i))
    BY <1>3, ReadCases DEF Inv1, Waits
  <2>2. d # i
    BY <2>1 DEF ReadFrame, OfKind, Loads
  <2> QED BY <1>0, <2>1, <2>2 DEF Parks, Stays, Forwards, Sends, Send
<1>4. ASSUME NEW u \in DOMAIN blocked, Writeback(u) \/ WritebackBlocked(u) PROVE status[d] = "done"
  <2>1. PICK i \in NextStore(u) : WriteFrame(u, i)
    BY <1>0, <1>4, WriteCases DEF Inv1, Control
  <2> QED BY <1>0, <2>1 DEF WriteFrame, Send
<1>5. ASSUME NEW i \in DOMAIN prog, NEW part \in Parts(i), Perform(i, part) PROVE status[d] = "done"
  <2>1. status' = [status EXCEPT ![i] = "performed"] \/ status' = status
    BY <1>5 DEF Perform
  <2> QED BY <1>0, <2>1
<1>6. ASSUME NEW i \in DOMAIN prog, RecvTimingResp(i) PROVE status[d] = "done"
  BY <1>0, <1>1, <1>6 DEF RecvTimingResp
<1>7. ASSUME NEW i \in DOMAIN prog, ExecuteFence(i) PROVE status[d] = "done"
  BY <1>0, <1>7 DEF ExecuteFence
<1>8. ASSUME NEW i \in DOMAIN prog, Commit(i) PROVE status[d] = "done"
  BY <1>8 DEF Commit, iqVars
<1>9. ASSUME NEW k \in 0 .. Len(prog), Squash(k) PROVE status[d] = "done"
  <2>1. d <= k
    BY <1>0, <1>9, ProgFacts DEF Squash, Live, Inv1
  <2> QED BY <1>0, <1>9, <2>1, ProgFacts DEF Squash, Inv1
<1> QED BY <1>2, <1>3, <1>4, <1>5, <1>6, <1>7, <1>8, <1>9 DEF Next

\* At the head of the ROB, with no store and no retired bridge instruction
\* outstanding, everything older is done.
LEMMA FenceWaited ==
  ASSUME Inv1, NEW d, ExecuteFence(d), NEW i \in Live, i < d
  PROVE  status[i] = "done"
<1>0. i \in Nat /\ d \in Nat /\ committed \in Nat
  BY ProgFacts DEF ExecuteFence, AtHead, Inv1, Typed, CoreTyped, Live
<1>1. i <= committed
  <2>1. i > committed => d <= i
    BY DEF ExecuteFence, AtHead
  <2> QED BY <1>0, <2>1
<1>2. CASE Kind(i) \notin Stores
  BY <1>1, <1>2 DEF Inv1, Control, CommitInv
<1>3. CASE Kind(i) \in Stores
  <2>1. /\ status[i] # "waiting" /\ ~ HasStoresToWB /\ status[i] \in Statuses
    BY <1>1, <1>3, ProgFacts DEF Inv1, Control, CommitInv, Known, ExecuteFence, Typed, CoreTyped
  <2>2. status[i] # "executed" /\ (Kind(i) \in Bridge \/ status[i] = "done")
    BY <1>1, <1>3, <2>1 DEF HasStoresToWB, OfKind
  <2>3. CASE Kind(i) \in Bridge
    <3> SUFFICES ASSUME status[i] # "done" PROVE FALSE
      OBVIOUS
    <3>1. i \in DOMAIN shadow /\ ~ shadow[i].ready /\ shadow[i].retired
      BY <1>1, <2>3 DEF Inv1, Control, ShadowInv, OfKind
    <3> QED BY <2>1, <3>1 DEF HasStoresToWB, HasPendingWriteback
  <2> QED BY <2>2, <2>3
<1> QED BY <1>2, <1>3

LEMMA FenceStep == ASSUME Inv1, FenceDrains, [Next]_vars PROVE FenceDrains'
<1>1. CASE UNCHANGED vars
  BY <1>1 DEF vars, iqVars, FenceDrains, OfKind, Live, Kind
<1>2. CASE \E o \in Ops : Dispatch(o)
  <2>1. PICK o \in Ops : Dispatch(o)
    BY <1>2
  <2>2. PICK n \in Nat :
           /\ \A i \in DOMAIN prog : i < n /\ i \in Nat
           /\ Live' = Live \cup {n} /\ Live \subseteq DOMAIN prog
           /\ \A i \in DOMAIN prog : prog'[i] = prog[i]
           /\ (\A i \in DOMAIN prog : status'[i] = status[i]) /\ status'[n] = "waiting"
    BY <2>1, DispatchFacts DEF Inv1
  <2> SUFFICES ASSUME NEW d \in Live', prog'[d].kind = "dsb", status'[d] = "done", NEW i \in Live', i < d
               PROVE  status'[i] = "done"
    BY DEF FenceDrains, OfKind, Kind
  <2>3. d # n /\ d \in Live /\ i # n /\ i \in Live
    BY <2>2
  <2> QED BY <2>2, <2>3 DEF FenceDrains, OfKind, Kind
<1>3. CASE Next /\ \A o \in Ops : ~ Dispatch(o)
  <2>1. Frees
    BY <1>3, StepFrees
  <2> SUFFICES ASSUME NEW d \in Live', Kind(d) = "dsb", status'[d] = "done", NEW i \in Live', i < d
               PROVE  status'[i] = "done"
    BY <2>1 DEF FenceDrains, OfKind, Kind, Frees
  <2>2. i \in Live /\ d \in Live
    BY <2>1 DEF Frees
  <2>3. status[i] = "done"
    <3>1. CASE ExecuteFence(d)
      BY <2>2, <3>1, FenceWaited
    <3>2. CASE ~ ExecuteFence(d)
      <4>1. status[d] = "done"
        BY <1>3, <3>2, FenceUnmoved
      <4> QED BY <2>2, <4>1 DEF FenceDrains, OfKind
    <3> QED BY <3>1, <3>2
  <2> QED BY <2>1, <2>3 DEF Frees
<1> QED BY <1>1, <1>2, <1>3

-----------------------------------------------------------------------------
LEMMA FiniteParts ==
  ASSUME Typed
  PROVE  /\ IsFiniteSet(InSpmSq) /\ IsFiniteSet(DOMAIN shadow)
         /\ IsFiniteSet(Reading) /\ IsFiniteSet(Detached)
         /\ Reading \cap Detached = {}
<1>1. IsFiniteSet(DOMAIN prog)
  BY ProgFacts, FS_Interval
<1>2. /\ InSpmSq \subseteq DOMAIN prog /\ DOMAIN shadow \subseteq DOMAIN prog
      /\ Reading \subseteq DOMAIN prog /\ Detached \subseteq DOMAIN prog
  BY ProgFacts DEF InSpmSq, OfKind, Reading, Detached, Typed, CoreTyped, TablesTyped
<1>3. Reading \cap Detached = {}
  BY DEF Reading, Detached, OfKind, Live
<1> QED BY <1>1, <1>2, <1>3, FS_Subset

\* A set grows by the bound it is given.
LEMMA GrowBound ==
  ASSUME NEW A, NEW B, IsFiniteSet(A), NEW x, B \subseteq A \cup {x}
  PROVE  /\ Cardinality(A) \in Nat /\ Cardinality(B) \in Nat
         /\ Cardinality(B) <= Cardinality(A) + 1
         /\ B \subseteq A => Cardinality(B) <= Cardinality(A)
<1>1. IsFiniteSet(A \cup {x}) /\ (Cardinality(A \cup {x}) = Cardinality(A) \/ Cardinality(A \cup {x}) = Cardinality(A) + 1)
  BY FS_AddElement
<1>2. IsFiniteSet(B) /\ Cardinality(B) <= Cardinality(A \cup {x})
  BY <1>1, FS_Subset
<1>3. Cardinality(A) \in Nat /\ Cardinality(B) \in Nat /\ Cardinality(A \cup {x}) \in Nat
  BY <1>1, <1>2, FS_CardinalityType
<1>4. B \subseteq A => Cardinality(B) <= Cardinality(A)
  BY FS_Subset
<1> QED BY <1>1, <1>2, <1>3, <1>4

\* Loads and detached loads are counted together.
LEMMA LoadsCounted ==
  ASSUME NEW R, NEW D, IsFiniteSet(R), IsFiniteSet(D), R \cap D = {}
  PROVE  Cardinality(R) + Cardinality(D) = Cardinality(R \cup D) /\ IsFiniteSet(R \cup D)
<1>1. IsFiniteSet(R \cup D) /\ Cardinality(R \cup D) = Cardinality(R) + Cardinality(D) - Cardinality(R \cap D)
  BY FS_Union
<1>2. Cardinality(R \cap D) = 0 /\ Cardinality(R) \in Nat /\ Cardinality(D) \in Nat
  BY FS_EmptySet, FS_CardinalityType
<1> QED BY <1>1, <1>2

Fits == StoresUsed <= SpmSq /\ LoadsUsed <= SpmLq
LEMMA FitsKept == ASSUME Inv1, Typed', Fits, Frees PROVE Fits'
<1>0. Typed
  BY DEF Inv1
<1>1. InSpmSq' \subseteq InSpmSq
  BY DEF Frees, InSpmSq, OfKind, Kind
<1>2. StoresUsed' <= SpmSq
  <2>1. /\ Cardinality(InSpmSq') <= Cardinality(InSpmSq)
        /\ Cardinality(DOMAIN shadow') <= Cardinality(DOMAIN shadow)
    BY <1>0, <1>1, FiniteParts, FS_Subset DEF Frees
  <2>2. /\ Cardinality(InSpmSq') \in Nat /\ Cardinality(InSpmSq) \in Nat
        /\ Cardinality(DOMAIN shadow') \in Nat /\ Cardinality(DOMAIN shadow) \in Nat
    <3>1. IsFiniteSet(InSpmSq') /\ IsFiniteSet(DOMAIN shadow')
      BY <1>0, <1>1, FiniteParts, FS_Subset DEF Frees
    <3> QED BY <1>0, <3>1, FiniteParts, FS_CardinalityType
  <2> QED BY <2>1, <2>2, LsqAssumption DEF StoresUsed, Fits
<1>3. LoadsUsed' <= SpmLq
  <2>1. /\ LoadsUsed = Cardinality(Reading) + (IF Bounded THEN Cardinality(Detached) ELSE 0)
        /\ LoadsUsed' = Cardinality(Reading') + (IF Bounded THEN Cardinality(Detached') ELSE 0)
    BY DEF LoadsUsed, Reading
  <2>2. /\ IsFiniteSet(Reading) /\ IsFiniteSet(Detached) /\ Reading \cap Detached = {}
    BY <1>0, FiniteParts
  <2>3. Reading' \subseteq Reading /\ Detached' \subseteq Detached \cup Reading
    BY DEF Frees
  <2>4. IsFiniteSet(Reading \cup Detached)
    BY <2>2, LoadsCounted
  <2>5. IsFiniteSet(Reading') /\ IsFiniteSet(Detached')
    BY <2>2, <2>3, <2>4, FS_Subset
  <2>6. Reading' \cap Detached' = {}
    BY DEF Reading, Detached, OfKind, Live
  <2>7. Cardinality(Reading' \cup Detached') <= Cardinality(Reading \cup Detached)
    BY <2>3, <2>4, FS_Subset
  <2>8. Cardinality(Reading') <= Cardinality(Reading)
    BY <2>2, <2>3, FS_Subset
  <2>9. /\ Cardinality(Reading) + Cardinality(Detached) = Cardinality(Reading \cup Detached)
        /\ Cardinality(Reading') + Cardinality(Detached') = Cardinality(Reading' \cup Detached')
    BY <2>2, <2>5, <2>6, LoadsCounted
  <2>10. /\ Cardinality(Reading) \in Nat /\ Cardinality(Detached) \in Nat
         /\ Cardinality(Reading') \in Nat /\ Cardinality(Detached') \in Nat
    BY <2>2, <2>5, FS_CardinalityType
  <2> QED BY <2>1, <2>7, <2>8, <2>9, <2>10, LsqAssumption DEF Fits
<1> QED BY <1>2, <1>3 DEF Fits

\* dispatch checks the budget of the queue that the instruction enters.
LEMMA FitsDispatch == ASSUME Inv1, Fits, NEW o \in Ops, Dispatch(o) PROVE Fits'
<1>0. Typed
  BY DEF Inv1
<1>1. PICK n \in Nat :
         /\ \A i \in DOMAIN prog : i < n /\ i \in Nat
         /\ committed' = committed /\ squashed' = squashed /\ squashed \subseteq DOMAIN prog
         /\ n \notin DOMAIN prog /\ Live' = Live \cup {n} /\ Live \subseteq DOMAIN prog
         /\ (\A i \in DOMAIN prog : prog'[i] = prog[i]) /\ prog'[n] = o
         /\ (\A i \in DOMAIN prog : status'[i] = status[i]) /\ status'[n] = "waiting"
         /\ DOMAIN shadow' \subseteq DOMAIN shadow \cup (IF o.kind \in Bridge THEN {n} ELSE {})
  BY <1>0, DispatchFacts
<1>2. InSpmSq' \subseteq InSpmSq \cup (IF o.kind = "spmst" THEN {n} ELSE {})
  <2> SUFFICES ASSUME NEW i \in Live', prog'[i].kind = "spmst",
                      NEW j \in Live', prog'[j].kind = "spmst", j <= i, status'[j] # "done"
               PROVE  i \in InSpmSq \/ (o.kind = "spmst" /\ i = n)
    BY DEF InSpmSq, OfKind, Kind
  <2>1. CASE i = n
    BY <1>1, <2>1
  <2>2. CASE i # n
    <3>1. i \in Live /\ j # n /\ j \in Live
      BY <1>1, <2>2
    <3> QED BY <1>1, <3>1 DEF InSpmSq, OfKind, Kind
  <2> QED BY <2>1, <2>2
<1>3. Reading' \subseteq Reading \cup (IF o.kind = "spmld" THEN {n} ELSE {})
  BY <1>1 DEF Reading, OfKind, Kind
<1>4. Detached' \subseteq Detached
  BY <1>1 DEF Detached, Kind
<1>5. /\ o.kind \in Bridge \cup {"spmst"} => ~ (StoresUsed >= SpmSq)
      /\ o.kind = "spmld" => ~ (LoadsUsed >= SpmLq)
  BY DEF Dispatch, SpmLsqFull
<1>6. /\ IsFiniteSet(InSpmSq) /\ IsFiniteSet(DOMAIN shadow) /\ IsFiniteSet(Reading) /\ IsFiniteSet(Detached)
  BY <1>0, FiniteParts
<1>7. /\ Cardinality(InSpmSq) \in Nat /\ Cardinality(InSpmSq') \in Nat
      /\ Cardinality(InSpmSq') <= Cardinality(InSpmSq) + (IF o.kind = "spmst" THEN 1 ELSE 0)
  <2>1. InSpmSq' \subseteq InSpmSq \cup {n} /\ (o.kind # "spmst" => InSpmSq' \subseteq InSpmSq)
    BY <1>2
  <2>2. /\ Cardinality(InSpmSq) \in Nat /\ Cardinality(InSpmSq') \in Nat
        /\ Cardinality(InSpmSq') <= Cardinality(InSpmSq) + 1
        /\ InSpmSq' \subseteq InSpmSq => Cardinality(InSpmSq') <= Cardinality(InSpmSq)
    BY <1>6, <2>1, GrowBound
  <2>3. CASE o.kind = "spmst"
    BY <2>2, <2>3
  <2>4. CASE ~ (o.kind = "spmst")
    BY <2>1, <2>2, <2>4
  <2> QED BY <2>3, <2>4
<1>8. /\ Cardinality(DOMAIN shadow) \in Nat /\ Cardinality(DOMAIN shadow') \in Nat
      /\ Cardinality(DOMAIN shadow') <= Cardinality(DOMAIN shadow) + (IF o.kind \in Bridge THEN 1 ELSE 0)
  <2>1. DOMAIN shadow' \subseteq DOMAIN shadow \cup {n} /\ (o.kind \notin Bridge => DOMAIN shadow' \subseteq DOMAIN shadow)
    BY <1>1
  <2>2. /\ Cardinality(DOMAIN shadow) \in Nat /\ Cardinality(DOMAIN shadow') \in Nat
        /\ Cardinality(DOMAIN shadow') <= Cardinality(DOMAIN shadow) + 1
        /\ DOMAIN shadow' \subseteq DOMAIN shadow => Cardinality(DOMAIN shadow') <= Cardinality(DOMAIN shadow)
    BY <1>6, <2>1, GrowBound
  <2>3. CASE o.kind \in Bridge
    BY <2>2, <2>3
  <2>4. CASE ~ (o.kind \in Bridge)
    BY <2>1, <2>2, <2>4
  <2> QED BY <2>3, <2>4
<1>9. /\ Cardinality(Reading) \in Nat /\ Cardinality(Reading') \in Nat
      /\ Cardinality(Reading') <= Cardinality(Reading) + (IF o.kind = "spmld" THEN 1 ELSE 0)
  <2>1. Reading' \subseteq Reading \cup {n} /\ (o.kind # "spmld" => Reading' \subseteq Reading)
    BY <1>3
  <2>2. /\ Cardinality(Reading) \in Nat /\ Cardinality(Reading') \in Nat
        /\ Cardinality(Reading') <= Cardinality(Reading) + 1
        /\ Reading' \subseteq Reading => Cardinality(Reading') <= Cardinality(Reading)
    BY <1>6, <2>1, GrowBound
  <2>3. CASE o.kind = "spmld"
    BY <2>2, <2>3
  <2>4. CASE ~ (o.kind = "spmld")
    BY <2>1, <2>2, <2>4
  <2> QED BY <2>3, <2>4
<1>10. Cardinality(Detached) \in Nat /\ Cardinality(Detached') \in Nat /\ Cardinality(Detached') <= Cardinality(Detached)
  BY <1>4, <1>6, GrowBound
<1>11. "spmst" \notin Bridge
  BY DEF Bridge, Copies
<1>12. StoresUsed' <= SpmSq
  BY <1>5, <1>7, <1>8, <1>11, LsqAssumption DEF StoresUsed, Fits
<1>13. LoadsUsed' <= SpmLq
  <2>1. /\ LoadsUsed = Cardinality(Reading) + (IF Bounded THEN Cardinality(Detached) ELSE 0)
        /\ LoadsUsed' = Cardinality(Reading') + (IF Bounded THEN Cardinality(Detached') ELSE 0)
    BY DEF LoadsUsed, Reading
  <2> QED BY <1>5, <1>9, <1>10, <2>1, LsqAssumption DEF Fits
<1> QED BY <1>12, <1>13 DEF Fits

LEMMA FitsStep == ASSUME Inv1, Typed', Fits, [Next]_vars PROVE Fits'
<1>1. CASE UNCHANGED vars
  BY <1>1 DEF vars, iqVars, Fits, StoresUsed, LoadsUsed, InSpmSq, Detached, OfKind, Live, Kind
<1>2. CASE \E o \in Ops : Dispatch(o)
  BY <1>2, FitsDispatch
<1>3. CASE Next /\ \A o \in Ops : ~ Dispatch(o)
  BY <1>3, StepFrees, FitsKept
<1> QED BY <1>1, <1>2, <1>3

-----------------------------------------------------------------------------
LEMMA InitLsqInv == Init => LsqInv
<1> SUFFICES ASSUME Init PROVE LsqInv
  OBVIOUS
<1>0. Typed
  BY InitTyped
<1>1. /\ DOMAIN prog = {} /\ Live = {} /\ squashed = {} /\ DOMAIN shadow = {} /\ DOMAIN net = {}
      /\ pending = {} /\ \A u \in {"spm", "regular"} : blocked[u] = FALSE
  BY DEF Init, Live
<1>2. Control
  BY <1>1 DEF Control, CommitInv, NetInv, BlockedInv, ShadowInv, OfKind
<1>3. Waits
  BY <1>1 DEF Waits, WaitInv, PendingInv, Replays, WakeOnce, ParkedIsListed, OfKind
<1>4. FenceDrains
  BY <1>1 DEF FenceDrains, OfKind
<1>5. Budgets
  <2>1. InSpmSq = {} /\ Detached = {} /\ OfKind({"spmld"}) = {} /\ DOMAIN shadow = {}
    BY <1>1 DEF InSpmSq, Detached, OfKind
  <2>2. Cardinality({}) = 0
    BY FS_EmptySet
  <2>3. StoresUsed = 0
    BY <2>1, <2>2 DEF StoresUsed
  <2>4. LoadsUsed = 0
    <3>1. Reading = {}
      BY <1>1 DEF Reading, OfKind
    <3>2. LoadsUsed = Cardinality(Reading) + (IF Bounded THEN Cardinality(Detached) ELSE 0)
      BY DEF LoadsUsed, Reading
    <3> QED BY <2>1, <2>2, <3>1, <3>2
  <2> QED BY <1>1, <2>3, <2>4, LsqAssumption DEF Budgets
<1> QED BY <1>0, <1>2, <1>3, <1>4, <1>5 DEF LsqInv

LEMMA LsqInvStep == ASSUME LsqInv, [Next]_vars PROVE LsqInv'
<1>1. Inv1 /\ Inv0
  BY Inv1Implies DEF LsqInv, Inv1
<1>2. Typed'
  BY TypedStep DEF LsqInv, Control, Waits
<1>3. Control'
  BY <1>1, ControlStep
<1>4. Waits'
  BY <1>1, WaitsStep
<1>5. FenceDrains'
  BY <1>1, FenceStep DEF LsqInv
<1>6. Budgets'
  <2>1. Fits'
    BY <1>1, <1>2, FitsStep DEF LsqInv, Budgets, Fits
  <2>2. (pending \subseteq {i \in OfKind({"spmld"}) : i > committed})'
    BY <1>2, <1>4 DEF Waits, PendingInv, Typed, TablesTyped, OfKind
  <2> QED BY <2>1, <2>2 DEF Budgets, Fits
<1> QED BY <1>2, <1>3, <1>4, <1>5, <1>6 DEF LsqInv

\* The inductive invariant of the load and store queue, for every program,
\* every capacity of the SPM queues and every switch of the code.
THEOREM LsqInvariant == Spec => []LsqInv
<1>1. Init => LsqInv
  BY InitLsqInv
<1>2. LsqInv /\ [Next]_vars => LsqInv'
  BY LsqInvStep
<1> QED BY <1>1, <1>2, PTL DEF Spec

\* Instructions, shadow entries, pending-load table, requests in flight and
\* memory keep their types: in particular a table never names an instruction
\* that was squashed.
THEOREM LsqTypes == Spec => []TypeOK
<1>1. Typed => TypeOK
  <2> SUFFICES ASSUME Typed PROVE TypeOK
    OBVIOUS
  <2>1. prog \in Seq(Op)
    BY LsqAssumption, SeqMonotonic DEF Typed, CoreTyped
  <2> QED BY <2>1, ProgFacts DEF TypeOK, Typed, CoreTyped, TablesTyped, MemTyped, Entry, Statuses
<1> QED BY <1>1, LsqInvariant, PTL DEF LsqInv

\* dispatchInsts checks one budget before it takes an instruction: the SPM
\* store queue with the shadow entries, and the SPM loads with the detached
\* ones, are within their capacities for ever, and the pending-load table
\* holds uncommitted SPM loads only.
THEOREM BudgetsKept == Spec => []Budgets
BY LsqInvariant, PTL DEF LsqInv

\* A DSB executes at the head of the ROB when hasStoresToWB says no: then
\* every older instruction, bridge instructions included, has its answer.
THEOREM FencesDrain == Spec => []FenceDrains
BY LsqInvariant, PTL DEF LsqInv

\* A load that meets a bridge instruction in flight is woken once, and as
\* long as it is out of the instruction queue an entry lists it.
THEOREM ReplaysExact == Spec => []Replays
BY LsqInvariant, PTL DEF LsqInv, Waits

\* A copy that may write back is committed, and the loads it would have to
\* wait for are not: the deferral branch of writebackStores is dead code.
THEOREM DeferralDead == Spec => []NoWarDeferral
<1>1. Typed /\ Control /\ Waits => NoWarDeferral
  <2> SUFFICES ASSUME Typed, Control, Waits, NEW i \in OfKind(Copies), CanWB(i), WarConflict(i)
               PROVE  FALSE
    BY DEF NoWarDeferral
  <2>1. i <= committed /\ i \in Nat /\ committed \in Nat
    BY ProgFacts DEF CanWB, Typed, CoreTyped, OfKind, Live
  <2> QED BY <2>1, ProgFacts DEF WarConflict, Waits, PendingInv, Control, CommitInv, OfKind, Typed, CoreTyped, TablesTyped, Live, Stores, Bridge, Copies
<1> QED BY <1>1, LsqInvariant, PTL DEF LsqInv
=============================================================================
