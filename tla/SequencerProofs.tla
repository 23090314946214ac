-------------------------- MODULE SequencerProofs ---------------------------
(***************************************************************************)
(* Proofs about Sequencer, for any number of ports, lines, slots,          *)
(* requests, credits and queue entries: its types; the outstanding count   *)
(* is exact; no port it refuses is left on the retry list for ever; the    *)
(* finite mandatory queue is never overfilled.  With the steps proved in   *)
(* TransactionProofs and AnswerProofs: the ingress bypass respects         *)
(* dependences, a line has one transaction, and the answers are right.     *)
(***************************************************************************)
EXTENDS TransactionProofs, FiniteSetTheorems

\* A leaf is tried with Zenon, then with SMT.
USE ZenonT(4), SMT, SMTT(20)

\* Only SPM requests are on their way to the L1, as long as none is sent.
LEMMA SpmOnlyKept ==
  ASSUME SpmOnly, UNCHANGED <<req, toL1>>
  PROVE  SpmOnly'
BY DEF SpmOnly, Spm, Kind

\* enqueue and dequeue keep them.
LEMMA EnqueueTyped ==
  ASSUME NEW N \in Nat, QueueTyped(N), NEW ms \in Seq(1..N), EnqueueAll(ms)
  PROVE  QueueTyped(N)'
<1>1. Range(ms) \subseteq 1..N
  BY RangeOfSeq
<1>2. Len(ms) \in Nat
  BY LenProperties
<1>3. order' \in Seq(1..N)
  BY ConcatProperties DEF EnqueueAll, QueueTyped
<1>4. enqueued' \in Nat
  BY <1>2 DEF EnqueueAll, QueueTyped
<1>5. heap' \subseteq 1..N /\ selected' \in heap' \cup {NoMsg}
  BY <1>1 DEF EnqueueAll, QueueTyped
<1>6. stallMap' \subseteq (1..N) \X Keys /\ popped' \in Nat \cup {NoPop}
      /\ IsFiniteSet(stallMap')
  BY DEF EnqueueAll, QueueTyped
<1>7. Range(order') = Range(order) \cup Range(ms)
  BY RangeConcatenation DEF EnqueueAll, QueueTyped
<1>8. heap' \subseteq Range(order') /\ \A w \in stallMap' : w[1] \in Range(order')
  BY <1>7 DEF EnqueueAll, QueueTyped
<1> QED BY <1>3, <1>4, <1>5, <1>6, <1>8 DEF QueueTyped

\* The occupied entries of the queue are a number.
LEMMA OccupiedNat ==
  ASSUME NEW N \in Nat, QueueTyped(N)
  PROVE  IsFiniteSet(heap) /\ Occupied \in Nat
<1>1. IsFiniteSet(heap)
  <2>1. IsFiniteSet(1..N)
    BY FS_Interval
  <2> QED BY <2>1, FS_Subset DEF QueueTyped
<1>2. Cardinality(heap) \in Nat /\ Cardinality(stallMap) \in Nat
  BY <1>1, FS_CardinalityType DEF QueueTyped
<1> QED BY <1>1, <1>2 DEF Occupied

\* Taking a message out of the heap keeps the types.
LEMMA RemoveTyped ==
  ASSUME NEW N \in Nat, QueueTyped(N), NEW m,
         RemoveSelected(m), stallMap' \subseteq (1..N) \X Keys,
         IsFiniteSet(stallMap'), \A w \in stallMap' : w[1] \in Range(order)
  PROVE  QueueTyped(N)'
BY OccupiedNat DEF RemoveSelected, QueueTyped

\* makeRequest keeps the types.
LEMMA MakeRequestTyped ==
  ASSUME NEW N \in Nat, Typed(N), NEW p \in Ports, NEW i \in 1..N,
         NEW r \in Requests, MakeRequest(p, i, r), UNCHANGED <<cb, below>>
  PROVE  Typed(N)'
<1>1. r.at \in Keys
  BY SequencerAssumption
<1>2. CASE RefuseIngress(p, i, r)
  BY <1>2 DEF RefuseIngress, Refuse, Schedule, Typed, QueueTyped, queue, below
<1>3. CASE RefuseAdmission(p, i, r)
  BY <1>3 DEF RefuseAdmission, Refuse, Typed, QueueTyped, queue, below
<1>4. CASE DropPrefetch(p, i, r)
  <2>1. UNCHANGED <<queue, table, below, waiting, replays, ingressRetry, event, cb>>
    BY <1>4 DEF DropPrefetch, Taken
  <2>2. QueueTyped(N)'
    BY <2>1 DEF Typed, QueueTyped, queue
  <2>3. pend' \in [Ports -> 0..N]
    BY <1>4 DEF DropPrefetch, Taken, Typed, NoMsg
  <2> QED BY <2>1, <2>2, <2>3 DEF Typed, below
<1>5. CASE Accept(p, i, r)
  <2>1. QueueTyped(N)'
    <3>1. CASE table[r.at] = <<>>
      BY <1>5, <3>1, EnqueueTyped, OneTyped DEF Accept, Typed, QueueTyped
    <3>2. CASE table[r.at] # <<>>
      BY <1>5, <3>2 DEF Accept, Typed, QueueTyped, queue
    <3> QED BY <3>1, <3>2
  <2>2. table' \in [Keys -> Seq(1..N)]
    <3>1. Append(table[r.at], i) \in Seq(1..N)
      BY <1>1, AppendProperties DEF Typed
    <3> QED BY <1>1, <1>5, <3>1 DEF Accept, Typed
  <2>3. pend' \in [Ports -> 0..N]
    BY <1>5 DEF Accept, Taken, Typed, NoMsg
  <2>4. cb'.step = "hit" => table'[cb'.at] # <<>>
    <3> SUFFICES ASSUME cb.step = "hit" PROVE table'[cb.at] # <<>>
      OBVIOUS
    <3>1. cb.at \in Keys /\ table[cb.at] # <<>>
      BY DEF Typed, Callbacks, NoCallback
    <3>2. Append(table[r.at], i) # <<>>
      <4>1. table[r.at] \in Seq(1..N)
        BY <1>1 DEF Typed
      <4>2. Len(Append(table[r.at], i)) = Len(table[r.at]) + 1 /\ Len(table[r.at]) \in Nat
        BY <4>1
      <4>3. Len(<<>>) = 0
        OBVIOUS
      <4>4. Len(Append(table[r.at], i)) # 0
        BY <4>2
      <4> QED BY ONLY <4>3, <4>4, Zenon
    <3> QED BY <1>1, <1>5, <3>1, <3>2 DEF Accept, Typed
  <2> QED
    BY <1>5, <2>1, <2>2, <2>3, <2>4 DEF Accept, Taken, Typed, QueueTyped, below
<1> QED
  BY <1>2, <1>3, <1>4, <1>5 DEF MakeRequest

\* A non-empty set of naturals has a least member.
LEMMA LeastNat ==
  ASSUME NEW S \in SUBSET Nat, S # {}
  PROVE  \E m \in S : \A n \in S : m <= n
<1> DEFINE R == {ss \in Nat \X Nat : ss[1] < ss[2]}
<1>1. IsWellFoundedOn(R, Nat)
  BY NatLessThanWellFounded DEF OpToRel
<1>2. PICK m \in S : \A n \in S : ~ (<<n, m>> \in R)
  <2> HIDE DEF R
  <2> QED BY <1>1, WFMin
<1>3. ASSUME NEW n \in S PROVE m <= n
  <2>1. ~ (<<n, m>> \in R) /\ n \in Nat /\ m \in Nat
    BY <1>2
  <2> QED BY <2>1
<1> QED BY <1>3

\* The oldest of some queued messages is one of them and older than the rest.
LEMMA OldestExists ==
  ASSUME NEW N \in Nat, QueueTyped(N), NEW S, S \subseteq Range(order), S # {}
  PROVE  Oldest(S) \in S /\ \A n \in S \ {Oldest(S)} : Older(Oldest(S), n)
<1> DEFINE I == {i \in DOMAIN order : order[i] \in S}
<1>1. DOMAIN order = 1..Len(order) /\ Len(order) \in Nat
  BY LenProperties DEF QueueTyped
<1>2. I \in SUBSET Nat /\ I # {}
  BY <1>1 DEF Range
<1>3. PICK i \in I : \A j \in I : i <= j
  BY <1>2, LeastNat
<1>4. ASSUME NEW n \in S \ {order[i]} PROVE Older(order[i], n)
  <2>1. PICK j \in I : order[j] = n
    BY DEF Range
  <2>2. i < j
    BY <1>1, <1>3, <2>1
  <2> QED BY <2>1, <2>2 DEF Older
<1>5. order[i] \in S
  OBVIOUS
<1>6. \E m \in S : \A n \in S \ {m} : Older(m, n)
  BY <1>4, <1>5
<1> QED BY <1>6 DEF Oldest

\* Replays that fit.
LEMMA FitsTyped ==
  ASSUME NEW N \in Nat, QueueTyped(N), replays \in Seq(1..N)
  PROVE  /\ Fits \in 0..Len(replays)
         /\ Fits = 0 \/ AreSlotsAvailable(Fits)
         /\ SubSeq(replays, 1, Fits) \in Seq(1..N)
         /\ Len(SubSeq(replays, 1, Fits)) = Fits
         /\ SubSeq(replays, Fits + 1, Len(replays)) \in Seq(1..N)
<1>1. Len(replays) \in Nat /\ \A j \in 1..Len(replays) : replays[j] \in 1..N
  BY ElementOfSeq, LenProperties
<1>2. Visible \in Int /\ MaxSize \in Nat
  <2>1. Occupied \in Nat
    BY OccupiedNat
  <2> QED BY <2>1, IngressAssumption DEF Visible, QueueTyped
<1>3. Fits \in 0..Len(replays) /\ (Fits = 0 \/ AreSlotsAvailable(Fits))
  BY <1>1, <1>2 DEF Fits, AreSlotsAvailable
<1> HIDE DEF Fits
<1>4. /\ SubSeq(replays, 1, Fits) \in Seq(1..N)
      /\ Len(SubSeq(replays, 1, Fits)) = Fits
  BY <1>1, <1>3, SubSeqProperties
<1>5. SubSeq(replays, Fits + 1, Len(replays)) \in Seq(1..N)
  BY <1>1, <1>3, SubSeqProperties
<1> QED BY <1>3, <1>4, <1>5

\* The queue's choices return what they should.
LEMMA PicksHold ==
  ASSUME Types
  PROVE  Picks
<1>1. PICK N : N = Len(req)
  OBVIOUS
<1>2. N \in Nat /\ QueueTyped(N) /\ replays \in Seq(1..N)
  BY <1>1, LenProperties DEF Types, Typed
<1>3. Fits \in 0..Len(replays)
  BY <1>2, FitsTyped
<1>4. ASSUME NEW S \in SUBSET Range(order), S # {}
      PROVE  Oldest(S) \in S /\ \A n \in S \ {Oldest(S)} : Older(Oldest(S), n)
  BY <1>2, <1>4, OldestExists
<1> QED BY <1>3, <1>4 DEF Picks

-----------------------------------------------------------------------------

\* Every step keeps the types.
LEMMA TypesInit == Init => Types
<1> SUFFICES ASSUME Init PROVE Types
  OBVIOUS
<1>1. Len(req) = 0 /\ req \in Seq(Requests) /\ Range(order) = {}
  BY DEF Init, QueueInit, Range
<1>2. IsFiniteSet(stallMap)
  BY FS_EmptySet DEF Init, QueueInit
<1>3. QueueTyped(0)
  BY <1>1, <1>2 DEF Init, QueueInit, QueueTyped, NoMsg, NoPop
<1>4. table \in [Keys -> Seq(1..0)] /\ store \in [Keys -> Nat]
  BY DEF Init, NoWriter
<1>5. /\ replays \in Seq(1..0) /\ toL1 \in Seq(1..0)
      /\ resp \in Seq([msg : 1..0, val : Nat])
  BY EmptySeq DEF Init
<1>6. pend \in [Ports -> 0..0] /\ waiting \in [Ports -> BOOLEAN]
  BY DEF Init, NoMsg
<1>7. Typed(0)
  BY <1>3, <1>4, <1>5, <1>6 DEF Init, Typed, NoCallback
<1> QED
  BY <1>1, <1>7 DEF Types, SpmOnly, Init

\* A request of the core.
LEMMA SendTypes ==
  ASSUME Types, NEW r \in Requests, Send(r)
  PROVE  Types'
<1>1. PICK N : N = Len(req) + 1
  OBVIOUS
<1>2. req' \in Seq(Requests) /\ Len(req') = N /\ N \in Nat /\ Len(req) \in Nat
  BY <1>1, AppendProperties, LenProperties DEF Types, Send
<1>3. Typed(N)
  BY <1>1, <1>2, TypedGrows DEF Types
<1>4. PortOf(r) \in Ports
  BY SequencerAssumption
<1>5. MakeRequest(PortOf(r), N, r) /\ UNCHANGED <<cb, below>>
  BY <1>1 DEF Send
<1>6. Typed(N)'
  BY <1>1, <1>2, <1>3, <1>4, <1>5, MakeRequestTyped
<1>7. SpmOnly'
  <2>1. toL1' = toL1 /\ toL1 \in Seq(1..Len(req)) /\ req' = Append(req, r)
    BY DEF Send, below, Types, Typed
  <2>2. \A n \in DOMAIN toL1 : toL1[n] \in 1..Len(req)
    BY <2>1
  <2>3. \A i \in 1..Len(req) : req'[i] = req[i]
    BY <2>1, AppendProperties DEF Types
  <2> QED BY <2>1, <2>2, <2>3 DEF Types, SpmOnly, Spm, Kind
<1> QED
  BY <1>2, <1>6, <1>7 DEF Types, Typed, QueueTyped, Callbacks

\* A retried request.
LEMMA ResendTypes ==
  ASSUME Types, NEW p \in Ports, Resend(p)
  PROVE  Types'
<1>1. PICK N : N = Len(req)
  OBVIOUS
<1>2. N \in Nat /\ req' = req
  BY <1>1, LenProperties DEF Types, Resend
<1>3. pend[p] \in 1..N
  BY <1>1, <1>2 DEF Types, Typed, Resend, NoMsg
<1>4. req[pend[p]] \in Requests
  BY <1>1, <1>3, ReqKnown DEF Types
<1>5. PICK i : i = pend[p]
  OBVIOUS
<1>6. PICK r : r = req[i]
  OBVIOUS
<1>7. Typed(N)'
  BY <1>1, <1>2, <1>3, <1>4, <1>5, <1>6, MakeRequestTyped DEF Types, Resend
<1>8. SpmOnly'
  BY SpmOnlyKept DEF Types, Resend, below
<1> QED
  BY <1>1, <1>2, <1>7, <1>8 DEF Types, Typed, QueueTyped, Callbacks

\* A callback starts for a message in flight.
LEMMA CallbackTyped ==
  ASSUME Types, NEW i \in 1..Len(req), NEW val \in Nat,
         NEW by \in {"hit", "miss", "spm"}, Callback(i, val, by)
  PROVE  cb' \in Callbacks(Len(req))
<1>1. req[i].at \in Keys /\ req[i] \in Requests
  BY ReqKnown DEF Types
<1> QED BY <1>1 DEF Callback, Callbacks, Reads, Spm

\* The steps of a callback.
LEMMA CallbackStepsTypes ==
  ASSUME Types, HitCallback \/ PopFront \/ Reissue \/ CallbackDone
  PROVE  Types'
<1> DEFINE N == Len(req)
<1>0. N \in Nat /\ req' = req /\ SpmOnly'
  BY LenProperties, SpmOnlyKept
  DEF Types, HitCallback, PopFront, Reissue, CallbackDone, below
<1>1. cb \in Callbacks(N)
  BY DEF Types, Typed, NoCallback, HitCallback, PopFront, Reissue, CallbackDone
<1>2. cb.at \in Keys /\ table[cb.at] \in Seq(1..N)
  BY <1>1 DEF Types, Typed, Callbacks
<1>3. table[cb.at] # <<>> => Leader \in 1..N
  BY <1>2, HeadTailProperties DEF Leader
<1>4. CASE HitCallback
  <2>1. cb' \in Callbacks(N)
    BY <1>1, <1>4 DEF HitCallback, Callbacks
  <2>2. store' \in [Keys -> Nat] /\ waiting' \in [Ports -> BOOLEAN]
    BY <1>2, <1>3, <1>4 DEF HitCallback, Types, Typed, Retries
  <2> HIDE DEF N
  <2>3. Typed(N)'
    BY <1>1, <1>4, <2>1, <2>2, <1>0 DEF HitCallback, Types, Typed, QueueTyped, queue, Callbacks, N
  <2> QED BY <1>0, <2>3 DEF Types, N
<1>5. CASE PopFront
  <2>1. cb' \in Callbacks(N) /\ cb'.step = "serve"
    BY <1>1, <1>5 DEF PopFront, Callbacks
  <2>2. table' \in [Keys -> Seq(1..N)]
    <3>1. table[cb.at] # <<>>
      BY <1>5 DEF PopFront, Types, Typed
    <3> QED BY <1>2, <1>5, <3>1, HeadTailProperties DEF PopFront, Types, Typed
  <2> HIDE DEF N
  <2>3. Typed(N)'
    BY <1>0, <1>5, <2>1, <2>2
    DEF PopFront, Types, Typed, QueueTyped, queue, core, below, Callbacks, N
  <2> QED BY <1>0, <2>3 DEF Types, N
<1>6. CASE Reissue
  <2>1. cb' \in Callbacks(N) /\ cb'.step = "over"
    BY <1>1, <1>6 DEF Reissue, Callbacks
  <2>2. Leader \in 1..N
    BY <1>3, <1>6 DEF Reissue
  <2>3. /\ replays' \in Seq(1..N) /\ event' \in {"none", "next", "due"}
        /\ QueueTyped(N)'
    <3>1. CASE AreSlotsAvailable(1)
      <4>1. EnqueueAll(<<Leader>>) /\ UNCHANGED <<replays, event>>
        BY <1>6, <3>1 DEF Reissue, IssueRequest
      <4>2. PICK i : i = Leader
        OBVIOUS
      <4>3. PICK M : M = N
        OBVIOUS
      <4>4. QueueTyped(M)'
        BY <1>0, <2>2, <4>1, <4>2, <4>3, EnqueueTyped, OneTyped DEF Types, Typed
      <4> QED BY <1>0, <4>1, <4>3, <4>4 DEF Types, Typed, QueueTyped
    <3>2. CASE ~ AreSlotsAvailable(1)
      <4>1. /\ replays' = Append(replays, Leader)
            /\ Schedule /\ UNCHANGED queue
        BY <1>6, <3>2 DEF Reissue, IssueRequest
      <4> QED BY <1>0, <2>2, <4>1, AppendProperties
              DEF Types, Typed, QueueTyped, queue, Schedule
    <3> QED BY <3>1, <3>2
  <2> HIDE DEF N
  <2>4. Typed(N)'
    BY <1>0, <1>6, <2>1, <2>3
    DEF Reissue, Types, Typed, core, below, Callbacks, N
  <2> QED BY <1>0, <2>4 DEF Types, N
<1>7. CASE CallbackDone
  <2>1. QueueTyped(N)' /\ missing' \subseteq 1..N
    <3>1. CASE cb.by = "hit"
      <4>1. Dequeue(cb.msg) /\ UNCHANGED missing
        BY <1>7, <3>1 DEF CallbackDone
      <4> QED BY <1>0, <4>1, OccupiedNat
              DEF Dequeue, RemoveSelected, Types, Typed, QueueTyped
    <3>2. CASE cb.by = "miss"
      <4>1. Reanalyze(cb.at) /\ missing' = missing \ {cb.msg}
        BY <1>7, <3>2 DEF CallbackDone
      <4>2. IsFiniteSet(stallMap \ WaitFor(cb.at))
        BY FS_Difference DEF Types, Typed, QueueTyped
      <4> QED BY <1>0, <4>1, <4>2
              DEF Reanalyze, WaitFor, Types, Typed, QueueTyped
    <3>3. CASE cb.by = "spm"
      BY <1>0, <1>7, <3>3 DEF CallbackDone, Types, Typed, QueueTyped, queue
    <3> QED BY <1>1, <3>1, <3>2, <3>3 DEF Callbacks
  <2>2. cb' = NoCallback
    BY <1>7 DEF CallbackDone
  <2> HIDE DEF N
  <2>3. Typed(N)'
    BY <1>0, <1>7, <2>1, <2>2
    DEF CallbackDone, Types, Typed, core, admission, NoCallback, N
  <2> QED BY <1>0, <2>3 DEF Types, N
<1> QED BY <1>4, <1>5, <1>6, <1>7

\* The L0's mandatory port and the response of a miss.
LEMMA L0Types ==
  ASSUME Types, NEW i,
         L0Hit \/ L0Miss \/ L0Spm \/ L0Stall \/ StallAndWait(i) \/ Response(i)
  PROVE  Types'
<1> DEFINE N == Len(req)
<1>0. /\ N \in Nat /\ req' = req
      /\ StallAndWait(i) \/ Response(i) => i \in 1..N
      /\ toL1' = toL1 => SpmOnly'
  BY LenProperties, SpmOnlyKept
  DEF Types, Typed, L0Hit, L0Miss, L0Spm, L0Stall, StallAndWait, Response, below
<1>1. QueueTyped(N) /\ Picks
  BY PicksHold DEF Types, Typed
<1>2. IsReady => Peek \in heap /\ Peek \in 1..N
  BY <1>0, <1>1, PeekIn DEF IsReady, QueueTyped
<1>3. CASE L0Hit
  <2>1. cb' \in Callbacks(N) /\ cb'.step = "serve"
    BY <1>2, <1>3, CallbackTyped DEF L0Hit, CanServe, NoWriter, Callback
  <2> QED BY <1>0, <1>3, <2>1
    DEF L0Hit, Types, Typed, QueueTyped, queue, core, admission, below
<1>4. CASE Response(i)
  <2>1. cb' \in Callbacks(N) /\ cb'.step = "serve"
    BY <1>0, <1>4, CallbackTyped DEF Response, NoWriter, Callback
  <2> QED BY <1>0, <1>4, <2>1
    DEF Response, Types, Typed, QueueTyped, queue, core, admission, below
<1>5. ASSUME NEW m, Dequeue(m) PROVE QueueTyped(N)'
  <2>1. IsFiniteSet(heap) /\ Occupied \in Nat
    BY <1>0, <1>1, OccupiedNat
  <2> QED BY <1>0, <1>1, <1>5, <2>1 DEF Dequeue, RemoveSelected, QueueTyped
<1>6. CASE L0Miss
  <2>1. QueueTyped(N)' /\ missing' \subseteq 1..N
    BY <1>2, <1>5, <1>6 DEF L0Miss, CanServe, Types, Typed
  <2> QED BY <1>0, <1>6, <2>1
    DEF L0Miss, Types, Typed, core, admission, Callbacks
<1>7. CASE L0Spm
  <2>1. QueueTyped(N)' /\ toL1' \in Seq(1..N)
    BY <1>2, <1>5, <1>7, AppendProperties DEF L0Spm, CanServe, Types, Typed
  <2>2. SpmOnly'
    <3>1. toL1' = Append(toL1, Peek) /\ toL1 \in Seq(1..N) /\ Spm(Peek) /\ Peek \in 1..N
      BY <1>2, <1>7 DEF L0Spm, CanServe, Types, Typed
    <3>2. \A n \in DOMAIN toL1' : Spm(toL1'[n])
      BY <3>1 DEF Types, SpmOnly
    <3> QED BY <1>0, <3>2 DEF SpmOnly, Spm, Kind
  <2> QED BY <1>0, <1>7, <2>1, <2>2
    DEF L0Spm, Types, Typed, core, admission, Callbacks
<1>8. CASE L0Stall
  <2>1. PICK M : M = N
    OBVIOUS
  <2>2. QueueTyped(M)'
    BY <1>0, <1>1, <1>8, <2>1, SelectedIn DEF L0Stall, CanServe, IsReady
  <2>3. QueueTyped(N)'
    BY <1>0, <2>1, <2>2 DEF QueueTyped
  <2> QED BY <1>0, <1>8, <2>3
    DEF L0Stall, Types, Typed, core, admission, below, Callbacks
<1>9. CASE StallAndWait(i)
  <2>1. req[i].at \in Keys /\ Peek \in heap /\ Peek \in 1..N
    BY <1>0, <1>2, <1>9, ReqKnown DEF StallAndWait, CanServe, Types
  <2>2. IsFiniteSet(stallMap \cup {<<Peek, req[i].at>>})
    BY <1>1, FS_AddElement DEF QueueTyped
  <2>3. IsFiniteSet(heap) /\ Occupied \in Nat
    BY <1>0, <1>1, OccupiedNat
  <2>4. QueueTyped(N)'
    <3>1. /\ stallMap' = stallMap \cup {<<Peek, req[i].at>>}
          /\ heap' = heap \ {Peek} /\ selected' = NoMsg
          /\ popped' = IF popped = NoPop THEN Occupied ELSE popped
          /\ order' = order /\ enqueued' = enqueued
      BY <1>9 DEF StallAndWait, StallMessage, RemoveSelected
    <3>2. Peek \in Range(order)
      BY <1>1, <2>1 DEF QueueTyped
    <3>3. /\ stallMap' \subseteq (1..N) \X Keys
          /\ \A w \in stallMap' : w[1] \in Range(order)
      BY <1>1, <2>1, <3>1, <3>2 DEF QueueTyped
    <3>4. IsFiniteSet(stallMap')
      BY <2>2, <3>1
    <3>5. popped' \in Nat \cup {NoPop}
      BY <1>1, <2>3, <3>1 DEF QueueTyped
    <3>6. heap' \subseteq 1..N /\ heap' \subseteq Range(order)
      BY <1>1, <3>1 DEF QueueTyped
    <3> QED BY <1>0, <1>1, <3>1, <3>3, <3>4, <3>5, <3>6 DEF QueueTyped
  <2> QED BY <1>0, <1>9, <2>4
    DEF StallAndWait, Types, Typed, core, admission, below, Callbacks
<1> QED BY <1>3, <1>4, <1>6, <1>7, <1>8, <1>9

\* The L1 and its responses.
LEMMA L1Types ==
  ASSUME Types, L1Take \/ (\E i \in Ids : L1Install(i))
                       \/ (\E k \in DOMAIN resp : SpmResponse(k))
  PROVE  Types'
<1> DEFINE N == Len(req)
<1>0. N \in Nat /\ req' = req
  BY LenProperties DEF Types, L1Take, L1Install, SpmResponse
<1>1. ASSUME NEW i \in 1..N, NEW v \in Nat
      PROVE  Append(resp, [msg |-> i, val |-> v]) \in Seq([msg : 1..N, val : Nat])
  BY AppendProperties DEF Types, Typed
<1>2. CASE L1Take
  <2>0. PICK i : i = Head(toL1)
    OBVIOUS
  <2>1. /\ i \in 1..N /\ Tail(toL1) \in Seq(1..N) /\ Spm(i)
        /\ \A n \in DOMAIN Tail(toL1) : Spm(Tail(toL1)[n])
    <3>1. toL1 \in Seq(1..N) /\ toL1 # <<>>
      BY <1>2 DEF L1Take, Types, Typed
    <3>2. i = toL1[1] /\ 1 \in DOMAIN toL1
      BY <2>0, <3>1
    <3>3. Tail(toL1) \in Seq(1..N) /\ \A n \in DOMAIN Tail(toL1) :
             n + 1 \in DOMAIN toL1 /\ Tail(toL1)[n] = toL1[n + 1]
      BY <3>1
    <3>4. \A n \in DOMAIN toL1 : Spm(toL1[n])
      BY DEF Types, SpmOnly
    <3>5. i \in 1..N
      BY <3>1, <3>2
    <3> HIDE DEF N
    <3> QED BY ONLY <3>2, <3>3, <3>4, <3>5
  <2>2. req[i].slot \in Keys
    BY <2>1, ReqKnown DEF Types
  <2>3. store' \in [Keys -> Nat] /\ atL1' \subseteq 1..N
    <3>1. i \in Nat /\ store \in [Keys -> Nat] /\ atL1 \subseteq 1..N
      BY <2>1 DEF Types, Typed
    <3>2. store' = store \/ store' = [store EXCEPT ![req[i].slot] = i]
      BY <1>2, <2>0 DEF L1Take
    <3>3. atL1' = atL1 \/ atL1' = atL1 \cup {i}
      BY <1>2, <2>0 DEF L1Take
    <3> QED BY <2>1, <3>1, <3>2, <3>3
  <2>4. resp' \in Seq([msg : 1..N, val : Nat])
    <3>1. store[req[i].slot] \in Nat /\ NoWriter \in Nat
      BY <2>2 DEF Types, Typed, NoWriter
    <3>2. \/ resp' = resp \/ resp' = Append(resp, [msg |-> i, val |-> NoWriter])
          \/ resp' = Append(resp, [msg |-> i, val |-> store[req[i].slot]])
      BY <1>2, <2>0 DEF L1Take
    <3> QED BY <1>1, <2>1, <3>1, <3>2 DEF Types, Typed
  <2>5. /\ toL1' = Tail(toL1)
        /\ UNCHANGED <<req, queue, core, admission, cb, missing>>
    BY <1>2 DEF L1Take
  <2>6. SpmOnly'
    BY <1>0, <2>1, <2>5 DEF SpmOnly, Spm, Kind
  <2>7. QueueTyped(N)'
    BY <1>0, <2>5 DEF Types, Typed, QueueTyped, queue
  <2>8. Typed(N)'
    BY <1>0, <2>1, <2>3, <2>4, <2>5, <2>7
    DEF Types, Typed, core, admission, Callbacks
  <2> QED BY <1>0, <2>6, <2>8 DEF Types
<1>3. ASSUME NEW i \in Ids, L1Install(i) PROVE Types'
  <2>1. i \in 1..N
    BY DEF Ids
  <2>2. resp' \in Seq([msg : 1..N, val : Nat])
    BY <1>1, <1>3, <2>1 DEF L1Install, NoWriter
  <2>3. store' \in [Keys -> Nat] /\ atL1' \subseteq 1..N
    <3>1. i \in Nat /\ store \in [Keys -> Nat] /\ atL1 \subseteq 1..N
      BY <2>1 DEF Types, Typed
    <3>2. store' = [store EXCEPT ![req[i].slot] = i] /\ atL1' = atL1 \ {i}
      BY <1>3 DEF L1Install
    <3> QED BY <3>1, <3>2
  <2>4. SpmOnly'
    BY <1>3, SpmOnlyKept DEF L1Install, Types
  <2>5. QueueTyped(N)'
    BY <1>0, <1>3 DEF L1Install, Types, Typed, QueueTyped, queue
  <2>6. Typed(N)'
    BY <1>0, <1>3, <2>2, <2>3, <2>5
    DEF L1Install, Types, Typed, core, admission, Callbacks
  <2> QED BY <1>0, <2>4, <2>6 DEF Types
<1>4. ASSUME NEW k \in DOMAIN resp, SpmResponse(k) PROVE Types'
  <2>1. /\ resp \in Seq([msg : 1..N, val : Nat])
        /\ k \in 1..Len(resp) /\ Len(resp) \in Nat
        /\ resp[k].msg \in 1..N /\ resp[k].val \in Nat
    <3>1. resp \in Seq([msg : 1..N, val : Nat])
      BY DEF Types, Typed
    <3>2. DOMAIN resp = 1..Len(resp) /\ Len(resp) \in Nat
      BY <3>1, LenProperties
    <3>3. resp[k] \in [msg : 1..N, val : Nat]
      BY <3>1, <3>2, ElementOfSeq
    <3> QED BY <3>1, <3>2, <3>3
  <2>2. resp' \in Seq([msg : 1..N, val : Nat])
    <3>0. \A j \in 1..Len(resp) : resp[j] \in [msg : 1..N, val : Nat]
      BY <2>1, ElementOfSeq
    <3>1. SubSeq(resp, 1, k - 1) \in Seq([msg : 1..N, val : Nat])
      BY <2>1, <3>0, SubSeqProperties
    <3>2. SubSeq(resp, k + 1, Len(resp)) \in Seq([msg : 1..N, val : Nat])
      BY <2>1, <3>0, SubSeqProperties
    <3> QED BY <1>4, <3>1, <3>2, ConcatProperties DEF SpmResponse
  <2>3. cb' \in Callbacks(N) /\ cb'.step = "serve"
    BY <1>4, <2>1, CallbackTyped DEF SpmResponse, Callback
  <2> QED BY <1>0, <1>4, <2>2, <2>3
    DEF SpmResponse, Types, Typed, QueueTyped, queue, core, admission, Callbacks, SpmOnly, Spm, Kind
<1> QED BY <1>2, <1>3, <1>4

\* The ingress event and the clock.
LEMMA ClockTypes ==
  ASSUME Types, ServiceIngress \/ Tick
  PROVE  Types'
<1> DEFINE N == Len(req)
<1>0. N \in Nat /\ req' = req /\ SpmOnly'
  BY LenProperties, SpmOnlyKept DEF Types, ServiceIngress, Tick, below
<1>1. CASE ServiceIngress
  <2>1. QueueTyped(N) /\ replays \in Seq(1..N)
    BY DEF Types, Typed
  <2>2. PICK ms : ms = SubSeq(replays, 1, Fits)
    OBVIOUS
  <2>3. PICK M : M = N
    OBVIOUS
  <2>4. QueueTyped(M)'
    BY <1>0, <1>1, <2>1, <2>2, <2>3, FitsTyped, EnqueueTyped DEF ServiceIngress
  <2>5. QueueTyped(N)'
    BY <1>0, <2>3, <2>4 DEF QueueTyped
  <2>6. replays' \in Seq(1..N) /\ waiting' \in [Ports -> BOOLEAN]
        /\ event' \in {"none", "next", "due"}
    BY <1>0, <1>1, <2>1, FitsTyped DEF ServiceIngress, Types, Typed
  <2>7. Typed(N)'
    BY <1>0, <1>1, <2>5, <2>6
    DEF ServiceIngress, Types, Typed, below, Callbacks
  <2> QED BY <1>0, <2>7 DEF Types
<1>2. CASE Tick
  <2>1. QueueTyped(N)'
    BY <1>0, <1>2 DEF Tick, NextCycle, Types, Typed, QueueTyped
  <2>2. Typed(N)'
    BY <1>0, <1>2, <2>1 DEF Tick, Types, Typed, core, below, Callbacks
  <2> QED BY <1>0, <2>2 DEF Types
<1> QED BY <1>1, <1>2

\* Every step of the Sequencer keeps the types.
LEMMA TypesStep ==
  ASSUME Types, [Next]_vars
  PROVE  Types'
<1>1. CASE UNCHANGED vars
  BY <1>1 DEF vars, Types, Typed, QueueTyped, queue, core, admission, below,
              SpmOnly, Spm, Kind, Callbacks
<1>2. ASSUME NEW r \in Requests, Send(r) PROVE Types'
  BY <1>2, SendTypes
<1>3. ASSUME NEW p \in Ports, Resend(p) PROVE Types'
  BY <1>3, ResendTypes
<1>4. ASSUME HitCallback \/ PopFront \/ Reissue \/ CallbackDone PROVE Types'
  BY <1>4, CallbackStepsTypes
<1>5. ASSUME NEW i, L0Hit \/ L0Miss \/ L0Spm \/ L0Stall \/ StallAndWait(i) \/ Response(i)
      PROVE  Types'
  BY <1>5, L0Types
<1>6. ASSUME L1Take \/ (\E i \in Ids : L1Install(i))
                    \/ (\E k \in DOMAIN resp : SpmResponse(k))
      PROVE  Types'
  BY <1>6, L1Types
<1>7. ASSUME ServiceIngress \/ Tick PROVE Types'
  BY <1>7, ClockTypes
<1> QED
  BY <1>1, <1>2, <1>3, <1>4, <1>5, <1>6, <1>7 DEF Next

\* The state of the Sequencer, the queue and the L0 and L1 keeps its types.
THEOREM TypeCorrect == Spec => []Types
BY TypesInit, TypesStep, PTL DEF Spec

-----------------------------------------------------------------------------
(* The outstanding count.  A request is in one place of one line's list,   *)
(* and a packet a port still has to send is in none.                       *)

\* The requests of the table are finitely many.
LEMMA LiveFinite ==
  ASSUME NEW N \in Nat, NEW t \in [Keys -> Seq(1..N)]
  PROVE  /\ LiveIn(t) \subseteq 1..N
         /\ \A S \in SUBSET LiveIn(t) : IsFiniteSet(S) /\ Cardinality(S) \in Nat
<1>1. \A k \in Keys : Range(t[k]) \subseteq 1..N
  BY RangeOfSeq
<1>2. LiveIn(t) \subseteq 1..N
  BY <1>1 DEF LiveIn
<1>3. IsFiniteSet(1..N)
  BY FS_Interval
<1>4. \A S \in SUBSET (1..N) : IsFiniteSet(S)
  BY <1>3, FS_Subset
<1> QED BY <1>2, <1>4, FS_CardinalityType

\* The counted requests: those of the table but the one whose callback has been made.
LEMMA ActiveIs ==
  /\ Active = LiveIn(table) \ (IF cb.step = "hit" THEN {Head(table[cb.at])} ELSE {})
  /\ Active' = LiveIn(table') \ (IF cb'.step = "hit" THEN {Head(table'[cb'.at])} ELSE {})
BY DEF Active, Live, LiveIn

\* A step that neither touches the table nor enters or leaves an answer.
LEMMA CountedKept ==
  ASSUME Types, Counted, UNCHANGED <<req, table, pend, outstanding>>,
         cb' = cb \/ (cb.step # "hit" /\ cb'.step # "hit")
  PROVE  Counted'
<1>1. Active' = Active
  BY ActiveIs
<1> QED BY <1>1 DEF Counted, Placed, OutstandingExact, LiveIn

\* makeRequest, for a request of port p that is in no list.
LEMMA MakeRequestCounted ==
  ASSUME NEW N \in Nat, Typed(N), Counted, req' \in Seq(Requests),
         NEW p \in Ports, NEW i \in 1..N,
         NEW r \in Requests, MakeRequest(p, i, r), cb' = cb,
         \A j \in 1..N : j # i => req'[j] = req[j],
         req'[i] = r, PortOf(r) = p,
         i \notin LiveIn(table), \A q \in Ports \ {p} : pend[q] # i
  PROVE  Counted'
<1>1. /\ table \in [Keys -> Seq(1..N)] /\ r.at \in Keys /\ pend \in [Ports -> 0..N]
      /\ \A k \in Keys : \A n \in DOMAIN table[k] :
            table[k][n] \in 1..N /\ table[k][n] # i
  <2>1. table \in [Keys -> Seq(1..N)] /\ r.at \in Keys /\ pend \in [Ports -> 0..N]
    BY SequencerAssumption DEF Typed
  <2>2. ASSUME NEW k \in Keys, NEW n \in DOMAIN table[k]
        PROVE  table[k][n] \in 1..N /\ table[k][n] \in LiveIn(table)
    BY <2>1 DEF LiveIn, Range
  <2> QED BY <2>1, <2>2
<1>2. i # NoMsg
  BY DEF NoMsg
<1>3. \/ UNCHANGED <<table, outstanding>>
      \/ /\ table' = [table EXCEPT ![r.at] = Append(@, i)]
         /\ outstanding' = outstanding + 1
         /\ pend' = [pend EXCEPT ![p] = NoMsg]
  BY DEF MakeRequest, RefuseIngress, RefuseAdmission, DropPrefetch, Accept, Refuse, Taken
<1>4. pend' = [pend EXCEPT ![p] = i] \/ pend' = [pend EXCEPT ![p] = NoMsg]
  BY DEF MakeRequest, RefuseIngress, RefuseAdmission, DropPrefetch, Accept, Refuse, Taken
<1>5. ASSUME NEW q \in Ports, pend'[q] # NoMsg
      PROVE  PortOf(req'[pend'[q]]) = q /\ pend'[q] \notin LiveIn(table)
  <2>1. CASE q = p
    BY <1>1, <1>4, <1>5, <2>1
  <2>2. CASE q # p
    <3>1. pend'[q] = pend[q] /\ pend[q] \in 1..N /\ pend[q] # i
      BY <1>1, <1>4, <1>5, <2>2 DEF NoMsg
    <3> QED BY <1>5, <3>1 DEF Counted, Placed
  <2> QED BY <2>1, <2>2
<1>6. CASE UNCHANGED <<table, outstanding>>
  <2>1. Active' = Active
    BY <1>6, ActiveIs
  <2>2. Placed'
    BY <1>1, <1>5, <1>6 DEF Counted, Placed
  <2> QED BY <1>6, <2>1, <2>2 DEF Counted, OutstandingExact
<1>7. CASE /\ table' = [table EXCEPT ![r.at] = Append(@, i)]
           /\ outstanding' = outstanding + 1
           /\ pend' = [pend EXCEPT ![p] = NoMsg]
  <2>0. PICK t, u, k : t = table /\ u = table' /\ k = r.at
    OBVIOUS
  <2>1. /\ LiveIn(u) = LiveIn(t) \cup {i}
        /\ t[k] # <<>> => Head(u[k]) = Head(t[k])
        /\ IsInjective(u[k])
        /\ \A j \in Keys \ {k} : u[j] = t[j]
    <3>1. /\ t \in [Keys -> Seq(1..N)] /\ k \in Keys /\ u = [t EXCEPT ![k] = Append(@, i)]
          /\ i \notin LiveIn(t) /\ IsInjective(t[k])
      BY <1>1, <1>7, <2>0 DEF Counted, Placed
    <3>2. /\ LiveIn(u) = LiveIn(t) \cup {i}
          /\ t[k] # <<>> => Head(u[k]) = Head(t[k])
          /\ i \notin LiveIn(t) /\ IsInjective(t[k]) => IsInjective(u[k])
      BY ONLY <3>1, AppendLive, N \in Nat, i \in 1..N, Zenon
    <3> QED BY <3>1, <3>2
  <2>2. \A j \in Keys : IsInjective(u[j])
    BY <2>0, <2>1 DEF Counted, Placed
  <2>3. ASSUME NEW j \in Keys, NEW n \in DOMAIN u[j] PROVE req'[u[j][n]].at = j
    <3>1. CASE j # k
      <4>1. n \in DOMAIN table[j] /\ u[j][n] = table[j][n]
        BY <2>0, <2>1, <2>3, <3>1
      <4>2. req[table[j][n]].at = j
        BY <4>1 DEF Counted, Placed
      <4> QED BY <1>1, <4>1, <4>2
    <3>2. CASE j = k /\ u[j][n] = i
      BY <2>0, <3>2
    <3>3. CASE j = k /\ u[j][n] # i
      <4>1. u[k] = Append(t[k], i) /\ t[k] \in Seq(1..N)
        BY <1>1, <1>7, <2>0
      <4>2. n \in DOMAIN t[k] /\ u[k][n] = t[k][n]
        <5>1. PICK s, l, v : s = t[k] /\ l = Len(t[k]) /\ v = u[k]
          OBVIOUS
        <5>2. s \in Seq(1..N) /\ v = Append(s, i) /\ l = Len(s) /\ l \in Nat
          BY <4>1, <5>1, LenProperties
        <5>3. /\ DOMAIN v = 1..(l + 1) /\ DOMAIN s = 1..l /\ v[l + 1] = i
              /\ \A a \in 1..l : v[a] = s[a]
          BY ONLY <1>1, <5>2, AppendProperties, LenProperties
        <5>4. n \in 1..(l + 1) /\ n # l + 1
          BY <2>3, <3>3, <5>1, <5>3
        <5>5. n \in 1..l
          BY ONLY <5>2, <5>4
        <5> QED BY <5>1, <5>3, <5>5
      <4>3. n \in DOMAIN table[j] /\ u[j][n] = table[j][n]
        BY <2>0, <3>3, <4>2
      <4>4. req[table[j][n]].at = j
        BY <4>3 DEF Counted, Placed
      <4> QED BY <1>1, <4>3, <4>4
    <3> QED BY <3>1, <3>2, <3>3
  <2>4. \A q \in Ports : pend'[q] # NoMsg => pend'[q] # i
    BY <1>1, <1>7
  <2>5. Placed'
    BY <1>5, <2>0, <2>1, <2>2, <2>3, <2>4 DEF Placed
  <2>6. Active' = Active \cup {i} /\ i \notin Active
    <3>1. cb.step = "hit" => table[cb.at] # <<>> /\ cb.at \in Keys
      BY DEF Typed, Callbacks, NoCallback
    <3>2. cb.step = "hit" => Head(u[cb.at]) = Head(t[cb.at])
      BY <2>0, <2>1, <3>1
    <3>3. cb.step = "hit" => Head(t[cb.at]) \in LiveIn(t)
      <4>1. ASSUME NEW a \in Keys, t[a] # <<>> PROVE Head(t[a]) \in Range(t[a])
        BY <1>1, <2>0, <4>1 DEF Range
      <4> QED BY <2>0, <3>1, <4>1 DEF LiveIn
    <3> QED BY <2>0, <2>1, <3>2, <3>3, ActiveIs
  <2>7. IsFiniteSet(Active)
    BY <1>1, LiveFinite, ActiveIs
  <2>8. PICK A, B : A = Active /\ B = Active'
    OBVIOUS
  <2>9. Cardinality(B) = Cardinality(A) + 1
    BY <2>6, <2>7, <2>8, FS_AddElement
  <2> QED BY <1>7, <2>5, <2>8, <2>9 DEF Counted, OutstandingExact
<1> QED BY <1>3, <1>6, <1>7

\* hitCallback gives the credit back before the record leaves the list.
LEMMA AnswerCounted ==
  ASSUME Types, Counted, HitCallback \/ PopFront
  PROVE  Counted'
<1>0. PICK N, t, k : N = Len(req) /\ t = table /\ k = cb.at
  OBVIOUS
<1>1. /\ N \in Nat /\ t \in [Keys -> Seq(1..N)] /\ k \in Keys /\ t[k] # <<>>
      /\ cb \in Callbacks(N)
  BY <1>0, LenProperties DEF Types, Typed, HitCallback, PopFront, Callbacks, NoCallback
<1>2. Head(t[k]) \in Range(t[k]) /\ Head(t[k]) \in LiveIn(t)
  <2>1. Head(t[k]) \in Range(t[k])
    BY <1>1 DEF Range
  <2> QED BY <1>1, <2>1 DEF LiveIn
<1>3. CASE HitCallback
  <2>1. /\ UNCHANGED <<req, table, pend>> /\ outstanding' = outstanding - 1
        /\ cb.step = "serve" /\ cb'.step = "hit" /\ cb'.at = k
    BY <1>0, <1>1, <1>3 DEF HitCallback, Callbacks
  <2>2. PICK A, B : A = Active /\ B = Active'
    OBVIOUS
  <2>3. A = LiveIn(t) /\ B = LiveIn(t) \ {Head(t[k])}
    BY <1>0, <2>1, <2>2, ActiveIs
  <2>4. IsFiniteSet(A)
    BY <1>1, <2>3, LiveFinite
  <2>5. Cardinality(B) = Cardinality(A) - 1
    BY <1>2, <2>3, <2>4, FS_RemoveElement
  <2>6. Placed'
    BY <2>1 DEF Counted, Placed
  <2> QED BY <2>1, <2>2, <2>5, <2>6 DEF Counted, OutstandingExact
<1>4. CASE PopFront
  <2>1. /\ UNCHANGED <<req, pend, outstanding>>
        /\ table' = [t EXCEPT ![k] = Tail(@)]
        /\ cb.step = "hit" /\ cb'.step = "serve"
    BY <1>0, <1>1, <1>4 DEF PopFront, core, Callbacks
  <2>2. PICK u : u = table'
    OBVIOUS
  <2>3. \A j \in Keys \ {k} : Range(t[j]) \cap Range(t[k]) = {}
    <3> SUFFICES ASSUME NEW j \in Keys, j # k, NEW x \in Range(t[j]) \cap Range(t[k])
                 PROVE  FALSE
      OBVIOUS
    <3>1. PICK m \in DOMAIN t[j] : t[j][m] = x
      BY DEF Range
    <3>2. PICK n \in DOMAIN t[k] : t[k][n] = x
      BY DEF Range
    <3>3. req[x].at = j /\ req[x].at = k
      BY <1>0, <1>1, <3>1, <3>2 DEF Counted, Placed
    <3> QED BY <3>3
  <2>4. IsInjective(t[k]) /\ u = [t EXCEPT ![k] = Tail(@)]
    BY <1>0, <1>1, <2>1, <2>2 DEF Counted, Placed
  <2>5. LiveIn(u) = LiveIn(t) \ {Head(t[k])} /\ IsInjective(u[k])
    BY ONLY <1>1, <2>3, <2>4, TailLive, Zenon
  <2>6. Active' = Active
    BY <1>0, <2>1, <2>2, <2>5, ActiveIs
  <2>7. \A j \in Keys \ {k} : u[j] = t[j]
    BY <1>1, <2>4
  <2>8. \A j \in Keys : IsInjective(u[j])
    BY <1>0, <2>5, <2>7 DEF Counted, Placed
  <2>9. ASSUME NEW j \in Keys, NEW n \in DOMAIN u[j] PROVE req[u[j][n]].at = j
    <3>1. CASE j # k
      BY <1>0, <2>7, <2>9, <3>1 DEF Counted, Placed
    <3>2. CASE j = k
      <4>1. u[k] = Tail(t[k]) /\ t[k] \in Seq(1..N)
        BY <1>1, <2>4
      <4>2. n + 1 \in DOMAIN t[k] /\ u[k][n] = t[k][n + 1]
        BY <1>1, <2>9, <3>2, <4>1
      <4> QED BY <1>0, <1>1, <3>2, <4>2 DEF Counted, Placed
    <3> QED BY <3>1, <3>2
  <2>10. Placed'
    BY <1>0, <2>1, <2>2, <2>5, <2>8, <2>9 DEF Counted, Placed
  <2> QED BY <2>1, <2>6, <2>10 DEF Counted, OutstandingExact
<1> QED BY <1>3, <1>4

\* Every step of the Sequencer keeps Counted.
LEMMA CountedStep ==
  ASSUME Types, Counted, [Next]_vars
  PROVE  Counted'
<1>1. PICK N : N = Len(req) + 1
  OBVIOUS
<1>2. /\ N \in Nat /\ Len(req) \in Nat /\ Typed(N) /\ req \in Seq(Requests)
      /\ pend \in [Ports -> 0..Len(req)] /\ LiveIn(table) \subseteq 1..Len(req)
  <2>1. N \in Nat /\ Len(req) \in Nat /\ Len(req) <= N /\ req \in Seq(Requests)
    BY <1>1, LenProperties DEF Types
  <2>2. Typed(N)
    BY <2>1, TypedGrows DEF Types
  <2>3. PICK M, t : M = Len(req) /\ t = table
    OBVIOUS
  <2>4. LiveIn(t) \subseteq 1..M
    BY <2>1, <2>3, LiveFinite DEF Types, Typed
  <2> QED BY <2>1, <2>2, <2>3, <2>4 DEF Types, Typed
<1>3. CASE UNCHANGED vars
  BY <1>3, CountedKept DEF vars, core, admission
<1>4. ASSUME NEW r \in Requests, Send(r) PROVE Counted'
  <2>1. /\ req' = Append(req, r) /\ req' \in Seq(Requests) /\ req'[N] = r
        /\ \A j \in 1..N : j # N => req'[j] = req[j]
    BY <1>1, <1>2, <1>4, AppendProperties DEF Send
  <2>2. PortOf(r) \in Ports /\ N \in 1..N /\ N \notin LiveIn(table)
        /\ \A q \in Ports : pend[q] # N
    BY <1>1, <1>2, SequencerAssumption
  <2>3. MakeRequest(PortOf(r), N, r) /\ cb' = cb
    BY <1>1, <1>4 DEF Send
  <2> QED BY <1>2, <2>1, <2>2, <2>3, MakeRequestCounted
<1>5. ASSUME NEW p \in Ports, Resend(p) PROVE Counted'
  <2>1. PICK i : i = pend[p]
    OBVIOUS
  <2>2. i \in 1..Len(req) /\ i # NoMsg
    BY <1>2, <1>5, <2>1 DEF Resend, NoMsg
  <2>3. PICK r : r = req[i]
    OBVIOUS
  <2>4. /\ r \in Requests /\ PortOf(r) = p /\ i \notin LiveIn(table)
        /\ \A q \in Ports \ {p} : pend[q] # i
    BY <1>2, <2>1, <2>2, <2>3, ReqKnown DEF Counted, Placed
  <2>5. MakeRequest(p, i, r) /\ cb' = cb /\ req' = req
    BY <1>5, <2>1, <2>3 DEF Resend
  <2>6. i \in 1..N
    BY <1>1, <1>2, <2>2
  <2> QED BY <1>2, <2>3, <2>4, <2>5, <2>6, MakeRequestCounted
<1>6. CASE HitCallback \/ PopFront
  BY <1>6, AnswerCounted
<1>7. CASE Reissue \/ CallbackDone
  <2>1. cb'.step # "hit" /\ cb.step # "hit"
    BY <1>7 DEF Reissue, CallbackDone, NoCallback, Types, Typed, Callbacks
  <2>2. /\ table' = table /\ outstanding' = outstanding
        /\ UNCHANGED <<req, pend>>
    BY <1>7 DEF Reissue, CallbackDone, core, admission
  <2> QED BY <2>1, <2>2, CountedKept
<1>8. ASSUME NEW i, L0Hit \/ Response(i) \/ (\E k \in DOMAIN resp : SpmResponse(k))
      PROVE  Counted'
  <2>1. cb'.step # "hit" /\ cb.step # "hit"
    <3>1. cb = NoCallback /\ \E m, v, by : Callback(m, v, by)
      BY <1>8 DEF L0Hit, CanServe, Response, SpmResponse
    <3>2. cb'.step = "serve"
      <4>1. PICK m, v, by : Callback(m, v, by)
        BY <3>1
      <4> QED BY <4>1 DEF Callback
    <3> QED BY <3>1, <3>2 DEF NoCallback
  <2>2. UNCHANGED <<req, core, admission>>
    BY <1>8 DEF L0Hit, Response, SpmResponse
  <2> QED BY <2>1, <2>2, CountedKept DEF core, admission
<1>9. CASE L0Miss \/ L0Spm \/ L0Stall \/ (\E i \in Ids : StallAndWait(i))
  BY <1>9, CountedKept DEF L0Miss, L0Spm, L0Stall, StallAndWait, core, admission
<1>10. CASE L1Take \/ (\E i \in Ids : L1Install(i))
  BY <1>10, CountedKept DEF L1Take, L1Install, core, admission
<1>11. CASE ServiceIngress \/ Tick
  BY <1>11, CountedKept DEF ServiceIngress, Tick, core
<1> QED
  BY <1>3, <1>4, <1>5, <1>6, <1>7, <1>8, <1>9, <1>10, <1>11 DEF Next

\* It holds initially.
LEMMA CountedInit == Init => Counted
<1> SUFFICES ASSUME Init PROVE Counted
  OBVIOUS
<1>1. \A k \in Keys : table[k] = <<>>
  BY DEF Init
<1>2. LiveIn(table) = {}
  BY <1>1 DEF LiveIn, Range
<1>3. Active = {}
  BY <1>2, ActiveIs DEF Init
<1>4. OutstandingExact
  BY <1>3, FS_EmptySet DEF OutstandingExact, Init
<1>5. Placed
  BY <1>1, <1>2 DEF Placed, IsInjective, Init
<1> QED BY <1>4, <1>5 DEF Counted

\* The count that admission compares with its limit is the number of live
\* records, in every state: Sequencer::wakeup's assertion holds.
THEOREM OutstandingCounts == Spec => []OutstandingExact
<1>1. Counted => OutstandingExact
  BY DEF Counted
<1> QED BY <1>1, TypesInit, TypesStep, CountedInit, CountedStep, PTL DEF Spec

-----------------------------------------------------------------------------
(* The retry list.                                                         *)

\* A request is refused admission only while others are outstanding: no
\* domain is empty and full at once, and a line with two targets keeps one
\* when the other is being answered.
LEMMA RefusedBusy ==
  ASSUME LineTargets # 1, MicroTargets # 1,
         Types, Counted, NEW p \in Ports, NEW i, NEW r \in Requests,
         RefuseAdmission(p, i, r)
  PROVE  outstanding \in Nat /\ outstanding > 0
<1>0. PICK N, t, A : N = Len(req) /\ t = table /\ A = Active
  OBVIOUS
<1>1. /\ N \in Nat /\ t \in [Keys -> Seq(1..N)] /\ r.at \in Keys
      /\ A \subseteq LiveIn(t) /\ IsFiniteSet(A) /\ Cardinality(A) \in Nat
      /\ outstanding = Cardinality(A)
  <2>1. /\ N \in Nat /\ t \in [Keys -> Seq(1..N)] /\ r.at \in Keys
        /\ A \subseteq LiveIn(t) /\ outstanding = Cardinality(A)
    BY <1>0, LenProperties, SequencerAssumption, ActiveIs
    DEF Types, Typed, Counted, OutstandingExact
  <2> QED BY <2>1, LiveFinite
<1>2. A # {} => Cardinality(A) > 0
  BY <1>1, FS_EmptySet
<1>3. ASSUME NEW S \in SUBSET A
      PROVE  Cardinality(S) \in Nat /\ (Cardinality(S) > 0 => A # {})
  <2>1. IsFiniteSet(S) /\ Cardinality(S) \in Nat
    BY <1>1, FS_Subset, FS_CardinalityType
  <2> QED BY <2>1, FS_EmptySet
<1>4. Fetching \subseteq A /\ Bridging \subseteq A
  BY <1>0 DEF Fetching, Bridging
<1>5. PICK F, B : F = Cardinality(Fetching) /\ B = Cardinality(Bridging)
  OBVIOUS
<1>6. /\ F \in Nat /\ B \in Nat
      /\ F > 0 => A # {}
      /\ B > 0 => A # {}
  BY <1>3, <1>4, <1>5
<1>7. /\ FetchCredits \in Nat /\ BridgeCredits \in Nat
      /\ MaxOutstanding \in Nat /\ MaxOutstanding > FetchCredits + BridgeCredits
      /\ LineTargets \in Nat \ {1} /\ MicroTargets \in Nat \ {1}
  BY SequencerAssumption
<1>8. CASE AdmissionFull(r)
  <2>1. CASE outstanding >= MaxOutstanding
    BY <1>1, <1>7, <2>1
  <2>2. CASE F >= FetchCredits /\ FetchCredits > 0
    BY <1>1, <1>2, <1>6, <1>7, <2>2
  <2>3. CASE B >= BridgeCredits /\ BridgeCredits > 0
    BY <1>1, <1>2, <1>6, <1>7, <2>3
  <2>4. CASE outstanding - (IF FetchCredits > 0 THEN F ELSE 0)
                         - (IF BridgeCredits > 0 THEN B ELSE 0)
               >= MaxOutstanding - FetchCredits - BridgeCredits
    BY <1>1, <1>6, <1>7, <2>4
  <2> QED BY <1>5, <1>8, <2>1, <2>2, <2>3, <2>4 DEF AdmissionFull
<1>9. CASE TargetsFull(r)
  <2>1. PICK k : k = r.at
    OBVIOUS
  <2>2. k \in Keys /\ Len(t[k]) >= 2 /\ t[k] \in Seq(1..N)
    BY <1>0, <1>1, <1>7, <1>9, <2>1 DEF TargetsFull
  <2>3. t[k][1] \in LiveIn(t) /\ t[k][2] \in LiveIn(t) /\ t[k][1] # t[k][2]
    <3>1. 1 \in DOMAIN t[k] /\ 2 \in DOMAIN t[k]
      BY <2>2
    <3>2. t[k][1] # t[k][2]
      BY <1>0, <2>2, <3>1 DEF Counted, Placed, IsInjective
    <3> QED BY <2>2, <3>1, <3>2 DEF LiveIn, Range
  <2>4. A # {}
    BY <1>0, <2>3, ActiveIs
  <2> QED BY <1>1, <1>2, <2>4
<1> QED BY <1>8, <1>9 DEF RefuseAdmission

\* The outstanding count never goes below zero.
LEMMA OutstandingNat ==
  ASSUME Types, Counted
  PROVE  outstanding \in Nat
<1>1. PICK N, t, A : N = Len(req) /\ t = table /\ A = Active
  OBVIOUS
<1>2. N \in Nat /\ t \in [Keys -> Seq(1..N)] /\ A \subseteq LiveIn(t)
  BY <1>1, LenProperties, ActiveIs DEF Types, Typed
<1> QED BY <1>1, <1>2, LiveFinite DEF Counted, OutstandingExact

\* Every step keeps a way back for each refused port.
LEMMA StrandedStep ==
  ASSUME LineTargets # 1, MicroTargets # 1,
         Types, Counted, NoStrandedPort, [Next]_vars
  PROVE  NoStrandedPort'
<1>0. /\ outstanding \in Nat /\ waiting \in [Ports -> BOOLEAN]
      /\ event \in {"none", "next", "due"}
  BY OutstandingNat DEF Types, Typed
<1>1. ASSUME UNCHANGED <<waiting, ingressRetry>>, outstanding' \in Nat,
             outstanding' >= outstanding, event # "none" => event' # "none"
      PROVE  NoStrandedPort'
  BY <1>0, <1>1 DEF NoStrandedPort
<1>2. ASSUME NEW p \in Ports, NEW i, NEW r \in Requests, MakeRequest(p, i, r)
      PROVE  NoStrandedPort'
  <2>1. CASE RefuseIngress(p, i, r)
    BY <1>0, <2>1 DEF RefuseIngress, Schedule, NoStrandedPort
  <2>2. CASE RefuseAdmission(p, i, r)
    <3>1. outstanding > 0
      BY <2>2, RefusedBusy
    <3> QED BY <2>2, <3>1 DEF RefuseAdmission, Refuse, NoStrandedPort
  <2>3. CASE DropPrefetch(p, i, r) \/ Accept(p, i, r)
    BY <1>0, <1>1, <2>3 DEF DropPrefetch, Accept, Taken
  <2> QED BY <1>2, <2>1, <2>2, <2>3 DEF MakeRequest
<1>3. CASE UNCHANGED vars
  BY <1>0, <1>1, <1>3 DEF vars, core, admission
<1>4. ASSUME NEW r \in Requests, Send(r) PROVE NoStrandedPort'
  BY <1>2, <1>4, SequencerAssumption DEF Send
<1>5. ASSUME NEW p \in Ports, Resend(p) PROVE NoStrandedPort'
  <2>1. PICK i, r : i = pend[p] /\ r = req[i]
    OBVIOUS
  <2>2. i \in 1..Len(req) /\ r \in Requests
    BY <1>5, <2>1, ReqKnown, LenProperties DEF Resend, Types, Typed, NoMsg
  <2> QED BY <1>2, <1>5, <2>1, <2>2 DEF Resend
<1>6. CASE HitCallback
  BY <1>6 DEF HitCallback, Retries, NoStrandedPort
<1>7. CASE Reissue
  BY <1>0, <1>1, <1>7 DEF Reissue, IssueRequest, Schedule, core
<1>8. CASE ServiceIngress
  BY <1>0, <1>8 DEF ServiceIngress, NoStrandedPort
<1>9. CASE Tick
  BY <1>0, <1>1, <1>9 DEF Tick, core
<1>10. CASE PopFront \/ CallbackDone \/ L0Hit \/ L0Miss \/ L0Spm \/ L0Stall
  BY <1>0, <1>1, <1>10
  DEF PopFront, CallbackDone, L0Hit, L0Miss, L0Spm, L0Stall, core, admission
<1>11. CASE \/ \E i \in Ids : StallAndWait(i) \/ Response(i) \/ L1Install(i)
            \/ L1Take
            \/ \E k \in DOMAIN resp : SpmResponse(k)
  <2>1. UNCHANGED <<core, admission>>
    BY <1>11 DEF StallAndWait, Response, L1Install, L1Take, SpmResponse
  <2> QED BY <1>0, <1>1, <2>1 DEF core, admission
<1> QED
  BY <1>3, <1>4, <1>5, <1>6, <1>7, <1>8, <1>9, <1>10, <1>11 DEF Next

\* A refused port always has something coming that retries it, whatever the
\* credits, bounds and interleaving of answers, except where a bound on the
\* targets of a line (Sequencer.cc:581-592) is 1.  The exception is needed:
\* the target whose answer retries the port is still in the table, so with
\* a bound of 1 it refuses the retry, and nothing else is outstanding.
THEOREM PortsNotStranded ==
  ASSUME LineTargets # 1, MicroTargets # 1
  PROVE  Spec => []NoStrandedPort
<1>1. Init => NoStrandedPort
  BY DEF Init, NoStrandedPort
<1>2. Types /\ Counted /\ NoStrandedPort /\ [Next]_vars => NoStrandedPort'
  BY StrandedStep
<1> QED
  BY <1>1, <1>2, TypesInit, TypesStep, CountedInit, CountedStep, PTL DEF Spec

-----------------------------------------------------------------------------

(* The queue's bound.  In a cycle with pops, areNSlotsAvailable compares   *)
(* the size before the first pop, plus what was enqueued, with the limit:  *)
(* Room says that this never underestimates the queue.                     *)
Room ==
    /\ Occupied <= MaxSize
    /\ popped # NoPop => Occupied <= popped + enqueued

\* Enqueueing a sequence adds at most its length to the queue.
LEMMA RangeSmall ==
  ASSUME NEW N \in Nat, NEW ms \in Seq(1..N)
  PROVE  IsFiniteSet(Range(ms)) /\ Cardinality(Range(ms)) <= Len(ms)
<1>1. ms \in Surjection(1..Len(ms), Range(ms)) /\ Len(ms) \in Nat
  BY DEF Surjection, Range
<1>2. IsFiniteSet(1..Len(ms)) /\ Cardinality(1..Len(ms)) = Len(ms)
  <2>1. /\ IsFiniteSet(1..Len(ms))
        /\ Cardinality(1..Len(ms)) = IF 1 > Len(ms) THEN 0 ELSE Len(ms) - 1 + 1
    <3>1. 1 \in Int /\ Len(ms) \in Int
      BY <1>1
    <3> QED BY ONLY <3>1, FS_Interval, Zenon
  <2> QED BY ONLY <1>1, <2>1, SMT
<1> QED BY <1>1, <1>2, FS_Surjection

\* An enqueue that areNSlotsAvailable allowed leaves the queue within its capacity.
LEMMA EnqueueRoom ==
  ASSUME NEW N \in Nat, QueueTyped(N), Room, NEW ms \in Seq(1..N), EnqueueAll(ms),
         Len(ms) = 0 \/ AreSlotsAvailable(Len(ms))
  PROVE  Room'
<1>1. IsFiniteSet(heap) /\ Cardinality(heap) \in Nat /\ Cardinality(stallMap) \in Nat
  BY OccupiedNat, FS_CardinalityType DEF QueueTyped
<1>2. /\ IsFiniteSet(Range(ms)) /\ Cardinality(Range(ms)) \in Nat
      /\ Cardinality(Range(ms)) <= Len(ms) /\ Len(ms) \in Nat
  BY RangeSmall, FS_CardinalityType, LenProperties
<1>3. /\ IsFiniteSet(heap \cap Range(ms))
      /\ Cardinality(heap \cap Range(ms)) \in Nat
  BY <1>1, FS_Subset, FS_CardinalityType
<1>4. Cardinality(heap') <= Cardinality(heap) + Len(ms) /\ Cardinality(heap') \in Nat
  <2>1. /\ IsFiniteSet(heap \cup Range(ms))
        /\ Cardinality(heap \cup Range(ms))
             = Cardinality(heap) + Cardinality(Range(ms)) - Cardinality(heap \cap Range(ms))
    BY ONLY <1>1, <1>2, FS_Union, Zenon
  <2>2. heap' = heap \cup Range(ms)
    BY DEF EnqueueAll
  <2>3. Cardinality(heap') \in Nat
    BY ONLY <2>1, <2>2, FS_CardinalityType, Zenon
  <2> QED BY ONLY <1>1, <1>2, <1>3, <2>1, <2>2, <2>3, SMT
<1>5. Occupied' <= Occupied + Len(ms) /\ Occupied \in Nat /\ Occupied' \in Nat
  BY <1>1, <1>2, <1>4 DEF Occupied, EnqueueAll
<1>6. /\ popped' = popped /\ popped \in Nat \cup {NoPop}
      /\ enqueued' = enqueued + Len(ms) /\ enqueued \in Nat
  BY DEF EnqueueAll, QueueTyped
<1>7. MaxSize \in Nat
  BY IngressAssumption
<1> HIDE DEF Occupied
<1> QED
  BY <1>2, <1>5, <1>6, <1>7 DEF Room, AreSlotsAvailable, Visible, NoPop

\* A pop, also one into the stall map.
LEMMA RemoveRoom ==
  ASSUME NEW N \in Nat, QueueTyped(N), Room, NEW m, RemoveSelected(m),
         \/ stallMap' = stallMap
         \/ m \in heap /\ \E w : stallMap' = stallMap \cup {w}
  PROVE  Room'
<1>1. IsFiniteSet(heap) /\ Cardinality(heap) \in Nat /\ Cardinality(stallMap) \in Nat
  BY OccupiedNat, FS_CardinalityType DEF QueueTyped
<1>2. /\ Cardinality(heap') \in Nat /\ Cardinality(heap') <= Cardinality(heap)
      /\ m \in heap => Cardinality(heap') = Cardinality(heap) - 1
  <2>1. heap' = heap \ {m}
    BY DEF RemoveSelected
  <2>2. /\ IsFiniteSet(heap \ {m})
        /\ Cardinality(heap \ {m})
             = IF m \in heap THEN Cardinality(heap) - 1 ELSE Cardinality(heap)
    BY ONLY <1>1, FS_RemoveElement, Zenon
  <2>3. Cardinality(heap') \in Nat
    BY ONLY <2>1, <2>2, FS_CardinalityType, Zenon
  <2> QED BY ONLY <1>1, <2>1, <2>2, <2>3, SMT
<1>3. Occupied' <= Occupied /\ Occupied' \in Nat /\ Occupied \in Nat
  <2>1. CASE stallMap' = stallMap
    BY <1>1, <1>2, <2>1 DEF Occupied
  <2>2. ASSUME m \in heap, NEW w, stallMap' = stallMap \cup {w}
        PROVE  Occupied' <= Occupied /\ Occupied' \in Nat /\ Occupied \in Nat
    <3>1. /\ Cardinality(stallMap') \in Nat
          /\ Cardinality(stallMap') <= Cardinality(stallMap) + 1
      <4>1. IsFiniteSet(stallMap)
        BY DEF QueueTyped
      <4>2. /\ IsFiniteSet(stallMap \cup {w})
            /\ Cardinality(stallMap \cup {w})
                 = IF w \in stallMap THEN Cardinality(stallMap)
                   ELSE Cardinality(stallMap) + 1
        BY ONLY <4>1, FS_AddElement, Zenon
      <4> QED BY ONLY <1>1, <2>2, <4>2, SMT
    <3> QED BY <1>1, <1>2, <2>2, <3>1 DEF Occupied
  <2> QED BY <2>1, <2>2
<1>4. /\ popped' = IF popped = NoPop THEN Occupied ELSE popped
      /\ popped \in Nat \cup {NoPop} /\ enqueued' = enqueued /\ enqueued \in Nat
  BY DEF RemoveSelected, QueueTyped
<1>5. MaxSize \in Nat
  BY IngressAssumption
<1> HIDE DEF Occupied
<1> QED BY <1>3, <1>4, <1>5 DEF Room, NoPop

\* Messages that come back from the stall map were counted there.
LEMMA ReanalyzeRoom ==
  ASSUME NEW N \in Nat, QueueTyped(N), Room, NEW k, Reanalyze(k)
  PROVE  Room'
<1>1. IsFiniteSet(heap) /\ Cardinality(heap) \in Nat /\ Cardinality(stallMap) \in Nat
  BY OccupiedNat, FS_CardinalityType DEF QueueTyped
<1> DEFINE W == WaitFor(k)
           B == {w[1] : w \in W}
           f == [w \in W |-> w[1]]
<1>2. W \subseteq stallMap /\ IsFiniteSet(W) /\ Cardinality(W) \in Nat
  BY FS_Subset, FS_CardinalityType DEF WaitFor, QueueTyped
<1>3. IsFiniteSet(B) /\ Cardinality(B) \in Nat /\ Cardinality(B) <= Cardinality(W)
  <2>1. f \in Surjection(W, B)
    BY DEF Surjection
  <2> HIDE DEF f, B, W
  <2> QED BY <1>2, <2>1, FS_Surjection, FS_CardinalityType
<1>4. Cardinality(stallMap') = Cardinality(stallMap) - Cardinality(W)
  <2>1. stallMap \cap W = W
    BY <1>2
  <2>2. stallMap' = stallMap \ W
    BY DEF Reanalyze
  <2> HIDE DEF W
  <2>3. IsFiniteSet(stallMap)
    BY DEF QueueTyped
  <2>4. Cardinality(stallMap \ W) = Cardinality(stallMap) - Cardinality(stallMap \cap W)
    BY ONLY <2>3, FS_Difference, Zenon
  <2> QED BY ONLY <2>1, <2>2, <2>4, Zenon
<1>5. Cardinality(heap') <= Cardinality(heap) + Cardinality(B) /\ Cardinality(heap') \in Nat
  <2>1. heap' = heap \cup B
    BY DEF Reanalyze
  <2> HIDE DEF B
  <2>2. IsFiniteSet(heap \cap B) /\ Cardinality(heap \cap B) \in Nat
    BY <1>1, FS_Subset, FS_CardinalityType
  <2>3. /\ IsFiniteSet(heap \cup B)
        /\ Cardinality(heap \cup B)
             = Cardinality(heap) + Cardinality(B) - Cardinality(heap \cap B)
    BY ONLY <1>1, <1>3, FS_Union, Zenon
  <2>4. Cardinality(heap') \in Nat
    BY ONLY <2>1, <2>3, FS_CardinalityType, Zenon
  <2> QED BY ONLY <1>1, <1>3, <2>1, <2>2, <2>3, <2>4, SMT
<1>6. Cardinality(stallMap') \in Nat
  <2>1. IsFiniteSet(stallMap')
    BY FS_Difference DEF Reanalyze, QueueTyped
  <2> QED BY <2>1, FS_CardinalityType
<1>7. Occupied' <= Occupied /\ Occupied' \in Nat /\ Occupied \in Nat
  <2> HIDE DEF W, B
  <2> QED BY <1>1, <1>2, <1>3, <1>4, <1>5, <1>6 DEF Occupied
<1>8. UNCHANGED <<popped, enqueued>> /\ enqueued \in Nat /\ popped \in Nat \cup {NoPop}
  BY DEF Reanalyze, QueueTyped
<1>9. MaxSize \in Nat
  BY IngressAssumption
<1> HIDE DEF Occupied
<1> QED BY <1>7, <1>8, <1>9 DEF Room, NoPop

\* Every step that enqueues has asked for the slots.
LEMMA RoomStep ==
  ASSUME Types, Room, [Next]_vars
  PROVE  Room'
<1>1. PICK N : N = Len(req) + 1
  OBVIOUS
<1>2. /\ N \in Nat /\ Len(req) \in Nat /\ QueueTyped(N)
      /\ table \in [Keys -> Seq(1..N)] /\ replays \in Seq(1..N) /\ pend \in [Ports -> 0..N]
  <2>1. N \in Nat /\ Len(req) \in Nat /\ Len(req) <= N
    BY <1>1, LenProperties DEF Types
  <2>2. Typed(N)
    BY <2>1, TypedGrows DEF Types
  <2> QED BY <2>1, <2>2 DEF Typed
<1>3. ASSUME UNCHANGED <<heap, stallMap, popped, enqueued>> PROVE Room'
  BY <1>3 DEF Room, Occupied
<1>4. ASSUME NEW i \in 1..N, AreSlotsAvailable(1), EnqueueAll(<<i>>) PROVE Room'
  BY <1>2, <1>4, OneTyped, EnqueueRoom
<1>5. ASSUME NEW p \in Ports, NEW i \in 1..N, NEW r, MakeRequest(p, i, r) PROVE Room'
  <2>1. CASE UNCHANGED queue
    BY <1>3, <2>1 DEF queue
  <2>2. CASE ~ IngressFull(r) /\ EnqueueAll(<<i>>)
    BY <1>4, <2>2 DEF IngressFull
  <2> QED BY <1>5, <2>1, <2>2
    DEF MakeRequest, RefuseIngress, RefuseAdmission, DropPrefetch, Accept, Refuse
<1>6. ASSUME NEW m, Dequeue(m) PROVE Room'
  BY <1>2, <1>6, RemoveRoom DEF Dequeue
<1>7. CASE UNCHANGED vars
  BY <1>3, <1>7 DEF vars, queue
<1>8. ASSUME NEW r \in Requests, Send(r) PROVE Room'
  <2>1. PortOf(r) \in Ports /\ N \in 1..N
    BY <1>1, <1>2, SequencerAssumption
  <2> QED BY <1>1, <1>5, <1>8, <2>1 DEF Send
<1>9. ASSUME NEW p \in Ports, Resend(p) PROVE Room'
  <2>1. pend[p] \in 1..N
    BY <1>2, <1>9 DEF Resend, NoMsg
  <2> QED BY <1>5, <1>9, <2>1 DEF Resend
<1>10. CASE HitCallback \/ PopFront
  BY <1>3, <1>10 DEF HitCallback, PopFront, queue
<1>11. CASE Reissue
  <2>1. cb.at \in Keys /\ table[cb.at] # <<>>
    BY <1>11 DEF Reissue, Types, Typed, Callbacks, NoCallback
  <2>2. Leader \in 1..N
    BY <1>2, <2>1 DEF Leader
  <2> QED BY <1>3, <1>4, <1>11, <2>2 DEF Reissue, IssueRequest, queue
<1>12. CASE CallbackDone
  <2>1. CASE UNCHANGED queue
    BY <1>3, <2>1 DEF queue
  <2>2. CASE Reanalyze(cb.at)
    <3>1. PICK k : k = cb.at
      OBVIOUS
    <3> QED BY <1>2, <2>2, <3>1, ReanalyzeRoom
  <2>3. CASE Dequeue(cb.msg)
    <3>1. PICK m : m = cb.msg
      OBVIOUS
    <3> QED BY <1>6, <2>3, <3>1
  <2> QED BY <1>12, <2>1, <2>2, <2>3 DEF CallbackDone
<1>13. CASE L0Hit \/ L0Stall \/ L1Take \/ (\E i \in Ids : Response(i) \/ L1Install(i))
            \/ (\E k \in DOMAIN resp : SpmResponse(k))
  BY <1>3, <1>13 DEF L0Hit, L0Stall, TryIngressBypass, L1Take, Response, L1Install,
                     SpmResponse, queue
<1>14. CASE L0Miss \/ L0Spm
  <2>1. PICK m : m = Peek
    OBVIOUS
  <2> QED BY <1>6, <1>14, <2>1 DEF L0Miss, L0Spm
<1>15. ASSUME NEW i, StallAndWait(i) PROVE Room'
  <2>1. PICK m, w : m = Peek /\ w = <<Peek, req[i].at>>
    OBVIOUS
  <2>2. m \in heap
    BY <1>2, <1>15, <2>1, PicksHold, PeekIn DEF StallAndWait, CanServe, IsReady
  <2> QED BY <1>2, <1>15, <2>1, <2>2, RemoveRoom DEF StallAndWait, StallMessage
<1>16. CASE ServiceIngress
  <2>1. PICK ms : ms = SubSeq(replays, 1, Fits)
    OBVIOUS
  <2>2. /\ ms \in Seq(1..N)
        /\ Len(ms) = 0 \/ AreSlotsAvailable(Len(ms))
    BY <1>2, <2>1, FitsTyped
  <2> QED BY <1>2, <1>16, <2>1, <2>2, EnqueueRoom DEF ServiceIngress
<1>17. CASE Tick
  BY <1>17 DEF Tick, NextCycle, Room, Occupied
<1> QED
  BY <1>7, <1>8, <1>9, <1>10, <1>11, <1>12, <1>13, <1>14, <1>15, <1>16, <1>17 DEF Next

\* The mandatory queue never holds more than m_max_size messages, its stall
\* map included, so the assertion of MessageBuffer::enqueue never fails.
THEOREM QueueBounded == Spec => []QueueBound
<1>1. Init => Room
  <2> SUFFICES ASSUME Init PROVE Room
    OBVIOUS
  <2>1. heap = {} /\ stallMap = {} /\ popped = NoPop
    BY DEF Init, QueueInit
  <2>2. Occupied = 0
    BY <2>1, FS_EmptySet DEF Occupied
  <2> QED BY <2>1, <2>2, IngressAssumption DEF Room
<1>2. Room => QueueBound
  BY DEF Room, QueueBound
<1> QED BY <1>1, <1>2, TypesInit, TypesStep, RoomStep, PTL DEF Spec

-----------------------------------------------------------------------------
(* The theorems that rest on all invariants together.                      *)

\* The invariants of the types, the lists and the order.
LEMMA OrderedAlways == Spec => []Ordered
<1>1. Types => Picks
  BY PicksHold
<1>2. Types /\ Picks /\ Counted /\ Unsent /\ Chosen /\ [Next]_vars => Unsent' /\ Chosen'
  BY OrderedStep
<1> QED
  BY <1>1, <1>2, OrderedInit, TypesInit, TypesStep, CountedInit, CountedStep, PTL
  DEF Spec, Ordered

\* For every queue size, lookahead and number of requests, and both policies,
\* the bypass takes no request past an older one it depends on.
THEOREM BypassIsSafe == Spec => BypassSafe
<1>1. Types /\ Picks /\ Unsent /\ Chosen /\ [Next]_vars =>
         [\A n \in heap \ heap' : \A m \in heap :
             Older(m, n) => IngressIndependent(n, m)]_vars
  BY LeavesClear DEF Clear
<1> QED BY <1>1, OrderedAlways, PTL DEF Spec, Ordered, BypassSafe

\* For any ports, lines, pools and queue size: every line with requests in the
\* Sequencer's table has exactly one of them in the hierarchy, the oldest.
THEOREM OneTransactionEach == Spec => []OneTransaction
<1>1. Ordered /\ Transactions /\ [Next]_vars => Transactions'
  BY TransactionsStep
<1>2. Ordered /\ Transactions => OneTransaction
  BY TransactionsOne
<1> QED
  BY <1>1, <1>2, TransactionsInit, OrderedAlways, PTL DEF Spec

\* For any ports, lines, slots, pools and queue size: every read is answered
\* with the last write accepted before it to its line or slot, or, from the SPM
\* array, with a copy accepted after it; and no SPM store or copy is answered
\* before the array has served it.
THEOREM AnswersAreRight == Spec => []AnsweredRight
<1>1. Ordered /\ Transactions /\ [Next]_vars => Transactions'
  BY TransactionsStep
<1>2. Ordered /\ Copies /\ [Next]_vars => Copies'
  BY CopiesStep
<1>3. Ordered /\ Transactions /\ Copies /\ Answers /\ [Next]_vars => Answers'
  BY AnswersStep
<1>4. Ordered /\ Transactions /\ Answers => AnsweredRight
  BY AnswersRight
<1> QED
  BY <1>1, <1>2, <1>3, <1>4, AnswersInit, TransactionsInit, OrderedAlways, PTL DEF Spec
=============================================================================
