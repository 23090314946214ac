------------------------- MODULE TransactionProofs --------------------------
(***************************************************************************)
(* Every line with requests in the Sequencer's table has exactly one of    *)
(* them in the cache hierarchy, through coalescing, callbacks that reissue *)
(* followers, deferred replays, stalls and the SPM's own path; and what the*)
(* ingress bypass selects depends on nothing older.                        *)
(***************************************************************************)
EXTENDS AnswerProofs

\* A leaf is tried with Zenon, then with SMT.
USE ZenonT(4), SMT, SMTT(20)

\* A single message is a typed sequence.
LEMMA OneTyped ==
  ASSUME NEW N \in Nat, NEW i \in 1..N
  PROVE  <<i>> \in Seq(1..N) /\ Len(<<i>>) = 1 /\ Range(<<i>>) = {i}
BY DEF Range

\* The callbacks' pop_front.
LEMMA TailLive ==
  ASSUME NEW N \in Nat, NEW t \in [Keys -> Seq(1..N)], NEW k \in Keys,
         t[k] # <<>>, IsInjective(t[k]),
         \A j \in Keys \ {k} : Range(t[j]) \cap Range(t[k]) = {}
  PROVE  LET u == [t EXCEPT ![k] = Tail(@)]
         IN /\ LiveIn(u) = LiveIn(t) \ {Head(t[k])}
            /\ IsInjective(u[k])
<1> DEFINE u == [t EXCEPT ![k] = Tail(@)]
<1>1. /\ t[k] \in Seq(1..N) /\ Len(t[k]) \in Nat \ {0}
      /\ DOMAIN u[k] = 1..(Len(t[k]) - 1) /\ DOMAIN t[k] = 1..Len(t[k])
      /\ \A n \in 1..(Len(t[k]) - 1) : u[k][n] = t[k][n + 1]
      /\ Head(t[k]) = t[k][1]
      /\ \A j \in Keys \ {k} : u[j] = t[j]
  BY HeadTailProperties, LenProperties, EmptySeq
<1> HIDE DEF u
<1>0. \A a, b \in 1..Len(t[k]) : t[k][a] = t[k][b] => a = b
  BY <1>1 DEF IsInjective
<1>2. IsInjective(u[k])
  <2>1. ASSUME NEW a \in 1..(Len(t[k]) - 1), NEW b \in 1..(Len(t[k]) - 1),
               u[k][a] = u[k][b]
        PROVE  a = b
    <3>1. a + 1 \in 1..Len(t[k]) /\ b + 1 \in 1..Len(t[k])
      BY <1>1
    <3>2. t[k][a + 1] = t[k][b + 1]
      BY <1>1, <2>1
    <3>3. a + 1 = b + 1
      BY <1>0, <3>1, <3>2
    <3> QED BY <3>3
  <2> QED BY <1>1, <2>1 DEF IsInjective
<1>3. Range(u[k]) = Range(t[k]) \ {Head(t[k])}
  <2>1. ASSUME NEW x \in Range(u[k]) PROVE x \in Range(t[k]) \ {Head(t[k])}
    <3>1. PICK n \in 1..(Len(t[k]) - 1) : x = u[k][n]
      BY <1>1 DEF Range
    <3>2. n + 1 \in 1..Len(t[k]) /\ 1 \in 1..Len(t[k]) /\ n + 1 # 1 /\ x = t[k][n + 1]
      BY <1>1, <3>1
    <3>3. x # t[k][1]
      BY <1>0, <3>2
    <3> QED BY <1>1, <3>2, <3>3 DEF Range
  <2>2. ASSUME NEW x \in Range(t[k]), x # Head(t[k]) PROVE x \in Range(u[k])
    <3>1. PICK n \in 1..Len(t[k]) : x = t[k][n]
      BY <1>1 DEF Range
    <3>2. n - 1 \in 1..(Len(t[k]) - 1) /\ u[k][n - 1] = t[k][n]
      BY <1>1, <2>2, <3>1
    <3> QED BY <1>1, <3>1, <3>2 DEF Range
  <2> QED BY <2>1, <2>2
<1>4. Head(t[k]) \in Range(t[k])
  BY <1>1 DEF Range
<1>5. LiveIn(u) = LiveIn(t) \ {Head(t[k])}
  <2>1. ASSUME NEW x PROVE x \in LiveIn(u) <=> x \in LiveIn(t) /\ x # Head(t[k])
    <3>1. x \in LiveIn(u) <=> \E j \in Keys : x \in Range(u[j])
      BY DEF LiveIn
    <3>2. x \in LiveIn(t) <=> \E j \in Keys : x \in Range(t[j])
      BY DEF LiveIn
    <3>3. \A j \in Keys : x \in Range(u[j]) <=> x \in Range(t[j]) /\ x # Head(t[k])
      BY <1>1, <1>3, <1>4
    <3> QED BY <3>1, <3>2, <3>3
  <2> QED BY <2>1
<1> QED BY <1>2, <1>5 DEF u

\* The bypass selects a message of the queue.
LEMMA SelectedIn ==
  ASSUME Picks, NEW N \in Nat, QueueTyped(N), heap # {}, TryIngressBypass
  PROVE  /\ QueueTyped(N)'
         /\ selected' # NoMsg => selected' \in Candidates(attempted \cup {Peek})
<1> DEFINE tried == attempted \cup {Peek}
           found == IF Cardinality(tried) > Probes \/ Candidates(tried) = {} THEN {}
                    ELSE {Oldest(Candidates(tried))}
<1>1. Candidates(tried) \subseteq heap
  BY DEF Candidates, Window
<1>2. selected' = IF found = {} THEN NoMsg ELSE Oldest(found)
  BY DEF TryIngressBypass
<1>3. CASE found = {}
  BY <1>2, <1>3 DEF TryIngressBypass, QueueTyped
<1>4. CASE found # {}
  <2>1. found = {Oldest(Candidates(tried))} /\ Candidates(tried) # {}
    BY <1>4
  <2>2. Oldest(Candidates(tried)) \in Candidates(tried)
    BY <1>1, <2>1, OldestIn DEF QueueTyped
  <2>3. Oldest(found) \in found
    <3>1. found \subseteq Range(order)
      BY <1>1, <2>1, <2>2 DEF QueueTyped
    <3> HIDE DEF found
    <3> QED BY <1>4, <3>1, OldestIn
  <2> QED BY <1>1, <1>2, <1>4, <2>1, <2>2, <2>3 DEF TryIngressBypass, QueueTyped
<1> QED BY <1>3, <1>4

\* Enqueueing new messages keeps the arrival order free of repetitions.
LEMMA ConcatInjective ==
  ASSUME NEW s \in Seq(Nat), NEW t \in Seq(Nat), IsInjective(s), IsInjective(t),
         Range(s) \cap Range(t) = {}
  PROVE  IsInjective(s \o t) /\ Range(s \o t) = Range(s) \cup Range(t)
<1>1. /\ Len(s) \in Nat /\ Len(t) \in Nat /\ DOMAIN (s \o t) = 1..(Len(s) + Len(t))
      /\ DOMAIN s = 1..Len(s) /\ DOMAIN t = 1..Len(t)
      /\ \A i \in 1..Len(s) : (s \o t)[i] = s[i]
      /\ \A i \in (Len(s) + 1)..(Len(s) + Len(t)) :
            i - Len(s) \in 1..Len(t) /\ (s \o t)[i] = t[i - Len(s)]
  BY LenProperties, ConcatProperties
<1>2. ASSUME NEW a \in DOMAIN (s \o t), NEW b \in DOMAIN (s \o t),
             (s \o t)[a] = (s \o t)[b]
      PROVE  a = b
  <2>1. CASE a <= Len(s) /\ b <= Len(s)
    <3>1. a \in DOMAIN s /\ b \in DOMAIN s /\ s[a] = s[b]
      BY <1>1, <1>2, <2>1
    <3> QED BY <3>1 DEF IsInjective
  <2>2. CASE a > Len(s) /\ b > Len(s)
    <3>1. a - Len(s) \in DOMAIN t /\ b - Len(s) \in DOMAIN t
          /\ t[a - Len(s)] = t[b - Len(s)]
      BY <1>1, <1>2, <2>2
    <3>2. a - Len(s) = b - Len(s)
      BY <3>1 DEF IsInjective
    <3> QED BY <1>1, <3>2
  <2>3. CASE a <= Len(s) /\ b > Len(s)
    <3>1. a \in DOMAIN s /\ b - Len(s) \in DOMAIN t /\ s[a] = t[b - Len(s)]
      BY <1>1, <1>2, <2>3
    <3> QED BY <3>1 DEF Range
  <2>4. CASE b <= Len(s) /\ a > Len(s)
    <3>1. b \in DOMAIN s /\ a - Len(s) \in DOMAIN t /\ s[b] = t[a - Len(s)]
      BY <1>1, <1>2, <2>4
    <3> QED BY <3>1 DEF Range
  <2> QED BY <1>1, <2>1, <2>2, <2>3, <2>4
<1>3. IsInjective(s \o t)
  BY <1>2 DEF IsInjective
<1> QED BY <1>3, RangeConcatenation

\* Enqueueing leaves the older messages of an enqueued one as they were.
LEMMA OlderAppend ==
  ASSUME order \in Seq(Nat), NEW ms \in Seq(Nat), order' = order \o ms,
         IsInjective(order \o ms), NEW n \in Range(order), NEW m, Older(m, n)'
  PROVE  Older(m, n) /\ m \in Range(order)
<1>1. /\ Len(order) \in Nat /\ DOMAIN order = 1..Len(order)
      /\ Len(ms) \in Nat /\ DOMAIN (order \o ms) = 1..(Len(order) + Len(ms))
      /\ \A i \in 1..Len(order) : (order \o ms)[i] = order[i]
  BY LenProperties, ConcatProperties
<1>2. PICK i, j \in DOMAIN (order \o ms) :
         i < j /\ (order \o ms)[i] = m /\ (order \o ms)[j] = n
  BY DEF Older
<1>3. PICK l \in DOMAIN order : order[l] = n
  BY DEF Range
<1>4. l \in DOMAIN (order \o ms) /\ (order \o ms)[l] = n
  BY <1>1, <1>3
<1>5. j = l
  BY <1>2, <1>4 DEF IsInjective
<1>6. i \in DOMAIN order /\ j \in DOMAIN order /\ order[i] = m /\ order[j] = n
  BY <1>1, <1>2, <1>3, <1>5
<1> QED BY <1>2, <1>6 DEF Older, Range

\* Of two messages in the queue only one is older.
LEMMA OlderAsymmetric ==
  ASSUME order \in Seq(Nat), IsInjective(order), NEW m, NEW n, Older(m, n), Older(n, m)
  PROVE  FALSE
<1>1. DOMAIN order = 1..Len(order) /\ Len(order) \in Nat
  BY LenProperties
<1>2. PICK i, j \in DOMAIN order : i < j /\ order[i] = m /\ order[j] = n
  BY DEF Older
<1>3. PICK k, l \in DOMAIN order : k < l /\ order[k] = n /\ order[l] = m
  BY DEF Older
<1>4. i = l /\ j = k
  BY <1>2, <1>3 DEF IsInjective
<1> QED BY <1>1, <1>2, <1>3, <1>4

\* What arrives now is younger than what was there, so it blocks no choice.
LEMMA ClearAppend ==
  ASSUME order \in Seq(Nat), NEW ms \in Seq(Nat), order' = order \o ms,
         IsInjective(order \o ms), Range(order) \cap Range(ms) = {},
         \A j \in Range(order) : req'[j] = req[j],
         NEW n \in Range(order), NEW S, NEW T, T \subseteq S \cup Range(ms), Clear(n, S)
  PROVE  \A m \in T : Older(m, n)' => IngressIndependent(n, m)'
<1> SUFFICES ASSUME NEW m \in T, Older(m, n)' PROVE IngressIndependent(n, m)'
  OBVIOUS
<1>1. Older(m, n) /\ m \in Range(order)
  BY OlderAppend
<1>2. m \in S
  BY <1>1
<1>3. IngressIndependent(n, m)
  BY <1>1, <1>2 DEF Clear
<1>4. req'[m] = req[m] /\ req'[n] = req[n]
  BY <1>1
<1> QED BY <1>3, <1>4 DEF IngressIndependent, Reorderable, Copy

\* What the mandatory port looks at depends on no older message of the queue.
LEMMA PeekClear ==
  ASSUME Picks, NEW N \in Nat, QueueTyped(N), IsInjective(order), Chosen, heap # {}
  PROVE  Peek \in heap /\ Clear(Peek, heap)
<1>1. Peek \in heap
  BY PeekIn
<1>2. order \in Seq(Nat)
  <2>1. 1..N \subseteq Nat
    OBVIOUS
  <2> QED BY <2>1, SeqMonotonic DEF QueueTyped
<1>3. CASE selected # NoMsg
  <2>1. Peek = selected
    BY <1>3 DEF Peek
  <2>2. Clear(selected, heap \cup Stalled)
    BY <1>3 DEF Chosen
  <2> QED BY <1>1, <2>1, <2>2 DEF Clear
<1>4. CASE selected = NoMsg
  <2>1. \A n \in heap \ {Peek} : Older(Peek, n)
    BY <1>4, OldestIn DEF Peek, QueueTyped
  <2>2. \A n \in heap : ~ Older(n, Peek)
    BY <1>2, <2>1, OlderAsymmetric
  <2> QED BY <1>1, <2>2 DEF Clear
<1> QED BY <1>1, <1>3, <1>4

\* A step that enqueues ms, none of it enqueued before.
LEMMA EnqueueChosen ==
  ASSUME Types, Unsent, Chosen, NEW ms \in Seq(Nat), EnqueueAll(ms),
         IsInjective(ms), Range(order) \cap Range(ms) = {},
         \A j \in 1..Len(req) : req'[j] = req[j],
         cb' # NoCallback => cb # NoCallback /\ cb'.by = cb.by /\ cb'.msg = cb.msg
  PROVE  Chosen'
<1>1. PICK N : N = Len(req)
  OBVIOUS
<1>2. N \in Nat /\ QueueTyped(N)
  BY <1>1, LenProperties DEF Types, Typed
<1>3. order \in Seq(Nat) /\ Range(order) \subseteq 1..N
  <2>1. 1..N \subseteq Nat /\ order \in Seq(1..N)
    BY <1>2 DEF QueueTyped
  <2> QED BY <2>1, SeqMonotonic, RangeOfSeq
<1>4. /\ order' = order \o ms /\ heap' = heap \cup Range(ms)
      /\ UNCHANGED <<stallMap, selected>>
  BY DEF EnqueueAll
<1>5. IsInjective(order \o ms) /\ Range(order \o ms) = Range(order) \cup Range(ms)
  BY <1>3, ConcatInjective DEF Unsent
<1>6. \A j \in Range(order) : req'[j] = req[j]
  BY <1>1, <1>3
<1>7. ASSUME NEW n \in Range(order), NEW S, NEW T, T \subseteq S \cup Range(ms), Clear(n, S)
      PROVE  \A m \in T : Older(m, n)' => IngressIndependent(n, m)'
  BY <1>3, <1>4, <1>5, <1>6, <1>7, ClearAppend
<1>8. ASSUME selected' # NoMsg PROVE Clear(selected, heap \cup Stalled)'
  <2>1. PICK n, S, T : n = selected /\ S = heap \cup Stalled /\ T = (heap \cup Stalled)'
    OBVIOUS
  <2>2. n \in Range(order) /\ Clear(n, S) /\ T \subseteq S \cup Range(ms)
    BY <1>2, <1>4, <1>8, <2>1 DEF QueueTyped, Chosen, Stalled
  <2>3. \A m \in T : Older(m, n)' => IngressIndependent(n, m)'
    BY <1>7, <2>2
  <2> QED BY <1>4, <2>1, <2>3 DEF Clear
<1>9. ASSUME cb' # NoCallback, cb'.by = "hit"
      PROVE  (cb.msg \in Range(order) /\ Clear(cb.msg, heap))'
  <2>1. PICK n, S, T : n = cb.msg /\ S = heap /\ T = heap'
    OBVIOUS
  <2>2. n \in Range(order) /\ Clear(n, S) /\ T \subseteq S \cup Range(ms) /\ cb'.msg = n
    BY <1>4, <1>9, <2>1 DEF Chosen
  <2>3. \A m \in T : Older(m, n)' => IngressIndependent(n, m)'
    BY <1>7, <2>2
  <2> QED BY <1>4, <1>5, <2>1, <2>2, <2>3 DEF Clear
<1> QED BY <1>8, <1>9 DEF Chosen

\* A step that enqueues nothing and adds nothing to what the queue holds.
LEMMA ShrinkChosen ==
  ASSUME Chosen, order' = order, heap' \cup Stalled' \subseteq heap \cup Stalled,
         \A j \in Range(order) : req'[j] = req[j],
         heap \cup Stalled \subseteq Range(order), selected \in heap \cup {NoMsg},
         selected' = selected \/ selected' = NoMsg,
         \/ cb' = NoCallback \/ cb'.by # "hit"
         \/ /\ heap' = heap /\ cb # NoCallback /\ cb'.by = cb.by /\ cb'.msg = cb.msg
  PROVE  Chosen'
<1>1. ASSUME NEW n \in Range(order), NEW S, NEW T, T \subseteq S, S \subseteq Range(order),
             Clear(n, S)
      PROVE  \A m \in T : Older(m, n)' => IngressIndependent(n, m)'
  <2> SUFFICES ASSUME NEW m \in T, Older(m, n)' PROVE IngressIndependent(n, m)'
    OBVIOUS
  <2>1. Older(m, n) /\ IngressIndependent(n, m)
    BY <1>1 DEF Older, Clear
  <2>2. req'[m] = req[m] /\ req'[n] = req[n]
    BY <1>1
  <2> QED BY <2>1, <2>2 DEF IngressIndependent, Reorderable, Copy
<1>2. ASSUME selected' # NoMsg PROVE Clear(selected, heap \cup Stalled)'
  <2>1. PICK n, S, T : n = selected /\ S = heap \cup Stalled /\ T = (heap \cup Stalled)'
    OBVIOUS
  <2>2. n \in Range(order) /\ Clear(n, S) /\ T \subseteq S /\ S \subseteq Range(order)
        /\ selected' = n
    BY <1>2, <2>1 DEF Chosen
  <2>3. \A m \in T : Older(m, n)' => IngressIndependent(n, m)'
    BY <1>1, <2>2
  <2> QED BY <2>1, <2>2, <2>3 DEF Clear
<1>3. ASSUME cb' # NoCallback, cb'.by = "hit"
      PROVE  (cb.msg \in Range(order) /\ Clear(cb.msg, heap))'
  <2>1. PICK n, S : n = cb.msg /\ S = heap
    OBVIOUS
  <2>2. n \in Range(order) /\ Clear(n, S) /\ S \subseteq Range(order) /\ cb'.msg = n
        /\ heap' = S
    BY <1>3, <2>1 DEF Chosen
  <2>3. \A m \in S : Older(m, n)' => IngressIndependent(n, m)'
    BY <1>1, <2>2
  <2> QED BY <2>2, <2>3 DEF Clear
<1> QED BY <1>2, <1>3 DEF Chosen

\* makeRequest, for a request of port p that was never issued.
LEMMA MakeRequestOrdered ==
  ASSUME Types, Unsent, Chosen, NEW p \in Ports, NEW i \in Nat \ {0},
         NEW r \in Requests, MakeRequest(p, i, r), cb' = cb, CoreRuns,
         i \notin LiveIn(table), i \notin Sent, \A q \in Ports \ {p} : pend[q] # i,
         \A j \in 1..Len(req) : req'[j] = req[j]
  PROVE  Unsent' /\ Chosen'
<1>0. PICK N, t, k : N = Len(req) /\ t = table /\ k = r.at
  OBVIOUS
<1>1. /\ N \in Nat /\ t \in [Keys -> Seq(1..N)] /\ k \in Keys /\ pend \in [Ports -> 0..N]
      /\ QueueTyped(N) /\ order \in Seq(Nat) /\ i # NoMsg
      /\ cb = NoCallback \/ (cb \in Callbacks(N) /\ cb.step = "hit")
      /\ heap \cup Stalled \subseteq Range(order) /\ Range(order) \subseteq 1..N
  <2>1. /\ N \in Nat /\ t \in [Keys -> Seq(1..N)] /\ k \in Keys /\ pend \in [Ports -> 0..N]
        /\ QueueTyped(N) /\ i # NoMsg
        /\ cb = NoCallback \/ (cb \in Callbacks(N) /\ cb.step = "hit")
    BY <1>0, LenProperties, SequencerAssumption DEF Types, Typed, CoreRuns, NoMsg
  <2>2. 1..N \subseteq Nat /\ order \in Seq(1..N)
    BY <2>1 DEF QueueTyped
  <2>3. heap \cup Stalled \subseteq Range(order)
    BY <2>1 DEF QueueTyped, Stalled
  <2> QED BY <2>1, <2>2, <2>3, SeqMonotonic, RangeOfSeq
<1>2. cb.step # "serve"
  BY <1>1 DEF NoCallback
<1>3. \A j \in Keys : \A n \in DOMAIN t[j] : t[j][n] # i
  BY <1>0 DEF LiveIn, Range
<1>4. pend' = [pend EXCEPT ![p] = i] \/ pend' = [pend EXCEPT ![p] = NoMsg]
  BY DEF MakeRequest, RefuseIngress, RefuseAdmission, DropPrefetch, Accept, Refuse, Taken
<1>5. ASSUME UNCHANGED <<queue, replays>>
      PROVE  Chosen' /\ Sent' = Sent /\ \A q \in Ports : pend'[q] # NoMsg => pend'[q] \notin Sent
  <2>1. Chosen'
    <3>1. \A j \in Range(order) : req'[j] = req[j]
      BY <1>0, <1>1
    <3>2. order' = order /\ heap' = heap /\ Stalled' = Stalled /\ selected' = selected
      BY <1>5 DEF queue, Stalled
    <3>3. selected \in heap \cup {NoMsg}
      BY <1>1 DEF QueueTyped
    <3>4. cb' = NoCallback \/ (cb # NoCallback /\ cb'.by = cb.by /\ cb'.msg = cb.msg)
      OBVIOUS
    <3> QED BY <1>1, <3>1, <3>2, <3>3, <3>4, ShrinkChosen
  <2>2. Sent' = Sent
    BY <1>5 DEF Sent, queue
  <2> QED BY <1>1, <1>4, <2>1, <2>2 DEF Unsent
<1>6. CASE UNCHANGED <<queue, table, replays>>
  BY <1>2, <1>5, <1>6 DEF Unsent, queue
<1>7. CASE /\ table' = [table EXCEPT ![k] = Append(@, i)] /\ table[k] # <<>>
           /\ UNCHANGED <<queue, replays>>
  <2>1. ASSUME NEW j \in Keys, NEW n \in DOMAIN table'[j], n > 1
        PROVE  table'[j][n] \notin Sent
    <3>1. CASE table'[j][n] = i
      BY <3>1
    <3>2. CASE table'[j][n] # i
      <4>1. n \in DOMAIN table[j] /\ table'[j][n] = table[j][n]
        <5>1. CASE j # k
          BY <1>0, <1>1, <1>7, <2>1, <5>1
        <5>2. CASE j = k
          <6>1. table'[k] = Append(t[k], i) /\ t[k] \in Seq(1..N)
            BY <1>0, <1>1, <1>7
          <6> QED BY <1>0, <2>1, <3>2, <5>2, <6>1, AppendProperties, LenProperties
        <5> QED BY <5>1, <5>2
      <4> QED BY <2>1, <4>1 DEF Unsent
    <3> QED BY <3>1, <3>2
  <2> QED BY <1>2, <1>5, <1>7, <2>1 DEF Unsent, queue
<1>8. CASE /\ table' = [table EXCEPT ![k] = Append(@, i)] /\ table[k] = <<>>
           /\ EnqueueAll(<<i>>) /\ pend' = [pend EXCEPT ![p] = NoMsg] /\ replays' = replays
  <2>1. /\ <<i>> \in Seq(Nat) /\ IsInjective(<<i>>) /\ Range(<<i>>) = {i}
        /\ Range(order) \cap Range(<<i>>) = {}
    BY OneInjective DEF Sent
  <2>2. Chosen'
    BY <1>8, <2>1, EnqueueChosen
  <2>3. IsInjective(order') /\ Range(order') = Range(order) \cup {i}
    BY <1>1, <1>8, <2>1, ConcatInjective DEF Unsent, EnqueueAll
  <2>4. Sent' = Sent \cup {i}
    BY <1>8, <2>3 DEF Sent
  <2>5. \A q \in Ports : pend'[q] # NoMsg => pend'[q] \notin Sent'
    BY <1>1, <1>8, <2>4 DEF Unsent
  <2>6. ASSUME NEW j \in Keys, NEW n \in DOMAIN table'[j], n > 1
        PROVE  table'[j][n] \notin Sent'
    <3>1. CASE j # k
      <4>1. n \in DOMAIN table[j] /\ table'[j][n] = table[j][n]
        BY <1>0, <1>1, <1>8, <2>6, <3>1
      <4> QED BY <1>0, <1>3, <2>4, <2>6, <4>1 DEF Unsent
    <3>2. CASE j = k
      <4>1. table'[k] = Append(<<>>, i)
        BY <1>0, <1>1, <1>8
      <4> QED BY <2>6, <3>2, <4>1
    <3> QED BY <3>1, <3>2
  <2>7. Range(order') \cap Range(replays') = {} /\ IsInjective(replays')
    BY <1>8, <2>3 DEF Unsent, Sent
  <2> QED BY <1>2, <2>2, <2>3, <2>5, <2>6, <2>7 DEF Unsent
<1> QED BY <1>0, <1>6, <1>7, <1>8
  DEF MakeRequest, RefuseIngress, RefuseAdmission, DropPrefetch, Accept, Refuse, Taken

\* Steps that leave the table, the queue and the deferred replays alone keep Unsent.
LEMMA UnsentKept ==
  ASSUME Unsent, UNCHANGED <<order, replays, pend, table>>,
         cb' = cb \/ cb'.step # "serve" \/ cb'.first
  PROVE  Unsent'
BY DEF Unsent, Sent

\* The callbacks' pop_front: the next record of the line was never issued.
LEMMA PopFrontOrdered ==
  ASSUME Types, Unsent, Chosen, PopFront
  PROVE  Unsent' /\ Chosen'
<1>0. PICK N, t, k : N = Len(req) /\ t = table /\ k = cb.at
  OBVIOUS
<1>1. /\ N \in Nat /\ t \in [Keys -> Seq(1..N)] /\ k \in Keys /\ t[k] # <<>>
      /\ cb \in Callbacks(N)
  BY <1>0, LenProperties DEF Types, Typed, PopFront, Callbacks, NoCallback
<1>2. /\ UNCHANGED <<req, queue, pend, replays>>
      /\ table' = [t EXCEPT ![k] = Tail(@)]
      /\ cb'.at = k /\ cb'.by = cb.by /\ cb'.msg = cb.msg /\ cb # NoCallback
  BY <1>0, <1>1 DEF PopFront, core, Callbacks, NoCallback
<1>3. Sent' = Sent
  BY <1>2 DEF Sent, queue
<1>4. /\ t[k] \in Seq(1..N) /\ table'[k] = Tail(t[k])
      /\ \A n \in DOMAIN Tail(t[k]) : /\ n + 1 \in DOMAIN t[k] /\ n + 1 > 1
                                      /\ Tail(t[k])[n] = t[k][n + 1]
  BY <1>1, <1>2
<1>5. \A n \in DOMAIN table'[k] : table'[k][n] \notin Sent
  BY <1>0, <1>1, <1>4 DEF Unsent
<1>6. \A j \in Keys : \A n \in DOMAIN table'[j] : n > 1 => table'[j][n] \notin Sent
  <2>1. \A j \in Keys \ {k} : table'[j] = table[j]
    BY <1>0, <1>1, <1>2
  <2> QED BY <1>5, <2>1 DEF Unsent
<1>7. table'[k] # <<>> => Head(table'[k]) \notin Sent
  <2>1. table'[k] \in Seq(1..N)
    BY <1>1, <1>4
  <2>2. table'[k] # <<>> => 1 \in DOMAIN table'[k] /\ Head(table'[k]) = table'[k][1]
    BY <2>1
  <2> QED BY <1>5, <2>2
<1>8. Unsent'
  BY <1>2, <1>3, <1>6, <1>7 DEF Unsent, queue
<1>9. Chosen'
  BY <1>2, QueueKnown, ShrinkChosen DEF queue, Stalled
<1> QED BY <1>8, <1>9

\* The callbacks' reissue: directly or through the replays.
LEMMA ReissueOrdered ==
  ASSUME Types, Counted, Unsent, Chosen, Reissue
  PROVE  Unsent' /\ Chosen'
<1>0. PICK N, t, k, i : N = Len(req) /\ t = table /\ k = cb.at /\ i = Leader
  OBVIOUS
<1>1. /\ N \in Nat /\ t \in [Keys -> Seq(1..N)] /\ k \in Keys /\ t[k] # <<>>
      /\ cb \in Callbacks(N) /\ cb.step = "serve" /\ ~ cb.first
  BY <1>0, LenProperties DEF Types, Typed, Reissue, Callbacks, NoCallback, Served
<1>2. /\ i = t[k][1] /\ 1 \in DOMAIN t[k] /\ t[k] \in Seq(1..N) /\ i \in 1..N /\ i \in Nat
      /\ i = Head(t[k])
  BY <1>0, <1>1 DEF Leader
<1>3. i \notin Sent
  BY <1>0, <1>1, <1>2 DEF Unsent
<1>4. /\ UNCHANGED <<req, pend, table>> /\ cb'.step = "over" /\ cb # NoCallback
      /\ cb'.by = cb.by /\ cb'.msg = cb.msg
      /\ IssueRequest(i)
  <2>1. UNCHANGED <<req, pend, table>> /\ IssueRequest(i) /\ cb' = [cb EXCEPT !.step = "over"]
    BY <1>0 DEF Reissue, core
  <2>2. cb # NoCallback
    BY <1>1 DEF NoCallback
  <2>3. cb'.step = "over" /\ cb'.by = cb.by /\ cb'.msg = cb.msg
    BY <1>1, <2>1 DEF Callbacks
  <2> QED BY <2>1, <2>2, <2>3
<1>5. \A q \in Ports : pend[q] # NoMsg => pend[q] # i
  BY <1>0, <1>1, <1>2 DEF Counted, Placed, LiveIn, Range
<1>6. ASSUME NEW j \in Keys, NEW n \in DOMAIN t[j], n > 1 PROVE t[j][n] # i
  <2>1. CASE j = k
    BY <1>0, <1>1, <1>2, <1>6, <2>1 DEF Counted, Placed, IsInjective
  <2>2. CASE j # k
    BY <1>0, <1>1, <1>2, <1>6, <2>2 DEF Counted, Placed
  <2> QED BY <2>1, <2>2
<1>7. /\ <<i>> \in Seq(Nat) /\ IsInjective(<<i>>) /\ Range(<<i>>) = {i}
  BY <1>2, OneInjective
<1>8. replays \in Seq(Nat) /\ order \in Seq(Nat)
  <2>1. replays \in Seq(1..N) /\ 1..N \subseteq Nat
    BY <1>0, <1>1 DEF Types, Typed
  <2> QED BY <2>1, SeqMonotonic, QueueKnown
<1>9. ASSUME Sent' = Sent \cup {i}, IsInjective(order'), IsInjective(replays'),
             Range(order') \cap Range(replays') = {}
      PROVE  Unsent'
  BY <1>0, <1>4, <1>5, <1>6, <1>9 DEF Unsent
<1>10. CASE EnqueueAll(<<i>>) /\ replays' = replays
  <2>1. Range(order) \cap Range(<<i>>) = {}
    BY <1>3, <1>7 DEF Sent
  <2>2. Chosen'
    BY <1>4, <1>7, <1>10, <2>1, EnqueueChosen
  <2>3. IsInjective(order') /\ Range(order') = Range(order) \cup {i}
    BY <1>7, <1>8, <1>10, <2>1, ConcatInjective DEF Unsent, EnqueueAll
  <2>4. /\ Sent' = Sent \cup {i} /\ IsInjective(replays')
        /\ Range(order') \cap Range(replays') = {}
    BY <1>3, <1>10, <2>3 DEF Sent, Unsent
  <2> QED BY <1>9, <2>2, <2>3, <2>4
<1>11. CASE UNCHANGED queue /\ replays' = Append(replays, i)
  <2>1. Chosen'
    BY <1>4, <1>11, QueueKnown, ShrinkChosen DEF queue, Stalled
  <2>2. Append(replays, i) = replays \o <<i>>
    BY <1>2, <1>8
  <2>3. IsInjective(replays') /\ Range(replays') = Range(replays) \cup {i}
    <3>1. Range(replays) \cap Range(<<i>>) = {}
      BY <1>3, <1>7 DEF Sent
    <3> QED BY <1>7, <1>8, <1>11, <2>2, <3>1, ConcatInjective, ZenonT(30) DEF Unsent
  <2>4. /\ Sent' = Sent \cup {i} /\ IsInjective(order')
        /\ Range(order') \cap Range(replays') = {}
    BY <1>3, <1>11, <2>3 DEF Sent, Unsent, queue
  <2> QED BY <1>9, <2>1, <2>3, <2>4
<1> QED BY <1>4, <1>10, <1>11 DEF IssueRequest

\* The replays move, in order.
LEMMA ServiceOrdered ==
  ASSUME Types, Picks, Unsent, Chosen, ServiceIngress
  PROVE  Unsent' /\ Chosen'
<1>1. PICK ms, rest \in Seq(Nat) :
         /\ EnqueueAll(ms) /\ replays' = rest /\ UNCHANGED <<req, pend, table, cb>>
         /\ cb = NoCallback /\ IsInjective(ms) /\ IsInjective(rest)
         /\ Range(ms) \cup Range(rest) = Range(replays) /\ Range(ms) \cap Range(rest) = {}
  BY ReplaysSplit
<1>2. Range(order) \cap Range(ms) = {} /\ Range(order) \cap Range(rest) = {}
  BY <1>1 DEF Unsent
<1>3. Chosen'
  BY <1>1, <1>2, EnqueueChosen
<1>4. IsInjective(order') /\ Range(order') = Range(order) \cup Range(ms)
  BY <1>1, <1>2, QueueKnown, ConcatInjective DEF Unsent, EnqueueAll
<1>5. Sent' \subseteq Sent
  BY <1>1, <1>4 DEF Sent
<1>6. Range(order') \cap Range(replays') = {} /\ IsInjective(replays')
  BY <1>1, <1>2, <1>4
<1>7. Unsent'
  BY <1>1, <1>4, <1>5, <1>6 DEF Unsent, NoCallback
<1> QED BY <1>3, <1>7

\* Every step of the Sequencer keeps Unsent and Chosen.
LEMMA OrderedStep ==
  ASSUME Types, Picks, Counted, Unsent, Chosen, [Next]_vars
  PROVE  Unsent' /\ Chosen'
<1>0. /\ Len(req) \in Nat /\ QueueTyped(Len(req)) /\ order \in Seq(Nat)
      /\ heap \cup Stalled \subseteq Range(order) /\ Range(order) \subseteq 1..Len(req)
      /\ selected \in heap \cup {NoMsg}
  BY QueueKnown
<1>1. ASSUME UNCHANGED <<req, order, replays, pend, table>>, cb' = cb \/ cb' = NoCallback,
             heap' \cup Stalled' \subseteq heap \cup Stalled,
             selected' = selected \/ selected' = NoMsg,
             cb = NoCallback \/ cb' = NoCallback \/ heap' = heap
      PROVE  Unsent' /\ Chosen'
  <2>1. Unsent'
    BY <1>1, UnsentKept DEF NoCallback
  <2> QED BY <1>0, <1>1, <2>1, ShrinkChosen
<1>2. ASSUME NEW m, Dequeue(m), UNCHANGED <<req, replays, pend, table>>,
             cb' = NoCallback
      PROVE  Unsent' /\ Chosen'
  BY <1>1, <1>2 DEF Dequeue, RemoveSelected, Stalled
<1>3. CASE UNCHANGED vars
  BY <1>1, <1>3 DEF vars, queue, core, admission, Stalled
<1>4. ASSUME NEW r \in Requests, Send(r) PROVE Unsent' /\ Chosen'
  <2>1. PICK p, i : p = PortOf(r) /\ i = Len(req) + 1
    OBVIOUS
  <2>2. /\ p \in Ports /\ i \in Nat \ {0} /\ MakeRequest(p, i, r) /\ cb' = cb /\ CoreRuns
        /\ i \notin 1..Len(req)
    BY <1>0, <1>4, <2>1, SequencerAssumption DEF Send, CoreRuns
  <2>3. \A j \in 1..Len(req) : req'[j] = req[j]
    BY <1>4, AppendProperties DEF Send, Types
  <2>4. /\ LiveIn(table) \subseteq 1..Len(req) /\ Range(replays) \subseteq 1..Len(req)
        /\ \A q \in Ports : pend[q] # i
    <3>1. PICK N, t : N = Len(req) /\ t = table
      OBVIOUS
    <3>2. N \in Nat /\ t \in [Keys -> Seq(1..N)] /\ replays \in Seq(1..N)
          /\ pend \in [Ports -> 0..N]
      BY <1>0, <3>1 DEF Types, Typed
    <3>3. LiveIn(t) \subseteq 1..N /\ Range(replays) \subseteq 1..N
      BY <3>2, LiveKnown, RangeOfSeq
    <3> QED BY <2>1, <3>1, <3>2, <3>3
  <2>5. i \notin LiveIn(table) /\ i \notin Sent
    BY <1>0, <2>2, <2>4 DEF Sent
  <2> QED BY <2>2, <2>3, <2>4, <2>5, MakeRequestOrdered
<1>5. ASSUME NEW p \in Ports, Resend(p) PROVE Unsent' /\ Chosen'
  <2>1. PICK i, r : i = pend[p] /\ r = req[i]
    OBVIOUS
  <2>2. i \in 1..Len(req) /\ r \in Requests /\ i # NoMsg
    BY <1>5, <2>1, ReqKnown, LenProperties DEF Resend, Types, Typed, NoMsg
  <2>3. i \in Nat \ {0}
    BY <1>0, <2>2
  <2>4. MakeRequest(p, i, r) /\ cb' = cb /\ CoreRuns /\ req' = req
    BY <1>5, <2>1 DEF Resend
  <2>5. /\ i \notin LiveIn(table) /\ i \notin Sent
        /\ \A q \in Ports \ {p} : pend[q] # i
    BY <2>1, <2>2 DEF Counted, Placed, Unsent
  <2> QED BY <2>2, <2>3, <2>4, <2>5, MakeRequestOrdered
<1>6. CASE PopFront
  BY <1>6, PopFrontOrdered
<1>7. CASE Reissue
  BY <1>7, ReissueOrdered
<1>8. CASE ServiceIngress
  BY <1>8, ServiceOrdered
<1>9. CASE HitCallback
  <2>1. /\ UNCHANGED <<req, order, heap, stallMap, selected, replays, pend, table>>
        /\ cb'.step = "hit" /\ cb # NoCallback /\ cb'.by = cb.by /\ cb'.msg = cb.msg
    BY <1>9 DEF HitCallback, queue, NoCallback, Types, Typed, Callbacks
  <2>2. Unsent'
    BY <2>1, UnsentKept
  <2>3. Chosen'
    BY <1>0, <2>1, ShrinkChosen DEF Stalled
  <2> QED BY <2>2, <2>3
<1>10. CASE CallbackDone
  <2>1. UNCHANGED <<req, replays, pend, table>> /\ cb' = NoCallback
    BY <1>10 DEF CallbackDone, core, admission
  <2>2. CASE UNCHANGED queue
    BY <1>1, <2>1, <2>2 DEF queue, Stalled
  <2>3. CASE Dequeue(cb.msg)
    BY <1>2, <2>1, <2>3
  <2>4. CASE Reanalyze(cb.at)
    <3>1. heap' \cup Stalled' \subseteq heap \cup Stalled
      BY <2>4 DEF Reanalyze, WaitFor, Stalled
    <3> QED BY <1>1, <2>1, <2>4, <3>1 DEF Reanalyze
  <2> QED BY <1>10, <2>2, <2>3, <2>4 DEF CallbackDone
<1>11. CASE L0Hit
  <2>1. PICK N, m : N = Len(req) /\ m = Peek
    OBVIOUS
  <2>2. m \in heap /\ Clear(m, heap)
    BY <1>0, <1>11, <2>1, PeekClear DEF L0Hit, CanServe, IsReady, Unsent
  <2>3. /\ UNCHANGED <<req, order, heap, stallMap, selected, replays, pend, table>>
        /\ cb'.first /\ cb'.msg = m
    BY <1>11, <2>1 DEF L0Hit, Callback, queue, core, admission
  <2>4. Unsent'
    BY <2>3, UnsentKept
  <2>5. Clear(m, heap)'
    BY <2>2, <2>3 DEF Clear, Older, IngressIndependent, Reorderable, Copy
  <2>6. Clear(selected, heap \cup Stalled)' <=> Clear(selected, heap \cup Stalled)
    BY <2>3 DEF Clear, Stalled, Older, IngressIndependent, Reorderable, Copy
  <2>7. m \in Range(order)
    BY <1>0, <2>2
  <2>8. Chosen'
    BY <2>3, <2>5, <2>6, <2>7 DEF Chosen, Clear, Older, IngressIndependent, Reorderable, Copy
  <2> QED BY <2>4, <2>8
<1>12. CASE L0Miss \/ L0Spm
  <2>1. PICK m : m = Peek
    OBVIOUS
  <2> QED BY <1>2, <1>12, <2>1 DEF L0Miss, L0Spm, CanServe, core, admission
<1>13. CASE L0Stall
  <2>1. /\ UNCHANGED <<req, order, heap, stallMap, replays, pend, table, cb>>
        /\ cb = NoCallback /\ heap # {} /\ TryIngressBypass
    <3>1. /\ UNCHANGED <<req, core, admission, cb>> /\ TryIngressBypass
          /\ cb = NoCallback /\ heap # {}
      BY <1>13 DEF L0Stall, CanServe, IsReady
    <3>2. UNCHANGED <<order, heap, stallMap>>
      BY <3>1 DEF TryIngressBypass
    <3> QED BY <3>1, <3>2 DEF core, admission
  <2>2. Unsent'
    BY <2>1, UnsentKept
  <2>3. PICK N, n : N = Len(req) /\ n = selected'
    OBVIOUS
  <2>4. n # NoMsg => n \in Candidates(attempted \cup {Peek})
    BY <1>0, <2>1, <2>3, SelectedIn
  <2>5. n # NoMsg => \A m \in heap \cup Stalled : Older(m, n) => IngressIndependent(n, m)
    BY <2>4 DEF Candidates
  <2>6. n # NoMsg => \A m \in (heap \cup Stalled)' : Older(m, n)' => IngressIndependent(n, m)'
    BY <2>1, <2>5 DEF Stalled, Older, IngressIndependent, Reorderable, Copy
  <2> QED BY <2>1, <2>2, <2>3, <2>6 DEF Chosen, Clear
<1>14. ASSUME NEW i, StallAndWait(i) PROVE Unsent' /\ Chosen'
  <2>1. PICK m, k : m = Peek /\ k = req[i].at
    OBVIOUS
  <2>2. /\ UNCHANGED <<req, order, replays, pend, table, cb>> /\ cb = NoCallback
        /\ selected' = NoMsg /\ heap' = heap \ {m} /\ stallMap' = stallMap \cup {<<m, k>>}
    BY <1>14, <2>1
    DEF StallAndWait, StallMessage, RemoveSelected, CanServe, core, admission
  <2>3. m \in heap
    BY <1>0, <1>14, <2>1, PeekIn DEF StallAndWait, CanServe, IsReady
  <2>4. heap' \cup Stalled' \subseteq heap \cup Stalled
    BY <2>2, <2>3 DEF Stalled
  <2> QED BY <1>1, <2>2, <2>4
<1>15. ASSUME NEW i, Response(i) \/ (\E k \in DOMAIN resp : SpmResponse(k))
       PROVE  Unsent' /\ Chosen'
  <2>1. /\ UNCHANGED <<req, order, heap, stallMap, selected, replays, pend, table>>
        /\ cb'.first /\ cb'.by # "hit"
    <3>1. CASE Response(i)
      <4>1. UNCHANGED <<req, queue, core, admission>> /\ cb'.first = TRUE /\ cb'.by = "miss"
        BY <3>1 DEF Response, Callback
      <4> QED BY <4>1 DEF queue, core, admission
    <3>2. ASSUME NEW k \in DOMAIN resp, SpmResponse(k)
          PROVE  /\ UNCHANGED <<req, queue, core, admission>>
                 /\ cb'.first /\ cb'.by # "hit"
      <4>1. UNCHANGED <<req, queue, core, admission>> /\ cb'.first = TRUE /\ cb'.by = "spm"
        BY <3>2 DEF SpmResponse, Callback
      <4> QED BY <4>1
    <3>3. CASE \E k \in DOMAIN resp : SpmResponse(k)
      BY <3>2, <3>3 DEF queue, core, admission
    <3> QED BY <1>15, <3>1, <3>3
  <2>2. Unsent'
    BY <2>1, UnsentKept
  <2> QED BY <1>0, <2>1, <2>2, ShrinkChosen DEF Stalled
<1>16. CASE L1Take \/ \E i \in Ids : L1Install(i)
  <2>1. UNCHANGED <<req, queue, core, admission, cb>>
    BY <1>16 DEF L1Take, L1Install
  <2> QED BY <1>1, <2>1 DEF queue, core, admission, Stalled
<1>17. CASE Tick
  BY <1>1, <1>17 DEF Tick, NextCycle, core, Stalled
<1> QED
  BY <1>3, <1>4, <1>5, <1>6, <1>7, <1>8, <1>9, <1>10, <1>11, <1>12, <1>13, <1>14, <1>15,
     <1>16, <1>17 DEF Next

\* A message leaves the queue as the mandatory port's head, or as the message
\* of the hit whose callback has run.
LEMMA LeavesClear ==
  ASSUME Types, Picks, Unsent, Chosen, [Next]_vars, NEW n \in heap \ heap'
  PROVE  Clear(n, heap)
<1>1. CASE heap \subseteq heap'
  BY <1>1
<1>2. CASE CanServe /\ heap' = heap \ {Peek}
  <2>1. PICK N : N = Len(req)
    OBVIOUS
  <2>2. Clear(Peek, heap)
    BY <1>2, <2>1, QueueKnown, PeekClear DEF CanServe, IsReady, Unsent
  <2> QED BY <1>2, <2>2
<1>3. CASE cb # NoCallback /\ cb.by = "hit" /\ heap' = heap \ {cb.msg}
  BY <1>3 DEF Chosen
<1>4. ASSUME NEW p, NEW i, NEW r, MakeRequest(p, i, r) PROVE heap \subseteq heap'
  BY <1>4 DEF MakeRequest, RefuseIngress, RefuseAdmission, DropPrefetch, Accept, Refuse,
              EnqueueAll, queue
<1>5. CASE UNCHANGED vars
  BY <1>1, <1>5 DEF vars, queue
<1>6. CASE (\E r \in Requests : Send(r)) \/ (\E p \in Ports : Resend(p))
  BY <1>1, <1>4, <1>6 DEF Send, Resend
<1>7. CASE HitCallback \/ PopFront \/ Reissue \/ ServiceIngress \/ Tick
  BY <1>1, <1>7 DEF HitCallback, PopFront, Reissue, IssueRequest, ServiceIngress, Tick,
                    EnqueueAll, NextCycle, queue
<1>8. CASE CallbackDone
  <2>1. cb # NoCallback
    BY <1>8 DEF CallbackDone, NoCallback
  <2> QED BY <1>1, <1>3, <1>8, <2>1
    DEF CallbackDone, Dequeue, RemoveSelected, Reanalyze, queue
<1>9. CASE L0Miss \/ L0Spm \/ (\E i \in Ids : StallAndWait(i))
  BY <1>2, <1>9 DEF L0Miss, L0Spm, StallAndWait, StallMessage, Dequeue, RemoveSelected
<1>10. CASE \/ L0Hit \/ L0Stall \/ L1Take
            \/ \E i \in Ids : Response(i) \/ L1Install(i)
            \/ \E k \in DOMAIN resp : SpmResponse(k)
  BY <1>1, <1>10 DEF L0Hit, L0Stall, TryIngressBypass, L1Take, Response, L1Install,
                     SpmResponse, queue
<1> QED
  BY <1>5, <1>6, <1>7, <1>8, <1>9, <1>10 DEF Next

\* They hold initially.
LEMMA OrderedInit == Init => Unsent /\ Chosen
<1> SUFFICES ASSUME Init PROVE Unsent /\ Chosen
  OBVIOUS
<1>1. /\ order = <<>> /\ replays = <<>> /\ table = [k \in Keys |-> <<>>]
      /\ pend = [p \in Ports |-> NoMsg] /\ selected = NoMsg
      /\ cb = NoCallback /\ cb.step # "serve"
  BY DEF Init, QueueInit, NoCallback
<1>2. Unsent
  BY SMTT(30), <1>1 DEF Unsent, Range, IsInjective
<1> QED BY <1>1, <1>2 DEF Chosen

-----------------------------------------------------------------------------
(* Transactions.                                                           *)

\* With no callback running, what is in flight leads its line.
LEMMA FlightLeads ==
  ASSUME Ordered, Transactions, cb = NoCallback, NEW i \in Flight
  PROVE  /\ req[i].at \in Keys /\ table[req[i].at] # <<>> /\ Head(table[req[i].at]) = i
         /\ i \in Sent /\ i \in 1..Len(req) /\ i \in LiveIn(table)
<1>1. i \in Sent /\ i \in LiveIn(table)
  BY FlightSent DEF Ordered, Transactions, Carried
<1> QED BY <1>1, SentLeads

\* The places a message can be in are the same.
SamePlaces == UNCHANGED <<heap, stallMap, replays, missing, toL1, atL1, resp>>

LEMMA PlacesKept ==
  ASSUME Apart, Once, SamePlaces
  PROVE  Apart' /\ Once' /\ Flight' = Flight /\ RespMsgs' = RespMsgs
<1>1. RespMsgs' = RespMsgs /\ Stalled' = Stalled
  BY DEF SamePlaces, RespMsgs, Stalled
<1>2. Flight' = Flight
  BY <1>1 DEF SamePlaces, Flight
<1>3. Apart'
  BY <1>1 DEF SamePlaces, Apart
<1>4. Once'
  BY DEF SamePlaces, Once
<1> QED BY <1>1, <1>2, <1>3, <1>4

\* The requests known so far stay what they are.
LEMMA LanesKept ==
  ASSUME Types, Lanes, \A j \in 1..Len(req) : req'[j] = req[j], Range(order) \subseteq Range(order'),
         missing' \subseteq missing, Range(toL1') \subseteq Range(toL1), atL1' \subseteq atL1,
         RespMsgs' \subseteq RespMsgs
  PROVE  Lanes'
<1>1. missing \cup Range(toL1) \cup atL1 \cup RespMsgs \subseteq 1..Len(req)
  BY FlightSent DEF Flight
<1> QED BY <1>1 DEF Lanes, Spm, Kind

\* A step that moves messages between places, or none.
LEMMA MoveKeeps ==
  ASSUME Carried, Serving, Flight' = Flight, Sent' = Sent, UNCHANGED <<req, table, cb>>,
         cb = NoCallback \/ UNCHANGED <<heap, missing>>
  PROVE  Carried' /\ Serving'
<1>1. Carried'
  BY DEF Carried, LiveIn
<1>2. Serving'
  BY DEF Serving, LiveIn
<1> QED BY <1>1, <1>2

\* A message that is nowhere enters the queue.
LEMMA EnqueueApart ==
  ASSUME Apart, Once, NEW i, i \notin Flight, heap' = heap \cup {i},
         UNCHANGED <<stallMap, replays, missing, toL1, atL1, resp>>
  PROVE  Apart' /\ Once' /\ Flight' = Flight \cup {i} /\ RespMsgs' = RespMsgs
<1>1. RespMsgs' = RespMsgs /\ Stalled' = Stalled
  BY DEF RespMsgs, Stalled
<1>2. Flight' = Flight \cup {i}
  BY <1>1 DEF Flight
<1>3. Apart'
  BY <1>1 DEF Apart, Flight
<1>4. Once'
  BY DEF Once
<1> QED BY <1>1, <1>2, <1>3, <1>4

\* makeRequest, for a request of port p that was never issued.
LEMMA MakeRequestCarried ==
  ASSUME Ordered, Transactions, NEW p \in Ports, NEW i \in 1..(Len(req) + 1),
         NEW r \in Requests, MakeRequest(p, i, r), UNCHANGED <<cb, below>>, CoreRuns,
         i \notin LiveIn(table), i \notin Sent,
         \A j \in 1..Len(req) : req'[j] = req[j]
  PROVE  Transactions'
<1>0. PICK N, t, u, k : N = Len(req) + 1 /\ t = table /\ u = table' /\ k = r.at
  OBVIOUS
<1>1. /\ N \in Nat /\ t \in [Keys -> Seq(1..N)] /\ k \in Keys /\ i \in 1..N
      /\ cb = NoCallback \/ (cb \in Callbacks(N - 1) /\ cb.step = "hit" /\ cb.at \in Keys /\ t[cb.at] # <<>>)
  <2>1. Len(req) \in Nat /\ Typed(Len(req))
    BY LenProperties DEF Ordered, Types
  <2>2. PICK M : M = Len(req)
    OBVIOUS
  <2>3. M \in Nat /\ N = M + 1 /\ Typed(M)
    BY <1>0, <2>1, <2>2
  <2>4. Typed(N)
    BY <2>3, TypedGrows
  <2>5. cb = NoCallback \/ (cb \in Callbacks(M) /\ cb.step = "hit" /\ cb.at \in Keys /\ t[cb.at] # <<>>)
    BY <1>0, <2>3 DEF Typed, CoreRuns, Callbacks
  <2>6. t \in [Keys -> Seq(1..N)] /\ N \in Nat
    BY <1>0, <2>3, <2>4 DEF Typed
  <2> QED BY <1>0, <2>3, <2>5, <2>6, SequencerAssumption
<1>2. /\ UNCHANGED <<missing, toL1, atL1, resp, cb>> /\ Apart /\ Once /\ Lanes /\ Carried /\ Serving
      /\ RespMsgs' = RespMsgs /\ Types
  BY DEF below, Transactions, RespMsgs, Ordered
<1>3. Flight \subseteq Sent /\ i \notin Flight /\ Flight \subseteq 1..Len(req)
  BY <1>2, FlightSent
<1>4. cb # NoCallback => /\ cb.msg \in Sent /\ cb.msg # i /\ cb.msg \in 1..Len(req)
                         /\ req'[cb.msg] = req[cb.msg]
  <2>1. cb # NoCallback => cb.msg \in Sent /\ cb.msg # i
    BY <1>2 DEF Serving
  <2>2. cb # NoCallback => cb.msg \in 1..Len(req)
    BY DEF Ordered, Types, Typed, Callbacks
  <2> QED BY <2>1, <2>2
<1>5. CASE UNCHANGED <<queue, table, replays>>
  <2>1. SamePlaces /\ Sent' = Sent /\ order' = order
    BY <1>2, <1>5 DEF queue, SamePlaces, Sent
  <2>2. Apart' /\ Once' /\ Flight' = Flight
    BY <1>2, <2>1, PlacesKept
  <2>3. Lanes'
    BY <1>2, <2>1, LanesKept
  <2>4. Carried'
    BY <1>2, <1>5, <2>2 DEF Carried, LiveIn
  <2>5. Serving'
    BY <1>2, <1>4, <1>5, <2>1, <2>2 DEF Serving, SamePlaces, LiveIn
  <2> QED BY <2>2, <2>3, <2>4, <2>5 DEF Transactions
<1>6. CASE /\ table' = [table EXCEPT ![k] = Append(@, i)] /\ table[k] # <<>>
           /\ UNCHANGED <<queue, replays>>
  <2>0. /\ LiveIn(u) = LiveIn(t) \cup {i} /\ Head(u[k]) = Head(t[k]) /\ u[k] # <<>>
        /\ \A j \in Keys \ {k} : u[j] = t[j]
    <3>1. t[k] # <<>> /\ u = [t EXCEPT ![k] = Append(@, i)]
      BY <1>0, <1>6
    <3>2. LiveIn(u) = LiveIn(t) \cup {i} /\ (t[k] # <<>> => Head(u[k]) = Head(t[k]))
      BY ONLY <1>1, <3>1, AppendLive, Zenon
    <3>3. u[k] = Append(t[k], i) /\ t[k] \in Seq(1..N) /\ \A j \in Keys \ {k} : u[j] = t[j]
      BY <1>1, <3>1
    <3>4. u[k] # <<>>
      BY <3>3
    <3> QED BY <3>1, <3>2, <3>3, <3>4
  <2>1. SamePlaces /\ Sent' = Sent /\ order' = order
    BY <1>2, <1>6 DEF queue, SamePlaces, Sent
  <2>2. Apart' /\ Once' /\ Flight' = Flight
    BY <1>2, <2>1, PlacesKept
  <2>3. Lanes'
    BY <1>2, <2>1, LanesKept
  <2>4. \A j \in Keys : (u[j] # <<>>) = (t[j] # <<>>) /\ (t[j] # <<>> => Head(u[j]) = Head(t[j]))
    BY <1>0, <1>6, <2>0
  <2>5. Carried'
    BY <1>0, <1>2, <2>0, <2>2, <2>4 DEF Carried
  <2>6. Serving'
    <3>1. cb # NoCallback => u[cb.at] # <<>> /\ Head(u[cb.at]) = Head(t[cb.at])
      BY <1>1, <2>4
    <3>2. cb # NoCallback => (cb.msg \notin LiveIn(t) => cb.msg \notin LiveIn(u))
      BY <1>4, <2>0
    <3> QED BY <1>0, <1>2, <1>4, <2>1, <2>2, <3>1, <3>2 DEF Serving, SamePlaces
  <2> QED BY <2>2, <2>3, <2>5, <2>6 DEF Transactions
<1>7. CASE /\ table' = [table EXCEPT ![k] = Append(@, i)] /\ table[k] = <<>>
           /\ EnqueueAll(<<i>>) /\ replays' = replays
  <2>0. /\ LiveIn(u) = LiveIn(t) \cup {i} /\ Head(u[k]) = i /\ u[k] # <<>>
        /\ \A j \in Keys \ {k} : u[j] = t[j]
    <3>1. t[k] = <<>> /\ u = [t EXCEPT ![k] = Append(@, i)]
      BY <1>0, <1>7
    <3>2. LiveIn(u) = LiveIn(t) \cup {i}
      BY ONLY <1>1, <3>1, AppendLive, Zenon
    <3>3. u[k] = Append(<<>>, i) /\ \A j \in Keys \ {k} : u[j] = t[j]
      BY <1>1, <3>1
    <3>4. u[k] # <<>> /\ Head(u[k]) = i
      BY <3>3
    <3> QED BY <3>2, <3>3, <3>4
  <2>1. /\ order' = order \o <<i>> /\ heap' = heap \cup {i} /\ stallMap' = stallMap
        /\ Range(order') = Range(order) \cup {i}
    <3>1. <<i>> \in Seq(1..N) /\ Range(<<i>>) = {i}
      BY <1>1, OneTyped
    <3>2. order \in Seq(Nat) /\ <<i>> \in Seq(Nat)
      BY <1>1, <1>2, QueueKnown
    <3>3. Range(order \o <<i>>) = Range(order) \cup Range(<<i>>)
      BY <3>2, ZenonT(30), RangeConcatenation
    <3> QED BY <1>7, <3>1, <3>3 DEF EnqueueAll
  <2>2. Sent' = Sent \cup {i}
    BY <1>7, <2>1 DEF Sent
  <2>3. Apart' /\ Once' /\ Flight' = Flight \cup {i}
    BY <1>2, <1>3, <1>7, <2>1, EnqueueApart
  <2>4. Lanes'
    BY <1>2, <2>1, LanesKept
  <2>5. Carried'
    <3>1. ASSUME NEW j \in Keys, u[j] # <<>>
          PROVE  Head(u[j]) \in Flight' \/ (cb # NoCallback /\ cb.at = j /\ cb.step # "over")
      <4>1. CASE j = k
        BY <2>0, <2>3, <4>1
      <4>2. CASE j # k
        BY <1>0, <1>2, <2>0, <2>3, <3>1, <4>2 DEF Carried
      <4> QED BY <4>1, <4>2
    <3>2. \A j \in Flight' : j \in LiveIn(u) \/ (cb # NoCallback /\ j = cb.msg)
      BY <1>0, <1>2, <2>0, <2>3 DEF Carried
    <3> QED BY <1>0, <1>2, <3>1, <3>2 DEF Carried
  <2>6. Serving'
    <3>1. cb # NoCallback => u[cb.at] = t[cb.at]
      BY <1>0, <1>1, <1>7, <2>0
    <3>2. cb # NoCallback => (cb.msg \notin LiveIn(t) => cb.msg \notin LiveIn(u))
      BY <1>4, <2>0
    <3>3. cb # NoCallback => Head(t[cb.at]) # i
      BY <1>0, <1>1, LeaderLive
    <3>4. cb # NoCallback => cb.step # "over"
      BY <1>1
    <3> QED BY <1>0, <1>2, <1>4, <2>1, <2>2, <2>3, <3>1, <3>2, <3>3, <3>4 DEF Serving
  <2> QED BY <2>3, <2>4, <2>5, <2>6 DEF Transactions
<1> QED BY <1>0, <1>5, <1>6, <1>7
  DEF MakeRequest, RefuseIngress, RefuseAdmission, DropPrefetch, Accept, Refuse, Taken

\* hitCallback leaves the list and the messages as they are.
LEMMA HitCarried ==
  ASSUME Ordered, Transactions, HitCallback
  PROVE  Transactions'
<1>0. PICK N : N = Len(req)
  OBVIOUS
<1>1. /\ cb \in Callbacks(N) /\ cb # NoCallback /\ cb.step = "serve" /\ cb.at \in Keys /\ table[cb.at] # <<>>
      /\ Apart /\ Once /\ Lanes /\ Carried /\ Serving /\ Types
  BY <1>0 DEF HitCallback, Ordered, Types, Typed, Callbacks, NoCallback, Transactions
<1>2. /\ cb'.step = "hit" /\ cb' # NoCallback /\ cb'.at = cb.at /\ cb'.msg = cb.msg
      /\ cb'.by = cb.by /\ cb'.first = cb.first
  BY <1>1 DEF HitCallback, Callbacks, NoCallback
<1>3. SamePlaces /\ UNCHANGED <<req, order, table>> /\ Sent' = Sent
  BY DEF HitCallback, queue, SamePlaces, Sent
<1>4. Apart' /\ Once' /\ Flight' = Flight /\ RespMsgs' = RespMsgs
  BY <1>1, <1>3, PlacesKept
<1>5. Lanes'
  BY <1>1, <1>3, <1>4, LanesKept DEF SamePlaces
<1>6. Carried'
  BY <1>1, <1>2, <1>3, <1>4 DEF Carried
<1>7. Serving'
  <2>1. ~ cb.first => Head(table[cb.at]) \notin Sent
    BY <1>1 DEF Ordered, Unsent
  <2> QED BY <1>1, <1>2, <1>3, <1>4, <2>1 DEF Serving, SamePlaces
<1> QED BY <1>4, <1>5, <1>6, <1>7 DEF Transactions

\* The record that leaves the list is the one that was answered: the
\* response's own, or a follower that was never sent.
LEMMA PopCarried ==
  ASSUME Ordered, Transactions, PopFront
  PROVE  Transactions'
<1>0. PICK N, t, u, k : N = Len(req) /\ t = table /\ u = table' /\ k = cb.at
  OBVIOUS
<1>1. /\ N \in Nat /\ t \in [Keys -> Seq(1..N)] /\ k \in Keys /\ t[k] # <<>>
      /\ cb \in Callbacks(N) /\ cb # NoCallback /\ cb.step = "hit"
      /\ Apart /\ Once /\ Lanes /\ Carried /\ Serving /\ Types
  BY <1>0, LenProperties DEF Ordered, Types, Typed, PopFront, Callbacks, NoCallback, Transactions
<1>2. /\ UNCHANGED <<req, order>> /\ SamePlaces /\ Sent' = Sent
      /\ u = [t EXCEPT ![k] = Tail(@)]
  BY <1>0 DEF PopFront, queue, below, Sent, SamePlaces
<1>3. /\ cb'.at = k /\ cb'.by = cb.by /\ cb'.msg = cb.msg /\ cb' # NoCallback
      /\ cb'.step = "serve" /\ cb'.first = FALSE
  BY <1>0, <1>1 DEF PopFront, Callbacks, NoCallback
<1>4. Apart' /\ Once' /\ Flight' = Flight /\ RespMsgs' = RespMsgs
  BY <1>1, <1>2, PlacesKept
<1>5. Lanes'
  BY <1>1, <1>2, <1>4, LanesKept DEF SamePlaces
<1>6. \A j \in Keys \ {k} : Range(t[j]) \cap Range(t[k]) = {}
  <2> SUFFICES ASSUME NEW j \in Keys, j # k, NEW x \in Range(t[j]) \cap Range(t[k])
               PROVE  FALSE
    OBVIOUS
  <2>1. PICK m \in DOMAIN t[j] : t[j][m] = x
    BY DEF Range
  <2>2. PICK n \in DOMAIN t[k] : t[k][n] = x
    BY DEF Range
  <2>3. req[x].at = j /\ req[x].at = k
    BY <1>0, <1>1, <2>1, <2>2 DEF Ordered, Counted, Placed
  <2> QED BY <2>3
<1>7. LiveIn(u) = LiveIn(t) \ {Head(t[k])}
  <2>1. IsInjective(t[k])
    BY <1>0, <1>1 DEF Ordered, Counted, Placed
  <2> QED BY ONLY <1>1, <1>2, <1>6, <2>1, TailLive, Zenon
<1>8. Head(t[k]) = cb.msg \/ Head(t[k]) \notin Sent
  BY <1>0, <1>1 DEF Serving, Callbacks
<1>9. Carried'
  <2>1. \A j \in Keys : u[j] # <<>> =>
            Head(u[j]) \in Flight \/ j = k
    <3>1. \A j \in Keys \ {k} : u[j] = t[j]
      BY <1>1, <1>2
    <3> QED BY <1>0, <1>1, <3>1 DEF Carried
  <2>2. \A i \in Flight : i \in LiveIn(u) \/ i = cb.msg
    BY <1>0, <1>1, <1>7, <1>8, FlightSent DEF Carried
  <2> QED BY <1>0, <1>3, <1>4, <2>1, <2>2 DEF Carried
<1>10. Serving'
  <2>1. cb.msg \notin LiveIn(u)
    BY <1>0, <1>1, <1>7 DEF Serving
  <2> QED BY <1>0, <1>1, <1>2, <1>3, <1>4, <2>1 DEF Serving, SamePlaces
<1> QED BY <1>4, <1>5, <1>9, <1>10 DEF Transactions

\* The first follower that is not answered is sent, now or later.
LEMMA ReissueCarried ==
  ASSUME Ordered, Transactions, Reissue
  PROVE  Transactions'
<1>0. PICK N, i, k : N = Len(req) /\ i = Leader /\ k = cb.at
  OBVIOUS
<1>1. /\ N \in Nat /\ k \in Keys /\ table[k] # <<>> /\ i = Head(table[k])
      /\ cb \in Callbacks(N) /\ cb # NoCallback /\ cb.step = "serve" /\ ~ cb.first
      /\ Apart /\ Once /\ Lanes /\ Carried /\ Serving /\ Types
  BY <1>0, LenProperties DEF Ordered, Types, Typed, Reissue, Callbacks, NoCallback, Transactions, Served, Leader
<1>2. /\ UNCHANGED <<req, table, missing, toL1, atL1, resp>> /\ IssueRequest(i)
      /\ cb'.at = k /\ cb'.by = cb.by /\ cb'.msg = cb.msg /\ cb' # NoCallback
      /\ cb'.step = "over" /\ cb'.first = FALSE
  BY <1>0, <1>1 DEF Reissue, below, Callbacks, NoCallback
<1>3. i \notin Sent /\ i \notin Flight /\ cb.msg \in Sent /\ cb.msg # i /\ i \in 1..N
  <2>1. i \notin Sent
    BY <1>0, <1>1 DEF Ordered, Unsent
  <2> QED BY <1>0, <1>1, <2>1, FlightSent, LeaderLive DEF Serving, Ordered
<1>4. ASSUME Flight' = Flight \cup {i}, Sent' = Sent \cup {i}, Apart', Once', heap \subseteq heap',
             Range(order) \subseteq Range(order')
      PROVE  Transactions'
  <2>1. RespMsgs' = RespMsgs /\ missing' = missing /\ Range(toL1') = Range(toL1) /\ atL1' = atL1
    BY <1>2 DEF RespMsgs
  <2>2. Lanes'
    BY <1>1, <1>2, <1>4, <2>1, LanesKept
  <2>3. Carried'
    <3>1. ASSUME NEW j \in Keys, table[j] # <<>> PROVE Head(table[j]) \in Flight'
      <4>1. CASE j = k
        BY <1>1, <1>4, <4>1
      <4>2. CASE j # k
        BY <1>0, <1>1, <1>4, <3>1, <4>2 DEF Carried
      <4> QED BY <4>1, <4>2
    <3>2. i \in LiveIn(table)
      BY <1>1, LeaderLive
    <3> QED BY <1>1, <1>2, <1>4, <3>1, <3>2 DEF Carried
  <2>4. Serving'
    BY <1>0, <1>1, <1>2, <1>3, <1>4 DEF Serving
  <2> QED BY <1>4, <2>2, <2>3, <2>4 DEF Transactions
<1>5. CASE EnqueueAll(<<i>>) /\ replays' = replays
  <2>1. /\ order' = order \o <<i>> /\ heap' = heap \cup {i} /\ stallMap' = stallMap
        /\ Range(order') = Range(order) \cup {i}
    <3>1. <<i>> \in Seq(1..N) /\ Range(<<i>>) = {i}
      BY <1>1, <1>3, OneTyped
    <3>2. order \in Seq(Nat) /\ <<i>> \in Seq(Nat)
      BY <1>1, <1>3, QueueKnown
    <3>3. Range(order \o <<i>>) = Range(order) \cup Range(<<i>>)
      BY <3>2, RangeConcatenation
    <3> QED BY <1>5, <3>1, <3>3 DEF EnqueueAll
  <2>2. Sent' = Sent \cup {i}
    BY <1>5, <2>1 DEF Sent
  <2>3. Apart' /\ Once' /\ Flight' = Flight \cup {i}
    BY <1>1, <1>2, <1>3, <1>5, <2>1, EnqueueApart
  <2> QED BY <1>4, <2>1, <2>2, <2>3
<1>6. CASE UNCHANGED queue /\ replays' = Append(replays, i)
  <2>1. Range(replays') = Range(replays) \cup {i}
    <3>1. replays \in Seq(Nat) /\ i \in Nat
      <4>1. replays \in Seq(1..N) /\ 1..N \subseteq Nat
        BY <1>0, <1>1 DEF Types, Typed
      <4> QED BY <1>3, <4>1, SeqMonotonic
    <3>2. Append(replays, i) = replays \o <<i>> /\ <<i>> \in Seq(Nat) /\ Range(<<i>>) = {i}
      BY <3>1, OneInjective
    <3>3. Range(replays \o <<i>>) = Range(replays) \cup Range(<<i>>)
      BY <3>1, <3>2, ZenonT(30), RangeConcatenation
    <3> QED BY <1>6, <3>2, <3>3
  <2>2. RespMsgs' = RespMsgs /\ Stalled' = Stalled /\ order' = order /\ heap' = heap /\ stallMap' = stallMap
    BY <1>2, <1>6 DEF RespMsgs, Stalled, queue
  <2>3. Flight' = Flight \cup {i} /\ Sent' = Sent \cup {i}
    BY <1>2, <2>1, <2>2 DEF Flight, Sent
  <2>4. Apart'
    BY <1>1, <1>2, <1>3, <2>1, <2>2 DEF Apart, Flight
  <2>5. Once'
    BY <1>1, <1>2, <2>2 DEF Once
  <2> QED BY <1>4, <2>2, <2>3, <2>4, <2>5
<1> QED BY <1>2, <1>5, <1>6 DEF IssueRequest

\* The transition ends: the message it was about leaves the hierarchy.
LEMMA DoneCarried ==
  ASSUME Ordered, Transactions, CallbackDone
  PROVE  Transactions'
<1>0. PICK N : N = Len(req)
  OBVIOUS
<1>1. /\ cb \in Callbacks(N) /\ cb # NoCallback /\ cb.at \in Keys /\ cb.step \in {"serve", "over"}
      /\ cb.step = "serve" => table[cb.at] = <<>>
      /\ Apart /\ Once /\ Lanes /\ Carried /\ Serving /\ Types
  BY <1>0 DEF CallbackDone, Ordered, Types, Typed, Callbacks, NoCallback, Transactions
<1>2. /\ cb' = NoCallback /\ UNCHANGED <<req, order, table, replays, toL1, atL1, resp>>
      /\ RespMsgs' = RespMsgs
  BY DEF CallbackDone, admission, Dequeue, RemoveSelected, Reanalyze, queue, RespMsgs
<1>3. /\ Apart' /\ Once' /\ Flight' = Flight \ {cb.msg} /\ missing' \subseteq missing
  <2>1. CASE cb.by = "hit"
    <3>1. /\ heap' = heap \ {cb.msg} /\ stallMap' = stallMap /\ missing' = missing
          /\ cb.msg \in heap /\ Stalled' = Stalled
      BY <1>1, <2>1 DEF CallbackDone, Dequeue, RemoveSelected, Serving, Stalled
    <3>2. Apart'
      BY <1>1, <1>2, <3>1 DEF Apart
    <3>3. Once'
      BY <1>1, <1>2, <3>1 DEF Once
    <3>4. Flight' = Flight \ {cb.msg}
      BY <1>1, <1>2, <3>1 DEF Apart, Flight
    <3> QED BY <3>1, <3>2, <3>3, <3>4
  <2>2. CASE cb.by = "miss"
    <3>1. PICK k, W : k = cb.at /\ W = {w[1] : w \in WaitFor(k)}
      OBVIOUS
    <3>2. /\ heap' = heap \cup W /\ stallMap' = stallMap \ WaitFor(k)
          /\ missing' = missing \ {cb.msg} /\ cb.msg \in missing
      BY <1>1, <2>2, <3>1 DEF CallbackDone, Reanalyze, Serving
    <3>3. W \subseteq Stalled /\ Stalled' = Stalled \ W
      <4>1. W \subseteq Stalled
        BY <3>1 DEF Stalled, WaitFor
      <4>2. ASSUME NEW w \in stallMap \ WaitFor(k) PROVE w[1] \notin W
        BY <1>1, <3>1, <4>2 DEF Once, WaitFor
      <4>3. Stalled' = Stalled \ W
        BY <3>1, <3>2, <4>2 DEF Stalled
      <4> QED BY <4>1, <4>3
    <3>4. Apart'
      BY <1>1, <1>2, <3>2, <3>3 DEF Apart
    <3>5. Once'
      BY <1>1, <1>2, <3>2 DEF Once
    <3>6. Flight' = Flight \ {cb.msg}
      BY <1>1, <1>2, <3>2, <3>3 DEF Apart, Flight
    <3> QED BY <3>2, <3>4, <3>5, <3>6
  <2>3. CASE cb.by = "spm"
    <3>1. SamePlaces /\ missing' = missing /\ cb.msg \notin Flight
      BY <1>1, <1>2, <2>3 DEF CallbackDone, queue, SamePlaces, Serving
    <3> QED BY <1>1, <3>1, PlacesKept
  <2> QED BY <1>1, <2>1, <2>2, <2>3 DEF Callbacks
<1>4. Lanes'
  BY <1>1, <1>2, <1>3, LanesKept
<1>5. Carried'
  <2>1. ASSUME NEW k \in Keys, table[k] # <<>> PROVE Head(table[k]) \in Flight \ {cb.msg}
    <3>1. CASE k = cb.at
      <4>1. cb.step = "over" /\ ~ cb.first
        BY <1>1, <2>1, <3>1 DEF Serving
      <4> QED BY <1>1, <2>1, <3>1, <4>1, LeaderLive DEF Serving
    <3>2. CASE k # cb.at
      <4>1. Head(table[k]) \in Flight
        BY <1>1, <2>1, <3>2 DEF Carried
      <4>2. Head(table[k]) # cb.msg
        BY <1>1, <2>1, <3>2, LeaderLive DEF Serving
      <4> QED BY <4>1, <4>2
    <3> QED BY <3>1, <3>2
  <2>2. \A i \in Flight \ {cb.msg} : i \in LiveIn(table)
    BY <1>1 DEF Carried
  <2> QED BY <1>2, <1>3, <2>1, <2>2 DEF Carried
<1>6. Serving'
  BY <1>2 DEF Serving
<1> QED BY <1>3, <1>4, <1>5, <1>6 DEF Transactions

\* A callback starts, for a message that leads its line.
LEMMA StartCarried ==
  ASSUME Ordered, Transactions, cb = NoCallback, NEW i \in Flight,
         UNCHANGED <<req, order, heap, stallMap, replays, table, missing, toL1, atL1>>,
         cb' # NoCallback, cb'.at = req[i].at, cb'.first = TRUE, cb'.msg = i, cb'.step = "serve",
         \/ resp' = resp /\ cb'.by = "hit" /\ i \in heap
         \/ resp' = resp /\ cb'.by = "miss" /\ i \in missing
         \/ \E k \in DOMAIN resp : resp' = RemoveAt(resp, k) /\ i = resp[k].msg /\ cb'.by = "spm"
  PROVE  Transactions'
<1>1. /\ req[i].at \in Keys /\ table[req[i].at] # <<>> /\ Head(table[req[i].at]) = i
      /\ i \in Sent /\ i \in LiveIn(table)
  BY FlightLeads
<1>2. Apart /\ Once /\ Lanes /\ Carried /\ Types
  BY DEF Transactions, Ordered
<1>3. /\ Apart' /\ Once' /\ Flight' \subseteq Flight /\ Flight \subseteq Flight' \cup {i}
      /\ RespMsgs' \subseteq RespMsgs /\ (cb'.by = "spm" => i \notin Flight')
  <2>1. CASE resp' = resp /\ cb'.by # "spm"
    BY <1>2, <2>1, PlacesKept DEF SamePlaces
  <2>2. ASSUME NEW k \in DOMAIN resp, resp' = RemoveAt(resp, k), i = resp[k].msg
        PROVE  /\ Apart' /\ Once' /\ Flight' \subseteq Flight /\ Flight \subseteq Flight' \cup {i}
               /\ RespMsgs' \subseteq RespMsgs /\ i \notin Flight'
    <3>0. PICK S, s, u : /\ S = [msg : 1..Len(req), val : Nat] /\ s = resp /\ u = resp'
      OBVIOUS
    <3>1. s \in Seq(S) /\ k \in DOMAIN s /\ u = RemoveAt(s, k)
          /\ \A j, l \in DOMAIN s : s[j].msg = s[l].msg => j = l
      BY <1>2, <2>2, <3>0 DEF Types, Typed, Once
    <3>2. /\ \A l \in DOMAIN u : \E j \in DOMAIN s \ {k} : u[l] = s[j]
          /\ \A j \in DOMAIN s \ {k} : \E l \in DOMAIN u : u[l] = s[j]
          /\ \A j, l \in DOMAIN u : u[j].msg = u[l].msg => j = l
      <4>1. \A j, l \in DOMAIN s : s[j].msg = s[l].msg => j = l
        BY <3>1
      <4>2. s \in Seq(S) /\ k \in DOMAIN s /\ u = RemoveAt(s, k)
        BY <3>1
      <4> QED BY ONLY <4>1, <4>2, RespRemove
    <3>3. RespMsgs' = RespMsgs \ {i} /\ i \in RespMsgs /\ Stalled' = Stalled
      <4>1. RespMsgs = {s[l].msg : l \in DOMAIN s} /\ RespMsgs' = {u[l].msg : l \in DOMAIN u}
        BY ONLY <3>0, Zenon DEF RespMsgs
      <4>2. i = s[k].msg /\ k \in DOMAIN s
        BY <2>2, <3>0
      <4>3. RespMsgs' \subseteq RespMsgs \ {i}
        BY ONLY <3>1, <3>2, <4>1, <4>2
      <4>4. RespMsgs \ {i} \subseteq RespMsgs'
        BY ONLY <3>2, <4>1, <4>2
      <4> QED BY <4>1, <4>2, <4>3, <4>4 DEF Stalled
    <3>4. Once'
      BY <1>2, <3>0, <3>2 DEF Once
    <3>5. Apart'
      BY <1>2, <3>3 DEF Apart
    <3>6. Flight' = Flight \ {i}
      BY <1>2, <3>3 DEF Apart, Flight
    <3> QED BY <3>3, <3>4, <3>5, <3>6
  <2> QED BY <2>1, <2>2
<1>4. Lanes'
  BY <1>2, <1>3, LanesKept
<1>5. Carried'
  <2>1. ASSUME NEW k \in Keys, table[k] # <<>> PROVE Head(table[k]) \in Flight' \/ req[i].at = k
    BY <1>2, <1>3, <2>1, LeaderLive DEF Carried
  <2> QED BY <1>2, <1>3, <2>1 DEF Carried
<1>6. Serving'
  <2>1. Sent' = Sent
    BY DEF Sent
  <2> QED BY <1>1, <1>3, <2>1 DEF Serving
<1> QED BY <1>3, <1>4, <1>5, <1>6 DEF Transactions

\* A step of the queue, the L0 or the L1 that passes a message on.
LEMMA MovesCarried ==
  ASSUME Ordered, Transactions, Apart', Once', Flight' = Flight, Sent' = Sent,
         UNCHANGED <<req, table, cb>>, cb = NoCallback \/ UNCHANGED <<heap, missing>>, Lanes'
  PROVE  Transactions'
BY MoveKeeps DEF Transactions

\* The mandatory port.
LEMMA L0Carried ==
  ASSUME Ordered, Transactions, NEW i,
         L0Hit \/ L0Miss \/ L0Spm \/ L0Stall \/ StallAndWait(i) \/ Response(i)
  PROVE  Transactions'
<1>0. PICK m : m = Peek
  OBVIOUS
<1>1. Apart /\ Once /\ Lanes /\ Carried /\ Types /\ Picks
  BY DEF Transactions, Ordered
<1>2. CASE L0Hit
  <2>1. m \in heap /\ cb = NoCallback
    BY <1>0, <1>1, <1>2, PeekKnown DEF L0Hit
  <2>2. /\ UNCHANGED <<req, order, heap, stallMap, replays, table, missing, toL1, atL1, resp>>
        /\ cb' # NoCallback /\ cb'.at = req[m].at /\ cb'.first = TRUE /\ cb'.msg = m
        /\ cb'.step = "serve" /\ cb'.by = "hit"
    BY <1>0, <1>2 DEF L0Hit, Callback, queue, admission, below, NoCallback
  <2>3. m \in Flight
    BY <2>1 DEF Flight
  <2> QED BY <2>1, <2>2, <2>3, StartCarried
<1>3. CASE Response(i)
  <2>1. i \in missing /\ cb = NoCallback
    BY <1>3 DEF Response
  <2>2. /\ UNCHANGED <<req, order, heap, stallMap, replays, table, missing, toL1, atL1, resp>>
        /\ cb' # NoCallback /\ cb'.at = req[i].at /\ cb'.first = TRUE /\ cb'.msg = i
        /\ cb'.step = "serve" /\ cb'.by = "miss"
    BY <1>3 DEF Response, Callback, queue, admission, below, NoCallback
  <2>3. i \in Flight
    BY <2>1 DEF Flight
  <2> QED BY <2>1, <2>2, <2>3, StartCarried
<1>4. CASE L0Miss
  <2>1. m \in heap /\ m \in Range(order) /\ cb = NoCallback /\ ~ Spm(m)
    BY <1>0, <1>1, <1>4, PeekKnown DEF L0Miss
  <2>2. /\ UNCHANGED <<req, order, stallMap, replays, table, cb, toL1, atL1, resp>>
        /\ heap' = heap \ {m} /\ missing' = missing \cup {m}
        /\ Stalled' = Stalled /\ RespMsgs' = RespMsgs /\ Sent' = Sent
    BY <1>0, <1>4 DEF L0Miss, Dequeue, RemoveSelected, admission, Stalled, RespMsgs, Sent
  <2>3. Apart'
    BY <1>1, <2>1, <2>2 DEF Apart
  <2>4. Once'
    BY <1>1, <2>2 DEF Once
  <2>5. Flight' = Flight
    BY <2>1, <2>2 DEF Flight
  <2>6. Lanes'
    BY <1>1, <2>1, <2>2 DEF Lanes, Spm, Kind
  <2> QED BY <2>1, <2>2, <2>3, <2>4, <2>5, <2>6, MovesCarried
<1>5. CASE L0Spm
  <2>1. m \in heap /\ m \in Range(order) /\ cb = NoCallback /\ Spm(m)
    BY <1>0, <1>1, <1>5, PeekKnown DEF L0Spm
  <2>2. /\ UNCHANGED <<req, order, stallMap, replays, table, cb, missing, atL1, resp>>
        /\ heap' = heap \ {m} /\ toL1' = Append(toL1, m)
        /\ Stalled' = Stalled /\ RespMsgs' = RespMsgs /\ Sent' = Sent
    BY <1>0, <1>5 DEF L0Spm, Dequeue, RemoveSelected, admission, Stalled, RespMsgs, Sent
  <2>3. Range(toL1') = Range(toL1) \cup {m} /\ IsInjective(toL1')
    <3>1. PICK N, s : N = Len(req) /\ s = toL1
      OBVIOUS
    <3>2. s \in Seq(1..N) /\ m \in 1..N /\ m \notin Range(s) /\ IsInjective(s)
      BY <1>1, <2>1, <3>1, FlightSent DEF Apart, Once, Flight, Types, Typed
    <3>3. Range(Append(s, m)) = Range(s) \cup {m} /\ IsInjective(Append(s, m))
      BY ONLY <3>2, AppendRange, Zenon
    <3> QED BY <2>2, <3>1, <3>3
  <2>4. Apart'
    BY <1>1, <2>1, <2>2, <2>3 DEF Apart
  <2>5. Once'
    BY <1>1, <2>2, <2>3 DEF Once
  <2>6. Flight' = Flight
    BY <2>1, <2>2, <2>3 DEF Flight
  <2>7. Lanes'
    BY <1>1, <2>1, <2>2, <2>3 DEF Lanes, Spm, Kind
  <2> QED BY <2>1, <2>2, <2>4, <2>5, <2>6, <2>7, MovesCarried
<1>6. CASE L0Stall
  <2>1. SamePlaces /\ UNCHANGED <<req, order, table, cb>> /\ Sent' = Sent
    BY <1>6 DEF L0Stall, TryIngressBypass, admission, below, SamePlaces, Sent
  <2>2. Apart' /\ Once' /\ Flight' = Flight /\ RespMsgs' = RespMsgs
    BY <1>1, <2>1, PlacesKept
  <2>3. Lanes'
    BY <1>1, <2>1, <2>2, LanesKept DEF SamePlaces
  <2> QED BY <2>1, <2>2, <2>3, MovesCarried DEF SamePlaces
<1>7. CASE StallAndWait(i)
  <2>0. PICK k : k = req[i].at
    OBVIOUS
  <2>1. m \in heap /\ m \in Range(order) /\ cb = NoCallback
    BY <1>0, <1>1, <1>7, PeekKnown DEF StallAndWait
  <2>2. /\ UNCHANGED <<req, order, replays, table, cb, missing, toL1, atL1, resp>>
        /\ heap' = heap \ {m} /\ stallMap' = stallMap \cup {<<m, k>>}
        /\ RespMsgs' = RespMsgs /\ Sent' = Sent
    BY <1>0, <1>7, <2>0
    DEF StallAndWait, StallMessage, RemoveSelected, admission, below, RespMsgs, Sent
  <2>3. Stalled' = Stalled \cup {m}
    <3>1. <<m, k>>[1] = m
      OBVIOUS
    <3>2. Stalled' = {w[1] : w \in stallMap \cup {<<m, k>>}}
      BY <2>2 DEF Stalled
    <3> QED BY <3>1, <3>2 DEF Stalled
  <2>4. Apart'
    BY <1>1, <2>1, <2>2, <2>3 DEF Apart
  <2>5. Once'
    <3>1. \A w \in stallMap : w[1] # m
      BY <1>1, <2>1 DEF Apart, Stalled
    <3> QED BY <1>1, <2>2, <3>1 DEF Once
  <2>6. Flight' = Flight
    BY <2>1, <2>2, <2>3 DEF Flight
  <2>7. Lanes'
    BY <1>1, <2>2, LanesKept
  <2> QED BY <2>1, <2>2, <2>4, <2>5, <2>6, <2>7, MovesCarried
<1> QED BY <1>2, <1>3, <1>4, <1>5, <1>6, <1>7

\* A response enters the buffer.
LEMMA RespJoins ==
  ASSUME Types, Once, NEW i \in 1..Len(req), NEW v \in Nat, i \notin RespMsgs,
         resp' = Append(resp, [msg |-> i, val |-> v])
  PROVE  /\ RespMsgs' = RespMsgs \cup {i}
         /\ \A j, k \in DOMAIN resp' : resp'[j].msg = resp'[k].msg => j = k
<1>0. PICK S, s, u, e : /\ S = [msg : 1..Len(req), val : Nat] /\ s = resp /\ u = resp'
                        /\ e = [msg |-> i, val |-> v]
  OBVIOUS
<1>1. /\ s \in Seq(S) /\ e \in S /\ e.msg = i /\ u = Append(s, e)
      /\ \A j, k \in DOMAIN s : s[j].msg = s[k].msg => j = k
      /\ \A j \in DOMAIN s : s[j].msg # e.msg
  BY <1>0 DEF Types, Typed, Once, RespMsgs
<1>2. /\ {u[k].msg : k \in DOMAIN u} = {s[k].msg : k \in DOMAIN s} \cup {e.msg}
      /\ \A j, k \in DOMAIN u : u[j].msg = u[k].msg => j = k
  <2>1. PICK n : n = Len(s)
    OBVIOUS
  <2>2. /\ n \in Nat /\ DOMAIN s = 1..n /\ DOMAIN u = 1..(n + 1)
        /\ u[n + 1] = e /\ \A k \in 1..n : u[k] = s[k]
    BY ONLY <1>1, <2>1, AppendProperties, LenProperties
  <2>3. DOMAIN u = DOMAIN s \cup {n + 1} /\ n + 1 \notin DOMAIN s /\ \A k \in DOMAIN s : u[k] = s[k]
    BY ONLY <2>2
  <2>4. {u[k].msg : k \in DOMAIN u} = {s[k].msg : k \in DOMAIN s} \cup {e.msg}
    BY ONLY <2>2, <2>3
  <2>5. \A j, k \in DOMAIN u : u[j].msg = u[k].msg => j = k
    BY ONLY <1>1, <2>2, <2>3
  <2> QED BY <2>4, <2>5
<1>3. RespMsgs = {s[l].msg : l \in DOMAIN s} /\ RespMsgs' = {u[l].msg : l \in DOMAIN u}
  BY ONLY <1>0, Zenon DEF RespMsgs
<1> QED BY <1>0, <1>1, <1>2, <1>3

\* The L1 takes an SPM request, answers it or, for a copy, installs it first.
LEMMA L1Carried ==
  ASSUME Ordered, Transactions, NEW j, L1Take \/ L1Install(j)
  PROVE  Transactions'
<1>1. Apart /\ Once /\ Lanes /\ Carried /\ Types /\ Flight \subseteq 1..Len(req)
  BY FlightSent DEF Transactions, Ordered
<1>2. ASSUME NEW i, NEW v \in Nat, i \in Range(toL1) \cup atL1,
             Range(toL1') = Range(toL1) \ {i}, IsInjective(toL1'), atL1' = atL1 \ {i},
             resp' = Append(resp, [msg |-> i, val |-> v]),
             UNCHANGED <<req, order, heap, stallMap, replays, table, cb, missing>>
      PROVE  Transactions'
  <2>1. i \in 1..Len(req) /\ i \notin RespMsgs /\ i \in Flight /\ i \in Range(order) /\ Spm(i)
    BY <1>1, <1>2 DEF Apart, Flight, Lanes
  <2>2. /\ RespMsgs' = RespMsgs \cup {i} /\ Stalled' = Stalled /\ Sent' = Sent
        /\ \A m, k \in DOMAIN resp' : resp'[m].msg = resp'[k].msg => m = k
    BY <1>1, <1>2, <2>1, RespJoins DEF Stalled, Sent
  <2>3. Apart'
    BY <1>1, <1>2, <2>1, <2>2 DEF Apart
  <2>4. Once'
    BY <1>1, <1>2, <2>2 DEF Once
  <2>5. Flight' = Flight
    BY <1>1, <1>2, <2>1, <2>2 DEF Flight
  <2>6. Lanes'
    BY <1>1, <1>2, <2>1, <2>2 DEF Lanes, Spm, Kind
  <2> QED BY <1>2, <2>2, <2>3, <2>4, <2>5, <2>6, MovesCarried
<1>3. CASE L1Take
  <2>0. PICK i, N : i = Head(toL1) /\ N = Len(req)
    OBVIOUS
  <2>1. /\ i \in Range(toL1) /\ toL1' = Tail(toL1) /\ i \notin atL1
        /\ Range(toL1') = Range(toL1) \ {i} /\ IsInjective(toL1')
    <3>1. toL1 \in Seq(1..N) /\ toL1 # <<>> /\ IsInjective(toL1) /\ toL1' = Tail(toL1)
      BY <1>1, <1>3, <2>0 DEF L1Take, Types, Typed, Once
    <3>2. PICK s : s = toL1
      OBVIOUS
    <3>3. /\ Head(s) \in Range(s) /\ Range(Tail(s)) = Range(s) \ {Head(s)} /\ IsInjective(Tail(s))
      BY ONLY <3>1, <3>2, TailRange
    <3> QED BY <1>1, <2>0, <3>1, <3>2, <3>3 DEF Apart
  <2>2. UNCHANGED <<req, order, heap, stallMap, replays, table, cb, missing>>
    BY <1>3 DEF L1Take, queue, admission
  <2>3. \/ atL1' = atL1 \cup {i} /\ resp' = resp
        \/ \E v \in Nat : atL1' = atL1 /\ resp' = Append(resp, [msg |-> i, val |-> v])
    <3>1. NoWriter \in Nat
      BY DEF NoWriter
    <3>2. store[req[i].slot] \in Nat
      <4>1. i \in 1..Len(req) /\ Spm(i)
        BY <1>1, <2>1 DEF Lanes, Flight
      <4>2. req[i].slot \in Keys
        BY <1>1, <4>1, ReqKnown DEF Types
      <4> QED BY <1>1, <4>2 DEF Types, Typed
    <3> QED BY <1>3, <2>0, <3>1, <3>2 DEF L1Take
  <2>4. CASE atL1' = atL1 \cup {i} /\ resp' = resp
    <3>1. RespMsgs' = RespMsgs /\ Stalled' = Stalled /\ Sent' = Sent
      BY <2>2, <2>4 DEF RespMsgs, Stalled, Sent
    <3>2. Apart'
      BY <1>1, <2>1, <2>2, <2>4, <3>1 DEF Apart
    <3>3. Once'
      BY <1>1, <2>1, <2>2, <2>4 DEF Once
    <3>4. Flight' = Flight
      BY <2>1, <2>2, <2>4, <3>1 DEF Flight
    <3>5. Lanes'
      BY <1>1, <2>1, <2>2, <2>4, <3>1 DEF Lanes, Spm, Kind
    <3> QED BY <2>2, <3>1, <3>2, <3>3, <3>4, <3>5, MovesCarried
  <2>5. ASSUME NEW v \in Nat, atL1' = atL1, resp' = Append(resp, [msg |-> i, val |-> v])
        PROVE  Transactions'
    <3>1. atL1' = atL1 \ {i}
      BY <2>1, <2>5
    <3> QED BY <1>2, <2>1, <2>2, <2>5, <3>1
  <2> QED BY <2>3, <2>4, <2>5
<1>4. CASE L1Install(j)
  <2>1. /\ j \in atL1 /\ atL1' = atL1 \ {j} /\ toL1' = toL1
        /\ resp' = Append(resp, [msg |-> j, val |-> NoWriter]) /\ NoWriter \in Nat
        /\ UNCHANGED <<req, order, heap, stallMap, replays, table, cb, missing>>
    BY <1>4 DEF L1Install, queue, admission, NoWriter
  <2>2. Range(toL1') = Range(toL1) \ {j} /\ IsInjective(toL1')
    BY <1>1, <2>1 DEF Apart, Once
  <2> QED BY <1>2, <2>1, <2>2
<1> QED BY <1>3, <1>4

\* The response of an SPM request starts its callback.
LEMMA SpmResponseCarried ==
  ASSUME Ordered, Transactions, NEW k \in DOMAIN resp, SpmResponse(k)
  PROVE  Transactions'
<1>0. PICK i : i = resp[k].msg
  OBVIOUS
<1>1. /\ UNCHANGED <<req, order, heap, stallMap, replays, table, missing, toL1, atL1>>
      /\ cb = NoCallback /\ resp' = RemoveAt(resp, k)
      /\ cb' # NoCallback /\ cb'.at = req[i].at /\ cb'.first = TRUE /\ cb'.msg = i
      /\ cb'.step = "serve" /\ cb'.by = "spm"
  BY <1>0 DEF SpmResponse, Callback, RemoveAt, queue, admission, NoCallback
<1>2. i \in Flight
  BY <1>0 DEF Flight, RespMsgs
<1> QED BY <1>0, <1>1, <1>2, StartCarried

\* The ingress event moves replays to the queue; the clock moves nothing.
LEMMA ClockCarried ==
  ASSUME Ordered, Transactions, ServiceIngress \/ Tick
  PROVE  Transactions'
<1>1. Apart /\ Once /\ Lanes /\ Types /\ Picks /\ Unsent
  BY DEF Transactions, Ordered
<1>2. CASE Tick
  <2>1. SamePlaces /\ UNCHANGED <<req, order, table, cb>> /\ Sent' = Sent
    BY <1>2 DEF Tick, NextCycle, below, SamePlaces, Sent
  <2>2. Apart' /\ Once' /\ Flight' = Flight /\ RespMsgs' = RespMsgs
    BY <1>1, <2>1, PlacesKept
  <2>3. Lanes'
    BY <1>1, <2>1, <2>2, LanesKept DEF SamePlaces
  <2> QED BY <2>1, <2>2, <2>3, MovesCarried DEF SamePlaces
<1>3. CASE ServiceIngress
  <2>1. PICK ms, rest \in Seq(Nat) :
            /\ EnqueueAll(ms) /\ replays' = rest /\ UNCHANGED <<req, pend, table, cb>>
            /\ cb = NoCallback /\ IsInjective(ms) /\ IsInjective(rest)
            /\ Range(ms) \cup Range(rest) = Range(replays) /\ Range(ms) \cap Range(rest) = {}
    BY <1>1, <1>3, ReplaysSplit
  <2>2. /\ order' = order \o ms /\ heap' = heap \cup Range(ms) /\ stallMap' = stallMap
        /\ UNCHANGED <<missing, toL1, atL1, resp>>
    BY <1>3, <2>1 DEF EnqueueAll, ServiceIngress, below
  <2>3. Range(order') = Range(order) \cup Range(ms)
    <3>1. order \in Seq(Nat)
      BY <1>1, QueueKnown
    <3>2. Range(order \o ms) = Range(order) \cup Range(ms)
      BY <3>1, RangeConcatenation
    <3> QED BY <2>2, <3>2
  <2>4. /\ Range(replays') = Range(rest) /\ Stalled' = Stalled /\ RespMsgs' = RespMsgs
        /\ Sent' = Sent
    BY <2>1, <2>2, <2>3 DEF Stalled, RespMsgs, Sent
  <2>5. Apart'
    BY <1>1, <2>1, <2>2, <2>4 DEF Apart
  <2>6. Once'
    BY <1>1, <2>2 DEF Once
  <2>7. Flight' = Flight
    BY <2>1, <2>2, <2>4 DEF Flight
  <2>8. Lanes'
    BY <1>1, <2>1, <2>2, <2>3, <2>4, LanesKept
  <2> QED BY <2>1, <2>4, <2>5, <2>6, <2>7, <2>8, MovesCarried
<1> QED BY <1>2, <1>3

\* No step loses or doubles the transaction of a line.
LEMMA TransactionsStep ==
  ASSUME Ordered, Transactions, [Next]_vars
  PROVE  Transactions'
<1>0. Types /\ Counted /\ Unsent /\ Len(req) \in Nat /\ Range(order) \subseteq 1..Len(req)
  BY QueueKnown DEF Ordered
<1>1. CASE UNCHANGED vars
  <2>1. SamePlaces /\ UNCHANGED <<req, order, table, cb>> /\ Sent' = Sent
    BY <1>1 DEF vars, queue, admission, below, SamePlaces, Sent
  <2>2. Apart' /\ Once' /\ Flight' = Flight /\ RespMsgs' = RespMsgs
    BY <2>1, PlacesKept DEF Transactions
  <2>3. Lanes'
    BY <1>0, <2>1, <2>2, LanesKept DEF SamePlaces, Transactions
  <2> QED BY <2>1, <2>2, <2>3, MovesCarried DEF SamePlaces
<1>2. ASSUME NEW r \in Requests, Send(r) PROVE Transactions'
  <2>1. PICK p, i : p = PortOf(r) /\ i = Len(req) + 1
    OBVIOUS
  <2>2. /\ p \in Ports /\ i \in 1..(Len(req) + 1) /\ i \notin 1..Len(req)
        /\ MakeRequest(p, i, r) /\ UNCHANGED <<cb, below>> /\ CoreRuns
    BY <1>0, <1>2, <2>1, SequencerAssumption DEF Send, CoreRuns
  <2>3. \A j \in 1..Len(req) : req'[j] = req[j]
    BY <1>0, <1>2, AppendProperties DEF Send, Types
  <2>4. LiveIn(table) \subseteq 1..Len(req) /\ Range(replays) \subseteq 1..Len(req)
    <3>1. PICK N, t : N = Len(req) /\ t = table
      OBVIOUS
    <3>2. N \in Nat /\ t \in [Keys -> Seq(1..N)] /\ replays \in Seq(1..N)
      BY <1>0, <3>1 DEF Types, Typed
    <3>3. LiveIn(t) \subseteq 1..N /\ Range(replays) \subseteq 1..N
      BY <3>2, LiveKnown, RangeOfSeq
    <3> QED BY <3>1, <3>3
  <2>5. i \notin LiveIn(table) /\ i \notin Sent
    BY <1>0, <2>2, <2>4 DEF Sent
  <2> QED BY <2>2, <2>3, <2>5, MakeRequestCarried
<1>3. ASSUME NEW p \in Ports, Resend(p) PROVE Transactions'
  <2>1. PICK i, r : i = pend[p] /\ r = req[i]
    OBVIOUS
  <2>2. i \in 1..Len(req) /\ r \in Requests /\ i # NoMsg
    BY <1>0, <1>3, <2>1, ReqKnown, LenProperties DEF Resend, Types, Typed, NoMsg
  <2>3. i \in 1..(Len(req) + 1)
    BY <1>0, <2>2
  <2>4. MakeRequest(p, i, r) /\ UNCHANGED <<cb, below>> /\ CoreRuns /\ req' = req
    BY <1>3, <2>1 DEF Resend
  <2>5. i \notin LiveIn(table) /\ i \notin Sent
    BY <1>0, <2>1, <2>2 DEF Counted, Placed, Unsent
  <2> QED BY <2>2, <2>3, <2>4, <2>5, MakeRequestCarried
<1>4. CASE HitCallback \/ PopFront \/ Reissue \/ CallbackDone
  BY <1>4, HitCarried, PopCarried, ReissueCarried, DoneCarried
<1>5. ASSUME NEW i, L0Hit \/ L0Miss \/ L0Spm \/ L0Stall \/ StallAndWait(i) \/ Response(i)
      PROVE  Transactions'
  BY <1>5, L0Carried
<1>6. ASSUME NEW i, L1Take \/ L1Install(i) PROVE Transactions'
  BY <1>6, L1Carried
<1>7. ASSUME NEW k \in DOMAIN resp, SpmResponse(k) PROVE Transactions'
  BY <1>7, SpmResponseCarried
<1>8. CASE ServiceIngress \/ Tick
  BY <1>8, ClockCarried
<1> QED BY <1>1, <1>2, <1>3, <1>4, <1>5, <1>6, <1>7, <1>8 DEF Next

\* Nothing is in flight at the start.
LEMMA TransactionsInit == Init => Transactions
<1> SUFFICES ASSUME Init PROVE Transactions
  OBVIOUS
<1>1. /\ order = <<>> /\ replays = <<>> /\ toL1 = <<>> /\ resp = <<>> /\ heap = {} /\ stallMap = {}
      /\ missing = {} /\ atL1 = {} /\ cb = NoCallback /\ table = [k \in Keys |-> <<>>]
  BY DEF Init, QueueInit
<1>2. /\ Range(replays) = {} /\ Range(toL1) = {} /\ RespMsgs = {} /\ Stalled = {}
      /\ IsInjective(toL1)
  <2>1. RespMsgs = {} /\ Stalled = {}
    BY <1>1 DEF RespMsgs, Stalled
  <2>2. Range(replays) = {} /\ Range(toL1) = {}
    BY <1>1 DEF Range
  <2>3. IsInjective(toL1)
    BY <1>1 DEF IsInjective
  <2> QED BY <2>1, <2>2, <2>3
<1>3. Flight = {} /\ Apart /\ Lanes
  BY <1>1, <1>2 DEF Flight, Apart, Lanes
<1>4. Once
  BY <1>1, <1>2 DEF Once
<1>5. Carried /\ Serving
  BY <1>1, <1>3 DEF Carried, Serving
<1> QED BY <1>3, <1>4, <1>5 DEF Transactions

\* Between callbacks, the leader of every list is the one request of its line
\* in flight, and nothing is in flight for a request that has left the table.
LEMMA TransactionsOne ==
  ASSUME Ordered, Transactions
  PROVE  OneTransaction
<1> SUFFICES ASSUME cb = NoCallback PROVE OneTransaction
  BY DEF OneTransaction
<1>1. \A i : InFlight(i) <=> i \in Flight
  BY DEF InFlight, Flight, RespMsgs
<1>2. Live = LiveIn(table)
  BY DEF Live, LiveIn
<1>3. ASSUME NEW k \in Keys, table[k] # <<>>
      PROVE  {i \in Range(table[k]) : InFlight(i)} = {Head(table[k])}
  <2>1. Head(table[k]) \in Flight
    BY <1>3 DEF Transactions, Carried
  <2>2. Head(table[k]) \in Range(table[k])
    <3>1. PICK N, s : N = Len(req) /\ s = table[k]
      OBVIOUS
    <3>2. s \in Seq(1..N) /\ s # <<>>
      BY <1>3, <3>1 DEF Ordered, Types, Typed
    <3>3. 1 \in DOMAIN s /\ Head(s) = s[1]
      BY ONLY <3>2, HeadFirst
    <3> QED BY <3>1, <3>3 DEF Range
  <2>3. ASSUME NEW i \in Range(table[k]), i \in Flight PROVE i = Head(table[k])
    <3>1. Head(table[req[i].at]) = i
      BY <2>3, FlightLeads
    <3>2. req[i].at = k
      BY <2>3 DEF Ordered, Counted, Placed, Range
    <3> QED BY <3>1, <3>2
  <2> QED BY <1>1, <2>1, <2>2, <2>3
<1>4. ASSUME NEW i \in Ids \ Live PROVE ~ InFlight(i)
  BY <1>1, <1>2, <1>4, FlightLeads
<1> QED BY <1>3, <1>4 DEF OneTransaction
=============================================================================
