---------------------------- MODULE AnswerProofs ----------------------------
(***************************************************************************)
(* What the core is told is right: every read returns the last write       *)
(* accepted before it, or a copy the SPM array took meanwhile, and every   *)
(* SPM store and copy has visited the array itself.  This module has the   *)
(* invariants of the Sequencer and the steps that keep the answers right;  *)
(* SequencerProofs concludes.                                              *)
(***************************************************************************)
EXTENDS Sequencer, TLAPS, SequenceTheorems

\* A leaf is tried with Zenon, then with SMT.
USE ZenonT(4), SMT, SMTT(20)

(* Types.  N is the number of requests made so far.                        *)

Callbacks(N) ==
    [at : Keys, write : BOOLEAN, spm : BOOLEAN, first : BOOLEAN, val : Nat,
     size : {r.size : r \in Requests}, by : {"hit", "miss", "spm"}, msg : 1..N,
     step : {"serve", "hit", "over"}]
QueueTyped(N) ==
    /\ order \in Seq(1..N)
    /\ heap \subseteq 1..N /\ heap \subseteq Range(order)
    /\ stallMap \subseteq (1..N) \X Keys /\ IsFiniteSet(stallMap)
    /\ \A w \in stallMap : w[1] \in Range(order)
    /\ selected \in heap \cup {NoMsg}
    /\ popped \in Nat \cup {NoPop}
    /\ enqueued \in Nat
Typed(N) ==
    /\ QueueTyped(N)
    /\ table \in [Keys -> Seq(1..N)]
    /\ pend \in [Ports -> 0..N]
    /\ waiting \in [Ports -> BOOLEAN]
    /\ replays \in Seq(1..N)
    /\ ingressRetry \in BOOLEAN
    /\ event \in {"none", "next", "due"}
    /\ missing \subseteq 1..N
    /\ toL1 \in Seq(1..N)
    /\ atL1 \subseteq 1..N
    /\ resp \in Seq([msg : 1..N, val : Nat])
    /\ store \in [Keys -> Nat]
    /\ cb \in Callbacks(N) \cup {NoCallback}
    /\ cb.step = "hit" => table[cb.at] # <<>>
SpmOnly == \A n \in DOMAIN toL1 : Spm(toL1[n])
Types ==
    /\ req \in Seq(Requests)
    /\ Typed(Len(req))
    /\ SpmOnly

(* Lists.  A request is in one place of one line's list, and a packet a    *)
(* port still has to send is in none.                                      *)

LiveIn(t) == UNION {Range(t[k]) : k \in Keys}
Placed ==
    /\ \A k \in Keys : IsInjective(table[k])
    /\ \A k \in Keys : \A n \in DOMAIN table[k] : req[table[k][n]].at = k
    /\ \A p \in Ports : pend[p] # NoMsg =>
          PortOf(req[pend[p]]) = p /\ pend[p] \notin LiveIn(table)
Counted == Placed /\ OutstandingExact

(* Order.  A request is enqueued once, so the order of the queue is total; *)
(* what the bypass selected, and what a running hit is about to dequeue,   *)
(* depends on nothing older.                                               *)

Sent == Range(order) \cup Range(replays)
Unsent ==
    /\ IsInjective(order) /\ IsInjective(replays)
    /\ Range(order) \cap Range(replays) = {}
    /\ \A p \in Ports : pend[p] # NoMsg => pend[p] \notin Sent
    /\ \A k \in Keys : \A n \in DOMAIN table[k] : n > 1 => table[k][n] \notin Sent
    /\ cb.step = "serve" => cb.first \/ table[cb.at] = <<>> \/ Head(table[cb.at]) \notin Sent
Clear(n, S) == \A m \in S : Older(m, n) => IngressIndependent(n, m)
Chosen ==
    /\ selected # NoMsg => Clear(selected, heap \cup Stalled)
    /\ cb # NoCallback /\ cb.by = "hit" => cb.msg \in Range(order) /\ Clear(cb.msg, heap)

(* One transaction per line.  A message is in one place of the hierarchy,  *)
(* what is in flight leads the list of its line, and the leader of every   *)
(* list is in flight, but for the line whose callback is running.          *)

RespMsgs == {resp[k].msg : k \in DOMAIN resp}
Flight ==
    heap \cup Stalled \cup Range(replays) \cup missing \cup Range(toL1) \cup atL1 \cup RespMsgs
Apart ==
    /\ heap \cap (Stalled \cup Range(replays) \cup missing \cup Range(toL1) \cup atL1 \cup RespMsgs) = {}
    /\ Stalled \cap (Range(replays) \cup missing \cup Range(toL1) \cup atL1 \cup RespMsgs) = {}
    /\ Range(replays) \cap (missing \cup Range(toL1) \cup atL1 \cup RespMsgs) = {}
    /\ missing \cap (Range(toL1) \cup atL1 \cup RespMsgs) = {}
    /\ Range(toL1) \cap (atL1 \cup RespMsgs) = {}
    /\ atL1 \cap RespMsgs = {}
Once ==
    /\ \A v, w \in stallMap : v[1] = w[1] => v = w
    /\ IsInjective(toL1)
    /\ \A j, k \in DOMAIN resp : resp[j].msg = resp[k].msg => j = k
\* Coherent requests miss, SPM requests visit the L1; all were enqueued.
Lanes ==
    /\ missing \cup Range(toL1) \cup atL1 \cup RespMsgs \subseteq Range(order)
    /\ \A i \in missing : ~ Spm(i)
    /\ \A i \in Range(toL1) \cup atL1 \cup RespMsgs : Spm(i)
Carried ==
    /\ \A k \in Keys : table[k] # <<>> =>
          Head(table[k]) \in Flight \/ (cb # NoCallback /\ cb.at = k /\ cb.step # "over")
    /\ \A i \in Flight : i \in LiveIn(table) \/ (cb # NoCallback /\ i = cb.msg)
\* The response in the hierarchy that the running callback is about.
Serving ==
    cb # NoCallback =>
        /\ cb.at = req[cb.msg].at /\ cb.msg \in Sent
        /\ cb.by = "hit" => cb.msg \in heap
        /\ cb.by = "miss" => cb.msg \in missing
        /\ cb.by = "spm" => cb.msg \notin Flight
        /\ cb.first => cb.step # "over" /\ table[cb.at] # <<>> /\ Head(table[cb.at]) = cb.msg
        /\ ~ cb.first => cb.msg \notin LiveIn(table)
        /\ ~ cb.first /\ cb.step = "hit" => Head(table[cb.at]) \notin Sent
        /\ cb.step = "over" => table[cb.at] # <<>> /\ Head(table[cb.at]) \in Flight
Transactions == Apart /\ Once /\ Lanes /\ Carried /\ Serving
\* What the queue's choices return: the oldest message of a set, and how many
\* replays the ingress event moves.
Picks ==
    /\ \A S \in SUBSET Range(order) : S # {} =>
          Oldest(S) \in S /\ \A n \in S \ {Oldest(S)} : Older(Oldest(S), n)
    /\ Fits \in 0..Len(replays)
Ordered == Types /\ Picks /\ Counted /\ Unsent /\ Chosen

\* A request that was made is one of the requests the ports may make.
LEMMA ReqKnown ==
  ASSUME req \in Seq(Requests), NEW i \in 1..Len(req)
  PROVE  /\ req[i] \in Requests
         /\ req[i].at \in Keys
         /\ Spm(i) => req[i].slot \in Keys
BY SequencerAssumption DEF Spm, Kind, Keys

\* New requests do not disturb the types.
LEMMA TypedGrows ==
  ASSUME NEW N \in Nat, NEW M \in Nat, N <= M, Typed(N)
  PROVE  Typed(M)
<1>1. 1..N \subseteq 1..M /\ 0..N \subseteq 0..M
  OBVIOUS
<1>2. \A s \in Seq(1..N) : s \in Seq(1..M)
  BY <1>1, SeqMonotonic
<1>3. resp \in Seq([msg : 1..M, val : Nat])
  <2>1. [msg : 1..N, val : Nat] \subseteq [msg : 1..M, val : Nat]
    BY <1>1
  <2> QED BY <2>1, SeqMonotonic DEF Typed
<1>4. cb \in Callbacks(M) \cup {NoCallback}
  BY <1>1 DEF Typed, Callbacks
<1>5. table \in [Keys -> Seq(1..M)] /\ order \in Seq(1..M)
      /\ replays \in Seq(1..M) /\ toL1 \in Seq(1..M)
  BY <1>2 DEF Typed, QueueTyped
<1>6. pend \in [Ports -> 0..M] /\ stallMap \subseteq (1..M) \X Keys
  BY <1>1 DEF Typed, QueueTyped
<1>7. QueueTyped(M)
  BY <1>1, <1>5, <1>6 DEF Typed, QueueTyped
<1> QED
  BY <1>1, <1>3, <1>4, <1>5, <1>6, <1>7 DEF Typed

\* A single message is a sequence without repetitions.
LEMMA OneInjective ==
  ASSUME NEW i \in Nat
  PROVE  /\ <<i>> \in Seq(Nat) /\ IsInjective(<<i>>) /\ Range(<<i>>) = {i}
         /\ Len(<<i>>) = 1
BY DEF Range, IsInjective

\* insertRequest.
LEMMA AppendLive ==
  ASSUME NEW N \in Nat, NEW t \in [Keys -> Seq(1..N)], NEW k \in Keys,
         NEW i \in 1..N
  PROVE  LET u == [t EXCEPT ![k] = Append(@, i)]
         IN /\ LiveIn(u) = LiveIn(t) \cup {i}
            /\ t[k] # <<>> => Head(u[k]) = Head(t[k])
            /\ i \notin LiveIn(t) /\ IsInjective(t[k]) => IsInjective(u[k])
<1> DEFINE u == [t EXCEPT ![k] = Append(@, i)]
<1>1. /\ t[k] \in Seq(1..N) /\ Len(t[k]) \in Nat
      /\ DOMAIN u[k] = 1..(Len(t[k]) + 1) /\ DOMAIN t[k] = 1..Len(t[k])
      /\ \A n \in 1..Len(t[k]) : u[k][n] = t[k][n]
      /\ u[k][Len(t[k]) + 1] = i /\ u[k] = Append(t[k], i)
      /\ \A j \in Keys \ {k} : u[j] = t[j]
  BY AppendProperties, LenProperties
<1> HIDE DEF u
<1>2. Range(u[k]) = Range(t[k]) \cup {i}
  BY <1>1 DEF Range
<1>3. LiveIn(u) = LiveIn(t) \cup {i}
  BY <1>1, <1>2, ZenonT(30) DEF LiveIn
<1>4. t[k] # <<>> => Head(u[k]) = Head(t[k])
  BY <1>1
<1>5. ASSUME i \notin LiveIn(t), IsInjective(t[k]) PROVE IsInjective(u[k])
  <2>1. \A n \in 1..Len(t[k]) : t[k][n] # i
    BY <1>1, <1>5 DEF LiveIn, Range
  <2> QED BY <1>1, <1>5, <2>1 DEF IsInjective
<1> QED BY <1>3, <1>4, <1>5 DEF u

\* The live requests were made.
LEMMA LiveKnown ==
  ASSUME NEW N \in Nat, NEW t \in [Keys -> Seq(1..N)]
  PROVE  LiveIn(t) \subseteq 1..N
<1>1. \A k \in Keys : Range(t[k]) \subseteq 1..N
  BY RangeOfSeq
<1> QED BY <1>1 DEF LiveIn

\* Facts about the queue that every step below uses.
LEMMA QueueKnown ==
  ASSUME Types
  PROVE  /\ Len(req) \in Nat /\ QueueTyped(Len(req)) /\ order \in Seq(Nat)
         /\ heap \cup Stalled \subseteq Range(order) /\ Range(order) \subseteq 1..Len(req)
         /\ selected \in heap \cup {NoMsg}
<1>1. PICK N : N = Len(req)
  OBVIOUS
<1>2. N \in Nat /\ QueueTyped(N)
  BY <1>1, LenProperties DEF Types, Typed
<1>3. 1..N \subseteq Nat /\ order \in Seq(1..N)
  BY <1>2 DEF QueueTyped
<1>4. heap \cup Stalled \subseteq Range(order)
  BY <1>2 DEF QueueTyped, Stalled
<1> QED BY <1>1, <1>2, <1>3, <1>4, SeqMonotonic, RangeOfSeq DEF QueueTyped

\* The oldest message of a set of queued messages.
LEMMA OldestIn ==
  ASSUME Picks, NEW S, S \subseteq Range(order), S # {}
  PROVE  Oldest(S) \in S /\ \A n \in S \ {Oldest(S)} : Older(Oldest(S), n)
BY DEF Picks

\* The message the L0 looks at is in the queue.
LEMMA PeekIn ==
  ASSUME Picks, NEW N \in Nat, QueueTyped(N), heap # {}
  PROVE  Peek \in heap
BY OldestIn DEF Peek, QueueTyped

\* serviceIngress: the first replays leave the list for the queue.
LEMMA ReplaysSplit ==
  ASSUME Types, Picks, Unsent, ServiceIngress
  PROVE  \E ms, rest \in Seq(Nat) :
            /\ EnqueueAll(ms) /\ replays' = rest /\ UNCHANGED <<req, pend, table, cb>>
            /\ cb = NoCallback /\ IsInjective(ms) /\ IsInjective(rest)
            /\ Range(ms) \cup Range(rest) = Range(replays) /\ Range(ms) \cap Range(rest) = {}
<1>0. PICK N, s, f, ms, rest :
         /\ N = Len(req) /\ s = replays /\ f = Fits
         /\ ms = SubSeq(replays, 1, Fits) /\ rest = SubSeq(replays, Fits + 1, Len(replays))
  OBVIOUS
<1>1. /\ N \in Nat /\ s \in Seq(1..N) /\ f \in 0..Len(s) /\ Len(s) \in Nat
      /\ ms = SubSeq(s, 1, f) /\ rest = SubSeq(s, f + 1, Len(s))
  <2>1. N \in Nat /\ s \in Seq(1..N) /\ QueueTyped(N)
    BY <1>0, LenProperties DEF Types, Typed
  <2>2. f \in 0..Len(s)
    BY <1>0 DEF Picks
  <2> QED BY <1>0, <2>1, <2>2, LenProperties
<1>2. \A j \in 1..Len(s) : s[j] \in Nat
  BY <1>1, ElementOfSeq
<1>3. /\ ms \in Seq(Nat) /\ DOMAIN ms = 1..f
      /\ \A n \in 1..f : n \in 1..Len(s) /\ ms[n] = s[n]
  BY <1>1, <1>2, SubSeqProperties
<1>4. /\ rest \in Seq(Nat) /\ DOMAIN rest = 1..(Len(s) - f)
      /\ \A n \in 1..(Len(s) - f) : n + f \in 1..Len(s) /\ rest[n] = s[n + f]
  BY <1>1, <1>2, SubSeqProperties
<1>5. \A a, b \in 1..Len(s) : s[a] = s[b] => a = b
  BY <1>0, <1>1, LenProperties DEF Unsent, IsInjective
<1>6. IsInjective(ms)
  BY <1>3, <1>5 DEF IsInjective
<1>7. IsInjective(rest)
  <2>1. ASSUME NEW a \in 1..(Len(s) - f), NEW b \in 1..(Len(s) - f), rest[a] = rest[b]
        PROVE  a = b
    <3>1. a + f = b + f
      BY <1>4, <1>5, <2>1
    <3> QED BY <1>1, <3>1
  <2> QED BY <1>4, <2>1 DEF IsInjective
<1>8. Range(ms) \cup Range(rest) = Range(s)
  <2>1. DOMAIN s = 1..Len(s)
    BY <1>1, LenProperties
  <2>2. Range(ms) \subseteq Range(s) /\ Range(rest) \subseteq Range(s)
    BY <1>3, <1>4, <2>1 DEF Range
  <2>3. ASSUME NEW n \in 1..Len(s) PROVE s[n] \in Range(ms) \cup Range(rest)
    <3>1. CASE n <= f
      <4>1. n \in DOMAIN ms /\ ms[n] = s[n]
        BY <1>1, <1>3, <3>1
      <4> QED BY <4>1 DEF Range
    <3>2. CASE n > f
      <4>1. n - f \in DOMAIN rest /\ rest[n - f] = s[n]
        BY <1>1, <1>4, <3>2
      <4> QED BY <4>1 DEF Range
    <3> QED BY <1>1, <3>1, <3>2
  <2>4. Range(s) \subseteq Range(ms) \cup Range(rest)
    BY <2>1, <2>3 DEF Range
  <2> QED BY <2>2, <2>4
<1>9. Range(ms) \cap Range(rest) = {}
  <2> SUFFICES ASSUME NEW x \in Range(ms), x \in Range(rest) PROVE FALSE
    OBVIOUS
  <2>1. PICK a \in 1..f : ms[a] = x
    BY <1>3 DEF Range
  <2>2. PICK b \in 1..(Len(s) - f) : rest[b] = x
    BY <1>4 DEF Range
  <2>3. a = b + f
    BY <1>3, <1>4, <1>5, <2>1, <2>2
  <2> QED BY <1>1, <2>1, <2>2, <2>3
<1>10. /\ EnqueueAll(ms) /\ replays' = rest /\ UNCHANGED <<req, pend, table, cb>>
       /\ cb = NoCallback
  BY <1>0 DEF ServiceIngress
<1> QED BY <1>0, <1>3, <1>4, <1>6, <1>7, <1>8, <1>9, <1>10

\* The head of a sequence is its first element.
LEMMA HeadFirst ==
  ASSUME NEW S, NEW s \in Seq(S), s # <<>>
  PROVE  Head(s) = s[1] /\ 1 \in DOMAIN s /\ s[1] \in S
OBVIOUS

\* What is in flight was sent.
LEMMA FlightSent ==
  ASSUME Types, Lanes
  PROVE  Flight \subseteq Sent /\ Flight \subseteq 1..Len(req)
<1>1. heap \cup Stalled \subseteq Range(order) /\ Range(order) \subseteq 1..Len(req)
  BY QueueKnown
<1>2. Flight \subseteq Sent
  BY <1>1 DEF Flight, Sent, Lanes
<1>3. Sent \subseteq 1..Len(req)
  <2>1. Range(replays) \subseteq 1..Len(req)
    BY RangeOfSeq DEF Types, Typed
  <2> QED BY <1>1, <2>1 DEF Sent
<1> QED BY <1>2, <1>3

\* A sent request of a list is its first, and requests of a list are in its line.
LEMMA SentLeads ==
  ASSUME Ordered, NEW i \in LiveIn(table), i \in Sent
  PROVE  /\ req[i].at \in Keys /\ table[req[i].at] # <<>> /\ Head(table[req[i].at]) = i
         /\ i \in 1..Len(req)
<1>1. PICK k \in Keys : i \in Range(table[k])
  BY DEF LiveIn
<1>2. PICK n \in DOMAIN table[k] : table[k][n] = i
  BY <1>1 DEF Range
<1>3. req[i].at = k /\ ~ (n > 1)
  BY <1>1, <1>2 DEF Ordered, Counted, Placed, Unsent
<1>4. PICK N : N = Len(req)
  OBVIOUS
<1>5. table[k] \in Seq(1..N)
  BY <1>1, <1>4 DEF Ordered, Types, Typed
<1>6. n = 1 /\ table[k] # <<>> /\ Head(table[k]) = table[k][1] /\ table[k][n] \in 1..N
  <2>1. DOMAIN table[k] = 1..Len(table[k]) /\ Len(table[k]) \in Nat
    BY <1>5, LenProperties
  <2>2. n = 1 /\ table[k] # <<>>
    BY <1>2, <1>3, <2>1
  <2> QED BY <1>5, <2>2, HeadFirst
<1> QED BY <1>1, <1>2, <1>3, <1>4, <1>6

\* The leader of a line is live, in that line.
LEMMA LeaderLive ==
  ASSUME Ordered, NEW k \in Keys, table[k] # <<>>
  PROVE  /\ Head(table[k]) \in LiveIn(table) /\ req[Head(table[k])].at = k
         /\ Head(table[k]) \in 1..Len(req)
<1>1. PICK N : N = Len(req)
  OBVIOUS
<1>2. table[k] \in Seq(1..N)
  BY <1>1 DEF Ordered, Types, Typed
<1>3. Head(table[k]) = table[k][1] /\ 1 \in DOMAIN table[k] /\ table[k][1] \in 1..N
  BY <1>2, HeadFirst
<1> QED BY <1>1, <1>3 DEF LiveIn, Range, Ordered, Counted, Placed

\* What the L0 looks at, with no callback running, is in the queue.
LEMMA PeekKnown ==
  ASSUME Types, Picks, CanServe
  PROVE  Peek \in heap /\ Peek \in Range(order) /\ cb = NoCallback
<1>1. QueueTyped(Len(req)) /\ Len(req) \in Nat /\ heap \subseteq Range(order)
  BY QueueKnown
<1>2. heap # {} /\ cb = NoCallback
  BY DEF CanServe, IsReady
<1> QED BY <1>1, <1>2, PeekIn

\* The first element of a sequence without repetitions leaves it.
LEMMA TailRange ==
  ASSUME NEW S, NEW s \in Seq(S), s # <<>>, IsInjective(s)
  PROVE  Head(s) \in Range(s) /\ Range(Tail(s)) = Range(s) \ {Head(s)} /\ IsInjective(Tail(s))
<1>1. /\ Len(s) \in Nat \ {0} /\ DOMAIN s = 1..Len(s) /\ Head(s) = s[1]
      /\ Tail(s) \in Seq(S) /\ DOMAIN Tail(s) = 1..(Len(s) - 1)
      /\ \A n \in 1..(Len(s) - 1) : Tail(s)[n] = s[n + 1]
  BY HeadTailProperties, LenProperties, EmptySeq
<1>2. \A a, b \in 1..Len(s) : s[a] = s[b] => a = b
  BY <1>1 DEF IsInjective
<1>3. Head(s) \in Range(s)
  BY <1>1 DEF Range
<1>4. IsInjective(Tail(s))
  <2>1. ASSUME NEW a \in 1..(Len(s) - 1), NEW b \in 1..(Len(s) - 1), Tail(s)[a] = Tail(s)[b]
        PROVE  a = b
    <3>1. a + 1 = b + 1
      BY <1>1, <1>2, <2>1
    <3> QED BY <3>1
  <2> QED BY <1>1, <2>1 DEF IsInjective
<1>5. ASSUME NEW n \in 1..(Len(s) - 1) PROVE Tail(s)[n] \in Range(s) \ {Head(s)}
  <2>1. n + 1 \in DOMAIN s /\ n + 1 # 1 /\ 1 \in DOMAIN s /\ Tail(s)[n] = s[n + 1]
    BY <1>1
  <2> QED BY <1>1, <1>2, <2>1 DEF Range
<1>6. ASSUME NEW n \in 1..Len(s), s[n] # Head(s) PROVE s[n] \in Range(Tail(s))
  <2>1. n - 1 \in 1..(Len(s) - 1) /\ Tail(s)[n - 1] = s[n]
    BY <1>1, <1>6
  <2> QED BY <1>1, <2>1 DEF Range
<1>7. Range(Tail(s)) \subseteq Range(s) \ {Head(s)}
  BY <1>1, <1>5 DEF Range
<1>8. Range(s) \ {Head(s)} \subseteq Range(Tail(s))
  BY <1>1, <1>6 DEF Range
<1> QED BY <1>3, <1>4, <1>7, <1>8

\* A new element at the end.
LEMMA AppendRange ==
  ASSUME NEW S, NEW s \in Seq(S), NEW e \in S, e \notin Range(s), IsInjective(s)
  PROVE  Range(Append(s, e)) = Range(s) \cup {e} /\ IsInjective(Append(s, e))
<1>1. /\ Len(s) \in Nat /\ DOMAIN s = 1..Len(s) /\ DOMAIN Append(s, e) = 1..(Len(s) + 1)
      /\ Append(s, e)[Len(s) + 1] = e /\ \A n \in 1..Len(s) : Append(s, e)[n] = s[n]
  BY AppendProperties, LenProperties
<1>2. \A n \in 1..(Len(s) + 1) : n \in 1..Len(s) \/ n = Len(s) + 1
  BY <1>1
<1>3. Range(Append(s, e)) = Range(s) \cup {e}
  BY <1>1, <1>2 DEF Range
<1>4. \A n \in 1..Len(s) : s[n] # e
  BY <1>1 DEF Range
<1>5. IsInjective(Append(s, e))
  BY <1>1, <1>2, <1>4 DEF IsInjective
<1> QED BY <1>3, <1>5

\* A sequence without its n-th element.
RemoveAt(s, n) == SubSeq(s, 1, n - 1) \o SubSeq(s, n + 1, Len(s))

\* A response is taken, from any place.
LEMMA RespRemove ==
  ASSUME NEW S, NEW s \in Seq(S), NEW n \in DOMAIN s,
         \A j, k \in DOMAIN s : s[j].msg = s[k].msg => j = k,
         NEW u, u = RemoveAt(s, n)
  PROVE  /\ \A k \in DOMAIN u : \E j \in DOMAIN s \ {n} :
               /\ u[k] = s[j]
               /\ \A l \in DOMAIN s \ {n} : l > j => \E m \in DOMAIN u : m > k /\ u[m] = s[l]
         /\ \A j \in DOMAIN s \ {n} : \E k \in DOMAIN u : u[k] = s[j]
         /\ \A j, k \in DOMAIN u : u[j].msg = u[k].msg => j = k
<1>0. PICK a, b, l : /\ l = Len(s) /\ a = SubSeq(s, 1, n - 1) /\ b = SubSeq(s, n + 1, Len(s))
  OBVIOUS
<1>1. n \in 1..l /\ l \in Nat /\ DOMAIN s = 1..l /\ \A j \in 1..l : s[j] \in S
  BY <1>0, LenProperties, ElementOfSeq
<1>2. a \in Seq(S) /\ Len(a) = n - 1 /\ \A i \in 1..(n - 1) : a[i] = s[i]
  BY <1>0, <1>1, SubSeqProperties
<1>3. b \in Seq(S) /\ Len(b) = l - n /\ \A i \in 1..(l - n) : b[i] = s[n + i]
  BY <1>0, <1>1, SubSeqProperties
<1>4. u = a \o b
  BY <1>0 DEF RemoveAt
<1>5. /\ Len(u) = Len(a) + Len(b) /\ DOMAIN u = 1..(Len(a) + Len(b))
      /\ \A i \in 1..(Len(a) + Len(b)) : u[i] = IF i <= Len(a) THEN a[i] ELSE b[i - Len(a)]
  <2>1. /\ Len(a \o b) = Len(a) + Len(b) /\ a \o b \in Seq(S)
        /\ \A i \in 1..(Len(a) + Len(b)) :
              (a \o b)[i] = IF i <= Len(a) THEN a[i] ELSE b[i - Len(a)]
    <3>1. a \in Seq(S) /\ b \in Seq(S)
      BY <1>2, <1>3
    <3> QED BY ONLY <3>1, ConcatProperties
  <2>2. DOMAIN u = 1..Len(u)
    BY <1>4, <2>1, LenProperties
  <2> QED BY ONLY <1>4, <2>1, <2>2, Zenon
<1>6. DOMAIN u = 1..(l - 1)
  BY <1>1, <1>2, <1>3, <1>5
<1>7. \A i \in 1..(l - 1) : (i < n => u[i] = s[i]) /\ (i >= n => u[i] = s[i + 1])
  <2> TAKE i \in 1..(l - 1)
  <2>1. CASE i < n
    BY <1>1, <1>2, <1>3, <1>5, <2>1
  <2>2. CASE i >= n
    <3>1. i \in 1..(Len(a) + Len(b)) /\ ~ (i <= Len(a)) /\ i - Len(a) \in 1..(l - n)
          /\ n + (i - Len(a)) = i + 1
      BY <1>1, <1>2, <1>3, <2>2
    <3> QED BY <1>3, <1>5, <2>2, <3>1
  <2> QED BY <1>1, <2>1, <2>2
<1>8. ASSUME NEW i \in DOMAIN u PROVE \E j \in DOMAIN s \ {n} : u[i] = s[j] /\ j = (IF i < n THEN i ELSE i + 1)
  <2>1. CASE i < n
    BY <1>1, <1>6, <1>7, <2>1
  <2>2. CASE ~ (i < n)
    <3>1. i + 1 \in DOMAIN s \ {n} /\ u[i] = s[i + 1]
      BY <1>1, <1>6, <1>7, <2>2
    <3> QED BY <2>2, <3>1
  <2> QED BY <2>1, <2>2
<1>9. ASSUME NEW j \in DOMAIN s, j # n PROVE \E i \in DOMAIN u : u[i] = s[j]
  <2>1. CASE j < n
    <3>1. j \in DOMAIN u /\ u[j] = s[j]
      BY <1>1, <1>6, <1>7, <1>9, <2>1
    <3> QED BY <3>1
  <2>2. CASE j > n
    <3>1. j - 1 \in DOMAIN u /\ u[j - 1] = s[j]
      BY <1>1, <1>6, <1>7, <1>9, <2>2
    <3> QED BY <3>1
  <2> QED BY <1>1, <1>9, <2>1, <2>2
<1>11. ASSUME NEW j \in DOMAIN u, NEW k \in DOMAIN u, u[j].msg = u[k].msg PROVE j = k
  <2>1. PICK a1 \in DOMAIN s : u[j] = s[a1] /\ a1 = (IF j < n THEN j ELSE j + 1)
    BY <1>8
  <2>2. PICK b1 \in DOMAIN s : u[k] = s[b1] /\ b1 = (IF k < n THEN k ELSE k + 1)
    BY <1>8
  <2>3. a1 = b1
    BY <1>11, <2>1, <2>2
  <2> QED BY <1>1, <1>6, <2>1, <2>2, <2>3
<1>12. ASSUME NEW k \in DOMAIN u
       PROVE  \E j \in DOMAIN s \ {n} :
                 /\ u[k] = s[j]
                 /\ \A e \in DOMAIN s \ {n} : e > j => \E m \in DOMAIN u : m > k /\ u[m] = s[e]
  <2>1. PICK j \in DOMAIN s \ {n} : u[k] = s[j] /\ j = (IF k < n THEN k ELSE k + 1)
    BY <1>8
  <2>2. ASSUME NEW e \in DOMAIN s, e # n, e > j PROVE \E m \in DOMAIN u : m > k /\ u[m] = s[e]
    <3>1. CASE e < n
      <4>1. e \in DOMAIN u /\ e > k /\ u[e] = s[e]
        BY <1>1, <1>6, <1>7, <2>1, <2>2, <3>1
      <4> QED BY <4>1
    <3>2. CASE e > n
      <4>1. e - 1 \in DOMAIN u /\ e - 1 > k /\ u[e - 1] = s[e]
        BY <1>1, <1>6, <1>7, <2>1, <2>2, <3>2
      <4> QED BY <4>1
    <3> QED BY <1>1, <2>2, <3>1, <3>2
  <2> QED BY <2>1, <2>2
<1> QED BY <1>9, <1>11, <1>12
-----------------------------------------------------------------------------
(* The history.  a is the order of acceptance, q the requests.             *)

SpmWrites == {"spmst", "spmcp"}
Bef(a, i, j) == \E m, n \in DOMAIN a : m < n /\ a[m] = i /\ a[n] = j
WritesIn(q, x, k) ==
    (q[x].kind = "st" /\ q[x].at = k) \/ (q[x].kind \in SpmWrites /\ q[x].slot = k)
\* v is the last writer of k accepted before i.
LastFor(a, q, v, i, k) ==
    \/ v = NoWriter /\ \A x \in Range(a) : WritesIn(q, x, k) => ~ Bef(a, x, i)
    \/ /\ v \in Range(a) /\ WritesIn(q, v, k) /\ Bef(a, v, i)
       /\ \A x \in Range(a) : WritesIn(q, x, k) /\ Bef(a, x, i) => x = v \/ Bef(a, x, v)
CopyIn(a, q, c, s) == c \in Range(a) /\ q[c].kind = "spmcp" /\ q[c].slot = s
\* v is what the SPM load j may return; v is no older than the copy c.
Good(a, q, v, j) ==
    LastFor(a, q, v, j, q[j].at) \/ (CopyIn(a, q, v, q[j].at) /\ Bef(a, j, v))
NotOlder(a, q, v, c) == CopyIn(a, q, v, q[c].slot) /\ (v = c \/ Bef(a, c, v))
\* The history b, r extends a, q.
Longer(a, q, b, r) ==
    /\ Range(a) \subseteq Range(b)
    /\ \A x \in Range(a) : r[x] = q[x]
    /\ \A x, y \in Range(a) : Bef(b, x, y) <=> Bef(a, x, y)
    /\ \A x \in Range(b), y \in Range(a) : Bef(b, x, y) => x \in Range(a)

\* Requests are accepted in a total order.
LEMMA BefOrder ==
  ASSUME NEW S, NEW a \in Seq(S), IsInjective(a)
  PROVE  /\ \A i, j : Bef(a, i, j) => i \in Range(a) /\ j \in Range(a) /\ i # j /\ ~ Bef(a, j, i)
         /\ \A i, j, k : Bef(a, i, j) /\ Bef(a, j, k) => Bef(a, i, k)
         /\ \A i, j \in Range(a) : i = j \/ Bef(a, i, j) \/ Bef(a, j, i)
<1>1. PICK D : D = DOMAIN a /\ D \subseteq Nat
  BY LenProperties
<1>2. \A m, n \in D : a[m] = a[n] => m = n
  BY <1>1 DEF IsInjective
<1>3. ASSUME NEW i, NEW j, Bef(a, i, j)
      PROVE  i \in Range(a) /\ j \in Range(a) /\ i # j /\ ~ Bef(a, j, i)
  <2>1. PICK m, n \in D : m < n /\ a[m] = i /\ a[n] = j
    BY <1>1, <1>3 DEF Bef
  <2>2. ASSUME NEW x \in D, NEW y \in D, x < y, a[x] = j, a[y] = i PROVE FALSE
    BY <1>1, <1>2, <2>1, <2>2
  <2>3. i \in Range(a) /\ j \in Range(a)
    BY <1>1, <2>1 DEF Range
  <2>4. i # j
    BY <1>1, <1>2, <2>1
  <2> QED BY <1>1, <2>2, <2>3, <2>4 DEF Bef
<1>4. ASSUME NEW i, NEW j, NEW k, Bef(a, i, j), Bef(a, j, k) PROVE Bef(a, i, k)
  <2>1. PICK m, n \in D : m < n /\ a[m] = i /\ a[n] = j
    BY <1>1, <1>4 DEF Bef
  <2>2. PICK x, y \in D : x < y /\ a[x] = j /\ a[y] = k
    BY <1>1, <1>4 DEF Bef
  <2>3. n = x
    BY <1>2, <2>1, <2>2
  <2>4. m < y
    BY <1>1, <2>1, <2>2, <2>3
  <2> QED BY <1>1, <2>1, <2>2, <2>4 DEF Bef
<1>5. ASSUME NEW i \in Range(a), NEW j \in Range(a) PROVE i = j \/ Bef(a, i, j) \/ Bef(a, j, i)
  <2>1. PICK m, n \in D : a[m] = i /\ a[n] = j
    BY <1>1 DEF Range
  <2>2. m < n \/ m = n \/ n < m
    BY <1>1
  <2> QED BY <1>1, <2>1, <2>2 DEF Bef
<1>6. \A i, j : Bef(a, i, j) => i \in Range(a) /\ j \in Range(a) /\ i # j /\ ~ Bef(a, j, i)
  BY <1>3
<1>7. \A i, j, k : Bef(a, i, j) /\ Bef(a, j, k) => Bef(a, i, k)
  BY <1>4
<1>8. \A i, j \in Range(a) : i = j \/ Bef(a, i, j) \/ Bef(a, j, i)
  BY <1>5
<1> QED BY <1>6, <1>7, <1>8

\* An accepted request comes after all others.
LEMMA BefAppend ==
  ASSUME NEW S, NEW a \in Seq(S), NEW i \in S, i \notin Range(a), IsInjective(a),
         NEW b \in {Append(a, i)}
  PROVE  /\ b \in Seq(S) /\ IsInjective(b) /\ Range(b) = Range(a) \cup {i}
         /\ \A x, y \in Range(a) : Bef(b, x, y) <=> Bef(a, x, y)
         /\ \A x \in Range(a) : Bef(b, x, i)
         /\ \A y : ~ Bef(b, i, y)
<1>0. b = Append(a, i)
  OBVIOUS
<1>1. b \in Seq(S) /\ IsInjective(b) /\ Range(b) = Range(a) \cup {i}
  BY <1>0, AppendRange, AppendProperties
<1>2. PICK n : /\ n \in Nat /\ DOMAIN a = 1..n /\ DOMAIN b = 1..(n + 1) /\ b[n + 1] = i
               /\ \A m \in 1..n : b[m] = a[m]
  BY <1>0, AppendProperties, LenProperties
<1>3. \A m \in 1..n : a[m] # i
  BY <1>2 DEF Range
<1>4. \A m \in 1..(n + 1) : m \in 1..n \/ m = n + 1
  BY <1>2
<1>5. ASSUME NEW x \in Range(a), NEW y \in Range(a) PROVE Bef(b, x, y) <=> Bef(a, x, y)
  <2>1. ASSUME Bef(b, x, y) PROVE Bef(a, x, y)
    <3>1. PICK m, l \in 1..(n + 1) : m < l /\ b[m] = x /\ b[l] = y
      BY <1>2, <2>1 DEF Bef
    <3>2. m \in 1..n /\ l \in 1..n
      BY <1>2, <1>4, <1>5, <3>1
    <3> QED BY <1>2, <3>1, <3>2 DEF Bef
  <2>2. ASSUME Bef(a, x, y) PROVE Bef(b, x, y)
    <3>1. PICK m, l \in 1..n : m < l /\ a[m] = x /\ a[l] = y
      BY <1>2, <2>2 DEF Bef
    <3>2. m \in 1..(n + 1) /\ l \in 1..(n + 1) /\ b[m] = x /\ b[l] = y
      BY <1>2, <3>1
    <3> QED BY <1>2, <3>1, <3>2 DEF Bef
  <2> QED BY <2>1, <2>2
<1>6. ASSUME NEW x \in Range(a) PROVE Bef(b, x, i)
  <2>1. PICK m \in 1..n : a[m] = x
    BY <1>2 DEF Range
  <2>2. m \in 1..(n + 1) /\ n + 1 \in 1..(n + 1) /\ m < n + 1 /\ b[m] = x /\ b[n + 1] = i
    BY <1>2, <2>1
  <2> QED BY <1>2, <2>2 DEF Bef
<1>7. ASSUME NEW y, Bef(b, i, y) PROVE FALSE
  <2>1. PICK m, l \in 1..(n + 1) : m < l /\ b[m] = i /\ b[l] = y
    BY <1>2, <1>7 DEF Bef
  <2>2. m \in 1..n
    BY <1>2, <2>1
  <2> QED BY <1>2, <1>3, <2>1, <2>2
<1> QED BY <1>1, <1>5, <1>6, <1>7

\* What was right for a read stays right when more requests are accepted.
LEMMA GoodKept ==
  ASSUME NEW S, NEW a \in Seq(S), IsInjective(a), NEW q, NEW b, NEW r, Longer(a, q, b, r),
         NEW j \in Range(a)
  PROVE  /\ \A v, k : LastFor(a, q, v, j, k) => LastFor(b, r, v, j, k)
         /\ \A v : Good(a, q, v, j) => Good(b, r, v, j)
         /\ \A v : NotOlder(a, q, v, j) => NotOlder(b, r, v, j)
<1>1. \A x \in Range(a) : \A k : WritesIn(r, x, k) <=> WritesIn(q, x, k)
  BY DEF WritesIn, Longer
<1>2. ASSUME NEW v, NEW k, LastFor(a, q, v, j, k) PROVE LastFor(b, r, v, j, k)
  <2>1. ASSUME NEW x \in Range(b), WritesIn(r, x, k), Bef(b, x, j)
        PROVE  x \in Range(a) /\ WritesIn(q, x, k) /\ Bef(a, x, j)
    BY <1>1, <2>1 DEF Longer
  <2>2. CASE v = NoWriter /\ \A x \in Range(a) : WritesIn(q, x, k) => ~ Bef(a, x, j)
    BY <2>1, <2>2 DEF LastFor
  <2>3. CASE /\ v \in Range(a) /\ WritesIn(q, v, k) /\ Bef(a, v, j)
             /\ \A x \in Range(a) : WritesIn(q, x, k) /\ Bef(a, x, j) => x = v \/ Bef(a, x, v)
    <3>1. v \in Range(b) /\ WritesIn(r, v, k) /\ Bef(b, v, j)
      BY <1>1, <2>3 DEF Longer
    <3>2. \A x \in Range(b) : WritesIn(r, x, k) /\ Bef(b, x, j) => x = v \/ Bef(b, x, v)
      BY <2>1, <2>3 DEF Longer
    <3> QED BY <3>1, <3>2 DEF LastFor
  <2> QED BY <1>2, <2>2, <2>3 DEF LastFor
<1>3. \A v, s : CopyIn(a, q, v, s) => CopyIn(b, r, v, s) /\ v \in Range(a)
  BY DEF CopyIn, Longer
<1>4. r[j] = q[j]
  BY DEF Longer
<1>5. \A v : Good(a, q, v, j) => Good(b, r, v, j)
  BY <1>2, <1>3, <1>4 DEF Good, Longer
<1>6. \A v : NotOlder(a, q, v, j) => NotOlder(b, r, v, j)
  BY <1>3, <1>4 DEF NotOlder, Longer
<1> QED BY <1>2, <1>5, <1>6

(* The inductive invariant.                                                *)

\* SPM requests the array has served, and requests without an answer.
Reached == Range(order) \ (heap \cup Stalled \cup Range(toL1) \cup atL1)
Unans == Ids \ DOMAIN result
\* x has written k.
Wrote(x, k) ==
    \/ Kind(x) = "st" /\ req[x].at = k /\ x \in DOMAIN result
    \/ Kind(x) \in SpmWrites /\ req[x].slot = k /\ x \in Reached
\* A request without an answer is in the table or with its port; one that
\* has its answer leaves the table in the callback that answered it.
History ==
    /\ accepted \in Seq(Ids) /\ IsInjective(accepted)
    /\ LiveIn(table) \subseteq Range(accepted)
    /\ DOMAIN result \subseteq Ids
    /\ \A p \in Ports : pend[p] \notin Range(accepted) /\ pend[p] \notin DOMAIN result
    /\ \A i \in Unans : i \in LiveIn(table) \/ \E p \in Ports : pend[p] = i
    /\ \A i \in DOMAIN result : i \in LiveIn(table) => cb.step = "hit" /\ i = Head(table[cb.at])
    /\ cb.step = "hit" => Head(table[cb.at]) \in DOMAIN result
    /\ \A i \in DOMAIN result : Kind(i) \in SpmWrites => i \in Range(order)
\* The lists are in the order of acceptance, after all that left them.
Listed ==
    /\ \A k \in Keys : \A m, n \in DOMAIN table[k] : m < n => Bef(accepted, table[k][m], table[k][n])
    /\ \A i \in Range(accepted) \ LiveIn(table) : \A j \in Range(table[req[i].at]) : Bef(accepted, i, j)
\* Lines and slots hold their last write.
Stored ==
    \A k \in Keys :
        \/ store[k] = NoWriter /\ \A x \in Range(accepted) : ~ Wrote(x, k)
        \/ /\ store[k] \in Range(accepted) /\ Wrote(store[k], k)
           /\ \A x \in Range(accepted) : Wrote(x, k) => x = store[k] \/ Bef(accepted, x, store[k])
\* What the LSQ's waiting gives: copies are alone with their slot, but for
\* loads accepted before them.
Exclusive ==
    /\ \A c, w \in Unans :
          Kind(c) = "spmcp" /\ Kind(w) \in SpmWrites /\ req[c].slot = req[w].slot => c = w
    /\ \A c, i \in Unans :
          Kind(c) = "spmcp" /\ Kind(i) = "spmld" /\ req[c].slot = req[i].slot =>
              i \in Range(accepted) /\ (c \in Range(accepted) => Bef(accepted, i, c))
    /\ \A i \in Unans \cap Range(accepted), w \in Range(accepted) \ Unans :
          /\ Kind(i) \in SpmWrites /\ Kind(w) \in SpmWrites /\ "spmcp" \in {Kind(i), Kind(w)}
          /\ req[i].slot = req[w].slot
          => Bef(accepted, w, i)
\* The callback's fields, and the request it has just answered.
Serviced ==
    cb # NoCallback =>
        /\ cb.write = ~ Reads(cb.msg) /\ cb.spm = Spm(cb.msg)
        /\ cb.by = "spm" <=> Spm(cb.msg)
        /\ cb.step = "hit" /\ ~ cb.first => Kind(Head(table[cb.at])) \notin SpmWrites
        /\ cb.step = "hit" /\ ~ cb.write => Reads(Head(table[cb.at]))

\* An SPM message in flight leads its list, unanswered; no answer of its list runs.
LEMMA SpmLeads ==
  ASSUME Ordered, Transactions, Serviced, History, NEW i \in Flight, Spm(i)
  PROVE  /\ i \in Ids /\ req[i].at \in Keys /\ i \in LiveIn(table) /\ i \in Sent
         /\ table[req[i].at] # <<>> /\ Head(table[req[i].at]) = i
         /\ ~ (cb.step = "hit" /\ cb.at = req[i].at)
         /\ i \in Range(accepted) /\ i \in Unans
<1>1. i \in Sent /\ i \in Ids
  BY FlightSent DEF Ordered, Transactions, Ids
<1>2. ~ (cb # NoCallback /\ i = cb.msg)
  BY DEF Serviced, Serving, Transactions, Ordered, Types, Typed, Callbacks
<1>3. i \in LiveIn(table)
  BY <1>2 DEF Transactions, Carried
<1>4. req[i].at \in Keys /\ table[req[i].at] # <<>> /\ Head(table[req[i].at]) = i
  BY <1>1, <1>3, SentLeads
<1>5. ASSUME cb.step = "hit", cb.at = req[i].at PROVE FALSE
  <2>1. cb # NoCallback
    BY <1>5 DEF NoCallback
  <2> QED BY <1>1, <1>2, <1>4, <1>5, <2>1 DEF Transactions, Serving
<1>6. ASSUME i \in DOMAIN result PROVE FALSE
  <2>1. cb.step = "hit" /\ i = Head(table[cb.at])
    BY <1>3, <1>6 DEF History
  <2>2. cb.at \in Keys /\ table[cb.at] # <<>>
    BY <2>1 DEF Ordered, Types, Typed, Callbacks, NoCallback
  <2>3. req[i].at = cb.at
    BY <2>1, <2>2, LeaderLive
  <2> QED BY <1>5, <2>1, <2>3
<1> QED BY <1>1, <1>3, <1>4, <1>5, <1>6 DEF History, Unans

\* An answered SPM store or copy has been served by the array.
LEMMA OwnReached ==
  ASSUME Ordered, Transactions, Serviced, History, NEW i \in DOMAIN result, Kind(i) \in SpmWrites
  PROVE  i \in Reached /\ i \notin Flight
<1>1. i \notin Flight
  <2>1. Spm(i)
    BY DEF Spm, SpmWrites, SpmKinds
  <2> QED BY <2>1, SpmLeads DEF Unans
<1> QED BY <1>1 DEF Reached, Flight, History

\* A request of a line is in its list or before all of it.
LEMMA ListedBefore ==
  ASSUME Ordered, Listed, NEW k \in Keys, NEW j \in Range(table[k]), NEW x \in Range(accepted), req[x].at = k
  PROVE  x \in Range(table[k]) \/ Bef(accepted, x, j)
<1>1. CASE x \in LiveIn(table)
  <2>1. PICK l \in Keys : x \in Range(table[l])
    BY <1>1 DEF LiveIn
  <2>2. req[x].at = l
    BY <2>1 DEF Range, Ordered, Counted, Placed
  <2> QED BY <2>1, <2>2
<1>2. CASE x \notin LiveIn(table)
  BY <1>2 DEF Listed
<1> QED BY <1>1, <1>2

\* The requests behind the first of a list are not sent.
LEMMA ListFirst ==
  ASSUME Ordered, Listed, NEW k \in Keys, table[k] # <<>>, NEW x \in Range(table[k]), x # Head(table[k])
  PROVE  x \notin Sent /\ Bef(accepted, Head(table[k]), x)
<1>1. PICK s, N : s = table[k] /\ N = Len(req)
  OBVIOUS
<1>2. s \in Seq(1..N) /\ s # <<>>
  BY <1>1 DEF Ordered, Types, Typed
<1>3. Head(s) = s[1] /\ 1 \in DOMAIN s /\ DOMAIN s = 1..Len(s) /\ Len(s) \in Nat
  BY <1>2, HeadFirst, LenProperties
<1>4. PICK n \in DOMAIN s : s[n] = x
  BY <1>1 DEF Range
<1>5. n > 1
  BY <1>1, <1>3, <1>4
<1> QED BY <1>1, <1>3, <1>4, <1>5 DEF Listed, Ordered, Unsent

\* The requests of a slot are SPM loads and stores; those of its writers that
\* are not copies are recorded in its list.
LEMMA SlotKinds ==
  ASSUME req \in Seq(Requests), NEW x \in Ids, NEW s \in Slots
  PROVE  /\ req[x].at = s => Kind(x) \in {"spmld", "spmst"} /\ req[x].slot = s
         /\ WritesIn(req, x, s) => Kind(x) = "spmcp" \/ (Kind(x) = "spmst" /\ req[x].at = s)
         /\ s \in Keys /\ s \notin Lines
<1>1. req[x] \in Requests /\ s \notin Lines /\ s \in Keys
  BY ReqKnown, IngressAssumption DEF Ids, Keys
<1> QED BY <1>1, RoutesAssumption DEF Kind, WritesIn, SpmWrites

\* A value that is right for the first of a list of reads, and no older than
\* any copy since, is the last write of all.
LEMMA FollowerGood ==
  ASSUME Ordered, History, Listed, NEW s \in Slots, table[s] # <<>>,
         \A x \in Range(table[s]) : Reads(x), NEW h, h = Head(table[s]),
         NEW v, Good(accepted, req, v, h),
         \A c \in Range(accepted) :
             CopyIn(accepted, req, c, s) /\ Bef(accepted, h, c) => NotOlder(accepted, req, v, c)
  PROVE  \/ v = NoWriter /\ \A x \in Range(accepted) : ~ WritesIn(req, x, s)
         \/ /\ v \in Range(accepted) /\ WritesIn(req, v, s)
            /\ \A x \in Range(accepted) : WritesIn(req, x, s) => x = v \/ Bef(accepted, x, v)
<1>1. /\ h \in Ids /\ req[h].at = s /\ h \in LiveIn(table) /\ h \in Range(accepted) /\ s \in Keys
      /\ h \in Range(table[s])
  <2>1. s \in Keys
    BY DEF Keys
  <2>2. h \in Ids /\ req[h].at = s /\ h \in LiveIn(table)
    BY <2>1, LeaderLive DEF Ids
  <2>3. h \in Range(accepted)
    BY <2>2 DEF History
  <2>4. h \in Range(table[s])
    <3>1. PICK l \in Keys : h \in Range(table[l])
      BY <2>2 DEF LiveIn
    <3> QED BY <2>2, <3>1 DEF Range, Ordered, Counted, Placed
  <2> QED BY <2>1, <2>2, <2>3, <2>4
<1>2. \A x \in Range(accepted) : x \in Ids
  BY RangeOfSeq DEF History
<1>3. req \in Seq(Requests)
  BY DEF Ordered, Types
<1>4. /\ \A i, j : Bef(accepted, i, j) => i # j /\ ~ Bef(accepted, j, i)
      /\ \A i, j, k : Bef(accepted, i, j) /\ Bef(accepted, j, k) => Bef(accepted, i, k)
      /\ \A i, j \in Range(accepted) : i = j \/ Bef(accepted, i, j) \/ Bef(accepted, j, i)
  BY BefOrder DEF History
<1>5. ASSUME NEW x \in Range(accepted), WritesIn(req, x, s), ~ Bef(accepted, x, h)
      PROVE  CopyIn(accepted, req, x, s) /\ Bef(accepted, h, x)
  <2>1. Kind(x) = "spmcp" \/ (Kind(x) = "spmst" /\ req[x].at = s)
    BY <1>2, <1>3, <1>5, SlotKinds
  <2>2. Kind(x) # "spmst"
    <3>1. Kind(x) = "spmst" => ~ Reads(x)
      BY DEF Reads
    <3> QED BY <1>1, <1>5, <2>1, <3>1, ListedBefore
  <2>3. x # h
    <3>1. Reads(h)
      BY <1>1
    <3> QED BY <2>1, <2>2, <3>1 DEF Reads
  <2>4. CopyIn(accepted, req, x, s)
    BY <1>5, <2>1, <2>2 DEF CopyIn, WritesIn, Kind, SpmWrites
  <2> QED BY <1>1, <1>4, <1>5, <2>3, <2>4
<1>6. CASE \E c \in Range(accepted) : CopyIn(accepted, req, c, s) /\ Bef(accepted, h, c)
  <2>1. PICK c \in Range(accepted) : CopyIn(accepted, req, c, s) /\ Bef(accepted, h, c)
    BY <1>6
  <2>2. CopyIn(accepted, req, v, s) /\ (v = c \/ Bef(accepted, c, v))
    BY <2>1 DEF NotOlder, CopyIn
  <2>3. v \in Range(accepted) /\ WritesIn(req, v, s) /\ Bef(accepted, h, v)
    BY <1>4, <2>1, <2>2 DEF CopyIn, WritesIn, SpmWrites
  <2>4. ASSUME NEW x \in Range(accepted), WritesIn(req, x, s) PROVE x = v \/ Bef(accepted, x, v)
    <3>1. CASE Bef(accepted, x, h)
      BY <1>4, <2>3, <3>1
    <3>2. CASE ~ Bef(accepted, x, h)
      BY <1>5, <2>4, <3>2 DEF NotOlder
    <3> QED BY <3>1, <3>2
  <2> QED BY <2>3, <2>4
<1>7. CASE ~ \E c \in Range(accepted) : CopyIn(accepted, req, c, s) /\ Bef(accepted, h, c)
  <2>1. \A x \in Range(accepted) : WritesIn(req, x, s) => Bef(accepted, x, h)
    BY <1>5, <1>7
  <2>2. LastFor(accepted, req, v, h, s)
    BY <1>1, <1>7 DEF Good, CopyIn
  <2> QED BY <2>1, <2>2 DEF LastFor
<1> QED BY <1>6, <1>7

\* The leading reads of a list.
Leading(s, n) == \A m \in 1..n : Reads(table[s][m])

\* A load that reaches the array finds what all leading reads of its list may return.
LEMMA StoreGood ==
  ASSUME Ordered, Transactions, History, Listed, Stored, Exclusive, Serviced,
         NEW i \in Flight, Kind(i) = "spmld", NEW s, s = req[i].at
  PROVE  /\ \A n \in DOMAIN table[s] : Leading(s, n) => Good(accepted, req, store[s], table[s][n])
         /\ \A c \in Range(accepted) :
               CopyIn(accepted, req, c, s) /\ Bef(accepted, i, c) /\ c \in Reached
               => NotOlder(accepted, req, store[s], c)
<1>1. /\ i \in Ids /\ s \in Keys /\ table[s] # <<>> /\ Head(table[s]) = i /\ i \in Sent
      /\ ~ (cb.step = "hit" /\ cb.at = s) /\ i \in Range(accepted)
  <2>1. Spm(i)
    BY DEF Spm, SpmKinds
  <2> QED BY <2>1, SpmLeads
<1>2. \A x \in Range(accepted) : x \in Ids
  BY RangeOfSeq DEF History
<1>3. s \in Slots /\ req \in Seq(Requests)
  <2>1. req \in Seq(Requests) /\ req[i] \in Requests
    BY <1>1, ReqKnown DEF Ordered, Types, Ids
  <2> QED BY <2>1, RoutesAssumption, SequencerAssumption DEF Kind, SpmKinds
<1>4. /\ \A x, y : Bef(accepted, x, y) => x # y /\ ~ Bef(accepted, y, x)
      /\ \A x, y, k : Bef(accepted, x, y) /\ Bef(accepted, y, k) => Bef(accepted, x, k)
      /\ \A x, y \in Range(accepted) : x = y \/ Bef(accepted, x, y) \/ Bef(accepted, y, x)
  BY BefOrder DEF History
<1>5. PICK N, t : N = Len(req) /\ t = table[s]
  OBVIOUS
<1>6. t \in Seq(1..N) /\ DOMAIN t = 1..Len(t) /\ Len(t) \in Nat
  BY <1>1, <1>5, LenProperties DEF Ordered, Types, Typed
<1>7. ASSUME NEW j \in Range(t) PROVE j \in Range(accepted) /\ j \in Unans /\ req[j].at = s
  <2>1. j \in LiveIn(table) /\ req[j].at = s
    BY <1>1, <1>5 DEF LiveIn, Range, Ordered, Counted, Placed
  <2>2. ASSUME j \in DOMAIN result PROVE FALSE
    <3>1. cb.step = "hit" /\ j = Head(table[cb.at])
      BY <2>1, <2>2 DEF History
    <3>2. cb.at \in Keys /\ table[cb.at] # <<>>
      BY <3>1 DEF Ordered, Types, Typed, Callbacks, NoCallback
    <3>3. req[j].at = cb.at
      BY <3>1, <3>2, LeaderLive
    <3> QED BY <1>1, <2>1, <3>1, <3>3
  <2> QED BY <1>2, <2>1, <2>2 DEF History, Unans
\* Writers that reached the array after a leading read was accepted are copies.
<1>8. ASSUME NEW j \in Range(t), Reads(i), NEW x \in Range(accepted), Wrote(x, s), Bef(accepted, j, x)
      PROVE  CopyIn(accepted, req, x, s)
  <2>1. WritesIn(req, x, s)
    BY <1>8 DEF Wrote, WritesIn, Kind
  <2>2. Kind(x) = "spmcp" \/ (Kind(x) = "spmst" /\ req[x].at = s)
    BY <1>2, <1>3, <2>1, SlotKinds
  <2>3. ASSUME Kind(x) = "spmst" PROVE FALSE
    <3>1. x \in Reached /\ x \in Sent
      BY <1>8, <2>3 DEF Wrote, Reached, Sent
    <3>2. x \in Range(table[s])
      BY <1>1, <1>4, <1>5, <1>8, <2>2, <2>3, ListedBefore
    <3>3. x = i
      BY <1>1, <3>1, <3>2, ListFirst
    <3> QED BY <2>3, <3>3
  <2> QED BY <1>8, <2>1, <2>2, <2>3 DEF CopyIn, WritesIn, Kind, SpmWrites
\* Writers accepted before a leading read have reached the array.
<1>9. ASSUME NEW n \in DOMAIN t, Leading(s, n), NEW x \in Range(accepted), WritesIn(req, x, s),
             Bef(accepted, x, t[n])
      PROVE  Wrote(x, s)
  <2>1. x \in Ids /\ (Kind(x) = "spmcp" \/ (Kind(x) = "spmst" /\ req[x].at = s))
    BY <1>2, <1>3, <1>9, SlotKinds
  <2>2. t[n] \in Range(t) /\ Reads(t[n])
    BY <1>5, <1>6, <1>9 DEF Leading, Range
  <2>3. t[n] \in Unans /\ req[t[n]].at = s /\ t[n] \in Ids
    BY <1>2, <1>7, <2>2
  <2>4. Kind(t[n]) = "spmld" /\ req[t[n]].slot = s
    BY <1>3, <2>2, <2>3, SlotKinds DEF Reads
  <2>5. x \in DOMAIN result
    <3>1. CASE Kind(x) = "spmcp"
      <4>1. req[x].slot = s
        BY <1>9, <3>1 DEF WritesIn, Kind
      <4> QED BY <1>4, <1>9, <2>1, <2>3, <2>4, <3>1, <4>1 DEF Exclusive, Unans
    <3>2. CASE Kind(x) = "spmst" /\ req[x].at = s
      <4>1. ASSUME x \in Range(t) PROVE FALSE
        <5>1. PICK m \in DOMAIN t : t[m] = x
          BY <4>1 DEF Range
        <5>2. ~ (n < m)
          BY <1>1, <1>4, <1>5, <1>9, <5>1 DEF Listed
        <5>3. m \in 1..n
          BY <1>6, <5>1, <5>2
        <5> QED BY <1>5, <1>9, <3>2, <5>1, <5>3 DEF Leading, Reads
      <4>2. x \notin LiveIn(table)
        <5>1. ASSUME NEW l \in Keys, x \in Range(table[l]) PROVE FALSE
          <6>1. req[x].at = l
            BY <5>1 DEF Range, Ordered, Counted, Placed
          <6> QED BY <1>5, <3>2, <4>1, <5>1, <6>1
        <5> QED BY <5>1 DEF LiveIn
      <4> QED BY <2>1, <4>2 DEF History, Unans
    <3> QED BY <2>1, <3>1, <3>2
  <2>6. Kind(x) \in SpmWrites
    BY <2>1 DEF SpmWrites
  <2>7. x \in Reached
    BY <2>5, <2>6, OwnReached
  <2> QED BY <1>9, <2>1, <2>6, <2>7 DEF Wrote, WritesIn, Kind
<1>10. PICK w : w = store[s]
  OBVIOUS
<1>11. \/ w = NoWriter /\ \A x \in Range(accepted) : ~ Wrote(x, s)
       \/ /\ w \in Range(accepted) /\ Wrote(w, s)
          /\ \A x \in Range(accepted) : Wrote(x, s) => x = w \/ Bef(accepted, x, w)
  BY <1>1, <1>10 DEF Stored
<1>12. Reads(i) /\ i \in Range(t)
  <2>1. i \in Range(t)
    BY <1>1, <1>5, <1>6, HeadFirst DEF Range
  <2> QED BY <2>1 DEF Reads
<1>13. ASSUME NEW n \in DOMAIN t, Leading(s, n) PROVE Good(accepted, req, w, t[n])
  <2>1. t[n] \in Range(t) /\ t[n] \in Range(accepted) /\ req[t[n]].at = s /\ Reads(t[n])
    BY <1>5, <1>6, <1>7, <1>13 DEF Leading, Range
  <2>2. CASE w = NoWriter
    <3>1. NoWriter \notin Range(accepted)
      BY <1>2 DEF NoWriter, Ids
    <3>2. LastFor(accepted, req, w, t[n], s)
      BY <1>9, <1>11, <1>13, <2>2, <3>1 DEF LastFor
    <3> QED BY <2>1, <3>2 DEF Good
  <2>3. CASE w # NoWriter /\ Bef(accepted, w, t[n])
    <3>1. WritesIn(req, w, s)
      BY <1>11, <2>3 DEF Wrote, WritesIn, Kind
    <3>2. LastFor(accepted, req, w, t[n], s)
      BY <1>9, <1>11, <1>13, <2>3, <3>1 DEF LastFor
    <3> QED BY <2>1, <3>2 DEF Good
  <2>4. CASE w # NoWriter /\ ~ Bef(accepted, w, t[n])
    <3>1. w # t[n]
      <4>1. Wrote(w, s)
        BY <1>11, <2>4
      <4> QED BY <2>1, <4>1 DEF Wrote, Reads, SpmWrites
    <3>2. Bef(accepted, t[n], w)
      BY <1>4, <1>11, <2>1, <2>4, <3>1
    <3> QED BY <1>8, <1>11, <1>12, <2>1, <2>4, <3>2 DEF Good
  <2> QED BY <2>2, <2>3, <2>4
<1>14. ASSUME NEW c \in Range(accepted), CopyIn(accepted, req, c, s), Bef(accepted, i, c), c \in Reached
       PROVE  NotOlder(accepted, req, w, c)
  <2>1. Wrote(c, s) /\ req[c].slot = s
    BY <1>14 DEF Wrote, CopyIn, Kind, SpmWrites
  <2>2. w \in Range(accepted) /\ Wrote(w, s) /\ (c = w \/ Bef(accepted, c, w))
    BY <1>11, <2>1
  <2>3. Bef(accepted, i, w)
    BY <1>4, <1>14, <2>2
  <2> QED BY <1>8, <1>12, <2>1, <2>2, <2>3 DEF NotOlder
<1> QED BY <1>5, <1>10, <1>13, <1>14

\* The store or copy the array takes now was accepted after all it took before.
LEMMA WriteLast ==
  ASSUME Ordered, Transactions, History, Listed, Exclusive, Serviced,
         NEW i \in Flight, Kind(i) \in SpmWrites, i \notin Reached,
         NEW x \in Range(accepted), Wrote(x, req[i].slot)
  PROVE  Bef(accepted, x, i)
<1>1. /\ i \in Ids /\ req[i].at \in Keys /\ table[req[i].at] # <<>> /\ Head(table[req[i].at]) = i
      /\ i \in Range(accepted) /\ i \in Unans
  <2>1. Spm(i)
    BY DEF Spm, SpmKinds, SpmWrites
  <2> QED BY <2>1, SpmLeads
<1>2. x \in Ids /\ req \in Seq(Requests)
  BY RangeOfSeq DEF History, Ordered, Types
<1>3. PICK s : s = req[i].slot /\ s \in Slots
  BY <1>1, <1>2, SequencerAssumption DEF Kind, SpmWrites, SpmKinds, Ids
<1>4. /\ WritesIn(req, x, s) /\ Kind(x) \in SpmWrites /\ x \in Reached /\ x # i /\ req[x].slot = s
  <2>1. WritesIn(req, x, s)
    BY <1>3 DEF Wrote, WritesIn, Kind
  <2>2. Kind(x) \in SpmWrites
    BY <1>2, <1>3, <2>1, SlotKinds DEF SpmWrites
  <2> QED BY <1>3, <2>1, <2>2 DEF Wrote, SpmWrites
<1>5. CASE Kind(i) = "spmcp" \/ Kind(x) = "spmcp"
  <2>1. x \notin Unans
    BY <1>1, <1>3, <1>4, <1>5 DEF Exclusive
  <2> QED BY <1>1, <1>3, <1>4, <1>5, <2>1 DEF Exclusive
<1>6. CASE Kind(i) = "spmst" /\ Kind(x) = "spmst"
  <2>1. req[i].at = s /\ req[x].at = s
    <3>1. req[i] \in Requests /\ req[x] \in Requests
      BY <1>1, <1>2, ReqKnown DEF Ids
    <3> QED BY <1>3, <1>4, <1>6, <3>1, RoutesAssumption DEF Kind
  <2>2. i \in Range(table[s]) /\ x \notin Range(table[s])
    <3>1. x \in Sent
      BY <1>4 DEF Reached, Sent
    <3>2. x \notin Range(table[s])
      BY <1>1, <1>4, <2>1, <3>1, ListFirst
    <3>3. PICK N, t : N = Len(req) /\ t = table[s]
      OBVIOUS
    <3>4. t \in Seq(1..N) /\ t # <<>>
      BY <1>1, <2>1, <3>3 DEF Ordered, Types, Typed
    <3>5. Head(t) \in Range(t)
      BY <3>4, HeadFirst DEF Range
    <3> QED BY <1>1, <2>1, <3>2, <3>3, <3>5
  <2> QED BY <1>1, <2>1, <2>2, ListedBefore
<1> QED BY <1>4, <1>5, <1>6 DEF SpmWrites

\* v is right for every leading read of a list.
GoodIn(v, s) ==
    \A n \in DOMAIN table[s] : Leading(s, n) => Good(accepted, req, v, table[s][n])
\* The data on its way to the L0: no copy since is missed by it, unless the
\* copy's acknowledgment comes behind it.
RespGood ==
    \A k \in DOMAIN resp : Kind(resp[k].msg) = "spmld" =>
        /\ GoodIn(resp[k].val, req[resp[k].msg].at)
        /\ \A c \in Range(accepted) :
              /\ CopyIn(accepted, req, c, req[resp[k].msg].at)
              /\ Bef(accepted, resp[k].msg, c) /\ c \in Reached
              => \/ \E l \in DOMAIN resp : l > k /\ resp[l].msg = c
                 \/ NotOlder(accepted, req, resp[k].val, c)
\* The data of a running SPM read callback.
Loaded == cb # NoCallback /\ cb.by = "spm" /\ ~ cb.write /\ cb.step # "over"
CbGood ==
    Loaded =>
        /\ GoodIn(cb.val, cb.at)
        /\ table[cb.at] # <<>> => \A c \in Range(accepted) \cap DOMAIN result :
              CopyIn(accepted, req, c, cb.at) /\ Bef(accepted, Head(table[cb.at]), c)
              => NotOlder(accepted, req, cb.val, c)
\* What was told to the core.
ReadsGood ==
    \A i \in Range(accepted) \cap DOMAIN result :
        /\ Kind(i) \in {"ld", "if"} => LastFor(accepted, req, result[i], i, req[i].at)
        /\ Kind(i) = "spmld" => Good(accepted, req, result[i], i)
Answers ==
    /\ History /\ Listed /\ Stored /\ Exclusive /\ Serviced
    /\ RespGood /\ CbGood /\ ReadsGood

\* A step that moves messages, or begins or ends a callback.
LEMMA QuietAnswers ==
  ASSUME Ordered, Answers, UNCHANGED <<req, accepted, table, pend, result, store, resp>>,
         \A x \in Range(accepted) : Kind(x) \in SpmWrites => (x \in Reached' <=> x \in Reached),
         Range(order) \subseteq Range(order'),
         cb' = cb \/ (cb.step # "hit" /\ cb'.step # "hit" /\ ~ Loaded' /\ Serviced')
  PROVE  Answers'
<1>1. Ids' = Ids /\ Unans' = Unans /\ LiveIn(table') = LiveIn(table)
  BY DEF Ids, Unans
<1>2. \A x : Kind(x)' = Kind(x)
  BY DEF Kind
<1>3. History'
  BY <1>1, <1>2 DEF Answers, History
<1>4. Listed'
  BY <1>1 DEF Answers, Listed
<1>5. Stored'
  <2>1. \A x \in Range(accepted) : \A k : Wrote(x, k)' <=> Wrote(x, k)
    BY <1>2 DEF Wrote
  <2> QED BY <2>1 DEF Answers, Stored
<1>6. Exclusive'
  BY <1>1, <1>2 DEF Answers, Exclusive
<1>7. Serviced'
  BY <1>2 DEF Answers, Serviced, Reads, Spm
<1>8. \A v, s : GoodIn(v, s)' <=> GoodIn(v, s)
  BY <1>2 DEF GoodIn, Leading, Reads
<1>9. RespGood'
  <2>1. \A c : CopyIn(accepted, req, c, req[c].slot) => Kind(c) \in SpmWrites
    BY DEF CopyIn, Kind, SpmWrites
  <2> QED BY <1>2, <1>8, <2>1 DEF Answers, RespGood, CopyIn
<1>10. CbGood'
  BY <1>8 DEF Answers, CbGood, Loaded
<1>11. ReadsGood'
  BY <1>2 DEF Answers, ReadsGood
<1> QED BY <1>3, <1>4, <1>5, <1>6, <1>7, <1>9, <1>10, <1>11 DEF Answers

\* The next message of a queue joins it.
LEMMA EnqueueReached ==
  ASSUME NEW S, order \in Seq(S), NEW ms \in Seq(S), EnqueueAll(ms), UNCHANGED <<toL1, atL1>>,
         Range(order) \cap Range(ms) = {}
  PROVE  Reached' = Reached /\ Range(order) \subseteq Range(order')
<1>1. Range(order') = Range(order) \cup Range(ms)
  BY RangeConcatenation DEF EnqueueAll
<1>2. Stalled' = Stalled /\ heap' = heap \cup Range(ms) /\ Range(toL1') = Range(toL1) /\ atL1' = atL1
  BY DEF EnqueueAll, Stalled
<1> QED BY <1>1, <1>2 DEF Reached

\* The steps of the queue, the L0 and the clock answer nothing.
LEMMA QuietStep ==
  ASSUME Ordered, Transactions, Answers, NEW i,
         \/ Reissue \/ CallbackDone \/ L0Hit \/ L0Miss \/ L0Spm \/ L0Stall
         \/ StallAndWait(i) \/ Response(i) \/ ServiceIngress \/ Tick \/ UNCHANGED vars
  PROVE  Answers'
<1>0. Types /\ Picks /\ Unsent /\ Serviced /\ Apart /\ Once /\ order \in Seq(Nat)
  BY QueueKnown DEF Ordered, Answers, Transactions
<1>1. UNCHANGED <<req, accepted, table, pend, result, store, resp>>
  BY DEF Reissue, CallbackDone, L0Hit, L0Miss, L0Spm, L0Stall, StallAndWait, Response,
     ServiceIngress, Tick, vars, core, admission, below
<1>2. NoCallback.step = "none"
  BY DEF NoCallback
<1>3. ASSUME order' = order, toL1' = toL1, atL1' = atL1, heap' \cup Stalled' = heap \cup Stalled
      PROVE  Reached' = Reached /\ Range(order) \subseteq Range(order')
  BY <1>3 DEF Reached
<1>4. CASE Reissue
  <2>1. PICK l : l = Leader
    OBVIOUS
  <2>2. /\ l \notin Sent /\ IssueRequest(l) /\ UNCHANGED <<toL1, atL1>> /\ l \in 1..Len(req)
        /\ cb.step = "serve" /\ cb' = [cb EXCEPT !.step = "over"] /\ cb # NoCallback
    <3>1. /\ cb.step = "serve" /\ cb.at \in Keys /\ table[cb.at] # <<>> /\ ~ cb.first /\ cb # NoCallback
      BY <1>0, <1>2, <1>4 DEF Reissue, Served, Types, Typed, Callbacks
    <3>2. l = Head(table[cb.at]) /\ l \notin Sent
      BY <1>0, <2>1, <3>1 DEF Unsent, Leader
    <3>3. l \in 1..Len(req)
      BY <3>1, <3>2, LeaderLive
    <3> QED BY <1>4, <2>1, <3>1, <3>2, <3>3 DEF Reissue, below
  <2>3. Reached' = Reached /\ Range(order) \subseteq Range(order')
    <3>1. CASE EnqueueAll(<<l>>)
      <4>1. l \in Nat
        BY <2>2
      <4>2. <<l>> \in Seq(Nat) /\ Range(<<l>>) = {l}
        BY <4>1, OneInjective
      <4>3. Range(order) \cap Range(<<l>>) = {}
        BY <2>2, <4>2 DEF Sent
      <4> QED BY <1>0, <2>2, <3>1, <4>2, <4>3, EnqueueReached
    <3>2. CASE UNCHANGED queue
      BY <1>3, <2>2, <3>2 DEF queue, Stalled
    <3> QED BY <2>2, <3>1, <3>2 DEF IssueRequest
  <2>4. /\ cb'.step = "over" /\ cb' # NoCallback /\ cb'.write = cb.write /\ cb'.spm = cb.spm
        /\ cb'.msg = cb.msg /\ cb'.by = cb.by
    BY <1>0, <2>2 DEF Types, Typed, Callbacks, NoCallback
  <2>5. ~ Loaded' /\ Serviced'
    BY <1>0, <1>1, <2>2, <2>4 DEF Loaded, Serviced, Reads, Spm, Kind
  <2> QED BY <1>1, <2>2, <2>3, <2>4, <2>5, QuietAnswers
<1>5. CASE CallbackDone
  <2>1. /\ cb' = NoCallback /\ UNCHANGED <<order, toL1, atL1>> /\ cb.step # "hit" /\ cb # NoCallback
    BY <1>2, <1>5 DEF CallbackDone, Dequeue, RemoveSelected, Reanalyze, queue
  <2>2. \A x \in Range(accepted) : Kind(x) \in SpmWrites => (x \in Reached' <=> x \in Reached)
    <3>1. CASE cb.by = "hit"
      <4>1. heap' = heap \ {cb.msg} /\ Stalled' = Stalled /\ ~ Spm(cb.msg)
        BY <1>0, <1>5, <2>1, <3>1 DEF CallbackDone, Dequeue, RemoveSelected, Stalled, Serviced
      <4>2. Kind(cb.msg) \notin SpmWrites
        BY <4>1 DEF Spm, SpmKinds, SpmWrites
      <4> QED BY <2>1, <4>1, <4>2 DEF Reached
    <3>2. CASE cb.by = "miss"
      <4>1. heap' = heap \cup {w[1] : w \in WaitFor(cb.at)} /\ stallMap' = stallMap \ WaitFor(cb.at)
        BY <1>5, <3>2 DEF CallbackDone, Reanalyze
      <4>2. heap' \cup Stalled' = heap \cup Stalled
        BY <4>1 DEF Stalled, WaitFor
      <4> QED BY <1>3, <2>1, <4>2
    <3>3. CASE cb.by \notin {"hit", "miss"}
      BY <1>3, <1>5, <2>1, <3>3 DEF CallbackDone, queue, Stalled
    <3> QED BY <3>1, <3>2, <3>3
  <2>3. ~ Loaded' /\ Serviced' /\ cb'.step # "hit"
    BY <1>2, <2>1 DEF Loaded, Serviced
  <2> QED BY <1>1, <2>1, <2>2, <2>3, QuietAnswers
<1>6. ASSUME NEW m, NEW by, Callback(m, NoWriter, by), by # "spm", cb = NoCallback, ~ Spm(m)
      PROVE  cb.step # "hit" /\ cb'.step # "hit" /\ ~ Loaded' /\ Serviced'
  <2>1. /\ cb'.step = "serve" /\ cb'.write = ~ Reads(m) /\ cb'.spm = Spm(m) /\ cb'.msg = m
        /\ cb'.by = by
    BY <1>6 DEF Callback
  <2>2. Reads(m)' = Reads(m) /\ Spm(m)' = Spm(m)
    BY <1>1 DEF Reads, Spm, Kind
  <2> QED BY <1>2, <1>6, <2>1, <2>2 DEF Loaded, Serviced
<1>7. CASE L0Hit
  <2>1. cb.step # "hit" /\ cb'.step # "hit" /\ ~ Loaded' /\ Serviced'
    BY <1>6, <1>7 DEF L0Hit, CanServe
  <2>2. Reached' = Reached /\ Range(order) \subseteq Range(order')
    BY <1>3, <1>7 DEF L0Hit, queue, below, Stalled
  <2> QED BY <1>1, <2>1, <2>2, QuietAnswers
<1>8. CASE Response(i)
  <2>1. cb = NoCallback /\ ~ Spm(i)
    BY <1>8 DEF Response, Transactions, Lanes
  <2>2. cb.step # "hit" /\ cb'.step # "hit" /\ ~ Loaded' /\ Serviced'
    BY <1>6, <1>8, <2>1 DEF Response
  <2>3. Reached' = Reached /\ Range(order) \subseteq Range(order')
    BY <1>3, <1>8 DEF Response, queue, below, Stalled
  <2> QED BY <1>1, <2>2, <2>3, QuietAnswers
<1>9. CASE L0Miss
  <2>1. /\ cb' = cb /\ UNCHANGED <<order, stallMap, toL1, atL1>> /\ heap' = heap \ {Peek} /\ ~ Spm(Peek)
        /\ Stalled' = Stalled
    BY <1>9 DEF L0Miss, Dequeue, RemoveSelected, Stalled
  <2>2. Kind(Peek) \notin SpmWrites
    BY <2>1 DEF Spm, SpmKinds, SpmWrites
  <2>3. \A x \in Range(accepted) : Kind(x) \in SpmWrites => (x \in Reached' <=> x \in Reached)
    BY <2>1, <2>2 DEF Reached
  <2> QED BY <1>1, <2>1, <2>3, QuietAnswers
<1>10. CASE L0Spm
  <2>1. PICK m, N : m = Peek /\ N = Len(req)
    OBVIOUS
  <2>2. m \in heap /\ m \in Range(order)
    BY <1>0, <1>10, <2>1, PeekKnown DEF L0Spm
  <2>3. /\ cb' = cb /\ UNCHANGED <<order, stallMap, atL1>> /\ heap' = heap \ {m} /\ Stalled' = Stalled
        /\ toL1' = Append(toL1, m)
    BY <1>10, <2>1 DEF L0Spm, Dequeue, RemoveSelected, Stalled
  <2>4. toL1 \in Seq(1..N) /\ m \in 1..N /\ m \notin Range(toL1) /\ m \notin Stalled /\ IsInjective(toL1)
    BY <1>0, <2>1, <2>2 DEF Types, Typed, QueueTyped, Apart, Once
  <2>5. Range(toL1') = Range(toL1) \cup {m}
    <3>1. PICK s : s = toL1
      OBVIOUS
    <3>2. Range(Append(s, m)) = Range(s) \cup {m}
      <4>1. s \in Seq(1..N) /\ m \in 1..N /\ m \notin Range(s) /\ IsInjective(s)
        BY <2>4, <3>1
      <4> QED BY ONLY <4>1, AppendRange, Zenon
    <3> QED BY <2>3, <3>1, <3>2
  <2>6. Reached' = Reached
    BY <2>2, <2>3, <2>5 DEF Reached
  <2> QED BY <1>1, <2>3, <2>6, QuietAnswers
<1>11. CASE L0Stall \/ Tick \/ UNCHANGED vars
  <2>1. cb' = cb /\ UNCHANGED <<order, heap, stallMap, toL1, atL1>>
    BY <1>11 DEF L0Stall, TryIngressBypass, Tick, NextCycle, below, vars, queue
  <2>2. Reached' = Reached
    BY <2>1 DEF Reached, Stalled
  <2> QED BY <1>1, <2>1, <2>2, QuietAnswers
<1>12. CASE StallAndWait(i)
  <2>0. PICK m, k : m = Peek /\ k = req[i].at
    OBVIOUS
  <2>1. m \in heap
    BY <1>0, <1>12, <2>0, PeekKnown DEF StallAndWait
  <2>2. /\ cb' = cb /\ UNCHANGED <<order, toL1, atL1>> /\ heap' = heap \ {m}
        /\ stallMap' = stallMap \cup {<<m, k>>}
    BY <1>12, <2>0 DEF StallAndWait, StallMessage, RemoveSelected, below
  <2>3. Stalled' = Stalled \cup {m}
    <3>1. <<m, k>>[1] = m
      OBVIOUS
    <3>2. Stalled' = {w[1] : w \in stallMap \cup {<<m, k>>}}
      BY <2>2 DEF Stalled
    <3> QED BY <3>1, <3>2 DEF Stalled
  <2>4. Reached' = Reached
    BY <2>1, <2>2, <2>3 DEF Reached
  <2> QED BY <1>1, <2>2, <2>4, QuietAnswers
<1>13. CASE ServiceIngress
  <2>1. PICK ms, rest \in Seq(Nat) :
            /\ EnqueueAll(ms) /\ replays' = rest /\ UNCHANGED <<req, pend, table, cb>>
            /\ cb = NoCallback /\ IsInjective(ms) /\ IsInjective(rest)
            /\ Range(ms) \cup Range(rest) = Range(replays) /\ Range(ms) \cap Range(rest) = {}
    BY <1>0, <1>13, ReplaysSplit
  <2>2. Range(order) \cap Range(ms) = {} /\ UNCHANGED <<toL1, atL1>>
    BY <1>0, <1>13, <2>1 DEF Unsent, ServiceIngress, below
  <2>3. Reached' = Reached /\ Range(order) \subseteq Range(order')
    BY <1>0, <2>1, <2>2, EnqueueReached
  <2> QED BY <1>1, <2>1, <2>3, QuietAnswers
<1> QED BY <1>4, <1>5, <1>7, <1>8, <1>9, <1>10, <1>11, <1>12, <1>13

\* Between answers, a line holds exactly the stores accepted before its oldest
\* request in the table.
LEMMA LineStored ==
  ASSUME Ordered, History, Listed, cb.step # "hit", NEW k \in Lines, table[k] # <<>>,
         NEW h, h = Head(table[k]), NEW x \in Range(accepted)
  PROVE  /\ Wrote(x, k) => Bef(accepted, x, h)
         /\ WritesIn(req, x, k) /\ Bef(accepted, x, h) => Wrote(x, k)
<1>1. k \in Keys /\ x \in Ids /\ req \in Seq(Requests)
  BY RangeOfSeq DEF Keys, History, Ordered, Types
<1>2. WritesIn(req, x, k) => Kind(x) = "st" /\ req[x].at = k
  <2>1. req[x] \in Requests
    BY <1>1, ReqKnown DEF Ids
  <2> QED BY <2>1, SequencerAssumption, IngressAssumption DEF WritesIn, Kind, SpmWrites, SpmKinds
<1>3. h \in Range(table[k])
  <2>1. PICK N, t : N = Len(req) /\ t = table[k]
    OBVIOUS
  <2>2. t \in Seq(1..N) /\ t # <<>>
    BY <1>1, <2>1 DEF Ordered, Types, Typed
  <2> QED BY <2>1, <2>2, HeadFirst DEF Range
<1>4. ASSUME Wrote(x, k) PROVE Bef(accepted, x, h)
  <2>1. WritesIn(req, x, k)
    BY <1>4 DEF Wrote, WritesIn, Kind
  <2>2. x \in DOMAIN result /\ req[x].at = k
    BY <1>2, <1>4, <2>1 DEF Wrote, SpmWrites
  <2>3. x \notin LiveIn(table)
    BY <2>2 DEF History
  <2> QED BY <1>3, <2>2, <2>3 DEF Listed
<1>5. ASSUME WritesIn(req, x, k), Bef(accepted, x, h) PROVE Wrote(x, k)
  <2>1. x \in DOMAIN result
    <3>1. x \notin LiveIn(table)
      <4>1. ASSUME NEW l \in Keys, x \in Range(table[l]) PROVE FALSE
        <5>1. l = k
          BY <1>2, <1>5, <4>1 DEF Range, Ordered, Counted, Placed
        <5>2. x # h /\ ~ Bef(accepted, h, x)
          BY <1>5, BefOrder DEF History
        <5> QED BY <1>1, <4>1, <5>1, <5>2, ListFirst
      <4> QED BY <4>1 DEF LiveIn
    <3> QED BY <1>1, <3>1 DEF History, Unans
  <2> QED BY <1>2, <1>5, <2>1 DEF Wrote
<1> QED BY <1>4, <1>5

\* hitCallback answers the oldest request of its line.
LEMMA HitAnswers ==
  ASSUME Ordered, Transactions, Answers, HitCallback
  PROVE  Answers'
<1>0. PICK h, k, N : h = Leader /\ k = cb.at /\ N = Len(req)
  OBVIOUS
<1>1. /\ cb \in Callbacks(N) /\ cb # NoCallback /\ cb.step = "serve" /\ k \in Keys /\ table[k] # <<>>
      /\ h = Head(table[k]) /\ Served(h)
      /\ History /\ Listed /\ Stored /\ Exclusive /\ Serviced /\ RespGood /\ CbGood /\ ReadsGood
  BY <1>0 DEF HitCallback, Ordered, Types, Typed, Callbacks, NoCallback, Answers, Leader
<1>2. h \in LiveIn(table) /\ req[h].at = k /\ h \in Ids /\ h \in Range(accepted) /\ h \in Unans
  <2>1. h \in LiveIn(table) /\ req[h].at = k /\ h \in Ids
    BY <1>1, LeaderLive DEF Ids
  <2> QED BY <1>1, <2>1 DEF History, Unans
<1>3. req[h] \in Requests /\ \A x \in Range(accepted) : x \in Ids /\ req[x] \in Requests
  BY <1>1, <1>2, RangeOfSeq, ReqKnown DEF Ids, Ordered, Types, History
<1>4. /\ UNCHANGED <<req, order, heap, stallMap, pend, table, accepted, toL1, atL1, resp>>
      /\ store' = IF Kind(h) = "st" THEN [store EXCEPT ![k] = h] ELSE store
      /\ result' = Answer(h, IF Kind(h) = "spmld" THEN cb.val ELSE store[k])
  BY <1>0 DEF HitCallback, queue
<1>5. /\ DOMAIN result' = DOMAIN result \cup {h}
      /\ \A j \in DOMAIN result : result'[j] = result[j]
      /\ result'[h] = IF Kind(h) = "spmld" THEN cb.val ELSE store[k]
  BY <1>2, <1>4 DEF Answer, Unans
<1>6. /\ cb'.step = "hit" /\ cb' # NoCallback /\ cb'.at = k /\ cb'.msg = cb.msg /\ cb'.val = cb.val
      /\ cb'.by = cb.by /\ cb'.first = cb.first /\ cb'.write = cb.write /\ cb'.spm = cb.spm
  BY <1>0, <1>1 DEF HitCallback, Callbacks, NoCallback
<1>7. /\ Ids' = Ids /\ Unans' = Unans \ {h} /\ LiveIn(table') = LiveIn(table) /\ Reached' = Reached
      /\ \A x : Kind(x)' = Kind(x) /\ Reads(x)' = Reads(x) /\ Spm(x)' = Spm(x)
  BY <1>4, <1>5 DEF Ids, Unans, Reached, Stalled, Kind, Reads, Spm
<1>8. cb.first => h = cb.msg
  BY <1>0, <1>1 DEF Transactions, Serving
<1>9. Kind(h) \in SpmWrites => cb.first /\ h \in Range(order)
  <2>1. Kind(h) \in SpmWrites => ~ Reads(h) /\ Spm(h)
    BY DEF SpmWrites, Reads, Spm, SpmKinds
  <2>2. Kind(h) \in SpmWrites => cb.first /\ cb.by = "spm"
    BY <1>1, <1>8, <2>1 DEF Served, Serviced
  <2>3. cb.by = "spm" => cb.msg \notin Range(replays) /\ cb.msg \in Sent
    BY <1>1 DEF Transactions, Serving, Flight
  <2> QED BY <1>8, <2>2, <2>3 DEF Sent
<1>10. History'
  <2>1. ASSUME NEW j \in DOMAIN result', j \in LiveIn(table) PROVE j = h
    BY <1>1, <1>5, <2>1 DEF History
  <2>2. \A p \in Ports : pend[p] # h
    BY <1>1, <1>2 DEF History
  <2>3. Head(table'[cb'.at]) = h
    BY <1>1, <1>4, <1>6
  <2> QED BY <1>1, <1>2, <1>4, <1>5, <1>6, <1>7, <1>9, <2>1, <2>2, <2>3 DEF History
<1>11. Listed'
  BY <1>1, <1>4, <1>7 DEF Listed
<1>12. Kind(h) \in {"st", "ld", "if"} => k \in Lines
  BY <1>2, <1>3, RoutesAssumption DEF Kind
<1>13. Stored'
  <2>1. \A x \in Range(accepted) : \A l : Wrote(x, l)' <=> (Wrote(x, l) \/ (x = h /\ Kind(h) = "st" /\ l = k))
    BY <1>2, <1>4, <1>5, <1>7 DEF Wrote, SpmWrites
  <2>2. CASE Kind(h) # "st"
    BY <1>1, <1>4, <2>1, <2>2 DEF Stored
  <2>3. CASE Kind(h) = "st"
    <3>1. store'[k] = h /\ \A l \in Keys \ {k} : store'[l] = store[l]
      BY <1>1, <1>4, <2>3 DEF Ordered, Types, Typed
    <3>2. \A x \in Range(accepted) : Wrote(x, k) => Bef(accepted, x, h)
      BY <1>1, <1>12, <2>3, LineStored
    <3>3. ASSUME NEW l \in Keys, NEW w, w = store'[l]
          PROVE  \/ w = NoWriter /\ \A x \in Range(accepted) : ~ Wrote(x, l)'
                 \/ /\ w \in Range(accepted) /\ Wrote(w, l)'
                    /\ \A x \in Range(accepted) : Wrote(x, l)' => x = w \/ Bef(accepted, x, w)
      <4>1. CASE l = k
        BY <1>2, <2>1, <2>3, <3>1, <3>2, <3>3, <4>1
      <4>2. CASE l # k
        <5>1. w = store[l]
          BY <3>1, <3>3, <4>2
        <5>2. \/ w = NoWriter /\ \A x \in Range(accepted) : ~ Wrote(x, l)
              \/ /\ w \in Range(accepted) /\ Wrote(w, l)
                 /\ \A x \in Range(accepted) : Wrote(x, l) => x = w \/ Bef(accepted, x, w)
          BY <1>1, <5>1 DEF Stored
        <5> QED BY <2>1, <4>2, <5>2
      <4> QED BY <4>1, <4>2
    <3> QED BY <1>4, <3>3 DEF Stored
  <2> QED BY <2>2, <2>3
<1>14. Exclusive'
  <2>1. \A j \in Unans' : j \in Unans
    BY <1>7
  <2>2. ASSUME NEW j \in Unans' \cap Range(accepted), NEW w \in Range(accepted) \ Unans',
               Kind(j) \in SpmWrites, Kind(w) \in SpmWrites, "spmcp" \in {Kind(j), Kind(w)},
               req[j].slot = req[w].slot
        PROVE  Bef(accepted, w, j)
    <3>1. w # h
      BY <1>1, <1>2, <1>7, <2>2 DEF Exclusive
    <3> QED BY <1>1, <1>7, <2>2, <3>1 DEF Exclusive
  <2> QED BY <1>1, <1>4, <1>7, <2>1, <2>2 DEF Exclusive
<1>15. Serviced'
  <2>1. ~ cb.first => Kind(h) \notin SpmWrites
    BY <1>9
  <2>2. ~ cb.write => Reads(h)
    BY <1>1, <1>8 DEF Served, Serviced
  <2> QED BY <1>1, <1>4, <1>6, <1>7, <2>1, <2>2 DEF Serviced
<1>16. \A v, s : GoodIn(v, s)' <=> GoodIn(v, s)
  BY <1>4, <1>7 DEF GoodIn, Leading
<1>17. RespGood'
  BY <1>1, <1>4, <1>7, <1>16 DEF RespGood
<1>18. CbGood'
  <2>1. Loaded' <=> Loaded
    BY <1>1, <1>6 DEF Loaded
  <2>2. ~ CopyIn(accepted, req, h, k)
    BY <1>2, <1>3, RoutesAssumption, SequencerAssumption, IngressAssumption DEF CopyIn, SpmKinds
  <2> QED BY <1>0, <1>1, <1>4, <1>5, <1>6, <1>16, <2>1, <2>2 DEF CbGood
<1>19. ASSUME Kind(h) \in {"ld", "if"} PROVE LastFor(accepted, req, result'[h], h, k)
  <2>1. PICK w : w = store[k] /\ result'[h] = w
    BY <1>5, <1>19
  <2>2. \/ w = NoWriter /\ \A x \in Range(accepted) : ~ Wrote(x, k)
        \/ /\ w \in Range(accepted) /\ Wrote(w, k)
           /\ \A x \in Range(accepted) : Wrote(x, k) => x = w \/ Bef(accepted, x, w)
    BY <1>1, <2>1 DEF Stored
  <2>3. \A x \in Range(accepted) : /\ Wrote(x, k) => Bef(accepted, x, h)
                                   /\ WritesIn(req, x, k) /\ Bef(accepted, x, h) => Wrote(x, k)
    BY <1>1, <1>12, <1>19, LineStored
  <2>4. Wrote(w, k) => WritesIn(req, w, k)
    BY DEF Wrote, WritesIn, Kind
  <2> QED BY <2>1, <2>2, <2>3, <2>4 DEF LastFor
<1>20. ASSUME Kind(h) = "spmld" PROVE Good(accepted, req, result'[h], h)
  <2>1. Reads(h) /\ Spm(h) /\ result'[h] = cb.val
    BY <1>5, <1>20 DEF Reads, Spm, SpmKinds
  <2>2. Loaded
    <3>1. ~ cb.write
      BY <1>1, <1>8, <2>1 DEF Served, Serviced
    <3>2. req[h].at = req[h].slot /\ k \in Slots
      BY <1>2, <1>3, <1>20, RoutesAssumption, SequencerAssumption DEF Kind, SpmKinds
    <3>3. cb.msg \in Ids /\ req[cb.msg].at = k
      BY <1>0, <1>1 DEF Transactions, Serving, Ids, Callbacks
    <3>4. Spm(cb.msg)
      BY <3>2, <3>3, SlotKinds DEF Ordered, Types, Spm, SpmKinds
    <3>5. cb.by = "spm"
      BY <1>1, <3>4 DEF Serviced
    <3> QED BY <1>1, <3>1, <3>5 DEF Loaded
  <2>3. PICK t : t = table[k]
    OBVIOUS
  <2>4. t \in Seq(1..N) /\ t # <<>>
    BY <1>0, <1>1, <2>3 DEF Ordered, Types, Typed
  <2>5. 1 \in DOMAIN t /\ t[1] = h
    BY <1>1, <2>3, <2>4, HeadFirst
  <2>6. Leading(k, 1)
    BY <2>1, <2>3, <2>5 DEF Leading
  <2> QED BY <1>0, <1>1, <2>1, <2>2, <2>3, <2>5, <2>6 DEF CbGood, GoodIn
<1>21. ReadsGood'
  BY <1>1, <1>2, <1>4, <1>5, <1>7, <1>19, <1>20 DEF ReadsGood
<1> QED BY <1>10, <1>11, <1>13, <1>14, <1>15, <1>17, <1>18, <1>21 DEF Answers

\* pop_front: the answered request leaves its list.
LEMMA PopAnswers ==
  ASSUME Ordered, Transactions, Answers, PopFront
  PROVE  Answers'
<1>0. PICK N, t, u, k, h : N = Len(req) /\ t = table /\ u = table' /\ k = cb.at /\ h = Head(table[cb.at])
  OBVIOUS
<1>1. /\ N \in Nat /\ t \in [Keys -> Seq(1..N)] /\ k \in Keys /\ t[k] # <<>> /\ h = Head(t[k])
      /\ cb \in Callbacks(N) /\ cb # NoCallback /\ cb.step = "hit"
      /\ History /\ Listed /\ Stored /\ Exclusive /\ Serviced /\ RespGood /\ CbGood /\ ReadsGood
  BY <1>0, LenProperties DEF Ordered, Types, Typed, PopFront, Callbacks, NoCallback, Answers
<1>2. /\ UNCHANGED <<req, order, heap, stallMap, pend, accepted, toL1, atL1, resp, store, result>>
      /\ u = [t EXCEPT ![k] = Tail(@)]
  BY <1>0 DEF PopFront, queue, core, below
<1>3. /\ cb'.at = k /\ cb'.by = cb.by /\ cb'.msg = cb.msg /\ cb' # NoCallback /\ cb'.val = cb.val
      /\ cb'.step = "serve" /\ cb'.write = cb.write /\ cb'.spm = cb.spm
  BY <1>0, <1>1 DEF PopFront, Callbacks, NoCallback
<1>4. /\ Ids' = Ids /\ Unans' = Unans /\ Reached' = Reached
      /\ \A x : Kind(x)' = Kind(x) /\ Reads(x)' = Reads(x) /\ Spm(x)' = Spm(x)
  BY <1>2 DEF Ids, Unans, Reached, Stalled, Kind, Reads, Spm
<1>5. PICK l : /\ l = Len(t[k]) /\ l \in Nat \ {0} /\ DOMAIN t[k] = 1..l /\ h = t[k][1]
               /\ u[k] = Tail(t[k]) /\ DOMAIN u[k] = 1..(l - 1)
               /\ \A n \in 1..(l - 1) : u[k][n] = t[k][n + 1]
               /\ \A j \in Keys \ {k} : u[j] = t[j]
  <2>1. t[k] \in Seq(1..N) /\ u[k] = Tail(t[k]) /\ \A j \in Keys \ {k} : u[j] = t[j]
    BY <1>1, <1>2
  <2>2. PICK s : s = t[k]
    OBVIOUS
  <2>3. s \in Seq(1..N) /\ s # <<>>
    BY <1>1, <2>1, <2>2
  <2>4. /\ Len(s) \in Nat \ {0} /\ DOMAIN s = 1..Len(s) /\ Head(s) = s[1]
        /\ DOMAIN Tail(s) = 1..(Len(s) - 1)
        /\ \A n \in 1..(Len(s) - 1) : Tail(s)[n] = s[n + 1]
    BY ONLY <2>3, HeadTailProperties, LenProperties, EmptySeq
  <2> QED BY <1>1, <2>1, <2>2, <2>4
<1>6. /\ Range(u[k]) = Range(t[k]) \ {h} /\ h \in Range(t[k])
  <2>1. t[k] \in Seq(1..N) /\ t[k] # <<>> /\ IsInjective(t[k])
    BY <1>0, <1>1 DEF Ordered, Counted, Placed
  <2> QED BY ONLY <1>1, <1>5, <2>1, TailRange, Zenon
<1>7. LiveIn(u) = LiveIn(t) \ {h}
  <2>1. \A j \in Keys \ {k} : h \notin Range(t[j])
    <3>1. \A j \in Keys : h \in Range(t[j]) => req[h].at = j
      BY <1>0 DEF Range, Ordered, Counted, Placed
    <3> QED BY <1>1, <1>6, <3>1
  <2>2. ASSUME NEW x \in LiveIn(u) PROVE x \in LiveIn(t) \ {h}
    <3>1. PICK j \in Keys : x \in Range(u[j])
      BY DEF LiveIn
    <3>2. x \in Range(t[j]) /\ x # h
      BY <1>5, <1>6, <2>1, <3>1
    <3> QED BY <3>2 DEF LiveIn
  <2>3. ASSUME NEW x \in LiveIn(t), x # h PROVE x \in LiveIn(u)
    <3>1. PICK j \in Keys : x \in Range(t[j])
      BY DEF LiveIn
    <3>2. x \in Range(u[j])
      BY <1>5, <1>6, <2>3, <3>1
    <3> QED BY <3>2 DEF LiveIn
  <2> QED BY <2>2, <2>3
<1>8. h \in DOMAIN result /\ h \in Range(accepted) /\ req[h].at = k
  <2>1. h \in LiveIn(table) /\ req[h].at = k
    BY <1>0, <1>1, LeaderLive
  <2> QED BY <1>0, <1>1, <2>1 DEF History
<1>9. History'
  <2>1. ASSUME NEW i \in DOMAIN result PROVE i \notin LiveIn(u)
    BY <1>0, <1>1, <1>7 DEF History
  <2>2. \A i \in Unans : i # h
    BY <1>8 DEF Unans
  <2>3. LiveIn(u) \subseteq LiveIn(t) /\ \A i \in LiveIn(t) : i # h => i \in LiveIn(u)
    BY <1>7
  <2> QED BY <1>0, <1>1, <1>2, <1>3, <1>4, <2>1, <2>2, <2>3 DEF History
<1>10. \A j \in Range(u[k]) : Bef(accepted, h, j)
  BY <1>0, <1>1, <1>6, ListFirst
<1>11. Listed'
  <2>1. ASSUME NEW j \in Keys, NEW m \in DOMAIN u[j], NEW n \in DOMAIN u[j], m < n
        PROVE  Bef(accepted, u[j][m], u[j][n])
    <3>1. CASE j = k
      <4>1. m + 1 \in DOMAIN t[k] /\ n + 1 \in DOMAIN t[k] /\ m + 1 < n + 1
            /\ u[k][m] = t[k][m + 1] /\ u[k][n] = t[k][n + 1]
        <5>1. m \in 1..(l - 1) /\ n \in 1..(l - 1)
          BY <1>5, <2>1, <3>1
        <5> QED BY <1>5, <2>1, <5>1
      <4> QED BY <1>0, <1>1, <3>1, <4>1 DEF Listed
    <3>2. CASE j # k
      BY <1>0, <1>1, <1>5, <2>1, <3>2 DEF Listed
    <3> QED BY <3>1, <3>2
  <2>2. ASSUME NEW i \in Range(accepted), i \notin LiveIn(u), NEW j \in Range(u[req[i].at])
        PROVE  Bef(accepted, i, j)
    <3>1. CASE i = h
      BY <1>8, <1>10, <2>2, <3>1
    <3>2. CASE i # h
      <4>1. i \notin LiveIn(t)
        BY <1>7, <2>2, <3>2
      <4>2. req[i].at \in Keys
        <5>1. i \in Ids
          BY <1>1, RangeOfSeq DEF History
        <5> QED BY <5>1, ReqKnown DEF Ids, Ordered, Types
      <4>3. j \in Range(t[req[i].at])
        BY <1>5, <1>6, <2>2, <4>2
      <4> QED BY <1>0, <1>1, <4>1, <4>3 DEF Listed
    <3> QED BY <3>1, <3>2
  <2> QED BY <1>0, <1>2, <2>1, <2>2 DEF Listed
<1>12. Stored'
  <2>1. \A x, j : Wrote(x, j)' <=> Wrote(x, j)
    BY <1>2, <1>4 DEF Wrote
  <2> QED BY <1>1, <1>2, <2>1 DEF Stored
<1>13. Exclusive' /\ Serviced' /\ ReadsGood'
  <2>1. Exclusive'
    BY <1>1, <1>2, <1>4 DEF Exclusive
  <2>2. Serviced'
    BY <1>1, <1>3, <1>4 DEF Serviced
  <2>3. ReadsGood'
    BY <1>1, <1>2, <1>4 DEF ReadsGood
  <2> QED BY <2>1, <2>2, <2>3
<1>14. RespGood'
  <2>1. ASSUME NEW j \in DOMAIN resp, Kind(resp[j].msg) = "spmld"
        PROVE  \A v : GoodIn(v, req[resp[j].msg].at)' <=> GoodIn(v, req[resp[j].msg].at)
    <3>1. PICK i, s : i = resp[j].msg /\ s = req[i].at
      OBVIOUS
    <3>2. i \in Flight /\ Spm(i)
      BY <2>1, <3>1 DEF Flight, RespMsgs, Spm, SpmKinds
    <3>3. s # k /\ s \in Keys
      BY <1>0, <1>1, <3>1, <3>2, SpmLeads
    <3>4. table'[s] = table[s]
      BY <1>0, <1>5, <3>3
    <3>5. \A v : GoodIn(v, s)' <=> GoodIn(v, s)
      BY <1>2, <1>4, <3>4 DEF GoodIn, Leading
    <3> QED BY <1>2, <3>1, <3>5
  <2> QED BY <1>1, <1>2, <1>4, <2>1 DEF RespGood
<1>15. CbGood'
  <2> SUFFICES ASSUME Loaded' PROVE CbGood'
    BY DEF CbGood
  <2>1. Loaded /\ Reads(h)
    BY <1>0, <1>1, <1>3 DEF Loaded, Serviced
  <2>2. ASSUME NEW n \in 1..(l - 1), \A m \in 1..n : Reads(u[k][m])
        PROVE  Good(accepted, req, cb.val, u[k][n])
    <3>1. n + 1 \in 1..l /\ u[k][n] = t[k][n + 1]
      BY <1>5
    <3>2. ASSUME NEW m \in 1..(n + 1) PROVE Reads(t[k][m])
      <4>1. CASE m = 1
        BY <1>5, <2>1, <4>1
      <4>2. CASE m # 1
        <5>1. m - 1 \in 1..n /\ m - 1 \in 1..(l - 1) /\ (m - 1) + 1 = m
          BY <1>5, <2>2, <4>2
        <5> QED BY <1>5, <2>2, <5>1
      <4> QED BY <4>1, <4>2
    <3>3. Leading(k, n + 1)
      BY <1>0, <3>2 DEF Leading
    <3> QED BY <1>0, <1>1, <1>5, <2>1, <3>1, <3>3 DEF CbGood, GoodIn
  <2>3. GoodIn(cb.val, k)'
    BY <1>0, <1>2, <1>3, <1>4, <1>5, <2>2 DEF GoodIn, Leading
  <2>4. ASSUME u[k] # <<>>, NEW c \in Range(accepted) \cap DOMAIN result, CopyIn(accepted, req, c, k),
               Bef(accepted, Head(u[k]), c)
        PROVE  NotOlder(accepted, req, cb.val, c)
    <3>1. Head(u[k]) \in Range(u[k])
      <4>1. PICK s : s = u[k]
        OBVIOUS
      <4>2. s \in Seq(1..N) /\ s # <<>>
        BY <1>1, <1>5, <2>4, <4>1, HeadTailProperties
      <4> QED BY <4>1, <4>2, HeadFirst DEF Range
    <3>2. Bef(accepted, h, c)
      BY <1>1, <1>10, <2>4, <3>1, BefOrder DEF History
    <3> QED BY <1>0, <1>1, <2>1, <2>4, <3>2 DEF CbGood
  <2> QED BY <1>0, <1>2, <1>3, <2>3, <2>4 DEF CbGood
<1> QED BY <1>9, <1>11, <1>12, <1>13, <1>14, <1>15 DEF Answers

\* The array serves request i; its response enters the buffer.
LEMMA ArrayAnswers ==
  ASSUME Ordered, Transactions, Answers, NEW i \in Flight, Spm(i), i \notin Reached,
         UNCHANGED <<req, order, pend, accepted, table, cb, result>>, Reached' = Reached \cup {i},
         NEW v, resp' = Append(resp, [msg |-> i, val |-> v]),
         \/ Kind(i) \in SpmWrites /\ store' = [store EXCEPT ![req[i].slot] = i]
         \/ Kind(i) = "spmld" /\ store' = store /\ v = store[req[i].at]
  PROVE  Answers'
<1>1. /\ History /\ Listed /\ Stored /\ Exclusive /\ Serviced /\ RespGood /\ CbGood /\ ReadsGood
      /\ Types
  BY DEF Answers, Ordered
<1>2. /\ i \in Ids /\ i \in Range(accepted) /\ i \in Unans /\ req[i].slot \in Keys
      /\ Kind(i) = "spmld" => Kind(i) \notin SpmWrites
  <2>1. i \in Ids /\ i \in Range(accepted) /\ i \in Unans
    BY <1>1, SpmLeads
  <2> QED BY <1>1, <2>1, ReqKnown DEF Types, Ids, SpmWrites
<1>3. /\ Ids' = Ids /\ Unans' = Unans /\ LiveIn(table') = LiveIn(table)
      /\ \A x : Kind(x)' = Kind(x) /\ Reads(x)' = Reads(x) /\ Spm(x)' = Spm(x)
  BY DEF Ids, Unans, Kind, Reads, Spm
<1>4. History' /\ Listed'
  <2>1. History'
    BY <1>1, <1>3 DEF History
  <2>2. Listed'
    BY <1>1, <1>3 DEF Listed
  <2> QED BY <2>1, <2>2
<1>5. Exclusive' /\ Serviced' /\ ReadsGood'
  <2>1. Exclusive'
    BY <1>1, <1>3 DEF Exclusive
  <2>2. Serviced'
    BY <1>1, <1>3 DEF Serviced
  <2>3. ReadsGood'
    BY <1>1, <1>3 DEF ReadsGood
  <2> QED BY <2>1, <2>2, <2>3
<1>6. \A w, s : GoodIn(w, s)' <=> GoodIn(w, s)
  BY <1>3 DEF GoodIn, Leading
<1>7. CbGood'
  BY <1>1, <1>6 DEF CbGood, Loaded
<1>8. Stored'
  <2>1. \A x \in Range(accepted) : \A l :
           Wrote(x, l)' <=> (Wrote(x, l) \/ (x = i /\ Kind(i) \in SpmWrites /\ l = req[i].slot))
    BY <1>2, <1>3 DEF Wrote, SpmWrites
  <2>2. CASE Kind(i) \notin SpmWrites
    BY <1>1, <2>1, <2>2 DEF Stored
  <2>3. CASE Kind(i) \in SpmWrites
    <3>0. PICK k : k = req[i].slot
      OBVIOUS
    <3>1. store'[k] = i /\ \A l \in Keys \ {k} : store'[l] = store[l]
      BY <1>1, <1>2, <2>3, <3>0 DEF Types, Typed
    <3>2. \A x \in Range(accepted) : Wrote(x, k) => Bef(accepted, x, i)
      BY <1>1, <2>3, <3>0, WriteLast
    <3>3. ASSUME NEW l \in Keys, NEW w, w = store'[l]
          PROVE  \/ w = NoWriter /\ \A x \in Range(accepted) : ~ Wrote(x, l)'
                 \/ /\ w \in Range(accepted) /\ Wrote(w, l)'
                    /\ \A x \in Range(accepted) : Wrote(x, l)' => x = w \/ Bef(accepted, x, w)
      <4>1. CASE l = k
        BY <1>2, <2>1, <2>3, <3>0, <3>1, <3>2, <3>3, <4>1
      <4>2. CASE l # k
        <5>1. w = store[l]
          BY <3>1, <3>3, <4>2
        <5>2. \/ w = NoWriter /\ \A x \in Range(accepted) : ~ Wrote(x, l)
              \/ /\ w \in Range(accepted) /\ Wrote(w, l)
                 /\ \A x \in Range(accepted) : Wrote(x, l) => x = w \/ Bef(accepted, x, w)
          BY <1>1, <5>1 DEF Stored
        <5> QED BY <2>1, <3>0, <4>2, <5>2
      <4> QED BY <4>1, <4>2
    <3> QED BY <3>3 DEF Stored
  <2> QED BY <2>2, <2>3
<1>9. PICK s, u, e, n : s = resp /\ u = resp' /\ e = [msg |-> i, val |-> v] /\ n = Len(resp)
  OBVIOUS
<1>10. /\ n \in Nat /\ DOMAIN s = 1..n /\ DOMAIN u = 1..(n + 1) /\ u[n + 1] = e /\ e.msg = i /\ e.val = v
       /\ \A k \in 1..n : u[k] = s[k]
  <2>1. s \in Seq([msg : 1..Len(req), val : Nat]) /\ u = Append(s, e)
    BY <1>1, <1>9 DEF Types, Typed
  <2>2. s \in Seq(Range(s) \cup {e}) /\ n = Len(s)
    BY <1>9, <2>1 DEF Range
  <2>3. PICK T : T = Range(s) \cup {e}
    OBVIOUS
  <2>4. s \in Seq(T) /\ e \in T
    BY <2>2, <2>3
  <2> QED BY ONLY <2>1, <2>2, <2>4, <1>9, AppendProperties, LenProperties
<1>11. ASSUME NEW k \in 1..n, Kind(s[k].msg) = "spmld"
       PROVE  /\ GoodIn(s[k].val, req[s[k].msg].at)
              /\ \A c \in Range(accepted) :
                    /\ CopyIn(accepted, req, c, req[s[k].msg].at)
                    /\ Bef(accepted, s[k].msg, c) /\ c \in Reached'
                    => \/ \E l \in DOMAIN u : l > k /\ u[l].msg = c
                       \/ NotOlder(accepted, req, s[k].val, c)
  <2>1. GoodIn(s[k].val, req[s[k].msg].at)
    BY <1>1, <1>9, <1>10, <1>11 DEF RespGood
  <2>2. ASSUME NEW c \in Range(accepted), CopyIn(accepted, req, c, req[s[k].msg].at),
               Bef(accepted, s[k].msg, c), c \in Reached'
        PROVE  \/ \E l \in DOMAIN u : l > k /\ u[l].msg = c
               \/ NotOlder(accepted, req, s[k].val, c)
    <3>1. CASE c = i
      <4>1. n + 1 \in DOMAIN u /\ n + 1 > k /\ u[n + 1].msg = c
        BY <1>10, <3>1
      <4> QED BY <4>1
    <3>2. CASE c # i
      <4>1. c \in Reached
        BY <2>2, <3>2
      <4>2. (\E l \in 1..n : l > k /\ s[l].msg = c) \/ NotOlder(accepted, req, s[k].val, c)
        BY <1>1, <1>9, <1>10, <1>11, <2>2, <4>1 DEF RespGood
      <4>3. \A l \in 1..n : l \in DOMAIN u /\ u[l] = s[l]
        BY <1>10
      <4> QED BY <4>2, <4>3
    <3> QED BY <3>1, <3>2
  <2> QED BY <2>1, <2>2
<1>12. ASSUME Kind(i) = "spmld"
       PROVE  /\ GoodIn(v, req[i].at)
              /\ \A c \in Range(accepted) :
                    CopyIn(accepted, req, c, req[i].at) /\ Bef(accepted, i, c) /\ c \in Reached'
                    => NotOlder(accepted, req, v, c)
  <2>1. v = store[req[i].at]
    BY <1>2, <1>12
  <2>2. \A c : CopyIn(accepted, req, c, req[i].at) => c # i
    BY <1>12 DEF CopyIn, Kind
  <2> QED BY <1>1, <1>12, <2>1, <2>2, StoreGood DEF GoodIn
<1>13. RespGood'
  <2>1. \A k \in DOMAIN u : k \in 1..n \/ k = n + 1
    BY <1>10
  <2>2. ASSUME NEW k \in DOMAIN u, Kind(u[k].msg) = "spmld"
        PROVE  /\ GoodIn(u[k].val, req[u[k].msg].at)
               /\ \A c \in Range(accepted) :
                    /\ CopyIn(accepted, req, c, req[u[k].msg].at)
                    /\ Bef(accepted, u[k].msg, c) /\ c \in Reached'
                    => \/ \E l \in DOMAIN u : l > k /\ u[l].msg = c
                       \/ NotOlder(accepted, req, u[k].val, c)
    <3>1. CASE k \in 1..n
      BY <1>10, <1>11, <2>2, <3>1
    <3>2. CASE k = n + 1
      BY <1>10, <1>12, <2>2, <3>2
    <3> QED BY <2>1, <3>1, <3>2
  <2> QED BY <1>3, <1>6, <1>9, <2>2 DEF RespGood
<1> QED BY <1>4, <1>5, <1>7, <1>8, <1>13 DEF Answers

\* Only copies are fetched by the L1.
Copies == \A i \in atL1 : Kind(i) = "spmcp"

\* The steps of the L1 and the private array.
LEMMA L1Answers ==
  ASSUME Ordered, Transactions, Copies, Answers, NEW j, L1Take \/ L1Install(j)
  PROVE  Answers'
<1>1. Apart /\ Once /\ Lanes /\ Types
  BY DEF Transactions, Ordered
<1>2. /\ UNCHANGED <<req, order, heap, stallMap, pend, accepted, table, cb, result>> /\ Stalled' = Stalled
  BY DEF L1Take, L1Install, queue, core, admission, Stalled
<1>3. CASE L1Install(j)
  <2>1. /\ j \in atL1 /\ atL1' = atL1 \ {j} /\ toL1' = toL1 /\ Kind(j) \in SpmWrites
        /\ resp' = Append(resp, [msg |-> j, val |-> NoWriter])
        /\ store' = [store EXCEPT ![req[j].slot] = j]
    BY <1>3 DEF L1Install, Copies, SpmWrites
  <2>2. j \in Flight /\ Spm(j) /\ j \notin Reached
    BY <1>1, <2>1 DEF Flight, Lanes, Reached
  <2>3. Reached' = Reached \cup {j}
    BY <1>1, <1>2, <2>1 DEF Reached, Apart, Lanes
  <2> QED BY <1>2, <2>1, <2>2, <2>3, ArrayAnswers
<1>4. CASE L1Take
  <2>0. PICK i, N : i = Head(toL1) /\ N = Len(req)
    OBVIOUS
  <2>1. i \in Range(toL1) /\ i \notin atL1 /\ Range(toL1') = Range(toL1) \ {i}
    <3>1. toL1 \in Seq(1..N) /\ toL1 # <<>> /\ IsInjective(toL1) /\ toL1' = Tail(toL1)
      BY <1>1, <1>4, <2>0 DEF L1Take, Types, Typed, Once
    <3>2. PICK s : s = toL1
      OBVIOUS
    <3>3. /\ Head(s) \in Range(s) /\ Range(Tail(s)) = Range(s) \ {Head(s)} /\ IsInjective(Tail(s))
      BY ONLY <3>1, <3>2, TailRange
    <3> QED BY <1>1, <2>0, <3>1, <3>2, <3>3 DEF Apart
  <2>2. i \in Flight /\ Spm(i) /\ i \notin Reached
    BY <1>1, <2>1 DEF Flight, Lanes, Reached
  <2>3. CASE Kind(i) = "spmcp"
    <3>1. atL1' = atL1 \cup {i} /\ UNCHANGED <<resp, store>>
      BY <1>4, <2>0, <2>3 DEF L1Take
    <3>2. Reached' = Reached
      BY <1>2, <2>1, <3>1 DEF Reached
    <3> QED BY <1>2, <3>1, <3>2, QuietAnswers
  <2>4. CASE Kind(i) # "spmcp"
    <3>1. atL1' = atL1 /\ Kind(i) \in {"spmst", "spmld"}
      BY <1>4, <2>0, <2>2, <2>4 DEF L1Take, Spm, SpmKinds
    <3>2. Reached' = Reached \cup {i}
      BY <1>1, <1>2, <2>1, <3>1 DEF Reached, Apart, Lanes
    <3>3. CASE Kind(i) = "spmst"
      <4>1. /\ resp' = Append(resp, [msg |-> i, val |-> NoWriter])
            /\ store' = [store EXCEPT ![req[i].slot] = i] /\ Kind(i) \in SpmWrites
        BY <1>4, <2>0, <3>3 DEF L1Take, SpmWrites
      <4> QED BY <1>2, <2>2, <3>2, <4>1, ArrayAnswers
    <3>4. CASE Kind(i) = "spmld"
      <4>1. /\ resp' = Append(resp, [msg |-> i, val |-> store[req[i].slot]]) /\ store' = store
        BY <1>4, <2>0, <3>4 DEF L1Take
      <4>2. req[i].slot = req[i].at
        <5>1. i \in 1..Len(req)
          BY <1>1, <2>2, FlightSent
        <5>2. req[i] \in Requests
          BY <1>1, <5>1, ReqKnown DEF Types
        <5> QED BY <3>4, <5>2, RoutesAssumption DEF Kind
      <4> QED BY <1>2, <2>2, <3>2, <3>4, <4>1, <4>2, ArrayAnswers
    <3> QED BY <3>1, <3>3, <3>4
  <2> QED BY <2>3, <2>4
<1> QED BY <1>3, <1>4

\* The L0 takes a response: its callback starts.
LEMMA ResponseAnswers ==
  ASSUME Ordered, Transactions, Answers, NEW k \in DOMAIN resp, SpmResponse(k)
  PROVE  Answers'
<1>0. PICK i, s, u : i = resp[k].msg /\ s = resp /\ u = resp'
  OBVIOUS
<1>1. /\ UNCHANGED <<req, order, heap, stallMap, toL1, atL1, pend, accepted, table, store, result>>
      /\ cb = NoCallback /\ u = RemoveAt(s, k)
      /\ cb'.at = req[i].at /\ cb'.msg = i /\ cb'.val = s[k].val /\ cb'.write = ~ Reads(i)
      /\ cb'.spm = Spm(i) /\ cb'.step = "serve" /\ cb'.by = "spm"
  BY <1>0 DEF SpmResponse, Callback, RemoveAt, queue, core, admission
<1>2. /\ History /\ Listed /\ Stored /\ Exclusive /\ Serviced /\ RespGood /\ ReadsGood
      /\ Types /\ Once /\ cb.step # "hit"
  BY <1>1 DEF Answers, Ordered, Transactions, NoCallback
<1>3. /\ i \in Flight /\ Spm(i) /\ i \in RespMsgs
  BY <1>0 DEF Flight, RespMsgs, Transactions, Lanes
<1>4. /\ Ids' = Ids /\ Unans' = Unans /\ LiveIn(table') = LiveIn(table) /\ Reached' = Reached
      /\ \A x : Kind(x)' = Kind(x) /\ Reads(x)' = Reads(x) /\ Spm(x)' = Spm(x)
  BY <1>1 DEF Ids, Unans, Reached, Stalled, Kind, Reads, Spm
<1>5. History' /\ Listed'
  <2>1. History'
    BY <1>1, <1>2, <1>4 DEF History
  <2>2. Listed'
    BY <1>1, <1>2, <1>4 DEF Listed
  <2> QED BY <2>1, <2>2
<1>6. Stored'
  <2>1. \A x, j : Wrote(x, j)' <=> Wrote(x, j)
    BY <1>1, <1>4 DEF Wrote
  <2> QED BY <1>1, <1>2, <2>1 DEF Stored
<1>7. Exclusive' /\ Serviced' /\ ReadsGood'
  <2>1. Exclusive'
    BY <1>1, <1>2, <1>4 DEF Exclusive
  <2>2. Serviced'
    BY <1>1, <1>3, <1>4 DEF Serviced
  <2>3. ReadsGood'
    BY <1>1, <1>2, <1>4 DEF ReadsGood
  <2> QED BY <2>1, <2>2, <2>3
<1>8. \A v, a : GoodIn(v, a)' <=> GoodIn(v, a)
  BY <1>1, <1>4 DEF GoodIn, Leading
<1>9. /\ \A m \in DOMAIN u : \E j \in DOMAIN s \ {k} :
            /\ u[m] = s[j]
            /\ \A l \in DOMAIN s \ {k} : l > j => \E n \in DOMAIN u : n > m /\ u[n] = s[l]
  <2>1. PICK S : S = [msg : 1..Len(req), val : Nat]
    OBVIOUS
  <2>2. /\ s \in Seq(S) /\ k \in DOMAIN s /\ u = RemoveAt(s, k)
        /\ \A j, l \in DOMAIN s : s[j].msg = s[l].msg => j = l
    BY <1>0, <1>1, <1>2, <2>1 DEF Types, Typed, Once
  <2> QED BY ONLY <2>2, RespRemove
<1>10. \A c : Kind(c) = "spmcp" /\ s[k].msg = c => k = 1
  BY <1>0 DEF SpmResponse, Reads
<1>11. DOMAIN s \subseteq Nat \ {0}
  BY <1>0, <1>2, LenProperties DEF Types, Typed
<1>12. RespGood'
  <2>1. ASSUME NEW m \in DOMAIN u, Kind(u[m].msg) = "spmld"
        PROVE  /\ GoodIn(u[m].val, req[u[m].msg].at)
               /\ \A c \in Range(accepted) :
                    /\ CopyIn(accepted, req, c, req[u[m].msg].at)
                    /\ Bef(accepted, u[m].msg, c) /\ c \in Reached
                    => \/ \E l \in DOMAIN u : l > m /\ u[l].msg = c
                       \/ NotOlder(accepted, req, u[m].val, c)
    <3>1. PICK j \in DOMAIN s \ {k} :
            /\ u[m] = s[j]
            /\ \A l \in DOMAIN s \ {k} : l > j => \E n \in DOMAIN u : n > m /\ u[n] = s[l]
      BY <1>9
    <3>2. GoodIn(s[j].val, req[s[j].msg].at)
      BY <1>0, <1>2, <2>1, <3>1 DEF RespGood
    <3>3. ASSUME NEW c \in Range(accepted), CopyIn(accepted, req, c, req[s[j].msg].at),
                 Bef(accepted, s[j].msg, c), c \in Reached
          PROVE  \/ \E l \in DOMAIN u : l > m /\ u[l].msg = c
                 \/ NotOlder(accepted, req, s[j].val, c)
      <4>1. \/ \E l \in DOMAIN s : l > j /\ s[l].msg = c
            \/ NotOlder(accepted, req, s[j].val, c)
        BY <1>0, <1>2, <2>1, <3>1, <3>3 DEF RespGood
      <4>2. ASSUME NEW l \in DOMAIN s, l > j, s[l].msg = c
            PROVE  \E n \in DOMAIN u : n > m /\ u[n].msg = c
        <5>1. l # k
          BY <1>10, <1>11, <3>1, <3>3, <4>2 DEF CopyIn, Kind
        <5>2. PICK n \in DOMAIN u : n > m /\ u[n] = s[l]
          BY <3>1, <4>2, <5>1
        <5> QED BY <4>2, <5>2
      <4> QED BY <4>1, <4>2
    <3> QED BY <3>1, <3>2, <3>3
  <2> QED BY <1>0, <1>1, <1>4, <1>8, <2>1 DEF RespGood
<1>13. CbGood'
  <2> SUFFICES ASSUME Loaded' PROVE CbGood'
    BY DEF CbGood
  <2>1. Kind(s[k].msg) = "spmld" /\ Head(table[req[i].at]) = i
    <3>1. Reads(i)
      BY <1>1 DEF Loaded
    <3> QED BY <1>0, <1>2, <1>3, <3>1, SpmLeads DEF Reads, Spm, SpmKinds
  <2>2. GoodIn(s[k].val, req[i].at)
    BY <1>0, <1>2, <2>1 DEF RespGood
  <2>3. ASSUME NEW c \in Range(accepted) \cap DOMAIN result, CopyIn(accepted, req, c, req[i].at),
               Bef(accepted, i, c)
        PROVE  NotOlder(accepted, req, s[k].val, c)
    <3>1. c \in Reached /\ c \notin Flight
      BY <1>2, <2>3, OwnReached DEF CopyIn, Kind, SpmWrites
    <3>2. ~ \E l \in DOMAIN s : l > k /\ s[l].msg = c
      BY <1>0, <3>1 DEF Flight, RespMsgs
    <3> QED BY <1>0, <1>2, <2>1, <2>3, <3>1, <3>2 DEF RespGood
  <2> QED BY <1>1, <1>8, <2>1, <2>2, <2>3 DEF CbGood
<1> QED BY <1>5, <1>6, <1>7, <1>12, <1>13 DEF Answers

\* What makeRequest does with request i of port p: if it is accepted, it is
\* the last of all; a prefetch may be dropped.
Joins(p, i, r) ==
    /\ Ids' = Ids \cup {i} /\ req'[i] = r /\ \A j \in Ids : req'[j] = req[j]
    /\ i \notin Range(accepted) /\ i \notin DOMAIN result /\ i \notin Sent /\ i # NoMsg
    /\ i \notin LiveIn(table)
    /\ pend[p] \in {NoMsg, i} /\ \A q \in Ports \ {p} : pend[q] # i
    /\ accepted' \in Seq(Ids') /\ IsInjective(accepted')
    /\ Longer(accepted, req, accepted', req')
    /\ Range(accepted') \subseteq Range(accepted) \cup {i}
    /\ i \in Range(accepted') => /\ i \in LiveIn(table')
                                 /\ \A x \in Range(accepted) : Bef(accepted', x, i)
    /\ Reached' = Reached /\ Range(order) \subseteq Range(order')
    /\ UNCHANGED <<store, resp, cb>>
    /\ \A s \in Keys :
          \/ table'[s] = table[s]
          \/ s = r.at /\ i \in Range(accepted') /\ table'[s] = Append(table[s], i)
    /\ LiveIn(table) \subseteq LiveIn(table') /\ LiveIn(table') \subseteq LiveIn(table) \cup {i}
    /\ i \in LiveIn(table') => i \in Range(accepted')
    /\ \A j \in DOMAIN result : j \in DOMAIN result' /\ result'[j] = result[j]
    /\ DOMAIN result' \subseteq DOMAIN result \cup {i}
    /\ i \in DOMAIN result' => r.kind = "pf" /\ i \notin Range(accepted')
    /\ i \notin DOMAIN result' => i \in LiveIn(table') \/ pend'[p] = i
    /\ pend'[p] \in {NoMsg, i}
    /\ pend'[p] = i => i \notin Range(accepted') /\ i \notin DOMAIN result'
    /\ \A q \in Ports \ {p} : pend'[q] = pend[q]

\* makeRequest joins the history as said.
LEMMA RequestJoins ==
  ASSUME Ordered, Transactions, History, NEW p \in Ports, NEW i \in Nat \ {0}, NEW r \in Requests,
         MakeRequest(p, i, r), UNCHANGED <<cb, below>>,
         Ids' = Ids \cup {i}, req'[i] = r, \A j \in Ids : req'[j] = req[j],
         i \notin Range(accepted), i \notin DOMAIN result, i \notin Sent, i \notin LiveIn(table),
         pend[p] \in {NoMsg, i}, \A q \in Ports \ {p} : pend[q] # i
  PROVE  Joins(p, i, r)
<1>0. PICK a, b, t, u, k, J : /\ a = accepted /\ b = accepted' /\ t = table /\ u = table' /\ k = r.at
                              /\ J = Ids'
  OBVIOUS
<1>1. /\ Types /\ k \in Keys /\ pend \in [Ports -> 0..Len(req)] /\ order \in Seq(Nat)
      /\ t \in [Keys -> Seq(1..Len(req))]
  BY <1>0, QueueKnown, SequencerAssumption DEF Ordered, Types, Typed
<1>2. Ids \subseteq J /\ i \in J /\ a \in Seq(J) /\ IsInjective(a) /\ i \notin Range(a)
  <2>1. a \in Seq(Ids) /\ Ids \subseteq J /\ i \in J /\ IsInjective(a) /\ i \notin Range(a)
    BY <1>0 DEF History
  <2>2. a \in Seq(J)
    BY ONLY <2>1, SeqMonotonic
  <2> QED BY <2>1, <2>2
<1>3. \A x \in Range(a) : x \in Ids /\ req'[x] = req[x]
  <2>1. a \in Seq(Ids)
    BY <1>0 DEF History
  <2> QED BY <2>1, RangeOfSeq
<1>4. /\ pend' = [pend EXCEPT ![p] = i] \/ pend' = [pend EXCEPT ![p] = NoMsg]
      /\ UNCHANGED <<store, resp, cb, toL1, atL1>> /\ i # NoMsg
  BY DEF MakeRequest, RefuseIngress, RefuseAdmission, DropPrefetch, Accept, Refuse, Taken, below, NoMsg
<1>5. pend'[p] \in {NoMsg, i} /\ \A q \in Ports \ {p} : pend'[q] = pend[q]
  BY <1>1, <1>4
<1>6. ASSUME UNCHANGED <<accepted, table, queue>>
      PROVE  /\ accepted' \in Seq(J) /\ IsInjective(accepted')
             /\ Longer(accepted, req, accepted', req') /\ Range(accepted') = Range(accepted)
             /\ Reached' = Reached /\ Range(order) \subseteq Range(order')
             /\ LiveIn(table') = LiveIn(table)
  BY <1>0, <1>2, <1>3, <1>4, <1>6 DEF Longer, queue, Reached, Stalled
<1>7. CASE Refuse(p, i)
  <2>1. UNCHANGED <<accepted, table, queue, result>> /\ pend'[p] = i
    BY <1>1, <1>7 DEF Refuse
  <2> QED BY <1>0, <1>4, <1>5, <1>6, <2>1 DEF Joins
<1>8. CASE DropPrefetch(p, i, r)
  <2>1. UNCHANGED <<accepted, table, queue>> /\ pend'[p] = NoMsg /\ r.kind = "pf"
    BY <1>1, <1>8 DEF DropPrefetch, Taken, Dropped
  <2>2. /\ DOMAIN result' = DOMAIN result \cup {i}
        /\ \A j \in DOMAIN result : result'[j] = result[j]
    BY <1>8 DEF DropPrefetch, Answer
  <2> QED BY <1>0, <1>4, <1>5, <1>6, <2>1, <2>2 DEF Joins
<1>9. CASE Accept(p, i, r)
  <2>1. /\ u = [t EXCEPT ![k] = Append(@, i)] /\ b = Append(a, i) /\ result' = result
        /\ pend'[p] = NoMsg
        /\ IF t[k] = <<>> THEN EnqueueAll(<<i>>) ELSE UNCHANGED queue
    BY <1>0, <1>1, <1>9 DEF Accept, Taken
  <2>2. /\ b \in Seq(J) /\ IsInjective(b) /\ Range(b) = Range(a) \cup {i}
        /\ \A x, y \in Range(a) : Bef(b, x, y) <=> Bef(a, x, y)
        /\ \A x \in Range(a) : Bef(b, x, i)
        /\ \A y : ~ Bef(b, i, y)
    <3>1. a \in Seq(J) /\ i \in J /\ i \notin Range(a) /\ IsInjective(a) /\ b = Append(a, i)
      BY <1>2, <2>1
    <3> QED BY ONLY <3>1, BefAppend, Zenon
  <2>3. Longer(accepted, req, accepted', req')
    BY <1>0, <1>3, <2>2 DEF Longer
  <2>4. LiveIn(u) = LiveIn(t) \cup {i}
    <3>1. PICK N : N = Len(req) + 1
      OBVIOUS
    <3>2. N \in Nat /\ t \in [Keys -> Seq(1..N)] /\ i \in 1..N
      <4>1. PICK M : M = Len(req)
        OBVIOUS
      <4>2. M \in Nat /\ Typed(M) /\ N = M + 1
        BY <1>1, <3>1, <4>1, LenProperties DEF Types
      <4>3. Typed(N)
        BY <4>2, TypedGrows
      <4>4. i \in 1..N
        <5>1. J = 1..Len(req') /\ Ids = 1..M
          BY <1>0, <4>1 DEF Ids
        <5>2. CASE i \in Ids
          BY <4>2, <5>1, <5>2
        <5>3. CASE i \notin Ids
          <6>1. \A x \in 1..(i - 1) : x \in Ids
            BY <1>0, <1>2, <5>1
          <6>2. i - 1 = 0 \/ i - 1 \in 1..M
            BY <5>1, <6>1
          <6> QED BY <4>2, <6>2
        <5> QED BY <5>2, <5>3
      <4> QED BY <1>0, <4>2, <4>3, <4>4 DEF Typed
    <3> QED BY ONLY <1>1, <2>1, <3>2, AppendLive, Zenon
  <2>5. Reached' = Reached /\ Range(order) \subseteq Range(order')
    <3>1. CASE EnqueueAll(<<i>>)
      <4>1. <<i>> \in Seq(Nat) /\ Range(<<i>>) = {i}
        BY OneInjective
      <4>2. Range(order) \cap Range(<<i>>) = {}
        BY <4>1 DEF Sent
      <4> QED BY <1>1, <1>4, <3>1, <4>1, <4>2, EnqueueReached
    <3>2. CASE UNCHANGED queue
      BY <1>4, <3>2 DEF queue, Reached, Stalled
    <3> QED BY <2>1, <3>1, <3>2
  <2>6. \A s \in Keys : u[s] = t[s] \/ (s = k /\ u[s] = Append(t[s], i))
    BY <1>1, <2>1
  <2>7. /\ i \in Range(accepted') /\ i \in LiveIn(table') /\ pend'[p] # i /\ result' = result
        /\ i \notin DOMAIN result'
    BY <1>0, <1>4, <2>1, <2>2, <2>4
  <2>8. \A s \in Keys :
          \/ table'[s] = table[s]
          \/ s = r.at /\ i \in Range(accepted') /\ table'[s] = Append(table[s], i)
    BY <1>0, <2>6, <2>7
  <2>9. /\ accepted' \in Seq(Ids') /\ IsInjective(accepted')
        /\ Range(accepted') \subseteq Range(accepted) \cup {i}
        /\ \A x \in Range(accepted) : Bef(accepted', x, i)
        /\ LiveIn(table) \subseteq LiveIn(table') /\ LiveIn(table') \subseteq LiveIn(table) \cup {i}
    BY <1>0, <2>2, <2>4
  <2> QED BY <1>4, <1>5, <2>3, <2>5, <2>7, <2>8, <2>9 DEF Joins
<1> QED BY <1>7, <1>8, <1>9 DEF MakeRequest, RefuseIngress, RefuseAdmission

\* The LSQ's waiting, as the new request meets it.
Waits(i, r) ==
    \A c \in Unans \ {i} : req[c].slot = r.slot =>
        /\ Kind(c) = "spmcp" => r.kind \notin SpmKinds
        /\ r.kind = "spmcp" => Kind(c) # "spmst" /\ (Kind(c) = "spmld" => c \in Range(accepted))

\* What a new request leaves of the lists: their heads and their elements.
LEMMA JoinsLists ==
  ASSUME Ordered, History, NEW p \in Ports, NEW i, NEW r \in Requests, Joins(p, i, r), NEW s \in Keys
  PROVE  /\ DOMAIN table[s] = 1..Len(table[s]) /\ Len(table[s]) \in Nat
         /\ \A n \in DOMAIN table[s] : /\ table[s][n] \in Range(accepted) /\ table[s][n] \in Ids
                                       /\ table[s][n] \in LiveIn(table) /\ table[s][n] # i
                                       /\ n \in DOMAIN table'[s] /\ table'[s][n] = table[s][n]
         /\ table[s] # <<>> => table'[s] # <<>> /\ Head(table'[s]) = Head(table[s])
         /\ \A n \in DOMAIN table'[s] : n \in DOMAIN table[s] \/
              /\ s = r.at /\ i \in Range(accepted') /\ table'[s][n] = i /\ n = Len(table[s]) + 1
<1>0. PICK t, u, N : t = table[s] /\ u = table'[s] /\ N = Len(req)
  OBVIOUS
<1>1. t \in Seq(1..N) /\ DOMAIN t = 1..Len(t) /\ Len(t) \in Nat
  BY <1>0, LenProperties DEF Ordered, Types, Typed
<1>2. ASSUME NEW n \in DOMAIN t
      PROVE  t[n] \in Range(accepted) /\ t[n] \in Ids /\ t[n] \in LiveIn(table) /\ t[n] # i
  <2>1. t[n] \in LiveIn(table)
    BY <1>0, <1>2 DEF LiveIn, Range
  <2>2. t[n] \in Range(accepted) /\ i \notin Range(accepted)
    BY <2>1 DEF History, Joins
  <2>3. t[n] \in Ids
    BY <1>0, <1>1 DEF Ids
  <2> QED BY <2>1, <2>2, <2>3
<1>3. CASE u = t
  BY <1>0, <1>1, <1>2, <1>3
<1>4. CASE s = r.at /\ i \in Range(accepted') /\ u = Append(t, i)
  <2>1. /\ DOMAIN u = 1..(Len(t) + 1) /\ u[Len(t) + 1] = i /\ \A n \in 1..Len(t) : u[n] = t[n]
        /\ u # <<>> /\ (t # <<>> => Head(u) = Head(t))
    BY ONLY <1>1, <1>4, AppendProperties, LenProperties
  <2>2. \A n \in DOMAIN u : n \in DOMAIN t \/ n = Len(t) + 1
    BY <1>1, <2>1
  <2>3. \A n \in DOMAIN t : n \in DOMAIN u /\ u[n] = t[n]
    BY <1>1, <2>1
  <2> QED BY <1>0, <1>1, <1>2, <1>4, <2>1, <2>2, <2>3
<1>5. u = t \/ (s = r.at /\ i \in Range(accepted') /\ u = Append(t, i))
  BY <1>0 DEF Joins
<1> QED BY <1>3, <1>4, <1>5

\* A new request joins the history.
LEMMA JoinsHistory ==
  ASSUME Ordered, Transactions, Answers, NEW p \in Ports, NEW i, NEW r \in Requests, Joins(p, i, r), CoreRuns,
         Waits(i, r)
  PROVE  History' /\ Listed' /\ Stored' /\ Exclusive' /\ Serviced' /\ ReadsGood'
<1>0. PICK a, b, q, w : a = accepted /\ b = accepted' /\ q = req /\ w = req'
  OBVIOUS
<1>1. /\ History /\ Listed /\ Stored /\ Exclusive /\ Serviced /\ ReadsGood
      /\ a \in Seq(Ids) /\ IsInjective(a) /\ Longer(a, q, b, w)
      /\ Range(b) \subseteq Range(a) \cup {i} /\ i \notin Range(a) /\ Range(a) \subseteq Range(b)
      /\ (i \in Range(b) => i \in LiveIn(table') /\ \A x \in Range(a) : Bef(b, x, i))
      /\ \A x, y \in Range(a) : Bef(b, x, y) <=> Bef(a, x, y)
  BY <1>0 DEF Answers, History, Joins, Longer
<1>2. /\ Ids' = Ids \cup {i} /\ \A j \in Ids : w[j] = q[j] /\ Kind(j)' = Kind(j) /\ Reads(j)' = Reads(j)
                                                /\ Spm(j)' = Spm(j)
      /\ w[i] = r /\ Kind(i)' = r.kind /\ \A j \in Ids' : j = i \/ j \in Ids
  BY <1>0 DEF Joins, Kind, Reads, Spm
<1>3. \A x \in Range(a) : x \in Ids
  BY <1>1, RangeOfSeq
<1>4. /\ DOMAIN result' \subseteq DOMAIN result \cup {i} /\ i \notin DOMAIN result
      /\ \A j \in DOMAIN result : j \in DOMAIN result' /\ result'[j] = result[j] /\ j \in Ids
      /\ i \in DOMAIN result' => r.kind = "pf" /\ i \notin Range(b)
  BY <1>0 DEF Joins, Answers, History
<1>5. /\ \A j \in Unans' : j = i \/ j \in Unans
      /\ \A j \in Unans : j = i \/ j \in Unans'
      /\ \A j \in Ids \ Unans : j \notin Unans' /\ j # i
      /\ i \in Range(b) => i \in Unans'
  BY <1>2, <1>4 DEF Unans
<1>6. cb' = cb /\ store' = store /\ Reached' = Reached /\ i \notin Reached
  BY DEF Joins, Reached, Sent
<1>7. cb # NoCallback => /\ cb.step = "hit" /\ cb.at \in Keys /\ table[cb.at] # <<>> /\ cb.msg \in Ids
                         /\ Head(table'[cb.at]) = Head(table[cb.at]) /\ Head(table[cb.at]) \in Ids
  <2>1. cb # NoCallback => /\ cb.step = "hit" /\ cb.at \in Keys /\ table[cb.at] # <<>> /\ cb.msg \in Ids
    BY DEF CoreRuns, Ordered, Types, Typed, Callbacks, Ids
  <2>2. cb # NoCallback => Head(table'[cb.at]) = Head(table[cb.at])
    BY <1>1, <2>1, JoinsLists
  <2>3. cb # NoCallback => Head(table[cb.at]) \in Ids
    BY <2>1, LeaderLive DEF Ids
  <2> QED BY <2>1, <2>2, <2>3
<1>8. History'
  <2>1. accepted' \in Seq(Ids') /\ IsInjective(accepted') /\ DOMAIN result' \subseteq Ids'
    BY <1>2, <1>4 DEF Joins
  <2>2. LiveIn(table') \subseteq Range(accepted')
    BY <1>0, <1>1 DEF Joins, History
  <2>3. ASSUME NEW o \in Ports PROVE pend'[o] \notin Range(accepted') /\ pend'[o] \notin DOMAIN result'
    <3>1. CASE o # p
      <4>1. pend'[o] = pend[o] /\ pend[o] # i
        BY <3>1 DEF Joins
      <4>2. pend[o] \notin Range(accepted) /\ pend[o] \notin DOMAIN result
        BY <1>1 DEF History
      <4> QED BY <1>0, <1>1, <1>4, <4>1, <4>2
    <3>2. CASE o = p
      <4>1. CASE pend'[p] = i
        BY <3>2, <4>1 DEF Joins
      <4>2. CASE pend'[p] = NoMsg
        <5>1. NoMsg \notin Ids /\ NoMsg # i
          BY DEF NoMsg, Ids, Joins
        <5>2. NoMsg \notin Range(accepted') /\ NoMsg \notin DOMAIN result'
          BY <1>0, <1>1, <1>3, <1>4, <5>1
        <5> QED BY <3>2, <4>2, <5>2
      <4> QED BY <4>1, <4>2 DEF Joins
    <3> QED BY <3>1, <3>2
  <2>4. ASSUME NEW j \in Unans' PROVE j \in LiveIn(table') \/ \E o \in Ports : pend'[o] = j
    <3>1. CASE j = i
      BY <3>1 DEF Joins, Unans
    <3>2. CASE j # i
      <4>1. j \in Unans /\ j # NoMsg
        BY <1>5, <3>2 DEF Unans, NoMsg, Ids
      <4>2. CASE j \in LiveIn(table)
        BY <4>2 DEF Joins
      <4>3. CASE \E o \in Ports : pend[o] = j
        <5>1. PICK o \in Ports : pend[o] = j
          BY <4>3
        <5>2. o # p
          BY <3>2, <4>1, <5>1 DEF Joins
        <5> QED BY <5>1, <5>2 DEF Joins
      <4> QED BY <1>1, <4>1, <4>2, <4>3 DEF History
    <3> QED BY <3>1, <3>2
  <2>5. ASSUME NEW j \in DOMAIN result', j \in LiveIn(table')
        PROVE  cb'.step = "hit" /\ j = Head(table'[cb'.at])
    <3>1. j # i
      BY <1>0, <1>4, <2>5 DEF Joins
    <3>2. j \in DOMAIN result /\ j \in LiveIn(table)
      BY <1>4, <2>5, <3>1 DEF Joins
    <3>3. cb.step = "hit" /\ j = Head(table[cb.at])
      BY <1>1, <3>2 DEF History
    <3> QED BY <1>6, <1>7, <3>3 DEF NoCallback
  <2>6. cb'.step = "hit" => Head(table'[cb'.at]) \in DOMAIN result'
    <3>1. cb.step = "hit" => cb # NoCallback
      BY DEF NoCallback
    <3> QED BY <1>1, <1>4, <1>6, <1>7, <3>1 DEF History
  <2>7. ASSUME NEW j \in DOMAIN result', Kind(j)' \in SpmWrites PROVE j \in Range(order')
    <3>1. j # i
      BY <1>2, <1>4, <2>7 DEF SpmWrites
    <3>2. j \in DOMAIN result /\ Kind(j) \in SpmWrites
      BY <1>2, <1>4, <2>7, <3>1
    <3> QED BY <1>1, <3>2 DEF History, Joins
  <2> QED BY <2>1, <2>2, <2>3, <2>4, <2>5, <2>6, <2>7 DEF History
<1>9. Listed'
  <2>1. ASSUME NEW s \in Keys, NEW m \in DOMAIN table'[s], NEW n \in DOMAIN table'[s], m < n
        PROVE  Bef(b, table'[s][m], table'[s][n])
    <3>1. /\ DOMAIN table[s] = 1..Len(table[s]) /\ Len(table[s]) \in Nat
          /\ \A l \in DOMAIN table[s] : table[s][l] \in Range(a) /\ table'[s][l] = table[s][l]
          /\ \A l \in DOMAIN table'[s] : l \in DOMAIN table[s] \/
               (i \in Range(b) /\ table'[s][l] = i /\ l = Len(table[s]) + 1)
      BY <1>0, <1>1, JoinsLists
    <3>2. CASE n \in DOMAIN table[s]
      <4>1. m \in DOMAIN table[s]
        BY <2>1, <3>1, <3>2
      <4>2. Bef(a, table[s][m], table[s][n])
        BY <1>0, <1>1, <2>1, <3>2, <4>1 DEF Listed
      <4> QED BY <1>1, <3>1, <3>2, <4>1, <4>2
    <3>3. CASE n \notin DOMAIN table[s]
      <4>1. i \in Range(b) /\ table'[s][n] = i /\ n = Len(table[s]) + 1
        BY <2>1, <3>1, <3>3
      <4>2. m \in DOMAIN table[s]
        BY <2>1, <3>1, <4>1
      <4> QED BY <1>1, <3>1, <4>1, <4>2
    <3> QED BY <3>2, <3>3
  <2>2. ASSUME NEW x \in Range(b) \ LiveIn(table'), NEW j \in Range(table'[w[x].at])
        PROVE  Bef(b, x, j)
    <3>1. x # i /\ x \in Range(a) /\ x \notin LiveIn(table) /\ x \in Ids
      BY <1>0, <1>1, <1>3, <2>2 DEF Joins
    <3>2. PICK s : s = q[x].at /\ s = w[x].at /\ s \in Keys
      <4>1. w[x].at = q[x].at
        BY <1>2, <3>1
      <4>2. q[x].at \in Keys
        BY <1>0, <3>1, ReqKnown DEF Ids, Ordered, Types
      <4> QED BY <4>1, <4>2
    <3>3. PICK n \in DOMAIN table'[s] : table'[s][n] = j
      BY <2>2, <3>2 DEF Range
    <3>4. CASE n \in DOMAIN table[s]
      <4>1. table[s][n] = j /\ j \in Range(a)
        BY <1>0, <1>1, <3>2, <3>3, <3>4, JoinsLists
      <4>2. j \in Range(table[s])
        BY <3>4, <4>1 DEF Range
      <4>3. Bef(a, x, j)
        BY <1>0, <1>1, <3>1, <3>2, <4>2 DEF Listed
      <4> QED BY <1>1, <3>1, <4>1, <4>3
    <3>5. CASE n \notin DOMAIN table[s]
      <4>1. j = i /\ i \in Range(b)
        BY <1>0, <1>1, <3>2, <3>3, <3>5, JoinsLists
      <4> QED BY <1>1, <3>1, <4>1
    <3> QED BY <3>4, <3>5
  <2> QED BY <1>0, <2>1, <2>2 DEF Listed
<1>10. Stored'
  <2>1. \A x \in Range(a) : \A k : Wrote(x, k)' <=> Wrote(x, k)
    <3>1. ASSUME NEW x \in Range(a), NEW k PROVE Wrote(x, k)' <=> Wrote(x, k)
      <4>1. x \in Ids /\ Kind(x)' = Kind(x) /\ req'[x] = req[x] /\ x # i
        BY <1>0, <1>1, <1>2, <1>3
      <4>2. x \in DOMAIN result' <=> x \in DOMAIN result
        BY <1>4, <4>1
      <4> QED BY <1>6, <4>1, <4>2 DEF Wrote
    <3> QED BY <3>1
  <2>2. \A k : i \in Range(b) => ~ Wrote(i, k)'
    BY <1>4, <1>6 DEF Wrote
  <2>3. ASSUME NEW k \in Keys
        PROVE  \/ store'[k] = NoWriter /\ \A x \in Range(b) : ~ Wrote(x, k)'
               \/ /\ store'[k] \in Range(b) /\ Wrote(store[k], k)'
                  /\ \A x \in Range(b) : Wrote(x, k)' => x = store'[k] \/ Bef(b, x, store'[k])
    <3>1. PICK v : v = store[k] /\ v = store'[k]
      BY <1>6
    <3>2. CASE v = NoWriter /\ \A x \in Range(a) : ~ Wrote(x, k)
      BY <1>1, <2>1, <2>2, <3>1, <3>2
    <3>3. CASE /\ v \in Range(a) /\ Wrote(v, k)
               /\ \A x \in Range(a) : Wrote(x, k) => x = v \/ Bef(a, x, v)
      <4>1. v \in Range(b) /\ Wrote(v, k)'
        BY <1>1, <2>1, <3>3
      <4>2. \A x \in Range(b) : Wrote(x, k)' => x = v \/ Bef(b, x, v)
        BY <1>1, <2>1, <2>2, <3>3
      <4>3. v = store[k] => Wrote(store[k], k)'
        <5>1. Wrote(v, k)' => (v = store[k] => Wrote(store[k], k)')
          BY <1>6 DEF Wrote, Kind
        <5> QED BY <4>1, <5>1
      <4> QED BY <3>1, <4>1, <4>2, <4>3
    <3> QED BY <1>0, <1>1, <3>1, <3>2, <3>3 DEF Stored
  <2> QED BY <1>0, <1>6, <2>3 DEF Stored
<1>11. Exclusive'
  <2>0. \A x \in Unans : x \in Ids /\ req'[x] = req[x] /\ Kind(x)' = Kind(x)
    BY <1>0, <1>2 DEF Unans
  <2>1. ASSUME NEW c \in Unans', NEW x \in Unans', Kind(c)' = "spmcp", Kind(x)' \in SpmWrites,
               req'[c].slot = req'[x].slot
        PROVE  c = x
    <3>1. CASE c # i /\ x # i
      BY <1>1, <1>5, <2>0, <2>1, <3>1 DEF Exclusive
    <3>2. CASE c = i /\ x # i
      <4>1. r.kind = "spmcp" /\ req[x].slot = r.slot /\ Kind(x) \in SpmWrites /\ x \in Unans \ {i}
        BY <1>0, <1>2, <1>5, <2>0, <2>1, <3>2
      <4> QED BY <4>1 DEF Waits, SpmWrites, SpmKinds
    <3>3. CASE c # i /\ x = i
      <4>1. r.kind \in SpmWrites /\ req[c].slot = r.slot /\ Kind(c) = "spmcp" /\ c \in Unans \ {i}
        BY <1>0, <1>2, <1>5, <2>0, <2>1, <3>3
      <4> QED BY <4>1 DEF Waits, SpmWrites, SpmKinds
    <3> QED BY <3>1, <3>2, <3>3
  <2>2. ASSUME NEW c \in Unans', NEW x \in Unans', Kind(c)' = "spmcp", Kind(x)' = "spmld",
               req'[c].slot = req'[x].slot
        PROVE  x \in Range(b) /\ (c \in Range(b) => Bef(b, x, c))
    <3>1. CASE c # i /\ x # i
      <4>1. x \in Range(a) /\ (c \in Range(a) => Bef(a, x, c))
        BY <1>0, <1>1, <1>5, <2>0, <2>2, <3>1 DEF Exclusive
      <4> QED BY <1>1, <3>1, <4>1
    <3>2. CASE c = i /\ x # i
      <4>1. r.kind = "spmcp" /\ req[x].slot = r.slot /\ Kind(x) = "spmld" /\ x \in Unans \ {i}
        BY <1>0, <1>2, <1>5, <2>0, <2>2, <3>2
      <4>2. x \in Range(a)
        BY <1>0, <4>1 DEF Waits
      <4> QED BY <1>1, <3>2, <4>2
    <3>3. CASE c # i /\ x = i
      <4>1. r.kind = "spmld" /\ req[c].slot = r.slot /\ Kind(c) = "spmcp" /\ c \in Unans \ {i}
        BY <1>0, <1>2, <1>5, <2>0, <2>2, <3>3
      <4> QED BY <4>1 DEF Waits, SpmKinds
    <3>4. CASE c = i /\ x = i
      BY <2>2, <3>4
    <3> QED BY <3>1, <3>2, <3>3, <3>4
  <2>3. ASSUME NEW x \in Unans' \cap Range(b), NEW y \in Range(b) \ Unans',
               Kind(x)' \in SpmWrites, Kind(y)' \in SpmWrites, "spmcp" \in {Kind(x)', Kind(y)'},
               req'[x].slot = req'[y].slot
        PROVE  Bef(b, y, x)
    <3>1. y # i /\ y \in Range(a) /\ y \in Ids /\ y \notin Unans
      BY <1>1, <1>3, <1>5, <2>3
    <3>2. CASE x = i
      BY <1>1, <2>3, <3>1, <3>2
    <3>3. CASE x # i
      <4>1. x \in Range(a) /\ x \in Unans
        BY <1>1, <1>5, <2>3, <3>3
      <4>2. Kind(y)' = Kind(y) /\ req'[y] = req[y]
        BY <1>0, <1>2, <3>1
      <4>3. Bef(a, y, x)
        BY <1>0, <1>1, <2>0, <2>3, <3>1, <4>1, <4>2 DEF Exclusive
      <4> QED BY <1>1, <3>1, <4>1, <4>3
    <3> QED BY <3>2, <3>3
  <2> QED BY <1>0, <2>1, <2>2, <2>3 DEF Exclusive
<1>12. Serviced'
  <2>1. cb # NoCallback => /\ Reads(cb.msg)' = Reads(cb.msg) /\ Spm(cb.msg)' = Spm(cb.msg)
    <3>1. PICK m : m = cb.msg /\ m = cb'.msg /\ (cb # NoCallback => m \in Ids)
      BY <1>6, <1>7
    <3>2. cb # NoCallback => Reads(m)' = Reads(m) /\ Spm(m)' = Spm(m)
      BY <1>2, <3>1
    <3> QED BY <3>1, <3>2 DEF Kind, Reads, Spm
  <2>2. cb # NoCallback => /\ Kind(Head(table[cb.at]))' = Kind(Head(table[cb.at]))
                           /\ Reads(Head(table[cb.at]))' = Reads(Head(table[cb.at]))
    <3>1. PICK h : h = Head(table[cb.at]) /\ (cb # NoCallback => h = Head(table'[cb'.at]) /\ h \in Ids)
      BY <1>6, <1>7
    <3>2. cb # NoCallback => Kind(h)' = Kind(h) /\ Reads(h)' = Reads(h)
      BY <1>2, <3>1
    <3> QED BY <3>1, <3>2 DEF Kind, Reads
  <2> QED BY <1>1, <1>6, <1>7, <2>1, <2>2 DEF Serviced
<1>13. ReadsGood'
  <2>1. ASSUME NEW j \in Range(b) \cap DOMAIN result'
        PROVE  /\ j \in Range(a) \cap DOMAIN result /\ result'[j] = result[j]
               /\ Kind(j)' = Kind(j) /\ w[j] = q[j]
    BY <1>1, <1>2, <1>3, <1>4, <2>1
  <2>2. ASSUME NEW j \in Range(a)
        PROVE  /\ \A v, k : LastFor(a, q, v, j, k) => LastFor(b, w, v, j, k)
               /\ \A v : Good(a, q, v, j) => Good(b, w, v, j)
    BY ONLY <1>1, <2>2, GoodKept
  <2> QED BY <1>0, <1>1, <2>1, <2>2 DEF ReadsGood
<1> QED BY <1>8, <1>9, <1>10, <1>11, <1>12, <1>13

\* A read that joins a list of reads: the value its leader is about to get is
\* the last write of all, hence the last before the new read.
LEMMA JoinsFollower ==
  ASSUME Ordered, Answers, NEW p \in Ports, NEW i, NEW r \in Requests, Joins(p, i, r), Waits(i, r),
         NEW s \in Slots, s = r.at, i \in Range(accepted'), table[s] # <<>>,
         \A x \in Range(table[s]) : Reads(x), Reads(i)',
         NEW v, Good(accepted, req, v, Head(table[s])),
         \A c \in Range(accepted) \cap DOMAIN result :
             CopyIn(accepted, req, c, s) /\ Bef(accepted, Head(table[s]), c)
             => NotOlder(accepted, req, v, c)
  PROVE  Good(accepted', req', v, i)
<1>0. PICK a, b, q, w : a = accepted /\ b = accepted' /\ q = req /\ w = req'
  OBVIOUS
<1>1. /\ History /\ Listed /\ a \in Seq(Ids) /\ \A x \in Range(a) : x \in Ids /\ w[x] = q[x]
      /\ Range(b) = Range(a) \cup {i} /\ w[i] = r /\ \A x \in Range(a) : Bef(b, x, i)
      /\ \A x, y \in Range(a) : Bef(b, x, y) <=> Bef(a, x, y)
  <2>1. History /\ Listed /\ a \in Seq(Ids)
    BY <1>0 DEF Answers, History
  <2>2. \A x \in Range(a) : x \in Ids
    BY <2>1, RangeOfSeq
  <2>3. /\ \A x \in Range(a) : w[x] = q[x] /\ Bef(b, x, i)
        /\ w[i] = r /\ Range(a) \subseteq Range(b) /\ Range(b) \subseteq Range(a) \cup {i}
    BY <1>0 DEF Joins, Longer
  <2>4. \A x, y \in Range(a) : Bef(b, x, y) <=> Bef(a, x, y)
    BY <1>0 DEF Joins, Longer
  <2>5. i \in Range(b)
    BY <1>0
  <2>6. Range(b) = Range(a) \cup {i}
    BY ONLY <2>3, <2>5, Zenon
  <2> QED BY <2>1, <2>2, <2>3, <2>4, <2>6
<1>2. r.kind = "spmld" /\ r.slot = s
  <2>1. s \notin Lines
    BY IngressAssumption
  <2>2. r.kind \in {"spmld", "spmst"} /\ r.slot = s
    BY <2>1, RoutesAssumption
  <2> QED BY <1>0, <1>1, <2>2 DEF Reads, Kind
<1>3. ASSUME NEW c \in Range(accepted), CopyIn(accepted, req, c, s) PROVE c \in DOMAIN result
  <2>1. c \in Ids /\ c # i /\ Kind(c) = "spmcp" /\ req[c].slot = r.slot
    BY <1>0, <1>1, <1>2, <1>3 DEF CopyIn, Kind, Joins
  <2> QED BY <1>2, <2>1 DEF Waits, Unans, SpmKinds
<1>4. \/ v = NoWriter /\ \A x \in Range(a) : ~ WritesIn(q, x, s)
      \/ /\ v \in Range(a) /\ WritesIn(q, v, s)
         /\ \A x \in Range(a) : WritesIn(q, x, s) => x = v \/ Bef(a, x, v)
  BY <1>0, <1>1, <1>3, FollowerGood
<1>5. ~ WritesIn(w, i, s)
  BY <1>1, <1>2 DEF WritesIn, SpmWrites
<1>6. \A x \in Range(a) : WritesIn(w, x, s) <=> WritesIn(q, x, s)
  BY <1>1 DEF WritesIn
<1>7. LastFor(b, w, v, i, s)
  BY <1>1, <1>4, <1>5, <1>6 DEF LastFor
<1> QED BY <1>0, <1>1, <1>7 DEF Good

\* What is on its way to the L0, or handed out by the running callback, is
\* right for the new request as well.
LEMMA JoinsGood ==
  ASSUME Ordered, Transactions, Answers, NEW p \in Ports, NEW i, NEW r \in Requests, Joins(p, i, r), CoreRuns,
         Waits(i, r)
  PROVE  RespGood' /\ CbGood'
<1>0. PICK a, b, q, w : a = accepted /\ b = accepted' /\ q = req /\ w = req'
  OBVIOUS
<1>1. /\ History /\ Listed /\ Serviced /\ RespGood /\ CbGood
      /\ a \in Seq(Ids) /\ IsInjective(a) /\ Longer(a, q, b, w)
      /\ Range(b) \subseteq Range(a) \cup {i} /\ i \notin Range(a)
      /\ \A x, y \in Range(a) : Bef(b, x, y) <=> Bef(a, x, y)
      /\ \A x \in Range(a) : w[x] = q[x]
  BY <1>0 DEF Answers, History, Joins, Longer
<1>2. \A j \in Ids : w[j] = q[j] /\ Kind(j)' = Kind(j) /\ Reads(j)' = Reads(j)
  BY <1>0 DEF Joins, Kind, Reads
<1>3. \A x \in Range(a) : x \in Ids
  BY <1>1, RangeOfSeq
<1>4. ASSUME NEW j \in Range(a)
      PROVE  /\ \A v : Good(a, q, v, j) => Good(b, w, v, j)
             /\ \A v : NotOlder(a, q, v, j) => NotOlder(b, w, v, j)
  BY ONLY <1>1, <1>4, GoodKept
<1>5. /\ UNCHANGED <<cb, resp>> /\ Reached' = Reached /\ i \notin Reached /\ i \notin DOMAIN result
      /\ DOMAIN result' \subseteq DOMAIN result \cup {i} /\ (i \in DOMAIN result' => i \notin Range(b))
  BY <1>0 DEF Joins, Reached, Sent
\* The value v of a list that starts with an SPM load.
<1>6. ASSUME NEW s \in Slots, NEW v, GoodIn(v, s), table[s] # <<>>,
             \A c \in Range(accepted) \cap DOMAIN result :
                CopyIn(accepted, req, c, s) /\ Bef(accepted, Head(table[s]), c)
                => NotOlder(accepted, req, v, c)
      PROVE  GoodIn(v, s)'
  <2>1. s \in Keys
    BY DEF Keys
  <2>2. PICK t, u : t = table[s] /\ u = table'[s]
    OBVIOUS
  <2>3. /\ DOMAIN t = 1..Len(t) /\ Len(t) \in Nat
        /\ \A n \in DOMAIN t : t[n] \in Range(a) /\ t[n] \in Ids /\ n \in DOMAIN u /\ u[n] = t[n]
        /\ \A n \in DOMAIN u : n \in DOMAIN t \/
              (s = r.at /\ i \in Range(b) /\ u[n] = i /\ n = Len(t) + 1)
    BY <1>0, <1>1, <2>1, <2>2, JoinsLists
  <2>4. ASSUME NEW n \in DOMAIN u, \A m \in 1..n : Reads(u[m])' PROVE Good(b, w, v, u[n])
    <3>1. \A m \in 1..n : m \in DOMAIN t => Reads(t[m])
      <4>1. ASSUME NEW m \in 1..n, m \in DOMAIN t PROVE Reads(t[m])
        <5>1. PICK x : x = t[m] /\ x = u[m] /\ x \in Ids
          BY <2>3, <4>1
        <5>2. Reads(u[m])'
          BY <2>4
        <5>3. Reads(x)'
          BY <5>1, <5>2
        <5> QED BY <1>2, <5>1, <5>3
      <4> QED BY <4>1
    <3>2. CASE n \in DOMAIN t
      <4>1. Leading(s, n)
        BY <2>2, <2>3, <3>1, <3>2 DEF Leading
      <4>2. Good(a, q, v, t[n])
        BY <1>0, <1>6, <2>2, <3>2, <4>1 DEF GoodIn
      <4> QED BY <1>4, <2>3, <3>2, <4>2
    <3>3. CASE n \notin DOMAIN t
      <4>1. s = r.at /\ i \in Range(b) /\ u[n] = i /\ n = Len(t) + 1
        BY <2>3, <2>4, <3>3
      <4>2. \A m \in DOMAIN t : m \in 1..n /\ Reads(t[m])
        BY <2>3, <3>1, <4>1
      <4>3. \A x \in Range(table[s]) : Reads(x)
        BY <2>2, <4>2 DEF Range
      <4>4. Good(accepted, req, v, Head(table[s]))
        <5>1. Head(t) = t[1] /\ 1 \in DOMAIN t
          <6>1. PICK N : N = Len(req)
            OBVIOUS
          <6>2. t \in Seq(1..N) /\ t # <<>>
            BY <1>6, <2>1, <2>2, <6>1 DEF Ordered, Types, Typed
          <6> QED BY ONLY <6>2, HeadFirst
        <5>2. Leading(s, 1)
          BY <2>2, <4>2, <5>1 DEF Leading
        <5> QED BY <1>6, <2>2, <5>1, <5>2 DEF GoodIn
      <4>5. Reads(i)'
        <5>1. n \in 1..n
          BY <2>3, <4>1
        <5> QED BY <2>4, <4>1, <5>1
      <4> QED BY <1>0, <1>6, <4>1, <4>3, <4>4, <4>5, JoinsFollower
    <3> QED BY <3>2, <3>3
  <2> QED BY <1>0, <2>2, <2>4 DEF GoodIn, Leading
<1>7. ASSUME NEW j \in Ids, Kind(j) = "spmld" PROVE req[j].at \in Slots
  BY <1>7, ReqKnown, RoutesAssumption, SequencerAssumption DEF Kind, SpmKinds, Ids, Ordered, Types
<1>8. RespGood'
  <2>1. ASSUME NEW k \in DOMAIN resp, Kind(resp[k].msg)' = "spmld"
        PROVE  /\ GoodIn(resp[k].val, req[resp[k].msg].at)'
               /\ \A c \in Range(b) :
                    /\ CopyIn(b, w, c, w[resp[k].msg].at)
                    /\ Bef(b, resp[k].msg, c) /\ c \in Reached
                    => \/ \E l \in DOMAIN resp : l > k /\ resp[l].msg = c
                       \/ NotOlder(b, w, resp[k].val, c)
    <3>1. PICK m, s, v : /\ m = resp[k].msg /\ s = req[m].at /\ v = resp[k].val
                         /\ m = resp'[k].msg /\ v = resp'[k].val
      BY <1>5
    <3>2. m \in Flight /\ Spm(m) /\ m \in Ids
      BY <1>5, <2>1, <3>1, FlightSent DEF Flight, RespMsgs, Transactions, Lanes, Ordered, Ids
    <3>3. Kind(m) = "spmld" /\ w[m] = q[m] /\ s = w[m].at /\ s \in Slots
      <4>1. Kind(m)' = "spmld"
        BY <2>1, <3>1 DEF Kind
      <4> QED BY <1>0, <1>2, <1>7, <3>1, <3>2, <4>1
    <3>4. table[s] # <<>> /\ Head(table[s]) = m /\ m \in Range(a)
      BY <1>0, <1>1, <3>1, <3>2, SpmLeads
    <3>5. /\ GoodIn(v, s)
          /\ \A c \in Range(a) :
               CopyIn(a, q, c, s) /\ Bef(a, m, c) /\ c \in Reached
               => \/ \E l \in DOMAIN resp : l > k /\ resp[l].msg = c
                  \/ NotOlder(a, q, v, c)
      <4>1. Kind(resp[k].msg) = "spmld"
        BY <3>1, <3>3
      <4>2. /\ GoodIn(resp[k].val, req[resp[k].msg].at)
            /\ \A c \in Range(accepted) :
                 /\ CopyIn(accepted, req, c, req[resp[k].msg].at)
                 /\ Bef(accepted, resp[k].msg, c) /\ c \in Reached
                 => \/ \E l \in DOMAIN resp : l > k /\ resp[l].msg = c
                    \/ NotOlder(accepted, req, resp[k].val, c)
        BY <1>1, <4>1 DEF RespGood
      <4> QED BY <1>0, <3>1, <4>2
    <3>6. GoodIn(v, s)'
      <4>1. ASSUME NEW c \in Range(a) \cap DOMAIN result, CopyIn(a, q, c, s), Bef(a, m, c)
            PROVE  NotOlder(a, q, v, c)
        <5>1. c \in Reached /\ c \notin Flight
          BY <1>0, <1>1, <4>1, OwnReached DEF CopyIn, Kind, SpmWrites
        <5> QED BY <3>5, <4>1, <5>1 DEF Flight, RespMsgs
      <4> QED BY <1>0, <1>6, <3>3, <3>4, <3>5, <4>1
    <3>7. ASSUME NEW c \in Range(b), CopyIn(b, w, c, s), Bef(b, m, c), c \in Reached
          PROVE  \/ \E l \in DOMAIN resp : l > k /\ resp[l].msg = c
                 \/ NotOlder(b, w, v, c)
      <4>1. c \in Range(a)
        BY <1>1, <1>5, <3>7
      <4>2. CopyIn(a, q, c, s) /\ Bef(a, m, c)
        BY <1>1, <3>4, <3>7, <4>1 DEF CopyIn
      <4> QED BY <1>4, <3>5, <3>7, <4>1, <4>2
    <3>8. GoodIn(resp[k].val, req[resp[k].msg].at)'
      <4>1. s = req'[resp'[k].msg].at
        BY <1>0, <3>1, <3>3
      <4> QED BY <3>1, <3>6, <4>1 DEF GoodIn
    <3> QED BY <3>1, <3>3, <3>7, <3>8
  <2> QED BY <1>0, <1>5, <2>1 DEF RespGood
<1>9. CbGood'
  <2> SUFFICES ASSUME Loaded' PROVE CbGood'
    BY DEF CbGood
  <2>1. Loaded /\ cb # NoCallback /\ cb.step = "hit"
    BY <1>5 DEF Loaded, CoreRuns
  <2>2. PICK s, v, h : s = cb.at /\ v = cb.val /\ h = Head(table[s])
    OBVIOUS
  <2>3. table[s] # <<>> /\ cb.msg \in Ids /\ s = req[cb.msg].at
    BY <2>1, <2>2 DEF Ordered, Types, Typed, Callbacks, Ids, Transactions, Serving
  <2>4. s \in Slots
    <3>1. Kind(cb.msg) = "spmld"
      BY <1>1, <2>1 DEF Serviced, Loaded, Reads, Spm, SpmKinds
    <3> QED BY <1>7, <2>3, <3>1
  <2>5. /\ GoodIn(v, s)
        /\ \A c \in Range(accepted) \cap DOMAIN result :
             CopyIn(accepted, req, c, s) /\ Bef(accepted, h, c) => NotOlder(accepted, req, v, c)
    BY <1>1, <2>1, <2>2, <2>3 DEF CbGood
  <2>6. GoodIn(v, s)'
    BY <1>6, <2>2, <2>3, <2>4, <2>5
  <2>7. h \in Range(a) /\ Head(table'[s]) = h
    <3>1. s \in Keys
      BY <2>4 DEF Keys
    <3>2. h \in LiveIn(table)
      BY <2>2, <2>3, <3>1, LeaderLive
    <3> QED BY <1>0, <1>1, <2>2, <2>3, <3>1, <3>2, JoinsLists DEF History
  <2>8. ASSUME NEW c \in Range(b) \cap DOMAIN result', CopyIn(b, w, c, s), Bef(b, h, c)
        PROVE  NotOlder(b, w, v, c)
    <3>1. c \in Range(a) \cap DOMAIN result
      BY <1>1, <1>5, <2>8
    <3>2. CopyIn(a, q, c, s) /\ Bef(a, h, c)
      BY <1>1, <2>7, <2>8, <3>1 DEF CopyIn
    <3> QED BY <1>0, <1>4, <2>5, <3>1, <3>2
  <2>9. s = cb'.at /\ v = cb'.val
    BY <1>5, <2>2
  <2>10. GoodIn(cb.val, cb.at)'
    BY <2>6, <2>9 DEF GoodIn
  <2> QED BY <1>0, <2>7, <2>8, <2>9, <2>10 DEF CbGood
<1> QED BY <1>8, <1>9

\* A request of the core or of a port, new or sent again.
LEMMA RequestAnswers ==
  ASSUME Ordered, Transactions, Answers, NEW r \in Requests, NEW p \in Ports,
         (Send(r) /\ p = PortOf(r)) \/ Resend(p)
  PROVE  Answers'
<1>0. /\ Types /\ Counted /\ Unsent /\ History /\ Exclusive /\ Len(req) \in Nat
      /\ Range(order) \subseteq 1..Len(req) /\ req \in Seq(Requests)
  BY QueueKnown DEF Ordered, Answers, Types
<1>1. /\ LiveIn(table) \subseteq Ids /\ Range(replays) \subseteq Ids /\ Range(accepted) \subseteq Ids
      /\ \A o \in Ports : pend[o] \in 0..Len(req)
  <2>1. PICK N, t : N = Len(req) /\ t = table
    OBVIOUS
  <2>2. N \in Nat /\ t \in [Keys -> Seq(1..N)] /\ replays \in Seq(1..N) /\ pend \in [Ports -> 0..N]
    BY <1>0, <2>1 DEF Types, Typed
  <2>3. LiveIn(t) \subseteq 1..N /\ Range(replays) \subseteq 1..N
    BY <2>2, LiveKnown, RangeOfSeq
  <2>4. Range(accepted) \subseteq Ids
    BY <1>0, RangeOfSeq DEF History
  <2> QED BY <2>1, <2>2, <2>3, <2>4 DEF Ids
<1>2. ASSUME NEW i, NEW z \in Requests, Joins(p, i, z), Waits(i, z), CoreRuns PROVE Answers'
  BY <1>2, JoinsHistory, JoinsGood DEF Answers
<1>3. CASE Send(r) /\ p = PortOf(r)
  <2>1. PICK i : i = Len(req) + 1
    OBVIOUS
  <2>2. /\ i \in Nat \ {0} /\ i \notin Ids /\ i \notin 0..Len(req) /\ Ids \cup {i} = 1..(Len(req) + 1)
        /\ cb = NoCallback /\ ~ LsqHolds(r) /\ pend[p] = NoMsg
    BY <1>0, <1>3, <2>1 DEF Ids, Send
  <2>3. MakeRequest(p, i, r) /\ UNCHANGED <<cb, below>> /\ CoreRuns
    BY <1>3, <2>1 DEF Send, CoreRuns
  <2>4. Ids' = Ids \cup {i} /\ req'[i] = r /\ \A j \in Ids : req'[j] = req[j]
    <3>1. req' = Append(req, r)
      BY <1>3 DEF Send
    <3>2. /\ Len(Append(req, r)) = Len(req) + 1 /\ Append(req, r)[Len(req) + 1] = r
          /\ \A j \in 1..Len(req) : Append(req, r)[j] = req[j]
      BY <1>0, AppendProperties
    <3> QED BY <2>1, <2>2, <3>1, <3>2 DEF Ids
  <2>5. /\ i \notin Range(accepted) /\ i \notin DOMAIN result /\ i \notin Sent /\ i \notin LiveIn(table)
        /\ \A o \in Ports \ {p} : pend[o] # i
    BY <1>0, <1>1, <2>2 DEF Sent, History, Ids
  <2>6. Joins(p, i, r)
    BY <1>0, <2>2, <2>3, <2>4, <2>5, RequestJoins
  <2>7. ASSUME NEW c \in Unans \ {i}, req[c].slot = r.slot
        PROVE  /\ Kind(c) = "spmcp" => r.kind \notin SpmKinds
               /\ r.kind = "spmcp" => Kind(c) # "spmst" /\ (Kind(c) = "spmld" => c \in Range(accepted))
    <3>1. c \in Ids /\ c \notin DOMAIN result
      BY <2>7 DEF Unans
    <3>2. Kind(c) = "spmcp" => r.kind \notin SpmKinds
      BY <2>2, <2>7, <3>1 DEF LsqHolds, Unanswered, Pure, SpmKinds
    <3>3. r.kind = "spmcp" => Kind(c) # "spmst"
      BY <2>2, <2>7, <3>1 DEF LsqHolds, Unanswered
    <3>4. ASSUME r.kind = "spmcp", Kind(c) = "spmld", c \notin LiveIn(table) PROVE FALSE
      <4>1. PICK o \in Ports : pend[o] = c
        BY <1>0, <2>7, <3>4 DEF History
      <4>2. c # NoMsg /\ req[c] \in Requests
        BY <1>0, <3>1, ReqKnown DEF Ids, NoMsg
      <4>3. PortOf(req[c]) = o
        BY <1>0, <4>1, <4>2 DEF Counted, Placed
      <4>4. PortOf(req[c]) = PortOf(r)
        BY <3>4, <4>2, RoutesAssumption DEF Kind, SpmKinds
      <4> QED BY <1>3, <2>2, <4>1, <4>2, <4>3, <4>4
    <3> QED BY <1>0, <3>2, <3>3, <3>4 DEF History
  <2> QED BY <1>2, <2>3, <2>6, <2>7 DEF Waits
<1>4. CASE Resend(p)
  <2>1. PICK i, z : i = pend[p] /\ z = req[i]
    OBVIOUS
  <2>2. i \in 1..Len(req) /\ i \in Ids /\ i # NoMsg /\ i \in Nat \ {0} /\ z \in Requests
    <3>1. i # NoMsg /\ i \in 1..Len(req)
      BY <1>0, <1>1, <1>4, <2>1 DEF Resend, NoMsg
    <3> QED BY <1>0, <2>1, <3>1, ReqKnown DEF Ids
  <2>3. MakeRequest(p, i, z) /\ UNCHANGED <<cb, below>> /\ CoreRuns /\ req' = req
    BY <1>4, <2>1 DEF Resend
  <2>4. Ids' = Ids \cup {i} /\ req'[i] = z /\ \A j \in Ids : req'[j] = req[j]
    BY <2>1, <2>2, <2>3 DEF Ids
  <2>5. /\ i \notin Range(accepted) /\ i \notin DOMAIN result /\ i \notin Sent /\ i \notin LiveIn(table)
        /\ \A o \in Ports \ {p} : pend[o] # i
    <3>1. i \notin Range(accepted) /\ i \notin DOMAIN result
      BY <1>0, <2>1 DEF History
    <3>2. i \notin Sent /\ i \notin LiveIn(table) /\ \A o \in Ports \ {p} : pend[o] # i
      BY <1>0, <2>1, <2>2 DEF Counted, Placed, Unsent
    <3> QED BY <3>1, <3>2
  <2>6. Joins(p, i, z)
    BY <1>0, <2>1, <2>2, <2>3, <2>4, <2>5, RequestJoins
  <2>7. ASSUME NEW c \in Unans \ {i}, req[c].slot = z.slot
        PROVE  /\ Kind(c) = "spmcp" => z.kind \notin SpmKinds
               /\ z.kind = "spmcp" => Kind(c) # "spmst" /\ (Kind(c) = "spmld" => c \in Range(accepted))
    <3>1. i \in Unans /\ c \in Unans /\ c # i /\ Kind(i) = z.kind /\ req[i].slot = z.slot
      BY <2>1, <2>2, <2>5, <2>7 DEF Unans, Kind
    <3>2. Kind(c) = "spmcp" => z.kind \notin SpmKinds
      BY <1>0, <2>5, <2>7, <3>1 DEF Exclusive, SpmKinds, SpmWrites
    <3>3. z.kind = "spmcp" => Kind(c) # "spmst" /\ (Kind(c) = "spmld" => c \in Range(accepted))
      BY <1>0, <2>5, <2>7, <3>1 DEF Exclusive, SpmWrites
    <3> QED BY <3>2, <3>3
  <2> QED BY <1>2, <2>2, <2>3, <2>6, <2>7 DEF Waits
<1> QED BY <1>3, <1>4

\* The L1 fetches copies only.
LEMMA CopiesStep ==
  ASSUME Ordered, Copies, [Next]_vars
  PROVE  Copies'
<1>1. /\ \A i \in atL1' : i \in atL1 \/ (i \in Range(toL1) /\ Kind(i) = "spmcp")
  <2>1. CASE L1Take
    <3>1. Head(toL1) \in Range(toL1)
      <4>1. PICK N, s : N = Len(req) /\ s = toL1
        OBVIOUS
      <4>2. s \in Seq(1..N) /\ s # <<>>
        BY <2>1, <4>1 DEF L1Take, Ordered, Types, Typed
      <4>3. Head(s) \in Range(s)
        BY <4>2, HeadFirst DEF Range
      <4> QED BY <4>1, <4>3
    <3> QED BY <2>1, <3>1 DEF L1Take
  <2>2. ASSUME NEW i, L1Install(i) PROVE atL1' \subseteq atL1
    BY <2>2 DEF L1Install
  <2>3. CASE ~ L1Take /\ ~ (\E i \in Ids : L1Install(i))
    <3>1. atL1' = atL1
      BY <2>3 DEF Next, vars, below, Send, Resend, HitCallback, PopFront, Reissue, CallbackDone,
         L0Hit, L0Miss, L0Spm, L0Stall, StallAndWait, Response, SpmResponse, ServiceIngress, Tick
    <3> QED BY <3>1
  <2> QED BY <2>1, <2>2, <2>3
<1>2. \A i \in atL1 \cup Range(toL1) : i \in 1..Len(req)
  <2>1. PICK N, s : N = Len(req) /\ s = toL1
    OBVIOUS
  <2>2. s \in Seq(1..N) /\ atL1 \subseteq 1..N
    BY <2>1 DEF Ordered, Types, Typed
  <2>3. Range(s) \subseteq 1..N
    BY ONLY <2>2, RangeOfSeq
  <2> QED BY <2>1, <2>2, <2>3
<1>3. \A i \in 1..Len(req) : req'[i] = req[i]
  <2>1. CASE \E r \in Requests : Send(r)
    BY <2>1, AppendProperties DEF Send, Ordered, Types
  <2>2. CASE ~ \E r \in Requests : Send(r)
    BY <2>2 DEF Next, vars, Resend, HitCallback, PopFront, Reissue, CallbackDone, L1Take,
       L1Install, L0Hit, L0Miss, L0Spm, L0Stall, StallAndWait, Response, SpmResponse, ServiceIngress, Tick
  <2> QED BY <2>1, <2>2
<1> QED BY <1>1, <1>2, <1>3 DEF Copies, Kind

\* No step answers a request wrongly.
LEMMA AnswersStep ==
  ASSUME Ordered, Transactions, Copies, Answers, [Next]_vars
  PROVE  Answers'
<1>1. CASE UNCHANGED vars
  BY <1>1, QuietStep
<1>2. ASSUME NEW r \in Requests, Send(r) PROVE Answers'
  <2>1. PortOf(r) \in Ports
    BY SequencerAssumption
  <2> QED BY <1>2, <2>1, RequestAnswers
<1>3. ASSUME NEW p \in Ports, Resend(p) PROVE Answers'
  <2>1. pend[p] \in 1..Len(req)
    <3>1. PICK N : N = Len(req)
      OBVIOUS
    <3>2. pend[p] \in 0..N /\ pend[p] # 0 /\ N \in Nat
      BY <1>3, <3>1, LenProperties DEF Resend, Ordered, Types, Typed, NoMsg
    <3>3. pend[p] \in 1..N
      BY <3>2
    <3> QED BY <3>1, <3>3
  <2>2. req[pend[p]] \in Requests
    BY <2>1, ReqKnown DEF Ordered, Types
  <2> QED BY <1>3, <2>2, RequestAnswers
<1>4. CASE HitCallback \/ PopFront \/ Reissue \/ CallbackDone
  BY <1>4, HitAnswers, PopAnswers, QuietStep
<1>5. ASSUME NEW i, L0Hit \/ L0Miss \/ L0Spm \/ L0Stall \/ StallAndWait(i) \/ Response(i)
      PROVE  Answers'
  BY <1>5, QuietStep
<1>6. ASSUME NEW i, L1Take \/ L1Install(i) PROVE Answers'
  BY <1>6, L1Answers
<1>7. ASSUME NEW k \in DOMAIN resp, SpmResponse(k) PROVE Answers'
  BY <1>7, ResponseAnswers
<1>8. CASE ServiceIngress \/ Tick
  BY <1>8, QuietStep
<1> QED BY <1>1, <1>2, <1>3, <1>4, <1>5, <1>6, <1>7, <1>8 DEF Next

\* At the start nothing was asked.
LEMMA AnswersInit == Init => Answers /\ Copies
<1> SUFFICES ASSUME Init PROVE Answers /\ Copies
  OBVIOUS
<1>1. /\ req = <<>> /\ order = <<>> /\ resp = <<>> /\ result = <<>> /\ accepted = <<>>
      /\ atL1 = {} /\ cb = NoCallback /\ table = [k \in Keys |-> <<>>]
      /\ pend = [p \in Ports |-> NoMsg] /\ store = [k \in Keys |-> NoWriter]
  BY DEF Init, QueueInit
<1>2. Ids = {} /\ Unans = {} /\ DOMAIN result = {} /\ DOMAIN resp = {}
  BY <1>1 DEF Ids, Unans
<1>3. Range(accepted) = {} /\ accepted \in Seq(Ids) /\ IsInjective(accepted)
  BY <1>1, <1>2 DEF Range, IsInjective
<1>4. LiveIn(table) = {} /\ \A k \in Keys : DOMAIN table[k] = {} /\ Range(table[k]) = {}
  BY <1>1 DEF LiveIn, Range
<1>5. cb.step # "hit"
  BY <1>1 DEF NoCallback
<1>6. History /\ Listed
  BY <1>2, <1>3, <1>4, <1>5 DEF History, Listed
<1>7. Stored /\ Exclusive /\ Serviced
  BY <1>1, <1>2, <1>3 DEF Stored, Exclusive, Serviced
<1>8. RespGood /\ CbGood /\ ReadsGood /\ Copies
  BY <1>1, <1>2, <1>3 DEF RespGood, CbGood, ReadsGood, Copies, Loaded
<1> QED BY <1>6, <1>7, <1>8 DEF Answers

\* The history says of every read what the property says in places.
LEMMA AnswersRight ==
  ASSUME Ordered, Transactions, Answers
  PROVE  AnsweredRight
<1>0. PICK a : a = accepted
  OBVIOUS
<1>1. /\ History /\ Serviced /\ ReadsGood /\ a \in Seq(Ids) /\ IsInjective(a)
  BY <1>0 DEF Answers, History
<1>2. DOMAIN a = 1..Len(a) /\ Len(a) \in Nat /\ \A x \in Range(a) : x \in Ids
  BY <1>1, LenProperties, RangeOfSeq
<1>3. ASSUME NEW n \in DOMAIN a PROVE Place(a[n]) = n
  BY <1>0, <1>1, <1>3 DEF Place, IsInjective
<1>4. \A x, k : Writes(x, k) <=> WritesIn(req, x, k)
  BY DEF Writes, WritesIn, Kind, SpmWrites
<1>5. ASSUME NEW n \in DOMAIN a, NEW v, LastFor(a, req, v, a[n], req[a[n]].at)
      PROVE  LastWriter(a[n]) = v
  <2>1. PICK k, B : k = req[a[n]].at /\ B = {m \in 1..(n - 1) : Writes(a[m], k)}
    OBVIOUS
  <2>2. LastWriter(a[n]) = IF B = {} THEN NoWriter ELSE a[Max(B)]
    BY <1>0, <1>3, <2>1 DEF LastWriter
  <2>3. \A m \in B : m \in DOMAIN a /\ m < n /\ m \in Nat /\ Bef(a, a[m], a[n]) /\ a[m] \in Range(a)
                     /\ WritesIn(req, a[m], k)
    <3>1. \A m \in B : m \in DOMAIN a /\ m < n /\ m \in Nat /\ WritesIn(req, a[m], k)
      BY <1>2, <1>4, <2>1
    <3> QED BY <3>1 DEF Bef, Range
  <2>4. CASE v = NoWriter /\ \A x \in Range(a) : WritesIn(req, x, k) => ~ Bef(a, x, a[n])
    <3>1. B = {}
      BY <2>3, <2>4
    <3> QED BY <2>2, <2>4, <3>1
  <2>5. CASE /\ v \in Range(a) /\ WritesIn(req, v, k) /\ Bef(a, v, a[n])
             /\ \A x \in Range(a) : WritesIn(req, x, k) /\ Bef(a, x, a[n]) => x = v \/ Bef(a, x, v)
    <3>1. PICK m \in DOMAIN a : a[m] = v /\ m < n
      <4>1. PICK m, l \in DOMAIN a : m < l /\ a[m] = v /\ a[l] = a[n]
        BY <2>5 DEF Bef
      <4>2. l = n
        BY <1>1, <4>1 DEF IsInjective
      <4> QED BY <4>1, <4>2
    <3>2. m \in B
      BY <1>2, <1>4, <2>1, <2>5, <3>1
    <3>3. ASSUME NEW x \in B PROVE m >= x
      <4>1. a[x] = v \/ Bef(a, a[x], v)
        BY <2>3, <2>5
      <4>2. CASE a[x] = v
        BY <1>1, <1>2, <2>3, <3>1, <4>2 DEF IsInjective
      <4>3. CASE Bef(a, a[x], v)
        <5>1. PICK y, z \in DOMAIN a : y < z /\ a[y] = a[x] /\ a[z] = v
          BY <4>3 DEF Bef
        <5>2. y = x /\ z = m
          BY <1>1, <2>3, <3>1, <5>1 DEF IsInjective
        <5> QED BY <1>2, <5>1, <5>2
      <4> QED BY <4>1, <4>2, <4>3
    <3>4. Max(B) = m
      <4>1. \A y \in B : (\A x \in B : y >= x) => y = m
        BY <1>2, <2>3, <3>2, <3>3
      <4> QED BY <3>2, <3>3, <4>1 DEF Max
    <3> QED BY <2>2, <3>1, <3>2, <3>4
  <2> QED BY <1>5, <2>1, <2>4, <2>5 DEF LastFor
<1>6. ReadsLast
  <2>1. ASSUME NEW i \in Range(accepted) \cap DOMAIN result, Kind(i) \in {"ld", "if", "spmld"}
        PROVE  \/ result[i] = LastWriter(i)
               \/ /\ Kind(i) = "spmld" /\ result[i] # NoWriter
                  /\ Kind(result[i]) = "spmcp"
                  /\ Place(result[i]) > Place(i)
    <3>1. PICK n, v : n \in DOMAIN a /\ a[n] = i /\ v = result[i]
      BY <1>0 DEF Range
    <3>2. CASE LastFor(a, req, v, i, req[i].at)
      BY <1>5, <3>1, <3>2
    <3>3. CASE Kind(i) = "spmld" /\ CopyIn(a, req, v, req[i].at) /\ Bef(a, i, v)
      <4>1. v # NoWriter /\ Kind(v) = "spmcp"
        BY <1>2, <3>3 DEF CopyIn, Kind, NoWriter, Ids
      <4>2. PICK m, l \in DOMAIN a : m < l /\ a[m] = i /\ a[l] = v
        BY <3>3 DEF Bef
      <4>3. Place(i) = m /\ Place(v) = l
        BY <1>3, <4>2
      <4>4. Place(v) > Place(i)
        BY <1>2, <4>2, <4>3
      <4> QED BY <3>1, <3>3, <4>1, <4>4
    <3> QED BY <1>0, <1>1, <2>1, <3>1, <3>2, <3>3 DEF ReadsGood, Good
  <2> QED BY <2>1 DEF ReadsLast
<1>7. OwnTransaction
  <2>1. ASSUME NEW i \in DOMAIN result, Kind(i) \in {"spmst", "spmcp"}
        PROVE  i \in Range(order) \ (heap \cup Range(toL1) \cup atL1)
    BY <1>1, <2>1, OwnReached DEF Reached, SpmWrites
  <2> QED BY <2>1 DEF OwnTransaction
<1> QED BY <1>6, <1>7 DEF AnsweredRight

=============================================================================
