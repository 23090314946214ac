----------------------------- MODULE Sequencer ------------------------------
(***************************************************************************)
(* A core's Sequencer (mem/ruby/system/Sequencer.cc) between the retrying  *)
(* ports of RubyPort.cc and the finite mandatory queue of Ingress, with    *)
(* the part of the L0 and L1 controllers that serves its requests: hits,   *)
(* misses under a finite miss pool, and the SPM path to the private array. *)
(*                                                                         *)
(* Callbacks are not atomic: hitCallback answers the core before the       *)
(* request leaves the table, and the answer re-enters makeRequest through  *)
(* the port.  `cb' is the callback that is running.                        *)
(*                                                                         *)
(* The value of a line or slot is the number of the request that last      *)
(* wrote it.                                                               *)
(***************************************************************************)
EXTENDS Ingress

CONSTANTS
    Requests,    \* [kind, at, slot, size]: what the ports may ask for
    Ports, PortOf(_), \* the fetch and the data port
    MaxReqs,     \* bound on requests
    Asks(_),     \* the sequences of requests the core may make
    MaxOutstanding, FetchCredits, BridgeCredits, \* admission domains
    LineTargets, \* m_max_line_targets, 0 for none
    MicroTargets, \* m_micro_targets, for a line that is being missed, 0 for none
    MissCredits, \* the micro miss pool of each side, 0 for none
    BridgePool   \* bridge write credits held between L0 and L1

SpmKinds == {"spmld", "spmst", "spmcp"}
ASSUME SequencerAssumption ==
    /\ \A r \in Requests : r.at \in Keys /\ PortOf(r) \in Ports
    /\ \A r \in Requests : r.kind \in SpmKinds => r.slot \in Slots
    /\ MaxReqs \in Nat
    /\ FetchCredits \in Nat /\ BridgeCredits \in Nat
    /\ MaxOutstanding \in Nat /\ MaxOutstanding > FetchCredits + BridgeCredits
    /\ LineTargets \in Nat /\ MicroTargets \in Nat
    /\ MissCredits \in Nat
    /\ BridgePool \in Nat \ {0}
\* Loads and stores of a slot are kept by the slot (rubyRequestAddress),
\* everything else (copies by their source) by a memory line; SPM requests
\* come from the data port.  Claims, writebacks and releases of a slot, which
\* rubyRequestAddress also keeps by the slot, are not among the requests of
\* this module.
ASSUME RoutesAssumption ==
    /\ \A r \in Requests :
          r.at \in IF r.kind \in {"spmld", "spmst"} THEN {r.slot} ELSE Lines
    /\ \A r, q \in Requests :
          r.kind \in SpmKinds /\ q.kind \in SpmKinds => PortOf(r) = PortOf(q)

VARIABLES
    table,        \* m_RequestTable: the requests of each line, oldest first
    outstanding,  \* m_outstanding_count
    pend,         \* per port: the packet it still has to send, or NoMsg
    waiting,      \* per port: whether it is on the retry list
    replays,      \* m_ingress_replays
    ingressRetry, \* m_ingress_retry
    event,        \* ingressEvent: "none", "next" cycle, or "due"
    cb,           \* the running callback, or NoCallback
    missing,      \* requests that wait for their line
    toL1,         \* SPM requests between the L0 and the L1, in order
    atL1,         \* copies the L1 is fetching
    resp,         \* SPM responses to the L0: [msg, val]
    store,        \* the writer of each line and slot
    result,       \* what each answered request was given
    accepted      \* history: the requests in the order they were accepted

core == <<pend, waiting>>
admission == <<table, outstanding, replays, ingressRetry, event, accepted>>
below == <<missing, toL1, atL1, resp, store>>
vars == <<req, queue, core, admission, cb, below, result>>

NoCallback == [step |-> "none"]
NoWriter == 0

Init ==
    /\ req = <<>>
    /\ QueueInit
    /\ table = [k \in Keys |-> <<>>]
    /\ outstanding = 0
    /\ pend = [p \in Ports |-> NoMsg]
    /\ waiting = [p \in Ports |-> FALSE]
    /\ replays = <<>>
    /\ ingressRetry = FALSE
    /\ event = "none"
    /\ cb = NoCallback
    /\ missing = {}
    /\ toL1 = <<>>
    /\ atL1 = {}
    /\ resp = <<>>
    /\ store = [k \in Keys |-> NoWriter]
    /\ result = <<>>
    /\ accepted = <<>>

Ids == 1..Len(req)
Kind(i) == req[i].kind
Spm(i) == Kind(i) \in SpmKinds
Reads(i) == Kind(i) \in {"ld", "if", "pf", "spmld"}
Pure(r) == r.kind \in {"spmld", "spmst"}

\* The packet of request i becomes a response with this data.
Answer(i, val) ==
    [j \in DOMAIN result \cup {i} |-> IF j \in DOMAIN result THEN result[j] ELSE val]

Schedule == event' = IF event = "none" THEN "next" ELSE event

(***************************************************************************)
(* makeRequest.                                                            *)
(***************************************************************************)
\* Live records; the one whose callback runs has given up its credit.
Live == UNION {Range(table[k]) : k \in Keys}
Active == Live \ (IF cb.step = "hit"
                  THEN {Head(table[cb.at])} ELSE {})
Fetching == {i \in Active : Kind(i) = "if"}
Bridging == {i \in Active : Kind(i) = "spmcp"}

MissFull(r) ==
    /\ ~ Pure(r)
    /\ MissCredits # 0
    /\ Cardinality({i \in missing : (Kind(i) = "if") = (r.kind = "if")})
           >= MissCredits
IngressFull(r) ==
    MissFull(r) \/ replays # <<>> \/ ~ AreSlotsAvailable(1)

AdmissionFull(r) ==
    \/ outstanding >= MaxOutstanding
    \/ IF FetchCredits > 0 /\ r.kind = "if"
       THEN Cardinality(Fetching) >= FetchCredits
       ELSE IF BridgeCredits > 0 /\ r.kind = "spmcp"
       THEN Cardinality(Bridging) >= BridgeCredits
       ELSE /\ FetchCredits + BridgeCredits > 0
            /\ outstanding
                 - (IF FetchCredits > 0 THEN Cardinality(Fetching) ELSE 0)
                 - (IF BridgeCredits > 0 THEN Cardinality(Bridging) ELSE 0)
               >= MaxOutstanding - FetchCredits - BridgeCredits

LiveMiss(k) == \E i \in missing : req[i].at = k
TargetsFull(r) ==
    \/ MicroTargets > 0 /\ LiveMiss(r.at) /\ Len(table[r.at]) >= MicroTargets
    \/ LineTargets > 0 /\ Len(table[r.at]) >= LineTargets
Dropped(r) == r.kind = "pf" /\ Len(table[r.at]) > 1

\* RubyPort: a request that is not issued puts its port on the retry list.
Refuse(p, i) ==
    /\ pend' = [pend EXCEPT ![p] = i]
    /\ waiting' = [waiting EXCEPT ![p] = TRUE]
    /\ UNCHANGED <<queue, table, outstanding, replays, accepted, result>>
Taken(p) ==
    /\ pend' = [pend EXCEPT ![p] = NoMsg]
    /\ UNCHANGED <<waiting, replays, ingressRetry, event>>
RefuseIngress(p, i, r) ==
    /\ IngressFull(r)
    /\ Refuse(p, i)
    /\ ingressRetry' = TRUE
    /\ Schedule
RefuseAdmission(p, i, r) ==
    /\ ~ IngressFull(r)
    /\ AdmissionFull(r) \/ (TargetsFull(r) /\ ~ Dropped(r))
    /\ Refuse(p, i)
    /\ UNCHANGED <<ingressRetry, event>>
\* Defect: the dropped prefetch is counted as outstanding.
DropPrefetch_Count(p, i, r) ==
    /\ ~ IngressFull(r) /\ ~ AdmissionFull(r) /\ Dropped(r)
    /\ Taken(p)
    /\ result' = Answer(i, NoWriter)
    /\ outstanding' = outstanding + 1
    /\ UNCHANGED <<queue, table, accepted>>
\* insertRequest answers Aliased for a prefetch without recording it.
DropPrefetch(p, i, r) ==
    /\ ~ IngressFull(r) /\ ~ AdmissionFull(r) /\ Dropped(r)
    /\ Taken(p)
    /\ result' = Answer(i, NoWriter)
    /\ UNCHANGED <<queue, table, outstanding, accepted>>
\* Defect: an aliased request is issued as well.
Accept_Both(p, i, r) ==
    /\ ~ IngressFull(r) /\ ~ AdmissionFull(r)
    /\ ~ TargetsFull(r) /\ ~ Dropped(r)
    /\ Taken(p)
    /\ table' = [table EXCEPT ![r.at] = Append(@, i)]
    /\ outstanding' = outstanding + 1
    /\ accepted' = Append(accepted, i)
    /\ EnqueueAll(<<i>>)
    /\ UNCHANGED result
\* Only the first request of a line goes to the cache.
Accept(p, i, r) ==
    /\ ~ IngressFull(r) /\ ~ AdmissionFull(r)
    /\ ~ TargetsFull(r) /\ ~ Dropped(r)
    /\ Taken(p)
    /\ table' = [table EXCEPT ![r.at] = Append(@, i)]
    /\ outstanding' = outstanding + 1
    /\ accepted' = Append(accepted, i)
    /\ IF table[r.at] = <<>> THEN EnqueueAll(<<i>>) ELSE UNCHANGED queue
    /\ UNCHANGED result
MakeRequest(p, i, r) ==
    \/ RefuseIngress(p, i, r)
    \/ RefuseAdmission(p, i, r)
    \/ DropPrefetch(p, i, r)
    \/ Accept(p, i, r)

\* Between two callback steps the core runs only inside an answer.
CoreRuns == cb = NoCallback \/ cb.step = "hit"
\* What the core's LSQ, and the DSB a program puts before it reuses a slot,
\* promise (module Lsq): nothing is sent to a slot while a copy into it is
\* unanswered, and no copy while a store to it is.
Unanswered(kinds, s) ==
    \E i \in Ids : Kind(i) \in kinds /\ req[i].slot = s /\ i \notin DOMAIN result
LsqHolds(r) ==
    \/ Pure(r) /\ Unanswered({"spmcp"}, r.slot)
    \/ r.kind = "spmcp" /\ Unanswered({"spmst", "spmcp"}, r.slot)
Send(r) ==
    /\ cb = NoCallback
    /\ ~ LsqHolds(r)
    /\ Len(req) < MaxReqs /\ Asks(Append(req, r))
    /\ pend[PortOf(r)] = NoMsg
    /\ req' = Append(req, r)
    /\ MakeRequest(PortOf(r), Len(req) + 1, r)
    /\ UNCHANGED <<cb, below>>
Resend(p) ==
    /\ CoreRuns
    /\ pend[p] # NoMsg /\ ~ waiting[p]
    /\ MakeRequest(p, pend[p], req[pend[p]])
    /\ UNCHANGED <<req, cb, below>>

(***************************************************************************)
(* writeCallback and readCallback, one request of the line at a time.      *)
(***************************************************************************)
Callback(i, val, by) ==
    cb' = [at |-> req[i].at, write |-> ~ Reads(i), spm |-> Spm(i),
           first |-> TRUE, val |-> val, size |-> req[i].size,
           by |-> by, msg |-> i, step |-> "serve"]

\* Defect: the acknowledgment of an SPM store answers the line's followers.
Served_Ack(i) ==
    \/ cb.first
    \/ cb.write /\ ~ Spm(i)
    \/ cb.write /\ cb.spm
    \/ ~ cb.write /\ Reads(i)
Served(i) ==
    \/ cb.first
    \/ cb.write /\ ~ cb.spm /\ ~ Spm(i)
    \/ ~ cb.write /\ Reads(i)

Leader == Head(table[cb.at])
\* Defect: an answered prefetch does not wake the ports.
Retries_NoPrefetch(i) == IF Kind(i) = "pf" THEN waiting ELSE [p \in Ports |-> FALSE]
\* ruby_hit_callback, or the prefetch path: every waiting port may try again.
Retries(i) == [p \in Ports |-> FALSE]

HitCallback ==
    /\ cb.step = "serve" /\ table[cb.at] # <<>> /\ Served(Leader)
    /\ outstanding' = outstanding - 1
    /\ store' = IF Kind(Leader) = "st" THEN [store EXCEPT ![cb.at] = Leader] ELSE store
    /\ result' = Answer(Leader, IF Kind(Leader) = "spmld" THEN cb.val ELSE store[cb.at])
    /\ waiting' = Retries(Leader)
    /\ cb' = [cb EXCEPT !.step = "hit"]
    /\ UNCHANGED <<req, queue, pend, table, replays, ingressRetry, event,
                   accepted, missing, toL1, atL1, resp>>
PopFront ==
    /\ cb.step = "hit"
    /\ table' = [table EXCEPT ![cb.at] = Tail(@)]
    /\ cb' = [cb EXCEPT !.step = "serve", !.first = FALSE]
    /\ UNCHANGED <<req, queue, core, outstanding, replays, ingressRetry, event,
                   accepted, below, result>>

\* issueRequest of the first follower the response does not answer.
\* Defect: it is put into the queue even when the queue is full.
IssueRequest_Force(i) ==
    /\ EnqueueAll(<<i>>)
    /\ UNCHANGED <<replays, event>>
IssueRequest(i) ==
    IF AreSlotsAvailable(1)
    THEN EnqueueAll(<<i>>) /\ UNCHANGED <<replays, event>>
    ELSE /\ replays' = Append(replays, i)
         /\ Schedule
         /\ UNCHANGED queue
Reissue ==
    /\ cb.step = "serve" /\ table[cb.at] # <<>> /\ ~ Served(Leader)
    /\ IssueRequest(Leader)
    /\ cb' = [cb EXCEPT !.step = "over"]
    /\ UNCHANGED <<req, core, table, outstanding, ingressRetry, accepted, below,
                   result>>

\* The rest of the controller's transition after the callback.
CallbackDone ==
    /\ cb.step = "over" \/ (cb.step = "serve" /\ table[cb.at] = <<>>)
    /\ cb' = NoCallback
    /\ CASE cb.by = "hit"  -> Dequeue(cb.msg) /\ UNCHANGED missing
         [] cb.by = "miss" -> /\ Reanalyze(cb.at)
                              /\ missing' = missing \ {cb.msg}
         [] OTHER          -> UNCHANGED <<queue, missing>>
    /\ UNCHANGED <<req, core, admission, toL1, atL1, resp, store, result>>

(***************************************************************************)
(* The L0 controller's mandatory port.                                     *)
(***************************************************************************)
CanServe == cb = NoCallback /\ IsReady
MissPoolFull(m) == MissFull(req[m])
BridgeFull == Cardinality({i \in Range(toL1) : Kind(i) = "spmcp"}) >= BridgePool

L0Hit ==
    /\ CanServe /\ ~ Spm(Peek)
    /\ Callback(Peek, NoWriter, "hit")
    /\ UNCHANGED <<req, queue, core, admission, below, result>>
L0Miss ==
    /\ CanServe /\ ~ Spm(Peek) /\ ~ MissPoolFull(Peek)
    /\ missing' = missing \cup {Peek}
    /\ Dequeue(Peek)
    /\ UNCHANGED <<req, core, admission, cb, toL1, atL1, resp, store, result>>
\* A transient line the request's set needs: stall_and_wait on that line.
StallAndWait(i) ==
    /\ CanServe /\ ~ Spm(Peek)
    /\ i \in missing /\ req[i].at # req[Peek].at
    /\ StallMessage(Peek, req[i].at)
    /\ UNCHANGED <<req, core, admission, cb, below, result>>
L0Spm ==
    /\ CanServe /\ Spm(Peek)
    /\ ~ (Kind(Peek) = "spmcp" /\ BridgeFull)
    /\ toL1' = Append(toL1, Peek)
    /\ Dequeue(Peek)
    /\ UNCHANGED <<req, core, admission, cb, missing, atL1, resp, store, result>>
\* A resource stall runs the stall handler.
L0Stall ==
    /\ CanServe
    /\ IF Spm(Peek) THEN Kind(Peek) = "spmcp" /\ BridgeFull ELSE MissPoolFull(Peek)
    /\ TryIngressBypass
    /\ UNCHANGED <<req, core, admission, cb, below, result>>
Response(i) ==
    /\ cb = NoCallback
    /\ i \in missing
    /\ Callback(i, NoWriter, "miss")
    /\ UNCHANGED <<req, queue, core, admission, below, result>>

(***************************************************************************)
(* The L1 and the private SPM array.                                       *)
(***************************************************************************)
L1Take ==
    LET i == Head(toL1) IN
    /\ toL1 # <<>>
    /\ toL1' = Tail(toL1)
    /\ CASE Kind(i) = "spmcp" -> atL1' = atL1 \cup {i} /\ UNCHANGED <<resp, store>>
         [] Kind(i) = "spmst" -> /\ store' = [store EXCEPT ![req[i].slot] = i]
                                 /\ resp' = Append(resp, [msg |-> i, val |-> NoWriter])
                                 /\ UNCHANGED atL1
         [] OTHER -> /\ resp' = Append(resp,
                                  [msg |-> i, val |-> store[req[i].slot]])
                     /\ UNCHANGED <<atL1, store>>
    /\ UNCHANGED <<req, queue, core, admission, cb, missing, result>>
L1Install(i) ==
    /\ i \in atL1
    /\ atL1' = atL1 \ {i}
    /\ store' = [store EXCEPT ![req[i].slot] = i]
    /\ resp' = Append(resp, [msg |-> i, val |-> NoWriter])
    /\ UNCHANGED <<req, queue, core, admission, cb, missing, toL1, result>>
\* The response buffer is not ordered: data (one cycle) passes older
\* acknowledgments (several), never older data.
SpmResponse(k) ==
    /\ cb = NoCallback
    /\ k \in DOMAIN resp
    /\ \/ k = 1
       \/ Reads(resp[k].msg) /\ \A j \in 1..(k - 1) : ~ Reads(resp[j].msg)
    /\ Callback(resp[k].msg, resp[k].val, "spm")
    /\ resp' = SubSeq(resp, 1, k - 1) \o SubSeq(resp, k + 1, Len(resp))
    /\ UNCHANGED <<req, queue, core, admission, missing, toL1, atL1, store, result>>

(***************************************************************************)
(* serviceIngress and the clock.                                           *)
(***************************************************************************)
\* How many replays the queue takes in this cycle.
Fits ==
    IF ~ AreSlotsAvailable(0) THEN 0
    ELSE IF AreSlotsAvailable(Len(replays)) THEN Len(replays)
    ELSE MaxSize - Visible
\* Defect: the event forgets replays that do not fit.
ServiceIngress_Once ==
    /\ cb = NoCallback /\ event = "due"
    /\ EnqueueAll(SubSeq(replays, 1, Fits))
    /\ replays' = SubSeq(replays, Fits + 1, Len(replays))
    /\ waiting' = IF ingressRetry THEN [p \in Ports |-> FALSE] ELSE waiting
    /\ ingressRetry' = FALSE
    /\ event' = "none"
    /\ UNCHANGED <<req, pend, table, outstanding, accepted, cb, below, result>>
ServiceIngress ==
    /\ cb = NoCallback /\ event = "due"
    /\ EnqueueAll(SubSeq(replays, 1, Fits))
    /\ replays' = SubSeq(replays, Fits + 1, Len(replays))
    /\ waiting' = IF ingressRetry THEN [p \in Ports |-> FALSE] ELSE waiting
    /\ ingressRetry' = FALSE
    /\ event' = IF Fits < Len(replays) THEN "next" ELSE "none"
    /\ UNCHANGED <<req, pend, table, outstanding, accepted, cb, below, result>>

Tick ==
    /\ cb = NoCallback /\ event # "due"
    /\ event = "next" \/ fresh # {} \/ popped # NoPop \/ enqueued # 0
         \/ attempted # {}
    /\ NextCycle
    /\ event' = IF event = "next" THEN "due" ELSE event
    /\ UNCHANGED <<req, core, table, outstanding, replays, ingressRetry, accepted,
                   cb, below, result>>

Next ==
    \/ \E r \in Requests : Send(r)
    \/ \E p \in Ports : Resend(p)
    \/ HitCallback \/ PopFront \/ Reissue \/ CallbackDone
    \/ L0Hit \/ L0Miss \/ L0Spm \/ L0Stall
    \/ \E i \in Ids : StallAndWait(i) \/ Response(i) \/ L1Install(i)
    \/ L1Take
    \/ \E k \in DOMAIN resp : SpmResponse(k)
    \/ ServiceIngress \/ Tick

Spec == Init /\ [][Next]_vars

(***************************************************************************)
(* Properties.                                                             *)
(***************************************************************************)
\* The Sequencer's state is well formed: no request is in the table twice,
\* a port that waits has a packet to send, and the queue's messages are
\* requests of the table.
TypeOK ==
    /\ req \in Seq(Requests)
    /\ \A k \in Keys : \A i \in DOMAIN table[k] : req[table[k][i]].at = k
    /\ \A k \in Keys : IsInjective(table[k])
    /\ \A p \in Ports : pend[p] \in Ids \cup {NoMsg}
    /\ \A p \in Ports : waiting[p] => pend[p] # NoMsg
    /\ heap \cup Stalled \cup missing \cup atL1 \subseteq Ids
    /\ heap \cap Stalled = {}
    /\ selected \in heap \cup {NoMsg}
    /\ event \in {"none", "next", "due"}

\* The assertion of Sequencer::wakeup: the outstanding count that admission
\* compares with its limit is the number of live records of the table, also
\* in the middle of a callback and over re-entrant requests.
OutstandingExact == outstanding = Cardinality(Active)

\* Where the message of a request can be, from issueRequest to its callback.
InFlight(i) ==
    i \in heap \cup Stalled \cup Range(replays) \cup missing \cup Range(toL1)
           \cup atL1 \cup {resp[k].msg : k \in DOMAIN resp}
\* Every line with requests has exactly one in the hierarchy, its oldest; a
\* follower is never sent early (insertRequest, the callbacks' reissue) and
\* never left without a transaction to answer it (deferred replays).
OneTransaction ==
    cb = NoCallback =>
        /\ \A k \in Keys : table[k] # <<>> =>
              {i \in Range(table[k]) : InFlight(i)} = {Head(table[k])}
        /\ \A i \in Ids \ Live : ~ InFlight(i)

\* The assertion of MessageBuffer::enqueue: requests, reissues and replays
\* together never overfill the finite mandatory queue.
QueueBound == Occupied <= MaxSize

\* A refused port is never stranded: either a live request will end in a
\* callback that retries it, or the ingress event is set to (the comment in
\* hitCallback about prefetches being the last outstanding work).
NoStrandedPort ==
    \A p \in Ports : waiting[p] =>
        outstanding > 0 \/ (ingressRetry /\ event # "none")

Writes(i, k) ==
    \/ Kind(i) = "st" /\ req[i].at = k
    \/ Kind(i) \in {"spmst", "spmcp"} /\ req[i].slot = k
Place(i) == CHOOSE n \in DOMAIN accepted : accepted[n] = i
LastWriter(i) ==
    LET before == {n \in 1..(Place(i) - 1) : Writes(accepted[n], req[i].at)}
    IN IF before = {} THEN NoWriter ELSE accepted[Max(before)]
\* A read returns the last write accepted before it to its line or slot,
\* whether it was answered by its own response, coalesced behind a store or
\* another read, or reissued.  An SPM load may return a copy accepted after
\* it, which the array took first, but nothing older: responses of the
\* unordered buffer never hand a newer load an older block.
ReadsLast ==
    \A i \in Range(accepted) \cap DOMAIN result : Kind(i) \in {"ld", "if", "spmld"} =>
        \/ result[i] = LastWriter(i)
        \/ /\ Kind(i) = "spmld" /\ result[i] # NoWriter
           /\ Kind(result[i]) = "spmcp"
           /\ Place(result[i]) > Place(i)

\* No SPM store or copy is answered by aliasing: each has visited the array
\* itself by the time the core hears of it (the comment in writeCallback).
OwnTransaction ==
    \A i \in DOMAIN result : Kind(i) \in {"spmst", "spmcp"} =>
        i \in Range(order) \ (heap \cup Range(toL1) \cup atL1)

\* Whatever answers a request, the core is told what its own access did.
AnsweredRight == ReadsLast /\ OwnTransaction

\* The ingress bypass never takes a request past an older one it depends on,
\* not even one that returns from the stall map between the selection and
\* the transition of the selected request.
BypassSafe ==
    [][\A n \in heap \ heap' : \A m \in heap :
          Older(m, n) => IngressIndependent(n, m)]_vars

\* The event queue runs every scheduled event; the controllers are woken for
\* ready messages, the network answers every miss, and a port that gets a
\* retry sends its packet.
FairSpec ==
    /\ Spec
    /\ WF_vars(HitCallback) /\ WF_vars(PopFront)
    /\ WF_vars(Reissue) /\ WF_vars(CallbackDone)
    /\ WF_vars(L0Hit \/ L0Miss \/ L0Spm)
    /\ \A i \in 1..MaxReqs : WF_vars(Response(i)) /\ WF_vars(L1Install(i))
    /\ WF_vars(L1Take) /\ WF_vars(SpmResponse(1))
    /\ WF_vars(ServiceIngress) /\ WF_vars(Tick)
    /\ \A p \in Ports : WF_vars(Resend(p))

\* Every request a port makes is accepted and answered.
Completes ==
    \A i \in 1..MaxReqs : Len(req) >= i ~> i \in DOMAIN result
=============================================================================
