------------------------------ MODULE Ingress -------------------------------
(***************************************************************************)
(* The mandatory queue between a core's Sequencer and its L0 controller:   *)
(* a finite MessageBuffer (mem/ruby/network/MessageBuffer.cc) with its     *)
(* stall map and the ingress bypass, which lets an independent younger     *)
(* request be tried when the head cannot go.                               *)
(*                                                                         *)
(* A message is the number of a request; req holds what the request is.    *)
(* All messages have one latency, so the heap order is the order of        *)
(* enqueueing, which `order' records.                                      *)
(***************************************************************************)
EXTENDS Integers, Sequences, FiniteSetsExt

CONSTANTS
    Lines,       \* coherent lines
    Slots,       \* SPM slots; disjoint from the lines in the Ruby namespace
    MaxSize,     \* m_max_size
    Lookahead,   \* m_ingress_lookahead
    CopyDemand,  \* m_copy_demand_bypass
    DemandProbes \* tryIngressBypass: probes a cycle of the copy/demand policy

ASSUME IngressAssumption ==
    /\ Lines \cap Slots = {}
    /\ MaxSize \in Nat \ {0}
    /\ Lookahead \in Nat
    /\ CopyDemand \in BOOLEAN
    /\ DemandProbes \in Nat
    /\ ~ (Lookahead > 0 /\ CopyDemand)

VARIABLES
    req,       \* the requests made so far
    order,     \* every message enqueued so far, oldest first
    heap,      \* m_prio_heap
    fresh,     \* messages whose arrival time is the next cycle
    stallMap,  \* m_stall_msg_map: pairs of a message and the line it waits for
    popped,    \* sizes at the first pop of the cycle, or NoPop
    enqueued,  \* m_msgs_this_cycle
    attempted, \* m_bypass_attempted
    selected   \* m_bypass_selected, or NoMsg

queue == <<order, heap, fresh, stallMap, popped, enqueued, attempted, selected>>

NoPop == -1
NoMsg == 0
Keys == Lines \cup Slots

QueueInit ==
    /\ order = <<>>
    /\ heap = {}
    /\ fresh = {}
    /\ stallMap = {}
    /\ popped = NoPop
    /\ enqueued = 0
    /\ attempted = {}
    /\ selected = NoMsg

Older(m, n) ==
    \E i, j \in DOMAIN order : i < j /\ order[i] = m /\ order[j] = n
Oldest(S) == CHOOSE m \in S : \A n \in S \ {m} : Older(m, n)
Stalled == {w[1] : w \in stallMap}
\* peekMsgPtr.
Peek == IF selected # NoMsg THEN selected ELSE Oldest(heap)
IsReady == heap # {} /\ Peek \notin fresh

Occupied == Cardinality(heap) + Cardinality(stallMap)
\* areNSlotsAvailable: pops of this cycle do not count yet, enqueues do.
Visible == IF popped = NoPop THEN Occupied ELSE popped + enqueued
AreSlotsAvailable(n) ==
    Visible + n <= MaxSize

EnqueueAll(ms) ==
    /\ order' = order \o ms
    /\ heap' = heap \cup Range(ms)
    /\ fresh' = fresh \cup Range(ms)
    /\ enqueued' = enqueued + Len(ms)
    /\ UNCHANGED <<stallMap, popped, attempted, selected>>

\* dequeue with removeSelected, and stallMessage, which dequeues into the map.
RemoveSelected(m) ==
    /\ popped' = IF popped = NoPop THEN Occupied ELSE popped
    /\ heap' = heap \ {m}
    /\ selected' = NoMsg
    /\ UNCHANGED <<order, fresh, enqueued, attempted>>
Dequeue(m) == RemoveSelected(m) /\ UNCHANGED stallMap
StallMessage(m, k) ==
    /\ RemoveSelected(m)
    /\ stallMap' = stallMap \cup {<<m, k>>}

\* reanalyzeMessages: messages return with their old time and counter.
WaitFor(k) == {w \in stallMap : w[2] = k}
Reanalyze(k) ==
    /\ heap' = heap \cup {w[1] : w \in WaitFor(k)}
    /\ stallMap' = stallMap \ WaitFor(k)
    /\ UNCHANGED <<order, fresh, popped, enqueued, attempted, selected>>

\* ingressKey: loads, fetches and plain copies may move.
Copy(m) == req[m].kind = "spmcp"
Reorderable(m) == req[m].kind \in {"ld", "if", "pf", "spmcp"}
IngressIndependent(m, n) ==
    /\ Reorderable(m) /\ Reorderable(n)
    /\ req[m].at # req[n].at
    /\ ~ (Copy(m) /\ Copy(n) /\ req[m].slot = req[n].slot)

Window ==
    IF CopyDemand THEN heap
    ELSE {m \in heap : Cardinality({n \in heap : Older(n, m)}) <= Lookahead}
Probes == IF CopyDemand THEN DemandProbes ELSE Lookahead
\* Defect: the requests of the stall map are forgotten.
Candidates_NoStalled(tried) ==
    {m \in Window \ (tried \cup fresh \cup {Oldest(heap)}) :
        /\ CopyDemand => ~ Copy(m)
        /\ Reorderable(m)
        /\ \A n \in heap : Older(n, m) => IngressIndependent(m, n)}
Candidates(tried) ==
    {m \in Window \ (tried \cup fresh \cup {Oldest(heap)}) :
        /\ CopyDemand => ~ Copy(m)
        /\ Reorderable(m)
        /\ \A n \in heap : Older(n, m) => IngressIndependent(m, n)
        /\ \A n \in Stalled : IngressIndependent(m, n)}
TryIngressBypass ==
    LET tried == attempted \cup {Peek}
        found == IF Cardinality(tried) > Probes \/ Candidates(tried) = {} THEN {}
                 ELSE {Oldest(Candidates(tried))}
    IN /\ Lookahead > 0 \/ CopyDemand
       /\ CopyDemand => Copy(Oldest(heap))
       /\ attempted' = IF CopyDemand THEN tried \cup found ELSE tried
       /\ selected' = IF found = {} THEN NoMsg ELSE Oldest(found)
       /\ UNCHANGED <<order, heap, fresh, stallMap, popped, enqueued>>

\* The next cycle: messages arrive, pops become visible, the bypass restarts.
NextCycle ==
    /\ fresh' = {}
    /\ popped' = NoPop
    /\ enqueued' = 0
    /\ attempted' = {}
    /\ selected' = NoMsg
    /\ UNCHANGED <<order, heap, stallMap>>
=============================================================================
