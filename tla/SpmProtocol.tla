---------------------------- MODULE SpmProtocol -----------------------------
(***************************************************************************)
(* The MESI_Three_Level_SPM protocol for one line: the L0 and L1 of each   *)
(* core, the shared L2, the directory with memory, and a DMA agent.        *)
(***************************************************************************)
EXTENDS L0Cache, L1Cache, L2Cache, Directory

vars == <<netVars, histVars, envVars, l0, l1Vars, l2Vars, dirVars>>

Init == NetInit /\ L0Init /\ L1Init /\ L2Init /\ DirInit

L0Step(c) == L0Next(c) /\ UNCHANGED <<l1Vars, l2Vars, dirVars>>
L1Step(c) == L1Next(c) /\ UNCHANGED <<l0, l2Vars, dirVars>>
L2Step == L2Next /\ UNCHANGED <<l0, l1Vars, dirVars>>
DirStep == DirNext /\ UNCHANGED <<l0, l1Vars, l2Vars>>

Next == (\E c \in Cores : L0Step(c) \/ L1Step(c)) \/ L2Step \/ DirStep
Spec == Init /\ [][Next]_vars

-----------------------------------------------------------------------------
\* A value the line can have.
Value == Nat \cup Cores
AckCount == (0 - Cardinality(Cores)) .. Cardinality(Cores)
\* Type correctness: the fields the controllers' entries and TBEs hold; no
\* pendingAcks leaves the range the number of cores allows.
TypeOK ==
    /\ l0 \in [Cores -> [st : L0States, data : Value,
                         op : {"Idle", "Load", "Store", "Copy"}, wb : BOOLEAN]]
    /\ l1 \in [Cores -> [st : L1States, data : Value, dirty : BOOLEAN,
                         acks : AckCount, retry : BOOLEAN]]
    /\ slot \in [Cores -> {"X", "XWB"}]
    /\ l2 \in [st : L2States, data : Value, dirty : BOOLEAN,
               sharers : SUBSET Cores, acks : 0 .. Cardinality(Cores),
               ids : SUBSET Cores,
               wb : Value]
    /\ dir \in [st : DirStates, owner : BOOLEAN, data : Value]
    /\ mem \in Value /\ dma \in {"READY", "BUSY_RD", "BUSY_WR"}

-----------------------------------------------------------------------------
\* Coherence.

\* No load (L0 hit, fill or STALE_DATA), scratchpad copy (snapshot, local,
\* forwarded or from memory) or DMA read returns a value the line did not
\* have while the read was in progress.
NoStaleRead == ~ stale
\* A core whose L0 may write (E, M) is the only one whose L0 may read: the
\* recalls of L0_Invalidate_Else reach every copy before a grant does.
SWMR ==
    \A c, d \in Cores :
        c # d /\ l0[c].st \in {"E", "M"} => l0[d].st \notin {"S", "E", "M", "SM"}
\* A load that hits in L0 reads the current value: stores, DMA writes and SPM
\* writebacks take effect only once every older L0 copy has been recalled.
L0Current ==
    \A c \in Cores : l0[c].st \in {"S", "E", "M"} => l0[c].data = cur
\* A block the shared L2 serves copies from (SS, M) is the current value,
\* across evictions, silent fills and the SPM writeback that overwrites it.
LlcCurrent == l2.st \in {"SS", "M"} => l2.data = cur
\* "dir is the owner and memory is up-to-date, all other copies are Invalid"
\* (state I of the directory): no eviction, DMA or SPM writeback loses data.
MemoryCurrent == dir.st = "I" => mem = cur
\* At every level, a copy that may be read holds the value of the line.
CopiesCurrent == L0Current /\ LlcCurrent /\ MemoryCurrent
\* The L2's sharer set covers the private L1s that hold the line: silent
\* copies leave no copy behind, and no invalidation misses one.
HoldsLine(c) == l1[c].st \notin {"I", "IS", "IS_I", "IM", "IX_D", "M_I",
                                 "SINK_WB_ACK"}
Inclusion ==
    /\ l2.st \in {"NP", "M", "M_I"} => \A c \in Cores : ~ HoldsLine(c)
    /\ l2.st \in {"SS", "MT"} =>
            \A c \in Cores : HoldsLine(c) => c \in l2.sharers
\* The two sides of coherence: one writer or many readers among the L0s, and
\* no private copy that the home does not know of.
Coherent == SWMR /\ Inclusion

-----------------------------------------------------------------------------
\* Completeness of the transition tables, and progress.

\* Every message that has arrived has a transition in the state it meets
\* (SLICC raises "Invalid transition" otherwise).
NoUndefinedEvent ==
    /\ \A m \in Arrived(L2) : ENABLED L2Receive(m)
    /\ \A m \in Arrived(Dir) : ENABLED DirReceive(m)
    /\ \A m \in Arrived(Dma) : ENABLED DmaDone(m)
    /\ \A c \in Cores :
        /\ \A m \in Arrived(c) : ENABLED L1Receive(c, m)
        /\ \A i \in Ready(c) : ENABLED L1FromL0(c, i)
        /\ dn[c] # <<>> => ENABLED L0Receive(c)
Quiet ==
    /\ memq = <<>>
    /\ \A m \in BagToSet(net) :
        \/ m.dst = L2 /\ ENABLED RecycleInv(m)
        \/ m.dst = Dir /\ ENABLED RecycleDma(m)
    /\ \A c \in Cores : /\ up[c] = <<>> /\ dn[c] = <<>> /\ spmdn[c] = {}
                        /\ ~ l1[c].retry
AllDone ==
    /\ net = EmptyBag /\ l2Stall = EmptyBag /\ dirStall = EmptyBag
    /\ \A c \in Cores : /\ l1Stall[c] = NoneStalled
                        /\ l0[c].op = "Idle" /\ ~ l0[c].wb
    /\ dma = "READY" /\ l2.st \in L2Stable /\ dir.st \in {"I", "M"}
\* When no message can be delivered except the recycled ones (MEM_Inv at the
\* L2, DMA at the directory), every operation has completed and nothing is
\* left in a stall_and_wait queue.
NoDeadlock == Quiet => AllDone
\* No lost wake-up: a controller that is in a stable state holds no stalled
\* message, so every transition back to one runs kd_wakeUpDependents, or the
\* messages it leaves are none.
NoLostWakeup ==
    /\ l2.st \in L2Stable => l2Stall = EmptyBag
    /\ dir.st \in {"I", "M"} => dirStall = EmptyBag
    /\ \A c \in Cores : l1[c].st \notin L1Transient => l1Stall[c] = NoneStalled
\* The directory has an operation at memory in exactly the states that wait
\* for memory, so a response of memory always finds the state it is for.
MemoryBusy == memq # <<>> <=> dir.st \in DirBusy

-----------------------------------------------------------------------------
\* Exactly-once transfer of the scratchpad operations.
Count(S, bag) == BagCardinality([m \in S |-> bag[m]])
One(condition) == IF condition THEN 1 ELSE 0
\* A copy in progress (IX_D) has exactly one request, NACK, retry timer, fill
\* or data on its way, though nobody records a forwarded silent request; a
\* copy that is over has none.
SilentIn(c, bag) ==
    {m \in BagToSet(bag) :
        \/ m.type = "GETS_SILENT" /\ m.req = c
        \/ m.type = "SPM_SILENT_RETRY" /\ m.dst = c
        \/ m.type = "DATA" /\ m.dst = c /\ l1[c].st = "IX_D"}
Forwarded(c) == {d \in Cores : SilentIn(c, l1Stall[d].net) # {}}
CopyOnce ==
    \A c \in Cores :
        Count(SilentIn(c, net), net) + Count(SilentIn(c, l2Stall), l2Stall)
        + Cardinality(Forwarded(c)) + One(l2.st = "SPM_IS" /\ c \in l2.ids)
        + One(l1[c].retry) = One(l1[c].st = "IX_D")
\* A writeback in progress (slot in XWB) is at exactly one place: on its way
\* to the L2, being performed there, or acknowledged.
WbIn(c, bag) ==
    {m \in BagToSet(bag) : \/ m.type = "SPMWB_REQ" /\ m.req = c
                           \/ m.type = "SPMWB_ACK" /\ m.dst = c}
WritebackOnce ==
    \A c \in Cores :
        Count(WbIn(c, net), net) + Count(WbIn(c, l2Stall), l2Stall)
        + One(l2.st \in L2Wb /\ c \in l2.ids) = One(slot[c] = "XWB")
\* No scratchpad transfer is dropped or doubled on its way.
TransfersOnce == CopyOnce /\ WritebackOnce
\* inv_sendCacheInvalidate names a machine that exists: NetDest::vecIndex
\* asserts that the destination is inside its bit vector.
InvReachesLlc ==
    \A m \in BagToSet(net) : m.type = "INV" /\ m.src = Dir => m.dst = L2

-----------------------------------------------------------------------------
\* The protocol implements the register of SharedLine.  A writeback has not
\* taken effect until the directory accepts it, a DMA write not until the
\* directory queues it for memory.
AtDir(bag) == {m \in BagToSet(bag) : m.type = "SPMWB_REQ" /\ m.dst = Dir}
WbOpen ==
    {c \in Cores :
        \/ \E i \in DOMAIN up[c] : up[c][i].class = "SPMWB_STORE"
        \/ \E m \in BagToSet(net) \cup BagToSet(l2Stall) :
                m.type = "SPMWB_REQ" /\ m.req = c
        \/ l2.st = "SPM_WB_INV" /\ c \in l2.ids
        \/ /\ l2.st = "SPM_WB" /\ c \in l2.ids
           /\ AtDir(net) \cup AtDir(dirStall) # {}}
DmaOpen ==
    {m.data : m \in {x \in BagToSet(net) : x.type = "DMA_WRITE"}}
    \cup (IF dir.st \in {"M_DWR", "M_DWR_SWB"} THEN {dir.data} ELSE {})
Line == INSTANCE SharedLine WITH
            op <- [c \in Cores |-> l0[c].op],
            wb <- {c \in Cores : l0[c].wb},
            wbOpen <- WbOpen,
            dmaOpen <- DmaOpen
\* Every behaviour of the four controllers is one of the register: stores,
\* writebacks and DMA writes take effect once, between issue and completion.
LineImplemented == Line!Spec

-----------------------------------------------------------------------------
\* Liveness.  Every buffer delivers, every controller handles what arrives,
\* memory answers and the retry timer expires; nothing obliges a core to
\* issue an operation or a cache to evict.
AtL2 == {"GETS", "GETX", "UPGRADE", "PUTX", "GETS_SILENT", "SPMWB_REQ",
         "UNBLOCK", "EXCLUSIVE_UNBLOCK", "DATA", "ACK", "MEMORY_DATA",
         "MEMORY_ACK", "SPMWB_ACK", "INV"}
AtL1 == {"INV", "GETS", "GETX", "UPGRADE", "GETS_SILENT", "DATA",
         "DATA_EXCLUSIVE", "ACK", "WB_ACK", "SPMWB_ACK", "SPM_SILENT_RETRY"}
AtDirectory == {"GETS", "GETS_SILENT", "SPMWB_REQ", "DMA_READ", "DMA_WRITE",
                "ACK", "MEMORY_DATA"}
L0Progress(c) ==
    /\ (dn[c] # <<>> /\ L0Receive(c)) \/ SpmAck(c)
    /\ UNCHANGED <<l1Vars, l2Vars, dirVars>>
L1Progress(c) ==
    /\ (\E i \in Ready(c) : L1FromL0(c, i)) \/ SPM_SilentReissue(c)
    /\ UNCHANGED <<l0, l2Vars, dirVars>>
DirProgress ==
    /\ MemoryDone \/ \E m \in Arrived(Dma) : DmaDone(m)
    /\ UNCHANGED <<l0, l1Vars, l2Vars>>
Fairness ==
    /\ \A c \in Cores :
        /\ WF_vars(L0Progress(c))
        /\ WF_vars(L1Progress(c))
        /\ \A t \in AtL1 :
            WF_vars(/\ \E m \in Arrived(c) : m.type = t /\ L1Receive(c, m)
                    /\ UNCHANGED <<l0, l2Vars, dirVars>>)
    /\ \A t \in AtL2 :
        WF_vars(/\ \E m \in Arrived(L2) : m.type = t /\ L2Receive(m)
                /\ UNCHANGED <<l0, l1Vars, dirVars>>)
    /\ \A t \in AtDirectory :
        WF_vars(/\ \E m \in Arrived(Dir) : m.type = t /\ DirReceive(m)
                /\ UNCHANGED <<l0, l1Vars, l2Vars>>)
    /\ WF_vars(DirProgress)
FairSpec == Spec /\ Fairness
\* Every load, store, copy, writeback and DMA completes: no ping-pong of
\* bounced silent requests, NACK loop or stalled request lasts for ever.
Completes ==
    /\ \A c \in Cores : /\ l0[c].op # "Idle" ~> l0[c].op = "Idle"
                        /\ l0[c].wb ~> ~ l0[c].wb
    /\ dma # "READY" ~> dma = "READY"
=============================================================================
