------------------------------ MODULE SpmProofs -----------------------------
(***************************************************************************)
(* Proofs about SpmProtocol for every set of cores and every setting of    *)
(* its switches: memory is busy exactly when the directory waits for it,   *)
(* and no controller reaches a stable state with a message left in         *)
(* stall_and_wait; and about SpmSlots, the array of its L1, for every      *)
(* geometry: PlacementInv is inductive, and the properties the run checks  *)
(* follow from it.                                                         *)
(***************************************************************************)
EXTENDS SpmProtocol, SpmSlots, TLAPS, WellFoundedInduction

\* A leaf is tried with Zenon, then with SMT.
USE ZenonT(4), SMT, SMTT(20)

-----------------------------------------------------------------------------
\* The directory.

\* A queued memory operation is a non-empty queue.
LEMMA QueuedIsBusy == Read # <<>> /\ \A v : WB(v) # <<>>
BY DEF Read, WB

DirInv ==
    /\ dir = [st |-> dir.st, owner |-> dir.owner, data |-> dir.data]
    /\ dir.st \in DirStates
    /\ MemoryBusy
    /\ dir.st \in {"I", "M"} => dirStall = EmptyBag

\* The directory starts idle, with memory idle and nothing stalled.
LEMMA DirInvInit == Init => DirInv
BY DEF Init, DirInit, DirInv, MemoryBusy, DirStates, DirBusy, DirDma

\* Every row of the directory queues at most one memory operation, on entry
\* to a state that waits for it, and wakes its requests when it returns to I
\* or M.
LEMMA DirInvStep == DirInv /\ [Next]_vars => DirInv'
<1> SUFFICES ASSUME DirInv, [Next]_vars PROVE DirInv'
    OBVIOUS
<1> USE DEF DirInv, MemoryBusy, DirStates, DirBusy, DirDma
<1>1. CASE UNCHANGED dirVars
    BY <1>1 DEF dirVars
<1>2. CASE DirNext
    <2>1. CASE DmaIssue
        BY <2>1 DEF DmaIssue
    <2>2. CASE MemoryDone
        <3>1. /\ dir.st \in DirBusy /\ memq' = <<>>
              /\ dir' = [st |-> MemNext, owner |-> dir'.owner,
                         data |-> dir'.data]
            BY ZenonT(30), <2>2 DEF MemoryDone
        <3>2. dir'.st = MemNext
            BY <3>1
        <3>3. /\ MemNext \in {"I", "M"} \cup DirDma
              /\ MemNext \in {"I", "M"} =>
                    dir.st \notin {"M_DRD_SWB", "M_DWR_SWB"}
            BY <3>1 DEF MemNext
        <3>4. dir.st \notin {"M_DRD_SWB", "M_DWR_SWB"} =>
                    dirStall' = EmptyBag
            BY <2>2 DEF MemoryDone
        <3> QED
            BY SMTT(30), <3>1, <3>2, <3>3, <3>4
    <2>3. ASSUME NEW m \in Arrived(Dma), DmaDone(m) PROVE DirInv'
        BY <2>3 DEF DmaDone
    <2>4. ASSUME NEW m \in Arrived(Dir), DirReceive(m) PROVE DirInv'
        <3> USE QueuedIsBusy DEF Goto, DirFrame
        <3>1. CASE Fetch(m)
            BY <3>1 DEF Fetch
        <3>2. CASE SpmWriteback(m)
            BY <3>2 DEF SpmWriteback, SwbNext
        <3>3. CASE DmaRead(m)
            BY <3>3 DEF DmaRead
        <3>4. CASE DmaWrite(m)
            BY ZenonT(30), <3>4 DEF DmaWrite
        <3>5. CASE DirStallRequest(m)
            BY <3>5 DEF DirStallRequest, SwbNext
        <3>6. CASE RecycleDma(m)
            BY <3>6 DEF RecycleDma
        <3>7. CASE CleanReplacement(m)
            BY <3>7 DEF CleanReplacement
        <3>8. CASE CleanReplacementIdle(m)
            BY <3>8 DEF CleanReplacementIdle
        <3>9. CASE Data(m)
            BY <3>9 DEF Data
        <3> QED
            BY <2>4, <3>1, <3>2, <3>3, <3>4, <3>5, <3>6, <3>7, <3>8, <3>9
               DEF DirReceive
    <2> QED
        BY SMTT(30), <1>2, <2>1, <2>2, <2>3, <2>4 DEF DirNext
<1> QED
    BY SMTT(30), <1>1, <1>2 DEF Next, DirStep, L0Step, L1Step, L2Step, vars

\* An operation of memory is outstanding exactly in the directory states that
\* wait for memory: the memQueue_in rows are complete.
THEOREM MemoryMatched == Spec => []MemoryBusy
<1>1. DirInv => MemoryBusy
    BY DEF DirInv
<1> QED
    BY <1>1, DirInvInit, DirInvStep, PTL DEF Spec

-----------------------------------------------------------------------------
\* The shared L2.

L2Fields == {"st", "data", "dirty", "sharers", "acks", "ids", "wb"}
L2Shape(r) == r = [f \in L2Fields |-> r[f]]
L2Inv ==
    /\ L2Shape(l2)
    /\ l2.st \in L2States
    /\ l2.st \in L2Stable => l2Stall = EmptyBag

\* The L2 starts without the block and with nothing stalled.
LEMMA L2InvInit == Init => L2Inv
BY DEF Init, L2Init, L2Inv, L2Shape, L2Fields, NotPresent, L2States, L2Stable

\* Updating the block from a message changes neither the shape nor the state.
LEMMA L2Updates ==
    ASSUME NEW rec, NEW m, L2Shape(rec)
    PROVE  /\ L2Shape(WithRequest(rec, m)) /\ WithRequest(rec, m).st = rec.st
           /\ L2Shape(WithResponse(rec, m)) /\ WithResponse(rec, m).st = rec.st
<1>1. L2Shape(WithRequest(rec, m)) /\ WithRequest(rec, m).st = rec.st
    BY ZenonT(30) DEF WithRequest, L2Shape, L2Fields
<1>2. WithResponse(rec, m).st = rec.st
    BY DEF WithResponse, L2Shape, L2Fields
<1>3. L2Shape(WithResponse(rec, m))
    BY ZenonT(30) DEF WithResponse, L2Shape, L2Fields
<1> QED
    BY SMTT(30), <1>1, <1>2, <1>3

\* The rows that take data from an L1: only MT_IB ends its transaction.
LEMMA L2WbDataKeeps ==
    ASSUME L2Inv, NEW m, L2WbData(m)
    PROVE  L2Inv'
<1> DEFINE sb == WithResponse(L2Goes("MT_SB"), m)
           ss == WithResponse(L2Goes("SS"), m)
<1>1. /\ L2Shape(L2Goes("MT_SB")) /\ L2Goes("MT_SB").st = "MT_SB"
      /\ L2Shape(L2Goes("SS")) /\ L2Goes("SS").st = "SS"
    BY DEF L2Inv, L2Shape, L2Fields, L2Goes
<1>2. L2Shape(sb) /\ sb.st = "MT_SB" /\ L2Shape(ss) /\ ss.st = "SS"
    BY SMTT(30), <1>1, L2Updates
<1>3. /\ L2Shape(Evicted("M_I")) /\ Evicted("M_I").st = "M_I"
      /\ L2Shape(SpmWbStarts) /\ SpmWbStarts.st = "SPM_WB"
    BY ZenonT(30) DEF L2Inv, L2Shape, L2Fields, Evicted, NotPresent, SpmWbStarts
<1>4. \/ l2' = sb \/ l2' = Evicted("M_I") \/ l2' = SpmWbStarts
      \/ l2' = ss /\ l2Stall' = EmptyBag
    BY DEF L2WbData, L2Does, L2DoesAndWakes
<1> HIDE DEF sb, ss
<1>5. /\ L2Shape(l2')
      /\ \/ l2'.st \in {"MT_SB", "M_I", "SPM_WB"}
         \/ l2'.st = "SS" /\ l2Stall' = EmptyBag
    BY <1>2, <1>3, <1>4
<1>6. (L2Shape(l2))'
    BY <1>5 DEF L2Shape
<1>7. l2'.st \in L2States /\ (l2'.st \in L2Stable => l2Stall' = EmptyBag)
    BY <1>5 DEF L2States, L2Stable, L2Blocked, L2Evicting, L2Wb
<1> QED
    BY <1>6, <1>7 DEF L2Inv

\* The rows that take data from memory: a fill for an L1 that will own the
\* block goes on in MT_MB, every other one ends the transaction.
LEMMA Mem_DataKeeps ==
    ASSUME L2Inv, NEW m, Mem_Data(m)
    PROVE  L2Inv'
<1> DEFINE filled == WithResponse([l2 EXCEPT !.ids = {}], m)
<1>1. L2Shape([l2 EXCEPT !.ids = {}])
    BY DEF L2Inv, L2Shape, L2Fields
<1>2. L2Shape(filled)
    BY SMTT(30), <1>1, L2Updates
<1>3. \/ l2' = [filled EXCEPT !.st = "MT_MB"]
      \/ /\ l2' \in {NotPresent, [filled EXCEPT !.st = "M"],
                     [filled EXCEPT !.st = "SS"]}
         /\ l2Stall' = EmptyBag
    BY DEF Mem_Data, L2Does, L2DoesAndWakes
<1>4. /\ L2Shape(NotPresent) /\ NotPresent.st = "NP"
      /\ \A st : /\ L2Shape([filled EXCEPT !.st = st])
                 /\ [filled EXCEPT !.st = st].st = st
    <2> HIDE DEF filled
    <2> QED BY <1>2 DEF L2Shape, L2Fields, NotPresent
<1> HIDE DEF filled
<1>5. /\ L2Shape(l2')
      /\ \/ l2'.st = "MT_MB"
         \/ l2'.st \in {"NP", "M", "SS"} /\ l2Stall' = EmptyBag
    <2>1. CASE l2' = [filled EXCEPT !.st = "MT_MB"]
        BY SMTT(30), <2>1, <1>4
    <2>2. CASE l2' = NotPresent /\ l2Stall' = EmptyBag
        BY SMTT(30), <2>2, <1>4
    <2>3. CASE l2' = [filled EXCEPT !.st = "M"] /\ l2Stall' = EmptyBag
        BY SMTT(30), <2>3, <1>4
    <2>4. CASE l2' = [filled EXCEPT !.st = "SS"] /\ l2Stall' = EmptyBag
        BY SMTT(30), <2>4, <1>4
    <2> QED
        BY SMTT(30), <1>3, <2>1, <2>2, <2>3, <2>4
<1>6. (L2Shape(l2))'
    BY <1>5 DEF L2Shape
<1>7. l2'.st \in L2States /\ (l2'.st \in L2Stable => l2Stall' = EmptyBag)
    BY SMTT(30), <1>5 DEF L2States, L2Stable, L2Blocked
<1> QED
    BY <1>6, <1>7 DEF L2Inv

\* Every row of the L2 that returns to a stable state from a transient one
\* wakes the requests stalled there.
LEMMA L2InvStep == L2Inv /\ [Next]_vars => L2Inv'
<1> SUFFICES ASSUME L2Inv, [Next]_vars PROVE L2Inv'
    OBVIOUS
<1> USE DEF L2Inv, L2Shape, L2Fields, L2Does, L2DoesAndWakes, L2Goes,
            L2States, L2Stable, L2Fill, L2Blocked, L2Evicting, L2Wb
<1>1. CASE UNCHANGED l2Vars
    BY SMTT(30), <1>1 DEF l2Vars
<1>2. CASE L2_Replacement
    BY ZenonT(30), <1>2 DEF L2_Replacement, Replacement, Evicted, NotPresent
<1>3. ASSUME NEW m \in Arrived(L2), L2Receive(m) PROVE L2Inv'
    <2>1. CASE L1_GETS(m)
        BY ZenonT(30), <2>1 DEF L1_GETS
    <2>2. CASE L1_GETX(m)
        BY ZenonT(30), <2>2 DEF L1_GETX
    <2>3. CASE L1_UPGRADE(m)
        BY <2>3 DEF L1_UPGRADE
    <2>4. CASE L1_PUTX(m)
        BY ZenonT(30), <2>4 DEF L1_PUTX, WithRequest
    <2>5. CASE SPM_GETS_SILENT(m)
        BY ZenonT(30), <2>5 DEF SPM_GETS_SILENT
    <2>6. CASE SPMWB_REQ(m)
        BY ZenonT(30), <2>6 DEF SPMWB_REQ, WithRequest
    <2>7. CASE L2StallRequest(m)
        BY <2>7 DEF L2StallRequest, PutxWaits
    <2>8. CASE L2Unblock(m)
        BY ZenonT(30), <2>8 DEF L2Unblock
    <2>9. CASE L2WbData(m)
        BY <2>9, L2WbDataKeeps
    <2>10. CASE L2Ack(m)
        BY ZenonT(30), <2>10 DEF L2Ack, Evicted, NotPresent, SpmWbStarts
    <2>11. CASE Mem_Data(m)
        BY <2>11, Mem_DataKeeps
    <2>12. CASE Mem_Ack(m)
        BY <2>12 DEF Mem_Ack, NotPresent
    <2>13. CASE SPMWB_Ack(m)
        BY ZenonT(30), <2>13 DEF SPMWB_Ack
    <2>14. CASE MEM_Inv(m)
        BY ZenonT(30), <2>14 DEF MEM_Inv, Replacement, Evicted, NotPresent
    <2>15. CASE RecycleInv(m)
        BY <2>15 DEF RecycleInv
    <2> QED
        BY <1>3, <2>1, <2>2, <2>3, <2>4, <2>5, <2>6, <2>7, <2>8, <2>9, <2>10,
           <2>11, <2>12, <2>13, <2>14, <2>15 DEF L2Receive
<1> QED
    BY SMTT(30), <1>1, <1>2, <1>3
       DEF Next, DirStep, L0Step, L1Step, L2Step, L2Next, vars

-----------------------------------------------------------------------------
\* The private L1s.

L1Fields == {"st", "data", "dirty", "acks", "retry"}
L1Shape(r) == r = [f \in L1Fields |-> r[f]]
StallShape(r) == r = [f \in {"up", "net"} |-> r[f]]
L1Wakes ==
    /\ l1 = [c \in Cores |-> l1[c]]
    /\ l1Stall = [c \in Cores |-> l1Stall[c]]
    /\ \A c \in Cores :
        /\ L1Shape(l1[c]) /\ StallShape(l1Stall[c])
        /\ l1[c].st \in L1States
        /\ l1[c].st \notin L1Transient => l1Stall[c] = NoneStalled

\* Every L1 starts without the block and with nothing stalled.
LEMMA L1WakesInit == Init => L1Wakes
BY DEF Init, L1Init, L1Wakes, L1Shape, L1Fields, StallShape, Invalid, NoneStalled,
       L1States

\* A step of one L1 that leaves its stalled messages alone keeps the
\* invariant when it goes to a transient state, or starts in a stable one.
LEMMA L1Moves ==
    ASSUME L1Wakes, NEW c \in Cores, NEW rec, Becomes(c, rec),
           UNCHANGED l1Stall, L1Shape(rec), rec.st \in L1States,
           rec.st \in L1Transient \/ l1[c].st \notin L1Transient
    PROVE  L1Wakes'
<1>1. /\ l1' = [d \in Cores |-> l1'[d]] /\ l1'[c] = rec
      /\ \A d \in Cores \ {c} : l1'[d] = l1[d]
    BY DEF L1Wakes, Becomes
<1> QED
    BY <1>1 DEF L1Wakes

\* One that wakes them keeps it whatever its next state.
LEMMA L1MovesAndWakes ==
    ASSUME L1Wakes, NEW c \in Cores, NEW rec, Becomes(c, rec),
           l1Stall' = [l1Stall EXCEPT ![c] = NoneStalled],
           L1Shape(rec), rec.st \in L1States
    PROVE  L1Wakes'
<1>1. /\ l1' = [d \in Cores |-> l1'[d]] /\ l1'[c] = rec
      /\ \A d \in Cores \ {c} : l1'[d] = l1[d]
    BY DEF L1Wakes, Becomes
<1>2. /\ l1Stall' = [d \in Cores |-> l1Stall'[d]]
      /\ l1Stall'[c] = NoneStalled
      /\ \A d \in Cores \ {c} : l1Stall'[d] = l1Stall[d]
    BY DEF L1Wakes
<1>3. StallShape(NoneStalled)
    BY DEF StallShape, NoneStalled
<1> QED
    BY SMTT(30), <1>1, <1>2, <1>3 DEF L1Wakes

\* One that stalls a message keeps it when the state is transient.
LEMMA L1Stalls ==
    ASSUME L1Wakes, NEW c \in Cores, NEW s, UNCHANGED l1, StallShape(s),
           l1Stall' = [l1Stall EXCEPT ![c] = s], l1[c].st \in L1Transient
    PROVE  L1Wakes'
<1>1. /\ l1Stall' = [d \in Cores |-> l1Stall'[d]]
      /\ l1Stall'[c] = s
      /\ \A d \in Cores \ {c} : l1Stall'[d] = l1Stall[d]
    BY DEF L1Wakes
<1> QED
    BY <1>1 DEF L1Wakes

\* What the rows do to an entry keeps its fields.
LEMMA L1Records ==
    ASSUME NEW r, L1Shape(r), NEW st, NEW m, NEW n, NEW c
    PROVE  /\ L1Shape([r EXCEPT !.st = st]) /\ [r EXCEPT !.st = st].st = st
           /\ L1Shape(FromL0(r, m)) /\ FromL0(r, m).st = r.st
           /\ L1Shape([r EXCEPT !.acks = n]) /\ [r EXCEPT !.acks = n].st = r.st
           /\ L1Shape([r EXCEPT !.retry = n]) /\ [r EXCEPT !.retry = n].st = r.st
           /\ L1Shape(Invalid) /\ Invalid.st = "I"
<1>1. L1Shape([r EXCEPT !.st = st]) /\ [r EXCEPT !.st = st].st = st
    BY DEF L1Shape, L1Fields
<1>2. L1Shape(FromL0(r, m)) /\ FromL0(r, m).st = r.st
    BY ZenonT(30) DEF L1Shape, L1Fields, FromL0
<1>3. L1Shape([r EXCEPT !.acks = n]) /\ [r EXCEPT !.acks = n].st = r.st
    BY DEF L1Shape, L1Fields
<1>4. L1Shape([r EXCEPT !.retry = n]) /\ [r EXCEPT !.retry = n].st = r.st
    BY DEF L1Shape, L1Fields
<1>5. L1Shape(Invalid) /\ Invalid.st = "I"
    BY DEF L1Shape, L1Fields, Invalid
<1> QED
    BY SMTT(30), <1>1, <1>2, <1>3, <1>4, <1>5
\* u_writeDataFromL2Response fills the block and leaves its shape.
LEMMA L1Fills ==
    ASSUME NEW c, L1Shape(l1[c]), NEW st, NEW m
    PROVE  L1Shape(Filled(c, st, m)) /\ Filled(c, st, m).st = st
BY ZenonT(30) DEF L1Shape, L1Fields, Filled

\* Going to a state, with and without a wake-up.
LEMMA L1Goes ==
    ASSUME L1Wakes, NEW c \in Cores, NEW st \in L1States, Goes(c, st),
           \/ l1Stall' = [l1Stall EXCEPT ![c] = NoneStalled]
           \/ /\ UNCHANGED l1Stall
              /\ st \in L1Transient \/ l1[c].st \notin L1Transient
    PROVE  L1Wakes'
<1> DEFINE rec == [l1[c] EXCEPT !.st = st]
<1>1. L1Shape(rec) /\ rec.st = st
    BY ZenonT(30), L1Records DEF L1Wakes
<1>2. Becomes(c, rec)
    BY DEF Becomes, Goes
<1> HIDE DEF rec
<1> QED
    BY <1>1, <1>2, L1Moves, L1MovesAndWakes

\* The L0's answer to a recall settles the block in a state of its own.
LEMMA L1Answers ==
    ASSUME NEW c, L1Shape(l1[c]), NEW m
    PROVE  L1Shape(Answered(c, m)) /\ Answered(c, m).st \in {"SS", "IM", "EE", "MM"}
<1> DEFINE st == Recalled(l1[c].st, m.class = "INV_DATA")
           r == [l1[c] EXCEPT !.st = st]
<1>1. st \in {"SS", "IM", "EE", "MM"}
    BY DEF Recalled
<1> HIDE DEF st
<1>2. L1Shape(r) /\ r.st = st
    BY ZenonT(30), L1Records
<1>3. Answered(c, m) = FromL0(r, m)
    BY DEF Answered, st
<1> HIDE DEF r
<1>4. L1Shape(FromL0(r, m)) /\ FromL0(r, m).st = st
    BY ZenonT(30), <1>2, L1Records
<1> QED
    BY SMTT(30), <1>1, <1>3, <1>4

\* Messages from the L0.
LEMMA L1FromL0Keeps ==
    ASSUME L1Wakes, NEW c \in Cores, NEW i, L1FromL0(c, i)
    PROVE  L1Wakes'
<1>0. L1Shape(l1[c]) /\ StallShape(l1Stall[c]) /\ l1[c].st \in L1States
    BY SMTT(30) DEF L1Wakes
<1> USE DEF PopL0, PopL0AndWake, L1States, L1Transient, Recalling, CopyRecalls
<1>1. CASE L1Load(c, i)
    BY SMTT(30), <1>1, L1Goes DEF L1Load
<1>2. CASE L1Store(c, i)
    BY SMTT(30), <1>2, L1Goes DEF L1Store
<1>3. CASE WriteBack(c, i)
    <2> DEFINE mm(st) == FromL0([l1[c] EXCEPT !.st = st], up[c][i])
    <2>1. ASSUME NEW st PROVE L1Shape(mm(st)) /\ mm(st).st = st
        <3> DEFINE r == [l1[c] EXCEPT !.st = st]
        <3>1. L1Shape(r) /\ r.st = st
            BY ZenonT(30), <1>0, L1Records
        <3> HIDE DEF r
        <3>2. L1Shape(FromL0(r, up[c][i])) /\ FromL0(r, up[c][i]).st = st
            BY ZenonT(30), <3>1, L1Records
        <3> QED BY SMTT(30), <3>2 DEF r
    <2> HIDE DEF mm
    <2>2. \/ Becomes(c, mm("MM")) /\ UNCHANGED l1Stall /\ l1[c].st \in {"E", "M"}
          \/ Becomes(c, mm("MX_L0")) /\ UNCHANGED l1Stall
          \/ /\ Becomes(c, mm("MM_IL0"))
             /\ l1Stall' = [l1Stall EXCEPT ![c] = NoneStalled]
        BY ZenonT(30), <1>3 DEF WriteBack, mm
    <2> QED
        BY SMTT(30), <2>1, <2>2, L1Moves, L1MovesAndWakes
<1>4. CASE L0_Ack(c, i) \/ SPMCP_recalled(c, i)
    <2> DEFINE rec == Answered(c, up[c][i])
    <2>1. L1Shape(rec) /\ rec.st \in {"SS", "IM", "EE", "MM"}
        BY <1>0, L1Answers
    <2>2. Becomes(c, rec) /\ l1Stall' = [l1Stall EXCEPT ![c] = NoneStalled]
        BY ZenonT(30), <1>4 DEF L0_Ack, SPMCP_recalled
    <2> HIDE DEF rec
    <2> QED
        BY ZenonT(30), <2>1, <2>2, L1MovesAndWakes
<1>5. CASE SPMCP_snapshot(c, i)
    BY SMTT(30), <1>5 DEF SPMCP_snapshot, L1Wakes
<1>6. CASE SPMCP_fetch(c, i)
    <2>1. CASE UNCHANGED l1
        BY SMTT(30), <1>6, <2>1 DEF SPMCP_fetch, L1Wakes
    <2>2. CASE \/ l1[c].st = "I" /\ Goes(c, "IX_D")
               \/ l1[c].st \in {"S", "E", "M"} /\ Goes(c, CopyRecall(l1[c].st))
        <3>1. l1[c].st \in {"S", "E", "M"} => CopyRecall(l1[c].st) \in CopyRecalls
            BY DEF CopyRecall
        <3> QED
            BY SMTT(30), <1>6, <2>2, <3>1, L1Goes DEF SPMCP_fetch
    <2> QED
        BY SMTT(30), <1>6, <2>1, <2>2 DEF SPMCP_fetch
<1>7. CASE SPMWB_store(c, i)
    BY <1>7 DEF SPMWB_store, L1Wakes
<1>8. CASE StallL0(c, i)
    <2> DEFINE s == [l1Stall[c] EXCEPT !.up = Append(@, up[c][i])]
    <2>1. StallShape(s)
        BY ZenonT(30), <1>0 DEF StallShape
    <2>2. /\ l1Stall' = [l1Stall EXCEPT ![c] = s]
          /\ UNCHANGED l1 /\ l1[c].st \in L1Transient
        BY <1>8 DEF StallL0
    <2> HIDE DEF s
    <2> QED
        BY ZenonT(30), <2>1, <2>2, L1Stalls
<1> QED
    BY <1>1, <1>2, <1>3, <1>4, <1>5, <1>6, <1>7, <1>8 DEF L1FromL0

\* Messages from the networks.
LEMMA L1ReceiveKeeps ==
    ASSUME L1Wakes, NEW c \in Cores, NEW m, L1Receive(c, m)
    PROVE  L1Wakes'
<1>0. L1Shape(l1[c]) /\ StallShape(l1Stall[c]) /\ l1[c].st \in L1States
    BY DEF L1Wakes
<1>a. L1Shape(Invalid) /\ Invalid.st = "I"
    BY ZenonT(30), <1>0, L1Records
<1>b. \A st : L1Shape(Filled(c, st, m)) /\ Filled(c, st, m).st = st
    BY <1>0, L1Fills
<1> USE DEF PopNet, PopNetAndWake, L1States, L1Transient, Recalling, CopyRecalls
<1>1. CASE RecallL0(c, m)
    <2>1. /\ Goes(c, RecallState(l1[c].st)) /\ UNCHANGED l1Stall
          /\ l1[c].st \in {"S", "E", "M", "SM"}
        BY SMTT(30), <1>1 DEF RecallL0, Goes
    <2>2. RecallState(l1[c].st) \in {"S_IL0", "E_IL0", "M_IL0", "SM_IL0"}
        BY SMTT(30), <2>1 DEF RecallState
    <2> QED
        BY <2>1, <2>2, L1Goes
<1>2. CASE L1Inv(c, m)
    <2>1. /\ UNCHANGED l1Stall
          /\ \/ Goes(c, "IS_I") \/ Goes(c, "SINK_WB_ACK") \/ UNCHANGED l1
             \/ /\ Becomes(c, Invalid)
                /\ l1[c].st \in {"I", "SS", "EE", "MM"}
        BY <1>2 DEF L1Inv
    <2> QED
        BY ZenonT(30), <1>a, <2>1, L1Goes, L1Moves DEF L1Wakes
<1>3. CASE Fwd_GETX(c, m)
    BY <1>3, <1>a, L1Moves, L1Goes DEF Fwd_GETX
<1>4. CASE Fwd_GETS(c, m)
    BY SMTT(30), <1>4, L1Goes DEF Fwd_GETS
<1>5. CASE Fwd_GETS_Silent(c, m)
    BY SMTT(30), <1>5 DEF Fwd_GETS_Silent, L1Wakes
<1>6. CASE StallL2(c, m)
    <2> DEFINE s == [l1Stall[c] EXCEPT !.net = @ (+) SetToBag({m})]
    <2>1. StallShape(s)
        BY SMTT(30), <1>0 DEF StallShape
    <2>2. /\ l1Stall' = [l1Stall EXCEPT ![c] = s]
          /\ UNCHANGED l1 /\ l1[c].st \in L1Transient
        BY SMTT(30), <1>6 DEF StallL2
    <2> HIDE DEF s
    <2> QED
        BY <2>1, <2>2, L1Stalls
<1>7. CASE Data_IS(c, m)
    BY ZenonT(30), <1>7, <1>a, <1>b, L1MovesAndWakes DEF Data_IS
<1>8. CASE Data_Exclusive(c, m)
    BY ZenonT(30), <1>8, <1>b, L1MovesAndWakes DEF Data_Exclusive
<1>9. CASE Data_IM(c, m)
    <2> DEFINE rec == [Filled(c, "SM", m) EXCEPT !.acks = l1[c].acks - m.acks]
    <2>1. L1Shape(rec) /\ rec.st = "SM"
        BY ZenonT(30), <1>b, L1Records
    <2>2. \/ Becomes(c, rec) /\ UNCHANGED l1Stall
          \/ /\ Becomes(c, Filled(c, "M", m))
             /\ l1Stall' = [l1Stall EXCEPT ![c] = NoneStalled]
        BY ZenonT(30), <1>9 DEF Data_IM
    <2> HIDE DEF rec
    <2> QED
        BY <1>b, <2>1, <2>2, L1Moves, L1MovesAndWakes
<1>10. CASE L1Ack(c, m)
    <2> DEFINE less == [l1[c] EXCEPT !.acks = @ - m.acks]
               all == [[l1[c] EXCEPT !.st = "M"] EXCEPT !.acks = 0]
    <2>1. L1Shape(less) /\ less.st = l1[c].st
        BY ZenonT(30), <1>0, L1Records
    <2>a. L1Shape(all) /\ all.st = "M"
        <3> DEFINE r == [l1[c] EXCEPT !.st = "M"]
        <3>1. L1Shape(r) /\ r.st = "M"
            BY ZenonT(30), <1>0, L1Records
        <3> HIDE DEF r
        <3>2. L1Shape([r EXCEPT !.acks = 0]) /\ [r EXCEPT !.acks = 0].st = "M"
            BY ZenonT(30), <3>1, L1Records
        <3> QED BY <3>2 DEF r
    <2>2. \/ Becomes(c, less) /\ UNCHANGED l1Stall
          \/ /\ Becomes(c, all)
             /\ l1Stall' = [l1Stall EXCEPT ![c] = NoneStalled]
        BY ZenonT(30), <1>10 DEF L1Ack, Becomes
    <2> HIDE DEF less, all
    <2> QED
        BY <1>0, <2>1, <2>a, <2>2, L1Moves, L1MovesAndWakes
<1>11. CASE WB_Ack(c, m)
    BY ZenonT(30), <1>11, <1>a, L1MovesAndWakes DEF WB_Ack
<1>12. CASE SPMCP_data(c, m)
    BY ZenonT(30), <1>12, <1>a, L1MovesAndWakes DEF SPMCP_data
<1>13. CASE SPM_SilentRetry(c, m)
    <2> DEFINE rec == [l1[c] EXCEPT !.retry = TRUE]
    <2>1. L1Shape(rec) /\ rec.st = l1[c].st
        BY ZenonT(30), <1>0, L1Records
    <2>2. Becomes(c, rec) /\ UNCHANGED l1Stall
        BY <1>13 DEF SPM_SilentRetry, Becomes
    <2> HIDE DEF rec
    <2> QED
        BY <1>0, <2>1, <2>2, L1Moves
<1>14. CASE L1SPMWB_Ack(c, m)
    BY <1>14 DEF L1SPMWB_Ack, L1Wakes
<1> QED
    BY <1>1, <1>2, <1>3, <1>4, <1>5, <1>6, <1>7, <1>8, <1>9, <1>10, <1>11,
       <1>12, <1>13, <1>14 DEF L1Receive

\* Every row of an L1 that returns to a stable state from a transient one
\* runs wakeUpAllBuffers.
LEMMA L1WakesStep == L1Wakes /\ [Next]_vars => L1Wakes'
<1> SUFFICES ASSUME L1Wakes, [Next]_vars PROVE L1Wakes'
    OBVIOUS
<1>1. CASE UNCHANGED l1Vars
    BY SMTT(30), <1>1 DEF l1Vars, L1Wakes
<1>2. ASSUME NEW c \in Cores, L1Next(c) PROVE L1Wakes'
    <2>1. CASE SPM_SilentReissue(c)
        <3> DEFINE rec == [l1[c] EXCEPT !.retry = FALSE]
        <3>1. L1Shape(l1[c])
            BY DEF L1Wakes
        <3>2. L1Shape(rec) /\ rec.st = l1[c].st
            BY ZenonT(30), <3>1, L1Records
        <3>3. Becomes(c, rec) /\ UNCHANGED l1Stall
            BY <2>1 DEF SPM_SilentReissue, Becomes
        <3> HIDE DEF rec
        <3> QED
            BY SMTT(30), <3>2, <3>3, L1Moves DEF L1Wakes
    <2>2. CASE L1_Replacement(c)
        <3>1. /\ UNCHANGED l1Stall
              /\ \/ l1[c].st = "SS" /\ Becomes(c, Invalid)
                 \/ Goes(c, "M_I")
                 \/ /\ l1[c].st \in {"S", "E", "M"}
                    /\ Goes(c, RecallState(l1[c].st))
            BY SMTT(30), <2>2 DEF L1_Replacement, EvictLine, Goes
        <3>2. l1[c].st \in {"S", "E", "M"} =>
                  RecallState(l1[c].st) \in {"S_IL0", "E_IL0", "M_IL0"}
            BY DEF RecallState
        <3>3. L1Shape(Invalid) /\ Invalid.st = "I"
            BY DEF L1Shape, L1Fields, Invalid
        <3> QED
            BY <3>1, <3>2, <3>3, L1Goes, L1Moves
               DEF L1States, L1Transient, Recalling, CopyRecalls
    <2> QED
        BY SMTT(30), <1>2, <2>1, <2>2, L1FromL0Keeps, L1ReceiveKeeps DEF L1Next
<1> QED
    BY <1>1, <1>2 DEF Next, DirStep, L0Step, L1Step, L2Step, vars

\* No lost wake-up in any of the controllers, for any number of cores: a
\* stalled message implies a transaction whose last row will wake it.
THEOREM WakeupsNotLost == Spec => []NoLostWakeup
<1>1. DirInv /\ L2Inv /\ L1Wakes => NoLostWakeup
    BY DEF DirInv, L2Inv, L1Wakes, NoLostWakeup
<1> QED
    BY <1>1, DirInvInit, DirInvStep, L2InvInit, L2InvStep,
       L1WakesInit, L1WakesStep, PTL DEF Spec

-----------------------------------------------------------------------------
\* The slots of the array.

\* A non-empty set of naturals contains its minimum: the first open way that
\* allocate and the migration scan pick is one of the open ways.
LEMMA MinInSet ==
  ASSUME NEW S \in SUBSET Nat, S # {}
  PROVE  Min(S) \in S
<1> DEFINE R == {ss \in Nat \X Nat : ss[1] < ss[2]}
<1>1. IsWellFoundedOn(R, Nat)
  BY NatLessThanWellFounded DEF OpToRel
<1>2. PICK m \in S : \A y \in S : ~ (<<y, m>> \in R)
  <2> HIDE DEF R
  <2> QED BY <1>1, WFMin
<1>3. \A y \in S : m <= y
  <2> TAKE y \in S
  <2>1. ~ (<<y, m>> \in R)
    BY <1>2
  <2>2. y \in Nat /\ m \in Nat
    OBVIOUS
  <2>3. ~ (y < m)
    BY <2>1, <2>2
  <2> QED BY <2>2, <2>3
<1> QED
  BY <1>3 DEF Min

\* Adding a fixed offset modulo n keeps distinct residues apart.
LEMMA RotationInjective ==
  ASSUME NEW n \in Nat, n > 0, NEW a \in 0 .. n - 1, NEW b \in 0 .. n - 1,
         NEW k \in Nat, (a + k) % n = (b + k) % n
  PROVE  a = b
<1> DEFINE p == (a + k) \div n
           q == (b + k) \div n
<1>1. p \in Int /\ q \in Int
  OBVIOUS
<1>2. a + k = n * p + ((a + k) % n)
  OBVIOUS
<1>3. b + k = n * q + ((b + k) % n)
  OBVIOUS
<1>4. a - b = n * (p - q)
  BY <1>1, <1>2, <1>3
<1>5. CASE p = q
  BY <1>4, <1>5
<1>6. CASE p > q
  <2>1. n * (p - q) >= n
    BY <1>1, <1>6
  <2> QED BY <2>1, <1>4
<1>7. CASE p < q
  <2>1. n * (p - q) <= 0 - n
    BY <1>1, <1>7
  <2> QED BY <2>1, <1>4
<1> QED BY <1>1, <1>5, <1>6, <1>7

\* spmPhysicalSet and the way offset of separate backing stay inside the array.
LEMMA SlotCell ==
  ASSUME NEW s \in Slots
  PROVE  /\ SpmPhysicalSet(s) \in Sets
         /\ SpmPhysicalWay(s) \in Ways
         /\ SpmPhysicalWay(s) = IF SeparateBacking
                                THEN SlotWay[s] + CoherentAssoc
                                ELSE SlotWay[s]
         /\ SlotWay[s] \in 0 .. NumSpmWays - 1
         /\ SpmSetStride = 0 => SpmPhysicalSet(s) = SlotSet[s]
<1>1. SlotSet[s] \in 0 .. NumSets - 1 /\ SlotWay[s] \in 0 .. NumSpmWays - 1
  BY TagAssumption
<1>2. SlotWay[s] * SpmSetStride \in Nat
  BY <1>1, GeometryAssumption
<1>3. SpmPhysicalSet(s) \in Sets
  BY <1>1, <1>2, GeometryAssumption DEF SpmPhysicalSet, Sets
<1>4. SpmSetStride = 0 => SpmPhysicalSet(s) = SlotSet[s]
  BY <1>1, GeometryAssumption DEF SpmPhysicalSet
<1> QED
  BY <1>1, <1>3, <1>4, GeometryAssumption DEF SpmPhysicalWay, Ways, Assoc

\* spmPhysicalSet's comment, "A rotation within each way is bijective: no two
\* logical slots alias": for logical sets below the set count, two slots never
\* share a cell, whatever the stride.
THEOREM SlotCellsDistinct ==
  ASSUME NEW s \in Slots, NEW t \in Slots,
         SpmPhysicalSet(s) = SpmPhysicalSet(t),
         SpmPhysicalWay(s) = SpmPhysicalWay(t)
  PROVE  s = t
<1>1. /\ SlotSet[s] \in 0 .. NumSets - 1 /\ SlotSet[t] \in 0 .. NumSets - 1
      /\ SlotWay[s] \in Nat /\ SlotWay[t] \in Nat
  BY TagAssumption, GeometryAssumption
<1>2. SlotWay[s] = SlotWay[t]
  BY <1>1, GeometryAssumption DEF SpmPhysicalWay
<1>3. SlotWay[s] * SpmSetStride \in Nat
  BY <1>1, GeometryAssumption
<1>4. SlotSet[s] = SlotSet[t]
  <2> DEFINE k == SlotWay[s] * SpmSetStride
  <2>1. (SlotSet[s] + k) % NumSets = (SlotSet[t] + k) % NumSets
    BY <1>2 DEF SpmPhysicalSet
  <2>2. k \in Nat
    BY <1>3
  <2> HIDE DEF k
  <2>3. NumSets \in Nat /\ NumSets > 0
    BY GeometryAssumption
  <2> QED BY <2>1, <2>2, <2>3, <1>1, RotationInjective
<1> QED BY <1>2, <1>4, TagAssumption

\* The same for ways.
LEMMA FirstOpenWay ==
  ASSUME NEW S \in SUBSET Ways, S # {}
  PROVE  Min(S) \in S
BY MinInSet, GeometryAssumption DEF Ways, Assoc

\* Every tag has one home set, and it is a set of the array.
LEMMA HomeSetType ==
  ASSUME NEW t \in Tags
  PROVE  /\ HomeSet(t) \in Sets
         /\ t \in Lines => HomeSet(t) = LineSet[t]
         /\ t \in Slots => HomeSet(t) = SpmPhysicalSet(t)
BY SlotCell, TagAssumption DEF HomeSet, Tags, Sets

\* addressToCacheSet finds the home set of every present tag, also of a slot
\* that a stride placed away from its index bits.
LEMMA LookupHome ==
  ASSUME PlacementInv
  PROVE  \A t \in Tags : tagIndex[t] # None =>
             /\ AddressToCacheSet(t) = HomeSet(t)
             /\ cache[HomeSet(t)][tagIndex[t]] = t
<1> SUFFICES ASSUME NEW t \in Tags, tagIndex[t] # None
             PROVE  AddressToCacheSet(t) = HomeSet(t)
  BY DEF PlacementInv, HomeExact, IsTagPresent
<1>1. CASE t \in Lines
  BY <1>1 DEF AddressToCacheSet, HomeSet
<1>2. CASE t \in Slots /\ t \notin Lines
  <2>1. SpmSetStride # 0 => tagSets[t] = SpmPhysicalSet(t)
    BY <1>2 DEF PlacementInv, SlotsPlaced, IsTagPresent
  <2>2. SpmPhysicalSet(t) # None
    BY <1>2, SlotCell, GeometryAssumption DEF Sets, None
  <2> QED BY <1>2, <2>1, <2>2, SlotCell DEF AddressToCacheSet, HomeSet
<1> QED BY <1>1, <1>2 DEF Tags

\* migrateOrClearSPMSlot, when prepareSPMSlot's scan succeeded: the cell is
\* left free of coherent data, and lookups are as exact as before.
LEMMA MigrationSound ==
  ASSUME PlacementInv, NEW s \in Slots, CanPrepare(s),
         NEW set, set = SpmPhysicalSet(s), NEW way, way = SpmPhysicalWay(s),
         NEW C, C = MigratedCache(set, way), NEW I, I = MigratedIndex(set, way)
  PROVE  /\ C \in [Sets -> [Ways -> Tags \cup {Empty}]]
         /\ I \in [Tags -> Ways \cup {None}]
         /\ C[set][way] \notin Lines
         /\ cache[set][way] \in Slots => C[set][way] = cache[set][way]
         /\ \A t \in Tags : (I[t] = None) <=> (tagIndex[t] = None)
         /\ \A t \in Slots : I[t] = tagIndex[t]
         /\ \A t \in Tags : I[t] # None => C[HomeSet(t)][I[t]] = t
         /\ \A u \in Sets, w \in Ways : C[u][w] # Empty =>
               u = HomeSet(C[u][w]) /\ I[C[u][w]] = w
         /\ \A u \in Sets, w \in Ways : reserved[u][w] => C[u][w] \notin Lines
<1>1. set \in Sets /\ way \in Ways
  BY SlotCell
<1>2. /\ cache \in [Sets -> [Ways -> Tags \cup {Empty}]]
      /\ tagIndex \in [Tags -> Ways \cup {None}]
  BY DEF PlacementInv, SlotsTypeOK
<1>3. \A t \in Tags : tagIndex[t] # None => cache[HomeSet(t)][tagIndex[t]] = t
  BY LookupHome
<1>4. \A u \in Sets, w \in Ways : cache[u][w] # Empty =>
         u = HomeSet(cache[u][w]) /\ tagIndex[cache[u][w]] = w
  BY DEF PlacementInv, HomeExact
<1>5. \A u \in Sets, w \in Ways : reserved[u][w] => cache[u][w] \notin Lines
  BY DEF PlacementInv, ReservedHoldsNoLine
<1>6. CASE cache[set][way] \notin Lines
  <2>1. C = cache /\ I = tagIndex
    BY <1>6 DEF MigratedCache, MigratedIndex
  <2> QED BY <1>1, <1>2, <1>3, <1>4, <1>5, <1>6, <2>1
<1>7. CASE cache[set][way] \in Lines
  <2> DEFINE l == cache[set][way]
             d == MigrateTo(set, way)
  <2>1. d \in OpenWays(set) \ {way}
    BY <1>7, FirstOpenWay DEF CanPrepare, MigrateTo, OpenWays
  <2>2. /\ d \in Ways /\ d # way
        /\ ~ reserved[set][d] /\ cache[set][d] = Empty
    BY <2>1 DEF OpenWays
  <2>3. /\ l \in Tags /\ l \notin Slots /\ l # Empty
        /\ HomeSet(l) = set /\ tagIndex[l] = way
    BY <1>1, <1>4, <1>7, TagAssumption DEF Tags
  <2>4. /\ C = [cache EXCEPT ![set][d] = l, ![set][way] = Empty]
        /\ I = [tagIndex EXCEPT ![l] = d]
    BY <1>7 DEF MigratedCache, MigratedIndex
  <2> HIDE DEF l, d
  <2>5. Empty \notin Tags /\ None \notin Ways
    BY TagAssumption, GeometryAssumption DEF Tags, None, Ways
  <2>6. C \in [Sets -> [Ways -> Tags \cup {Empty}]]
    BY <1>1, <1>2, <2>2, <2>3, <2>4
  <2>7. I \in [Tags -> Ways \cup {None}]
    BY <1>1, <1>2, <2>2, <2>3, <2>4
  <2>8. /\ C[set][d] = l /\ C[set][way] = Empty
        /\ \A u \in Sets, w \in Ways :
             u # set \/ (w # d /\ w # way) => C[u][w] = cache[u][w]
    BY <1>1, <1>2, <2>2, <2>4
  <2>9. I[l] = d /\ \A t \in Tags : t # l => I[t] = tagIndex[t]
    BY <1>2, <2>3, <2>4
  <2>10. \A t \in Tags : (I[t] = None) <=> (tagIndex[t] = None)
    BY <1>1, <2>2, <2>3, <2>5, <2>9
  <2>11. \A t \in Slots : I[t] = tagIndex[t]
    BY <2>3, <2>9 DEF Tags
  <2>12. \A t \in Tags : I[t] # None => C[HomeSet(t)][I[t]] = t
    <3> SUFFICES ASSUME NEW t \in Tags, I[t] # None
                 PROVE  C[HomeSet(t)][I[t]] = t
      OBVIOUS
    <3>1. CASE t = l
      BY <3>1, <2>3, <2>8, <2>9
    <3>2. CASE t # l
      <4>1. I[t] = tagIndex[t] /\ tagIndex[t] \in Ways /\ HomeSet(t) \in Sets
        BY <3>2, <2>9, <1>2, HomeSetType
      <4>2. cache[HomeSet(t)][tagIndex[t]] = t
        BY <1>3, <4>1
      <4>3. HomeSet(t) # set \/ (tagIndex[t] # d /\ tagIndex[t] # way)
        BY <4>2, <3>2, <2>2, <2>5 DEF l
      <4> QED BY <4>1, <4>2, <4>3, <2>8
    <3> QED BY <3>1, <3>2
  <2>13. \A u \in Sets, w \in Ways : C[u][w] # Empty =>
               u = HomeSet(C[u][w]) /\ I[C[u][w]] = w
    <3> SUFFICES ASSUME NEW u \in Sets, NEW w \in Ways, C[u][w] # Empty
                 PROVE  u = HomeSet(C[u][w]) /\ I[C[u][w]] = w
      OBVIOUS
    <3>1. CASE u = set /\ w = d
      BY <3>1, <2>3, <2>8, <2>9
    <3>2. CASE u # set \/ (w # d /\ w # way)
      <4>1. C[u][w] = cache[u][w] /\ cache[u][w] \in Tags
        BY <3>2, <2>8, <1>2
      <4>2. u = HomeSet(C[u][w]) /\ tagIndex[C[u][w]] = w
        BY <4>1, <1>4
      <4>3. C[u][w] # l
        BY <4>2, <3>2, <2>3
      <4> QED BY <4>1, <4>2, <4>3, <2>9
    <3> QED BY <3>1, <3>2, <2>8
  <2>14. \A u \in Sets, w \in Ways : reserved[u][w] => C[u][w] \notin Lines
    BY <1>5, <2>2, <2>5, <2>8 DEF Tags
  <2>15. C[set][way] \notin Lines /\ cache[set][way] \notin Slots
    BY <2>3, <2>5, <2>8 DEF Tags, l
  <2> QED BY <2>6, <2>7, <2>10, <2>11, <2>12, <2>13, <2>14, <2>15
<1> QED BY <1>6, <1>7

\* The empty array CacheMemory::init builds satisfies the placement invariant.
THEOREM PlacementInit == SlotsInit => PlacementInv
<1> SUFFICES ASSUME SlotsInit PROVE PlacementInv
  OBVIOUS
<1>1. SlotsTypeOK
  BY GeometryAssumption DEF SlotsInit, SlotsTypeOK, None
<1>2. HomeExact
  BY DEF SlotsInit, HomeExact, IsTagPresent
<1>3. SlotsPlaced
  BY DEF SlotsInit, SlotsPlaced, IsTagPresent, Tags
<1>4. ReservedHoldsNoLine
  BY TagAssumption, GeometryAssumption DEF SlotsInit, ReservedHoldsNoLine, Ways, Assoc
<1>5. ReservedIffUsed
  <2>1. \A set \in Sets, way \in 0 .. CoherentAssoc - 1 : ~ reserved[set][way]
    <3> SUFFICES ASSUME NEW set \in Sets, NEW way \in 0 .. CoherentAssoc - 1
                 PROVE  ~ reserved[set][way]
      OBVIOUS
    <3>1. way \in Ways /\ ~ (way >= CoherentAssoc)
      BY GeometryAssumption DEF Ways, Assoc
    <3>2. reserved[set][way] = (SeparateBacking /\ way >= CoherentAssoc)
      BY <3>1 DEF SlotsInit
    <3> QED BY <3>1, <3>2
  <2>2. \A s \in Slots : ~ IsTagPresent(s) /\ ~ (copies[s] > 0)
    BY DEF SlotsInit, IsTagPresent, Tags
  <2> QED BY <2>1, <2>2 DEF ReservedIffUsed
<1> QED BY <1>1, <1>2, <1>3, <1>4, <1>5 DEF PlacementInv

\* allocate preserves the placement invariant.
LEMMA AllocateStep ==
  ASSUME PlacementInv, NEW l \in Lines, Allocate(l)
  PROVE  PlacementInv'
<1> DEFINE set == LineSet[l]
           way == Min(OpenWays(set))
<1>1. /\ cache \in [Sets -> [Ways -> Tags \cup {Empty}]]
      /\ tagIndex \in [Tags -> Ways \cup {None}]
      /\ reserved \in [Sets -> [Ways -> BOOLEAN]]
  BY DEF PlacementInv, SlotsTypeOK
<1>2. /\ set \in Sets /\ way \in Ways
      /\ ~ reserved[set][way] /\ cache[set][way] = Empty
  BY FirstOpenWay, TagAssumption DEF Allocate, OpenWays, Sets
<1>3. /\ l \in Tags /\ l \notin Slots /\ l # Empty /\ HomeSet(l) = set
      /\ tagIndex[l] = None /\ None \notin Ways
  BY TagAssumption, GeometryAssumption
  DEF Allocate, IsTagPresent, Tags, HomeSet, None, Ways
<1>4. /\ cache' = [cache EXCEPT ![set][way] = l]
      /\ tagIndex' = [tagIndex EXCEPT ![l] = way]
      /\ UNCHANGED <<reserved, tagSets, copies>>
  BY DEF Allocate
<1> HIDE DEF set, way
<1>5. /\ cache'[set][way] = l
      /\ \A u \in Sets, w \in Ways :
            u # set \/ w # way => cache'[u][w] = cache[u][w]
  BY <1>1, <1>2, <1>4
<1>6. tagIndex'[l] = way /\ \A t \in Tags : t # l => tagIndex'[t] = tagIndex[t]
  BY <1>1, <1>3, <1>4
<1>7. SlotsTypeOK'
  BY <1>1, <1>2, <1>3, <1>4 DEF PlacementInv, SlotsTypeOK
<1>8. HomeExact'
  <2>1. ASSUME NEW t \in Tags, tagIndex'[t] # None
        PROVE  cache'[HomeSet(t)][tagIndex'[t]] = t
    <3>1. CASE t = l
      BY <3>1, <1>3, <1>5, <1>6
    <3>2. CASE t # l
      <4>1. tagIndex'[t] = tagIndex[t] /\ tagIndex[t] \in Ways
        BY <3>2, <2>1, <1>1, <1>6
      <4>2. cache[HomeSet(t)][tagIndex[t]] = t /\ t # Empty /\ HomeSet(t) \in Sets
        BY <4>1, <2>1, HomeSetType, TagAssumption
        DEF PlacementInv, HomeExact, IsTagPresent, Tags
      <4>3. HomeSet(t) # set \/ tagIndex[t] # way
        BY <4>2, <1>2
      <4> QED BY <4>1, <4>2, <4>3, <1>5
    <3> QED BY <3>1, <3>2
  <2>2. ASSUME NEW u \in Sets, NEW w \in Ways, cache'[u][w] # Empty
        PROVE  u = HomeSet(cache'[u][w]) /\ tagIndex'[cache'[u][w]] = w
    <3>1. CASE u = set /\ w = way
      BY <3>1, <1>3, <1>5, <1>6
    <3>2. CASE u # set \/ w # way
      <4>1. /\ cache'[u][w] = cache[u][w] /\ cache[u][w] \in Tags
            /\ u = HomeSet(cache[u][w]) /\ tagIndex[cache[u][w]] = w
        BY <3>2, <2>2, <1>1, <1>5 DEF PlacementInv, HomeExact
      <4> QED BY <4>1, <1>3, <1>6
    <3> QED BY <3>1, <3>2
  <2> QED BY <2>1, <2>2 DEF HomeExact, IsTagPresent, HomeSet, SpmPhysicalSet
<1>9. \A t \in Slots : tagIndex'[t] = tagIndex[t]
  BY <1>3, <1>6 DEF Tags
<1>10. SlotsPlaced'
  BY <1>4, <1>9 DEF PlacementInv, SlotsPlaced, IsTagPresent, SpmPhysicalWay, SpmPhysicalSet
<1>11. ReservedHoldsNoLine'
  BY <1>2, <1>4, <1>5 DEF PlacementInv, ReservedHoldsNoLine
<1>12. ReservedIffUsed'
  BY <1>4, <1>9 DEF PlacementInv, ReservedIffUsed, IsTagPresent, SpmPhysicalWay, SpmPhysicalSet
<1> QED BY <1>7, <1>8, <1>10, <1>11, <1>12 DEF PlacementInv

\* deallocate preserves the placement invariant.
LEMMA DeallocateStep ==
  ASSUME PlacementInv, NEW l \in Lines, Deallocate(l)
  PROVE  PlacementInv'
<1> DEFINE set == LineSet[l]
           way == tagIndex[l]
<1>1. /\ cache \in [Sets -> [Ways -> Tags \cup {Empty}]]
      /\ tagIndex \in [Tags -> Ways \cup {None}]
      /\ reserved \in [Sets -> [Ways -> BOOLEAN]]
  BY DEF PlacementInv, SlotsTypeOK
<1>2. /\ l \in Tags /\ l \notin Slots /\ HomeSet(l) = set
      /\ Empty \notin Tags /\ None \notin Ways
  BY TagAssumption, GeometryAssumption DEF Tags, HomeSet, None, Ways
<1>3. set \in Sets /\ way \in Ways /\ cache[set][way] = l
  BY <1>1, <1>2, HomeSetType
  DEF Deallocate, IsTagPresent, PlacementInv, HomeExact
<1>4. /\ cache' = [cache EXCEPT ![set][way] = Empty]
      /\ tagIndex' = [tagIndex EXCEPT ![l] = None]
      /\ UNCHANGED <<reserved, tagSets, copies>>
  BY DEF Deallocate
<1> HIDE DEF set, way
<1>5. /\ cache'[set][way] = Empty
      /\ \A u \in Sets, w \in Ways :
            u # set \/ w # way => cache'[u][w] = cache[u][w]
  BY <1>1, <1>3, <1>4
<1>6. tagIndex'[l] = None /\ \A t \in Tags : t # l => tagIndex'[t] = tagIndex[t]
  BY <1>1, <1>2, <1>4
<1>7. SlotsTypeOK'
  BY <1>1, <1>2, <1>3, <1>4 DEF PlacementInv, SlotsTypeOK
<1>8. HomeExact'
  <2>1. ASSUME NEW t \in Tags, tagIndex'[t] # None
        PROVE  cache'[HomeSet(t)][tagIndex'[t]] = t
    <3>1. t # l /\ tagIndex'[t] = tagIndex[t] /\ tagIndex[t] \in Ways
      BY <2>1, <1>1, <1>6
    <3>2. cache[HomeSet(t)][tagIndex[t]] = t /\ HomeSet(t) \in Sets
      BY <3>1, <2>1, HomeSetType DEF PlacementInv, HomeExact, IsTagPresent
    <3>3. HomeSet(t) # set \/ tagIndex[t] # way
      BY <3>1, <3>2, <1>3
    <3> QED BY <3>1, <3>2, <3>3, <1>5
  <2>2. ASSUME NEW u \in Sets, NEW w \in Ways, cache'[u][w] # Empty
        PROVE  u = HomeSet(cache'[u][w]) /\ tagIndex'[cache'[u][w]] = w
    <3>1. u # set \/ w # way
      BY <2>2, <1>5
    <3>2. /\ cache'[u][w] = cache[u][w] /\ cache[u][w] \in Tags
          /\ u = HomeSet(cache[u][w]) /\ tagIndex[cache[u][w]] = w
      BY <3>1, <2>2, <1>1, <1>5 DEF PlacementInv, HomeExact
    <3>3. cache[u][w] # l
      BY <3>1, <3>2, <1>2 DEF way
    <3> QED BY <3>2, <3>3, <1>6
  <2> QED BY <2>1, <2>2 DEF HomeExact, IsTagPresent, HomeSet, SpmPhysicalSet
<1>9. \A t \in Slots : tagIndex'[t] = tagIndex[t]
  BY <1>2, <1>6 DEF Tags
<1>10. SlotsPlaced'
  BY <1>4, <1>9 DEF PlacementInv, SlotsPlaced, IsTagPresent, SpmPhysicalWay, SpmPhysicalSet
<1>11. ReservedHoldsNoLine'
  <2>1. Empty \notin Lines
    BY <1>2 DEF Tags
  <2> QED BY <2>1, <1>3, <1>4, <1>5 DEF PlacementInv, ReservedHoldsNoLine
<1>12. ReservedIffUsed'
  BY <1>4, <1>9 DEF PlacementInv, ReservedIffUsed, IsTagPresent, SpmPhysicalWay, SpmPhysicalSet
<1> QED BY <1>7, <1>8, <1>10, <1>11, <1>12 DEF PlacementInv

\* The cell of a live or awaited slot is reserved and free of coherent data.
LEMMA UsedIsReserved ==
  ASSUME PlacementInv, NEW s \in Slots, IsTagPresent(s) \/ copies[s] > 0
  PROVE  /\ reserved[SpmPhysicalSet(s)][SpmPhysicalWay(s)]
         /\ cache[SpmPhysicalSet(s)][SpmPhysicalWay(s)] \notin Lines
<1>1. SpmPhysicalSet(s) \in Sets /\ SpmPhysicalWay(s) \in Ways
  BY SlotCell
<1>2. reserved[SpmPhysicalSet(s)][SpmPhysicalWay(s)]
  <2>1. CASE SpmPhysicalWay(s) >= CoherentAssoc
    BY <1>1, <2>1 DEF PlacementInv, ReservedHoldsNoLine
  <2>2. CASE SpmPhysicalWay(s) \in 0 .. CoherentAssoc - 1
    BY <1>1, <2>2 DEF PlacementInv, ReservedIffUsed
  <2> QED BY <1>1, <2>1, <2>2, GeometryAssumption DEF Ways, Assoc
<1> QED BY <1>1, <1>2 DEF PlacementInv, ReservedHoldsNoLine

\* Setting the bit of a slot that is now live or awaited keeps the bits exact.
LEMMA ReservationStep ==
  ASSUME PlacementInv, NEW s \in Slots,
         reserved' = [reserved EXCEPT
                        ![SpmPhysicalSet(s)][SpmPhysicalWay(s)] = TRUE],
         copies' \in [Slots -> 0 .. MaxCopies],
         \A t \in Slots : t # s => copies'[t] = copies[t],
         \A t \in Slots : t # s => tagIndex'[t] = tagIndex[t],
         tagIndex'[s] # None \/ copies'[s] > 0
  PROVE  ReservedIffUsed'
<1> DEFINE set == SpmPhysicalSet(s)
           way == SpmPhysicalWay(s)
<1>1. set \in Sets /\ way \in Ways
  BY SlotCell
<1>2. reserved \in [Sets -> [Ways -> BOOLEAN]]
  BY DEF PlacementInv, SlotsTypeOK
<1>3. /\ reserved'[set][way]
      /\ \A u \in Sets, w \in Ways :
            u # set \/ w # way => reserved'[u][w] = reserved[u][w]
  BY <1>1, <1>2
<1> SUFFICES ASSUME NEW u \in Sets, NEW w \in 0 .. CoherentAssoc - 1
             PROVE  reserved'[u][w] <=>
                      \E t \in Slots : /\ SpmPhysicalSet(t) = u
                                       /\ SpmPhysicalWay(t) = w
                                       /\ tagIndex'[t] # None \/ copies'[t] > 0
  BY DEF ReservedIffUsed, IsTagPresent, SpmPhysicalSet, SpmPhysicalWay
<1>4. CASE u = set /\ w = way
  BY <1>3, <1>4
<1>5. CASE u # set \/ w # way
  <2>1. w \in Ways
    BY GeometryAssumption DEF Ways, Assoc
  <2>2. reserved'[u][w] = reserved[u][w]
    BY <1>3, <1>5, <2>1
  <2>3. reserved[u][w] <=>
          \E t \in Slots : /\ SpmPhysicalSet(t) = u
                           /\ SpmPhysicalWay(t) = w
                           /\ tagIndex[t] # None \/ copies[t] > 0
    BY DEF PlacementInv, ReservedIffUsed, IsTagPresent
  <2>4. \A t \in Slots : SpmPhysicalSet(t) = u /\ SpmPhysicalWay(t) = w => t # s
    BY <1>5
  <2> HIDE DEF set, way
  <2> QED BY <2>2, <2>3, <2>4
<1> QED BY <1>4, <1>5

\* prepareSPMSlot preserves the placement invariant.
LEMMA PrepareStep ==
  ASSUME PlacementInv, NEW s \in Slots, Prepare(s)
  PROVE  PlacementInv'
<1> DEFINE set == SpmPhysicalSet(s)
           way == SpmPhysicalWay(s)
<1>1. set \in Sets /\ way \in Ways
  BY SlotCell
<1>2. /\ CanPrepare(s)
      /\ cache' = MigratedCache(set, way) /\ tagIndex' = MigratedIndex(set, way)
      /\ reserved' = [reserved EXCEPT ![set][way] = TRUE]
      /\ copies' = [copies EXCEPT ![s] = @ + 1] /\ copies[s] < MaxCopies
      /\ tagSets' = tagSets
  BY DEF Prepare
<1>3. /\ reserved \in [Sets -> [Ways -> BOOLEAN]]
      /\ copies \in [Slots -> 0 .. MaxCopies]
  BY DEF PlacementInv, SlotsTypeOK
<1>4. /\ cache' \in [Sets -> [Ways -> Tags \cup {Empty}]]
      /\ tagIndex' \in [Tags -> Ways \cup {None}]
      /\ cache'[set][way] \notin Lines
      /\ \A t \in Slots : tagIndex'[t] = tagIndex[t]
      /\ \A t \in Tags : tagIndex'[t] # None =>
            cache'[HomeSet(t)][tagIndex'[t]] = t
      /\ \A u \in Sets, w \in Ways : cache'[u][w] # Empty =>
            u = HomeSet(cache'[u][w]) /\ tagIndex'[cache'[u][w]] = w
      /\ \A u \in Sets, w \in Ways : reserved[u][w] => cache'[u][w] \notin Lines
  BY <1>2, MigrationSound
<1>5. /\ copies' \in [Slots -> 0 .. MaxCopies] /\ copies'[s] > 0
      /\ \A t \in Slots : t # s => copies'[t] = copies[t]
  BY <1>2, <1>3, GeometryAssumption
<1>6. SlotsTypeOK'
  BY <1>1, <1>2, <1>3, <1>4, <1>5 DEF PlacementInv, SlotsTypeOK
<1>7. HomeExact'
  BY <1>4 DEF HomeExact, IsTagPresent, HomeSet, SpmPhysicalSet
<1>8. SlotsPlaced'
  BY <1>2, <1>4 DEF PlacementInv, SlotsPlaced, IsTagPresent, SpmPhysicalWay, SpmPhysicalSet
<1>9. ReservedHoldsNoLine'
  <2>1. \A u \in Sets, w \in Ways : (u = set /\ w = way) \/ reserved'[u][w] = reserved[u][w]
    BY <1>1, <1>2, <1>3
  <2>2. reserved'[set][way]
    BY <1>1, <1>2, <1>3
  <2> QED BY <2>1, <2>2, <1>4 DEF PlacementInv, ReservedHoldsNoLine
<1>10. ReservedIffUsed'
  BY <1>2, <1>4, <1>5, ReservationStep
<1> QED BY <1>6, <1>7, <1>8, <1>9, <1>10 DEF PlacementInv

\* allocateSPMSlot preserves the placement invariant.
LEMMA SlotAllocationStep ==
  ASSUME PlacementInv, NEW s \in Slots, CanPrepare(s), ~ IsTagPresent(s),
         AllocateSPMSlot(s),
         reserved' = [reserved EXCEPT
                        ![SpmPhysicalSet(s)][SpmPhysicalWay(s)] = TRUE],
         copies' \in [Slots -> 0 .. MaxCopies],
         \A t \in Slots : t # s => copies'[t] = copies[t]
  PROVE  PlacementInv'
<1> DEFINE set == SpmPhysicalSet(s)
           way == SpmPhysicalWay(s)
           C == MigratedCache(set, way)
           I == MigratedIndex(set, way)
<1>1. /\ set \in Sets /\ way \in Ways /\ None \notin Ways /\ set # None
      /\ s \in Tags /\ s \notin Lines /\ HomeSet(s) = set /\ Empty \notin Tags
  BY SlotCell, TagAssumption, GeometryAssumption
  DEF Tags, HomeSet, None, Ways, Sets
<1>2. /\ cache' = [C EXCEPT ![set][way] = s]
      /\ tagIndex' = [I EXCEPT ![s] = way]
      /\ tagSets' = IF SpmSetStride # 0 THEN [tagSets EXCEPT ![s] = set]
                                        ELSE tagSets
  BY DEF AllocateSPMSlot
<1>3. /\ reserved \in [Sets -> [Ways -> BOOLEAN]]
      /\ tagSets \in [Slots -> Sets \cup {None}]
  BY DEF PlacementInv, SlotsTypeOK
<1>4. /\ C \in [Sets -> [Ways -> Tags \cup {Empty}]]
      /\ I \in [Tags -> Ways \cup {None}]
      /\ C[set][way] \notin Lines
      /\ cache[set][way] \in Slots => C[set][way] = cache[set][way]
      /\ \A t \in Slots : I[t] = tagIndex[t]
      /\ \A t \in Tags : I[t] # None => C[HomeSet(t)][I[t]] = t
      /\ \A u \in Sets, w \in Ways : C[u][w] # Empty =>
            u = HomeSet(C[u][w]) /\ I[C[u][w]] = w
      /\ \A u \in Sets, w \in Ways : reserved[u][w] => C[u][w] \notin Lines
  BY MigrationSound
<1> HIDE DEF C, I
<1>5. C[set][way] = Empty
  <2>1. SUFFICES ASSUME C[set][way] \in Slots PROVE FALSE
    BY <1>1, <1>4 DEF Tags
  <2> DEFINE t == C[set][way]
  <2>2. set = HomeSet(t) /\ tagIndex[t] = way /\ t # Empty
    BY <2>1, <1>1, <1>4 DEF Tags
  <2>3. SpmPhysicalSet(t) = set
    BY <2>1, <2>2, HomeSetType DEF Tags
  <2>4. SpmPhysicalWay(t) = way
    BY <2>1, <2>2, <1>1 DEF PlacementInv, SlotsPlaced, IsTagPresent
  <2>5. t = s
    BY <2>1, <2>3, <2>4, SlotCellsDistinct
  <2> QED BY <2>2, <2>5, <1>1 DEF IsTagPresent
<1> HIDE DEF set, way
<1>6. /\ cache'[set][way] = s
      /\ \A u \in Sets, w \in Ways :
            u # set \/ w # way => cache'[u][w] = C[u][w]
  BY <1>1, <1>2, <1>4
<1>7. tagIndex'[s] = way /\ \A t \in Tags : t # s => tagIndex'[t] = I[t]
  BY <1>1, <1>2, <1>4
<1>8. SlotsTypeOK'
  BY <1>1, <1>2, <1>3, <1>4 DEF SlotsTypeOK, set, way
<1>9. HomeExact'
  <2>1. ASSUME NEW t \in Tags, tagIndex'[t] # None
        PROVE  cache'[HomeSet(t)][tagIndex'[t]] = t
    <3>1. CASE t = s
      BY <3>1, <1>1, <1>6, <1>7
    <3>2. CASE t # s
      <4>1. tagIndex'[t] = I[t] /\ I[t] \in Ways
        BY <3>2, <2>1, <1>4, <1>7
      <4>2. C[HomeSet(t)][I[t]] = t /\ t # Empty /\ HomeSet(t) \in Sets
        BY <4>1, <2>1, <1>1, <1>4, HomeSetType
      <4>3. HomeSet(t) # set \/ I[t] # way
        BY <4>2, <1>5
      <4> QED BY <4>1, <4>2, <4>3, <1>6
    <3> QED BY <3>1, <3>2
  <2>2. ASSUME NEW u \in Sets, NEW w \in Ways, cache'[u][w] # Empty
        PROVE  u = HomeSet(cache'[u][w]) /\ tagIndex'[cache'[u][w]] = w
    <3>1. CASE u = set /\ w = way
      BY <3>1, <1>1, <1>6, <1>7
    <3>2. CASE u # set \/ w # way
      <4>1. /\ cache'[u][w] = C[u][w] /\ C[u][w] \in Tags
            /\ u = HomeSet(C[u][w]) /\ I[C[u][w]] = w
        BY <3>2, <2>2, <1>4, <1>6
      <4>2. I[s] = None
        BY <1>4 DEF IsTagPresent
      <4>3. C[u][w] # s
        BY <4>1, <4>2, <1>1
      <4> QED BY <4>1, <4>3, <1>7
    <3> QED BY <3>1, <3>2
  <2> QED BY <2>1, <2>2 DEF HomeExact, IsTagPresent, HomeSet, SpmPhysicalSet
<1>10. \A t \in Slots : t # s => tagIndex'[t] = tagIndex[t]
  BY <1>4, <1>7 DEF Tags
<1>11. SlotsPlaced'
  <2>1. \A t \in Slots : t # s => tagSets'[t] = tagSets[t]
    BY <1>2, <1>3
  <2>2. SpmSetStride # 0 => tagSets'[s] = set
    BY <1>2, <1>3
  <2>3. \A t \in Slots : t # s =>
           IF tagIndex'[t] # None
           THEN /\ tagIndex'[t] = SpmPhysicalWay(t)
                /\ SpmSetStride # 0 => tagSets'[t] = SpmPhysicalSet(t)
           ELSE tagSets'[t] = None
    BY <2>1, <1>10 DEF PlacementInv, SlotsPlaced, IsTagPresent
  <2>4. tagIndex'[s] = way /\ way # None
    BY <1>1, <1>7
  <2> QED BY <2>2, <2>3, <2>4
          DEF SlotsPlaced, IsTagPresent, SpmPhysicalWay, SpmPhysicalSet, set, way
<1>12. ReservedHoldsNoLine'
  <2>1. /\ reserved'[set][way]
        /\ \A u \in Sets, w \in Ways : (u = set /\ w = way) \/ reserved'[u][w] = reserved[u][w]
    BY <1>1, <1>3 DEF set, way
  <2>2. \A u \in Sets, w \in Ways : w >= CoherentAssoc => reserved[u][w]
    BY DEF PlacementInv, ReservedHoldsNoLine
  <2> SUFFICES ASSUME NEW u \in Sets, NEW w \in Ways
               PROVE  /\ reserved'[u][w] => cache'[u][w] \notin Lines
                      /\ w >= CoherentAssoc => reserved'[u][w]
    BY DEF ReservedHoldsNoLine
  <2>3. CASE u = set /\ w = way
    BY <2>1, <2>3, <1>1, <1>6
  <2>4. CASE u # set \/ w # way
    <3>1. reserved'[u][w] = reserved[u][w] /\ cache'[u][w] = C[u][w]
      BY <2>1, <2>4, <1>6
    <3>2. /\ reserved[u][w] => C[u][w] \notin Lines
          /\ w >= CoherentAssoc => reserved[u][w]
      BY <2>2, <1>4
    <3> QED BY <3>1, <3>2
  <2> QED BY <2>3, <2>4
<1>13. ReservedIffUsed'
  <2>1. tagIndex'[s] # None
    BY <1>1, <1>7
  <2> QED BY <2>1, <1>10, ReservationStep
<1> QED BY <1>8, <1>9, <1>11, <1>12, <1>13 DEF PlacementInv

\* Installing arrived data preserves the placement invariant: the reservation
\* made at the in-port keeps the cell free, so nothing is migrated here.
LEMMA InstallStep ==
  ASSUME PlacementInv, NEW s \in Slots, Install(s)
  PROVE  PlacementInv'
<1> DEFINE set == SpmPhysicalSet(s)
           way == SpmPhysicalWay(s)
<1>1. /\ reserved \in [Sets -> [Ways -> BOOLEAN]]
      /\ copies \in [Slots -> 0 .. MaxCopies]
  BY DEF PlacementInv, SlotsTypeOK
<1>2. /\ copies[s] > 0 /\ reserved' = reserved
      /\ copies' = [copies EXCEPT ![s] = @ - 1]
  BY DEF Install
<1>3. reserved[set][way] /\ cache[set][way] \notin Lines
  BY <1>2, UsedIsReserved
<1>4. reserved' = [reserved EXCEPT ![set][way] = TRUE]
  BY <1>1, <1>2, <1>3, SlotCell
<1>5. /\ copies' \in [Slots -> 0 .. MaxCopies]
      /\ \A t \in Slots : t # s => copies'[t] = copies[t]
  BY <1>1, <1>2, GeometryAssumption
<1>6. CASE ~ IsTagPresent(s)
  <2>1. AllocateSPMSlot(s)
    BY <1>6 DEF Install
  <2>2. CanPrepare(s)
    BY <1>3 DEF CanPrepare
  <2> QED BY <2>1, <2>2, <1>4, <1>5, <1>6, SlotAllocationStep
<1>7. CASE IsTagPresent(s)
  <2>1. cache' = cache /\ tagIndex' = tagIndex /\ tagSets' = tagSets
    BY <1>7 DEF Install
  <2>2. SlotsTypeOK' /\ HomeExact' /\ SlotsPlaced' /\ ReservedHoldsNoLine'
    BY <2>1, <1>2, <1>5
    DEF PlacementInv, SlotsTypeOK, HomeExact, SlotsPlaced, ReservedHoldsNoLine,
        IsTagPresent, HomeSet, SpmPhysicalSet, SpmPhysicalWay
  <2>3. ReservedIffUsed'
    BY <2>1, <1>4, <1>5, <1>7, ReservationStep DEF IsTagPresent
  <2> QED BY <2>2, <2>3 DEF PlacementInv
<1> QED BY <1>6, <1>7

\* spm_claimSlot preserves the placement invariant.
LEMMA ClaimStep ==
  ASSUME PlacementInv, NEW s \in Slots, Claim(s)
  PROVE  PlacementInv'
<1> DEFINE set == SpmPhysicalSet(s)
           way == SpmPhysicalWay(s)
<1>1. /\ CanPrepare(s) /\ copies' = copies
      /\ reserved' = [reserved EXCEPT ![set][way] = TRUE]
  BY DEF Claim
<1>2. copies' \in [Slots -> 0 .. MaxCopies]
  BY <1>1 DEF PlacementInv, SlotsTypeOK
<1>3. CASE ~ IsTagPresent(s)
  <2>1. AllocateSPMSlot(s)
    BY <1>3 DEF Claim
  <2> QED BY <2>1, <1>1, <1>2, <1>3, SlotAllocationStep
<1>4. CASE IsTagPresent(s)
  <2>1. cache' = cache /\ tagIndex' = tagIndex /\ tagSets' = tagSets
    BY <1>4 DEF Claim
  <2>2. reserved[set][way] /\ reserved \in [Sets -> [Ways -> BOOLEAN]]
    BY <1>4, UsedIsReserved DEF PlacementInv, SlotsTypeOK
  <2>3. reserved' = reserved
    BY <2>2, <1>1, SlotCell
  <2>4. SlotsTypeOK' /\ HomeExact' /\ SlotsPlaced' /\ ReservedHoldsNoLine'
    BY <2>1, <2>3, <1>1
    DEF PlacementInv, SlotsTypeOK, HomeExact, SlotsPlaced, ReservedHoldsNoLine,
        IsTagPresent, HomeSet, SpmPhysicalSet, SpmPhysicalWay
  <2>5. ReservedIffUsed'
    BY <2>1, <1>1, <1>2, <1>4, ReservationStep DEF IsTagPresent
  <2> QED BY <2>4, <2>5 DEF PlacementInv
<1> QED BY <1>3, <1>4

\* spm_releaseSlot preserves the placement invariant.
LEMMA ReleaseStep ==
  ASSUME PlacementInv, NEW s \in Slots, Release(s)
  PROVE  PlacementInv'
<1> DEFINE set == SpmPhysicalSet(s)
           way == SpmPhysicalWay(s)
<1>1. /\ set \in Sets /\ way \in Ways /\ None \notin Ways
      /\ s \in Tags /\ Empty \notin Tags /\ HomeSet(s) = set
  BY SlotCell, TagAssumption, GeometryAssumption
  DEF Tags, HomeSet, None, Ways
<1>2. AddressToCacheSet(s) = set /\ tagIndex[s] = way /\ cache[set][way] = s
  BY <1>1, LookupHome DEF Release, IsTagPresent, PlacementInv, SlotsPlaced
<1>3. /\ reserved' = [reserved EXCEPT ![set][way] = SeparateBacking]
      /\ cache' = [cache EXCEPT ![set][way] = Empty]
      /\ tagIndex' = [tagIndex EXCEPT ![s] = None]
      /\ tagSets' = [tagSets EXCEPT ![s] = None]
      /\ copies' = copies /\ copies[s] = 0
  BY <1>2 DEF Release
<1>4. /\ cache \in [Sets -> [Ways -> Tags \cup {Empty}]]
      /\ tagIndex \in [Tags -> Ways \cup {None}]
      /\ reserved \in [Sets -> [Ways -> BOOLEAN]]
      /\ tagSets \in [Slots -> Sets \cup {None}]
      /\ copies \in [Slots -> 0 .. MaxCopies]
  BY DEF PlacementInv, SlotsTypeOK
<1>5. /\ cache'[set][way] = Empty /\ reserved'[set][way] = SeparateBacking
      /\ \A u \in Sets, w \in Ways : u # set \/ w # way =>
            cache'[u][w] = cache[u][w] /\ reserved'[u][w] = reserved[u][w]
  BY <1>1, <1>3, <1>4
<1>6. /\ tagIndex'[s] = None /\ tagSets'[s] = None
      /\ \A t \in Tags : t # s => tagIndex'[t] = tagIndex[t]
      /\ \A t \in Slots : t # s => tagSets'[t] = tagSets[t]
  BY <1>1, <1>3, <1>4
<1>7. SlotsTypeOK'
  BY <1>1, <1>3, <1>4, GeometryAssumption DEF SlotsTypeOK
<1>8. HomeExact'
  <2>1. ASSUME NEW t \in Tags, tagIndex'[t] # None
        PROVE  cache'[HomeSet(t)][tagIndex'[t]] = t
    <3>1. t # s /\ tagIndex'[t] = tagIndex[t] /\ tagIndex[t] \in Ways
      BY <2>1, <1>4, <1>6
    <3>2. cache[HomeSet(t)][tagIndex[t]] = t /\ HomeSet(t) \in Sets
      BY <3>1, <2>1, HomeSetType DEF PlacementInv, HomeExact, IsTagPresent
    <3>3. HomeSet(t) # set \/ tagIndex[t] # way
      BY <3>1, <3>2, <1>2
    <3> QED BY <3>1, <3>2, <3>3, <1>5
  <2>2. ASSUME NEW u \in Sets, NEW w \in Ways, cache'[u][w] # Empty
        PROVE  u = HomeSet(cache'[u][w]) /\ tagIndex'[cache'[u][w]] = w
    <3>1. u # set \/ w # way
      BY <2>2, <1>5
    <3>2. /\ cache'[u][w] = cache[u][w] /\ cache[u][w] \in Tags
          /\ u = HomeSet(cache[u][w]) /\ tagIndex[cache[u][w]] = w
      BY <3>1, <2>2, <1>4, <1>5 DEF PlacementInv, HomeExact
    <3>3. cache[u][w] # s
      BY <3>1, <3>2, <1>1, <1>2
    <3> QED BY <3>2, <3>3, <1>6
  <2> QED BY <2>1, <2>2 DEF HomeExact, IsTagPresent, HomeSet, SpmPhysicalSet
<1>9. SlotsPlaced'
  <2> SUFFICES ASSUME NEW t \in Slots
               PROVE  IF tagIndex'[t] # None
                      THEN /\ tagIndex'[t] = SpmPhysicalWay(t)
                           /\ SpmSetStride # 0 => tagSets'[t] = SpmPhysicalSet(t)
                      ELSE tagSets'[t] = None
    BY DEF SlotsPlaced, IsTagPresent, SpmPhysicalWay, SpmPhysicalSet
  <2>1. CASE t = s
    BY <2>1, <1>6
  <2>2. CASE t # s
    BY <2>2, <1>6 DEF Tags, PlacementInv, SlotsPlaced, IsTagPresent
  <2> QED BY <2>1, <2>2
<1>10. way >= CoherentAssoc <=> SeparateBacking
  BY SlotCell, GeometryAssumption
<1>11. ReservedHoldsNoLine'
  <2> SUFFICES ASSUME NEW u \in Sets, NEW w \in Ways
               PROVE  /\ reserved'[u][w] => cache'[u][w] \notin Lines
                      /\ w >= CoherentAssoc => reserved'[u][w]
    BY DEF ReservedHoldsNoLine
  <2>1. CASE u = set /\ w = way
    BY <2>1, <1>1, <1>5, <1>10 DEF Tags
  <2>2. CASE u # set \/ w # way
    BY <2>2, <1>5 DEF PlacementInv, ReservedHoldsNoLine
  <2> QED BY <2>1, <2>2
<1>12. ReservedIffUsed'
  <2> SUFFICES ASSUME NEW u \in Sets, NEW w \in 0 .. CoherentAssoc - 1
               PROVE  reserved'[u][w] <=>
                        \E t \in Slots : /\ SpmPhysicalSet(t) = u
                                         /\ SpmPhysicalWay(t) = w
                                         /\ tagIndex'[t] # None \/ copies'[t] > 0
    BY DEF ReservedIffUsed, IsTagPresent, SpmPhysicalSet, SpmPhysicalWay
  <2>1. w \in Ways
    BY GeometryAssumption DEF Ways, Assoc
  <2>2. CASE u = set /\ w = way
    <3>1. ~ reserved'[u][w]
      BY <2>2, <1>5, <1>10, GeometryAssumption
    <3>2. \A t \in Slots :
             SpmPhysicalSet(t) = u /\ SpmPhysicalWay(t) = w => t = s
      BY <2>2, SlotCellsDistinct
    <3>3. ~ (tagIndex'[s] # None \/ copies'[s] > 0)
      BY <1>3, <1>6
    <3> QED BY <3>1, <3>2, <3>3
  <2>3. CASE u # set \/ w # way
    <3>1. reserved'[u][w] = reserved[u][w]
      BY <2>1, <2>3, <1>5
    <3>2. reserved[u][w] <=>
            \E t \in Slots : /\ SpmPhysicalSet(t) = u
                             /\ SpmPhysicalWay(t) = w
                             /\ tagIndex[t] # None \/ copies[t] > 0
      BY DEF PlacementInv, ReservedIffUsed, IsTagPresent
    <3>3. \A t \in Slots : SpmPhysicalSet(t) = u /\ SpmPhysicalWay(t) = w =>
             tagIndex'[t] = tagIndex[t] /\ copies'[t] = copies[t]
      BY <2>3, <1>3, <1>6 DEF Tags
    <3> HIDE DEF set, way
    <3> QED BY <3>1, <3>2, <3>3
  <2> QED BY <2>2, <2>3
<1> QED BY <1>7, <1>8, <1>9, <1>11, <1>12 DEF PlacementInv

\* Every step of the L1 array preserves the placement invariant.
THEOREM PlacementStep == PlacementInv /\ [SlotsNext]_slotsVars => PlacementInv'
<1> SUFFICES ASSUME PlacementInv, [SlotsNext]_slotsVars PROVE PlacementInv'
  OBVIOUS
<1>1. ASSUME NEW l \in Lines, Allocate(l) PROVE PlacementInv'
  BY <1>1, AllocateStep
<1>2. ASSUME NEW l \in Lines, Deallocate(l) PROVE PlacementInv'
  BY <1>2, DeallocateStep
<1>3. ASSUME NEW s \in Slots, Prepare(s) PROVE PlacementInv'
  BY <1>3, PrepareStep
<1>4. ASSUME NEW s \in Slots, EvictSlotVictim(s) PROVE PlacementInv'
  <2>1. /\ cache[SpmPhysicalSet(s)][SpmPhysicalWay(s)] \in Lines
        /\ Deallocate(cache[SpmPhysicalSet(s)][SpmPhysicalWay(s)])
    BY <1>4 DEF EvictSlotVictim, CanPrepare
  <2> QED BY <2>1, DeallocateStep
<1>5. ASSUME NEW s \in Slots, Install(s) PROVE PlacementInv'
  BY <1>5, InstallStep
<1>6. ASSUME NEW s \in Slots, Claim(s) PROVE PlacementInv'
  BY <1>6, ClaimStep
<1>7. ASSUME NEW s \in Slots, Release(s) PROVE PlacementInv'
  BY <1>7, ReleaseStep
<1>8. CASE UNCHANGED slotsVars
  BY <1>8 DEF slotsVars, PlacementInv, SlotsTypeOK, HomeExact, SlotsPlaced,
      ReservedHoldsNoLine, ReservedIffUsed, IsTagPresent, HomeSet,
      SpmPhysicalSet, SpmPhysicalWay
<1> QED BY <1>1, <1>2, <1>3, <1>4, <1>5, <1>6, <1>7, <1>8 DEF SlotsNext

\* The placement invariant gives exact lookups and claims that hold.
LEMMA PlacementImplies ==
  PlacementInv => LookupExact /\ ClaimHeld
<1> SUFFICES ASSUME PlacementInv PROVE LookupExact /\ ClaimHeld
  OBVIOUS
<1>1. LookupExact
  BY LookupHome DEF LookupExact, PlacementInv, HomeExact, IsTagPresent
<1>2. ClaimHeld
  <2> SUFFICES ASSUME NEW s \in Slots, copies[s] > 0
               PROVE  /\ reserved[SpmPhysicalSet(s)][SpmPhysicalWay(s)]
                      /\ cache[SpmPhysicalSet(s)][SpmPhysicalWay(s)] \in {Empty, s}
    BY DEF ClaimHeld
  <2> DEFINE set == SpmPhysicalSet(s)
             way == SpmPhysicalWay(s)
             t == cache[set][way]
  <2>1. set \in Sets /\ way \in Ways
    BY SlotCell
  <2>2. reserved[set][way] /\ t \notin Lines
    BY UsedIsReserved
  <2>3. ASSUME t \in Slots PROVE t = s
    <3>1. t # Empty /\ t \in Tags
      BY <2>3, TagAssumption DEF Tags
    <3>2. set = HomeSet(t) /\ tagIndex[t] = way
      BY <2>1, <3>1 DEF PlacementInv, HomeExact
    <3>3. SpmPhysicalSet(t) = set
      BY <2>3, <3>1, <3>2, HomeSetType
    <3>4. way # None
      BY <2>1, GeometryAssumption DEF Ways, None
    <3>5. SpmPhysicalWay(t) = way
      BY <2>3, <3>2, <3>4 DEF PlacementInv, SlotsPlaced, IsTagPresent
    <3> QED BY <2>3, <3>3, <3>5, SlotCellsDistinct
  <2>4. t \in Tags \cup {Empty}
    BY <2>1 DEF PlacementInv, SlotsTypeOK
  <2> QED BY <2>2, <2>3, <2>4 DEF Tags
<1> QED BY <1>1, <1>2

\* If software can claim fewer ways than the set has, the last coherent way is
\* never claimed, so cacheProbe has a candidate.
LEMMA CandidateLeft ==
  ASSUME PlacementInv, NumSpmWays < CoherentAssoc
  PROVE  ReplacementExists
<1> SUFFICES ASSUME NEW set \in Sets PROVE Candidates(set) # {}
  BY TagAssumption DEF ReplacementExists, Sets
<1> DEFINE way == CoherentAssoc - 1
<1>1. way \in Ways /\ way \in 0 .. CoherentAssoc - 1
  BY GeometryAssumption DEF Ways, Assoc
<1>2. \A s \in Slots : SpmPhysicalWay(s) # way
  BY SlotCell, GeometryAssumption
<1>3. ~ reserved[set][way]
  BY <1>1, <1>2 DEF PlacementInv, ReservedIffUsed
<1>4. cache[set][way] \notin Slots
  <2> SUFFICES ASSUME cache[set][way] \in Slots PROVE FALSE
    OBVIOUS
  <2>1. tagIndex[cache[set][way]] = way /\ way # None
    BY <1>1, TagAssumption, GeometryAssumption DEF PlacementInv, HomeExact, Tags, None
  <2> QED BY <2>1, <1>2 DEF PlacementInv, SlotsPlaced, IsTagPresent
<1> QED BY <1>1, <1>3, <1>4 DEF Candidates

\* The array, its bits and its maps keep their types.
THEOREM TypeCorrect == SlotsSpec => []SlotsTypeOK
<1>1. PlacementInv => SlotsTypeOK
  BY DEF PlacementInv
<1> QED BY <1>1, PlacementInit, PlacementStep, PTL DEF SlotsSpec

\* For every geometry: findTagInSet, which never looks at the tag it finds,
\* lands on the entry it was asked for.
THEOREM PlacementCorrect == SlotsSpec => []LookupExact
<1> QED BY PlacementInit, PlacementStep, PlacementImplies, PTL DEF SlotsSpec

\* For every geometry: a claim made when an SPMCP passes the in-port holds
\* until its data is installed, so migrateOrClearSPMSlot's panic is out of
\* reach, and capacity is withheld from coherent data exactly where a slot is
\* live or on its way.
THEOREM ClaimsCorrect == SlotsSpec => []ClaimsExact
<1>1. PlacementInv => ClaimsExact
  BY PlacementImplies DEF PlacementInv, ClaimsExact
<1> QED BY <1>1, PlacementInit, PlacementStep, PTL DEF SlotsSpec

\* For every geometry with num_spm_ways below the associativity, cacheProbe's
\* panic on an empty candidate list is unreachable.
THEOREM ReplacementAlways ==
  ASSUME NumSpmWays < CoherentAssoc
  PROVE  SlotsSpec => []ReplacementExists
<1>1. PlacementInv => ReplacementExists
  BY CandidateLeft
<1> QED BY <1>1, PlacementInit, PlacementStep, PTL DEF SlotsSpec

\* No SPM operation drops a coherent line: migrateOrClearSPMSlot moves it, and
\* only deallocate makes a line leave, alone.
THEOREM NoLineLost == SlotsSpec => NoSilentLoss
<1> DEFINE Kept(l) == IsTagPresent(l) /\ tagIndex'[l] = None =>
               /\ copies' = copies /\ reserved' = reserved
               /\ \A t \in Tags \ {l} : tagIndex'[t] = tagIndex[t]
<1>1. PlacementInv /\ [SlotsNext]_slotsVars => [\A l \in Lines : Kept(l)]_slotsVars
  <2> SUFFICES ASSUME PlacementInv, SlotsNext, NEW l \in Lines,
                      tagIndex[l] # None, tagIndex'[l] = None
               PROVE  /\ copies' = copies /\ reserved' = reserved
                      /\ \A t \in Tags \ {l} : tagIndex'[t] = tagIndex[t]
    BY DEF IsTagPresent
  <2>1. /\ tagIndex \in [Tags -> Ways \cup {None}]
        /\ l \in Tags /\ l \notin Slots /\ None \notin Ways
    BY TagAssumption, GeometryAssumption DEF PlacementInv, SlotsTypeOK, Tags, None, Ways
  <2>2. ASSUME NEW m \in Lines, Deallocate(m)
        PROVE  /\ copies' = copies /\ reserved' = reserved
               /\ \A t \in Tags \ {l} : tagIndex'[t] = tagIndex[t]
    <3>1. m \in Tags /\ tagIndex' = [tagIndex EXCEPT ![m] = None]
      BY <2>2 DEF Deallocate, Tags
    <3>2. m = l
      BY <3>1, <2>1
    <3> QED BY <3>1, <3>2, <2>1, <2>2 DEF Deallocate
  <2>3. ASSUME NEW m \in Lines, Allocate(m) PROVE FALSE
    <3>1. m \in Tags /\ tagIndex' = [tagIndex EXCEPT ![m] = Min(OpenWays(LineSet[m]))]
      BY <2>3 DEF Allocate, Tags
    <3>2. Min(OpenWays(LineSet[m])) \in Ways
      BY <2>3, FirstOpenWay DEF Allocate, OpenWays
    <3> QED BY <3>1, <3>2, <2>1
  <2>4. ASSUME NEW s \in Slots, Prepare(s) PROVE FALSE
    BY <2>1, <2>4, MigrationSound DEF Prepare
  <2>5. ASSUME NEW s \in Slots, CanPrepare(s), AllocateSPMSlot(s) PROVE FALSE
    <3> DEFINE I == MigratedIndex(SpmPhysicalSet(s), SpmPhysicalWay(s))
    <3>1. I \in [Tags -> Ways \cup {None}] /\ I[l] # None
      BY <2>1, <2>5, MigrationSound
    <3>2. tagIndex' = [I EXCEPT ![s] = SpmPhysicalWay(s)] /\ s # l
      BY <2>1, <2>5 DEF AllocateSPMSlot
    <3> HIDE DEF I
    <3> QED BY <3>1, <3>2, <2>1
  <2>6. ASSUME NEW s \in Slots, Install(s) PROVE FALSE
    <3>1. CanPrepare(s)
      BY <2>6, UsedIsReserved DEF Install, CanPrepare
    <3> QED BY <3>1, <2>5, <2>6 DEF Install
  <2>7. ASSUME NEW s \in Slots, Claim(s) PROVE FALSE
    BY <2>5, <2>7 DEF Claim
  <2>8. ASSUME NEW s \in Slots, Release(s) PROVE FALSE
    <3>1. tagIndex' = [tagIndex EXCEPT ![s] = None] /\ s # l
      BY <2>1, <2>8 DEF Release
    <3> QED BY <3>1, <2>1
  <2>9. ASSUME NEW s \in Slots, EvictSlotVictim(s)
        PROVE  /\ copies' = copies /\ reserved' = reserved
               /\ \A t \in Tags \ {l} : tagIndex'[t] = tagIndex[t]
    BY <2>2, <2>9 DEF EvictSlotVictim, CanPrepare
  <2> QED BY <2>2, <2>3, <2>4, <2>6, <2>7, <2>8, <2>9 DEF SlotsNext
<1> QED BY <1>1, PlacementInit, PlacementStep, PTL DEF SlotsSpec, NoSilentLoss

\* Separate backing costs coherent data nothing, for every geometry: each slot
\* decodes to a way beyond m_coherent_assoc, no claim marks a coherent way and
\* no SPM step moves a coherent line.
THEOREM SeparateKeepsCapacity == SlotsSpec => SeparateCapacity
<1> DEFINE Untouched(set, way) ==
               /\ ~ reserved'[set][way] /\ cache'[set][way] \notin Slots
               /\ copies' # copies => cache'[set][way] = cache[set][way]
<1>1. ASSUME PlacementInv, [SlotsNext]_slotsVars, SeparateBacking,
             NEW set \in Sets, NEW way \in 0 .. CoherentAssoc - 1
      PROVE  [Untouched(set, way)]_slotsVars
  <2> SUFFICES ASSUME SlotsNext PROVE Untouched(set, way)
    BY <1>1
  <2>1. PlacementInv'
    BY <1>1, PlacementStep
  <2>2. \A s \in Slots : /\ SpmPhysicalWay(s) \in Ways
                         /\ SpmPhysicalWay(s) >= CoherentAssoc
                         /\ SpmPhysicalSet(s) \in Sets
    BY <1>1, SlotCell, TagAssumption, GeometryAssumption
  <2>3. way \in Ways /\ \A s \in Slots : SpmPhysicalWay(s) # way
    BY <2>2, GeometryAssumption DEF Ways, Assoc
  <2>4. ~ reserved'[set][way]
    BY <2>1, <2>3 DEF PlacementInv, ReservedIffUsed
  <2>5. cache'[set][way] \notin Slots
    <3> SUFFICES ASSUME NEW s \in Slots, cache'[set][way] = s PROVE FALSE
      OBVIOUS
    <3>1. s # Empty /\ None \notin Ways
      BY TagAssumption DEF None, Ways
    <3>2. tagIndex'[s] = way
      BY <2>1, <2>3, <3>1 DEF PlacementInv, HomeExact
    <3> QED
      BY <2>1, <2>3, <3>1, <3>2 DEF PlacementInv, SlotsPlaced, IsTagPresent
  <2>6. cache \in [Sets -> [Ways -> Tags \cup {Empty}]]
    BY <1>1 DEF PlacementInv, SlotsTypeOK
  <2>7. ASSUME NEW s \in Slots
        PROVE  MigratedCache(SpmPhysicalSet(s), SpmPhysicalWay(s)) = cache
    BY <1>1, <2>2 DEF PlacementInv, ReservedHoldsNoLine, MigratedCache
  <2>8. ASSUME NEW s \in Slots, Prepare(s)
        PROVE  cache'[set][way] = cache[set][way]
    BY <2>7, <2>8 DEF Prepare
  <2>9. ASSUME NEW s \in Slots, AllocateSPMSlot(s)
        PROVE  cache'[set][way] = cache[set][way]
    BY <2>2, <2>3, <2>6, <2>7, <2>9 DEF AllocateSPMSlot
  <2>10. copies' # copies => \E s \in Slots : Prepare(s) \/ Install(s)
    BY DEF SlotsNext, Allocate, Deallocate, EvictSlotVictim, Claim, Release
  <2> QED
    BY <2>4, <2>5, <2>8, <2>9, <2>10 DEF Install
<1>2. PlacementInv /\ [SlotsNext]_slotsVars =>
          [SeparateBacking => \A set \in Sets, way \in 0 .. CoherentAssoc - 1 :
                                 Untouched(set, way)]_slotsVars
  BY <1>1
<1> QED
  BY <1>2, PlacementInit, PlacementStep, PTL DEF SlotsSpec, SeparateCapacity
=============================================================================
