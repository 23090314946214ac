------------------------------ MODULE L2Cache -------------------------------
(***************************************************************************)
(* The shared L2 bank (MESI_Three_Level_SPM-L2cache.sm), home of the line: *)
(* it orders the requests of the private L1s, serves silent copies without *)
(* registering the copier, and overwrites the line with SPM writebacks.    *)
(* Each action is one event; rows no behaviour reaches are left out, and   *)
(* NoUndefinedEvent shows that.  Flush, L3 scratchpad and the legacy Put*  *)
(* source release are not part of this module.                             *)
(***************************************************************************)
EXTENDS SpmNet

VARIABLES
    l2,      \* entry and TBE: st, data, dirty, sharers, acks (pendingAcks),
             \* ids (L1_GetS_IDs, L1_GetX_ID or Requestor), wb (TBE DataBlk)
    l2Stall  \* bag of L1 requests in stall_and_wait

l2Vars == <<l2, l2Stall>>

\* A silent fill stays in the LLC.
SpmRetainLlc == "spm_retain_llc" \in profile
L2Stable == {"NP", "SS", "M", "MT"}
L2Fill == {"ISS", "IS", "IM", "SPM_IS"}
L2Blocked == {"SS_MB", "MT_MB", "MT_IIB", "MT_IB", "MT_SB"}
L2Evicting == {"I_I", "S_I", "MT_I", "MCT_I", "M_I"}
L2Wb == {"SPM_WB", "SPM_WB_INV"}
L2States == L2Stable \cup L2Fill \cup L2Blocked \cup L2Evicting \cup L2Wb

NotPresent == [st |-> "NP", data |-> 0, dirty |-> FALSE, sharers |-> {},
               acks |-> 0, ids |-> {}, wb |-> 0]
L2Init == l2 = NotPresent /\ l2Stall = EmptyBag

L2Frame == UNCHANGED <<up, dn, spmdn, histVars, envVars>>
\* A request or response is handled; wakeUpBuffers where the row has kd.
L2Does(m, rec, out) == l2' = rec /\ Reply(m, out) /\ UNCHANGED l2Stall
L2DoesAndWakes_NoWake(m, rec, out) == L2Does(m, rec, out)
L2DoesAndWakes(m, rec, out) ==
    /\ l2' = rec /\ ReplyAndWake(m, out, l2Stall) /\ l2Stall' = EmptyBag
L2Goes(st) == [l2 EXCEPT !.st = st]

\* mmu_markExclusiveFromUnblock makes Exclusive the only sharer in MT.
Exclusive == CHOOSE o \in Cores : o \in l2.sharers
ForwardToExclusive(m) == Req(m.type, m.req, Exclusive)
InvTo(cores, req) == {Req("INV", req, d) : d \in cores}
\* d_sendDataToRequestor, and ts_sendInvAckToUpgrader for the count.
OtherSharers_JustOne(c) ==
    {d \in l2.sharers \ {c} : d = CHOOSE e \in l2.sharers \ {c} : TRUE}
OtherSharers(c) == l2.sharers \ {c}
DataFor(type, c) ==
    DataMsg(type, L2, c, l2.data, FALSE, 0 - Cardinality(OtherSharers(c)))
SharedData(c) == DataMsg("DATA", L2, c, l2.data, FALSE, 0)
PendingAcks_NotSet == 0
PendingAcks == Cardinality(l2.sharers)
\* m_writeDataToCache, mr_writeDataToCacheFromRequest.
WithResponse_IgnoresDirty(rec, m) ==
    IF m.dirty THEN rec ELSE [rec EXCEPT !.data = m.data]
WithResponse(rec, m) ==
    [rec EXCEPT !.data = m.data, !.dirty = @ \/ m.dirty]
WithRequest(rec, m) ==
    IF m.dirty THEN [rec EXCEPT !.data = m.data, !.dirty = TRUE] ELSE rec

-----------------------------------------------------------------------------
\* L1RequestL2Network_in.
L1_GETS(m) ==
    /\ m.type = "GETS" /\ L2Frame
    /\ LET c == m.req IN
       \/ /\ l2.st = "NP"
          /\ L2Does(m, [l2 EXCEPT !.st = "ISS", !.sharers = {c}, !.ids = {c}],
                    {Req("GETS", L2, Dir)})
       \/ /\ l2.st \in {"ISS", "IS"}
          /\ L2Does(m, [l2 EXCEPT !.st = "IS", !.sharers = @ \cup {c},
                                  !.ids = @ \cup {c}], {})
       \/ /\ l2.st = "SS"
          /\ L2Does(m, [l2 EXCEPT !.sharers = @ \cup {c}], {SharedData(c)})
       \/ /\ l2.st = "M"
          /\ L2Does(m, L2Goes("MT_MB"), {DataFor("DATA_EXCLUSIVE", c)})
       \/ /\ l2.st = "MT"
          /\ L2Does(m, L2Goes("MT_IIB"), {ForwardToExclusive(m)})
\* An UPGRADE from a core that is no sharer (any more) is a GETX.
L1_GETX(m) ==
    /\ \/ m.type = "GETX"
       \/ m.type = "UPGRADE" /\ m.req \notin l2.sharers
    /\ L2Frame
    /\ LET c == m.req IN
       \/ /\ l2.st = "NP"
          /\ L2Does(m, [l2 EXCEPT !.st = "IM", !.ids = {c}],
                    {Req("GETS", L2, Dir)})
       \/ /\ l2.st = "SS"
          /\ L2Does(m, L2Goes("SS_MB"),
                    {DataFor("DATA", c)} \cup InvTo(OtherSharers(c), c))
       \/ /\ l2.st = "M"
          /\ L2Does(m, L2Goes("MT_MB"), {DataFor("DATA", c)})
       \/ /\ l2.st = "MT"
          /\ L2Does(m, L2Goes("MT_MB"), {ForwardToExclusive(m)})
L1_UPGRADE(m) ==
    /\ m.type = "UPGRADE" /\ m.req \in l2.sharers /\ l2.st = "SS"
    /\ L2Does(m, L2Goes("SS_MB"),
              {AckMsg(L2, m.req, 0 - Cardinality(OtherSharers(m.req)))}
              \cup InvTo(OtherSharers(m.req), m.req))
    /\ L2Frame
L1_PUTX(m) ==
    /\ m.type = "PUTX" /\ L2Frame
    /\ \/ /\ l2.st = "MT" /\ m.req \in l2.sharers
          /\ L2Does(m, WithRequest([l2 EXCEPT !.st = "M", !.sharers = {}], m),
                    {CtlMsg("WB_ACK", L2, m.req)})
       \/ /\ \/ l2.st \in {"NP", "SS", "M", "MT_IB", "MT_SB", "M_I", "I_I",
                           "S_I"} \cup L2Fill
             \/ l2.st = "MT" /\ m.req \notin l2.sharers
          /\ L2Does(m, l2, {CtlMsg("WB_ACK", L2, m.req)})
SPM_GETS_SILENT(m) ==
    /\ m.type = "GETS_SILENT" /\ L2Frame
    /\ \/ /\ l2.st = "NP"
          /\ L2Does(m, [l2 EXCEPT !.st = "SPM_IS", !.ids = {m.req}],
                    {Req(IF SpmRetainLlc THEN "GETS" ELSE "GETS_SILENT",
                         L2, Dir)})
       \/ l2.st \in {"SS", "M"} /\ L2Does(m, l2, {SharedData(m.req)})
       \/ l2.st = "MT" /\ L2Does(m, l2, {ForwardToExclusive(m)})
-----------------------------------------------------------------------------
SpmWbToDir(v) == [Req("SPMWB_REQ", L2, Dir) EXCEPT !.data = v, !.dirty = TRUE]
SPMWB_REQ(m) ==
    /\ m.type = "SPMWB_REQ" /\ L2Frame
    /\ \/ /\ l2.st \in {"NP", "M"}
          /\ L2Does(m, WithRequest([l2 EXCEPT !.st = "SPM_WB", !.sharers = {},
                                              !.ids = {m.req}], m),
                    {SpmWbToDir(m.data)})
       \/ /\ l2.st \in {"SS", "MT"}
          /\ L2Does(m, [l2 EXCEPT !.st = "SPM_WB_INV", !.wb = m.data,
                                  !.ids = {m.req},
                                  !.acks = PendingAcks],
                    InvTo(l2.sharers, L2))
\* zz_stallAndWaitL1RequestQueue.
PutxWaits == L2Wb \cup {"MT_IIB", "MT_MB", "SS_MB", "MT_I", "MCT_I"}
L2StallRequest(m) ==
    /\ \/ m.type \in {"GETS", "GETX", "UPGRADE", "GETS_SILENT", "SPMWB_REQ"}
          /\ l2.st \in L2Blocked \cup L2Evicting \cup L2Wb \cup {"SPM_IS"}
       \/ /\ \/ m.type \in {"GETX", "GETS_SILENT", "SPMWB_REQ"}
             \/ m.type = "UPGRADE" /\ m.req \notin l2.sharers
          /\ l2.st \in {"IS", "ISS", "IM"}
       \/ m.type = "GETS" /\ l2.st = "IM"
       \/ m.type = "PUTX" /\ l2.st \in PutxWaits
    /\ l2Stall' = l2Stall (+) SetToBag({m})
    /\ Reply(m, {}) /\ UNCHANGED l2 /\ L2Frame

-----------------------------------------------------------------------------
\* L1unblockNetwork_in.
L2Unblock(m) ==
    /\ L2Frame
    /\ \/ /\ m.type = "EXCLUSIVE_UNBLOCK" /\ l2.st \in {"SS_MB", "MT_MB"}
          /\ L2DoesAndWakes(m, [l2 EXCEPT !.st = "MT", !.sharers = {m.src}], {})
       \/ /\ m.type = "UNBLOCK" /\ l2.st = "MT_IIB"
          /\ L2Does(m, [l2 EXCEPT !.st = "MT_IB", !.sharers = @ \cup {m.src}],
                    {})
       \/ /\ m.type = "UNBLOCK" /\ l2.st = "MT_SB"
          /\ L2DoesAndWakes(m, [l2 EXCEPT !.st = "SS",
                                          !.sharers = @ \cup {m.src}], {})
\* responseL2Network_in: WB_Data and WB_Data_clean from an L1.
ToMemory(v) == DataMsg("MEMORY_DATA", L2, Dir, v, FALSE, 0)
CleanAck == AckMsg(L2, Dir, 0)
SpmWbStarts_ForgetsRequestor ==
    [l2 EXCEPT !.st = "SPM_WB", !.data = l2.wb, !.dirty = TRUE, !.wb = 0,
               !.sharers = {}, !.acks = 0, !.ids = {}]
SpmWbStarts ==
    [l2 EXCEPT !.st = "SPM_WB", !.data = l2.wb, !.dirty = TRUE, !.wb = 0,
               !.sharers = {}, !.acks = 0]
\* The block is gone: what the evicting TBE still needs is in the message.
Evicted(st) == [NotPresent EXCEPT !.st = st]
L2WbData(m) ==
    /\ m.type = "DATA" /\ L2Frame
    /\ \/ /\ l2.st = "MT_IIB"
          /\ L2Does(m, WithResponse(L2Goes("MT_SB"), m), {})
       \/ /\ l2.st = "MT_IB"
          /\ L2DoesAndWakes(m, WithResponse(L2Goes("SS"), m), {})
       \/ /\ l2.st \in {"MT_I", "MCT_I"} /\ m.dirty
          /\ L2Does(m, Evicted("M_I"), {ToMemory(m.data)})
       \/ /\ l2.st = "MT_I" /\ ~ m.dirty
          /\ L2Does(m, Evicted("M_I"), {ToMemory(l2.data)})
       \/ /\ l2.st = "MCT_I" /\ ~ m.dirty
          /\ L2Does(m, Evicted("M_I"), {CleanAck})
       \/ /\ l2.st = "SPM_WB_INV"
          /\ L2Does(m, SpmWbStarts, {SpmWbToDir(l2.wb)})
L2Ack(m) ==
    /\ m.type = "ACK" /\ L2Frame
    /\ \/ /\ l2.st \in {"I_I", "S_I", "SPM_WB_INV"} /\ l2.acks # m.acks
          /\ L2Does(m, [l2 EXCEPT !.acks = @ - m.acks], {})
       \/ /\ l2.acks = m.acks
          /\ \/ /\ l2.st \in {"I_I", "MCT_I"}
                /\ L2Does(m, Evicted("M_I"), {CleanAck})
             \/ /\ l2.st \in {"S_I", "MT_I"}
                /\ L2Does(m, Evicted("M_I"), {ToMemory(l2.data)})
             \/ /\ l2.st = "SPM_WB_INV"
                /\ L2Does(m, SpmWbStarts, {SpmWbToDir(l2.wb)})
-----------------------------------------------------------------------------
\* responseL2Network_in: from the directory.
Mem_Data(m) ==
    /\ m.type = "MEMORY_DATA" /\ L2Frame
    /\ LET filled == WithResponse([l2 EXCEPT !.ids = {}], m)
           toIds(type) == {DataMsg(type, L2, c, m.data, FALSE, 0) :
                               c \in l2.ids}
       IN \/ /\ l2.st = "SPM_IS" /\ ~ SpmRetainLlc
             /\ L2DoesAndWakes(m, NotPresent, toIds("DATA"))
          \/ /\ l2.st = "SPM_IS" /\ SpmRetainLlc
             /\ L2DoesAndWakes(m, [filled EXCEPT !.st = "M"], toIds("DATA"))
          \/ /\ l2.st = "ISS"
             /\ L2Does(m, [filled EXCEPT !.st = "MT_MB"],
                       toIds("DATA_EXCLUSIVE"))
          \/ /\ l2.st = "IS"
             /\ L2DoesAndWakes(m, [filled EXCEPT !.st = "SS"], toIds("DATA"))
          \/ /\ l2.st = "IM"
             /\ L2Does(m, [filled EXCEPT !.st = "MT_MB"], toIds("DATA"))
Mem_Ack(m) ==
    /\ m.type = "MEMORY_ACK" /\ l2.st = "M_I" /\ L2Frame
    /\ L2DoesAndWakes(m, NotPresent, {})
SPMWB_Ack(m) ==
    /\ m.type = "SPMWB_ACK" /\ l2.st = "SPM_WB" /\ L2Frame
    /\ L2DoesAndWakes(m, [l2 EXCEPT !.st = "M", !.ids = {}],
                      {CtlMsg("SPMWB_ACK", L2, c) : c \in l2.ids})
\* Replacement of a stable block; MEM_Inv treats every block as dirty.
Replacement(dirty) ==
    LET going(st) == [l2 EXCEPT !.st = st, !.sharers = {},
                                !.acks = PendingAcks]
    IN CASE l2.st = "SS" -> going(IF dirty THEN "S_I" ELSE "I_I")
         [] l2.st = "MT" -> going(IF dirty THEN "MT_I" ELSE "MCT_I")
         [] l2.st = "M" -> Evicted("M_I")
ReplacementSends(dirty) ==
    CASE l2.st \in {"SS", "MT"} -> InvTo(l2.sharers, L2)
      [] l2.st = "M" -> {IF dirty THEN ToMemory(l2.data) ELSE CleanAck}
\* The INV is not popped: it is seen again in the evicting state.
MEM_Inv(m) ==
    /\ m.type = "INV" /\ UNCHANGED l2Stall /\ L2Frame
    /\ \/ /\ l2.st \in {"SS", "M", "MT"}
          /\ l2' = Replacement(TRUE) /\ Send(ReplacementSends(TRUE))
       \/ /\ l2.st \in L2Evicting \cup {"NP"}
          /\ UNCHANGED l2 /\ Reply(m, {})
\* zn_recycleResponseNetwork.
RecycleInv(m) ==
    /\ m.type = "INV" /\ l2.st \in L2Fill \cup L2Wb \cup L2Blocked
    /\ UNCHANGED <<l2, l2Stall, net>> /\ L2Frame
L2_Replacement ==
    /\ l2.st \in {"SS", "M", "MT"} /\ Evict
    /\ l2' = Replacement(l2.dirty) /\ Send(ReplacementSends(l2.dirty))
    /\ UNCHANGED <<l2Stall, up, dn, spmdn, histVars>>

L2Receive(m) ==
    \/ L1_GETS(m) \/ L1_GETX(m) \/ L1_UPGRADE(m) \/ L1_PUTX(m)
    \/ SPM_GETS_SILENT(m) \/ SPMWB_REQ(m) \/ L2StallRequest(m)
    \/ L2Unblock(m) \/ L2WbData(m) \/ L2Ack(m)
    \/ Mem_Data(m) \/ Mem_Ack(m) \/ SPMWB_Ack(m) \/ MEM_Inv(m) \/ RecycleInv(m)
L2Next == L2_Replacement \/ \E m \in Arrived(L2) : L2Receive(m)
=============================================================================
