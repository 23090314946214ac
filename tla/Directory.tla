----------------------------- MODULE Directory ------------------------------
(***************************************************************************)
(* The directory controller (MESI_Three_Level_SPM-dir.sm), its memory, and *)
(* the DMA controller (MESI_Two_Level-dma.sm), for one line and one L2     *)
(* bank.  Each action is one (state, event) row; rows no behaviour of the  *)
(* system reaches are left out, and NoUndefinedEvent shows that.           *)
(***************************************************************************)
EXTENDS SpmNet

CONSTANTS
    DmaOps,        \* DMA operations the environment issues: "Read", "Write"
    FetchedBefore  \* the LLC fetched the line, and evicted it, before Init

VARIABLES
    dir,       \* st, owner (Owner was set), data (TBE DataBlk of a DMA)
    mem,       \* the line in memory
    memq,      \* the queue to memory: <<>> or one operation
    dirStall,  \* bag of requests in stall_and_wait
    dma        \* "READY", "BUSY_RD" or "BUSY_WR"

dirVars == <<dir, mem, memq, dirStall, dma>>

DirBusy == {"ID", "ID_W", "IM", "MI", "SPM_IS", "SPM_WB",
            "M_DRDI", "M_DWRI", "M_DRD_SWB", "M_DWR_SWB"}
DirDma == {"M_DRD", "M_DWR"}
DirStates == {"I", "M"} \cup DirBusy \cup DirDma

DirInit ==
    /\ dir = [st |-> "I", owner |-> FetchedBefore, data |-> 0]
    /\ mem = 0 /\ memq = <<>> /\ dirStall = EmptyBag /\ dma = "READY"

Read == <<[op |-> "READ", data |-> 0]>>
WB(v) == <<[op |-> "WB", data |-> v]>>
ToL2(type) == CtlMsg(type, Dir, L2)
\* inv_sendCacheInvalidate: Owner, a default MachineID until IM sets it.
Invalidate == CtlMsg("INV", Dir, IF dir.owner THEN L2 ELSE "NoMachine")

-----------------------------------------------------------------------------
\* DMA controller: one request at a time, and its completion.
DmaIssue ==
    /\ dma = "READY" /\ Issue
    /\ UNCHANGED <<up, dn, spmdn, dir, mem, memq, dirStall>>
    /\ \/ /\ "Read" \in DmaOps
          /\ Send({CtlMsg("DMA_READ", Dma, Dir)})
          /\ dma' = "BUSY_RD"
          /\ ReadBegins(Dma)
       \/ /\ "Write" \in DmaOps
          /\ Send({[CtlMsg("DMA_WRITE", Dma, Dir) EXCEPT !.data = ver + 1]})
          /\ dma' = "BUSY_WR"
          /\ ver' = ver + 1
          /\ UNCHANGED <<cur, win, stale>>
DmaDone(m) ==
    /\ m.dst = Dma /\ Reply(m, {}) /\ dma' = "READY"
    /\ \/ m.type = "DATA" /\ dma = "BUSY_RD" /\ ReadEnds(Dma, m.data)
       \/ m.type = "ACK" /\ dma = "BUSY_WR" /\ UNCHANGED histVars
    /\ UNCHANGED <<up, dn, spmdn, dir, mem, memq, dirStall, envVars>>

-----------------------------------------------------------------------------
DirFrame == UNCHANGED <<up, dn, spmdn, mem, dma, envVars>>
Goto(st) == dir' = [dir EXCEPT !.st = st]

SwbNext ==
    [I |-> "SPM_WB", M |-> "SPM_WB",
     M_DRD |-> "M_DRD_SWB", M_DWR |-> "M_DWR_SWB"]
Fetch(m) ==
    /\ m.type \in {"GETS", "GETS_SILENT"} /\ dir.st = "I"
    /\ Goto(IF m.type = "GETS" THEN "IM" ELSE "SPM_IS")
    /\ memq' = Read
    /\ Reply(m, {}) /\ UNCHANGED <<dirStall, histVars>> /\ DirFrame
SpmWriteback(m) ==
    /\ m.type = "SPMWB_REQ" /\ dir.st \in DOMAIN SwbNext
    /\ Goto(SwbNext[dir.st])
    /\ memq' = WB(m.data)
    /\ Wrote(m.data) /\ UNCHANGED ver
    /\ Reply(m, {}) /\ UNCHANGED dirStall /\ DirFrame
DmaRead(m) ==
    /\ m.type = "DMA_READ" /\ UNCHANGED <<dirStall, histVars>> /\ DirFrame
    /\ \/ dir.st = "I" /\ Goto("ID") /\ memq' = Read /\ Reply(m, {})
       \/ /\ dir.st = "M" /\ Goto("M_DRD") /\ UNCHANGED memq
          /\ Reply(m, {Invalidate})
DmaWrite(m) ==
    /\ m.type = "DMA_WRITE" /\ UNCHANGED dirStall /\ DirFrame
    /\ \/ /\ dir.st = "I"
          /\ dir' = [dir EXCEPT !.st = "ID_W", !.data = m.data]
          /\ memq' = WB(m.data) /\ Reply(m, {})
          /\ Wrote(m.data) /\ UNCHANGED ver
       \/ /\ dir.st = "M"
          /\ dir' = [dir EXCEPT !.st = "M_DWR", !.data = m.data]
          /\ UNCHANGED <<memq, histVars>> /\ Reply(m, {Invalidate})
DirStallRequest(m) ==
    /\ \/ m.type = "SPMWB_REQ" /\ dir.st \notin DOMAIN SwbNext
       \/ m.type \in {"GETS", "GETS_SILENT"} /\ dir.st \in DirBusy \cup DirDma
    /\ dirStall' = dirStall (+) SetToBag({m})
    /\ Reply(m, {}) /\ UNCHANGED <<dir, memq, histVars>> /\ DirFrame
\* zz_recycleDMAQueue: the request keeps its place in the network.
RecycleDma(m) ==
    /\ m.type \in {"DMA_READ", "DMA_WRITE"} /\ dir.st \in DirBusy \cup DirDma
    /\ UNCHANGED <<net, dir, memq, dirStall, histVars>> /\ DirFrame

-----------------------------------------------------------------------------
\* responseNetwork_in.
CleanReplacement(m) ==
    /\ m.type = "ACK" /\ UNCHANGED dirStall /\ DirFrame
    /\ \/ /\ dir.st = "M_DRD" /\ Goto("ID") /\ memq' = Read
          /\ Reply(m, {ToL2("MEMORY_ACK")}) /\ UNCHANGED histVars
       \/ /\ dir.st = "M_DWR" /\ Goto("ID_W") /\ memq' = WB(dir.data)
          /\ Reply(m, {ToL2("MEMORY_ACK")})
          /\ Wrote(dir.data) /\ UNCHANGED ver
CleanReplacementIdle(m) ==
    /\ m.type = "ACK" /\ dir.st = "M" /\ Goto("I")
    /\ ReplyAndWake(m, {ToL2("MEMORY_ACK")}, dirStall) /\ dirStall' = EmptyBag
    /\ UNCHANGED <<memq, histVars>> /\ DirFrame
Data(m) ==
    /\ m.type = "MEMORY_DATA" /\ UNCHANGED dirStall /\ DirFrame
    /\ \/ /\ dir.st = "M" /\ Goto("MI") /\ memq' = WB(m.data)
          /\ Reply(m, {}) /\ UNCHANGED histVars
       \/ /\ dir.st = "M_DRD" /\ Goto("M_DRDI") /\ memq' = WB(m.data)
          /\ Reply(m, {DataMsg("DATA", Dir, Dma, m.data, FALSE, 0)})
          /\ UNCHANGED histVars
       \/ /\ dir.st = "M_DWR" /\ Goto("M_DWRI") /\ memq' = WB(dir.data)
          /\ Reply(m, {}) /\ Wrote(dir.data) /\ UNCHANGED ver

-----------------------------------------------------------------------------
\* memQueue_in: memory (external) performs the queued operation, and the
\* directory handles its response.  The rows that end a transaction wake the
\* stalled requests.
MemPerforms == mem' = IF memq[1].op = "WB" THEN memq[1].data ELSE mem
MemAnswer ==
    CASE dir.st = "IM" ->
            {DataMsg("MEMORY_DATA", Dir, L2, mem, FALSE, 0)}
      [] dir.st = "SPM_IS" ->
            {DataMsg("MEMORY_DATA", Dir, L2, mem, FALSE, 0)}
      [] dir.st = "ID" -> {DataMsg("DATA", Dir, Dma, mem, FALSE, 0)}
      [] dir.st = "ID_W" -> {CtlMsg("ACK", Dir, Dma)}
      [] dir.st \in {"SPM_WB", "M_DRD_SWB", "M_DWR_SWB"} ->
            {ToL2("SPMWB_ACK")}
      [] dir.st \in {"MI", "M_DRDI"} -> {ToL2("MEMORY_ACK")}
      [] dir.st = "M_DWRI" -> {ToL2("MEMORY_ACK"), CtlMsg("ACK", Dir, Dma)}
MemNext_WrongReturn ==
    CASE dir.st \in {"IM", "SPM_WB"} -> "M"
      [] dir.st = "M_DRD_SWB" -> "M_DRD"
      [] dir.st = "M_DWR_SWB" -> "M_DWRI"
      [] OTHER -> "I"
MemNext ==
    CASE dir.st \in {"IM", "SPM_WB"} -> "M"
      [] dir.st = "M_DRD_SWB" -> "M_DRD"
      [] dir.st = "M_DWR_SWB" -> "M_DWR"
      [] OTHER -> "I"
MemoryDone ==
    /\ memq # <<>> /\ memq' = <<>>
    /\ MemPerforms
    /\ dir' = [dir EXCEPT !.st = MemNext,
                          !.owner = @ \/ dir.st = "IM",
                          !.data = IF MemNext \in DirDma THEN @ ELSE 0]
    /\ IF dir.st \in {"M_DRD_SWB", "M_DWR_SWB"}
       THEN Send(MemAnswer) /\ UNCHANGED dirStall
       ELSE /\ net' = (net (+) SetToBag(MemAnswer)) (+) dirStall
            /\ dirStall' = EmptyBag
    /\ UNCHANGED <<up, dn, spmdn, dma, histVars, envVars>>

DirReceive(m) ==
    \/ Fetch(m) \/ SpmWriteback(m) \/ DmaRead(m) \/ DmaWrite(m)
    \/ DirStallRequest(m) \/ RecycleDma(m)
    \/ CleanReplacement(m) \/ CleanReplacementIdle(m) \/ Data(m)
DirNext ==
    \/ DmaIssue \/ MemoryDone
    \/ \E m \in Arrived(Dma) : DmaDone(m)
    \/ \E m \in Arrived(Dir) : DirReceive(m)
=============================================================================
