------------------------------ MODULE L1Cache -------------------------------
(***************************************************************************)
(* The private L1 of each core (MESI_Three_Level_SPM-L1cache.sm): the      *)
(* coherent copy of the line, the scratchpad copy (SPMCP) of the line into *)
(* a slot of this cache, and the writeback of a slot over the line.        *)
(* L0_Ack, L0_DataAck and WriteBack stand for their Escape twins too: the  *)
(* rows are the same, only the lane they arrive on differs.  Rows that no  *)
(* behaviour reaches are left out, and NoUndefinedEvent shows that.        *)
(***************************************************************************)
EXTENDS SpmNet

VARIABLES
    l1,       \* per core, entry and TBE: st, data, dirty, acks; retry (timer)
    slot,     \* per core, state of the scratchpad slot: "X" or "XWB"
    l1Stall   \* per core, stalled: up (from L0, a sequence), net (a bag)

l1Vars == <<l1, slot, l1Stall>>

Recalling == {"S_IL0", "E_IL0", "M_IL0", "MM_IL0"}
CopyRecalls == {"SX_L0", "EX_L0", "MX_L0"}
L1Transient == {"IS", "IS_I", "IM", "SM", "SM_IL0", "M_I", "SINK_WB_ACK",
                "IX_D"} \cup Recalling \cup CopyRecalls
L1States == {"I", "S", "SS", "E", "EE", "M", "MM"} \cup L1Transient

Invalid == [st |-> "I", data |-> 0, dirty |-> FALSE, acks |-> 0,
            retry |-> FALSE]
NoneStalled == [up |-> <<>>, net |-> EmptyBag]
L1Init ==
    /\ l1 = [c \in Cores |-> Invalid]
    /\ slot = [c \in Cores |-> "X"]
    /\ l1Stall = [c \in Cores |-> NoneStalled]

Becomes(c, rec) == l1' = [l1 EXCEPT ![c] = rec]
Goes(c, st) == l1' = [l1 EXCEPT ![c].st = st]
NothingDown == UNCHANGED <<dn, spmdn>>
ToL0(c, class, data) ==
    /\ dn' = [dn EXCEPT ![c] = Append(@, LinkMsg(class, data, FALSE))]
    /\ UNCHANGED spmdn
SpmAckToL0(c, what) ==
    spmdn' = [spmdn EXCEPT ![c] = @ \cup {what}] /\ UNCHANGED dn
\* kd_wakeUpDependents is wakeUpAllBuffers: both kinds of stalled messages
\* return, those from L0 ahead of what arrived since.
PopL0(c, i, out) ==
    /\ up' = [up EXCEPT ![c] = Without(@, i)] /\ Send(out)
    /\ UNCHANGED l1Stall
PopL0AndWake(c, i) ==
    /\ up' = [up EXCEPT ![c] = l1Stall[c].up \o Without(@, i)]
    /\ net' = net (+) l1Stall[c].net
    /\ l1Stall' = [l1Stall EXCEPT ![c] = NoneStalled]
PopNet(m, out) == Reply(m, out) /\ UNCHANGED <<up, l1Stall>>
PopNetAndWake(c, m, out) ==
    /\ up' = [up EXCEPT ![c] = l1Stall[c].up \o @]
    /\ ReplyAndWake(m, out, l1Stall[c].net)
    /\ l1Stall' = [l1Stall EXCEPT ![c] = NoneStalled]
L1Frame == UNCHANGED <<slot, histVars, envVars>>
\* u_writeDataFromL0*: a clean message carries no data.
FromL0_DropsData(rec, m) == rec
FromL0(rec, m) ==
    IF m.dirty THEN [rec EXCEPT !.data = m.data, !.dirty = TRUE] ELSE rec

-----------------------------------------------------------------------------
\* messageBufferFromL0_in.
L1Load(c, i) ==
    /\ up[c][i].class = "GETS" /\ L1Frame
    /\ \/ /\ l1[c].st = "I" /\ Goes(c, "IS")
          /\ PopL0(c, i, {Req("GETS", c, L2)}) /\ NothingDown
       \/ /\ l1[c].st \in {"S", "SS"} /\ Goes(c, "S")
          /\ PopL0(c, i, {}) /\ ToL0(c, "DATA", l1[c].data)
       \/ /\ l1[c].st \in {"EE", "MM"}
          /\ Goes(c, IF l1[c].st = "EE" THEN "E" ELSE "M")
          /\ PopL0(c, i, {}) /\ ToL0(c, "DATA_EXCLUSIVE", l1[c].data)
L1Store(c, i) ==
    /\ up[c][i].class \in {"GETX", "UPGRADE"} /\ L1Frame
    /\ \/ /\ l1[c].st = "I" /\ Goes(c, "IM")
          /\ PopL0(c, i, {Req("GETX", c, L2)}) /\ NothingDown
       \/ /\ l1[c].st \in {"S", "SS"} /\ Goes(c, "SM")
          /\ PopL0(c, i, {Req("UPGRADE", c, L2)}) /\ NothingDown
       \/ /\ l1[c].st \in {"EE", "MM"} /\ Goes(c, "M")
          /\ PopL0(c, i, {}) /\ ToL0(c, "DATA_EXCLUSIVE", l1[c].data)
\* Defect: no row for an eviction that crosses the recall of a copy (F2).
WriteBack_NoCopyRecall(c, i) ==
    /\ up[c][i].class = "PUTX" /\ L1Frame /\ NothingDown
    /\ \/ /\ l1[c].st \in {"E", "M"}
          /\ Becomes(c, FromL0([l1[c] EXCEPT !.st = "MM"], up[c][i]))
          /\ PopL0(c, i, {})
       \/ /\ l1[c].st \in {"E_IL0", "M_IL0"}
          /\ Becomes(c, FromL0([l1[c] EXCEPT !.st = "MM_IL0"], up[c][i]))
          /\ PopL0AndWake(c, i)
WriteBack(c, i) ==
    /\ up[c][i].class = "PUTX" /\ L1Frame /\ NothingDown
    /\ \/ /\ l1[c].st \in {"E", "M"}
          /\ Becomes(c, FromL0([l1[c] EXCEPT !.st = "MM"], up[c][i]))
          /\ PopL0(c, i, {})
       \/ /\ l1[c].st \in {"E_IL0", "M_IL0"}
          /\ Becomes(c, FromL0([l1[c] EXCEPT !.st = "MM_IL0"], up[c][i]))
          /\ PopL0AndWake(c, i)
       \/ /\ l1[c].st \in {"EX_L0", "MX_L0"}
          /\ Becomes(c, FromL0([l1[c] EXCEPT !.st = "MX_L0"], up[c][i]))
          /\ PopL0(c, i, {})
\* The answer to a recall.  Data makes an exclusive block modified.
Recalled(st, data) ==
    CASE st \in {"S_IL0", "SX_L0"} -> "SS" [] st = "SM_IL0" -> "IM"
      [] st \in {"E_IL0", "EX_L0"} /\ ~ data -> "EE" [] OTHER -> "MM"
Answered(c, m) ==
    FromL0([l1[c] EXCEPT !.st = Recalled(@, m.class = "INV_DATA")], m)
L0_Ack(c, i) ==
    /\ \/ up[c][i].class = "INV_ACK" /\ l1[c].st \in Recalling \cup {"SM_IL0"}
       \/ up[c][i].class = "INV_DATA" /\ l1[c].st \in {"E_IL0", "M_IL0"}
    /\ Becomes(c, Answered(c, up[c][i]))
    /\ PopL0AndWake(c, i) /\ NothingDown /\ L1Frame

-----------------------------------------------------------------------------
\* SPMCP, and SPMWB_store on the slot.  A copy ends when its data is in the
\* slot (spm_installFromTBE) and spm_ackToL0 is sent.
Installs(c, v) ==
    /\ ReadEnds(c, v) /\ SpmAckToL0(c, "Copy")
    /\ UNCHANGED <<slot, envVars>>
SPMCP_snapshot(c, i) ==
    /\ up[c][i].class = "SPMCP_SNAPSHOT"
    /\ l1[c].st \in L1States \ L1Transient
    /\ Installs(c, up[c][i].data)
    /\ PopL0(c, i, {}) /\ UNCHANGED l1
CopyRecall(st) ==
    CASE st = "S" -> "SX_L0" [] st = "E" -> "EX_L0" [] st = "M" -> "MX_L0"
SPMCP_fetch(c, i) ==
    /\ up[c][i].class = "SPMCP_FETCH"
    /\ \/ /\ l1[c].st = "I" /\ Goes(c, "IX_D")
          /\ PopL0(c, i, {Req("GETS_SILENT", c, L2)})
          /\ NothingDown /\ L1Frame
       \/ /\ l1[c].st \in {"S", "E", "M"} /\ Goes(c, CopyRecall(l1[c].st))
          /\ PopL0(c, i, {}) /\ ToL0(c, "INV_OWN", 0) /\ L1Frame
       \/ /\ l1[c].st \in {"SS", "EE", "MM"} /\ UNCHANGED l1
          /\ PopL0(c, i, {}) /\ Installs(c, l1[c].data)
SPMCP_recalled(c, i) ==
    /\ up[c][i].class \in {"INV_ACK", "INV_DATA"} /\ l1[c].st \in CopyRecalls
    /\ Becomes(c, Answered(c, up[c][i]))
    /\ PopL0AndWake(c, i) /\ Installs(c, Answered(c, up[c][i]).data)
SPMWB_store_Posted(c, i) ==
    /\ up[c][i].class = "SPMWB_STORE" /\ slot[c] = "X"
    /\ slot' = [slot EXCEPT ![c] = "XWB"] /\ SpmAckToL0(c, "Wb")
    /\ PopL0(c, i, {[Req("SPMWB_REQ", c, L2) EXCEPT !.data = c,
                                                    !.dirty = TRUE]})
    /\ UNCHANGED <<l1, histVars, envVars>>
SPMWB_store(c, i) ==
    /\ up[c][i].class = "SPMWB_STORE" /\ slot[c] = "X"
    /\ slot' = [slot EXCEPT ![c] = "XWB"]
    /\ PopL0(c, i, {[Req("SPMWB_REQ", c, L2) EXCEPT !.data = c,
                                                    !.dirty = TRUE]})
    /\ NothingDown /\ UNCHANGED <<l1, histVars, envVars>>
\* z0_stallAndWaitL0Queue.
StallL0(c, i) ==
    /\ up[c][i].class \in {"GETS", "GETX", "UPGRADE",
                           "SPMCP_SNAPSHOT", "SPMCP_FETCH"}
    /\ l1[c].st \in L1Transient \ {"SM_IL0"}
    /\ up' = [up EXCEPT ![c] = Without(@, i)]
    /\ l1Stall' = [l1Stall EXCEPT ![c].up = Append(@, up[c][i])]
    /\ UNCHANGED <<net, l1>> /\ NothingDown /\ L1Frame
L1FromL0(c, i) ==
    \/ L1Load(c, i) \/ L1Store(c, i) \/ WriteBack(c, i) \/ L0_Ack(c, i)
    \/ SPMCP_snapshot(c, i) \/ SPMCP_fetch(c, i) \/ SPMCP_recalled(c, i)
    \/ SPMWB_store(c, i) \/ StallL0(c, i)

-----------------------------------------------------------------------------
\* requestNetwork_in: INV, GETX/UPGRADE, GETS and GETS_SILENT from the L2.
IsForward(m) ==
    m.type \in {"INV", "GETX", "UPGRADE", "GETS", "GETS_SILENT"}
\* L0_Invalidate_Else: recall the L0 first; the message is not popped.
\* A silent copy needs no recall from S and SM (VER-11).
RecallState_NoWait(st) ==
    CASE st = "S" -> "SS" [] st = "E" -> "E_IL0"
      [] st = "M" -> "M_IL0" [] st = "SM" -> "SM_IL0"
RecallState(st) ==
    CASE st = "S" -> "S_IL0" [] st = "E" -> "E_IL0"
      [] st = "M" -> "M_IL0" [] st = "SM" -> "SM_IL0"
RecallL0(c, m) ==
    /\ IsForward(m) /\ l1[c].st \in {"S", "E", "M", "SM"}
    /\ m.type = "GETS_SILENT" => l1[c].st \in {"E", "M"}
    /\ l1' = [l1 EXCEPT ![c].st = RecallState(@)]
    /\ ToL0(c, "INV_ELSE", 0)
    /\ UNCHANGED <<net, up, l1Stall>> /\ L1Frame
MyData(c, dst) == DataMsg("DATA", c, dst, l1[c].data, l1[c].dirty, 0)
L1Inv(c, m) ==
    /\ m.type = "INV" /\ NothingDown /\ L1Frame
    /\ \/ /\ l1[c].st \in {"I", "SS", "EE"} /\ Becomes(c, Invalid)
          /\ PopNet(m, {AckMsg(c, m.req, 1)})
       \/ /\ l1[c].st \in {"IM", "SINK_WB_ACK", "IX_D"} /\ UNCHANGED l1
          /\ PopNet(m, {AckMsg(c, m.req, 1)})
       \/ /\ l1[c].st \in {"IS", "IS_I"} /\ Goes(c, "IS_I")
          /\ PopNet(m, {AckMsg(c, m.req, 1)})
       \/ /\ l1[c].st = "MM" /\ Becomes(c, Invalid)
          /\ PopNet(m, {MyData(c, L2)})
       \/ /\ l1[c].st = "M_I" /\ Goes(c, "SINK_WB_ACK")
          /\ PopNet(m, {MyData(c, L2)})
Fwd_GETX(c, m) ==
    /\ m.type \in {"GETX", "UPGRADE"} /\ NothingDown /\ L1Frame
    /\ \/ l1[c].st \in {"EE", "MM"} /\ Becomes(c, Invalid)
       \/ l1[c].st = "M_I" /\ Goes(c, "SINK_WB_ACK")
    /\ PopNet(m, {MyData(c, m.req)})
Fwd_GETS(c, m) ==
    /\ m.type = "GETS" /\ NothingDown /\ L1Frame
    /\ \/ l1[c].st \in {"EE", "MM"} /\ Goes(c, "SS")
       \/ l1[c].st = "M_I" /\ Goes(c, "SINK_WB_ACK")
    /\ PopNet(m, {MyData(c, m.req), MyData(c, L2)})
\* A former owner bounces a silent copy to the L2, or NACKs it to the copier.
SilentMiss_Dropped(c, m) == {}
SilentMiss_Echoed(c, m) == {m}
SilentMiss(c, m) ==
    {IF "spm_silent_retry" \in profile THEN CtlMsg("SPM_SILENT_RETRY", c, m.req)
     ELSE Req("GETS_SILENT", m.req, L2)}
\* A silent copy: served by whoever has the data, without a trace.
Fwd_GETS_Silent(c, m) ==
    /\ m.type = "GETS_SILENT" /\ UNCHANGED l1 /\ NothingDown /\ L1Frame
    /\ \/ /\ l1[c].st \in {"S", "SS", "SM", "EE", "MM", "M_I"}
          /\ PopNet(m, {[MyData(c, m.req) EXCEPT !.dirty = FALSE]})
       \/ /\ l1[c].st \in {"I", "IS", "IM", "IS_I"}
          /\ PopNet(m, SilentMiss(c, m))
\* z2_stallAndWaitL2Queue.
StallL2(c, m) ==
    /\ IsForward(m)
    /\ \/ l1[c].st \in Recalling \cup {"SM_IL0"} \cup CopyRecalls
       \/ m.type = "GETS_SILENT" /\ l1[c].st \in {"IX_D", "SINK_WB_ACK"}
    /\ l1Stall' = [l1Stall EXCEPT ![c].net = @ (+) SetToBag({m})]
    /\ Reply(m, {}) /\ UNCHANGED <<up, l1>> /\ NothingDown /\ L1Frame

-----------------------------------------------------------------------------
\* responseNetwork_in.
Filled(c, st, m) ==
    [l1[c] EXCEPT !.st = st, !.data = m.data, !.dirty = m.dirty, !.acks = 0]
FromL1(m) == m.src \in Cores
Data_IS(c, m) ==
    /\ m.type = "DATA" /\ l1[c].st \in {"IS", "IS_I"} /\ L1Frame
    /\ PopNetAndWake(c, m, IF FromL1(m) THEN {CtlMsg("UNBLOCK", c, L2)}
                           ELSE {})
    /\ \/ /\ l1[c].st = "IS" /\ Becomes(c, Filled(c, "S", m))
          /\ ToL0(c, "DATA", m.data)
       \/ /\ l1[c].st = "IS_I" /\ Becomes(c, Invalid)
          /\ ToL0(c, "STALE_DATA", m.data)
Data_Exclusive(c, m) ==
    /\ m.type = "DATA_EXCLUSIVE" /\ l1[c].st \in {"IS", "IS_I"} /\ L1Frame
    /\ Becomes(c, Filled(c, "E", m)) /\ ToL0(c, "DATA_EXCLUSIVE", m.data)
    /\ PopNetAndWake(c, m, {CtlMsg("EXCLUSIVE_UNBLOCK", c, L2)})
Data_IM(c, m) ==
    /\ m.type = "DATA" /\ l1[c].st = "IM" /\ L1Frame
    /\ \/ /\ l1[c].acks # m.acks
          /\ Becomes(c, [Filled(c, "SM", m) EXCEPT
                            !.acks = l1[c].acks - m.acks])
          /\ PopNet(m, {}) /\ NothingDown
       \/ /\ l1[c].acks = m.acks /\ Becomes(c, Filled(c, "M", m))
          /\ ToL0(c, "DATA_EXCLUSIVE", m.data)
          /\ PopNetAndWake(c, m, {CtlMsg("EXCLUSIVE_UNBLOCK", c, L2)})
L1Ack(c, m) ==
    /\ m.type = "ACK" /\ L1Frame
    /\ \/ /\ l1[c].st \in {"SM", "IM"} /\ l1[c].acks # m.acks
          /\ l1' = [l1 EXCEPT ![c].acks = @ - m.acks]
          /\ PopNet(m, {}) /\ NothingDown
       \/ /\ l1[c].st = "SM" /\ l1[c].acks = m.acks
          /\ l1' = [l1 EXCEPT ![c].st = "M", ![c].acks = 0]
          /\ ToL0(c, "DATA_EXCLUSIVE", l1[c].data)
          /\ PopNetAndWake(c, m, {CtlMsg("EXCLUSIVE_UNBLOCK", c, L2)})
WB_Ack(c, m) ==
    /\ m.type = "WB_ACK" /\ l1[c].st \in {"M_I", "SINK_WB_ACK"}
    /\ Becomes(c, Invalid) /\ PopNetAndWake(c, m, {})
    /\ NothingDown /\ L1Frame
-----------------------------------------------------------------------------
SPMCP_data(c, m) ==
    /\ m.type = "DATA" /\ l1[c].st = "IX_D" /\ m.acks = 0
    /\ Becomes(c, Invalid) /\ Installs(c, m.data) /\ PopNetAndWake(c, m, {})
SPM_SilentRetry(c, m) ==
    /\ m.type = "SPM_SILENT_RETRY" /\ l1[c].st = "IX_D" /\ ~ l1[c].retry
    /\ l1' = [l1 EXCEPT ![c].retry = TRUE]
    /\ PopNet(m, {}) /\ NothingDown /\ L1Frame
\* Defect: the timer that fired stays armed.
SPM_SilentReissue_Armed(c) ==
    /\ l1[c].st = "IX_D" /\ l1[c].retry
    /\ Send({Req("GETS_SILENT", c, L2)})
    /\ UNCHANGED <<up, l1, l1Stall>> /\ NothingDown /\ L1Frame
SPM_SilentReissue(c) ==
    /\ l1[c].st = "IX_D" /\ l1[c].retry
    /\ l1' = [l1 EXCEPT ![c].retry = FALSE]
    /\ Send({Req("GETS_SILENT", c, L2)})
    /\ UNCHANGED <<up, l1Stall>> /\ NothingDown /\ L1Frame
L1SPMWB_Ack(c, m) ==
    /\ m.type = "SPMWB_ACK" /\ slot[c] = "XWB"
    /\ slot' = [slot EXCEPT ![c] = "X"] /\ SpmAckToL0(c, "Wb")
    /\ PopNet(m, {}) /\ UNCHANGED <<l1, histVars, envVars>>
L1Receive(c, m) ==
    \/ RecallL0(c, m) \/ L1Inv(c, m) \/ Fwd_GETX(c, m) \/ Fwd_GETS(c, m)
    \/ Fwd_GETS_Silent(c, m) \/ StallL2(c, m)
    \/ Data_IS(c, m) \/ Data_Exclusive(c, m) \/ Data_IM(c, m) \/ L1Ack(c, m)
    \/ WB_Ack(c, m) \/ SPMCP_data(c, m) \/ SPM_SilentRetry(c, m)
    \/ L1SPMWB_Ack(c, m)

\* L1_Replacement and L0_Invalidate_Own, by capacity.
EvictLine(c) ==
    /\ UNCHANGED <<up, l1Stall, slot, histVars>>
    /\ \/ /\ l1[c].st = "SS" /\ Becomes(c, Invalid)
          /\ UNCHANGED net /\ NothingDown
       \/ /\ l1[c].st \in {"EE", "MM"} /\ Goes(c, "M_I")
          /\ Send({[Req("PUTX", c, L2) EXCEPT
                      !.dirty = l1[c].dirty,
                      !.data = IF l1[c].dirty THEN l1[c].data ELSE 0]})
          /\ NothingDown
       \/ /\ l1[c].st \in {"S", "E", "M"}
          /\ l1' = [l1 EXCEPT ![c].st = RecallState(@)]
          /\ ToL0(c, "INV_OWN", 0) /\ UNCHANGED net
L1_Replacement(c) == Evict /\ EvictLine(c)

L1Next(c) ==
    \/ \E i \in Ready(c) : L1FromL0(c, i)
    \/ \E m \in Arrived(c) : L1Receive(c, m)
    \/ SPM_SilentReissue(c)
    \/ L1_Replacement(c)
=============================================================================
