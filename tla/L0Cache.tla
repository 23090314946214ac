------------------------------ MODULE L0Cache -------------------------------
(***************************************************************************)
(* The L0 data cache of each core (MESI_Three_Level_SPM-L0cache.sm) with   *)
(* the core's sequencer: it issues the core's operations on the line and   *)
(* on its scratchpad slot, and retires them.  The sequencer keeps one      *)
(* request per line outstanding, so a core has at most one load, store or  *)
(* copy of the line in flight, beside one writeback of its slot.           *)
(***************************************************************************)
EXTENDS SpmNet

CONSTANT Ops  \* operations the cores issue: Load, Store, Copy, Wb

VARIABLE l0  \* per core: st, data; op on the line, wb of the slot in flight

L0States == {"I", "S", "E", "M", "IS", "IM", "SM"}
L0Init == l0 = [c \in Cores |-> [st |-> "I", data |-> 0,
                                 op |-> "Idle", wb |-> FALSE]]

L0Frame == UNCHANGED <<net, spmdn>>
L0Up(c, m) == up' = [up EXCEPT ![c] = Append(@, m)]
L0Pop(c) == dn' = [dn EXCEPT ![c] = Tail(@)]
Dirty(c) == l0[c].st = "M"

-----------------------------------------------------------------------------
\* mandatoryQueue_in.
L0Load(c) ==
    /\ "Load" \in Ops /\ l0[c].op = "Idle" /\ Issue
    /\ \/ /\ l0[c].st = "I"
          /\ l0' = [l0 EXCEPT ![c].st = "IS", ![c].op = "Load"]
          /\ L0Up(c, LinkMsg("GETS", 0, FALSE))
          /\ ReadBegins(c)
       \/ /\ l0[c].st \in {"S", "E", "M"}
          /\ ReadsNow(l0[c].data)
          /\ UNCHANGED <<l0, up>>
    /\ UNCHANGED dn /\ L0Frame
L0Store(c) ==
    /\ "Store" \in Ops /\ l0[c].op = "Idle" /\ Issue
    /\ \/ /\ l0[c].st = "I"
          /\ l0' = [l0 EXCEPT ![c].st = "IM", ![c].op = "Store"]
          /\ L0Up(c, LinkMsg("GETX", 0, FALSE))
          /\ UNCHANGED histVars
       \/ /\ l0[c].st = "S"
          /\ l0' = [l0 EXCEPT ![c].st = "SM", ![c].op = "Store"]
          /\ L0Up(c, LinkMsg("UPGRADE", 0, FALSE))
          /\ UNCHANGED histVars
       \/ /\ l0[c].st \in {"E", "M"}
          /\ l0' = [l0 EXCEPT ![c].st = "M", ![c].data = ver + 1]
          /\ WroteNew
          /\ UNCHANGED up
    /\ UNCHANGED dn /\ L0Frame
\* spm_issueRequestToL1: a copy leaves with the L0 block when there is one.
SpmCopy(c) ==
    /\ "Copy" \in Ops /\ l0[c].op = "Idle" /\ Issue
    /\ l0' = [l0 EXCEPT ![c].op = "Copy"]
    /\ L0Up(c, IF l0[c].st = "I" THEN LinkMsg("SPMCP_FETCH", 0, FALSE)
               ELSE LinkMsg("SPMCP_SNAPSHOT", l0[c].data, Dirty(c)))
    /\ ReadBegins(c)
    /\ UNCHANGED dn /\ L0Frame
SpmWbStore(c) ==
    /\ "Wb" \in Ops /\ ~ l0[c].wb /\ Issue
    /\ l0' = [l0 EXCEPT ![c].wb = TRUE]
    /\ L0Up(c, LinkMsg("SPMWB_STORE", 0, FALSE))
    /\ UNCHANGED <<dn, histVars>> /\ L0Frame

-----------------------------------------------------------------------------
\* L0_Replacement, by capacity.  A clean PUTX carries no data.
L0Replacement(c) ==
    /\ l0[c].st \in {"S", "E", "M"} /\ Evict
    /\ l0' = [l0 EXCEPT ![c].st = "I", ![c].data = 0]
    /\ IF l0[c].st = "S" THEN UNCHANGED up
       ELSE L0Up(c, LinkMsg("PUTX", IF Dirty(c) THEN l0[c].data ELSE 0,
                            Dirty(c)))
    /\ UNCHANGED <<dn, histVars>> /\ L0Frame

-----------------------------------------------------------------------------
\* messgeBuffer_in: the head of bufferFromL1.
L0Inv(c) ==
    /\ dn[c][1].class \in {"INV_OWN", "INV_ELSE"} /\ L0Pop(c)
    /\ l0' = [l0 EXCEPT ![c].st = CASE @ = "SM" -> "IM"
                                    [] @ \in {"S", "E", "M"} -> "I"
                                    [] OTHER -> @,
                        ![c].data = 0]
    /\ L0Up(c, IF Dirty(c) THEN LinkMsg("INV_DATA", l0[c].data, TRUE)
               ELSE LinkMsg("INV_ACK", 0, FALSE))
    /\ UNCHANGED <<histVars, envVars>> /\ L0Frame
L0Data(c) ==
    /\ dn[c][1].class \in {"DATA", "DATA_EXCLUSIVE", "STALE_DATA"}
    /\ l0[c].st = "IS" /\ L0Pop(c)
    /\ l0' = [l0 EXCEPT
                ![c].st = CASE dn[c][1].class = "DATA" -> "S"
                            [] dn[c][1].class = "DATA_EXCLUSIVE" -> "E"
                            [] OTHER -> "I",
                ![c].data = IF dn[c][1].class = "STALE_DATA" THEN 0
                            ELSE dn[c][1].data,
                ![c].op = "Idle"]
    /\ ReadEnds(c, dn[c][1].data)
    /\ UNCHANGED <<up, envVars>> /\ L0Frame
L0DataStore(c) ==
    /\ dn[c][1].class = "DATA_EXCLUSIVE" /\ l0[c].st \in {"IM", "SM"}
    /\ L0Pop(c)
    /\ l0' = [l0 EXCEPT ![c].st = "M", ![c].data = ver + 1, ![c].op = "Idle"]
    /\ WroteNew
    /\ UNCHANGED <<up, envVars>> /\ L0Frame
L0Receive(c) == L0Inv(c) \/ L0Data(c) \/ L0DataStore(c)

\* spmMessageBuffer_in: SPM_Ack retires the copy or the writeback.
SpmAck(c) ==
    \E a \in spmdn[c] :
        /\ spmdn' = [spmdn EXCEPT ![c] = @ \ {a}]
        /\ l0' = IF a = "Copy" THEN [l0 EXCEPT ![c].op = "Idle"]
                 ELSE [l0 EXCEPT ![c].wb = FALSE]
        /\ UNCHANGED <<net, up, dn, histVars, envVars>>

L0Next(c) ==
    \/ L0Load(c) \/ L0Store(c) \/ SpmCopy(c) \/ SpmWbStore(c)
    \/ L0Replacement(c)
    \/ dn[c] # <<>> /\ L0Receive(c)
    \/ SpmAck(c)
=============================================================================
