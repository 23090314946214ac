---------------------------- MODULE SpmMulticast ----------------------------
(***************************************************************************)
(* Multicast of the private L1s (MESI_Three_Level_SPM-L1cache.sm), on top  *)
(* of the protocol for one line: a producer's SPMCP names a mask of cores. *)
(* The copy announces itself to their slots (SPM_MCAST_PENDING), then      *)
(* sends them the data (SPM_MCAST_DATA).  A claim reserves the slot in     *)
(* every cache of the mask (SPM_MCAST_CLAIM) and waits for their answers.  *)
(*                                                                         *)
(* The slot is one destination cell per core.  A crowded core keeps the    *)
(* coherent line in that cell, with no open way to move it to, so          *)
(* prepareSPMSlot fails there until the line is gone.  The messages of one *)
(* L1 to another arrive in order, as the networks with fixed routes        *)
(* deliver them.  Only the producer copies, and its program drains a copy  *)
(* or a claim of the slot before the next one (DSB).                       *)
(***************************************************************************)
EXTENDS SpmProtocol

CONSTANTS
    Producer,  \* the core whose copies and claims have a MulticastMask
    Crowded    \* cores whose slot cell is the only place for the line

ASSUME CastAssumption == Producer \in Cores /\ Crowded \subseteq Cores

VARIABLES
    cell,       \* per core, the slot: st, val; n, heard: copies by number
    pending,    \* pendingAcks in the TBE of the producer's claim
    claim,      \* the claim of the producer's core
    cast,       \* per core, multicast messages to its L1 in order
    castStall,  \* per core, those stalled until the line settles
    castAck,    \* SPM_MCAST_CLAIM_ACKs on their way to the producer
    read,       \* per core, its pure read of the slot
    casts       \* history: copies and claims sent out so far

castVars == <<cell, pending, claim, cast, castStall, castAck, read, casts>>
allVars == <<vars, castVars>>

Receivers == Cores \ {Producer}
\* I: no entry, R: prepared by a copy under way.
CellStates == {"I", "R", "X", "XP", "XC"}

CastInit ==
    /\ cell = [c \in Cores |-> [st |-> "I", val |-> 0, n |-> 0, heard |-> 0]]
    /\ pending = 0 /\ claim = "Idle" /\ castAck = 0 /\ casts = 0
    /\ cast = [c \in Cores |-> <<>>] /\ castStall = [c \in Cores |-> <<>>]
    /\ read = [c \in Cores |-> "Idle"]

\* The line has an entry in the array; a TBE alone occupies no way.
HasEntry(c) == l1[c].st \notin {"I", "M_I", "SINK_WB_ACK", "IX_D"}
\* prepareSPMSlot as the in-ports call it.
Prepared(c) == cell[c].st # "I" \/ c \notin Crowded \/ ~ HasEntry(c)

CastMsg(type, val, n) == [type |-> type, val |-> val, n |-> n]
\* One message to every other core of the mask.
CastOut(msgs) ==
    cast' = [c \in Cores |-> IF c \in Receivers THEN cast[c] \o msgs
                             ELSE cast[c]]
\* kd_wakeUpDependents of the line, wakeUpAllBuffers, also returns the
\* multicast messages stalled on it, ahead of later ones.
LineWakes_Requests(c, wakes) == UNCHANGED <<cast, castStall>>
LineWakes(c, wakes) ==
    IF wakes
    THEN /\ cast' = [cast EXCEPT ![c] = castStall[c] \o @]
         /\ castStall' = [castStall EXCEPT ![c] = <<>>]
    ELSE UNCHANGED <<cast, castStall>>
\* The rows of the line that run it, by in-port.
WakesFromL0(c, m) ==
    \/ m.class \in {"INV_ACK", "INV_DATA"}
    \/ m.class = "PUTX" /\ l1[c].st \in {"E_IL0", "M_IL0"}
WakesReceive(c, m) ==
    \/ m.type \in {"DATA_EXCLUSIVE", "WB_ACK"}
    \/ m.type = "DATA" /\ (l1[c].st = "IM" => l1[c].acks = m.acks)
    \/ m.type = "ACK" /\ l1[c].st = "SM" /\ l1[c].acks = m.acks

-----------------------------------------------------------------------------
\* The producer's copies.  A copy that installs at once announces and sends;
\* one that fetches or recalls first announces, and sends when it ends.
IsCopy(m) == m.class \in {"SPMCP_FETCH", "SPMCP_SNAPSHOT"}
CopyFrame == UNCHANGED <<pending, claim, castStall, castAck, read>>
Holds(c, val, n) ==
    cell' = [cell EXCEPT ![c].st = "X", ![c].val = val, ![c].n = n]
CopyInstalls(val) ==
    /\ casts' = casts + 1 /\ Holds(Producer, val, casts + 1)
    /\ CastOut(<<CastMsg("PENDING", 0, casts + 1),
                 CastMsg("DATA", val, casts + 1)>>)
    /\ CopyFrame
CopyBegins ==
    /\ casts' = casts + 1
    /\ cell' = [cell EXCEPT ![Producer].st = IF @ = "I" THEN "R" ELSE @]
    /\ CastOut(<<CastMsg("PENDING", 0, casts + 1)>>)
    /\ CopyFrame
CopyEnds_Unsent(val) ==
    Holds(Producer, val, casts) /\ UNCHANGED <<casts, cast>> /\ CopyFrame
CopyEnds(val) ==
    /\ Holds(Producer, val, casts) /\ UNCHANGED casts
    /\ CastOut(<<CastMsg("DATA", val, casts)>>)
    /\ CopyFrame
SPMCP(i) ==
    /\ IsCopy(up[Producer][i]) /\ Prepared(Producer)
    /\ \/ SPMCP_snapshot(Producer, i) /\ CopyInstalls(up[Producer][i].data)
       \/ /\ SPMCP_fetch(Producer, i)
          /\ IF l1[Producer].st \in {"SS", "EE", "MM"}
             THEN CopyInstalls(l1[Producer].data) ELSE CopyBegins
       \/ StallL0(Producer, i) /\ UNCHANGED castVars
    /\ UNCHANGED <<l0, l2Vars, dirVars>>

\* The in-port when prepareSPMSlot fails: the occupant is evicted, and the
\* copy or claim waits for it.
MakeRoom(i) ==
    /\ IsCopy(up[Producer][i]) \/ up[Producer][i].class = "SPMCP_CLAIM"
    /\ ~ Prepared(Producer)
    /\ \/ EvictLine(Producer) /\ UNCHANGED envVars
       \/ /\ l1[Producer].st \in L1Transient
          /\ up' = [up EXCEPT ![Producer] = Without(@, i)]
          /\ l1Stall' = [l1Stall EXCEPT
                           ![Producer].up = Append(@, up[Producer][i])]
          /\ UNCHANGED <<net, l1>> /\ NothingDown /\ L1Frame
    /\ UNCHANGED <<l0, l2Vars, dirVars, castVars>>

-----------------------------------------------------------------------------
\* Claims.  The core issues one; the L1 counts the answers of the others.
IssueClaim ==
    /\ "Claim" \in Ops /\ claim = "Idle" /\ l0[Producer].op # "Copy" /\ Issue
    /\ claim' = "Waits" /\ L0Up(Producer, LinkMsg("SPMCP_CLAIM", 0, FALSE))
    /\ UNCHANGED <<l0, dn, histVars, l1Vars, l2Vars, dirVars, cell, pending,
                   cast, castStall, castAck, read, casts>> /\ L0Frame
ClaimAcks_Self == Cardinality(Cores)
ClaimAcks == Cardinality(Receivers)
SPM_McastClaimLocal(i) ==
    /\ up[Producer][i].class = "SPMCP_CLAIM" /\ Prepared(Producer)
    /\ cell[Producer].st \in {"I", "X"} /\ casts' = casts + 1
    /\ cell' = [cell EXCEPT ![Producer].st = "XC", ![Producer].val = 0,
                            ![Producer].n = casts + 1]
    /\ pending' = ClaimAcks
    /\ CastOut(<<CastMsg("CLAIM", 0, casts + 1)>>)
    /\ PopL0(Producer, i, {}) /\ NothingDown /\ L1Frame
    /\ UNCHANGED <<l0, l1, l2Vars, dirVars, claim, castStall, castAck, read>>
LastAck == pending = 1
SPM_McastClaimAck ==
    /\ castAck > 0 /\ cell[Producer].st = "XC"
    /\ castAck' = castAck - 1 /\ pending' = pending - 1
    /\ \/ /\ LastAck /\ claim' = "Acked"
          /\ cell' = [cell EXCEPT ![Producer].st = "X"]
       \/ ~ LastAck /\ UNCHANGED <<claim, cell>>
    /\ UNCHANGED <<vars, cast, castStall, read, casts>>
\* SPM_ACK with the slot's address retires the claim at the core.
ClaimRetires ==
    /\ claim = "Acked" /\ claim' = "Idle"
    /\ UNCHANGED <<vars, cell, pending, cast, castStall, castAck, read, casts>>

-----------------------------------------------------------------------------
\* responseNetwork_in at a receiver: the oldest multicast message.
PopCast(c) == cast' = [cast EXCEPT ![c] = Tail(@)]
SlotFrame == UNCHANGED <<vars, pending, claim, castStall, casts>>
SPM_McastPending(c, m) ==
    /\ m.type = "PENDING" /\ cell[c].st \in {"I", "X", "XP"}
    /\ cell' = [cell EXCEPT ![c].st = "XP", ![c].heard = m.n]
    /\ PopCast(c) /\ SlotFrame /\ UNCHANGED <<read, castAck>>
SPM_McastData_NoWake(c, m) ==
    /\ m.type = "DATA" /\ cell[c].st \in {"I", "X", "XP"}
    /\ Holds(c, m.val, m.n)
    /\ PopCast(c) /\ SlotFrame /\ UNCHANGED <<read, castAck>>
SPM_McastData(c, m) ==
    /\ m.type = "DATA" /\ cell[c].st \in {"I", "X", "XP"}
    /\ Holds(c, m.val, m.n)
    /\ read' = [read EXCEPT ![c] = IF @ = "Stalled" THEN "Queued" ELSE @]
    /\ PopCast(c) /\ SlotFrame /\ UNCHANGED castAck
SPM_McastClaim(c, m) ==
    /\ m.type = "CLAIM" /\ cell[c].st \in {"I", "X"}
    /\ Holds(c, 0, m.n) /\ castAck' = castAck + 1
    /\ PopCast(c) /\ SlotFrame /\ UNCHANGED read
\* z3_stallAndWaitResponseQueue, on the line that is in the way.
ClaimWait == {"IS", "IM", "IS_I", "SM"} \cup Recalling \cup CopyRecalls
SPM_McastClaimWait(c, m) ==
    /\ ~ Prepared(c) /\ l1[c].st \in ClaimWait
    /\ castStall' = [castStall EXCEPT ![c] = Append(@, m)]
    /\ PopCast(c)
    /\ UNCHANGED <<vars, cell, pending, claim, castAck, read, casts>>
\* L0_Invalidate_Own or L1_Replacement of the occupant; the message stays.
McastEvicts(c) ==
    /\ ~ Prepared(c) /\ EvictLine(c)
    /\ UNCHANGED <<envVars, l0, l2Vars, dirVars, castVars>>
CastReceive(c, m) ==
    \/ Prepared(c) /\ \/ SPM_McastPending(c, m) \/ SPM_McastData(c, m)
                      \/ SPM_McastClaim(c, m)
    \/ SPM_McastClaimWait(c, m)
    \/ McastEvicts(c)

\* A pure read of the slot on the direct lane: it stalls in XP.
SlotRead(c) ==
    /\ "Read" \in Ops /\ read[c] = "Idle" /\ cell[c].st # "I" /\ Issue
    /\ read' = [read EXCEPT ![c] = "Queued"]
    /\ UNCHANGED <<netVars, histVars, l0, l1Vars, l2Vars, dirVars, cell,
                   pending, claim, cast, castStall, castAck, casts>>
SPMLD_direct(c) ==
    /\ read[c] = "Queued"
    /\ read' = [read EXCEPT ![c] = IF cell[c].st = "XP" THEN "Stalled"
                                   ELSE "Idle"]
    /\ UNCHANGED <<vars, cell, pending, claim, cast, castStall, castAck,
                   casts>>

-----------------------------------------------------------------------------
\* The protocol's own steps; the producer alone copies, and not while its
\* claim is in flight.
CoreStep(c) ==
    /\ L0Step(c) /\ UNCHANGED castVars
    /\ l0'[c].op = "Copy" => c = Producer /\ claim = "Idle"
LineFrame == UNCHANGED <<cell, pending, claim, castAck, read, casts>>
LineFromL0(c, i) ==
    /\ ~ IsCopy(up[c][i]) /\ L1FromL0(c, i)
    /\ UNCHANGED <<l0, l2Vars, dirVars>>
    /\ IF c = Producer /\ l1[c].st \in CopyRecalls /\ up[c][i].class # "PUTX"
       THEN CopyEnds(Answered(c, up[c][i]).data)
       ELSE LineWakes(c, WakesFromL0(c, up[c][i])) /\ LineFrame
LineReceives(c, m) ==
    /\ L1Receive(c, m) /\ UNCHANGED <<l0, l2Vars, dirVars>>
    /\ IF c = Producer /\ l1[c].st = "IX_D" /\ m.type = "DATA"
       THEN CopyEnds(m.data)
       ELSE LineWakes(c, WakesReceive(c, m)) /\ LineFrame
Reissues(c) ==
    SPM_SilentReissue(c) /\ UNCHANGED <<l0, l2Vars, dirVars, castVars>>
Replaces(c) ==
    L1_Replacement(c) /\ UNCHANGED <<l0, l2Vars, dirVars, castVars>>
ProducerStep(i) == SPMCP(i) \/ MakeRoom(i) \/ SPM_McastClaimLocal(i)

CastInitAll == Init /\ CastInit
CastNext ==
    \/ \E c \in Cores : \/ CoreStep(c) \/ Reissues(c) \/ Replaces(c)
                        \/ \E i \in Ready(c) : LineFromL0(c, i)
                        \/ \E m \in Arrived(c) : LineReceives(c, m)
    \/ (L2Step \/ DirStep) /\ UNCHANGED castVars
    \/ \E i \in Ready(Producer) : ProducerStep(i)
    \/ IssueClaim \/ SPM_McastClaimAck \/ ClaimRetires
    \/ \E c \in Receivers :
        \/ cast[c] # <<>> /\ CastReceive(c, Head(cast[c]))
        \/ SlotRead(c) \/ SPMLD_direct(c)
CastSpec == CastInitAll /\ [][CastNext]_allVars

-----------------------------------------------------------------------------
\* The messages for a core's slot that its L1 has not taken.
Coming(c) ==
    {(castStall[c] \o cast[c])[k] : k \in DOMAIN (castStall[c] \o cast[c])}
\* A copy under way at the producer, between announcement and data.
Copying == l1[Producer].st \in {"IX_D"} \cup CopyRecalls

\* Type correctness of the slots, the claim and the messages between L1s.
CastTypeOK ==
    /\ cell \in [Cores -> [st : CellStates, val : Value, n : 0 .. casts,
                           heard : 0 .. casts]]
    /\ pending \in 0 .. Cardinality(Receivers)
    /\ castAck \in 0 .. pending
    /\ claim \in {"Idle", "Waits", "Acked"}
    /\ read \in [Cores -> {"Idle", "Queued", "Stalled"}]
    /\ \A c \in Receivers : cell[c].st \in {"I", "X", "XP"}
\* spm_decrementMulticastAck: the claim's TBE counts exactly the receivers
\* whose answer has not been taken, stalled and evicting ones included, so
\* the last acknowledgement is the last one.
ClaimCounted ==
    pending = castAck
              + Cardinality({c \in Receivers :
                                \E m \in Coming(c) : m.type = "CLAIM"})
\* spm_claimAckToL0: when the core learns that its claim is complete, every
\* core of the mask has the slot, and no coherent line is left in the cell.
ClaimReserves == claim = "Acked" => \A c \in Cores : cell[c].st = "X"
\* A claim is counted right, so it is complete when the core is told so.
ClaimExact == CastTypeOK /\ ClaimCounted /\ ClaimReserves
\* XP, "Receiver SPM slot awaiting multicast data": the data of an announced
\* copy is still to come, from the network, a stall or the copy under way.
PendingFilled ==
    \A c \in Receivers :
        cell[c].st = "XP" =>
            Copying \/ \E m \in Coming(c) : m.type = "DATA"
\* Once a copy has been announced to a core, no read of the slot there is
\* served with what the slot held before that copy.
ReadsAnnounced ==
    \A c \in Receivers : cell[c].st = "X" => cell[c].n >= cell[c].heard
\* What the multicast promises: when nothing is on its way to a core and no
\* copy is under way, its slot holds what the producer's slot holds.
Delivered ==
    \A c \in Receivers :
        Coming(c) = {} /\ ~ Copying =>
            /\ cell[c].n = cell[Producer].n
            /\ cell[c].val = cell[Producer].val
\* Each announced copy arrives, and is what later reads of the slot return.
CopiesDelivered == PendingFilled /\ ReadsAnnounced /\ Delivered
\* No lost wake-up across the two addresses: a multicast message waits only
\* while the line in its way is in transition, a read only while its slot is
\* pending.
CastsWoken ==
    \A c \in Receivers :
        /\ l1[c].st \notin L1Transient => castStall[c] = <<>>
        /\ read[c] = "Stalled" => cell[c].st = "XP"
\* The multicast message an L1 looks at has a transition in the state it
\* meets; SLICC's "Invalid transition" is a panic.
CastDefined ==
    \A c \in Receivers :
        cast[c] # <<>> => ENABLED CastReceive(c, Head(cast[c]))

-----------------------------------------------------------------------------
\* The fairness of SpmProtocol, for the composed steps, and of the messages
\* between L1s and the direct lane.
CastFairness ==
    /\ \A c \in Cores :
        /\ WF_allVars(L0Progress(c) /\ UNCHANGED castVars)
        /\ WF_allVars(\/ Reissues(c) \/ \E i \in Ready(c) : LineFromL0(c, i)
                      \/ c = Producer /\ \E i \in Ready(c) : ProducerStep(i))
        /\ \A t \in AtL1 :
            WF_allVars(\E m \in Arrived(c) : m.type = t /\ LineReceives(c, m))
    /\ \A t \in AtL2 :
        WF_allVars(/\ \E m \in Arrived(L2) : m.type = t /\ L2Receive(m)
                   /\ UNCHANGED <<l0, l1Vars, dirVars, castVars>>)
    /\ \A t \in AtDirectory :
        WF_allVars(/\ \E m \in Arrived(Dir) : m.type = t /\ DirReceive(m)
                   /\ UNCHANGED <<l0, l1Vars, l2Vars, castVars>>)
    /\ WF_allVars(DirProgress /\ UNCHANGED castVars)
    /\ WF_allVars(SPM_McastClaimAck \/ ClaimRetires)
    /\ \A c \in Receivers :
        /\ WF_allVars(cast[c] # <<>> /\ CastReceive(c, Head(cast[c])))
        /\ WF_allVars(SPMLD_direct(c))
CastFairSpec == CastSpec /\ CastFairness
Awaits(c) == cell[c].st = "XP" \/ read[c] # "Idle"
\* Every claim is acknowledged, every announced slot filled and every read of
\* a slot served, though each may first have to evict a line in transition.
CastCompletes ==
    /\ claim # "Idle" ~> claim = "Idle"
    /\ l0[Producer].op = "Copy" ~> l0[Producer].op # "Copy"
    /\ \A c \in Receivers : Awaits(c) ~> ~ Awaits(c)
=============================================================================
