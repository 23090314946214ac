------------------------------- MODULE SpmNet -------------------------------
(***************************************************************************)
(* What the controllers of MESI_Three_Level_SPM share, for one line of     *)
(* memory: the unordered virtual networks between private L1s, shared L2   *)
(* and directory, the ordered buffers between each L0 and its L1, and a    *)
(* history of the line's value.                                            *)
(*                                                                         *)
(* A DataBlock is a value: 0 is the initial content of the line, every     *)
(* store and DMA write makes the next number, and the scratchpad slot that *)
(* core c writes back holds c itself.                                      *)
(***************************************************************************)
EXTENDS Integers, Sequences, FiniteSets, Bags

CONSTANTS
    Cores,        \* one L0 and one private L1 each
    Profiles,     \* the profiles considered, each the set of its switches
    MaxOps,       \* bound: loads, stores, copies, writebacks and DMAs issued
    MaxEvictions  \* bound: capacity evictions, over all levels

\* Finite-buffer mode gives the L0's replies a lane of their own; the other
\* two are parameters of the L1 and L2 controllers.
Switches == {"return_lane", "spm_silent_retry", "spm_retain_llc"}
ASSUME ProfilesAssumption == Profiles \subseteq SUBSET Switches

VARIABLES
    net,     \* bag of messages in the virtual networks
    up,      \* per core, L0 -> L1 messages in order of enqueue
    dn,      \* per core, L1 -> L0 messages (bufferToL0)
    spmdn,   \* per core, SPM_ACKs on the dedicated path (spmBufferToL0)
    cur,     \* history: the value of the line, in coherence order
    ver,     \* history: the last value a store or DMA write made
    win,     \* history: per reader, values of the line since its read began
    stale,   \* history: some completed read returned a value outside win
    issued,  \* operations issued
    evicted, \* evictions triggered
    profile  \* the switches that are on, chosen once

netVars == <<net, up, dn, spmdn>>
histVars == <<cur, ver, win, stale>>
envVars == <<issued, evicted, profile>>

L2 == "L2"
Dir == "Dir"
Dma == "Dma"
Readers == Cores \cup {Dma}

-----------------------------------------------------------------------------
\* Requests, responses and unblocks; req is the message's Requestor.
Msg(type, src, dst, req) ==
    [type |-> type, src |-> src, dst |-> dst, req |-> req,
     data |-> 0, dirty |-> FALSE, acks |-> 0]
DataMsg(type, src, dst, data, dirty, acks) ==
    [Msg(type, src, dst, dst) EXCEPT !.data = data, !.dirty = dirty,
                                     !.acks = acks]
CtlMsg(type, src, dst) == Msg(type, src, dst, dst)
\* A RequestMsg names its requestor only, not the controller that sent it.
Req(type, req, dst) == Msg(type, req, dst, req)
AckMsg(src, dst, acks) == [CtlMsg("ACK", src, dst) EXCEPT !.acks = acks]

Arrived(dst) == {m \in BagToSet(net) : m.dst = dst}
Send(out) == net' = net (+) SetToBag(out)
\* The head message is dequeued, out is enqueued, stalled messages return.
Reply(m, out) == net' = (net (-) SetToBag({m})) (+) SetToBag(out)
ReplyAndWake(m, out, stalled) ==
    net' = ((net (-) SetToBag({m})) (+) SetToBag(out)) (+) stalled

-----------------------------------------------------------------------------
\* CoherenceMsg between L0 and L1.  PUTX, INV_ACK and INV_DATA are replies.
LinkMsg(class, data, dirty) == [class |-> class, data |-> data, dirty |-> dirty]
IsReturn(m) == m.class \in {"PUTX", "INV_ACK", "INV_DATA"}

\* Requests sent with spmRequestLatency, which may be below response_latency.
IsSpm(m) == m.class \in {"SPMCP_FETCH", "SPMCP_SNAPSHOT", "SPMWB_STORE"}

\* m may be served before the older n.  Each lane is ordered.  A reply passes
\* any request; a scratchpad request, with its shorter latency, passes a
\* reply; a load or store has the latency of a reply, and the return lane is
\* served first.
Passes(m, n) ==
    /\ "return_lane" \in profile
    /\ IF IsReturn(m) THEN ~ IsReturn(n) ELSE IsSpm(m) /\ IsReturn(n)
\* Positions of up[c] the L1 may serve next; with one FIFO only the head.
Ready(c) ==
    {i \in DOMAIN up[c] :
        \A j \in 1 .. i - 1 : Passes(up[c][i], up[c][j])}
Without(s, i) == SubSeq(s, 1, i - 1) \o SubSeq(s, i + 1, Len(s))

-----------------------------------------------------------------------------
\* The history.  A read's window opens with the value current when it is
\* issued and collects every later one; the value it returns must be inside.
Wrote(v) ==
    /\ cur' = v
    /\ win' = [r \in Readers |-> IF win[r] = {} THEN {} ELSE win[r] \cup {v}]
    /\ UNCHANGED stale
WroteNew == Wrote(ver + 1) /\ ver' = ver + 1
ReadBegins(r) ==
    /\ win' = [win EXCEPT ![r] = {cur}]
    /\ UNCHANGED <<cur, ver, stale>>
ReadEnds(r, v) ==
    /\ win' = [win EXCEPT ![r] = {}]
    /\ stale' = (stale \/ v \notin win[r])
    /\ UNCHANGED <<cur, ver>>
ReadsNow(v) ==
    /\ stale' = (stale \/ v # cur)
    /\ UNCHANGED <<cur, ver, win>>

Issue ==
    /\ issued < MaxOps /\ issued' = issued + 1
    /\ UNCHANGED <<evicted, profile>>
Evict ==
    /\ evicted < MaxEvictions /\ evicted' = evicted + 1
    /\ UNCHANGED <<issued, profile>>

NetInit ==
    /\ net = EmptyBag
    /\ up = [c \in Cores |-> <<>>]
    /\ dn = [c \in Cores |-> <<>>]
    /\ spmdn = [c \in Cores |-> {}]
    /\ cur = 0 /\ ver = 0 /\ stale = FALSE
    /\ win = [r \in Readers |-> {}]
    /\ issued = 0 /\ evicted = 0 /\ profile \in Profiles
=============================================================================
