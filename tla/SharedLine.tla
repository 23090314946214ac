----------------------------- MODULE SharedLine -----------------------------
(***************************************************************************)
(* What the protocol promises of one line, without caches or messages: a   *)
(* register.  A store, the writeback of a scratchpad slot and a DMA write  *)
(* each change it in one step between their issue and their completion; a  *)
(* load, a scratchpad copy and a DMA read return a value it had while they *)
(* were in progress; a copy is acknowledged after it took its value, and a *)
(* writeback or DMA write after it took effect.                            *)
(***************************************************************************)
EXTENDS Naturals

CONSTANTS Cores, Dma

VARIABLES
    cur,    \* the value of the line
    ver,    \* the last number given to a store or a DMA write
    win,    \* per reader, the values its read may return; {} without a read
    stale,  \* a read returned something else
    op,     \* per core, the load, store or copy in progress
    wb,     \* cores with a slot writeback in progress
    wbOpen, \* those whose writeback has not taken effect
    dma,    \* state of the DMA agent
    dmaOpen \* the value of a DMA write that has not taken effect

vars == <<cur, ver, win, stale, op, wb, wbOpen, dma, dmaOpen>>

Init ==
    /\ cur = 0 /\ ver = 0 /\ stale = FALSE
    /\ win = [r \in Cores \cup {Dma} |-> {}]
    /\ op = [c \in Cores |-> "Idle"]
    /\ wb = {} /\ wbOpen = {} /\ dma = "READY" /\ dmaOpen = {}

Changes(v) ==
    /\ cur' = v
    /\ win' = [r \in Cores \cup {Dma} |->
                  IF win[r] = {} THEN {} ELSE win[r] \cup {v}]
NoDma == UNCHANGED <<dma, dmaOpen>>
NoWb == UNCHANGED <<wb, wbOpen>>

LoadOrCopy(c, kind) ==
    /\ op[c] = "Idle" /\ op' = [op EXCEPT ![c] = kind]
    /\ win' = [win EXCEPT ![c] = {cur}]
    /\ UNCHANGED <<cur, ver>> /\ NoDma /\ NoWb
StoreBegins(c) ==
    /\ op[c] = "Idle" /\ op' = [op EXCEPT ![c] = "Store"]
    /\ UNCHANGED <<cur, ver, win>> /\ NoDma /\ NoWb
StoreEnds(c) ==
    /\ op[c] \in {"Idle", "Store"} /\ op' = [op EXCEPT ![c] = "Idle"]
    /\ ver' = ver + 1 /\ Changes(ver + 1) /\ NoDma /\ NoWb
LoadEnds(c) ==
    /\ op[c] = "Load" /\ op' = [op EXCEPT ![c] = "Idle"]
    /\ win[c] # {} /\ win' = [win EXCEPT ![c] = {}]
    /\ UNCHANGED <<cur, ver>> /\ NoDma /\ NoWb
CopyTakes(c) ==
    /\ op[c] = "Copy" /\ win[c] # {} /\ win' = [win EXCEPT ![c] = {}]
    /\ UNCHANGED <<cur, ver, op>> /\ NoDma /\ NoWb
CopyEnds(c) ==
    /\ op[c] = "Copy" /\ win[c] = {} /\ op' = [op EXCEPT ![c] = "Idle"]
    /\ UNCHANGED <<cur, ver, win>> /\ NoDma /\ NoWb

WbBegins(c) ==
    /\ c \notin wb /\ wb' = wb \cup {c} /\ wbOpen' = wbOpen \cup {c}
    /\ UNCHANGED <<cur, ver, win, op>> /\ NoDma
WbTakesEffect(c) ==
    /\ c \in wbOpen /\ wbOpen' = wbOpen \ {c} /\ Changes(c)
    /\ UNCHANGED <<ver, op, wb>> /\ NoDma
WbEnds(c) ==
    /\ c \in wb \ wbOpen /\ wb' = wb \ {c}
    /\ UNCHANGED <<cur, ver, win, op, wbOpen>> /\ NoDma

DmaBegins ==
    /\ dma = "READY"
    /\ \/ /\ dma' = "BUSY_RD" /\ win' = [win EXCEPT ![Dma] = {cur}]
          /\ UNCHANGED <<ver, dmaOpen>>
       \/ /\ dma' = "BUSY_WR" /\ ver' = ver + 1 /\ dmaOpen' = {ver + 1}
          /\ UNCHANGED win
    /\ UNCHANGED <<cur, op>> /\ NoWb
DmaTakesEffect ==
    /\ \E v \in dmaOpen : Changes(v)
    /\ dmaOpen' = {} /\ UNCHANGED <<ver, op, dma>> /\ NoWb
DmaEnds ==
    /\ \/ dma = "BUSY_RD" /\ win[Dma] # {} /\ win' = [win EXCEPT ![Dma] = {}]
       \/ dma = "BUSY_WR" /\ dmaOpen = {} /\ UNCHANGED win
    /\ dma' = "READY" /\ UNCHANGED <<cur, ver, op, dmaOpen>> /\ NoWb

CoreStep(c) ==
    \/ LoadOrCopy(c, "Load") \/ LoadOrCopy(c, "Copy") \/ LoadEnds(c)
    \/ CopyTakes(c) \/ CopyEnds(c) \/ StoreBegins(c) \/ StoreEnds(c)
    \/ WbBegins(c) \/ WbTakesEffect(c) \/ WbEnds(c)
Next ==
    /\ (\E c \in Cores : CoreStep(c))
       \/ DmaBegins \/ DmaTakesEffect \/ DmaEnds
    /\ UNCHANGED stale
Spec == Init /\ [][Next]_vars
=============================================================================
