-------------------------------- MODULE Lsq ---------------------------------
(***************************************************************************)
(* The load/store queues of one O3 thread: the regular LSQUnit, the SPM    *)
(* LSQUnit and the shadow table that orders the bridge instructions        *)
(* (SPMCP, SPMDMA, SPMWB), which sit in the regular store queue, against   *)
(* SPM loads and stores.  The instruction queue, the ROB and the memory    *)
(* system appear as far as the queues see them.                            *)
(***************************************************************************)
EXTENDS Naturals, Sequences, FiniteSetsExt, TLC

CONSTANTS
    Slots,       \* SPM ways of one set
    Lines,       \* coherent lines
    Ops,         \* instructions that programs are made of
    MaxSeq,      \* bound: instructions dispatched, squashed ones included
    SpmSq,       \* SPMSQEntries
    SpmLq,       \* SPMLQEntries
    Bounded,     \* boundedTracking
    Forwarding,  \* spmStoreForwarding
    EarlyAddress,\* spmEarlyAddress
    Fenced       \* the unordered pairs that programs put a DSB between

\* A copy and a DMA write their slots, an SPMWB reads them and writes the
\* line; a DSB and the regular accesses have no slots.
Copies == {"spmcp", "spmdma"}
Bridge == Copies \cup {"spmwb"}
Stores == Bridge \cup {"spmst", "store"}
Loads == {"spmld", "load"}
Kinds == Stores \cup Loads \cup {"dsb"}
\* Pairs of instructions that the queues leave unordered.
Exposures == {"slot reuse", "copy source", "DMA slots"}
Op == [kind : Kinds, slots : SUBSET Slots, line : Lines]
ASSUME LsqAssumption ==
    /\ Ops \subseteq Op /\ Slots \subseteq Nat
    /\ \A o \in Ops : (o.slots = {}) = (o.kind \in {"store", "load", "dsb"})
    /\ MaxSeq \in Nat /\ SpmSq \in Nat \ {0} /\ SpmLq \in Nat \ {0}
    /\ Fenced \subseteq Exposures

VARIABLES
    prog,       \* instructions dispatched; the index is the seqNum
    status,     \* waiting (in the IQ), executed, sent, performed, done
    squashed,   \* sequence numbers squashed
    iq,         \* entries an instruction has in the IQ's ready and retry lists
    committed,  \* youngest sequence number committed
    shadow,     \* spmShadowTable: [valid, ready, retired, waiting]
    pending,    \* spmPendingLoadTable: SPM loads that may still read
    early,      \* SPM stores whose address the early unit computed
    blocked,    \* isStoreBlocked of each unit
    net,        \* requests in the memory system, in the order they were sent
    todo,       \* slots of a copy that its packets have not written yet
    slot, mem,  \* contents of the slots and of the lines
    result      \* what a load returned

iqVars == <<status, iq, result>>
memVars == <<net, todo, slot, mem>>
vars == <<prog, squashed, committed, shadow, pending, early, blocked,
          iqVars, memVars>>

Init ==
    /\ prog = <<>> /\ status = <<>> /\ squashed = {} /\ iq = <<>>
    /\ committed = 0 /\ shadow = <<>> /\ pending = {} /\ early = {}
    /\ blocked = [u \in {"spm", "regular"} |-> FALSE]
    /\ net = <<>> /\ todo = <<>> /\ result = <<>>
    /\ slot = [s \in Slots |-> 0] /\ mem = [l \in Lines |-> 0]

Kind(i) == prog[i].kind
Live == DOMAIN prog \ squashed
OfKind(K) == {i \in Live : Kind(i) \in K}
Known(i) == status[i] # "waiting"
Meet(i, j) == prog[i].slots \cap prog[j].slots # {}
\* The slots a shadow entry stands for: spmAddr and wayCount.  A DMA's entry
\* has its first slot only.
Tracked(j) == IF Kind(j) = "spmdma" THEN {Min(prog[j].slots)} ELSE prog[j].slots
Guards(j, i) == Tracked(j) \cap prog[i].slots # {}
\* MemDepUnit: nothing executes before an older barrier has.
PastFences(i) == \A j \in OfKind({"dsb"}) : j < i => status[j] = "done"

-----------------------------------------------------------------------------
\* Queue occupancy.  Completed stores leave the queue from its head.
InSpmSq == {i \in OfKind({"spmst"}) :
              \E j \in OfKind({"spmst"}) : j <= i /\ status[j] # "done"}
StoresUsed ==
    Cardinality(InSpmSq) + (IF Bounded THEN Cardinality(DOMAIN shadow) ELSE 0)
\* A squashed load keeps its entry until its packet has returned.
Detached == {i \in squashed :
               Kind(i) = "spmld" /\ status[i] \in {"sent", "performed"}}
LoadsUsed ==
    Cardinality({i \in OfKind({"spmld"}) : i > committed})
        + (IF Bounded THEN Cardinality(Detached) ELSE 0)
\* Defect: the queue that is exactly full still takes an entry.
SpmLsqFull_OffByOne(o) ==
    \/ o.kind \in Bridge \cup {"spmst"} /\ StoresUsed > SpmSq
    \/ o.kind = "spmld" /\ LoadsUsed > SpmLq
SpmLsqFull(o) ==
    \/ o.kind \in Bridge \cup {"spmst"} /\ StoresUsed >= SpmSq
    \/ o.kind = "spmld" /\ LoadsUsed >= SpmLq

\* cleanupRetiredShadow
Cleanup(sh) ==
    Restrict(sh, {j \in DOMAIN sh :
                    ~ (sh[j].ready /\ (sh[j].retired \/ sh[j].waiting = {}))})

\* A copy into a slot that an older store, copy or SPMWB uses; an SPMWB to a
\* line that an older copy reads (a copy that was sent has left the queue
\* LinePending looks at); any use of a DMA's other slots.
Exposed(e, p, o) ==
    LET both == p.slots \cap o.slots
    IN  \/ /\ e = "slot reuse" /\ both # {}
           /\ o.kind \in Copies /\ p.kind \in Bridge \cup {"spmst"}
        \/ /\ e = "copy source" /\ p.line = o.line
           /\ o.kind = "spmwb" /\ p.kind \in Copies
        \/ e = "DMA slots" /\ p.kind = "spmdma" /\ both \ {Min(p.slots)} # {}
Legal(o) ==
    \A i \in Live : (\A d \in OfKind({"dsb"}) : d < i)
                        => \A e \in Fenced : ~ Exposed(e, prog[i], o)

\* reserveSpmStore: a new entry for instruction i.
Reserve(sh, i) ==
    [j \in DOMAIN sh \cup {i} |->
        IF j = i THEN [valid |-> FALSE, ready |-> FALSE, retired |-> FALSE,
                       waiting |-> {}]
        ELSE sh[j]]
\* dispatch; a bridge instruction reserves its shadow entry.
Dispatch(o) ==
    /\ Len(prog) < MaxSeq /\ Legal(o) /\ ~ SpmLsqFull(o)
    /\ prog' = Append(prog, o) /\ status' = Append(status, "waiting")
    /\ iq' = Append(iq, 1) /\ todo' = Append(todo, {})
    /\ result' = Append(result, <<>>)
    /\ shadow' = IF o.kind \in Bridge THEN Reserve(Cleanup(shadow), Len(prog) + 1)
                 ELSE shadow
    /\ UNCHANGED <<squashed, committed, pending, early, blocked,
                   net, slot, mem>>

\* executeStore: the address, and a bridge instruction's slots, are known.
ExecuteStore(i) ==
    /\ i \in OfKind(Stores) /\ status[i] = "waiting" /\ PastFences(i)
    /\ status' = [status EXCEPT ![i] = "executed"]
    /\ iq' = [iq EXCEPT ![i] = 0]
    /\ shadow' = IF Kind(i) \in Bridge
                 THEN [Cleanup(shadow) EXCEPT ![i].valid = TRUE,
                         ![i].ready = FALSE, ![i].retired = FALSE]
                 ELSE shadow
    /\ UNCHANGED <<prog, squashed, committed, pending, early, blocked, result,
                   memVars>>

-----------------------------------------------------------------------------
\* Loads.  An issued load parks in the wait lists of the entries that block
\* it, goes back to the retry list, takes its data from the store queue, or
\* is sent.
Older(i) == {j \in DOMAIN shadow : j < i /\ ~ shadow[j].ready}
Blockers(i) ==
    IF Kind(i) = "spmld"
    THEN {j \in Older(i) : shadow[j].valid /\ Guards(j, i)}
    ELSE {j \in Older(i) : /\ Kind(j) = "spmwb"
                           /\ shadow[j].valid => prog[j].line = prog[i].line}
Unresolved(i) == \E j \in Older(i) : ~ shadow[j].valid
OlderStores(i) == {j \in InSpmSq : j < i}
\* The store-queue entry an SPM load takes its data from.
Forwarder(i) ==
    LET hits == {j \in OlderStores(i) : Known(j) /\ Meet(j, i)}
    IN  {j \in hits : /\ Forwarding /\ \A k \in OlderStores(i) : Known(k)
                      /\ \A k \in hits : k <= j
                      /\ status[j] # "done" /\ prog[i].slots \subseteq prog[j].slots}
\* Defect: a store whose address is not known holds nobody.
HoldingStores_KnownOnly(i) ==
    {j \in OlderStores(i) : status[j] # "done" /\ Known(j) /\ Meet(j, i)}
HoldingStores(i) ==
    {j \in OlderStores(i) : status[j] # "done" /\
                            (Known(j) \/ j \in early => Meet(j, i))}
\* The regular unit forwards from a store that has not been sent.
RegularForwarder(i) ==
    LET hits == {j \in OfKind({"store"}) : j < i /\ status[j] = "executed"
                                             /\ prog[j].line = prog[i].line}
    IN  {j \in hits : \A k \in hits : k <= j}

Issued(i) ==
    /\ i \in OfKind(Loads) /\ status[i] = "waiting" /\ iq[i] > 0
    /\ PastFences(i)
Park(i, sh) ==
    /\ Blockers(i) # {}
    /\ shadow' = [j \in DOMAIN sh |->
                    IF j \in Blockers(i)
                    THEN [sh[j] EXCEPT !.waiting = @ \cup {i}] ELSE sh[j]]
    /\ iq' = [iq EXCEPT ![i] = @ - 1]
    /\ UNCHANGED <<status, result, early, memVars>>
Retry(i) ==
    /\ Blockers(i) = {}
    /\ Unresolved(i) \/ (Forwarder(i) = {} /\ HoldingStores(i) # {})
    /\ LET j == Min(HoldingStores(i))
       IN  early' \in {early} \cup
             (IF EarlyAddress /\ ~ Unresolved(i) /\ ~ Known(j)
              THEN {early \cup {j}} ELSE {})
    /\ UNCHANGED <<iq, status, result, memVars>>
Forward(i, j) ==
    /\ status' = [status EXCEPT ![i] = "done"]
    /\ iq' = [iq EXCEPT ![i] = @ - 1]
    /\ result' = [result EXCEPT ![i] =
                    IF Kind(i) = "spmld" THEN [s \in prog[i].slots |-> j]
                    ELSE [l \in {prog[i].line} |-> j]]
    /\ UNCHANGED <<early, memVars>>
Send(i) ==
    /\ status' = [status EXCEPT ![i] = "sent"]
    /\ net' = Append(net, i)
    /\ todo' = [todo EXCEPT ![i] = IF Kind(i) \in Copies THEN prog[i].slots
                                   ELSE {}]
    /\ UNCHANGED <<slot, mem>>
SendLoad(i) ==
    /\ Send(i) /\ iq' = [iq EXCEPT ![i] = @ - 1] /\ UNCHANGED <<result, early>>

\* LSQUnit::read of the SPM unit.
ReadSpm(i) ==
    /\ Issued(i) /\ Kind(i) = "spmld"
    /\ \/ Park(i, Cleanup(shadow)) /\ pending' = pending \cup {i}
       \/ Retry(i) /\ pending' = pending \cup {i} /\ shadow' = Cleanup(shadow)
       \/ /\ Blockers(i) = {} /\ ~ Unresolved(i)
          /\ shadow' = Cleanup(shadow)
          /\ \/ \E j \in Forwarder(i) : Forward(i, j) /\ pending' = pending \ {i}
             \/ /\ Forwarder(i) = {} /\ HoldingStores(i) = {}
                /\ SendLoad(i) \/ UNCHANGED <<iqVars, early, memVars>>
                /\ pending' = pending \cup {i}
    /\ UNCHANGED <<prog, squashed, committed, blocked>>

\* LSQUnit::read of the regular unit; the memory dependence unit and the
\* squash of a load that overtook an older store keep it behind that store.
ReadRegular(i) ==
    /\ Issued(i) /\ Kind(i) = "load"
    /\ \A j \in OfKind({"store"}) : j < i => Known(j)
    /\ \/ Park(i, shadow)
       \/ /\ Blockers(i) = {} /\ shadow' = shadow
          /\ IF RegularForwarder(i) = {} THEN SendLoad(i)
             ELSE \E j \in RegularForwarder(i) : Forward(i, j)
    /\ UNCHANGED <<prog, squashed, committed, blocked, pending>>

-----------------------------------------------------------------------------
\* writebackStores.  Each unit sends its committed stores in order; a store
\* the port refuses is blocked and sent later without further checks.
Unit(u) == IF u = "spm" THEN {"spmst"} ELSE Bridge \cup {"store"}
NextStore(u) ==
    {i \in OfKind(Unit(u)) :
        /\ status[i] \in {"waiting", "executed"}
        /\ \A j \in OfKind(Unit(u)) :
              status[j] \in {"waiting", "executed"} => i <= j}
\* Defect: a store leaves before it commits.
CanWB_Uncommitted(i) == status[i] = "executed"
CanWB(i) == i <= committed /\ status[i] = "executed"
\* An SPM store stays behind copies into and writebacks of its slots.
SpmHold(i) == \E j \in Older(i) : ~ shadow[j].valid \/ Guards(j, i)
\* A regular store or copy stays behind a writeback to its line.
InstallPending(i) ==
    \E j \in Older(i) : Kind(j) = "spmwb" /\ (shadow[j].valid => prog[j].line = prog[i].line)
\* An SPMWB stays behind SPM stores to and copies into its slots, and behind
\* the uncompleted entries of its own queue for its line.
SourceRaw(i) ==
    \/ \E j \in OlderStores(i) : Known(j) => Meet(j, i)
    \/ SpmHold(i)
LinePending(i) ==
    \E j \in OfKind({"store"}) :
        j < i /\ prog[j].line = prog[i].line /\ status[j] \in {"sent", "performed"}
\* A copy of a slot that an older SPM load may still read.
WarConflict(i) ==
    \/ \E j \in pending : j < i /\ Guards(i, j)
    \/ \E j \in OfKind({"spmld"}) :
          j < i /\ j > committed /\ status[j] # "done" /\ j \notin pending
Held(i) ==
    \/ Kind(i) = "spmst" /\ SpmHold(i)
    \/ Kind(i) # "spmst" /\ InstallPending(i)
    \/ Kind(i) = "spmwb" /\ (SourceRaw(i) \/ LinePending(i))
    \/ Kind(i) \in Copies /\ WarConflict(i)

Writeback(u) ==
    \E i \in NextStore(u) :
        /\ CanWB(i) /\ ~ blocked[u] /\ ~ Held(i)
        /\ \/ Send(i) /\ UNCHANGED blocked
           \/ blocked' = [blocked EXCEPT ![u] = TRUE] /\ UNCHANGED <<status, memVars>>
        /\ UNCHANGED <<prog, squashed, committed, shadow, pending, early, iq, result>>
\* writebackBlockedStore
WritebackBlocked(u) ==
    /\ blocked[u] /\ blocked' = [blocked EXCEPT ![u] = FALSE]
    /\ \E i \in NextStore(u) : Send(i)
    /\ UNCHANGED <<prog, squashed, committed, shadow, pending, early, iq, result>>

-----------------------------------------------------------------------------
\* The memory system.  Ruby keys a request by the slot or, for a copy and a
\* regular access, by the line, and serves requests of one key in order.
Key(i) == IF Kind(i) \in {"spmld", "spmst", "spmwb"} THEN <<"slot", Min(prog[i].slots)>>
          ELSE <<"line", prog[i].line>>
Perform(i, part) ==
    /\ todo' = [todo EXCEPT ![i] = @ \ part]
    /\ \E n \in DOMAIN net :
          /\ net[n] = i /\ \A m \in 1 .. n - 1 : Key(net[m]) # Key(i)
          /\ IF todo'[i] = {} THEN /\ net' = SubSeq(net, 1, n - 1) \o SubSeq(net, n + 1, Len(net))
                                   /\ status' = [status EXCEPT ![i] = "performed"]
                              ELSE UNCHANGED <<net, status>>
    /\ slot' = [s \in Slots |->
                  IF s \in part /\ Kind(i) = "spmst" THEN i
                  ELSE IF s \in part /\ Kind(i) \in Copies THEN mem[prog[i].line]
                  ELSE slot[s]]
    /\ mem' = IF Kind(i) = "store" THEN [mem EXCEPT ![prog[i].line] = i]
              ELSE IF Kind(i) = "spmwb"
              THEN [mem EXCEPT ![prog[i].line] = slot[Min(prog[i].slots)]]
              ELSE mem
    /\ result' = IF i \notin Live THEN result
                 ELSE IF Kind(i) = "spmld" THEN [result EXCEPT ![i] = Restrict(slot, part)]
                 ELSE IF Kind(i) = "load"
                 THEN [result EXCEPT ![i] = Restrict(mem, {prog[i].line})]
                 ELSE result
    /\ UNCHANGED <<prog, squashed, committed, shadow, pending, early, blocked, iq>>
Parts(i) == IF Kind(i) \in Copies THEN {{s} : s \in todo[i]} ELSE {prog[i].slots}

\* Defect: any older entry keeps the load waiting, listed there or not.
StillWaiting_AnyOlder(w, i) ==
    \E j \in DOMAIN shadow \ {i} : ~ shadow[j].ready /\ j < w
StillWaiting(w, i) ==
    \E j \in DOMAIN shadow \ {i} : ~ shadow[j].ready /\ j < w /\ w \in shadow[j].waiting
Wake(i) ==
    LET sh == [shadow EXCEPT ![i].ready = TRUE, ![i].waiting = {}]
    IN  /\ iq' = [w \in DOMAIN iq |->
                    IF w \in shadow[i].waiting \cap Live /\ ~ StillWaiting(w, i)
                    THEN iq[w] + 1 ELSE iq[w]]
        /\ shadow' = IF Bounded THEN Cleanup(sh) ELSE sh
RecvTimingResp(i) ==
    /\ status[i] = "performed" /\ status' = [status EXCEPT ![i] = "done"]
    /\ IF Kind(i) \in Bridge THEN Wake(i) ELSE UNCHANGED <<iq, shadow>>
    /\ pending' = pending \ {i}
    /\ UNCHANGED <<prog, squashed, committed, early, blocked, result, memVars>>

-----------------------------------------------------------------------------
\* Commit, in order.  A DSB executes at the head of the ROB when no store of
\* the thread and no committed bridge instruction is outstanding.
\* Defect: bridge instructions younger than the barrier count as well.
HasPendingWriteback_Any == \E j \in DOMAIN shadow : ~ shadow[j].ready
HasPendingWriteback == \E j \in DOMAIN shadow : shadow[j].retired /\ ~ shadow[j].ready
\* Defect: bridge instructions count only until they are sent.
HasStoresToWB_NoShadow ==
    \E i \in OfKind(Stores) :
        /\ i <= committed
        /\ status[i] = "executed" \/ (Kind(i) \notin Bridge /\ status[i] # "done")
HasStoresToWB ==
    \/ \E i \in OfKind(Stores) :
          /\ i <= committed
          /\ status[i] = "executed" \/ (Kind(i) \notin Bridge /\ status[i] # "done")
    \/ HasPendingWriteback
AtHead(i) == i \in Live /\ i > committed /\ \A j \in Live : j > committed => i <= j
ExecuteFence(i) ==
    /\ AtHead(i) /\ Kind(i) = "dsb" /\ status[i] = "waiting" /\ ~ HasStoresToWB
    /\ status' = [status EXCEPT ![i] = "done"]
    /\ iq' = [iq EXCEPT ![i] = 0]
    /\ UNCHANGED <<prog, squashed, committed, shadow, pending, early, blocked,
                   result, memVars>>
Commit(i) ==
    /\ AtHead(i)
    /\ IF Kind(i) \in Stores THEN Known(i) ELSE status[i] = "done"
    /\ committed' = i
    /\ shadow' = [j \in DOMAIN shadow |->
                    IF j <= i THEN [shadow[j] EXCEPT !.retired = TRUE] ELSE shadow[j]]
    /\ UNCHANGED <<prog, squashed, pending, early, blocked, iqVars, memVars>>

SquashPending(k) == {i \in pending : i <= k}
\* A mispredicted branch or a trap after instruction k.
Squash(k) ==
    LET dead == {i \in Live : i > k}
    IN  /\ k >= committed /\ dead # {}
        /\ squashed' = squashed \cup dead
        /\ status' = [i \in DOMAIN status |->
                        IF i \in dead /\ status[i] \notin {"sent", "performed"}
                        THEN "done" ELSE status[i]]
        /\ iq' = [i \in DOMAIN iq |-> IF i \in dead THEN 0 ELSE iq[i]]
        /\ result' = [i \in DOMAIN result |-> IF i \in dead THEN <<>> ELSE result[i]]
        /\ shadow' = Restrict(shadow, {j \in DOMAIN shadow : j <= k})
        /\ pending' = SquashPending(k)
        /\ early' = {i \in early : i <= k}
        /\ UNCHANGED <<prog, committed, blocked, memVars>>

Next ==
    \/ \E o \in Ops : Dispatch(o)
    \/ \E i \in DOMAIN prog :
          \/ ExecuteStore(i) \/ ReadSpm(i) \/ ReadRegular(i)
          \/ RecvTimingResp(i) \/ ExecuteFence(i) \/ Commit(i)
          \/ \E part \in Parts(i) : Perform(i, part)
    \/ \E u \in DOMAIN blocked : Writeback(u) \/ WritebackBlocked(u)
    \/ \E k \in 0 .. Len(prog) : Squash(k)
Spec == Init /\ [][Next]_vars

-----------------------------------------------------------------------------
\* Types; a squash leaves no shadow entry or pending record behind.
TypeOK ==
    /\ prog \in Seq(Op) /\ squashed \subseteq DOMAIN prog
    /\ status \in [DOMAIN prog -> {"waiting", "executed", "sent", "performed", "done"}]
    /\ iq \in [DOMAIN prog -> Nat] /\ committed \in 0 .. Len(prog)
    /\ DOMAIN shadow \subseteq Live
    /\ \A j \in DOMAIN shadow :
          shadow[j] \in [valid : BOOLEAN, ready : BOOLEAN, retired : BOOLEAN,
                        waiting : SUBSET DOMAIN prog]
    /\ pending \subseteq Live /\ early \subseteq Live
    /\ blocked \in [{"spm", "regular"} -> BOOLEAN]
    /\ net \in Seq(DOMAIN prog) /\ todo \in [DOMAIN prog -> SUBSET Slots]
    /\ slot \in [Slots -> 0 .. MaxSeq] /\ mem \in [Lines -> 0 .. MaxSeq]

\* The program executed one instruction after the other: contents of slots
\* and lines after instruction i.
After[i \in 0 .. MaxSeq] ==
    IF i = 0 THEN [slot |-> [s \in Slots |-> 0], mem |-> [l \in Lines |-> 0]]
    ELSE LET b == After[i - 1]
             o == prog[i]
         IN  IF i \notin Live THEN b
             ELSE CASE o.kind = "spmst" ->
                         [b EXCEPT !.slot = [s \in o.slots |-> i] @@ @]
                    [] o.kind \in Copies ->
                         [b EXCEPT !.slot = [s \in o.slots |-> b.mem[o.line]] @@ @]
                    [] o.kind = "store" -> [b EXCEPT !.mem[o.line] = i]
                    [] o.kind = "spmwb" ->
                         [b EXCEPT !.mem[o.line] = b.slot[Min(o.slots)]]
                    [] OTHER -> b

\* Every load returns what the program order says, whatever was copied,
\* forwarded, parked, replayed or squashed around it.
ReadsProgram ==
    \A i \in OfKind(Loads) : status[i] = "done" =>
        result[i] = IF Kind(i) = "spmld" THEN Restrict(After[i - 1].slot, prog[i].slots)
                    ELSE Restrict(After[i - 1].mem, {prog[i].line})

\* Once every instruction is done, the slots and the lines hold what the
\* program order leaves in them: no store, copy or writeback overtook an
\* older one it conflicts with.
LeavesProgram ==
    (\A i \in Live : status[i] = "done") =>
        slot = After[Len(prog)].slot /\ mem = After[Len(prog)].mem

\* The queues are invisible: loads, slots and lines end up as if the program
\* had been executed one instruction after the other, given a DSB between
\* the pairs in Fenced.  writebackStores says of an SPMWB that "an older copy
\* read its data (WAR). Keep the writeback behind such accesses to its line".
ProgramOrder == ReadsProgram /\ LeavesProgram

\* A load is in the instruction queue at most once, and not while its
\* request is outstanding: two answers never replay the same load twice.
WakeOnce ==
    \A i \in OfKind(Loads) : iq[i] <= (IF status[i] = "waiting" THEN 1 ELSE 0)

\* A load outside the instruction queue whose request was not sent is in the
\* wait list of an older bridge instruction that is still to be answered.
ParkedIsListed ==
    \A i \in OfKind(Loads) : status[i] = "waiting" /\ iq[i] = 0 =>
        \E j \in Older(i) : i \in shadow[j].waiting
\* A parked load is replayed, and once.
Replays == WakeOnce /\ ParkedIsListed

\* The write-after-read deferral never happens, as commit is in order: the
\* code does not advance past a deferred copy and would try it for ever.
NoWarDeferral ==
    \A i \in OfKind(Copies) : CanWB(i) => ~ WarConflict(i)

\* The SPM store queue and the shadow entries charged to it stay within
\* its capacity, and the pending-load table within the load queue's.
Budgets ==
    /\ StoresUsed <= SpmSq /\ LoadsUsed <= SpmLq
    /\ pending \subseteq {i \in OfKind({"spmld"}) : i > committed}

\* After a DSB every older instruction has taken effect and was answered.
FenceDrains ==
    \A d \in OfKind({"dsb"}) : status[d] = "done" =>
        \A i \in Live : i < d => status[i] = "done"

\* The core executes, commits and writes back what is ready every cycle, the
\* hierarchy performs and answers every packet, and an issued load is issued
\* again as long as the LSQ sends it back.
FairSpec ==
    /\ Spec
    /\ \A i \in 1 .. MaxSeq :
          /\ WF_vars(i \in DOMAIN prog /\ (ExecuteStore(i) \/ ExecuteFence(i)))
          /\ WF_vars(i \in DOMAIN prog /\ (RecvTimingResp(i) \/ Commit(i)))
          /\ WF_vars(i \in DOMAIN prog /\ \E part \in Parts(i) : Perform(i, part))
          /\ WF_vars(i \in DOMAIN prog /\ (ReadSpm(i) \/ ReadRegular(i)) /\ Known(i)')
    /\ \A u \in {"spm", "regular"} :
          WF_vars(Writeback(u) /\ ~ blocked'[u]) /\ WF_vars(WritebackBlocked(u))

\* Every instruction is squashed or completes.
Completes ==
    \A i \in 1 .. MaxSeq :
        i \in DOMAIN prog ~> (i \in squashed \/ (i <= committed /\ status[i] = "done"))
=============================================================================
