--------------------------- MODULE ReductionBank ----------------------------
(***************************************************************************)
(* The LLC bank's shared scratchpad: L3_SPM requests, slot claims, the     *)
(* finite reduction command queue with its destination locks, the timed    *)
(* read-modify-write engine, the shared service port, and the wake-ups of  *)
(* the controller that runs them.                                          *)
(*                                                                         *)
(* The controller runs when something wakes it.  It then visits its ports  *)
(* in source order, takes the first transition it finds, and starts over,  *)
(* until no port triggers one.  A timer that expires, and a message that   *)
(* arrives, wakes it; so would messages that wakeUpBuffers reanalyzes.     *)
(***************************************************************************)
EXTENDS L3Geometry

CONSTANTS
    Entries,     \* l3_reduction_entries
    Pipeline,    \* l3_reduction_pipeline
    ServicePort, \* l3_shared_service_port
    MaxLive      \* bound: coherent lines in scratchpad ways at the start

ASSUME BankAssumption == Entries \in Nat \ {0} /\ MaxLive \in Nat

VARIABLES
    claimed,  \* the slots that are scratchpad (entry present, state X)
    live,     \* ways that hold a coherent line, which a claim must evict
    data,     \* content of the slots
    owners,   \* l3ReductionOwners: slot -> base of the command that locks it
    tbe,      \* per base: the captured command, its progress and result
    queue,    \* l3ReductionQueue: bases of commands not started, in order
    count,    \* l3ReductionCount
    active,   \* l3ReductionActive
    inbox,    \* L1RequestToL2Cache: [op, on], on the base it is stalled on
    service,  \* timer of the shared service port
    issue,    \* timer of the pipelined engine's issue slot
    awake     \* the controller has a wake-up scheduled

engineVars == <<owners, tbe, queue, count, active>>
slotVars == <<claimed, live, data>>
timerVars == <<service, issue>>
bankVars == <<slotVars, engineVars, inbox, timerVars, awake>>

Unlocked == -1
NoTbe == [st |-> "none"]

BankInit ==
    /\ claimed = {}
    /\ live \in {S \in SUBSET Way : Cardinality(S) <= MaxLive}
    /\ data = [w \in Way |-> <<>>]
    /\ owners = [w \in Way |-> Unlocked]
    /\ tbe = [b \in Way |-> NoTbe]
    /\ queue = <<>> /\ count = 0 /\ active = 0
    /\ inbox = <<>>
    /\ service = "free" /\ issue = "free"
    /\ awake = FALSE

-----------------------------------------------------------------------------
\* Defect: the ports of the visit that clears the timer still see it set.
PortClear_Late == service = "free"
\* Ports l3ServicePort_in and l3ReductionIssue_in come first and clear an
\* expired timer, so every later port of the visit sees it clear.
PortClear == service # "busy"
IssueClear == issue # "busy"
Cleared(timer) == IF timer = "expired" THEN "free" ELSE timer
\* l3Occupy.
Occupied == IF ServicePort THEN "busy" ELSE Cleared(service)

Done == {b \in Way : tbe[b].st = "expired"}
FinishReady == Done # {} /\ PortClear
StartReady ==
    queue # <<>> /\ (active = 0 \/ Pipeline) /\ IssueClear /\ PortClear

\* The oldest request that is not stalled.
Waiting == {i \in DOMAIN inbox : inbox[i].on = Unlocked}
HeadIndex == CHOOSE i \in Waiting : \A j \in Waiting : i <= j
HeadReady == Waiting # {} /\ PortClear
Locked(op) == {w \in Touched(op) : owners[w] # Unlocked}
\* l3ReductionConflict: the owner of the first locked slot of the access.
Conflict(op) == owners[CHOOSE w \in Locked(op) : \A v \in Locked(op) : w <= v]
\* prepareL3SPM refuses slots whose way holds a live coherent line.
Claims(op) == op.kind \in {"init", "store"}
Victims(op) == IF Claims(op) THEN Touched(op) \cap live ELSE {}
EntersEngine(op) == op.kind \in Reductions \cup {"finalize"}
\* A head request that finds the command entries full triggers nothing.
HeadTriggers(op) ==
    \/ Locked(op) # {} \/ Victims(op) # {} \/ ~ EntersEngine(op)
    \/ count < Entries
HeadStep == HeadReady /\ HeadTriggers(inbox[HeadIndex].op)

Pop(q, i) == SubSeq(q, 1, i - 1) \o SubSeq(q, i + 1, Len(q))
\* Ranks of the ports: l3ReductionTimer_in declares none, which is 0.
TimerRank == 0
RequestRank == 0
\* wakeUpBuffers, called by a port of this rank: messages stalled on one of
\* these bases are analyzed again if the port they stalled at ranks lower.
Reanalyze(bases, rank) ==
    [i \in DOMAIN inbox |->
        IF RequestRank < rank /\ inbox[i].on \in bases
        THEN [inbox[i] EXCEPT !.on = Unlocked] ELSE inbox[i]]
\* Defect: only the first slot of the row is unlocked.
Unlock_First(slots) ==
    owners' = [w \in Way |-> IF w \in slots /\ w - 1 \notin slots THEN Unlocked
                              ELSE owners[w]]
Unlock(slots) ==
    owners' = [w \in Way |-> IF w \in slots THEN Unlocked ELSE owners[w]]

-----------------------------------------------------------------------------
\* Defect: the contribution reaches the first half of the row only.
Result_Half(op) ==
    [w \in Touched(op) |->
        CASE op.kind = "init" -> <<Id(op)>>
          [] op.kind = "reduce" /\ w < op.base + FinalWays -> Append(data[w], Id(op))
          [] OTHER -> data[w]]
\* L3ReduceStart: the result is computed from the array now and installed
\* when the timer expires; an initializing command reads no SRAM.
Result(op) ==
    [w \in Touched(op) |->
        CASE op.kind = "init" -> <<Id(op)>>
          [] op.kind = "reduce" -> Append(data[w], Id(op))
          [] OTHER -> data[w]]
ReduceStart ==
    /\ awake /\ ~ FinishReady /\ StartReady
    /\ LET b == Head(queue) IN
        /\ tbe' = [tbe EXCEPT ![b] = [st |-> "running", op |-> @.op,
                                      result |-> Result(@.op)]]
        /\ service' = IF tbe[b].op.kind = "init" THEN Cleared(service)
                      ELSE Occupied
    /\ queue' = Tail(queue)
    /\ active' = active + 1
    /\ issue' = IF Pipeline THEN "busy" ELSE Cleared(issue)
    /\ UNCHANGED <<slotVars, owners, count, inbox, awake>>

\* The slots that a command gives up when it finishes.
Reclaimed(op) == IF op.kind = "finalize" THEN Touched(op) ELSE {}
\* L3ReduceFinish and L3FinalizeFinish for base b; out is the reply's value.
Finish(b, out) ==
    /\ awake /\ b \in Done /\ PortClear
    /\ LET op == tbe[b].op IN
        /\ out = tbe[b].result
        /\ Unlock(Touched(op))
        /\ claimed' = claimed \ Reclaimed(op)
        /\ data' = [w \in Way |-> IF w \in Reclaimed(op) THEN <<>>
                                  ELSE IF w \in Touched(op) THEN out[w]
                                  ELSE data[w]]
        /\ inbox' = Reanalyze({b} \cup Reclaimed(op), TimerRank)
    /\ tbe' = [tbe EXCEPT ![b] = NoTbe]
    /\ active' = active - 1
    /\ count' = count - 1
    /\ service' = Occupied
    /\ issue' = Cleared(issue)
    /\ UNCHANGED <<live, queue, awake>>

-----------------------------------------------------------------------------
\* The head of the request port, op = inbox[i].op, once the engine's ports
\* trigger nothing.
HeadVisit(i, op) ==
    /\ awake /\ ~ FinishReady /\ ~ StartReady /\ HeadReady
    /\ i = HeadIndex /\ op = inbox[i].op
    /\ issue' = Cleared(issue)
    /\ UNCHANGED awake

\* L3ReduceWait: stalled on the base of the command that holds the lock.
ReduceWait(i, op) ==
    /\ HeadVisit(i, op) /\ Locked(op) # {}
    /\ inbox' = [inbox EXCEPT ![i].on = Conflict(op)]
    /\ service' = Cleared(service)
    /\ UNCHANGED <<slotVars, engineVars>>

\* L2_Replacement of the coherent line in the first way a claim needs; the
\* request stays at the head.
EvictVictim(i, op) ==
    /\ HeadVisit(i, op) /\ Locked(op) = {} /\ Victims(op) # {}
    /\ live' = live \ {CHOOSE w \in Victims(op) : \A v \in Victims(op) : w <= v}
    /\ service' = Cleared(service)
    /\ UNCHANGED <<claimed, data, engineVars, inbox>>

\* prepareL3SPM: the slots an initializing reduction claims.
ClaimedBy(op) == IF op.kind = "init" THEN Touched(op) ELSE {}
\* l3_reduceCapture and l3_finalizeCapture, with l3_popCommand.
Capture(i, op) ==
    /\ HeadVisit(i, op) /\ Locked(op) = {} /\ Victims(op) = {}
    /\ EntersEngine(op) /\ count < Entries
    /\ claimed' = claimed \cup ClaimedBy(op)
    /\ owners' = [w \in Way |-> IF w \in Touched(op) THEN op.base ELSE owners[w]]
    /\ tbe' = [tbe EXCEPT ![op.base] = [st |-> "queued", op |-> op]]
    /\ queue' = Append(queue, op.base)
    /\ count' = count + 1
    /\ inbox' = Pop(inbox, i)
    /\ service' = Cleared(service)
    /\ UNCHANGED <<live, data, active>>

\* l3_access and l3_release, with jj_popL1RequestQueue; out is the reply's
\* value.  An unclaimed slot reads as zero.
Access(i, op, out) ==
    /\ HeadVisit(i, op) /\ Locked(op) = {} /\ Victims(op) = {}
    /\ ~ EntersEngine(op)
    /\ out = [w \in Touched(op) |-> data[w]]
    /\ CASE op.kind = "load" -> UNCHANGED <<claimed, data>>
         [] op.kind = "store" ->
                /\ claimed' = claimed \cup Touched(op)
                /\ data' = [w \in Way |-> IF w \in Touched(op) THEN <<Id(op)>>
                                          ELSE data[w]]
         [] op.kind = "release" ->
                /\ claimed' = claimed \ Touched(op)
                /\ data' = [w \in Way |-> IF w \in Touched(op) THEN <<>>
                                          ELSE data[w]]
    /\ inbox' = Pop(inbox, i)
    /\ service' = Occupied
    /\ UNCHANGED <<live, engineVars>>

\* No port triggers a transition: the wake-up is used up.
Sleep ==
    /\ awake /\ ~ FinishReady /\ ~ StartReady /\ ~ HeadStep
    /\ awake' = FALSE
    /\ service' = Cleared(service) /\ issue' = Cleared(issue)
    /\ UNCHANGED <<slotVars, engineVars, inbox>>

-----------------------------------------------------------------------------
\* The timers of TimerTable schedule the controller when they expire.
ServiceExpires ==
    /\ service = "busy" /\ service' = "expired" /\ awake' = TRUE
    /\ UNCHANGED <<slotVars, engineVars, inbox, issue>>
IssueExpires ==
    /\ issue = "busy" /\ issue' = "expired" /\ awake' = TRUE
    /\ UNCHANGED <<slotVars, engineVars, inbox, service>>
ReductionExpires(b) ==
    /\ tbe[b].st = "running"
    /\ tbe' = [tbe EXCEPT ![b].st = "expired"]
    /\ awake' = TRUE
    /\ UNCHANGED <<slotVars, owners, queue, count, active, inbox, timerVars>>
\* A request leaves the network.
Arrive(op) ==
    /\ inbox' = Append(inbox, [op |-> op, on |-> Unlocked])
    /\ awake' = TRUE
    /\ UNCHANGED <<slotVars, engineVars, timerVars>>
=============================================================================
