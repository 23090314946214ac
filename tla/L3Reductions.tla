---------------------------- MODULE L3Reductions ----------------------------
(***************************************************************************)
(* Cores that accumulate rows in the shared L3 scratchpad: each core's     *)
(* reduction source, the LLC bank, the unordered networks between them,    *)
(* and programs in three phases with a barrier between them.  In phase 1   *)
(* rows are set up (an initializing reduction or a store), in phase 2 all  *)
(* cores contribute, in phase 3 the rows are finalized or released.  A     *)
(* core may load a row at any time.                                        *)
(***************************************************************************)
EXTENDS ReductionSource, ReductionBank, Functions

CONSTANTS
    Rows,      \* bases of the rows the programs use
    PhaseOps,  \* bound: operations each core issues in each phase
    Mix        \* kinds of operation each core's program uses

\* Rows fit the set and are different accumulators.
ASSUME ProgramAssumption ==
    /\ \A r \in Rows : r \in Way /\ r + RowWays <= Ways
    /\ \A r, s \in Rows : r # s => ~ Overlap(r, RowWays, s, RowWays)
    /\ Mix \in [Cores -> SUBSET Kinds]

VARIABLES
    toBank,   \* requests in the network (L1 forwards them as they are)
    replies,  \* L3_SPM_REPLYs in the network: [op, value]
    phase,    \* phase of the program
    arrived,  \* cores that passed their barrier in this phase
    issued    \* history: every operation a Sequencer accepted, with its phase

netVars == <<toBank, replies>>
cpuVars == <<phase, arrived, issued>>
vars == <<sourceVars, bankVars, netVars, cpuVars>>

Init ==
    /\ SourceInit /\ BankInit
    /\ toBank = {} /\ replies = {}
    /\ phase = 1 /\ arrived = {} /\ issued = {}

-----------------------------------------------------------------------------
\* The programs.  A row is set up by one operation, and each half of a row
\* that was set up is finalized, or its slots released, by one operation.
Of(c) == {e \in issued : e.op.core = c}
Here(kinds, b) == {e \in issued : e.op.kind \in kinds /\ e.op.base = b}
Setup == {"init", "store"}
Reclaim == {"finalize", "release"}
Halves(b) == {b + FinalWays * i : i \in 0 .. (RowWays \div FinalWays) - 1}
RowOf(b) == CHOOSE r \in Rows : b \in Slots(r, RowWays)
Legal(op) ==
    CASE op.kind \in Setup ->
            phase = 1 /\ op.base \in Rows /\ Here(Setup, op.base) = {}
      [] op.kind = "reduce" ->
            phase = 2 /\ op.base \in Rows /\ Here(Setup, op.base) # {}
      [] op.kind \in Reclaim ->
            /\ phase = 3
            /\ \E r \in Rows : op.base \in Halves(r) /\ Here(Setup, r) # {}
            /\ Here(Reclaim, op.base) = {}
      [] op.kind = "load" -> op.base \in Rows
\* The LSQ and the request table order overlapping shared accesses of a core.
Ordered(op) ==
    op.kind \notin Reductions =>
        \A r \in table[op.core] : ~ Overlap(op.base, Size(op), r.base, Size(r))

Asked ==
    UNION {{Op(c, n, k, b) : n \in 1 .. MaxOps, k \in Mix[c], b \in Way} : c \in Cores}
Issue(op) ==
    /\ op.core \notin arrived
    /\ op.n = Cardinality(Of(op.core)) + 1 /\ op.n <= MaxOps
    /\ Cardinality({e \in Of(op.core) : e.phase = phase}) < PhaseOps[op.core][phase]
    /\ Legal(op) /\ Ordered(op)
    /\ \/ AcceptReduction(op) /\ UNCHANGED toBank
       \/ AcceptAccess(op) /\ toBank' = toBank \cup {op}
    /\ issued' = issued \cup {[op |-> op, phase |-> phase]}
    /\ UNCHANGED <<bankVars, replies, phase, arrived>>

\* A barrier completes once LSQ::hasStoresToWB is false; the cores then
\* synchronize.
Barrier(c) ==
    /\ phase < 3 /\ c \notin arrived /\ ~ Busy(c)
    /\ arrived' = arrived \cup {c}
    /\ UNCHANGED <<sourceVars, bankVars, netVars, phase, issued>>
NextPhase ==
    /\ arrived = Cores
    /\ phase' = phase + 1 /\ arrived' = {}
    /\ UNCHANGED <<sourceVars, bankVars, netVars, issued>>

-----------------------------------------------------------------------------
Service(c) ==
    \E sent \in SUBSET {f.op : f \in Issuable(Admit(c))} :
        /\ ServiceSource(c, sent)
        /\ toBank' = toBank \cup sent
        /\ UNCHANGED <<bankVars, replies, cpuVars>>

Deliver(op) ==
    /\ Arrive(op)
    /\ toBank' = toBank \ {op}
    /\ UNCHANGED <<sourceVars, replies, cpuVars>>

Complete(r) ==
    /\ IF r.op.kind \in Reductions THEN CompleteReduction(r.op)
       ELSE CompleteAccess(r.op)
    /\ replies' = replies \ {r}
    /\ UNCHANGED <<bankVars, toBank, cpuVars>>

Answers(op, out) ==
    replies' = replies \cup {[op |-> op, value |-> out]}

FinishStep(b) ==
    /\ b \in Done
    /\ Finish(b, tbe[b].result) /\ Answers(tbe[b].op, tbe[b].result)
HeadStepOf(i, op) ==
    \/ ReduceWait(i, op) /\ UNCHANGED replies
    \/ EvictVictim(i, op) /\ UNCHANGED replies
    \/ Capture(i, op) /\ UNCHANGED replies
    \/ LET out == [w \in Touched(op) |-> data[w]]
       IN  Access(i, op, out) /\ Answers(op, out)
BankRuns ==
    /\ \/ \E b \in Way : FinishStep(b)
       \/ ReduceStart /\ UNCHANGED replies
       \/ Waiting # {} /\ HeadStepOf(HeadIndex, inbox[HeadIndex].op)
       \/ Sleep /\ UNCHANGED replies
    /\ UNCHANGED <<sourceVars, toBank, cpuVars>>
TimerExpires ==
    /\ ServiceExpires \/ IssueExpires \/ \E b \in Way : ReductionExpires(b)
    /\ UNCHANGED <<sourceVars, netVars, cpuVars>>

Next ==
    \/ \E op \in Asked : Issue(op)
    \/ \E c \in Cores : Barrier(c) \/ Service(c)
    \/ NextPhase
    \/ \E op \in toBank : Deliver(op)
    \/ \E r \in replies : Complete(r)
    \/ BankRuns
    \/ TimerExpires
Spec == Init /\ [][Next]_vars

-----------------------------------------------------------------------------
Timer == {"free", "busy", "expired"}
Ops == {Op(c, n, k, b) : c \in Cores, n \in 1 .. MaxOps, k \in Kinds, b \in Way}
\* Type correctness of the Sequencer's and the bank's state.
TypeOK ==
    /\ source \in [Cores -> Seq(Ops)]
    /\ \A c \in Cores : Len(source[c]) <= SourceCap
    /\ flight \in [Cores -> SUBSET [op : Ops, issued : BOOLEAN]]
    /\ \A c \in Cores : Cardinality(flight[c]) <= FlightCap
    /\ pending \in [Cores -> [Way -> Nat]] /\ credit \in [Cores -> Nat]
    /\ table \in [Cores -> SUBSET Ops]
    /\ claimed \subseteq Way /\ live \subseteq Way
    /\ data \in [Way -> Seq(Ids)] /\ owners \in [Way -> Way \cup {Unlocked}]
    /\ queue \in Seq(Way) /\ count \in 0 .. Entries /\ active \in 0 .. count
    /\ inbox \in Seq([op : Ops, on : Way \cup {Unlocked}])
    /\ service \in Timer /\ issue \in Timer /\ awake \in BOOLEAN

Captured == {b \in Way : tbe[b].st # "none"}
Started == {b \in Way : tbe[b].st \in {"running", "expired"}}
\* The finite command buffer is accounted for: a slot is locked exactly by
\* the captured command whose destination it is, l3ReductionCount counts the
\* captured commands, l3ReductionActive the started ones, and the queue
\* holds each other one once.
LocksExact ==
    /\ \A w \in Way, b \in Way :
        owners[w] = b <=> b \in Captured /\ w \in Touched(tbe[b].op)
    /\ count = Cardinality(Captured) /\ active = Cardinality(Started)
    /\ Range(queue) = Captured \ Started /\ IsInjective(queue)
\* l3ReductionReserve's panic, and the X state every engine transition needs:
\* a command's destination stays claimed from capture to completion.
LockedClaimed == \A w \in Way : owners[w] # Unlocked => w \in claimed
\* A command owns its destination, and alone, for as long as it is captured.
Exclusive == LocksExact /\ LockedClaimed
\* No lost update: what a started command will install is still one step
\* from what the array holds, though the result was computed at the start.
UpdateCurrent == \A b \in Started : tbe[b].result = Result(tbe[b].op)

\* Contributions of a core are folded into a slot in program order, though
\* neither the network nor the bank orders its requests.
OwnOrder ==
    \A w \in Way : \A i, j \in DOMAIN data[w] :
        i < j /\ data[w][i][1] = data[w][j][1] => data[w][i][2] < data[w][j][2]
\* What a finalization returns contains what set the row up and every
\* contribution any core made before the barrier, each once: the posted
\* reductions' early answer is covered by the credit the barrier waits for.
FoldedInto(b) ==
    {Id(e.op) : e \in {x \in issued : /\ x.op.base = RowOf(b)
                                       /\ x.op.kind \in Setup \cup {"reduce"}}}
FinalExact ==
    \A r \in replies : r.op.kind = "finalize" =>
        \A w \in Touched(r.op) :
            Range(r.value[w]) = FoldedInto(r.op.base) /\ IsInjective(r.value[w])
\* A load sees every contribution its own core made to the row before it.
ReadsOwn ==
    \A r \in replies : r.op.kind = "load" =>
        \A e \in issued :
            /\ e.op.core = r.op.core /\ e.op.n < r.op.n
            /\ e.op.kind \in Setup \cup {"reduce"} /\ e.op.base = r.op.base
            /\ [op |-> r.op, phase |-> 3] \notin issued
            => \A w \in Touched(r.op) : Id(e.op) \in Range(r.value[w])
\* Contributions are neither lost, doubled nor reordered, as seen in the
\* slots, by the core that made them and by what finalizes the row.
FoldsExact == OwnOrder /\ FinalExact /\ ReadsOwn

\* The bank never sleeps on work it can see: asleep with no timer to wake it,
\* it has no command left and every request it still holds is stalled.
BankWakes ==
    /\ ~ awake /\ service # "busy" /\ issue # "busy"
    /\ \A b \in Way : tbe[b].st # "running"
    => Captured = {} /\ queue = <<>> /\ Waiting = {}
\* "the controller is responsible to call reanalyzeMessages when these
\* addresses change state" (stallMessage): a request is stalled only while
\* the command it waits for is captured.
StallsEnd == \A i \in DOMAIN inbox : inbox[i].on \in Captured \cup {Unlocked}

\* The read at the start, the arithmetic and the write at the end are one
\* step of an accumulator.
Acc == INSTANCE Accumulator WITH held <- claimed, value <- data
Atomic == Acc!Spec

-----------------------------------------------------------------------------
\* The networks deliver, timers expire, the controller runs when woken and
\* the Sequencer's reduction event is rescheduled while it has work; a
\* request that makeRequest refuses is accepted in the end.
Fairness ==
    /\ WF_vars(BankRuns)
    /\ WF_vars(ServiceExpires /\ UNCHANGED <<sourceVars, netVars, cpuVars>>)
    /\ WF_vars(IssueExpires /\ UNCHANGED <<sourceVars, netVars, cpuVars>>)
    /\ \A b \in Way :
        WF_vars(ReductionExpires(b) /\ UNCHANGED <<sourceVars, netVars, cpuVars>>)
    /\ \A c \in Cores :
        /\ WF_vars(\E op \in toBank : op.core = c /\ Deliver(op))
        /\ WF_vars(\E r \in replies : r.op.core = c /\ Complete(r))
        /\ WF_vars(/\ Service(c)
                   /\ Moves(c) \/ \E f \in flight'[c] : f.issued /\ f \notin flight[c])
FairSpec == Spec /\ Fairness
\* Every posted reduction and every access completes, so every barrier does,
\* unless a request of that core met a lock and was stalled: nothing else
\* waits for ever behind full entries, the service port or other cores.
Stalled(c) == \E i \in DOMAIN inbox : inbox[i].on # Unlocked /\ inbox[i].op.core = c
Drains == \A c \in Cores : Busy(c) ~> ~ Busy(c) \/ Stalled(c)
=============================================================================
