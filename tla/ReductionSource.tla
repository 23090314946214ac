-------------------------- MODULE ReductionSource ---------------------------
(***************************************************************************)
(* The Sequencer's side of shared L3 scratchpad accesses and posted        *)
(* reductions: acceptance, the finite source queue, the in-flight records, *)
(* the per-slot hazard counts and the credit that barriers wait for.       *)
(***************************************************************************)
EXTENDS L3Geometry

CONSTANTS
    SourceCap,  \* cacheflex_reduction_source_entries
    FlightCap   \* cacheflex_reduction_sink_entries

ASSUME SourceAssumption == SourceCap \in Nat /\ FlightCap \in Nat

VARIABLES
    source,   \* reductionSource: per core, captured commands in order
    flight,   \* l3ReductionFlight: per core, records [op, issued]
    pending,  \* reductionPending: per core and slot, commands not installed
    credit,   \* cfReduction::pending: per core, what a barrier waits for
    table     \* m_RequestTable: per core, shared accesses not answered

sourceVars == <<source, flight, pending, credit, table>>

SourceInit ==
    /\ source = [c \in Cores |-> <<>>]
    /\ flight = [c \in Cores |-> {}]
    /\ pending = [c \in Cores |-> [w \in Way |-> 0]]
    /\ credit = [c \in Cores |-> 0]
    /\ table = [c \in Cores |-> {}]

\* An access has to wait for a captured reduction of one of its slots.
ReductionConflicts(op) ==
    \E w \in Way :
        pending[op.core][w] > 0 /\ Overlap(op.base, Size(op), w, 1)
\* A reduction has to wait for an older access to its row.
ReductionOlderAccess(op) ==
    \E r \in table[op.core] : Overlap(op.base, RowWays, r.base, Size(r))
Charge(count, op, d) ==
    [count EXCEPT ![op.core] =
        [w \in Way |-> IF w \in Slots(op.base, RowWays) THEN @[w] + d ELSE @[w]]]

\* The packet is captured; refused ones are offered again by the CPU.
AcceptReduction(op) ==
    /\ op.kind \in Reductions
    /\ Len(source[op.core]) < SourceCap
    /\ ~ ReductionOlderAccess(op)
    /\ pending' = Charge(pending, op, 1)
    /\ credit' = [credit EXCEPT ![op.core] = @ + 1]
    /\ source' = [source EXCEPT ![op.core] = Append(@, op)]
    /\ UNCHANGED <<flight, table>>

\* makeRequest for any other shared access.
AcceptAccess(op) ==
    /\ op.kind \notin Reductions
    /\ ~ ReductionConflicts(op)
    /\ table' = [table EXCEPT ![op.core] = @ \cup {op}]
    /\ UNCHANGED <<source, flight, pending, credit>>

\* serviceL3Reduction: the oldest captured command gets an in-flight record
\* when there is room, then the oldest record that is not issued is sent,
\* unless an older issued one overlaps it or makeRequest refuses it.
Moves(c) == source[c] # <<>> /\ Cardinality(flight[c]) < FlightCap
Admit(c) ==
    IF Moves(c) THEN flight[c] \cup {[op |-> Head(source[c]), issued |-> FALSE]}
    ELSE flight[c]
Oldest(F) ==
    {f \in F : ~ f.issued /\ \A g \in F : ~ g.issued => f.op.n <= g.op.n}
OlderOverlaps(f, F) ==
    \E g \in F : /\ g.issued /\ g.op.n < f.op.n
                 /\ Overlap(f.op.base, RowWays, g.op.base, RowWays)
Issuable(F) == {f \in Oldest(F) : ~ OlderOverlaps(f, F)}
\* The source's part of the handler; sent is the set of commands issued.
ServiceSource(c, sent) ==
    /\ source[c] # <<>> \/ flight[c] # {}
    /\ LET F == Admit(c)
           send == {f \in Issuable(F) : f.op \in sent}
       IN  /\ sent \subseteq {f.op : f \in Issuable(F)}
           /\ flight' = [flight EXCEPT ![c] =
                (F \ send) \cup {[f EXCEPT !.issued = TRUE] : f \in send}]
    /\ source' = [source EXCEPT ![c] = IF Moves(c) THEN Tail(@) ELSE @]
    /\ UNCHANGED <<pending, credit, table>>

\* The bank's answer to a reduction: completeL3Reduction.
CompleteReduction(op) ==
    /\ flight' = [flight EXCEPT ![op.core] = {f \in @ : f.op # op}]
    /\ pending' = Charge(pending, op, -1)
    /\ credit' = [credit EXCEPT ![op.core] = @ - 1]
    /\ UNCHANGED <<source, table>>
\* The bank's answer to any other access: the request record is removed.
CompleteAccess(op) ==
    /\ table' = [table EXCEPT ![op.core] = @ \ {op}]
    /\ UNCHANGED <<source, flight, pending, credit>>

\* Defect: the early answer to a posted reduction frees the barrier.
Busy_NoCredit(c) == table[c] # {}
\* LSQ::hasStoresToWB: what a barrier of core c waits for.
Busy(c) == credit[c] # 0 \/ table[c] # {}
=============================================================================
