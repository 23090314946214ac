------------------------------ MODULE SpmSlots ------------------------------
(***************************************************************************)
(* Placement of coherent lines and scratchpad (SPM) slots in the private   *)
(* L1 array: mem/ruby/structures/CacheMemory.cc as the L1 controller       *)
(* drives it.  Every way is usable by coherent data until an SPMCP claims  *)
(* the physical slot its logical set and way decode to; a coherent         *)
(* occupant is then moved to another way of its set or evicted.            *)
(*                                                                         *)
(* L1 never keeps an entry whose permission is NotPresent or Invalid (each *)
(* transition to I deallocates), so a cell is empty, a live coherent line  *)
(* or a scratchpad entry.                                                  *)
(***************************************************************************)
EXTENDS Integers, FiniteSets, FiniteSetsExt

CONSTANTS
    NumSets,          \* m_cache_num_sets
    CoherentAssoc,    \* m_coherent_assoc
    NumSpmWays,       \* m_num_spm_ways, the ways software may claim
    SeparateBacking,  \* m_spm_separate_backing
    SpmSetStride,     \* m_spm_set_stride
    Lines,            \* coherent line addresses
    LineSet,          \* their index bits
    Slots,            \* SPM slot addresses
    SlotSet, SlotWay, \* the logical set and way a slot address encodes
    MaxCopies,        \* bound: SPMCPs in flight per slot
    Empty             \* a null cell

Sets == 0 .. NumSets - 1
\* m_cache_assoc: separate backing appends one way per SPM way.
Assoc == IF SeparateBacking THEN CoherentAssoc + NumSpmWays ELSE CoherentAssoc
Ways == 0 .. Assoc - 1
Tags == Lines \cup Slots
None == -1

\* The checks of CacheMemory::init, and the encoding of slot addresses.
ASSUME GeometryAssumption ==
    /\ NumSets \in Nat /\ NumSets > 1
    /\ \E k \in 1 .. NumSets : NumSets = 2 ^ k
    /\ CoherentAssoc \in Nat /\ CoherentAssoc > 0
    /\ NumSpmWays \in 0 .. CoherentAssoc
    /\ SeparateBacking \in BOOLEAN
    /\ SpmSetStride \in 0 .. NumSets - 1
    /\ SpmSetStride # 0 => ~ SeparateBacking
    /\ MaxCopies \in Nat
ASSUME TagAssumption ==
    /\ Lines \cap Slots = {}
    /\ Empty \notin Lines \cup Slots
    /\ LineSet \in [Lines -> 0 .. NumSets - 1]
    /\ SlotSet \in [Slots -> 0 .. NumSets - 1]
    /\ SlotWay \in [Slots -> 0 .. NumSpmWays - 1]
    /\ \A s, t \in Slots :
          SlotSet[s] = SlotSet[t] /\ SlotWay[s] = SlotWay[t] => s = t

VARIABLES
    cache,     \* m_cache[set][way]
    reserved,  \* m_spm_slot_reserved[set][way]
    tagIndex,  \* m_tag_index: the way of a tag, or None
    tagSets,   \* m_spm_tag_sets: the set of a slot placed with a stride
    copies     \* per slot, SPMCPs past the in-port whose data is awaited

slotsVars == <<cache, reserved, tagIndex, tagSets, copies>>

\* spmPhysicalSet; NumSets is a power of two, so the mask is a remainder.
SpmPhysicalSet(s) == (SlotSet[s] + SlotWay[s] * SpmSetStride) % NumSets
SpmPhysicalWay(s) ==
    IF SeparateBacking THEN SlotWay[s] + CoherentAssoc ELSE SlotWay[s]

AddressToCacheSet(t) ==
    IF t \in Lines THEN LineSet[t]
    ELSE IF SpmSetStride # 0 /\ tagSets[t] # None THEN tagSets[t]
    ELSE SlotSet[t]

IsTagPresent(t) == tagIndex[t] # None

\* Defect: the scan for a way ignores claims that have no entry yet.
OpenWays_IgnoreClaims(set) == {w \in Ways : cache[set][w] = Empty}
\* Ways of a set that allocate, cacheAvail and the migration scan accept.
OpenWays(set) ==
    {w \in Ways : ~ reserved[set][w] /\ cache[set][w] = Empty}

\* Defect: only the ways software may claim are offered for replacement.
Candidates_LowWays(set) ==
    {w \in 0 .. NumSpmWays - 1 :
        ~ reserved[set][w] /\ cache[set][w] \notin Slots}
\* cacheProbe: what the replacement policy may choose from.
Candidates(set) ==
    {w \in Ways : ~ reserved[set][w] /\ cache[set][w] \notin Slots}

CacheAvail(l) ==
    \/ OpenWays(LineSet[l]) # {}
    \/ \E w \in Ways : ~ reserved[LineSet[l]][w] /\ cache[LineSet[l]][w] = l

MigratedIndex_Stale(set, way) == tagIndex
MigratedIndex_Dropped(set, way) ==
    IF cache[set][way] \notin Lines THEN tagIndex
    ELSE [tagIndex EXCEPT ![cache[set][way]] = None]
\* migrateOrClearSPMSlot: a live coherent occupant of the cell moves to the
\* first open way of its set, and the tag index follows it.
MigrateTo(set, way) == Min(OpenWays(set) \ {way})
MigratedCache(set, way) ==
    IF cache[set][way] \notin Lines THEN cache
    ELSE [cache EXCEPT ![set][MigrateTo(set, way)] = cache[set][way],
                       ![set][way] = Empty]
MigratedIndex(set, way) ==
    IF cache[set][way] \notin Lines THEN tagIndex
    ELSE [tagIndex EXCEPT ![cache[set][way]] = MigrateTo(set, way)]

\* prepareSPMSlot: can the slot be claimed without evicting its occupant?
CanPrepare(s) ==
    LET set == SpmPhysicalSet(s)
        way == SpmPhysicalWay(s)
    IN \/ cache[set][way] \notin Lines
       \/ OpenWays(set) \ {way} # {}

-----------------------------------------------------------------------------
SlotsInit ==
    /\ cache = [set \in Sets |-> [way \in Ways |-> Empty]]
    /\ reserved = [set \in Sets |->
                    [way \in Ways |-> SeparateBacking /\ way >= CoherentAssoc]]
    /\ tagIndex = [t \in Tags |-> None]
    /\ tagSets = [s \in Slots |-> None]
    /\ copies = [s \in Slots |-> 0]

\* allocate: a demand miss takes the first open way of the set.
Allocate(l) ==
    LET set == LineSet[l]
        way == Min(OpenWays(set))
    IN /\ ~ IsTagPresent(l)
       /\ OpenWays(set) # {}
       /\ cache' = [cache EXCEPT ![set][way] = l]
       /\ tagIndex' = [tagIndex EXCEPT ![l] = way]
       /\ UNCHANGED <<reserved, tagSets, copies>>

\* deallocate: an eviction or an invalidation removes a line.
Deallocate(l) ==
    /\ IsTagPresent(l)
    /\ cache' = [cache EXCEPT ![LineSet[l]][tagIndex[l]] = Empty]
    /\ tagIndex' = [tagIndex EXCEPT ![l] = None]
    /\ UNCHANGED <<reserved, tagSets, copies>>

\* The L0 in-port on SPMCP_FETCH: the slot is claimed before data is asked for.
Prepare(s) ==
    LET set == SpmPhysicalSet(s)
        way == SpmPhysicalWay(s)
    IN /\ copies[s] < MaxCopies
       /\ CanPrepare(s)
       /\ cache' = MigratedCache(set, way)
       /\ tagIndex' = MigratedIndex(set, way)
       /\ reserved' = [reserved EXCEPT ![set][way] = TRUE]
       /\ copies' = [copies EXCEPT ![s] = @ + 1]
       /\ UNCHANGED tagSets

\* The in-port when prepareSPMSlot fails: the occupant spmSlotVictim names is
\* evicted and the SPMCP stays queued.
EvictSlotVictim(s) ==
    /\ copies[s] < MaxCopies
    /\ ~ CanPrepare(s)
    /\ Deallocate(cache[SpmPhysicalSet(s)][SpmPhysicalWay(s)])

\* allocateSPMSlot, given the array after the in-port's prepareSPMSlot.
AllocateSPMSlot(s) ==
    LET set == SpmPhysicalSet(s)
        way == SpmPhysicalWay(s)
    IN /\ cache' = [MigratedCache(set, way) EXCEPT ![set][way] = s]
       /\ tagIndex' = [MigratedIndex(set, way) EXCEPT ![s] = way]
       /\ tagSets' = IF SpmSetStride # 0 THEN [tagSets EXCEPT ![s] = set]
                                         ELSE tagSets

\* spm_installFromTBE / spm_installFromCache: data arrived.  A slot that is
\* already live is overwritten in place.
Install(s) ==
    /\ copies[s] > 0
    /\ copies' = [copies EXCEPT ![s] = @ - 1]
    /\ UNCHANGED reserved
    /\ \/ IsTagPresent(s) /\ UNCHANGED <<cache, tagIndex, tagSets>>
       \/ ~ IsTagPresent(s) /\ AllocateSPMSlot(s)

\* SPMCP_INSTALL: the in-port prepares and spm_claimSlot allocates at once.
Claim(s) ==
    /\ CanPrepare(s)
    /\ reserved' = [reserved EXCEPT
                      ![SpmPhysicalSet(s)][SpmPhysicalWay(s)] = TRUE]
    /\ UNCHANGED copies
    /\ \/ IsTagPresent(s) /\ UNCHANGED <<cache, tagIndex, tagSets>>
       \/ ~ IsTagPresent(s) /\ AllocateSPMSlot(s)

\* spm_releaseSlot: releaseSPMSlot, then deallocate of the entry.  Software
\* drains its copies into a slot before releasing it.
Release(s) ==
    LET set == AddressToCacheSet(s)
    IN /\ IsTagPresent(s)
       /\ copies[s] = 0
       /\ reserved' = [reserved EXCEPT ![set][tagIndex[s]] = SeparateBacking]
       /\ cache' = [cache EXCEPT ![set][tagIndex[s]] = Empty]
       /\ tagIndex' = [tagIndex EXCEPT ![s] = None]
       /\ tagSets' = [tagSets EXCEPT ![s] = None]
       /\ UNCHANGED copies

SlotsNext ==
    \/ \E l \in Lines : Allocate(l) \/ Deallocate(l)
    \/ \E s \in Slots : \/ Prepare(s) \/ EvictSlotVictim(s) \/ Install(s)
                        \/ Claim(s) \/ Release(s)

SlotsSpec == SlotsInit /\ [][SlotsNext]_slotsVars

-----------------------------------------------------------------------------
\* The cell a tag belongs in: its set is fixed, and a slot's way too.
HomeSet(t) == IF t \in Lines THEN LineSet[t] ELSE SpmPhysicalSet(t)

\* The array, the reservation bits and both maps keep their types.
SlotsTypeOK ==
    /\ cache \in [Sets -> [Ways -> Tags \cup {Empty}]]
    /\ reserved \in [Sets -> [Ways -> BOOLEAN]]
    /\ tagIndex \in [Tags -> Ways \cup {None}]
    /\ tagSets \in [Slots -> Sets \cup {None}]
    /\ copies \in [Slots -> 0 .. MaxCopies]

\* findTagInSet indexes m_cache with m_tag_index without looking at the tag it
\* finds.  Whatever was migrated, claimed or released, the lookup of a present
\* tag lands on that tag's own entry, and an entry in the array is found by its
\* tag, in one place only.
LookupExact ==
    /\ \A t \in Tags : IsTagPresent(t) =>
           cache[AddressToCacheSet(t)][tagIndex[t]] = t
    /\ \A set \in Sets, way \in Ways : cache[set][way] # Empty =>
           /\ set = HomeSet(cache[set][way])
           /\ tagIndex[cache[set][way]] = way

\* A claim made when the SPMCP passes the in-port holds until its data
\* arrives: no coherent allocation or migration gets into the claimed cell in
\* between, so allocateSPMSlot's migration never finds a live occupant that
\* has nowhere to go (the panic of migrateOrClearSPMSlot).
ClaimHeld ==
    \A s \in Slots : copies[s] > 0 =>
        /\ reserved[SpmPhysicalSet(s)][SpmPhysicalWay(s)]
        /\ cache[SpmPhysicalSet(s)][SpmPhysicalWay(s)] \in {Empty, s}

\* cacheProbe's panic_if(candidates.empty()) never fires: a demand miss that
\* finds no room always has a coherent line to replace.
ReplacementExists ==
    \A l \in Lines : ~ IsTagPresent(l) /\ ~ CacheAvail(l) =>
        Candidates(LineSet[l]) # {}

\* A claim withholds capacity from coherent data only where an SPM entry lives
\* or is on its way; every release gives it back.
ReservedIffUsed ==
    \A set \in Sets, way \in 0 .. CoherentAssoc - 1 :
        reserved[set][way] <=>
            \E s \in Slots : /\ SpmPhysicalSet(s) = set
                             /\ SpmPhysicalWay(s) = way
                             /\ IsTagPresent(s) \/ copies[s] > 0

\* A slot's cell is set aside from the claim to the release, and no longer.
ClaimsExact == ClaimHeld /\ ReservedIffUsed

\* What makes the properties above inductive.  Every tag is where its home set
\* says, without asking m_spm_tag_sets; a live slot sits in the cell it
\* decodes to and, with a stride, m_spm_tag_sets remembers that set; a reserved
\* cell holds no coherent line; separate backing is reserved for good.
HomeExact ==
    /\ \A t \in Tags : IsTagPresent(t) => cache[HomeSet(t)][tagIndex[t]] = t
    /\ \A set \in Sets, way \in Ways : cache[set][way] # Empty =>
           /\ set = HomeSet(cache[set][way])
           /\ tagIndex[cache[set][way]] = way
SlotsPlaced ==
    \A s \in Slots :
        IF IsTagPresent(s)
        THEN /\ tagIndex[s] = SpmPhysicalWay(s)
             /\ SpmSetStride # 0 => tagSets[s] = SpmPhysicalSet(s)
        ELSE tagSets[s] = None
ReservedHoldsNoLine ==
    \A set \in Sets, way \in Ways :
        /\ reserved[set][way] => cache[set][way] \notin Lines
        /\ way >= CoherentAssoc => reserved[set][way]
\* CacheMemory's placement discipline as one inductive invariant.
PlacementInv ==
    /\ SlotsTypeOK
    /\ HomeExact
    /\ SlotsPlaced
    /\ ReservedHoldsNoLine
    /\ ReservedIffUsed

\* Making room for a slot never drops a coherent line: whatever an SPM step
\* does, a line leaves the array only when it is evicted or invalidated, and
\* then it is the only tag to leave.
NoSilentLoss ==
    [][\A l \in Lines : IsTagPresent(l) /\ tagIndex'[l] = None =>
          /\ copies' = copies /\ reserved' = reserved
          /\ \A t \in Tags \ {l} : tagIndex'[t] = tagIndex[t]]_slotsVars

\* The separate-backing diagnostic adds SPM-only slots without reducing the
\* coherent capacity: whatever is claimed, every coherent way stays open to
\* coherent lines and none of them is moved or evicted for a slot.
SeparateCapacity ==
    [][SeparateBacking =>
         \A set \in Sets, way \in 0 .. CoherentAssoc - 1 :
            /\ ~ reserved'[set][way] /\ cache'[set][way] \notin Slots
            /\ copies' # copies => cache'[set][way] = cache[set][way]]_slotsVars

\* What the implementation guide says of installation: a live slot is never
\* installed over without a release in between.
NoReinstallOverLive ==
    [][\A s \in Slots : copies'[s] < copies[s] => ~ IsTagPresent(s)]_slotsVars
=============================================================================
