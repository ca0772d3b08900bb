\* The committee of period 3 equivocates; Gloas begins with the second slot.
CONSTANTS
    canonical = canonical
    forged = forged
    Canonical = canonical
    None = None
    NoBranch = NoBranch
    ClientIds = {c1, c2}
    MaxSlot = 6
    SlotsPerPeriod = 2
    GenesisTime = 1
    GloasSlot = 2
    MaxTime = 8
    MaxHeight = 3
    WeakSubjectivityPeriod = 99
    TrustingPeriods = {6}
    FaultyPeriods = {3}
    CanonicalSlots = {1, 2, 4, 6}
    CanonicalPayloads = {1, 2, 4, 6}
    ForgedSlots = {3, 6}
    ForgedPayloads = {6}
    Omissions = {"latest_execution_block_number", "frozen_height", "slot", "timestamp", "current_sync_committee", "next_sync_committee"}
    Branches <- MCBranches
    Blocks <- MCBlocks
    Payloads <- MCPayloads
    CommittedFrom <- MCCommittedFrom
    Params <- MCParams
    Headers <- MCHeaders
    Misbehaviours <- MCMisbehaviours
SPECIFICATION Spec
\* Two frozen clients answer no call once the bounded clock has stopped.
CHECK_DEADLOCK FALSE
INVARIANTS
    TrustedStates
    NoFalseFreeze
    NoStateAtHeightZero
PROPERTIES
    FrozenIsFinal
