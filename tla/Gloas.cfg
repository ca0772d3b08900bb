\* The chain crosses the Gloas fork and withholds payloads after it.
CONSTANTS
    canonical = canonical
    forged = forged
    Canonical = canonical
    None = None
    NoBranch = NoBranch
    ClientIds = {c1}
    MaxSlot = 6
    SlotsPerPeriod = 3
    GenesisTime = 1
    GloasSlot = 3
    MaxTime = 12
    MaxHeight = 5
    WeakSubjectivityPeriod = 5
    TrustingPeriods = {5}
    FaultyPeriods = {}
    CanonicalSlots = {1, 2, 3, 4, 5, 6}
    CanonicalPayloads = {1, 2, 4}
    ForgedSlots = {3, 4}
    ForgedPayloads = {3, 4}
    Omissions = {"latest_execution_block_number", "frozen_height", "slot", "timestamp", "current_sync_committee", "next_sync_committee"}
    Branches <- MCBranches
    Blocks <- MCBlocks
    Payloads <- MCPayloads
    CommittedFrom <- MCCommittedFrom
    Params <- MCParams
    Headers <- MCHeaders
    Misbehaviours <- MCMisbehaviours
SPECIFICATION Spec
INVARIANTS
    TrustedStates
    UpdatesGoForward
PROPERTIES
    KeepsPromise
