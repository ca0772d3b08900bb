\* A client created without its storage root.
CONSTANTS
    canonical = canonical
    forged = forged
    Canonical = canonical
    None = None
    NoBranch = NoBranch
    ClientIds = {c1}
    MaxSlot = 6
    SlotsPerPeriod = 2
    GenesisTime = 1
    GloasSlot = 99
    MaxTime = 8
    MaxHeight = 5
    WeakSubjectivityPeriod = 5
    TrustingPeriods = {5}
    FaultyPeriods = {}
    CanonicalSlots = {1, 2, 3, 5, 6}
    CanonicalPayloads = {1, 2, 3, 5, 6}
    ForgedSlots = {2, 3, 4}
    ForgedPayloads = {2, 3, 4}
    Omissions = {"storage_root"}
    Branches <- MCBranches
    Blocks <- MCBlocks
    Payloads <- MCPayloads
    CommittedFrom <- MCCommittedFrom
    Params <- MCParams
    Headers <- MCHeaders
    Misbehaviours <- MCMisbehaviours
SPECIFICATION Spec
INVARIANTS
    StorageRootsAreInitialized
