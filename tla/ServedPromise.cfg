\* Two workers across the Gloas fork; updates of the client exclude each other.
CONSTANTS
    canonical = canonical
    forged = forged
    Canonical = canonical
    None = None
    NoBranch = NoBranch
    ClientIds = {c1}
    Workers = {w1, w2}
    Exclusive = TRUE
    MaxSlot = 4
    SlotsPerPeriod = 2
    GenesisTime = 1
    GloasSlot = 4
    MaxTime = 7
    MaxHeight = 3
    WeakSubjectivityPeriod = 4
    TrustingPeriods = {4}
    FaultyPeriods = {}
    CanonicalSlots = {1, 2, 3, 4}
    CanonicalPayloads = {1, 2, 3}
    ForgedSlots = {3, 4}
    ForgedPayloads = {3}
    Omissions = {}
    Branches <- MCBranches
    Blocks <- MCBlocks
    Payloads <- MCPayloads
    CommittedFrom <- MCCommittedFrom
    Params <- MCParams
    Headers <- ServedHeaders
    Misbehaviours <- ServedMisbehaviours
SPECIFICATION ServiceSpec
SYMMETRY WorkerSymmetry
PROPERTIES
    KeepsPromise
