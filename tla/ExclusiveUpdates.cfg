\* Two workers; updates of the client exclude each other; the last committee
\* equivocates, in Gloas.
CONSTANTS
    canonical = canonical
    forged = forged
    Canonical = canonical
    None = None
    NoBranch = NoBranch
    ClientIds = {c1}
    Workers = {w1, w2}
    Exclusive = TRUE
    MaxSlot = 4
    SlotsPerPeriod = 2
    GenesisTime = 1
    GloasSlot = 99
    MaxTime = 7
    MaxHeight = 3
    WeakSubjectivityPeriod = 99
    TrustingPeriods = {5}
    FaultyPeriods = {2}
    CanonicalSlots = {1, 2, 4}
    CanonicalPayloads = {1, 2, 4}
    ForgedSlots = {3, 4}
    ForgedPayloads = {3, 4}
    Omissions = {"current_sync_committee"}
    Branches <- MCBranches
    Blocks <- MCBlocks
    Payloads <- MCPayloads
    CommittedFrom <- MCCommittedFrom
    Params <- MCParams
    Headers <- ServedHeaders
    Misbehaviours <- ServedMisbehaviours
SPECIFICATION ServiceSpec
SYMMETRY WorkerSymmetry
INVARIANTS
    ServiceTypeOK
    LatestIsMaxStored
PROPERTIES
    FrozenStoreIsFinal
    FreezeIsAnnounced
