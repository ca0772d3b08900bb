\* One period: every later block can be updated to from every stored state, so that
\* heights are filled in backwards, while relayers lose messages and retry.
CONSTANTS
    canonical = canonical
    forged = forged
    Canonical = canonical
    None = None
    NoBranch = NoBranch
    ClientIds = {c1}
    MaxSlot = 3
    SlotsPerPeriod = 4
    GenesisTime = 1
    GloasSlot = 99
    MaxTime = 6
    MaxHeight = 3
    WeakSubjectivityPeriod = 99
    TrustingPeriods = {5}
    FaultyPeriods = {}
    HostLags = {0}
    CanonicalSlots = {1, 2, 3}
    CanonicalPayloads = {1, 2, 3}
    ForgedSlots = {3}
    ForgedPayloads = {3}
    Omissions = {}
    Branches <- MCBranches
    Blocks <- MCBlocks
    Payloads <- MCPayloads
    CommittedFrom <- MCCommittedFrom
    Params <- MCParams
    Headers <- RelayedHeaders
    Misbehaviours <- RelayedMisbehaviours
SPECIFICATION FairSpec
INVARIANTS
    RetriesRepeat
    NothingIsOutOfReach
PROPERTIES
    CatchesUp
