\* Relayers may lose messages; the last committee equivocates.
CONSTANTS
    canonical = canonical
    forged = forged
    Canonical = canonical
    None = None
    NoBranch = NoBranch
    ClientIds = {c1}
    MaxSlot = 4
    SlotsPerPeriod = 2
    GenesisTime = 1
    GloasSlot = 99
    MaxTime = 6
    MaxHeight = 3
    WeakSubjectivityPeriod = 99
    TrustingPeriods = {4}
    FaultyPeriods = {2}
    HostLags = {0}
    CanonicalSlots = {1, 2, 4}
    CanonicalPayloads = {1, 2, 4}
    ForgedSlots = {4}
    ForgedPayloads = {4}
    Omissions = {}
    Branches <- MCBranches
    Blocks <- MCBlocks
    Payloads <- MCPayloads
    CommittedFrom <- MCCommittedFrom
    Params <- MCParams
    Headers <- RelayedHeaders
    Misbehaviours <- RelayedMisbehaviours
SPECIFICATION FairSpec
\* A frozen client answers no call once the bounded clock has stopped.
CHECK_DEADLOCK FALSE
INVARIANTS
    FreezeCanBeRelayed
PROPERTIES
    FreezeArrives
