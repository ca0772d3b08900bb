\* Two workers whose calls overlap freely, across the Gloas fork, while keys leak.
CONSTANTS
    canonical = canonical
    forged = forged
    Canonical = canonical
    None = None
    NoBranch = NoBranch
    ClientIds = {c1}
    Workers = {w1, w2}
    Exclusive = FALSE
    MaxSlot = 4
    SlotsPerPeriod = 2
    GenesisTime = 1
    GloasSlot = 4
    MaxTime = 8
    MaxHeight = 2
    WeakSubjectivityPeriod = 3
    TrustingPeriods = {3}
    FaultyPeriods = {}
    CanonicalSlots = {2, 3, 4}
    CanonicalPayloads = {2, 3}
    ForgedSlots = {3}
    ForgedPayloads = {3}
    Omissions = {}
    Branches <- MCBranches
    Blocks <- MCBlocks
    Payloads <- MCPayloads
    CommittedFrom <- MCCommittedFrom
    Params <- MCParams
    Headers <- ServedHeaders
    Misbehaviours <- ServedMisbehaviours
SPECIFICATION ServiceSpec
SYMMETRY WorkerSymmetry
INVARIANTS
    TrustedStates
    MembershipReflectsChain
PROPERTIES
    RootsAreFinal
