\* An honest relayer among others, on a chain of three periods that crosses the
\* Gloas fork and withholds payloads.
CONSTANTS
    canonical = canonical
    forged = forged
    Canonical = canonical
    None = None
    Malformed = Malformed
    NoBranch = NoBranch
    ClientIds = {c1}
    MaxSlot = 6
    SlotsPerPeriod = 2
    GenesisTime = 1
    GloasSlot = 3
    MaxTime = 10
    MaxHeight = 4
    WeakSubjectivityPeriod = 99
    TrustingPeriods = {4, 99}
    FaultyPeriods = {}
    CanonicalSlots = {1, 2, 3, 4, 5, 6}
    CanonicalPayloads = {1, 2, 4, 5}
    ForgedSlots = {}
    ForgedPayloads = {}
    NanosPerSecond = 2
    Omissions = {}
    Branches <- MCBranches
    Blocks <- MCBlocks
    Payloads <- MCPayloads
    CommittedFrom <- MCCommittedFrom
    Params <- MCParams
    Headers <- FollowedHeaders
    Misbehaviours <- WireMisbehaviours
SPECIFICATION FollowingSpec
\* The bounded clock stops, and a client that has everything takes no more calls.
CHECK_DEADLOCK FALSE
INVARIANTS
    HonestHeadersAreAccepted
PROPERTIES
    FollowsChain
