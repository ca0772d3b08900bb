\* A chain across the Gloas fork whose last committee equivocates, behind a
\* relayer that sends damaged messages too.
CONSTANTS
    canonical = canonical
    forged = forged
    Canonical = canonical
    None = None
    Malformed = Malformed
    NoBranch = NoBranch
    ClientIds = {c1}
    MaxSlot = 5
    SlotsPerPeriod = 2
    GenesisTime = 1
    GloasSlot = 4
    MaxTime = 8
    MaxHeight = 3
    WeakSubjectivityPeriod = 99
    TrustingPeriods = {3, 6}
    FaultyPeriods = {3}
    CanonicalSlots = {1, 2, 4, 5}
    CanonicalPayloads = {1, 2, 4, 5}
    ForgedSlots = {3, 5}
    ForgedPayloads = {3, 5}
    NanosPerSecond = 2
    Omissions = {"latest_execution_block_number", "frozen_height", "slot", "timestamp", "current_sync_committee", "next_sync_committee"}
    Branches <- MCBranches
    Blocks <- MCBlocks
    Payloads <- MCPayloads
    CommittedFrom <- MCCommittedFrom
    Params <- MCParams
    Headers <- WireHeaders
    Misbehaviours <- WireMisbehaviours
SPECIFICATION Spec
\* A frozen client answers no call once the bounded clock has stopped.
CHECK_DEADLOCK FALSE
INVARIANTS
    TypeOK
    StoredAnysDecode
    PostStateIsStored
    EvidenceIsOfItsKind
PROPERTIES
    ImplementsClient
