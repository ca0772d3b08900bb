\* The host's clock is right or stands still while every key leaks, and the chain
\* crosses the Gloas fork, so that a height is rewritten.
CONSTANTS
    canonical = canonical
    forged = forged
    Canonical = canonical
    None = None
    NoBranch = NoBranch
    ClientIds = {c1}
    MaxSlot = 3
    SlotsPerPeriod = 2
    GenesisTime = 1
    GloasSlot = 3
    MaxTime = 7
    MaxHeight = 2
    WeakSubjectivityPeriod = 3
    TrustingPeriods = {3}
    FaultyPeriods = {}
    HostLags = {0, 2, 3}
    CanonicalSlots = {1, 2, 3}
    CanonicalPayloads = {1, 2, 3}
    ForgedSlots = {1, 2, 3}
    ForgedPayloads = {1, 2, 3}
    Omissions = {"current_sync_committee", "next_sync_committee"}
    Branches <- MCBranches
    Blocks <- MCBlocks
    Payloads <- MCPayloads
    CommittedFrom <- RelayedCommittedFrom
    Params <- MCParams
    Headers <- RelayedHeaders
    Misbehaviours <- RelayedMisbehaviours
SPECIFICATION RelaySpec
\* A client frozen on evidence that leaked keys made up makes no more messages.
CHECK_DEADLOCK FALSE
INVARIANTS
    RelayTypeOK
    ReceiverTrust
    ReceiverFreezesOnEvidence
    ProofsReflectChain
    MessagesFitTogether
    StateIdsAgree
PROPERTIES
    ReceiverKeepsPromise
