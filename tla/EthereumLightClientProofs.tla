--------------------- MODULE EthereumLightClientProofs ---------------------
(***************************************************************************)
(* Theorems about EthereumLightClient, for every chain, every set of       *)
(* submitted messages and any number of clients.                           *)
(***************************************************************************)
EXTENDS EthereumLightClient, ClientCallsLemmas

-----------------------------------------------------------------------------
(* Type correctness *)

\* Storing a state under a height keeps the store well formed.
LEMMA StoreType ==
    ASSUME TypeOK, NEW c \in ClientIds, NEW height \in Nat, NEW cs \in ConsensusState,
           StoreConsensusState(c, height, cs)
    PROVE  /\ DOMAIN consensus_states' = ClientIds
           /\ \A d \in ClientIds :
                /\ consensus_states'[d] \in [DOMAIN consensus_states'[d] -> ConsensusState]
                /\ DOMAIN consensus_states'[d] \subseteq Nat
BY DEF TypeOK, StoreConsensusState

\* What a call finds in the store, and the context it puts in its message.
LEMMA StoredStatesType ==
    ASSUME TypeOK, NEW c \in ClientIds, NEW height, IsStored(c, height)
    PROVE  /\ client_states[c] \in ClientState
           /\ height \in Nat
           /\ consensus_states[c][height] \in ConsensusState
BY DEF TypeOK, IsStored

\* No step leaves the types.
LEMMA TypeInductive ==
    ASSUME TypeOK, [Next]_vars
    PROVE  TypeOK'
<1>1. ASSUME NEW c \in ClientIds, NEW params \in Params,
             NEW block \in CanonicalBlocks, NEW fault,
             CreateClient(c, params, block, fault)
      PROVE  TypeOK'
  <2> DEFINE cs == CreatedClientState(params, block, fault)
             consensus_state == CreatedConsensusState(block, fault)
             height == cs.latest_execution_block_number
  <2>1. /\ cs \in ClientState
        /\ consensus_state \in ConsensusState
        /\ height \in Nat
    BY <1>1, CreatedStatesType DEF CreateClient
  <2>2. CreateClientMessage(c, cs, consensus_state, cs) \in UpdateStateProxyMessage
    BY <2>1, CreateClientMessageType
  <2> HIDE DEF cs, consensus_state
  <2>3. client_states' \in [ClientIds -> ClientState \cup {None}]
    BY <1>1, <2>1 DEF CreateClient, TypeOK, cs
  <2>4. StoreConsensusState(c, height, consensus_state)
    BY <1>1 DEF CreateClient, cs, consensus_state
  <2>5. message' \in UpdateStateProxyMessage
    BY <1>1, <2>2 DEF CreateClient, cs, consensus_state
  <2> QED
    BY <1>1, <2>1, <2>3, <2>4, <2>5, StoreType DEF CreateClient, TypeOK
<1>2. ASSUME NEW c \in ClientIds, NEW header \in Headers, UpdateState(c, header)
      PROVE  TypeOK'
  <2> DEFINE height          == header.execution.block_number
             trusted_height  == header.trusted.height
             cs              == client_states[c]
             consensus_state == consensus_states[c][trusted_height]
             new_cs          == new_client_state(cs, header)
             new_state       == new_consensus_state(consensus_state, header)
  <2>1. /\ cs \in ClientState /\ consensus_state \in ConsensusState
        /\ trusted_height \in Nat
    BY <1>2, StoredStatesType DEF UpdateState
  <2>2. new_state \in ConsensusState /\ height \in Nat
    BY <1>2, <2>1, NewConsensusStateType, InputAssumption DEF UpdateState, TypeOK
  <2>3. /\ new_cs \in ClientState
        /\ UpdateStateMessage(c, cs, consensus_state, header) \in UpdateStateProxyMessage
    BY <1>2, <2>1, UpdateStateMessageType, InputAssumption DEF UpdateState, TypeOK
  <2> HIDE DEF new_cs, new_state
  <2>4. message' \in UpdateStateProxyMessage
    BY <1>2, <2>3 DEF UpdateState
  <2>5. client_states' \in [ClientIds -> ClientState \cup {None}]
    BY <1>2, <2>3 DEF UpdateState, TypeOK, new_cs
  <2>6. StoreConsensusState(c, height, new_state)
    BY <1>2 DEF UpdateState, new_state
  <2> QED
    BY <1>2, <2>2, <2>4, <2>5, <2>6, StoreType DEF UpdateState, TypeOK
<1>3. ASSUME NEW c \in ClientIds, NEW misbehaviour \in Misbehaviours,
             SubmitMisbehaviour(c, misbehaviour)
      PROVE  TypeOK'
  <2> DEFINE h  == misbehaviour.trusted.height
             cs == client_states[c]
  <2>1. /\ cs \in ClientState /\ h \in Nat
        /\ consensus_states[c][h] \in ConsensusState
    BY <1>3, StoredStatesType DEF SubmitMisbehaviour
  <2>2. misbehaviour \in Misbehaviour
    BY InputAssumption
  <2>3. make_prev_states(c, cs, {h}) \in SUBSET (Nat \X StateId)
    BY <2>1, StateIdType DEF make_prev_states
  <2>4. message' \in MisbehaviourProxyMessage
    BY <1>3, <2>1, <2>2, <2>3, MisbehaviourMessageType DEF SubmitMisbehaviour
  <2>5. client_states' \in [ClientIds -> ClientState \cup {None}]
    BY <1>3, <2>1 DEF SubmitMisbehaviour, with_frozen_height, ClientState, TypeOK
  <2> QED
    BY <1>3, <2>4, <2>5 DEF SubmitMisbehaviour, TypeOK
<1>4. ASSUME NEW c \in ClientIds, NEW height,
             VerifyMembership(c, height) \/ VerifyNonMembership(c, height)
      PROVE  TypeOK'
  <2>1. message' \in VerifyMembershipProxyMessage
    BY <1>4, StoredStatesType, MembershipMessageType
       DEF VerifyMembership, VerifyNonMembership
  <2> QED
    BY <1>4, <2>1 DEF VerifyMembership, VerifyNonMembership, TypeOK, store
<1>5. CASE Tick
  BY <1>5 DEF Tick, TypeOK, store
<1>6. ASSUME NEW period \in CommitteePeriods, CorruptCommittee(period)
      PROVE  TypeOK'
  BY <1>6, PeriodType, SlotAssumption
     DEF CorruptCommittee, CommitteePeriods, TypeOK, store
<1>7. CASE UNCHANGED vars
  BY <1>7 DEF vars, TypeOK
<1> QED
  BY <1>1, <1>2, <1>3, <1>4, <1>5, <1>6, <1>7 DEF Next, Call

\* Every state is well typed: see TypeOK.
THEOREM TypeCorrect == Spec => []TypeOK
<1>1. Init => TypeOK
  BY SlotAssumption DEF Init, TypeOK
<1>2. TypeOK /\ [Next]_vars => TypeOK'
  BY TypeInductive
<1> QED
  BY <1>1, <1>2, PTL DEF Spec

-----------------------------------------------------------------------------
(* Trust *)

\* The strengthening that makes TrustedStates inductive: the keys that are in
\* other hands are those the weak subjectivity assumption allows to be.
CorruptionIsAllowed == \A p \in corrupt : MayBeCorrupted(p, now)

\* Together with type correctness and the bound on corruption, trust in every
\* stored state and the ground of every freeze carry each other through a step:
\* an update or a misbehaviour is only as good as the state it starts from.
Trust ==
    /\ TypeOK
    /\ CorruptionIsAllowed
    /\ TrustedStates
    /\ NoFalseFreeze

\* The states of the other heights and clients are left as they were.
LEMMA StoreEffect ==
    ASSUME TypeOK, NEW c \in ClientIds, NEW height, NEW cs,
           StoreConsensusState(c, height, cs)
    PROVE  /\ DOMAIN consensus_states'[c] = DOMAIN consensus_states[c] \cup {height}
           /\ \A h \in DOMAIN consensus_states[c] \cup {height} :
                consensus_states'[c][h] =
                  IF h = height THEN cs ELSE consensus_states[c][h]
           /\ \A d \in ClientIds \ {c} : consensus_states'[d] = consensus_states[d]
BY DEF StoreConsensusState, TypeOK

\* A step of the environment, or one that leaves the store alone, keeps Trust.
LEMMA TrustKeptWithoutStore ==
    ASSUME Trust, TypeOK', CorruptionIsAllowed', UNCHANGED store
    PROVE  Trust'
BY DEF Trust, TrustedStates, NoFalseFreeze, store, IsCanonicalState, IsBlamed,
       current_period

\* No step lets keys leak before they may.
LEMMA CorruptionStaysAllowed ==
    ASSUME TypeOK, CorruptionIsAllowed, [Next]_vars
    PROVE  CorruptionIsAllowed'
<1>1. CASE UNCHANGED <<now, corrupt>>
  BY <1>1 DEF CorruptionIsAllowed, MayBeCorrupted
<1>2. CASE Tick
  <2>1. \A slot \in Slots : compute_timestamp_at_slot(slot) \in Nat
    BY SlotAssumption DEF Slots, compute_timestamp_at_slot
  <2> QED
    BY <1>2, <2>1, SlotAssumption DEF Tick, CorruptionIsAllowed, MayBeCorrupted, TypeOK
<1>3. ASSUME NEW period \in CommitteePeriods, CorruptCommittee(period)
      PROVE  CorruptionIsAllowed'
  BY <1>3 DEF CorruptCommittee, CorruptionIsAllowed, MayBeCorrupted
<1>4. \/ UNCHANGED <<now, corrupt>>
      \/ Tick
      \/ \E period \in CommitteePeriods : CorruptCommittee(period)
  <2>1. CASE UNCHANGED vars
    BY <2>1 DEF vars
  <2>2. ASSUME NEW c \in ClientIds, NEW params \in Params, NEW block \in CanonicalBlocks,
               NEW fault \in Omissions \cup {"nothing"},
               CreateClient(c, params, block, fault)
        PROVE  UNCHANGED <<now, corrupt>>
    BY <2>2 DEF CreateClient
  <2>3. ASSUME NEW c \in ClientIds, NEW header \in Headers, UpdateState(c, header)
        PROVE  UNCHANGED <<now, corrupt>>
    BY <2>3 DEF UpdateState
  <2>4. ASSUME NEW c \in ClientIds, NEW misbehaviour \in Misbehaviours,
               SubmitMisbehaviour(c, misbehaviour)
        PROVE  UNCHANGED <<now, corrupt>>
    BY <2>4 DEF SubmitMisbehaviour
  <2>5. ASSUME NEW c \in ClientIds, NEW height,
               VerifyMembership(c, height) \/ VerifyNonMembership(c, height)
        PROVE  UNCHANGED <<now, corrupt>>
    BY <2>5 DEF VerifyMembership, VerifyNonMembership
  <2> QED
    BY <2>1, <2>2, <2>3, <2>4, <2>5 DEF Next, Call
<1> QED
  BY <1>1, <1>2, <1>3, <1>4

\* A trustworthy state may be stored.
LEMMA TrustworthyStateStored ==
    ASSUME TypeOK, TrustedStates, NEW c \in ClientIds, NEW height, NEW cs,
           IsTrustworthy(height, cs), StoreConsensusState(c, height, cs)
    PROVE  TrustedStates'
BY StoreEffect DEF TrustedStates, IsTrustworthy, IsCanonicalState, IsBlamed, current_period

THEOREM TrustInductive ==
    ASSUME "storage_root" \notin Omissions, Trust, TypeOK', [Next]_vars
    PROVE  Trust'
<1> USE DEF Trust
<1>1. CorruptionIsAllowed'
  BY CorruptionStaysAllowed
<1>2. ASSUME NEW c \in ClientIds, NEW params \in Params, NEW block \in CanonicalBlocks,
             NEW fault \in Omissions \cup {"nothing"},
             CreateClient(c, params, block, fault)
      PROVE  Trust'
  <2> DEFINE cs == CreatedClientState(params, block, fault)
             consensus_state == CreatedConsensusState(block, fault)
             height == cs.latest_execution_block_number
  <2>1. IsCanonicalState(height, consensus_state)
    BY <1>2, CreatedStateIsCanonical DEF CreateClient
  <2>2. StoreConsensusState(c, height, consensus_state)
    BY <1>2 DEF CreateClient
  <2>3. client_states[c] = None /\ ~is_frozen(cs)
        /\ client_states' = [client_states EXCEPT ![c] = cs]
    BY <1>2 DEF CreateClient
  <2> HIDE DEF cs, consensus_state
  <2>4. TrustedStates'
    BY <2>1, <2>2, TrustworthyStateStored DEF IsTrustworthy
  <2>5. NoFalseFreeze'
    <3> SUFFICES ASSUME NEW d \in ClientIds, client_states'[d] # None,
                        client_states'[d].frozen_height # None
                 PROVE  /\ client_states'[d].frozen_height \in DOMAIN consensus_states'[d]
                        /\ IsBlamed(consensus_states'[d][client_states'[d].frozen_height])
      BY DEF NoFalseFreeze, IsBlamed, current_period
    <3>1. d # c
      BY <2>3 DEF is_frozen, TypeOK
    <3> QED
      BY <2>2, <2>3, <3>1, StoreEffect DEF NoFalseFreeze, TypeOK
  <2> QED
    BY <1>1, <2>4, <2>5
<1>3. ASSUME NEW c \in ClientIds, NEW header \in Headers, UpdateState(c, header)
      PROVE  Trust'
  <2> DEFINE height          == header.execution.block_number
             trusted_height  == header.trusted.height
             cs              == client_states[c]
             consensus_state == consensus_states[c][trusted_height]
             new_state       == new_consensus_state(consensus_state, header)
  <2>1. /\ cs \in ClientState /\ consensus_state \in ConsensusState
        /\ trusted_height \in DOMAIN consensus_states[c]
        /\ header \in Header
    BY <1>3, StoredStatesType, InputAssumption DEF UpdateState, IsStored
  <2>2. IsTrustworthy(trusted_height, consensus_state)
    BY <2>1 DEF TrustedStates, IsTrustworthy
  <2>3. IsTrustworthy(height, new_state)
    BY <1>3, <2>1, <2>2, AcceptedHeader
       DEF UpdateState, check_header, TypeOK, CorruptionIsAllowed
  <2>4. /\ StoreConsensusState(c, height, new_state)
        /\ client_states' = [client_states EXCEPT ![c] = new_client_state(cs, header)]
        /\ ~is_frozen(cs)
    BY <1>3 DEF UpdateState
  <2> HIDE DEF new_state
  <2>5. TrustedStates'
    BY <2>3, <2>4, TrustworthyStateStored
  <2>6. NoFalseFreeze'
    <3> SUFFICES ASSUME NEW d \in ClientIds, client_states'[d] # None,
                        client_states'[d].frozen_height # None
                 PROVE  /\ client_states'[d].frozen_height \in DOMAIN consensus_states'[d]
                        /\ IsBlamed(consensus_states'[d][client_states'[d].frozen_height])
      BY DEF NoFalseFreeze, IsBlamed, current_period
    <3>1. d # c
      BY <2>1, <2>4 DEF is_frozen, new_client_state, ClientState, TypeOK
    <3> QED
      BY <2>4, <3>1, StoreEffect DEF NoFalseFreeze, TypeOK
  <2> QED
    BY <1>1, <2>5, <2>6
<1>4. ASSUME NEW c \in ClientIds, NEW misbehaviour \in Misbehaviours,
             SubmitMisbehaviour(c, misbehaviour)
      PROVE  Trust'
  <2> DEFINE h               == misbehaviour.trusted.height
             cs              == client_states[c]
             consensus_state == consensus_states[c][h]
  <2>1. /\ cs \in ClientState /\ consensus_state \in ConsensusState
        /\ h \in DOMAIN consensus_states[c]
        /\ misbehaviour \in Misbehaviour
    BY <1>4, StoredStatesType, InputAssumption DEF SubmitMisbehaviour, IsStored
  <2>2. IsTrustworthy(h, consensus_state)
    BY <2>1 DEF TrustedStates, IsTrustworthy
  <2>3. IsBlamed(consensus_state)
    BY <1>4, <2>1, <2>2, AcceptedMisbehaviour
       DEF SubmitMisbehaviour, check_misbehaviour, TypeOK, CorruptionIsAllowed
  <2>4. /\ client_states' = [client_states EXCEPT ![c] = with_frozen_height(cs, h)]
        /\ UNCHANGED consensus_states
    BY <1>4 DEF SubmitMisbehaviour
  <2>5. TrustedStates'
    BY <2>4 DEF TrustedStates, IsCanonicalState, IsBlamed, current_period
  <2>6. NoFalseFreeze'
    BY <2>1, <2>3, <2>4
       DEF NoFalseFreeze, TypeOK, with_frozen_height, ClientState, IsBlamed, current_period
  <2> QED
    BY <1>1, <2>5, <2>6
<1>5. CASE UNCHANGED store
  BY <1>1, <1>5, TrustKeptWithoutStore
<1> QED
  BY <1>2, <1>3, <1>4, <1>5
     DEF Next, Call, vars, store, VerifyMembership, VerifyNonMembership, Tick, CorruptCommittee

\* Trust holds in every reachable state.
LEMMA TrustHolds ==
    ASSUME "storage_root" \notin Omissions
    PROVE  Spec => []Trust
<1>1. Init => Trust
  BY SlotAssumption
     DEF Init, Trust, TypeOK, CorruptionIsAllowed, TrustedStates, NoFalseFreeze
<1>2. TypeOK' /\ Trust /\ [Next]_vars => Trust'
  BY TrustInductive
<1> QED
  BY <1>1, <1>2, TypeCorrect, PTL DEF Spec

\* See TrustedStates: whatever is submitted and however late, a stored state
\* that no equivocating committee vouches for is canonical.
THEOREM TrustIsSound ==
    ASSUME "storage_root" \notin Omissions
    PROVE  Spec => []TrustedStates
BY TrustHolds, PTL DEF Trust

\* See NoFalseFreeze: only evidence of equivocation freezes a client.
THEOREM FreezesAreJustified ==
    ASSUME "storage_root" \notin Omissions
    PROVE  Spec => []NoFalseFreeze
BY TrustHolds, PTL DEF Trust

-----------------------------------------------------------------------------
(* The steps that write the store *)

\* Only three calls write the store.
LEMMA StoringSteps ==
    ASSUME [Next]_vars
    PROVE  \/ \E c \in ClientIds, params \in Params, block \in CanonicalBlocks,
                 fault \in Omissions \cup {"nothing"} :
                 CreateClient(c, params, block, fault)
           \/ \E c \in ClientIds, header \in Headers : UpdateState(c, header)
           \/ \E c \in ClientIds, misbehaviour \in Misbehaviours :
                 SubmitMisbehaviour(c, misbehaviour)
           \/ /\ UNCHANGED store
              /\ \/ UNCHANGED message
                 \/ \E c \in ClientIds : \E height \in DOMAIN consensus_states[c] :
                       VerifyMembership(c, height) \/ VerifyNonMembership(c, height)
<1>1. CASE UNCHANGED vars
  BY <1>1 DEF vars, store
<1>2. CASE Tick \/ \E period \in CommitteePeriods : CorruptCommittee(period)
  BY <1>2 DEF Tick, CorruptCommittee
<1>3. ASSUME NEW c \in ClientIds, NEW height \in DOMAIN consensus_states[c],
             VerifyMembership(c, height) \/ VerifyNonMembership(c, height)
      PROVE  UNCHANGED store
  BY <1>3 DEF VerifyMembership, VerifyNonMembership
<1> QED
  BY <1>1, <1>2, <1>3 DEF Next, Call

-----------------------------------------------------------------------------
(* Heights *)

\* A client that does not exist has no states.
NoClientNoStates ==
    \A c \in ClientIds : client_states[c] = None => DOMAIN consensus_states[c] = {}

Heights ==
    /\ LatestIsMaxStored
    /\ NoStateAtHeightZero
    /\ NoClientNoStates

LEMMA HeightsAfterCreation ==
    ASSUME TypeOK, Heights, NEW c \in ClientIds, NEW params \in Params,
           NEW block \in CanonicalBlocks, NEW fault, CreateClient(c, params, block, fault)
    PROVE  Heights'
<1> USE DEF Heights
<1> DEFINE cs == CreatedClientState(params, block, fault)
           consensus_state == CreatedConsensusState(block, fault)
           height == cs.latest_execution_block_number
<1>1. cs \in ClientState /\ height \in Nat \ {0}
  BY CreatedStatesType DEF CreateClient
<1>2. /\ StoreConsensusState(c, height, consensus_state)
      /\ client_states[c] = None
      /\ client_states' = [client_states EXCEPT ![c] = cs]
  BY DEF CreateClient
<1> HIDE DEF cs, consensus_state
<1>3. DOMAIN consensus_states'[c] = {height}
  BY <1>2, StoreEffect DEF NoClientNoStates
<1>4. \A d \in ClientIds \ {c} : consensus_states'[d] = consensus_states[d]
  BY <1>2, StoreEffect
<1>5. /\ client_states'[c] = cs
      /\ \A d \in ClientIds \ {c} : client_states'[d] = client_states[d]
  BY <1>2 DEF TypeOK
<1> QED
  BY <1>1, <1>3, <1>4, <1>5, InputAssumption
     DEF LatestIsMaxStored, latest_height, NoStateAtHeightZero, NoClientNoStates

\* What an update of the stored client state leaves behind.
LEMMA HeightsAfterUpdate ==
    ASSUME TypeOK, Heights, NEW c \in ClientIds, client_states[c] # None,
           NEW header, header.execution.block_number \in Nat \ {0}, NEW new_state,
           StoreConsensusState(c, header.execution.block_number, new_state),
           client_states' = [client_states EXCEPT
                                ![c] = new_client_state(client_states[c], header)]
    PROVE  Heights'
<1> USE DEF Heights
<1> DEFINE height == header.execution.block_number
           cs     == client_states[c]
           new_cs == new_client_state(cs, header)
<1>1. cs \in ClientState /\ height \in Nat \ {0}
  BY DEF TypeOK
<1>2. /\ new_cs \in ClientState
      /\ new_cs.latest_execution_block_number =
           IF cs.latest_execution_block_number < height
             THEN height ELSE cs.latest_execution_block_number
  BY <1>1 DEF new_client_state, ClientState
<1> HIDE DEF new_cs
<1>3. /\ client_states'[c] = new_cs
      /\ \A d \in ClientIds \ {c} : client_states'[d] = client_states[d]
  BY DEF TypeOK, new_cs
<1>4. /\ DOMAIN consensus_states'[c] = DOMAIN consensus_states[c] \cup {height}
      /\ \A d \in ClientIds \ {c} : consensus_states'[d] = consensus_states[d]
  BY StoreEffect
<1>5. /\ cs.latest_execution_block_number \in DOMAIN consensus_states[c]
      /\ \A h \in DOMAIN consensus_states[c] :
           h \in Nat /\ h <= cs.latest_execution_block_number
      /\ cs.latest_execution_block_number \in Nat
  BY <1>1 DEF LatestIsMaxStored, latest_height, TypeOK, ClientState
<1>6. LatestIsMaxStored'
  <2>1. /\ new_cs.latest_execution_block_number \in DOMAIN consensus_states'[c]
        /\ \A h \in DOMAIN consensus_states'[c] :
             h <= new_cs.latest_execution_block_number
    BY <1>1, <1>2, <1>4, <1>5
  <2> QED
    BY <1>3, <1>4, <2>1 DEF LatestIsMaxStored, latest_height
<1>7. NoStateAtHeightZero' /\ NoClientNoStates'
  BY <1>1, <1>2, <1>3, <1>4, InputAssumption DEF NoStateAtHeightZero, NoClientNoStates
<1> QED
  BY <1>6, <1>7

\* And what freezing it does.
LEMMA HeightsAfterFreeze ==
    ASSUME TypeOK, Heights, NEW c \in ClientIds, client_states[c] # None,
           NEW height \in Nat, UNCHANGED consensus_states,
           client_states' = [client_states EXCEPT
                                ![c] = with_frozen_height(client_states[c], height)]
    PROVE  Heights'
<1> USE DEF Heights
<1> DEFINE cs     == client_states[c]
           new_cs == with_frozen_height(cs, height)
<1>1. /\ new_cs \in ClientState
      /\ new_cs.latest_execution_block_number = cs.latest_execution_block_number
  BY DEF TypeOK, with_frozen_height, ClientState
<1>2. client_states' = [client_states EXCEPT ![c] = new_cs]
  OBVIOUS
<1> HIDE DEF new_cs
<1> QED
  BY <1>1, <1>2, InputAssumption
     DEF LatestIsMaxStored, latest_height, NoStateAtHeightZero, NoClientNoStates, TypeOK

LEMMA HeightsInductive ==
    ASSUME TypeOK, Heights, [Next]_vars
    PROVE  Heights'
<1>1. ASSUME NEW c \in ClientIds, NEW params \in Params, NEW block \in CanonicalBlocks,
             NEW fault, CreateClient(c, params, block, fault)
      PROVE  Heights'
  BY <1>1, HeightsAfterCreation
<1>2. ASSUME NEW c \in ClientIds, NEW header \in Headers, UpdateState(c, header)
      PROVE  Heights'
  <2> DEFINE cs              == client_states[c]
             consensus_state == consensus_states[c][header.trusted.height]
  <2>1. /\ cs \in ClientState /\ consensus_state \in ConsensusState /\ cs # None
        /\ header \in Header
    BY <1>2, StoredStatesType, InputAssumption DEF UpdateState, IsStored
  <2>2. header.execution.block_number \in Nat \ {0}
    BY <1>2, <2>1, NewConsensusStateType DEF UpdateState, TypeOK
  <2> QED
    BY <1>2, <2>1, <2>2, HeightsAfterUpdate DEF UpdateState
<1>3. ASSUME NEW c \in ClientIds, NEW misbehaviour \in Misbehaviours,
             SubmitMisbehaviour(c, misbehaviour)
      PROVE  Heights'
  <2>1. client_states[c] # None /\ misbehaviour.trusted.height \in Nat
    BY <1>3, StoredStatesType DEF SubmitMisbehaviour, IsStored
  <2> QED
    BY <1>3, <2>1, HeightsAfterFreeze DEF SubmitMisbehaviour
<1>4. CASE UNCHANGED store
  BY <1>4 DEF store, Heights, LatestIsMaxStored, latest_height, NoStateAtHeightZero,
              NoClientNoStates
<1> QED
  BY <1>1, <1>2, <1>3, <1>4, StoringSteps

\* Both hold of one invariant.
LEMMA HeightsAreSound == Spec => [](LatestIsMaxStored /\ NoStateAtHeightZero)
<1>1. Init => Heights
  BY DEF Init, Heights, LatestIsMaxStored, NoStateAtHeightZero, NoClientNoStates
<1>2. TypeOK /\ Heights /\ [Next]_vars => Heights'
  BY HeightsInductive
<1>3. Heights => LatestIsMaxStored /\ NoStateAtHeightZero
  BY DEF Heights
<1> QED
  BY <1>1, <1>2, <1>3, TypeCorrect, PTL DEF Spec

\* See LatestIsMaxStored: back-filled heights never lower the latest one
\* (client_state.rs 230-234).
THEOREM LatestIsGreatest == Spec => []LatestIsMaxStored
BY HeightsAreSound, PTL

\* See NoStateAtHeightZero: execution block 0 is never taken for a height
\* (header.rs 76, client_state.rs 167).
THEOREM HeightZeroIsNeverStored == Spec => []NoStateAtHeightZero
BY HeightsAreSound, PTL

-----------------------------------------------------------------------------
(* Frozen and expired clients *)

\* See FrozenIsFinal: every call on a frozen client returns an error
\* (client.rs 104, 141, 184, 234).
THEOREM FrozenStaysFrozen == Spec => FrozenIsFinal
<1>1. ASSUME TypeOK, [Next]_vars, NEW c \in ClientIds,
             client_states[c] # None, client_states[c].frozen_height # None
      PROVE  /\ client_states'[c] = client_states[c]
             /\ consensus_states'[c] = consensus_states[c]
             /\ message' # message => message'.client_id # c
  <2>1. ASSUME NEW d \in ClientIds, NEW params \in Params, NEW block \in CanonicalBlocks,
               NEW fault, CreateClient(d, params, block, fault)
        PROVE  d # c /\ message'.client_id = d
               /\ client_states'[c] = client_states[c]
               /\ consensus_states'[c] = consensus_states[c]
    BY <1>1, <2>1 DEF CreateClient, CreateClientMessage, StoreConsensusState, TypeOK
  <2>2. ASSUME NEW d \in ClientIds, NEW header \in Headers, UpdateState(d, header)
        PROVE  d # c /\ message'.client_id = d
               /\ client_states'[c] = client_states[c]
               /\ consensus_states'[c] = consensus_states[c]
    BY <1>1, <2>2
       DEF UpdateState, UpdateStateMessage, is_frozen, StoreConsensusState, TypeOK
  <2>3. ASSUME NEW d \in ClientIds, NEW misbehaviour \in Misbehaviours,
               SubmitMisbehaviour(d, misbehaviour)
        PROVE  d # c /\ message'.client_id = d
               /\ client_states'[c] = client_states[c]
               /\ consensus_states'[c] = consensus_states[c]
    BY <1>1, <2>3 DEF SubmitMisbehaviour, MisbehaviourMessage, is_frozen, TypeOK
  <2>4. ASSUME NEW d \in ClientIds, NEW height,
               VerifyMembership(d, height) \/ VerifyNonMembership(d, height)
        PROVE  d # c /\ message'.client_id = d
    BY <1>1, <2>4 DEF VerifyMembership, VerifyNonMembership, MembershipMessage, is_frozen
  <2> QED
    BY <1>1, <2>1, <2>2, <2>3, <2>4, StoringSteps DEF store
<1>2. TypeOK /\ [Next]_vars =>
        [\A c \in ClientIds : client_states[c] # None /\ client_states[c].frozen_height # None =>
           /\ client_states'[c] = client_states[c]
           /\ consensus_states'[c] = consensus_states[c]
           /\ message' # message => message'.client_id # c]_vars
  BY <1>1
<1> QED
  BY <1>2, TypeCorrect, PTL DEF Spec, FrozenIsFinal

\* See ExpiredIsFinal: a client with no state inside its trusting period can be
\* neither updated nor frozen (client_state.rs 215, 271).
THEOREM ExpiredStaysExpired == Spec => ExpiredIsFinal
<1>1. ASSUME TypeOK, [Next]_vars, NEW c \in ClientIds, client_states[c] # None,
             \A h \in DOMAIN consensus_states[c] :
                consensus_states[c][h].timestamp
                  + client_states[c].params.trusting_period <= now
      PROVE  /\ client_states'[c] = client_states[c]
             /\ consensus_states'[c] = consensus_states[c]
  <2>1. ASSUME NEW height, IsStored(c, height),
               validate_state_timestamp_within_trusting_period(
                   now, client_states[c].params.trusting_period,
                   consensus_states[c][height].timestamp)
        PROVE  FALSE
    <3>1. /\ client_states[c].params.trusting_period \in Nat
          /\ consensus_states[c][height].timestamp \in Nat
          /\ now \in Nat
      BY <2>1, <1>1, StoredStatesType, ParamsAssumption
         DEF ClientState, ConsensusState, TypeOK
    <3> QED
      BY <1>1, <2>1, <3>1 DEF IsStored, validate_state_timestamp_within_trusting_period
  <2>2. ASSUME NEW d \in ClientIds, NEW params \in Params, NEW block \in CanonicalBlocks,
               NEW fault, CreateClient(d, params, block, fault)
        PROVE  /\ client_states'[c] = client_states[c]
               /\ consensus_states'[c] = consensus_states[c]
    BY <1>1, <2>2 DEF CreateClient, StoreConsensusState, TypeOK
  <2>3. ASSUME NEW d \in ClientIds, NEW header \in Headers, UpdateState(d, header)
        PROVE  /\ client_states'[c] = client_states[c]
               /\ consensus_states'[c] = consensus_states[c]
    <3>1. d # c
      BY <2>1, <2>3 DEF UpdateState, check_header
    <3> QED
      BY <1>1, <2>3, <3>1 DEF UpdateState, StoreConsensusState, TypeOK
  <2>4. ASSUME NEW d \in ClientIds, NEW misbehaviour \in Misbehaviours,
               SubmitMisbehaviour(d, misbehaviour)
        PROVE  /\ client_states'[c] = client_states[c]
               /\ consensus_states'[c] = consensus_states[c]
    <3>1. d # c
      BY <2>1, <2>4 DEF SubmitMisbehaviour, check_misbehaviour
    <3> QED
      BY <1>1, <2>4, <3>1 DEF SubmitMisbehaviour, TypeOK
  <2> QED
    BY <1>1, <2>2, <2>3, <2>4, StoringSteps DEF store
<1>2. TypeOK /\ [Next]_vars =>
        [\A c \in ClientIds :
          /\ client_states[c] # None
          /\ \A h \in DOMAIN consensus_states[c] :
               consensus_states[c][h].timestamp
                 + client_states[c].params.trusting_period <= now
          => /\ client_states'[c] = client_states[c]
             /\ consensus_states'[c] = consensus_states[c]]_vars
  BY <1>1
<1> QED
  BY <1>2, TypeCorrect, PTL DEF Spec, ExpiredIsFinal

-----------------------------------------------------------------------------
(* What is settled once stored *)

\* A height that has a state always has one.
LEMMA StoreGrows ==
    ASSUME TypeOK, [Next]_vars, NEW c \in ClientIds, NEW h \in DOMAIN consensus_states[c]
    PROVE  h \in DOMAIN consensus_states'[c]
<1>1. ASSUME NEW d \in ClientIds, NEW params \in Params, NEW block \in CanonicalBlocks,
             NEW fault, CreateClient(d, params, block, fault)
      PROVE  h \in DOMAIN consensus_states'[c]
  BY <1>1 DEF CreateClient, StoreConsensusState, TypeOK
<1>2. ASSUME NEW d \in ClientIds, NEW header \in Headers, UpdateState(d, header)
      PROVE  h \in DOMAIN consensus_states'[c]
  BY <1>2 DEF UpdateState, StoreConsensusState, TypeOK
<1>3. ASSUME NEW d \in ClientIds, NEW misbehaviour \in Misbehaviours,
             SubmitMisbehaviour(d, misbehaviour)
      PROVE  h \in DOMAIN consensus_states'[c]
  BY <1>3 DEF SubmitMisbehaviour
<1> QED
  BY <1>1, <1>2, <1>3, StoringSteps DEF store

\* Both follow from the old and the new state being canonical.
LEMMA RootsStaySettled ==
    ASSUME "storage_root" \notin Omissions
    PROVE  Spec => RootsAreFinal /\ StateIdsAreFinal
<1>1. ASSUME Trust, Trust', [Next]_vars, FaultyPeriods = {},
             NEW c \in ClientIds, NEW h \in DOMAIN consensus_states[c]
      PROVE  LET old == consensus_states[c][h]
                 new == consensus_states'[c][h]
             IN  /\ new.storage_root = old.storage_root
                 /\ new.timestamp = old.timestamp
                 /\ \/ new = old
                    \/ old.slot >= GloasSlot
                    \/ new.slot >= GloasSlot
  <2>1. IsCanonicalState(h, consensus_states[c][h])
    BY <1>1 DEF Trust, TrustedStates, IsBlamed
  <2>2. IsCanonicalState(h, consensus_states'[c][h])
    BY <1>1, StoreGrows DEF Trust, TrustedStates, IsBlamed, IsCanonicalState
  <2>3. /\ consensus_states[c][h].slot \in Nat
        /\ consensus_states'[c][h].slot \in Nat
    BY <2>1, <2>2, BranchAssumption DEF IsCanonicalState, Slots
  <2> QED
    BY <2>1, <2>2, <2>3, OneExecutionBlockPerHeight, SlotAssumption
<1>2. Trust /\ Trust' /\ [Next]_vars =>
        /\ [FaultyPeriods = {} =>
             \A c \in ClientIds : \A h \in DOMAIN consensus_states[c] :
                LET old == consensus_states[c][h]
                    new == consensus_states'[c][h]
                IN  /\ new.storage_root = old.storage_root
                    /\ new.timestamp = old.timestamp]_vars
        /\ [FaultyPeriods = {} =>
             \A c \in ClientIds : \A h \in DOMAIN consensus_states[c] :
                \/ consensus_states'[c][h] = consensus_states[c][h]
                \/ consensus_states[c][h].slot >= GloasSlot
                \/ consensus_states'[c][h].slot >= GloasSlot]_vars
  BY <1>1
<1> QED
  BY <1>2, TrustHolds, PTL DEF Spec, RootsAreFinal, StateIdsAreFinal

\* See RootsAreFinal: without equivocation a later update never gives a height
\* another storage root or timestamp (client.rs 173, 201-205).
THEOREM StorageRootsStaySettled ==
    ASSUME "storage_root" \notin Omissions
    PROVE  Spec => RootsAreFinal
BY RootsStaySettled, PTL

\* See StateIdsAreFinal: Gloas apart, a later update never gives a height
\* another state at all (client.rs 204-205).
THEOREM StateIdsStaySettled ==
    ASSUME "storage_root" \notin Omissions
    PROVE  Spec => StateIdsAreFinal
BY RootsStaySettled, PTL

-----------------------------------------------------------------------------
(* What the proxy messages say *)

\* An update on a canonical chain leads from one block to a later one.
LEMMA UpdateGoesForward ==
    ASSUME Trust, FaultyPeriods = {}, NEW c \in ClientIds, NEW header \in Headers,
           UpdateState(c, header)
    PROVE  UpdatesGoForward'
<1> DEFINE height          == header.execution.block_number
           trusted_height  == header.trusted.height
           cs              == client_states[c]
           consensus_state == consensus_states[c][trusted_height]
           new_state       == new_consensus_state(consensus_state, header)
<1>1. /\ cs \in ClientState /\ consensus_state \in ConsensusState
      /\ trusted_height \in DOMAIN consensus_states[c]
      /\ header \in Header
      /\ TypeOK /\ CorruptionIsAllowed
  BY StoredStatesType, InputAssumption DEF UpdateState, IsStored, Trust
<1>2. IsCanonicalState(trusted_height, consensus_state)
  BY <1>1 DEF Trust, TrustedStates, IsBlamed
<1>3. IsTrustworthy(height, new_state)
  BY <1>1, <1>2, AcceptedHeader
     DEF UpdateState, check_header, IsTrustworthy, TypeOK, CorruptionIsAllowed
<1>4. IsCanonicalState(height, new_state)
  BY <1>3 DEF IsTrustworthy, IsBlamed
<1>5. consensus_state.slot < new_state.slot
  BY DEF UpdateState, check_header, validate_updates, is_relevant_update, new_consensus_state
<1>6. /\ trusted_height <= height
      /\ consensus_state.timestamp <= new_state.timestamp
  BY <1>2, <1>4, <1>5, LaterStateIsNotBelow
<1>7. /\ message'.prev_height = trusted_height /\ message'.post_height = height
      /\ message'.timestamp = new_state.timestamp
      /\ message'.context.state_timestamp = consensus_state.timestamp
  BY DEF UpdateState, UpdateStateMessage, TrustingPeriodContext
<1> QED
  BY <1>6, <1>7 DEF UpdatesGoForward

\* A verified membership says what the canonical block commits to.
LEMMA MembershipIsTrue ==
    ASSUME Trust, NEW c \in ClientIds, NEW height \in DOMAIN consensus_states[c],
           VerifyMembership(c, height) \/ VerifyNonMembership(c, height)
    PROVE  MembershipReflectsChain'
<1> DEFINE cs    == consensus_states[c][height]
           block == [branch |-> Canonical, slot |-> cs.slot]
<1>1. /\ message'.height = height
      /\ message'.state_id.consensus_state = cs
      /\ message'.value = IF HasCommitment(cs.storage_root) THEN "present" ELSE "absent"
  BY DEF VerifyMembership, VerifyNonMembership, verify_membership, verify_non_membership,
         MembershipMessage, gen_state_id
<1>2. CASE IsCanonicalState(height, cs)
  <2>1. block \in CanonicalBlocks
    BY <1>2, BranchAssumption DEF IsCanonicalState, CanonicalBlocks
  <2>2. cs.storage_root = StorageRootAt(block) /\ HeightOf(block) = height
    <3>1. StateAt(block).storage_root = StorageRootAt(block)
      BY DEF StateAt
    <3> QED
      BY <1>2, <3>1 DEF IsCanonicalState
  <2> QED
    BY <1>1, <2>1, <2>2 DEF MembershipReflectsChain
<1>3. CASE IsBlamed(cs)
  BY <1>1, <1>3 DEF MembershipReflectsChain, IsBlamed, current_period
<1> QED
  BY <1>2, <1>3 DEF Trust, TrustedStates

\* The two together, since one step establishes both.
LEMMA MessagesAreSound ==
    ASSUME "storage_root" \notin Omissions
    PROVE  Spec => [](UpdatesGoForward /\ MembershipReflectsChain)
<1> DEFINE Sound == UpdatesGoForward /\ MembershipReflectsChain
<1>1. Init => Sound
  BY DEF Init, NoMessage, UpdatesGoForward, MembershipReflectsChain
<1>2. ASSUME Trust, Sound, [Next]_vars
      PROVE  Sound'
  <2>1. ASSUME NEW c \in ClientIds, NEW params \in Params, NEW block \in CanonicalBlocks,
               NEW fault, CreateClient(c, params, block, fault)
        PROVE  Sound'
    <3>1. message'.type = "UpdateState" /\ message'.prev_height = None
      BY <2>1 DEF CreateClient, CreateClientMessage
    <3> QED
      BY <3>1 DEF UpdatesGoForward, MembershipReflectsChain
  <2>2. ASSUME NEW c \in ClientIds, NEW header \in Headers, UpdateState(c, header)
        PROVE  Sound'
    <3>1. message'.type = "UpdateState"
      BY <2>2 DEF UpdateState, UpdateStateMessage
    <3>2. UpdatesGoForward'
      BY <1>2, <2>2, UpdateGoesForward DEF UpdatesGoForward
    <3> QED
      BY <3>1, <3>2 DEF MembershipReflectsChain
  <2>3. ASSUME NEW c \in ClientIds, NEW misbehaviour \in Misbehaviours,
               SubmitMisbehaviour(c, misbehaviour)
        PROVE  Sound'
    <3>1. message'.type = "Misbehaviour"
      BY <2>3 DEF SubmitMisbehaviour, MisbehaviourMessage
    <3> QED
      BY <3>1 DEF UpdatesGoForward, MembershipReflectsChain
  <2>4. ASSUME NEW c \in ClientIds, NEW height \in DOMAIN consensus_states[c],
               VerifyMembership(c, height) \/ VerifyNonMembership(c, height)
        PROVE  Sound'
    <3>1. message'.type = "VerifyMembership"
      BY <2>4 DEF VerifyMembership, VerifyNonMembership, MembershipMessage
    <3>2. MembershipReflectsChain'
      BY <1>2, <2>4, MembershipIsTrue
    <3> QED
      BY <3>1, <3>2 DEF UpdatesGoForward
  <2>5. CASE UNCHANGED message
    BY <1>2, <2>5 DEF UpdatesGoForward, MembershipReflectsChain, IsBlamed, current_period
  <2> QED
    BY <1>2, <2>1, <2>2, <2>3, <2>4, <2>5, StoringSteps
<1> QED
  BY <1>1, <1>2, TrustHolds, PTL DEF Spec

\* See UpdatesGoForward: without equivocation no update message leads back, in
\* whatever order headers are submitted (client.rs 204-217).
THEOREM MessagesGoForward ==
    ASSUME "storage_root" \notin Omissions
    PROVE  Spec => []UpdatesGoForward
BY MessagesAreSound, PTL

\* See MembershipReflectsChain: what a membership message says is so on the
\* canonical chain, unless a committee is to blame (client.rs 91-163).
THEOREM MembershipIsSound ==
    ASSUME "storage_root" \notin Omissions
    PROVE  Spec => []MembershipReflectsChain
BY MessagesAreSound, PTL
=============================================================================
