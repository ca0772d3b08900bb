---------------- MODULE EthereumLightClientRefinementProofs -----------------
(***************************************************************************)
(* EthereumLightClient implements VerifiedChain.                           *)
(***************************************************************************)
EXTENDS EthereumLightClientRefinement, EthereumLightClientProofs

\* The promise speaks of the same blocks.
LEMMA SameChain ==
    ASSUME NEW block
    PROVE  /\ Promise!NumberOf(block) = HeightOf(block)
           /\ Promise!FactsOf(block) =
                [storage_root |-> StorageRootAt(block),
                 timestamp    |-> compute_timestamp_at_slot(ExecutionSlot(block))]
<1>1. Promise!ProvablePayloads(block) = ProvablePayloads(block)
  BY DEF Promise!ProvablePayloads, ProvablePayloads
<1>2. Promise!ExecutionSlot(block) = ExecutionSlot(block)
  BY <1>1 DEF Promise!ExecutionSlot, ExecutionSlot, Promise!Max, Max
<1>3. Promise!NumberOf(block) = HeightOf(block)
  BY <1>1 DEF Promise!NumberOf, HeightOf, Promise!ExecutionUpdateOf, ExecutionUpdateOf,
             Promise!Cardinality, Cardinality
<1>4. Promise!StorageRootAt(block) = StorageRootAt(block)
  BY <1>2 DEF Promise!StorageRootAt, StorageRootAt, Promise!RootAt, RootAt
<1>5. Promise!compute_timestamp_at_slot(Promise!ExecutionSlot(block))
        = compute_timestamp_at_slot(ExecutionSlot(block))
  BY <1>2 DEF Promise!compute_timestamp_at_slot, compute_timestamp_at_slot
<1> QED
  BY <1>3, <1>4, <1>5 DEF Promise!FactsOf

\* Storing a canonical state under its height is learning its block, whether
\* or not the height had a state before.
LEMMA StoringIsLearning ==
    ASSUME TypeOK, TrustedStates, FaultyPeriods = {},
           NEW c \in ClientIds, NEW height, NEW new, NEW cs \in ClientState,
           IsCanonicalState(height, new),
           StoreConsensusState(c, height, new),
           client_states' = [client_states EXCEPT ![c] = cs],
           cs.latest_execution_block_number =
             IF client_states[c] = None \/ latest_height(c) < height
               THEN height ELSE latest_height(c)
    PROVE  \E block \in Promise!Finalized : Promise!Learn(c, block)
<1> DEFINE block == [branch |-> Canonical, slot |-> new.slot]
<1>1. /\ block \in Promise!Finalized
      /\ new = StateAt(block)
      /\ height = Promise!NumberOf(block)
  BY BranchAssumption, SameChain DEF IsCanonicalState, Promise!Finalized, Promise!Slots, Slots
<1>2. HeldFacts(new) = Promise!FactsOf(block)
  <2>1. /\ StateAt(block).storage_root = StorageRootAt(block)
        /\ StateAt(block).timestamp = compute_timestamp_at_slot(ExecutionSlot(block))
    BY DEF StateAt
  <2> QED
    BY <1>1, <2>1, SameChain DEF HeldFacts
<1>3. ASSUME NEW h \in DOMAIN consensus_states[c], h = height
      PROVE  HeldFacts(consensus_states[c][h]) = HeldFacts(new)
  <2>1. IsCanonicalState(height, consensus_states[c][h])
    BY <1>3 DEF TrustedStates, IsBlamed
  <2> QED
    BY <2>1, OneExecutionBlockPerHeight DEF HeldFacts
<1>4. Verified' = [Verified EXCEPT ![c] =
                     [h \in DOMAIN Verified[c] \cup {Promise!NumberOf(block)} |->
                        IF h \in DOMAIN Verified[c] THEN Verified[c][h]
                                                    ELSE Promise!FactsOf(block)]]
  <2>1. /\ DOMAIN consensus_states'[c] = DOMAIN consensus_states[c] \cup {height}
        /\ \A h \in DOMAIN consensus_states[c] \cup {height} :
             consensus_states'[c][h] = IF h = height THEN new ELSE consensus_states[c][h]
        /\ \A d \in ClientIds \ {c} : consensus_states'[d] = consensus_states[d]
    BY StoreEffect
  <2>2. \A h \in DOMAIN consensus_states[c] \cup {height} :
          HeldFacts(consensus_states'[c][h]) =
            IF h \in DOMAIN consensus_states[c] THEN HeldFacts(consensus_states[c][h])
                                                ELSE Promise!FactsOf(block)
    BY <1>2, <1>3, <2>1
  <2>3. DOMAIN Verified[c] = DOMAIN consensus_states[c]
        /\ \A h \in DOMAIN consensus_states[c] :
             Verified[c][h] = HeldFacts(consensus_states[c][h])
    BY DEF Verified
  <2>4. Verified'[c] = [h \in DOMAIN Verified[c] \cup {height} |->
                          IF h \in DOMAIN Verified[c] THEN Verified[c][h]
                                                      ELSE Promise!FactsOf(block)]
    BY <2>1, <2>2, <2>3 DEF Verified
  <2>5. \A d \in ClientIds \ {c} : Verified'[d] = Verified[d]
    BY <2>1 DEF Verified
  <2>6. Verified \in [ClientIds -> {Verified[d] : d \in ClientIds}]
        /\ Verified' \in [ClientIds -> {Verified'[d] : d \in ClientIds}]
    BY DEF Verified
  <2> QED
    BY <1>1, <2>4, <2>5, <2>6
<1>5. Latest' = [Latest EXCEPT ![c] =
                   IF Latest[c] = None \/ Latest[c] < Promise!NumberOf(block)
                     THEN Promise!NumberOf(block) ELSE Latest[c]]
  <2>1. /\ client_states'[c] = cs /\ cs # None
        /\ \A d \in ClientIds \ {c} : client_states'[d] = client_states[d]
    BY InputAssumption DEF TypeOK
  <2>2. ASSUME client_states[c] # None
        PROVE  latest_height(c) # None
    BY <2>2, ParamsAssumption DEF latest_height, TypeOK, ClientState
  <2>3. Latest'[c] = IF Latest[c] = None \/ Latest[c] < height
                       THEN height ELSE Latest[c]
    BY <2>1, <2>2 DEF Latest, latest_height
  <2>4. \A d \in ClientIds \ {c} : Latest'[d] = Latest[d]
    BY <2>1 DEF Latest, latest_height
  <2> QED
    BY <1>1, <2>3, <2>4 DEF Latest
<1> QED
  BY <1>1, <1>4, <1>5 DEF Promise!Learn

\* See KeepsPromise: while no committee equivocates, a client holds nothing but
\* facts about the canonical execution chain, and never gives one up.
THEOREM LightClientKeepsPromise ==
    ASSUME FaultyPeriods = {}, "storage_root" \notin Omissions
    PROVE  Spec => KeepsPromise
<1>1. Init => Promise!Init
  BY DEF Init, Promise!Init, Verified, Latest
<1>2. ASSUME Trust, Trust', Heights, [Next]_vars
      PROVE  [Promise!Next]_<<Verified, Latest>>
  <2> USE DEF Trust
  <2>1. ASSUME NEW c \in ClientIds, NEW params \in Params, NEW block \in CanonicalBlocks,
               NEW fault \in Omissions \cup {"nothing"},
               CreateClient(c, params, block, fault)
        PROVE  Promise!Next
    <3> DEFINE cs == CreatedClientState(params, block, fault)
               new == CreatedConsensusState(block, fault)
               height == cs.latest_execution_block_number
    <3>1. cs \in ClientState /\ IsCanonicalState(height, new)
      BY <2>1, CreatedStatesType, CreatedStateIsCanonical DEF CreateClient
    <3>2. /\ StoreConsensusState(c, height, new) /\ client_states[c] = None
          /\ client_states' = [client_states EXCEPT ![c] = cs]
      BY <2>1 DEF CreateClient
    <3> HIDE DEF cs, new
    <3> QED
      BY <1>2, <3>1, <3>2, StoringIsLearning DEF Promise!Next
  <2>2. ASSUME NEW c \in ClientIds, NEW header \in Headers, UpdateState(c, header)
        PROVE  Promise!Next
    <3> DEFINE height          == header.execution.block_number
               trusted_height  == header.trusted.height
               cs              == client_states[c]
               consensus_state == consensus_states[c][trusted_height]
               new_cs          == new_client_state(cs, header)
               new             == new_consensus_state(consensus_state, header)
    <3>1. /\ cs \in ClientState /\ consensus_state \in ConsensusState /\ cs # None
          /\ trusted_height \in DOMAIN consensus_states[c] /\ header \in Header
      BY <1>2, <2>2, StoredStatesType, InputAssumption DEF UpdateState, IsStored
    <3>2. IsTrustworthy(trusted_height, consensus_state)
      BY <1>2, <3>1 DEF TrustedStates, IsTrustworthy
    <3>3. IsCanonicalState(height, new)
      <4>1. IsTrustworthy(height, new)
        BY <1>2, <2>2, <3>1, <3>2, AcceptedHeader
         DEF UpdateState, check_header, TypeOK, CorruptionIsAllowed
      <4> QED
        BY <4>1 DEF IsTrustworthy, IsBlamed
    <3>4. height \in Nat
      BY <1>2, <2>2, <3>1, NewConsensusStateType DEF UpdateState, TypeOK
    <3>5. /\ new_cs \in ClientState
          /\ new_cs.latest_execution_block_number =
               IF client_states[c] = None \/ latest_height(c) < height
                 THEN height ELSE latest_height(c)
      BY <3>1, <3>4 DEF new_client_state, latest_height, ClientState
    <3>6. /\ StoreConsensusState(c, height, new)
          /\ client_states' = [client_states EXCEPT ![c] = new_cs]
      BY <2>2 DEF UpdateState
    <3> HIDE DEF new_cs, new
    <3> QED
      BY <1>2, <3>3, <3>5, <3>6, StoringIsLearning DEF Promise!Next
  <2>3. ASSUME NEW c \in ClientIds, NEW misbehaviour \in Misbehaviours,
               SubmitMisbehaviour(c, misbehaviour)
        PROVE  UNCHANGED <<Verified, Latest>>
    <3>1. client_states[c] \in ClientState /\ client_states[c] # None
      BY <1>2, <2>3, StoredStatesType DEF SubmitMisbehaviour, IsStored
    <3>2. with_frozen_height(client_states[c], misbehaviour.trusted.height)
              .latest_execution_block_number
            = client_states[c].latest_execution_block_number
          /\ with_frozen_height(client_states[c], misbehaviour.trusted.height) # None
      <4>1. misbehaviour.trusted.height \in Nat
        BY <1>2, <2>3, StoredStatesType DEF SubmitMisbehaviour
      <4> QED
        BY <3>1, <4>1, InputAssumption DEF with_frozen_height, ClientState
    <3>3. UNCHANGED Verified
      BY <2>3 DEF SubmitMisbehaviour, Verified
    <3>4. UNCHANGED Latest
      BY <1>2, <2>3, <3>1, <3>2 DEF SubmitMisbehaviour, Latest, latest_height, TypeOK
    <3> QED
      BY <3>3, <3>4
  <2>4. CASE UNCHANGED store
    BY <2>4 DEF store, Verified, Latest, latest_height
  <2> QED
    BY <1>2, <2>1, <2>2, <2>3, <2>4, StoringSteps
<1>3. Init => Heights
  BY DEF Init, Heights, LatestIsMaxStored, NoStateAtHeightZero, NoClientNoStates
<1>4. TypeOK /\ Heights /\ [Next]_vars => Heights'
  BY HeightsInductive
<1> QED
  BY <1>1, <1>2, <1>3, <1>4, TypeCorrect, TrustHolds, PTL
     DEF Spec, KeepsPromise, Promise!Spec
=============================================================================
