---------------------- MODULE AnyStoreRefinementProofs ----------------------
(***************************************************************************)
(* AnyStore implements EthereumLightClient.  The instance Client speaks of *)
(* copies of the operators that AnyStore uses, and of decoded views of its *)
(* variables; each step on encoded values is a step of Client on the views.*)
(***************************************************************************)
EXTENDS AnyStoreProofs

-----------------------------------------------------------------------------
(* The instance computes what AnyStore computes *)

LEMMA SameChain ==
    /\ \A slot : Client!compute_sync_committee_period_at_slot(slot)
                   = compute_sync_committee_period_at_slot(slot)
    /\ \A slot : Client!compute_timestamp_at_slot(slot) = compute_timestamp_at_slot(slot)
    /\ \A time : Client!current_slot(time) = current_slot(time)
    /\ \A branch, period : Client!CommitteeOf(branch, period) = CommitteeOf(branch, period)
    /\ \A block : Client!ExecutionUpdateOf(block) = ExecutionUpdateOf(block)
    /\ \A block : Client!HeightOf(block) = HeightOf(block)
    /\ \A block : Client!StateAt(block) = StateAt(block)
    /\ \A root : Client!HasCommitment(root) = HasCommitment(root)
    /\ Client!DefaultKey = DefaultKey /\ Client!DefaultRoot = DefaultRoot
    /\ Client!CanonicalBlocks = CanonicalBlocks
    /\ Client!CommitteePeriods = CommitteePeriods
<1>1. /\ \A slot : Client!compute_sync_committee_period_at_slot(slot)
                     = compute_sync_committee_period_at_slot(slot)
      /\ \A slot : Client!compute_timestamp_at_slot(slot) = compute_timestamp_at_slot(slot)
      /\ \A time : Client!current_slot(time) = current_slot(time)
      /\ \A branch, period : Client!CommitteeOf(branch, period) = CommitteeOf(branch, period)
      /\ \A root : Client!HasCommitment(root) = HasCommitment(root)
      /\ Client!DefaultKey = DefaultKey /\ Client!DefaultRoot = DefaultRoot
  BY DEF Client!compute_sync_committee_period_at_slot, compute_sync_committee_period_at_slot,
         Client!compute_timestamp_at_slot, compute_timestamp_at_slot,
         Client!current_slot, current_slot, Client!CommitteeOf, CommitteeOf,
         Client!HasCommitment, HasCommitment, Client!DefaultKey, DefaultKey,
         Client!DefaultRoot, DefaultRoot
<1>2. \A block : Client!ProvablePayloads(block) = ProvablePayloads(block)
  BY DEF Client!ProvablePayloads, ProvablePayloads
<1>3. \A block : Client!ExecutionSlot(block) = ExecutionSlot(block)
  BY <1>2 DEF Client!ExecutionSlot, ExecutionSlot, Client!Max, Max
<1>4. \A kind, block : Client!RootAt(kind, block) = RootAt(kind, block)
  BY <1>3 DEF Client!RootAt, RootAt
<1>5. \A S : Client!Cardinality(S) = Cardinality(S)
  BY DEF Client!Cardinality, Cardinality
<1>6. \A block : Client!ExecutionUpdateOf(block) = ExecutionUpdateOf(block)
  BY <1>1, <1>2, <1>3, <1>4, <1>5 DEF Client!ExecutionUpdateOf, ExecutionUpdateOf
<1>7. \A block : /\ Client!HeightOf(block) = HeightOf(block)
                 /\ Client!StateAt(block) = StateAt(block)
  BY <1>1, <1>3, <1>4, <1>6
     DEF Client!HeightOf, HeightOf, Client!StateAt, StateAt,
         Client!StorageRootAt, StorageRootAt
<1>8. Client!CanonicalBlocks = CanonicalBlocks /\ Client!CommitteePeriods = CommitteePeriods
  BY <1>1 DEF Client!CanonicalBlocks, CanonicalBlocks, Client!CommitteePeriods,
              CommitteePeriods, Client!Slots, Slots
<1> QED
  BY <1>1, <1>6, <1>7, <1>8

LEMMA SameCorruption ==
    \A period, time : Client!MayBeCorrupted(period, time) = MayBeCorrupted(period, time)
BY DEF Client!MayBeCorrupted, MayBeCorrupted, Client!Slots, Slots,
       Client!compute_sync_committee_period_at_slot, compute_sync_committee_period_at_slot,
       Client!compute_timestamp_at_slot, compute_timestamp_at_slot

\* What a call checks.
LEMMA SameChecks ==
    /\ \A cs, consensus_state, header, time, keys :
          Client!check_header(cs, consensus_state, header, time, keys)
            = check_header(cs, consensus_state, header, time, keys)
    /\ \A cs, c, consensus_state, misbehaviour, time, keys :
          Client!check_misbehaviour(cs, c, consensus_state, misbehaviour, time, keys)
            = check_misbehaviour(cs, c, consensus_state, misbehaviour, time, keys)
    /\ \A consensus_state :
          /\ Client!verify_membership(consensus_state) = verify_membership(consensus_state)
          /\ Client!verify_non_membership(consensus_state)
               = verify_non_membership(consensus_state)
          /\ Client!validate_ConsensusState(consensus_state)
               = validate_ConsensusState(consensus_state)
    /\ \A cs : /\ Client!is_frozen(cs) = is_frozen(cs)
               /\ Client!validate_ClientState(cs) = validate_ClientState(cs)
<1>1. \A cs, key, is_next, update, time, keys :
         Client!IsAttested(cs, key, is_next, update, time, keys)
           = IsAttested(cs, key, is_next, update, time, keys)
  BY DEF Client!IsAttested, IsAttested, Client!current_slot, current_slot,
         Client!current_period, current_period,
         Client!compute_sync_committee_period_at_slot, compute_sync_committee_period_at_slot,
         Client!MayHaveSigned, MayHaveSigned, Client!IsCanonicalUpdate, IsCanonicalUpdate,
         Client!IsCanonicalBlock, IsCanonicalBlock, Client!DefaultKey, DefaultKey,
         Client!CommitteeOf, CommitteeOf
<1>2. \A cs, key, is_next :
         Client!IsTrustedSyncCommittee(cs, key, is_next)
           = IsTrustedSyncCommittee(cs, key, is_next)
  BY DEF Client!IsTrustedSyncCommittee, IsTrustedSyncCommittee
<1>3. /\ \A time, period, timestamp :
            Client!validate_state_timestamp_within_trusting_period(time, period, timestamp)
              = validate_state_timestamp_within_trusting_period(time, period, timestamp)
      /\ \A time, drift, timestamp :
            Client!validate_header_timestamp_not_future(time, drift, timestamp)
              = validate_header_timestamp_not_future(time, drift, timestamp)
  BY DEF Client!validate_state_timestamp_within_trusting_period,
         validate_state_timestamp_within_trusting_period,
         Client!validate_header_timestamp_not_future, validate_header_timestamp_not_future
<1>4. \A header : /\ Client!validate_Header(header) = validate_Header(header)
                  /\ Client!HasTimestamp(header) = HasTimestamp(header)
                  /\ Client!header_timestamp(header) = header_timestamp(header)
  BY SameChain DEF Client!validate_Header, validate_Header, Client!HasTimestamp,
                   HasTimestamp, Client!NoTimestamp, NoTimestamp,
                   Client!header_timestamp, header_timestamp
<1>5. \A cs, key, is_next, update, execution, time, keys :
         Client!validate_updates(cs, key, is_next, update, execution, time, keys)
           = validate_updates(cs, key, is_next, update, execution, time, keys)
  BY <1>1, SameChain DEF Client!validate_updates, validate_updates,
                         Client!IsProvedBy, IsProvedBy, Client!is_relevant_update, is_relevant_update
<1>6. \A cs, update : Client!CommitteesAreKnown(cs, update) = CommitteesAreKnown(cs, update)
  BY SameChain DEF Client!CommitteesAreKnown, CommitteesAreKnown,
                   Client!current_period, current_period
<1>7. \A state_root, root :
         Client!verify_account_storage(state_root, root) = verify_account_storage(state_root, root)
  BY DEF Client!verify_account_storage, verify_account_storage
<1>8. \A cs, consensus_state, header, time, keys :
         Client!check_header(cs, consensus_state, header, time, keys)
           = check_header(cs, consensus_state, header, time, keys)
  BY <1>2, <1>3, <1>4, <1>5, <1>6, <1>7 DEF Client!check_header, check_header
<1>9. \A cs, key, is_next, data, time, keys :
         Client!validate_misbehaviour(cs, key, is_next, data, time, keys)
           = validate_misbehaviour(cs, key, is_next, data, time, keys)
  BY <1>1, SameChain
     DEF Client!validate_misbehaviour, validate_misbehaviour,
         Client!ConflictingFinalizedHeaders, ConflictingFinalizedHeaders,
         Client!ConflictingNextSyncCommittees, ConflictingNextSyncCommittees
<1>10. \A cs, c, consensus_state, misbehaviour, time, keys :
          Client!check_misbehaviour(cs, c, consensus_state, misbehaviour, time, keys)
            = check_misbehaviour(cs, c, consensus_state, misbehaviour, time, keys)
  BY <1>2, <1>3, <1>9 DEF Client!check_misbehaviour, check_misbehaviour
<1> QED
  BY <1>8, <1>10, SameChain
     DEF Client!verify_membership, verify_membership, Client!verify_non_membership,
         verify_non_membership, Client!validate_ConsensusState, validate_ConsensusState,
         Client!is_frozen, is_frozen, Client!validate_ClientState, validate_ClientState

\* The states a call returns.
LEMMA SameStates ==
    /\ \A cs, header : Client!new_client_state(cs, header) = new_client_state(cs, header)
    /\ \A consensus_state, header :
          Client!new_consensus_state(consensus_state, header)
            = new_consensus_state(consensus_state, header)
    /\ \A cs, height : Client!with_frozen_height(cs, height) = with_frozen_height(cs, height)
    /\ \A cs, consensus_state :
          Client!gen_state_id(cs, consensus_state) = gen_state_id(cs, consensus_state)
    /\ \A params, block, fault :
          Client!CreatedClientState(params, block, fault)
            = CreatedClientState(params, block, fault)
    /\ \A block, fault :
          Client!CreatedConsensusState(block, fault) = CreatedConsensusState(block, fault)
<1>1. \A consensus_state, header :
         Client!new_consensus_state(consensus_state, header)
           = new_consensus_state(consensus_state, header)
  BY SameChain
     DEF Client!new_consensus_state, new_consensus_state, Client!compute_sync_committees,
         compute_sync_committees, Client!current_period, current_period,
         Client!header_timestamp, header_timestamp
<1>2. \A params, block, fault :
         /\ Client!CreatedClientState(params, block, fault)
              = CreatedClientState(params, block, fault)
         /\ Client!CreatedConsensusState(block, fault) = CreatedConsensusState(block, fault)
  BY SameChain
     DEF Client!CreatedClientState, CreatedClientState, Client!CreatedConsensusState,
         CreatedConsensusState
<1> QED
  BY <1>1, <1>2
     DEF Client!new_client_state, new_client_state, Client!with_frozen_height,
         with_frozen_height, Client!gen_state_id, gen_state_id, Client!canonicalize,
         canonicalize

\* The messages it makes of them.
LEMMA SameMessages ==
    /\ Client!NoMessage = NoMessage
    /\ \A c, cs, consensus_state, emitted :
          Client!CreateClientMessage(c, cs, consensus_state, emitted)
            = CreateClientMessage(c, cs, consensus_state, emitted)
    /\ \A c, cs, consensus_state, header :
          Client!UpdateStateMessage(c, cs, consensus_state, header)
            = UpdateStateMessage(c, cs, consensus_state, header)
    /\ \A c, cs, consensus_state, prev_states, client_message :
          Client!MisbehaviourMessage(c, cs, consensus_state, prev_states, client_message)
            = MisbehaviourMessage(c, cs, consensus_state, prev_states, client_message)
    /\ \A c, cs, height, consensus_state, value :
          Client!MembershipMessage(c, cs, height, consensus_state, value)
            = MembershipMessage(c, cs, height, consensus_state, value)
BY SameStates
   DEF Client!NoMessage, NoMessage, Client!CreateClientMessage, CreateClientMessage,
       Client!UpdateStateMessage, UpdateStateMessage, Client!MisbehaviourMessage,
       MisbehaviourMessage, Client!MembershipMessage, MembershipMessage,
       Client!TrustingPeriodContext, TrustingPeriodContext

-----------------------------------------------------------------------------
(* The decoded views *)

\* What a call reads is what Client reads.
LEMMA ReadViews ==
    ASSUME WireInv, NEW c \in ClientIds, NEW height, IsReadable(c, height)
    PROVE  /\ Client!IsStored(c, height)
           /\ ClientStates[c] = read_client_state(c)
           /\ ConsensusStates[c][height] = read_consensus_state(c, height)
<1>1. read_client_state(c) # None
  BY ReadStatesType, WireInvIsTypeAndProperties, InputAssumption
<1> QED
  BY <1>1 DEF IsReadable, Client!IsStored, ClientStates, ConsensusStates,
              read_client_state, read_consensus_state

\* A client that Client finds stored is stored.
LEMMA StoredViews ==
    ASSUME WireInv, NEW c \in ClientIds
    PROVE  /\ ClientStates[c] = None <=> any_client_states[c] = None
           /\ DOMAIN ConsensusStates[c] = DOMAIN any_consensus_states[c]
<1>1. any_client_states[c] # None => ClientStateOf(any_client_states[c].value) # None
  BY InputAssumption DEF WireInv, StoreInv
<1> QED
  BY <1>1 DEF ClientStates, ConsensusStates

\* Storing an Any stores what it decodes to.
LEMMA StoreViews ==
    ASSUME WireInv, NEW c \in ClientIds, NEW any \in Any, NEW cs,
           ClientStateOf(any.value) = cs,
           any_client_states' = [any_client_states EXCEPT ![c] = any]
    PROVE  ClientStates' = [ClientStates EXCEPT ![c] = cs]
<1>1. /\ any # None
      /\ any_client_states'[c] = any
      /\ \A d \in ClientIds \ {c} : any_client_states'[d] = any_client_states[d]
  BY WireAssumption DEF WireInv, StoreInv
<1>2. /\ ClientStates'[c] = cs
      /\ \A d \in ClientIds \ {c} : ClientStates'[d] = ClientStates[d]
  BY <1>1 DEF ClientStates
<1>3. /\ ClientStates = [d \in ClientIds |-> ClientStates[d]]
      /\ ClientStates' = [d \in ClientIds |-> ClientStates'[d]]
  BY DEF ClientStates
<1> QED
  BY <1>2, <1>3

LEMMA StoreConsensusViews ==
    ASSUME WireInv, NEW c \in ClientIds, NEW height, NEW any, NEW consensus_state,
           ConsensusStateOf(any.value) = consensus_state,
           StoreConsensusState(c, height, any)
    PROVE  Client!StoreConsensusState(c, height, consensus_state)
<1> DEFINE heights == DOMAIN any_consensus_states[c] \cup {height}
           stored == [h \in heights |-> IF h = height THEN any
                                                      ELSE any_consensus_states[c][h]]
           view   == [h \in heights |-> IF h = height THEN consensus_state
                                                      ELSE ConsensusStates[c][h]]
<1>1. DOMAIN any_consensus_states = ClientIds
  BY DEF WireInv, StoreInv
<1>2. /\ any_consensus_states'[c] = stored
      /\ \A d \in ClientIds \ {c} : any_consensus_states'[d] = any_consensus_states[d]
  BY <1>1 DEF StoreConsensusState
<1>3. [h \in DOMAIN stored |-> ConsensusStateOf(stored[h].value)] = view
  BY DEF ConsensusStates
<1> HIDE DEF stored
<1>4. ConsensusStates' = [ConsensusStates EXCEPT ![c] = view]
  BY <1>2, <1>3 DEF ConsensusStates
<1>5. DOMAIN ConsensusStates[c] \cup {height} = heights
  BY DEF ConsensusStates
<1> QED
  BY <1>4, <1>5 DEF Client!StoreConsensusState

-----------------------------------------------------------------------------
(* Each step is a step of Client *)

\* A creation that is accepted is one of those that Client accepts, made with
\* the same fault or, when it was spoilt into being right, with none.
LEMMA AcceptedCreation ==
    ASSUME NEW block \in CanonicalBlocks, NEW creation \in Creations(block),
           IsClientStateAny(creation[1]), IsConsensusStateAny(creation[2]),
           ~is_frozen(ClientStateOf(creation[1].value)),
           validate_ConsensusState(ConsensusStateOf(creation[2].value))
    PROVE  /\ creation[1] \in Any
           /\ \E params \in Params, fault \in Omissions \cup {"nothing"} :
                 /\ ClientStateOf(creation[1].value)
                      = CreatedClientState(params, block, fault)
                 /\ ConsensusStateOf(creation[2].value)
                      = CreatedConsensusState(block, fault)
<1> DEFINE cs == ClientStateOf(creation[1].value)
<1>1. PICK params \in Params, fault \in Omissions \cup {"nothing"} :
         /\ creation[1] \in DamagedClientState(
                AnyOfClientState(CreatedClientState(params, block, fault)))
         /\ creation[2] \in DamagedConsensusState(
                AnyOfConsensusState(CreatedConsensusState(block, fault)))
  BY DEF Creations
<1> DEFINE created == CreatedClientState(params, block, fault)
<1>2. /\ creation[1] \in Any
      /\ cs \in {created, [created EXCEPT !.frozen_height = None]}
  BY <1>1, CreatedClientStateForm, DamagedClientStateDecodes
<1>3. ConsensusStateOf(creation[2].value) = CreatedConsensusState(block, fault)
  BY <1>1, DamagedConsensusStateDecodes
<1>4. cs = [created EXCEPT !.frozen_height = None]
  <2>1. created.frozen_height = None => created = [created EXCEPT !.frozen_height = None]
    BY DEF CreatedClientState
  <2>2. cs.frozen_height = None
    BY <1>2 DEF is_frozen, CreatedClientState
  <2> QED
    BY <1>2, <2>1, <2>2
<1>5. CASE fault # "frozen_height"
  <2>1. cs = created
    BY <1>4, <1>5 DEF CreatedClientState
  <2> QED
    BY <1>2, <1>3, <2>1
<1>6. CASE fault = "frozen_height"
  <2>1. /\ cs = CreatedClientState(params, block, "nothing")
        /\ CreatedConsensusState(block, fault) = CreatedConsensusState(block, "nothing")
    BY <1>4, <1>6 DEF CreatedClientState, CreatedConsensusState
  <2> QED
    BY <1>2, <1>3, <2>1
<1> QED
  BY <1>5, <1>6

LEMMA CreationIsACreation ==
    ASSUME WireInv, NEW c \in ClientIds, NEW block \in CanonicalBlocks,
           NEW creation \in Creations(block),
           compute_timestamp_at_slot(block.slot) <= now,
           CreateClient(c, creation[1], creation[2])
    PROVE  Client!Call(c)
<1> DEFINE cs              == ClientStateOf(creation[1].value)
           consensus_state == ConsensusStateOf(creation[2].value)
           m               == CreateClientMessage(c, cs, consensus_state, creation[1])
<1>1. /\ any_client_states[c] = None
      /\ IsClientStateAny(creation[1]) /\ IsConsensusStateAny(creation[2])
      /\ validate_ClientState(cs) /\ ~is_frozen(cs)
      /\ validate_ConsensusState(consensus_state)
      /\ any_client_states' = [any_client_states EXCEPT ![c] = creation[1]]
      /\ StoreConsensusState(c, cs.latest_execution_block_number, creation[2])
      /\ message' = m
      /\ now' = now /\ corrupt' = corrupt
  BY DEF CreateClient
<1>2. PICK params \in Params, fault \in Omissions \cup {"nothing"} :
         /\ creation[1] \in Any
         /\ cs = CreatedClientState(params, block, fault)
         /\ consensus_state = CreatedConsensusState(block, fault)
  BY <1>1, AcceptedCreation
<1>3. ClientStates[c] = None /\ ClientStates' = [ClientStates EXCEPT ![c] = cs]
  BY <1>1, <1>2, StoreViews, StoredViews
<1>4. Client!StoreConsensusState(c, cs.latest_execution_block_number, consensus_state)
  BY <1>1, StoreConsensusViews
<1>5. MessageOf(message)' = Client!CreateClientMessage(c, cs, consensus_state, cs)
  BY <1>1, DecodedCreateClientMessage, SameMessages
<1>6. /\ Client!compute_timestamp_at_slot(block.slot) <= now
      /\ Client!validate_ClientState(cs) /\ ~Client!is_frozen(cs)
      /\ Client!validate_ConsensusState(consensus_state)
      /\ Client!CreatedClientState(params, block, fault) = cs
      /\ Client!CreatedConsensusState(block, fault) = consensus_state
      /\ block \in Client!CanonicalBlocks
  BY <1>1, <1>2, SameChain, SameChecks, SameStates
<1> HIDE DEF cs, consensus_state, m
<1>7. Client!CreateClient(c, params, block, fault)
  BY <1>1, <1>3, <1>4, <1>5, <1>6 DEF Client!CreateClient
<1> QED
  BY <1>6, <1>7 DEF Client!Call

LEMMA UpdateIsAnUpdate ==
    ASSUME WireInv, NEW c \in ClientIds, NEW header \in Headers, UpdateState(c, header)
    PROVE  Client!Call(c)
<1> DEFINE height          == header.execution.block_number
           trusted_height  == header.trusted.height
           cs              == read_client_state(c)
           consensus_state == read_consensus_state(c, trusted_height)
           new_cs          == new_client_state(cs, header)
           new_state       == new_consensus_state(consensus_state, header)
           m               == UpdateStateMessage(c, cs, consensus_state, header)
<1>1. /\ IsReadable(c, trusted_height) /\ ~is_frozen(cs)
      /\ check_header(cs, consensus_state, header, now, corrupt)
      /\ any_client_states' = [any_client_states EXCEPT ![c] = AnyOfClientState(new_cs)]
      /\ StoreConsensusState(c, height, AnyOfConsensusState(new_state))
      /\ message' = m
      /\ now' = now /\ corrupt' = corrupt
  BY DEF UpdateState, AcceptsHeader
<1>2. TypeOK /\ now \in Nat /\ header \in Header
  BY WireInvIsTypeAndProperties, InputAssumption DEF TypeOK
<1>3. cs \in ClientState /\ consensus_state \in ConsensusState
  BY <1>1, <1>2, ReadStatesType
<1>4. /\ Client!IsStored(c, trusted_height)
      /\ ClientStates[c] = cs /\ ConsensusStates[c][trusted_height] = consensus_state
  BY <1>1, ReadViews
<1> HIDE DEF cs, consensus_state
<1>5. new_cs \in ClientState /\ new_state \in ConsensusState
  BY <1>1, <1>2, <1>3, UpdateStateMessageType, NewConsensusStateType
<1>6. ClientStates' = [ClientStates EXCEPT ![c] = new_cs]
  BY <1>1, <1>5, ClientStateRoundTrip, StoreViews
<1>7. Client!StoreConsensusState(c, height, new_state)
  BY <1>1, <1>5, ConsensusStateRoundTrip, StoreConsensusViews
<1>8. MessageOf(message)' = Client!UpdateStateMessage(c, cs, consensus_state, header)
  BY <1>1, DecodedUpdateStateMessage, SameMessages
<1>9. /\ ~Client!is_frozen(cs)
      /\ Client!check_header(cs, consensus_state, header, now, corrupt)
      /\ Client!new_client_state(cs, header) = new_cs
      /\ Client!new_consensus_state(consensus_state, header) = new_state
  BY <1>1, SameChecks, SameStates
<1> HIDE DEF new_cs, new_state, m
<1>10. Client!UpdateState(c, header)
  BY <1>1, <1>4, <1>6, <1>7, <1>8, <1>9 DEF Client!UpdateState
<1> QED
  BY <1>10 DEF Client!Call

LEMMA MisbehaviourIsMisbehaviour ==
    ASSUME WireInv, NEW c \in ClientIds, NEW any_message,
           MisbehaviourOf(any_message) \in Misbehaviours,
           SubmitMisbehaviour(c, any_message, MisbehaviourOf(any_message))
    PROVE  Client!Call(c)
<1> DEFINE misbehaviour    == MisbehaviourOf(any_message)
           trusted_height  == misbehaviour.trusted.height
           cs              == read_client_state(c)
           consensus_state == read_consensus_state(c, trusted_height)
           frozen          == with_frozen_height(cs, trusted_height)
           prev_states     == {<<trusted_height, gen_state_id(cs, consensus_state)>>}
           m == MisbehaviourMessage(c, cs, consensus_state, prev_states, any_message)
<1>1. /\ IsReadable(c, trusted_height) /\ ~is_frozen(cs)
      /\ check_misbehaviour(cs, c, consensus_state, misbehaviour, now, corrupt)
      /\ any_client_states' = [any_client_states EXCEPT ![c] = AnyOfClientState(frozen)]
      /\ message' = m
      /\ any_consensus_states' = any_consensus_states /\ now' = now /\ corrupt' = corrupt
  BY DEF SubmitMisbehaviour
<1>2. cs \in ClientState /\ consensus_state \in ConsensusState /\ trusted_height \in Nat
  BY <1>1, ReadStatesType, WireInvIsTypeAndProperties
<1>3. /\ Client!IsStored(c, trusted_height)
      /\ ClientStates[c] = cs /\ ConsensusStates[c][trusted_height] = consensus_state
  BY <1>1, ReadViews
<1> HIDE DEF misbehaviour, trusted_height, cs, consensus_state
<1>4. frozen \in ClientState
  BY <1>2 DEF with_frozen_height, ClientState
<1>5. ClientStates' = [ClientStates EXCEPT ![c] = frozen]
  BY <1>1, <1>4, ClientStateRoundTrip, StoreViews
<1>6. Client!make_prev_states(c, cs, {trusted_height}) = prev_states
  BY <1>3, SameStates DEF Client!make_prev_states
<1>7. MessageOf(message)'
        = Client!MisbehaviourMessage(c, cs, consensus_state, prev_states, misbehaviour)
  BY <1>1, DecodedMisbehaviourMessage, SameMessages DEF misbehaviour
<1>8. /\ ~Client!is_frozen(cs)
      /\ Client!check_misbehaviour(cs, c, consensus_state, misbehaviour, now, corrupt)
      /\ Client!with_frozen_height(cs, trusted_height) = frozen
  BY <1>1, SameChecks, SameStates
<1>9. ConsensusStates' = ConsensusStates
  BY <1>1 DEF ConsensusStates
<1> HIDE DEF frozen, prev_states, m
<1>10. trusted_height = misbehaviour.trusted.height
  BY DEF trusted_height
<1>11. Client!SubmitMisbehaviour(c, misbehaviour)
  BY <1>1, <1>3, <1>5, <1>6, <1>7, <1>8, <1>9, <1>10 DEF Client!SubmitMisbehaviour
<1> QED
  BY <1>11 DEF Client!Call, misbehaviour

LEMMA MembershipIsMembership ==
    ASSUME WireInv, NEW c \in ClientIds, NEW height, NEW value \in {"present", "absent"},
           VerifyMembership(c, height, value)
    PROVE  Client!Call(c)
<1> DEFINE cs              == read_client_state(c)
           consensus_state == read_consensus_state(c, height)
<1>1. /\ IsReadable(c, height) /\ ~is_frozen(cs)
      /\ value = "present" => verify_membership(consensus_state)
      /\ value = "absent" => verify_non_membership(consensus_state)
      /\ message' = MembershipMessage(c, cs, height, consensus_state, value)
      /\ UNCHANGED <<any_client_states, any_consensus_states, now, corrupt>>
  BY DEF VerifyMembership, store
<1>2. /\ Client!IsStored(c, height)
      /\ ClientStates[c] = cs /\ ConsensusStates[c][height] = consensus_state
  BY <1>1, ReadViews
<1> HIDE DEF cs, consensus_state
<1>3. MessageOf(message)' = Client!MembershipMessage(c, cs, height, consensus_state, value)
  BY <1>1, DecodedMembershipMessage, SameMessages
<1>4. /\ ~Client!is_frozen(cs)
      /\ value = "present" => Client!verify_membership(consensus_state)
      /\ value = "absent" => Client!verify_non_membership(consensus_state)
  BY <1>1, SameChecks
<1>5. ClientStates' = ClientStates /\ ConsensusStates' = ConsensusStates
  BY <1>1 DEF ClientStates, ConsensusStates
<1>6. CASE value = "present"
  <2>1. Client!VerifyMembership(c, height)
    BY <1>1, <1>2, <1>3, <1>4, <1>5, <1>6 DEF Client!VerifyMembership, Client!store
  <2> QED
    BY <1>2, <2>1 DEF Client!Call, Client!IsStored
<1>7. CASE value = "absent"
  <2>1. Client!VerifyNonMembership(c, height)
    BY <1>1, <1>2, <1>3, <1>4, <1>5, <1>7 DEF Client!VerifyNonMembership, Client!store
  <2> QED
    BY <1>2, <2>1 DEF Client!Call, Client!IsStored
<1> QED
  BY <1>6, <1>7

\* Spoiling misbehaviour can at most make it the other kind of misbehaviour:
\* its type URL is the relayer's to choose.
LEMMA SpoiltMisbehaviour ==
    ASSUME NEW misbehaviour \in Misbehaviours,
           NEW any \in Damaged(AnyOfMisbehaviour(misbehaviour)), IsMisbehaviourAny(any)
    PROVE  MisbehaviourOf(any) \in Misbehaviours
<1> DEFINE value == [client_id |-> misbehaviour.client_id,
                     trusted_sync_committee |-> misbehaviour.trusted,
                     consensus_update_1 |-> misbehaviour.data.update_1,
                     consensus_update_2 |-> misbehaviour.data.update_2]
<1>1. PICK u \in TypeUrls, e \in {"Misbehaviour", "none"}, v \in Spoilt(value) :
           any = MakeAny(u, e, v)
  BY DamagedForms DEF AnyOfMisbehaviour, TypeUrls
<1>2. any = [type_url |-> u, encoding |-> e, value |-> v]
  BY <1>1 DEF MakeAny
<1>3. \A f \in DOMAIN v : IsConverted(v[f])
  BY <1>2 DEF IsMisbehaviourAny
<1>4. v = value
  BY <1>3, UnspoiltValue
<1>5. PICK kind \in {"FinalizedHeader", "NextSyncCommittee"} :
         MisbehaviourOf(any) =
           [client_id |-> misbehaviour.client_id, trusted |-> misbehaviour.trusted,
            data |-> [kind |-> kind, update_1 |-> misbehaviour.data.update_1,
                      update_2 |-> misbehaviour.data.update_2]]
  BY <1>2, <1>4 DEF MisbehaviourOf
<1>6. misbehaviour \in Misbehaviour
  BY InputAssumption
<1>7. MisbehaviourOf(any) = [misbehaviour EXCEPT !.data.kind = kind]
  BY <1>5, <1>6 DEF Misbehaviour
<1> QED
  BY <1>7, KindAssumption

LEMMA StepIsAStep ==
    ASSUME WireInv, [Next]_vars
    PROVE  [Client!Next]_(Client!vars)
<1>1. ASSUME NEW c \in ClientIds, NEW block \in CanonicalBlocks,
             compute_timestamp_at_slot(block.slot) <= now,
             NEW creation \in Creations(block), CreateClient(c, creation[1], creation[2])
      PROVE  Client!Next
  BY <1>1, CreationIsACreation DEF Client!Next
<1>2. ASSUME NEW c \in ClientIds, NEW header \in Headers,
             NEW any \in Damaged(AnyOfHeader(header)), UpdateClient(c, any)
      PROVE  Client!Next
  <2>1. any.encoding \in {"Header", "none"}
    BY DamagedForms DEF AnyOfHeader, MakeAny, TypeUrls
  <2>2. IsHeaderAny(any) /\ UpdateState(c, HeaderOf(any.value))
    BY <1>2, <2>1 DEF UpdateClient, IsMisbehaviourAny, IsAnyOf
  <2>3. HeaderOf(any.value) = header
    BY <2>2, DamagedHeader, InputAssumption
  <2> QED
    BY <2>2, <2>3, UpdateIsAnUpdate DEF Client!Next
<1>3. ASSUME NEW c \in ClientIds, NEW misbehaviour \in Misbehaviours,
             NEW any \in Damaged(AnyOfMisbehaviour(misbehaviour)), UpdateClient(c, any)
      PROVE  Client!Next
  <2>1. any.encoding \in {"Misbehaviour", "none"}
    BY DamagedForms DEF AnyOfMisbehaviour, MakeAny, TypeUrls
  <2>2. IsMisbehaviourAny(any) /\ SubmitMisbehaviour(c, any, MisbehaviourOf(any))
    BY <1>3, <2>1 DEF UpdateClient, IsHeaderAny, IsAnyOf
  <2> QED
    BY <2>2, SpoiltMisbehaviour, MisbehaviourIsMisbehaviour DEF Client!Next
<1>4. ASSUME NEW c \in ClientIds, NEW height, NEW value \in {"present", "absent"},
             VerifyMembership(c, height, value)
      PROVE  Client!Next
  BY <1>4, MembershipIsMembership DEF Client!Next
<1>5. ASSUME UNCHANGED <<any_client_states, any_consensus_states>>
      PROVE  ClientStates' = ClientStates /\ ConsensusStates' = ConsensusStates
  BY <1>5 DEF ClientStates, ConsensusStates
<1>6. CASE Tick
  BY <1>5, <1>6 DEF Tick, store, Client!Next, Client!Tick, Client!store
<1>7. ASSUME NEW period \in CommitteePeriods, CorruptCommittee(period)
      PROVE  Client!Next
  BY <1>5, <1>7, SameCorruption, SameChain
     DEF CorruptCommittee, store, Client!Next, Client!CorruptCommittee, Client!store
<1>8. CASE UNCHANGED vars
  BY <1>5, <1>8 DEF vars, Client!vars
<1> QED
  BY <1>1, <1>2, <1>3, <1>4, <1>6, <1>7, <1>8 DEF Next

-----------------------------------------------------------------------------
(* The refinement *)

\* Over its encoded store the client does what EthereumLightClient does over
\* decoded values: encoding loses nothing, and what does not decode is ignored
\* (client.rs 42-163, header.rs 28-45, misbehaviour.rs 143-161).
THEOREM EncodingIsTransparent == Spec => ImplementsClient
<1>1. Init => Client!Init
  <2> SUFFICES ASSUME Init PROVE Client!Init
    OBVIOUS
  <2>1. ClientStates = [c \in ClientIds |-> None]
    BY DEF Init, ClientStates
  <2>2. ConsensusStates = [c \in ClientIds |-> [h \in {} |-> Client!DefaultConsensusState]]
    BY DEF Init, ConsensusStates
  <2>3. MessageOf(message) = Client!NoMessage
    BY SameMessages DEF Init, MessageOf, NoMessage
  <2> QED
    BY <2>1, <2>2, <2>3 DEF Init, Client!Init
<1>2. WireInv /\ [Next]_vars => [Client!Next]_(Client!vars)
  BY StepIsAStep
<1> QED
  BY <1>1, <1>2, WireInductive, PTL DEF Spec, ImplementsClient, Client!Spec

-----------------------------------------------------------------------------
(* What the encoded store holds is true *)

\* The keys that are in other hands are those the weak subjectivity assumption
\* allows to be.
CorruptionIsAllowed == \A p \in corrupt : MayBeCorrupted(p, now)

StoredStatesAreTrustworthy ==
    \A c \in ClientIds : \A h \in DOMAIN any_consensus_states[c] :
        IsTrustworthy(h, read_consensus_state(c, h))

FreezesHaveEvidence ==
    \A c \in ClientIds :
        any_client_states[c] # None /\ read_client_state(c).frozen_height # None =>
            LET height == read_client_state(c).frozen_height
            IN  /\ height \in DOMAIN any_consensus_states[c]
                /\ IsBlamed(read_consensus_state(c, height))

\* Inductive given WireInv, for the reason that Trust is in
\* EthereumLightClientProofs.
WireTrust == CorruptionIsAllowed /\ StoredStatesAreTrustworthy /\ FreezesHaveEvidence

\* The other clients and the other heights keep their Anys.
LEMMA StoreEffect ==
    ASSUME WireInv, NEW c \in ClientIds, NEW height, NEW any,
           StoreConsensusState(c, height, any)
    PROVE  /\ DOMAIN any_consensus_states'[c] = DOMAIN any_consensus_states[c] \cup {height}
           /\ \A h \in DOMAIN any_consensus_states[c] \cup {height} :
                any_consensus_states'[c][h] =
                  IF h = height THEN any ELSE any_consensus_states[c][h]
           /\ \A d \in ClientIds \ {c} : any_consensus_states'[d] = any_consensus_states[d]
BY DEF StoreConsensusState, WireInv, StoreInv

\* Storing the Any of a trustworthy state, together with an unfrozen client
\* state, keeps what is stored true.
LEMMA TrustworthyAnyStored ==
    ASSUME WireInv, WireTrust, NEW c \in ClientIds, NEW height, NEW any, NEW any_cs,
           IsTrustworthy(height, ConsensusStateOf(any.value)),
           ~is_frozen(ClientStateOf(any_cs.value)),
           StoreConsensusState(c, height, any),
           any_client_states' = [any_client_states EXCEPT ![c] = any_cs]
    PROVE  StoredStatesAreTrustworthy' /\ FreezesHaveEvidence'
<1>1. /\ any_client_states'[c] = any_cs
      /\ \A d \in ClientIds \ {c} : any_client_states'[d] = any_client_states[d]
  BY DEF WireInv, StoreInv
<1>2. StoredStatesAreTrustworthy'
  <2> SUFFICES ASSUME NEW d \in ClientIds, NEW h \in DOMAIN any_consensus_states'[d]
               PROVE  IsTrustworthy(h, ConsensusStateOf(any_consensus_states'[d][h].value))
    BY DEF StoredStatesAreTrustworthy, read_consensus_state, IsTrustworthy,
           IsCanonicalState, IsBlamed, current_period
  <2>1. CASE d = c /\ h = height
    BY <2>1, StoreEffect
  <2>2. CASE ~(d = c /\ h = height)
    <3>1. /\ h \in DOMAIN any_consensus_states[d]
          /\ any_consensus_states'[d][h] = any_consensus_states[d][h]
      BY <2>2, StoreEffect
    <3>2. IsTrustworthy(h, ConsensusStateOf(any_consensus_states[d][h].value))
      BY <3>1 DEF WireTrust, StoredStatesAreTrustworthy, read_consensus_state
    <3> QED
      BY <3>1, <3>2
  <2> QED
    BY <2>1, <2>2
<1>3. FreezesHaveEvidence'
  <2> SUFFICES ASSUME NEW d \in ClientIds, any_client_states'[d] # None,
                      ClientStateOf(any_client_states'[d].value).frozen_height # None
               PROVE  LET h == ClientStateOf(any_client_states'[d].value).frozen_height
                      IN  /\ h \in DOMAIN any_consensus_states'[d]
                          /\ IsBlamed(ConsensusStateOf(any_consensus_states'[d][h].value))
    BY DEF FreezesHaveEvidence, read_client_state, read_consensus_state, IsBlamed,
           current_period
  <2>1. d # c
    BY <1>1 DEF is_frozen
  <2>2. /\ any_client_states'[d] = any_client_states[d]
        /\ any_consensus_states'[d] = any_consensus_states[d]
    BY <1>1, <2>1, StoreEffect
  <2> QED
    BY <2>2 DEF WireTrust, FreezesHaveEvidence, read_client_state, read_consensus_state
<1> QED
  BY <1>2, <1>3

LEMMA CreationIsTrustworthy ==
    ASSUME "storage_root" \notin Omissions, WireInv, WireTrust,
           NEW c \in ClientIds, NEW block \in CanonicalBlocks,
           NEW creation \in Creations(block), CreateClient(c, creation[1], creation[2])
    PROVE  WireTrust'
<1> DEFINE cs              == ClientStateOf(creation[1].value)
           consensus_state == ConsensusStateOf(creation[2].value)
<1>1. /\ IsClientStateAny(creation[1]) /\ IsConsensusStateAny(creation[2])
      /\ validate_ClientState(cs) /\ ~is_frozen(cs)
      /\ validate_ConsensusState(consensus_state)
      /\ any_client_states' = [any_client_states EXCEPT ![c] = creation[1]]
      /\ StoreConsensusState(c, cs.latest_execution_block_number, creation[2])
      /\ now' = now /\ corrupt' = corrupt
  BY DEF CreateClient
<1>2. IsTrustworthy(cs.latest_execution_block_number, consensus_state)
  BY <1>1, AcceptedCreation, CreatedStateIsCanonical DEF IsTrustworthy
<1> HIDE DEF cs
<1>3. StoredStatesAreTrustworthy' /\ FreezesHaveEvidence'
  BY <1>1, <1>2, TrustworthyAnyStored DEF cs
<1>4. CorruptionIsAllowed'
  BY <1>1 DEF WireTrust, CorruptionIsAllowed, MayBeCorrupted
<1> QED
  BY <1>3, <1>4 DEF WireTrust

LEMMA UpdateIsTrustworthy ==
    ASSUME WireInv, WireTrust, NEW c \in ClientIds, NEW header \in Header,
           UpdateState(c, header)
    PROVE  WireTrust'
<1> DEFINE height          == header.execution.block_number
           trusted_height  == header.trusted.height
           cs              == read_client_state(c)
           consensus_state == read_consensus_state(c, trusted_height)
           new_cs          == new_client_state(cs, header)
           new_state       == new_consensus_state(consensus_state, header)
<1>1. /\ IsReadable(c, trusted_height) /\ ~is_frozen(cs)
      /\ check_header(cs, consensus_state, header, now, corrupt)
      /\ any_client_states' = [any_client_states EXCEPT ![c] = AnyOfClientState(new_cs)]
      /\ StoreConsensusState(c, height, AnyOfConsensusState(new_state))
      /\ now' = now /\ corrupt' = corrupt
  BY DEF UpdateState, AcceptsHeader
<1>2. TypeOK /\ now \in Nat
  BY WireInvIsTypeAndProperties DEF TypeOK
<1>3. cs \in ClientState /\ consensus_state \in ConsensusState
  BY <1>1, <1>2, ReadStatesType
<1>4. IsTrustworthy(trusted_height, consensus_state)
  BY <1>1 DEF IsReadable, WireTrust, StoredStatesAreTrustworthy
<1> HIDE DEF cs, consensus_state
<1>5. new_cs \in ClientState /\ new_state \in ConsensusState
  BY <1>1, <1>2, <1>3, UpdateStateMessageType, NewConsensusStateType
<1>6. IsTrustworthy(height, new_state)
  BY <1>1, <1>2, <1>3, <1>4, AcceptedHeader DEF check_header, WireTrust, CorruptionIsAllowed
<1>7. ~is_frozen(new_cs)
  BY <1>1, <1>3 DEF is_frozen, new_client_state, ClientState
<1> HIDE DEF new_cs, new_state, height
<1>8. StoredStatesAreTrustworthy' /\ FreezesHaveEvidence'
  BY <1>1, <1>5, <1>6, <1>7, ClientStateRoundTrip, ConsensusStateRoundTrip,
     TrustworthyAnyStored
<1>9. CorruptionIsAllowed'
  BY <1>1 DEF WireTrust, CorruptionIsAllowed, MayBeCorrupted
<1> QED
  BY <1>8, <1>9 DEF WireTrust

LEMMA MisbehaviourHasEvidence ==
    ASSUME WireInv, WireTrust, NEW c \in ClientIds, NEW any_message,
           MisbehaviourOf(any_message) \in Misbehaviour,
           SubmitMisbehaviour(c, any_message, MisbehaviourOf(any_message))
    PROVE  WireTrust'
<1> DEFINE misbehaviour    == MisbehaviourOf(any_message)
           h               == misbehaviour.trusted.height
           cs              == read_client_state(c)
           consensus_state == read_consensus_state(c, h)
           frozen          == with_frozen_height(cs, h)
<1>1. /\ IsReadable(c, h)
      /\ check_misbehaviour(cs, c, consensus_state, misbehaviour, now, corrupt)
      /\ any_client_states' = [any_client_states EXCEPT ![c] = AnyOfClientState(frozen)]
      /\ any_consensus_states' = any_consensus_states /\ now' = now /\ corrupt' = corrupt
  BY DEF SubmitMisbehaviour
<1>2. TypeOK /\ now \in Nat
  BY WireInvIsTypeAndProperties DEF TypeOK
<1>3. cs \in ClientState /\ consensus_state \in ConsensusState /\ h \in Nat
  BY <1>1, <1>2, ReadStatesType
<1>4. h \in DOMAIN any_consensus_states[c] /\ IsTrustworthy(h, consensus_state)
  BY <1>1 DEF IsReadable, WireTrust, StoredStatesAreTrustworthy
<1> HIDE DEF misbehaviour, cs
<1>5. IsBlamed(consensus_state)
  <2> HIDE DEF h, consensus_state
  <2> misbehaviour \in Misbehaviour
    BY DEF misbehaviour
  <2> QED
    BY <1>1, <1>2, <1>3, <1>4, AcceptedMisbehaviour
       DEF check_misbehaviour, WireTrust, CorruptionIsAllowed
<1>6. frozen \in ClientState /\ frozen.frozen_height = h
  BY <1>3 DEF with_frozen_height, ClientState
<1> HIDE DEF h, frozen
<1>7. /\ ClientStateOf(any_client_states'[c].value).frozen_height = h
      /\ \A d \in ClientIds \ {c} : any_client_states'[d] = any_client_states[d]
  BY <1>1, <1>6, ClientStateRoundTrip DEF WireInv, StoreInv
<1>8. FreezesHaveEvidence'
  <2> SUFFICES ASSUME NEW d \in ClientIds, any_client_states'[d] # None,
                      ClientStateOf(any_client_states'[d].value).frozen_height # None
               PROVE  LET height == ClientStateOf(any_client_states'[d].value).frozen_height
                      IN  /\ height \in DOMAIN any_consensus_states[d]
                          /\ IsBlamed(ConsensusStateOf(
                                         any_consensus_states[d][height].value))
    BY <1>1 DEF FreezesHaveEvidence, read_client_state, read_consensus_state, IsBlamed,
                current_period
  <2>1. CASE d = c
    BY <1>4, <1>5, <1>7, <2>1 DEF read_consensus_state
  <2>2. CASE d # c
    BY <1>7, <2>2 DEF WireTrust, FreezesHaveEvidence, read_client_state, read_consensus_state
  <2> QED
    BY <2>1, <2>2
<1>9. CorruptionIsAllowed' /\ StoredStatesAreTrustworthy'
  BY <1>1 DEF WireTrust, CorruptionIsAllowed, MayBeCorrupted, StoredStatesAreTrustworthy,
              read_consensus_state, IsTrustworthy, IsCanonicalState, IsBlamed, current_period
<1> QED
  BY <1>8, <1>9 DEF WireTrust

\* Steps that leave the store alone.
LEMMA TrustKeptWithoutStore ==
    ASSUME WireInv, WireTrust, UNCHANGED store,
           UNCHANGED <<now, corrupt>> \/ Tick
             \/ \E period \in CommitteePeriods : CorruptCommittee(period)
    PROVE  WireTrust'
<1>1. StoredStatesAreTrustworthy' /\ FreezesHaveEvidence'
  BY DEF WireTrust, StoredStatesAreTrustworthy, FreezesHaveEvidence, store,
         read_client_state, read_consensus_state, IsTrustworthy, IsCanonicalState, IsBlamed,
         current_period
<1>2. CorruptionIsAllowed'
  <2>1. CASE UNCHANGED <<now, corrupt>>
    BY <2>1 DEF WireTrust, CorruptionIsAllowed, MayBeCorrupted
  <2>2. CASE Tick
    <3>1. \A slot \in Slots : compute_timestamp_at_slot(slot) \in Nat
      BY SlotAssumption DEF Slots, compute_timestamp_at_slot
    <3> QED
      BY <2>2, <3>1, SlotAssumption
         DEF Tick, WireTrust, CorruptionIsAllowed, MayBeCorrupted, WireInv, EnvironmentInv
  <2>3. ASSUME NEW period \in CommitteePeriods, CorruptCommittee(period)
        PROVE  CorruptionIsAllowed'
    BY <2>3 DEF CorruptCommittee, WireTrust, CorruptionIsAllowed, MayBeCorrupted
  <2> QED
    BY <2>1, <2>2, <2>3
<1> QED
  BY <1>1, <1>2 DEF WireTrust

LEMMA WireTrustHolds ==
    ASSUME "storage_root" \notin Omissions
    PROVE  Spec => []WireTrust
<1>1. Init => WireTrust
  BY DEF Init, WireTrust, CorruptionIsAllowed, StoredStatesAreTrustworthy,
         FreezesHaveEvidence
<1>2. ASSUME WireInv, WireTrust, [Next]_vars PROVE WireTrust'
  <2>1. ASSUME NEW c \in ClientIds, NEW block \in CanonicalBlocks,
               NEW creation \in Creations(block), CreateClient(c, creation[1], creation[2])
        PROVE  WireTrust'
    BY <1>2, <2>1, CreationIsTrustworthy
  <2>2. ASSUME NEW c \in ClientIds, NEW header \in Headers,
               NEW any \in Damaged(AnyOfHeader(header)), UpdateClient(c, any)
        PROVE  WireTrust'
    <3>1. any.encoding \in {"Header", "none"}
      BY DamagedForms DEF AnyOfHeader, MakeAny, TypeUrls
    <3>2. IsHeaderAny(any) /\ UpdateState(c, HeaderOf(any.value))
      BY <2>2, <3>1 DEF UpdateClient, IsMisbehaviourAny, IsAnyOf
    <3> QED
      BY <1>2, <3>2, DamagedHeader, UpdateIsTrustworthy, InputAssumption
  <2>3. ASSUME NEW c \in ClientIds, NEW misbehaviour \in Misbehaviours,
               NEW any \in Damaged(AnyOfMisbehaviour(misbehaviour)), UpdateClient(c, any)
        PROVE  WireTrust'
    <3>1. any.encoding \in {"Misbehaviour", "none"}
      BY DamagedForms DEF AnyOfMisbehaviour, MakeAny, TypeUrls
    <3>2. IsMisbehaviourAny(any) /\ SubmitMisbehaviour(c, any, MisbehaviourOf(any))
      BY <2>3, <3>1 DEF UpdateClient, IsHeaderAny, IsAnyOf
    <3> QED
      BY <1>2, <3>2, DamagedMisbehaviour, MisbehaviourHasEvidence, InputAssumption
  <2>4. ASSUME NEW c \in ClientIds, NEW height, NEW value, VerifyMembership(c, height, value)
        PROVE  WireTrust'
    BY <1>2, <2>4, TrustKeptWithoutStore DEF VerifyMembership
  <2>5. CASE Tick \/ \E period \in CommitteePeriods : CorruptCommittee(period)
    BY <1>2, <2>5, TrustKeptWithoutStore DEF Tick, CorruptCommittee
  <2>6. CASE UNCHANGED vars
    BY <1>2, <2>6, TrustKeptWithoutStore DEF vars, store
  <2> QED
    BY <1>2, <2>1, <2>2, <2>3, <2>4, <2>5, <2>6 DEF Next
<1> QED
  BY <1>1, <1>2, WireInductive, PTL DEF Spec

\* See TrustedStates and NoFalseFreeze in EthereumLightClient: what the Anys in
\* the host's store decode to is canonical, or vouched for by a committee that
\* equivocates, and a client is frozen by evidence only (client_state.rs
\* 176-282, consensus_state.rs 96-154).
THEOREM EncodedStatesAreTrustworthy ==
    ASSUME "storage_root" \notin Omissions
    PROVE  Spec => [](Client!TrustedStates /\ Client!NoFalseFreeze)
<1>1. \A height, cs : /\ Client!IsCanonicalState(height, cs) <=> IsCanonicalState(height, cs)
                      /\ Client!IsBlamed(cs) <=> IsBlamed(cs)
  BY SameChain DEF Client!IsCanonicalState, IsCanonicalState, Client!IsBlamed, IsBlamed,
                   Client!current_period, current_period
<1>2. WireInv /\ WireTrust => Client!TrustedStates
  BY <1>1 DEF WireTrust, StoredStatesAreTrustworthy, IsTrustworthy, ConsensusStates,
              read_consensus_state, Client!TrustedStates
<1>3. WireInv /\ WireTrust => Client!NoFalseFreeze
  <2> SUFFICES ASSUME WireInv, WireTrust, NEW c \in ClientIds,
                      ClientStates[c] # None, ClientStates[c].frozen_height # None
               PROVE  LET height == ClientStates[c].frozen_height
                      IN  /\ height \in DOMAIN ConsensusStates[c]
                          /\ Client!IsBlamed(ConsensusStates[c][height])
    BY DEF Client!NoFalseFreeze
  <2> QED
    BY <1>1 DEF WireTrust, FreezesHaveEvidence, ClientStates, ConsensusStates,
                read_client_state, read_consensus_state
<1> QED
  BY <1>2, <1>3, WireInductive, WireTrustHolds, PTL
=============================================================================
