------------------------ MODULE HonestRelayerProofs -------------------------
(***************************************************************************)
(* Proof that an honest relayer is never turned away: the states that the  *)
(* client has stored are canonical and decode, and a header built from the *)
(* canonical chain passes every check of check_header_and_update_state.    *)
(***************************************************************************)
EXTENDS HonestRelayer, AnyStoreRefinementProofs

\* Each early return of the checks, for a header that proves a later canonical
\* block from an unexpired canonical state.
LEMMA HonestHeaderPassesChecks ==
    ASSUME now \in Nat, NEW cs \in ClientState, NEW height, NEW header \in Header,
           NEW consensus_state \in ConsensusState,
           IsCanonicalState(height, consensus_state),
           IsHonestHeader(header, consensus_state),
           validate_state_timestamp_within_trusting_period(
               now, cs.params.trusting_period, consensus_state.timestamp)
    PROVE  check_header(cs, consensus_state, header, now, corrupt)
<1> DEFINE update == header.update
           block  == update.finalized
           key    == header.trusted.sync_committee
           P0     == current_period(consensus_state)
           P1     == compute_sync_committee_period_at_slot(block.slot)
           Q      == compute_sync_committee_period_at_slot(update.signature_slot)
<1>1. /\ update \in ConsensusUpdate /\ block \in Block
      /\ block.slot \in Nat /\ update.attested_slot \in Nat /\ update.signature_slot \in Nat
      /\ consensus_state.slot \in Nat
      /\ cs.params.max_clock_drift \in Nat
  BY ParamsAssumption DEF Header, ConsensusUpdate, Block, ConsensusState, ClientState
<1>2. /\ IsCanonicalUpdate(update, now)
      /\ header.execution = ExecutionUpdateOf(block)
      /\ header.account_storage_root = StorageRootAt(block)
      /\ HeightOf(block) # 0
      /\ consensus_state.slot < block.slot
      /\ Q \in {P0, P0 + 1}
      /\ key = CommitteeOf(Canonical, Q)
      /\ header.trusted.is_next = (Q # P0)
      /\ P1 = P0 \/ update.next_sync_committee # DefaultKey
  BY DEF IsHonestHeader
<1>3. /\ block.slot <= update.attested_slot
      /\ update.attested_slot < update.signature_slot
      /\ update.signature_slot <= current_slot(now)
  BY <1>2 DEF IsCanonicalUpdate
<1>4. P0 \in Nat /\ P1 \in Nat /\ Q \in Nat /\ P0 <= P1 /\ P1 <= Q
  BY <1>1, <1>2, <1>3, PeriodType, PeriodMonotone DEF current_period
<1>5. validate_Header(header)
  BY <1>2 DEF validate_Header, HeightOf
<1>6. HasTimestamp(header)
  <2>1. ExecutionUpdateOf(block).timestamp = GenesisTime + ExecutionSlot(block)
    BY DEF ExecutionUpdateOf, compute_timestamp_at_slot
  <2>2. ExecutionUpdateOf(block).timestamp # NoTimestamp
    BY <1>1, <2>1, ExecutionSlotType, SlotAssumption DEF NoTimestamp
  <2> QED
    BY <1>2, <2>2 DEF HasTimestamp
<1>7. IsTrustedSyncCommittee(consensus_state, key, header.trusted.is_next)
  <2>1. /\ consensus_state.current_sync_committee = CommitteeOf(Canonical, P0)
        /\ consensus_state.next_sync_committee = CommitteeOf(Canonical, P0 + 1)
    BY DEF IsCanonicalState, StateAt, current_period
  <2> QED
    BY <1>2, <2>1 DEF IsTrustedSyncCommittee
<1>8. validate_updates(consensus_state, key, header.trusted.is_next, update,
                       header.execution, now, corrupt)
  <2>1. MayHaveSigned(key, update, now, corrupt)
    BY <1>2 DEF MayHaveSigned, CommitteeOf
  <2>2. Q = P0 + IF header.trusted.is_next THEN 1 ELSE 0
    <3>1. CASE Q = P0
      <4>1. header.trusted.is_next = FALSE
        BY <1>2, <3>1, Zenon
      <4> QED
        BY <1>4, <3>1, <4>1
    <3>2. CASE Q = P0 + 1
      <4>1. Q # P0
        BY <1>4, <3>2
      <4>2. header.trusted.is_next = TRUE
        BY <1>2, <4>1, Zenon
      <4> QED
        BY <3>2, <4>2
    <3> QED
      BY <1>2, <3>1, <3>2
  <2>3. IsAttested(consensus_state, key, header.trusted.is_next, update, now, corrupt)
    <3> HIDE DEF key
    <3> QED
      BY <1>3, <2>1, <2>2 DEF IsAttested
  <2> QED
    BY <1>2, <2>3 DEF validate_updates, is_relevant_update, IsProvedBy
<1>9. verify_account_storage(header.execution.state_root, header.account_storage_root)
  BY <1>2 DEF verify_account_storage, ExecutionUpdateOf, StorageRootAt, RootAt
<1>10. validate_header_timestamp_not_future(now, cs.params.max_clock_drift,
                                           header_timestamp(header))
  <2>1. block.slot < now - GenesisTime
    BY <1>1, <1>3, SlotAssumption DEF current_slot
  <2>2. ExecutionSlot(block) \in Nat /\ ExecutionSlot(block) <= block.slot
    BY <1>1, ExecutionSlotType
  <2>3. header.execution.timestamp = GenesisTime + ExecutionSlot(block)
    BY <1>2 DEF ExecutionUpdateOf, compute_timestamp_at_slot
  <2>4. header_timestamp(header) \in {GenesisTime + block.slot,
                                      GenesisTime + ExecutionSlot(block)}
    BY <2>3 DEF header_timestamp, compute_timestamp_at_slot
  <2> QED
    BY <1>1, <2>1, <2>2, <2>4, SlotAssumption DEF validate_header_timestamp_not_future
<1>11. CommitteesAreKnown(consensus_state, update)
  BY <1>2, <1>4 DEF CommitteesAreKnown
<1> QED
  BY <1>5, <1>7, <1>8, <1>9, <1>10, <1>11, <1>6 DEF check_header

\* What a relayer encodes is decoded to what it was.
LEMMA HeaderRoundTrip ==
    ASSUME NEW header \in Header
    PROVE  IsHeaderAny(AnyOfHeader(header)) /\ HeaderOf(AnyOfHeader(header).value) = header
<1>1. /\ header.trusted \in TrustedSyncCommittee /\ header.update \in ConsensusUpdate
      /\ header.execution \in ExecutionUpdate /\ header.account_storage_root \in Root
      /\ header = [trusted |-> header.trusted, update |-> header.update,
                   execution |-> header.execution,
                   account_storage_root |-> header.account_storage_root]
  BY DEF Header
<1>2. \A part \in {header.trusted, header.update, header.execution,
                   header.account_storage_root} : IsConverted(part)
  BY <1>1, WireAssumption DEF IsConverted
<1> QED
  BY <1>1, <1>2 DEF AnyOfHeader, MakeAny, HeaderOf, IsHeaderAny, IsAnyOf

\* See HonestHeadersAreAccepted: whatever was submitted before, spoilt or not,
\* leaves an honest header acceptable (client.rs 179-195, client_state.rs 176-228).
THEOREM HonestRelayersAreServed ==
    ASSUME FaultyPeriods = {}, "storage_root" \notin Omissions
    PROVE  Spec => []HonestHeadersAreAccepted
<1>1. ASSUME WireInv, WireTrust PROVE HonestHeadersAreAccepted
  <2> SUFFICES ASSUME NEW c \in ClientIds, NEW header \in Headers, MayRelay(c, header)
               PROVE  /\ IsHeaderAny(AnyOfHeader(header))
                      /\ AcceptsHeader(c, HeaderOf(AnyOfHeader(header).value))
    BY DEF HonestHeadersAreAccepted
  <2> DEFINE height          == header.trusted.height
             cs              == read_client_state(c)
             consensus_state == read_consensus_state(c, height)
  <2>1. /\ any_client_states[c] # None /\ height \in DOMAIN any_consensus_states[c]
        /\ IsHonestHeader(header, consensus_state)
        /\ IsUnexpired(c, height)
    BY DEF MayRelay
  <2>2. /\ TypeOK /\ now \in Nat /\ header \in Header
        /\ IsReadable(c, height)
    BY <1>1, <2>1, WireInvIsTypeAndProperties, InputAssumption
       DEF TypeOK, StoredAnysDecode, IsReadable
  <2>3. cs \in ClientState /\ consensus_state \in ConsensusState
    BY <2>2, ReadStatesType
  <2>4. ~\E s : IsBlamed(s)
    BY DEF IsBlamed
  <2>5. IsCanonicalState(height, consensus_state)
    BY <1>1, <2>1, <2>4 DEF WireTrust, StoredStatesAreTrustworthy, IsTrustworthy
  <2>6. ~is_frozen(cs)
    BY <1>1, <2>1, <2>4 DEF WireTrust, FreezesHaveEvidence, is_frozen
  <2>7. check_header(cs, consensus_state, header, now, corrupt)
    BY <2>1, <2>2, <2>3, <2>5, HonestHeaderPassesChecks DEF IsUnexpired
  <2>8. AcceptsHeader(c, header)
    BY <2>2, <2>6, <2>7 DEF AcceptsHeader
  <2> QED
    BY <2>2, <2>8, HeaderRoundTrip
<1> QED
  BY <1>1, WireInductive, WireTrustHolds, PTL
=============================================================================
