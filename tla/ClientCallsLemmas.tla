------------------------- MODULE ClientCallsLemmas -------------------------
(***************************************************************************)
(* Lemmas without state, which the proofs about every module rest on: that *)
(* a block reaches back to one execution block, that what the checks let in*)
(* and the messages made of it are well formed, and that what they let in  *)
(* is true while the keys that could forge it are safe.                    *)
(***************************************************************************)
EXTENDS ClientCalls, FiniteSetTheorems, WellFoundedInduction, TLAPS

-----------------------------------------------------------------------------
(* Periods and the greatest element *)

\* A slot's sync committee period is a natural number.
LEMMA PeriodType ==
    ASSUME NEW s \in Nat
    PROVE  compute_sync_committee_period_at_slot(s) \in Nat
BY SlotAssumption DEF compute_sync_committee_period_at_slot

\* A later slot is never in an earlier period.
LEMMA PeriodMonotone ==
    ASSUME NEW s \in Nat, NEW t \in Nat, s <= t
    PROVE  compute_sync_committee_period_at_slot(s)
             <= compute_sync_committee_period_at_slot(t)
BY SlotAssumption DEF compute_sync_committee_period_at_slot

\* A non-empty set of naturals has a least element.
LEMMA LeastOfNaturals ==
    ASSUME NEW T \in SUBSET Nat, T # {}
    PROVE  \E d \in T : \A e \in T : d <= e
<1> DEFINE R == OpToRel(<, Nat)
<1>1. IsWellFoundedOn(R, Nat)
  BY Zenon, NatLessThanWellFounded
<1>2. ASSUME NEW d \in Nat, NEW e \in Nat, e < d
      PROVE  <<e, d>> \in R
  <2>1. <<e, d>> \in Nat \X Nat /\ <<e, d>>[1] < <<e, d>>[2]
    BY <1>2
  <2> QED
    BY <2>1, Zenon DEF OpToRel
<1> HIDE DEF R
<1>3. PICK d \in T : \A e \in T : ~ (<<e, d>> \in R)
  BY <1>1, WFMin, Zenon
<1>4. \A e \in T : ~ (e < d)
  BY <1>2, <1>3
<1> QED
  BY <1>3, <1>4

\* A bounded, non-empty set of naturals has a greatest element.
LEMMA MaxOfBounded ==
    ASSUME NEW n \in Nat, NEW S \in SUBSET (0 .. n), S # {}
    PROVE  /\ Max(S) \in S
           /\ \A x \in S : x <= Max(S)
<1> DEFINE T == {d \in 0 .. n : n - d \in S}
<1>1. PICK x \in S : TRUE
  OBVIOUS
<1>2. n - x \in T
  BY <1>1
<1>3. T \subseteq Nat /\ T # {}
  <2>1. \A d \in T : d \in Nat
    OBVIOUS
  <2> HIDE DEF T
  <2> QED
    BY <2>1, <1>2
<1>4. PICK d \in T : \A e \in T : d <= e
  <2> HIDE DEF T
  <2> QED
    BY <1>3, LeastOfNaturals
<1>5. \A y \in S : n - d >= y
  <2> SUFFICES ASSUME NEW y \in S PROVE n - d >= y
    OBVIOUS
  <2>1. n - y \in T
    OBVIOUS
  <2>2. d <= n - y
    BY <2>1, <1>4
  <2>3. d \in 0 .. n /\ y \in 0 .. n
    OBVIOUS
  <2> HIDE DEF T
  <2> QED
    BY <2>2, <2>3
<1>6. n - d \in S
  OBVIOUS
<1>7. Max(S) \in S /\ \A y \in S : Max(S) >= y
  <2>1. \E g \in S : \A y \in S : g >= y
    BY <1>5, <1>6
  <2> QED
    BY <2>1 DEF Max
<1> QED
  BY <1>7

-----------------------------------------------------------------------------
(* The execution block behind a beacon block *)

\* The payloads a block reaches back to are slots of the model, not after it.
LEMMA ProvablePayloadsType ==
    ASSUME NEW block \in Block
    PROVE  /\ ProvablePayloads(block) \subseteq Slots
           /\ \A s \in ProvablePayloads(block) : s <= block.slot
BY BranchAssumption, SlotAssumption DEF ProvablePayloads, Block, Slots

\* The set of payloads behind a block is finite.
LEMMA ProvablePayloadsFinite ==
    ASSUME NEW block \in Block
    PROVE  IsFiniteSet(ProvablePayloads(block))
<1>1. IsFiniteSet(Slots)
  BY SlotAssumption, FS_Interval DEF Slots
<1> QED
  BY <1>1, ProvablePayloadsType, FS_Subset

\* The execution block is not produced after the beacon block that proves it.
LEMMA ExecutionSlotType ==
    ASSUME NEW block \in Block
    PROVE  /\ ExecutionSlot(block) \in Nat
           /\ ExecutionSlot(block) <= block.slot
<1> DEFINE S == {0} \cup ProvablePayloads(block)
<1>1. S \in SUBSET (0 .. block.slot) /\ S # {} /\ block.slot \in Nat
  BY ProvablePayloadsType DEF Slots, Block
<1>2. Max(S) \in S
  BY <1>1, MaxOfBounded
<1> QED
  BY <1>1, <1>2 DEF ExecutionSlot

\* A truthful execution update is well formed.
LEMMA ExecutionUpdateType ==
    ASSUME NEW block \in Block
    PROVE  /\ ExecutionUpdateOf(block) \in ExecutionUpdate
           /\ ExecutionUpdateOf(block).timestamp \in Nat \ {0}
           /\ StorageRootAt(block) \in Root
<1>1. ExecutionSlot(block) \in Nat
  BY ExecutionSlotType
<1>4. Cardinality(ProvablePayloads(block)) \in Nat
  BY ProvablePayloadsFinite, FS_CardinalityType
<1> QED
  BY <1>1, <1>4, SlotAssumption
     DEF ExecutionUpdateOf, ExecutionUpdate, StorageRootAt, RootAt, Root, Block,
         compute_timestamp_at_slot

\* A later block of a branch reaches at least as far, in number and in slot.
LEMMA ExecutionMonotone ==
    ASSUME NEW b1 \in Block, NEW b2 \in Block,
           b1.branch = b2.branch, b1.slot <= b2.slot
    PROVE  /\ ExecutionUpdateOf(b1).block_number <= ExecutionUpdateOf(b2).block_number
           /\ ExecutionSlot(b1) <= ExecutionSlot(b2)
<1>1. ProvablePayloads(b1) \subseteq ProvablePayloads(b2)
  <2>1. \A s \in Payloads[b1.branch] : s \in Nat
    BY BranchAssumption, SlotAssumption DEF Slots, Block
  <2> QED
    BY <2>1, SlotAssumption DEF ProvablePayloads, Block
<1>2. Cardinality(ProvablePayloads(b1)) <= Cardinality(ProvablePayloads(b2))
  BY <1>1, ProvablePayloadsFinite, FS_Subset
<1> DEFINE S1 == {0} \cup ProvablePayloads(b1)
           S2 == {0} \cup ProvablePayloads(b2)
<1>3. /\ S1 \in SUBSET (0 .. b1.slot) /\ S1 # {} /\ b1.slot \in Nat
      /\ S2 \in SUBSET (0 .. b2.slot) /\ S2 # {} /\ b2.slot \in Nat
      /\ S1 \subseteq S2
  BY <1>1, ProvablePayloadsType DEF Slots, Block
<1> HIDE DEF S1, S2
<1>4. Max(S1) \in S1 /\ \A x \in S2 : x <= Max(S2)
  BY <1>3, MaxOfBounded
<1>5. Max(S1) <= Max(S2)
  BY <1>3, <1>4
<1> QED
  BY <1>2, <1>5 DEF ExecutionUpdateOf, ExecutionSlot, S1, S2

\* On one branch the block number identifies the execution block.
LEMMA SameNumberSameExecution ==
    ASSUME NEW b1 \in Block, NEW b2 \in Block, b1.branch = b2.branch,
           ExecutionUpdateOf(b1).block_number = ExecutionUpdateOf(b2).block_number
    PROVE  ExecutionSlot(b1) = ExecutionSlot(b2)
<1>1. ProvablePayloads(b1) \subseteq ProvablePayloads(b2)
      \/ ProvablePayloads(b2) \subseteq ProvablePayloads(b1)
  <2>1. \A s \in Payloads[b1.branch] : s \in Nat
    BY BranchAssumption, SlotAssumption DEF Slots, Block
  <2> QED
    BY <2>1, SlotAssumption DEF ProvablePayloads, Block
<1>2. Cardinality(ProvablePayloads(b1)) = Cardinality(ProvablePayloads(b2))
  BY DEF ExecutionUpdateOf
<1>3. ProvablePayloads(b1) = ProvablePayloads(b2)
  BY <1>1, <1>2, ProvablePayloadsFinite, FS_Subset
<1> QED
  BY <1>3 DEF ExecutionSlot

-----------------------------------------------------------------------------
(* What the checks let in is well formed *)

\* The truthful state of a block has nothing unset.
LEMMA StateAtType ==
    ASSUME NEW block \in Block, block.slot # 0
    PROVE  StateAt(block) \in ConsensusState
<1>1. /\ ExecutionSlot(block) \in Nat
      /\ StorageRootAt(block) \in Root
      /\ compute_sync_committee_period_at_slot(block.slot) \in Nat
  BY ExecutionSlotType, ExecutionUpdateType, PeriodType DEF Block
<1> QED
  BY <1>1, SlotAssumption
     DEF StateAt, ConsensusState, CommitteeOf, PublicKey, Block,
         compute_timestamp_at_slot

\* A consensus state that an accepted header yields has nothing unset.
LEMMA NewConsensusStateType ==
    ASSUME NEW header \in Header, NEW cs \in ClientState,
           NEW consensus_state \in ConsensusState, NEW time \in Nat, NEW keys,
           check_header(cs, consensus_state, header, time, keys)
    PROVE  /\ new_consensus_state(consensus_state, header) \in ConsensusState
           /\ header.execution.block_number \in Nat \ {0}
<1>1. header.update.finalized \in Block /\ header.account_storage_root \in Root
      /\ header.update.next_sync_committee \in PublicKey \cup {DefaultKey}
  BY DEF Header, ConsensusUpdate
<1>2. header.update.finalized.slot \in Nat \ {0}
  BY <1>1 DEF check_header, validate_updates, is_relevant_update, ConsensusState, Block
<1>3. IsProvedBy(header.update.finalized, header.execution)
  BY DEF check_header, validate_updates
<1>4. header_timestamp(header) \in Nat \ {0}
  <2>1. /\ ExecutionUpdateOf(header.update.finalized).timestamp \in Nat \ {0}
        /\ GenesisTime + header.update.finalized.slot \in Nat \ {0}
    BY <1>1, <1>2, ExecutionUpdateType, SlotAssumption
  <2>2. \/ header_timestamp(header) = GenesisTime + header.update.finalized.slot
        \/ header_timestamp(header) = ExecutionUpdateOf(header.update.finalized).timestamp
    BY <1>3 DEF header_timestamp, compute_timestamp_at_slot, IsProvedBy
  <2> QED
    BY <2>1, <2>2
<1>5. /\ compute_sync_committees(consensus_state, header.update).current \in PublicKey
      /\ compute_sync_committees(consensus_state, header.update).next \in PublicKey
  BY <1>1 DEF compute_sync_committees, check_header, CommitteesAreKnown, ConsensusState
<1>6. new_consensus_state(consensus_state, header) \in ConsensusState
  BY <1>1, <1>2, <1>4, <1>5 DEF new_consensus_state, ConsensusState
<1>7. header.execution.block_number \in Nat \ {0}
  BY <1>1, <1>3, ExecutionUpdateType
     DEF check_header, validate_Header, IsProvedBy, ExecutionUpdate
<1> QED
  BY <1>6, <1>7

\* A state id is well formed, whichever client state it canonicalises.
LEMMA StateIdType ==
    ASSUME NEW cs \in ClientState, NEW consensus_state \in ConsensusState
    PROVE  gen_state_id(cs, consensus_state) \in StateId
BY DEF gen_state_id, canonicalize, StateId, ClientState

\* What create_client lets in.
LEMMA CreatedStatesType ==
    ASSUME NEW params \in Params, NEW block \in CanonicalBlocks, NEW fault,
           validate_ClientState(CreatedClientState(params, block, fault)),
           validate_ConsensusState(CreatedConsensusState(block, fault))
    PROVE  /\ CreatedClientState(params, block, fault) \in ClientState
           /\ CreatedClientState(params, block, fault).latest_execution_block_number
                \in Nat \ {0}
           /\ CreatedConsensusState(block, fault) \in ConsensusState
<1>1. block \in Block /\ block.slot # 0
  BY BranchAssumption DEF CanonicalBlocks, Block, Slots
<1>2. HeightOf(block) \in Nat
  BY <1>1, ExecutionUpdateType DEF HeightOf, ExecutionUpdate
<1>3. StateAt(block) \in ConsensusState
  BY <1>1, StateAtType
<1>4. DefaultRoot \in Root
  BY DEF DefaultRoot, Root
<1> QED
  BY <1>2, <1>3, <1>4
     DEF CreatedClientState, CreatedConsensusState, ClientState, ConsensusState,
         validate_ClientState, validate_ConsensusState

-----------------------------------------------------------------------------
(* Proxy messages *)

\* The messages that accepted calls return, over whatever states they read.
LEMMA ContextType ==
    ASSUME NEW cs \in ClientState, NEW drift \in Nat, NEW t1 \in Nat, NEW t2 \in Nat
    PROVE  TrustingPeriodContext(cs, drift, t1, t2) \in UpdateContext
BY ParamsAssumption DEF TrustingPeriodContext, UpdateContext, ClientState

LEMMA CreateClientMessageType ==
    ASSUME NEW c \in ClientIds, NEW cs \in ClientState,
           NEW consensus_state \in ConsensusState
    PROVE  CreateClientMessage(c, cs, consensus_state, cs) \in UpdateStateProxyMessage
<1> DEFINE height == cs.latest_execution_block_number
<1>1. height \in Nat /\ consensus_state.timestamp \in Nat
  BY DEF ClientState, ConsensusState
<1>2. gen_state_id(cs, consensus_state) \in StateId
  BY StateIdType
<1>3. {<<height, cs>>} \in SUBSET (Nat \X ClientState)
  BY <1>1
<1> QED
  BY <1>1, <1>2, <1>3 DEF CreateClientMessage, UpdateStateProxyMessage

LEMMA UpdateStateMessageType ==
    ASSUME NEW c \in ClientIds, NEW cs \in ClientState,
           NEW consensus_state \in ConsensusState, NEW header \in Header,
           NEW time \in Nat, NEW keys,
           check_header(cs, consensus_state, header, time, keys)
    PROVE  /\ new_client_state(cs, header) \in ClientState
           /\ UpdateStateMessage(c, cs, consensus_state, header)
                \in UpdateStateProxyMessage
<1> DEFINE new_cs    == new_client_state(cs, header)
           new_state == new_consensus_state(consensus_state, header)
           context   == TrustingPeriodContext(cs, cs.params.max_clock_drift,
                          new_state.timestamp, consensus_state.timestamp)
<1>1. new_state \in ConsensusState /\ header.execution.block_number \in Nat
  BY NewConsensusStateType
<1>2. new_cs \in ClientState
  BY <1>1 DEF new_client_state, ClientState
<1>3. /\ gen_state_id(cs, consensus_state) \in StateId
      /\ gen_state_id(new_cs, new_state) \in StateId
  BY <1>1, <1>2, StateIdType
<1>4. new_state.timestamp \in Nat /\ consensus_state.timestamp \in Nat
  BY <1>1 DEF ConsensusState
<1>5. context \in UpdateContext
  BY <1>4, ContextType, ParamsAssumption DEF ClientState
<1>6. header.trusted.height \in Nat
  BY DEF Header, TrustedSyncCommittee
<1> HIDE DEF new_state, new_cs, context
<1>7. [type |-> "UpdateState", client_id |-> c, prev_height |-> header.trusted.height,
       prev_state_id |-> gen_state_id(cs, consensus_state),
       post_height |-> header.execution.block_number,
       post_state_id |-> gen_state_id(new_cs, new_state), emitted_states |-> {},
       timestamp |-> new_state.timestamp, context |-> context] \in UpdateStateProxyMessage
  BY <1>1, <1>3, <1>4, <1>5, <1>6 DEF UpdateStateProxyMessage
<1> QED
  BY <1>2, <1>7 DEF UpdateStateMessage, new_state, new_cs, context

LEMMA MisbehaviourMessageType ==
    ASSUME NEW c \in ClientIds, NEW cs \in ClientState,
           NEW consensus_state \in ConsensusState,
           NEW prev_states \in SUBSET (Nat \X StateId), NEW misbehaviour \in Misbehaviour
    PROVE  MisbehaviourMessage(c, cs, consensus_state, prev_states, misbehaviour)
             \in MisbehaviourProxyMessage
<1>1. TrustingPeriodContext(cs, 0, 0, consensus_state.timestamp) \in UpdateContext
  BY ContextType DEF ConsensusState
<1> QED
  BY <1>1 DEF MisbehaviourMessage, MisbehaviourProxyMessage

LEMMA MembershipMessageType ==
    ASSUME NEW c \in ClientIds, NEW cs \in ClientState, NEW height \in Nat,
           NEW consensus_state \in ConsensusState, NEW value \in {"present", "absent"}
    PROVE  MembershipMessage(c, cs, height, consensus_state, value)
             \in VerifyMembershipProxyMessage
BY StateIdType DEF MembershipMessage, VerifyMembershipProxyMessage

-----------------------------------------------------------------------------
(* Trust: what a committee whose keys are safe can have signed *)

\* A state that may be stored at `height`.
IsTrustworthy(height, cs) == IsCanonicalState(height, cs) \/ IsBlamed(cs)

\* Before Gloas a block of the chain carries the payload it proves.
LEMMA PreGloasExecutionSlot ==
    ASSUME NEW s \in Blocks[Canonical], s < GloasSlot
    PROVE  ExecutionSlot([branch |-> Canonical, slot |-> s]) = s
<1> DEFINE block == [branch |-> Canonical, slot |-> s]
           S == {0} \cup ProvablePayloads(block)
<1>1. s \in Nat /\ block \in Block
  BY BranchAssumption, SlotAssumption DEF Slots, Block
<1>2. s \in Payloads[Canonical]
  BY PayloadAssumption, BranchAssumption
<1>3. s \in S
  BY <1>1, <1>2 DEF ProvablePayloads
<1>4. S \in SUBSET (0 .. s) /\ S # {}
  BY <1>1, ProvablePayloadsType DEF Slots
<1>5. \A x \in S : x <= Max(S)
  BY <1>1, <1>4, MaxOfBounded
<1>6. Max(S) = ExecutionSlot(block)
  BY DEF ExecutionSlot
<1>7. s <= ExecutionSlot(block)
  BY <1>3, <1>5, <1>6
<1> QED
  BY <1>1, <1>7, ExecutionSlotType

\* Within the trusting period of a canonical state, a committee that the state
\* names signs only canonical updates, unless it is to blame.
LEMMA SafeKeys ==
    ASSUME NEW consensus_state \in ConsensusState, NEW params \in Params,
           consensus_state.slot \in Blocks[Canonical],
           consensus_state = StateAt([branch |-> Canonical, slot |-> consensus_state.slot]),
           NEW time \in Nat, NEW keys, \A p \in keys : MayBeCorrupted(p, time),
           validate_state_timestamp_within_trusting_period(
               time, params.trusting_period, consensus_state.timestamp),
           NEW is_next \in BOOLEAN, NEW key,
           IsTrustedSyncCommittee(consensus_state, key, is_next),
           NEW host, NEW update \in ConsensusUpdate,
           IsAttested(consensus_state, key, is_next, update, host, keys)
    PROVE  IsCanonicalUpdate(update, host) \/ IsBlamed(consensus_state)
<1> DEFINE s  == consensus_state.slot
           P0 == compute_sync_committee_period_at_slot(s)
           block == [branch |-> Canonical, slot |-> s]
<1>1. s \in Slots /\ s \in Nat /\ P0 \in Nat /\ block \in Block
  BY BranchAssumption, PeriodType DEF Slots, Block
<1>2. /\ key.branch = Canonical
      /\ key.period = IF is_next THEN P0 + 1 ELSE P0
  <2>1. consensus_state.current_sync_committee = [period |-> P0, branch |-> Canonical]
    BY DEF StateAt, CommitteeOf
  <2>2. consensus_state.next_sync_committee = [period |-> P0 + 1, branch |-> Canonical]
    BY DEF StateAt, CommitteeOf
  <2> QED
    BY <2>1, <2>2 DEF IsTrustedSyncCommittee
<1>3. CASE key.period \in keys
  <2>1. MayBeCorrupted(key.period, time)
    BY <1>3
  <2>2. consensus_state.timestamp = GenesisTime + ExecutionSlot(block)
    BY DEF StateAt, compute_timestamp_at_slot
  <2>3. time < GenesisTime + s + WeakSubjectivityPeriod
    <3>1. params.trusting_period \in Nat
      BY ParamsAssumption
    <3> QED
      BY <1>1, <2>2, <3>1, ExecutionSlotType, TrustingPeriodAssumption, SlotAssumption
         DEF validate_state_timestamp_within_trusting_period
  <2>4. P0 <= key.period
    BY <1>1, <1>2
  <2>5. key.period \in FaultyPeriods
    BY <1>1, <2>1, <2>3, <2>4, SlotAssumption
       DEF MayBeCorrupted, compute_timestamp_at_slot
  <2> QED
    BY <1>1, <1>2, <2>5 DEF IsBlamed, current_period
<1>4. CASE key.period \notin keys
  BY <1>2, <1>4 DEF IsAttested, MayHaveSigned
<1> QED
  BY <1>3, <1>4

\* A header accepted from a trustworthy state yields a trustworthy state.
LEMMA AcceptedHeader ==
    ASSUME NEW time \in Nat, NEW keys, \A p \in keys : MayBeCorrupted(p, time),
           NEW cs \in ClientState, NEW height,
           NEW consensus_state \in ConsensusState, IsTrustworthy(height, consensus_state),
           validate_state_timestamp_within_trusting_period(
               time, cs.params.trusting_period, consensus_state.timestamp),
           NEW host, NEW header \in Header,
           check_header(cs, consensus_state, header, host, keys)
    PROVE  IsTrustworthy(header.execution.block_number,
                         new_consensus_state(consensus_state, header))
<1> DEFINE update == header.update
           block  == update.finalized
           new    == new_consensus_state(consensus_state, header)
           P0     == compute_sync_committee_period_at_slot(consensus_state.slot)
           P1     == compute_sync_committee_period_at_slot(block.slot)
           Q      == compute_sync_committee_period_at_slot(update.signature_slot)
           A      == compute_sync_committee_period_at_slot(update.attested_slot)
<1>1. /\ update \in ConsensusUpdate /\ block \in Block
      /\ header.trusted.is_next \in BOOLEAN
      /\ block.slot \in Nat /\ update.attested_slot \in Nat
      /\ update.signature_slot \in Nat /\ consensus_state.slot \in Nat
      /\ cs.params \in Params
  <2>1. update \in ConsensusUpdate /\ header.trusted \in TrustedSyncCommittee
    BY DEF Header
  <2>2. block \in Block /\ header.trusted.is_next \in BOOLEAN
        /\ update.attested_slot \in Nat /\ update.signature_slot \in Nat
    BY <2>1 DEF ConsensusUpdate, TrustedSyncCommittee
  <2> QED
    BY <2>1, <2>2 DEF Block, ConsensusState, ClientState
<1>2. /\ IsTrustedSyncCommittee(consensus_state, header.trusted.sync_committee,
                                header.trusted.is_next)
      /\ IsAttested(consensus_state, header.trusted.sync_committee,
                    header.trusted.is_next, update, host, keys)
      /\ consensus_state.slot < block.slot
      /\ IsProvedBy(block, header.execution)
      /\ verify_account_storage(header.execution.state_root, header.account_storage_root)
      /\ CommitteesAreKnown(consensus_state, update)
  BY DEF check_header, validate_updates, is_relevant_update
<1>3. /\ block.slot <= update.attested_slot /\ update.attested_slot < update.signature_slot
      /\ Q = P0 \/ Q = P0 + 1
  <2>1. P0 \in Nat
    BY <1>1, PeriodType
  <2>2. header.trusted.is_next = TRUE \/ header.trusted.is_next = FALSE
    BY <1>1
  <2> QED
    BY <1>2, <2>1, <2>2 DEF IsAttested, current_period
<1>4. /\ P0 \in Nat /\ P1 \in Nat /\ A \in Nat /\ Q \in Nat
      /\ P0 <= P1 /\ P1 <= A /\ A <= Q
  <2>1. P0 \in Nat /\ P1 \in Nat /\ A \in Nat /\ Q \in Nat
    BY <1>1, PeriodType
  <2>2. /\ consensus_state.slot <= block.slot
        /\ block.slot <= update.attested_slot
        /\ update.attested_slot <= update.signature_slot
    BY <1>1, <1>2, <1>3
  <2>3. P0 <= P1
    BY <1>1, <2>2, PeriodMonotone
  <2>4. P1 <= A
    BY <1>1, <2>2, PeriodMonotone
  <2>5. A <= Q
    BY <1>1, <2>2, PeriodMonotone
  <2> QED
    BY <2>1, <2>3, <2>4, <2>5
<1>5. new.slot = block.slot
  BY DEF new_consensus_state
<1>6. CASE IsBlamed(consensus_state)
  BY <1>4, <1>5, <1>6, FaultAssumption DEF IsBlamed, IsTrustworthy, current_period
<1>7. CASE IsCanonicalState(height, consensus_state)
  <2>1. /\ consensus_state.slot \in Blocks[Canonical]
        /\ consensus_state = StateAt([branch |-> Canonical, slot |-> consensus_state.slot])
    BY <1>7 DEF IsCanonicalState
  <2>2. IsCanonicalUpdate(update, host) \/ IsBlamed(consensus_state)
    BY <1>1, <1>2, <2>1, SafeKeys
  <2>3. CASE IsCanonicalUpdate(update, host)
    <3>1. block = [branch |-> Canonical, slot |-> block.slot]
          /\ block.slot \in Blocks[Canonical]
      BY <1>1, <2>3 DEF IsCanonicalUpdate, IsCanonicalBlock, Block
    <3>2. header.account_storage_root = StorageRootAt(block)
      BY <1>2 DEF verify_account_storage, IsProvedBy, ExecutionUpdateOf, StorageRootAt,
                  RootAt
    <3>3. header_timestamp(header) = compute_timestamp_at_slot(ExecutionSlot(block))
      <4>1. CASE block.slot < GloasSlot
        BY <3>1, <4>1, PreGloasExecutionSlot DEF header_timestamp
      <4>2. CASE ~(block.slot < GloasSlot)
        BY <1>2, <4>2 DEF header_timestamp, IsProvedBy, ExecutionUpdateOf
      <4> QED
        BY <4>1, <4>2
    <3>4. /\ compute_sync_committees(consensus_state, update).current
               = CommitteeOf(Canonical, P1)
          /\ compute_sync_committees(consensus_state, update).next
               = CommitteeOf(Canonical, P1 + 1)
      <4>1. /\ consensus_state.current_sync_committee = CommitteeOf(Canonical, P0)
            /\ consensus_state.next_sync_committee = CommitteeOf(Canonical, P0 + 1)
        BY <2>1 DEF StateAt
      <4>2. CASE P1 = P0
        BY <4>1, <4>2 DEF compute_sync_committees, current_period
      <4>3. CASE P1 # P0
        <5>1. P1 = P0 + 1 /\ update.next_sync_committee # DefaultKey
          BY <1>2, <4>3 DEF CommitteesAreKnown, current_period
        <5>2. A = P1
          BY <1>3, <1>4, <5>1
        <5>3. update.next_sync_committee = CommitteeOf(Canonical, P1 + 1)
          BY <2>3, <5>1, <5>2 DEF IsCanonicalUpdate
        <5> QED
          BY <4>1, <5>1, <5>3 DEF compute_sync_committees, current_period
      <4> QED
        BY <4>2, <4>3
    <3>5. new = StateAt(block)
      BY <3>1, <3>2, <3>3, <3>4 DEF new_consensus_state, StateAt
    <3> QED
      BY <1>2, <1>5, <3>1, <3>5 DEF IsTrustworthy, IsCanonicalState, HeightOf, IsProvedBy
  <2> QED
    BY <1>6, <2>2, <2>3
<1> QED
  BY <1>6, <1>7 DEF IsTrustworthy

\* Accepted misbehaviour is evidence against a committee that the trusted state
\* could verify with, or against one before it.
LEMMA AcceptedMisbehaviour ==
    ASSUME NEW time \in Nat, NEW keys, \A p \in keys : MayBeCorrupted(p, time),
           NEW cs \in ClientState, NEW c, NEW height,
           NEW consensus_state \in ConsensusState, IsTrustworthy(height, consensus_state),
           validate_state_timestamp_within_trusting_period(
               time, cs.params.trusting_period, consensus_state.timestamp),
           NEW host, NEW misbehaviour \in Misbehaviour,
           check_misbehaviour(cs, c, consensus_state, misbehaviour, host, keys)
    PROVE  IsBlamed(consensus_state)
<1> DEFINE u1 == misbehaviour.data.update_1
           u2 == misbehaviour.data.update_2
           key == misbehaviour.trusted.sync_committee
           next == misbehaviour.trusted.is_next
<1>1. /\ u1 \in ConsensusUpdate /\ u2 \in ConsensusUpdate
      /\ next \in BOOLEAN /\ cs.params \in Params
  <2>1. /\ misbehaviour.trusted \in TrustedSyncCommittee
        /\ misbehaviour.data \in
             [kind : {"FinalizedHeader", "NextSyncCommittee"},
              update_1 : ConsensusUpdate, update_2 : ConsensusUpdate]
    BY DEF Misbehaviour
  <2> QED
    BY <2>1 DEF TrustedSyncCommittee, ClientState
<1>2. /\ IsTrustedSyncCommittee(consensus_state, key, next)
      /\ IsAttested(consensus_state, key, next, u1, host, keys)
      /\ IsAttested(consensus_state, key, next, u2, host, keys)
      /\ ConflictingFinalizedHeaders(u1, u2) \/ ConflictingNextSyncCommittees(u1, u2)
  BY DEF check_misbehaviour, validate_misbehaviour
<1> SUFFICES ASSUME IsCanonicalState(height, consensus_state),
                    ~IsBlamed(consensus_state)
             PROVE  FALSE
  BY DEF IsTrustworthy
<1>3. /\ consensus_state.slot \in Blocks[Canonical]
      /\ consensus_state = StateAt([branch |-> Canonical, slot |-> consensus_state.slot])
  BY DEF IsCanonicalState
<1>4. IsCanonicalUpdate(u1, host) /\ IsCanonicalUpdate(u2, host)
  BY <1>1, <1>2, <1>3, SafeKeys
<1>5. CASE ConflictingFinalizedHeaders(u1, u2)
  <2>1. u1.finalized \in Block /\ u2.finalized \in Block
    BY <1>1 DEF ConsensusUpdate
  <2> QED
    BY <1>4, <1>5, <2>1
       DEF ConflictingFinalizedHeaders, IsCanonicalUpdate, IsCanonicalBlock, Block
<1>6. CASE ConflictingNextSyncCommittees(u1, u2)
  BY <1>4, <1>6 DEF ConflictingNextSyncCommittees, IsCanonicalUpdate
<1> QED
  BY <1>2, <1>5, <1>6

\* What create_client stores is true: a creator's slips are refused, except for
\* a storage root left at its default.
LEMMA CreatedStateIsCanonical ==
    ASSUME "storage_root" \notin Omissions,
           NEW params \in Params, NEW block \in CanonicalBlocks,
           NEW fault \in Omissions \cup {"nothing"},
           validate_ClientState(CreatedClientState(params, block, fault)),
           ~is_frozen(CreatedClientState(params, block, fault)),
           validate_ConsensusState(CreatedConsensusState(block, fault))
    PROVE  IsCanonicalState(
             CreatedClientState(params, block, fault).latest_execution_block_number,
             CreatedConsensusState(block, fault))
<1>1. /\ block \in Block /\ block.slot \in Blocks[Canonical]
      /\ block = [branch |-> Canonical, slot |-> block.slot]
  BY BranchAssumption DEF CanonicalBlocks, Block, Slots
<1>2. HeightOf(block) \in Nat
  BY <1>1, ExecutionUpdateType DEF HeightOf, ExecutionUpdate
<1>3. /\ fault # "latest_execution_block_number" /\ fault # "slot"
      /\ fault # "storage_root" /\ fault # "timestamp"
      /\ fault # "current_sync_committee" /\ fault # "next_sync_committee"
  BY DEF validate_ClientState, CreatedClientState, validate_ConsensusState,
         CreatedConsensusState
<1>4. CreatedConsensusState(block, fault) = StateAt(block)
  BY <1>3 DEF CreatedConsensusState, StateAt
<1> QED
  BY <1>1, <1>3, <1>4 DEF IsCanonicalState, CreatedClientState, StateAt

\* Two canonical states of one height describe one execution block, and before
\* Gloas one beacon block.
LEMMA OneExecutionBlockPerHeight ==
    ASSUME NEW h, NEW old, NEW new, IsCanonicalState(h, old), IsCanonicalState(h, new)
    PROVE  /\ new.storage_root = old.storage_root
           /\ new.timestamp = old.timestamp
           /\ old.slot < GloasSlot /\ new.slot < GloasSlot => new = old
<1> DEFINE b1 == [branch |-> Canonical, slot |-> old.slot]
           b2 == [branch |-> Canonical, slot |-> new.slot]
<1>1. /\ old.slot \in Blocks[Canonical] /\ old = StateAt(b1)
      /\ new.slot \in Blocks[Canonical] /\ new = StateAt(b2)
      /\ HeightOf(b1) = HeightOf(b2)
  BY DEF IsCanonicalState
<1>2. b1 \in Block /\ b2 \in Block
  BY <1>1, BranchAssumption DEF Block, Slots
<1>3. ExecutionSlot(b1) = ExecutionSlot(b2)
  BY <1>1, <1>2, SameNumberSameExecution DEF HeightOf
<1>4. /\ StateAt(b1).storage_root = StateAt(b2).storage_root
      /\ StateAt(b1).timestamp = StateAt(b2).timestamp
  BY <1>3 DEF StateAt, StorageRootAt, RootAt
<1>5. ASSUME old.slot < GloasSlot, new.slot < GloasSlot
      PROVE  new = old
  BY <1>1, <1>3, <1>5, PreGloasExecutionSlot
<1> QED
  BY <1>1, <1>4, <1>5

\* A later canonical block has neither a lower height nor an earlier timestamp.
LEMMA LaterStateIsNotBelow ==
    ASSUME NEW h, NEW old, NEW k, NEW new,
           IsCanonicalState(h, old), IsCanonicalState(k, new), old.slot < new.slot
    PROVE  h <= k /\ old.timestamp <= new.timestamp
<1> DEFINE b1 == [branch |-> Canonical, slot |-> old.slot]
           b2 == [branch |-> Canonical, slot |-> new.slot]
<1>1. /\ b1 \in Block /\ b2 \in Block
      /\ old = StateAt(b1) /\ h = HeightOf(b1)
      /\ new = StateAt(b2) /\ k = HeightOf(b2)
  BY BranchAssumption DEF IsCanonicalState, Block, Slots
<1>2. /\ HeightOf(b1) <= HeightOf(b2)
      /\ ExecutionSlot(b1) <= ExecutionSlot(b2)
      /\ ExecutionSlot(b1) \in Nat /\ ExecutionSlot(b2) \in Nat
  <2>1. b1.slot <= b2.slot
    BY <1>1 DEF Block
  <2> QED
    BY <1>1, <2>1, ExecutionMonotone, ExecutionSlotType DEF HeightOf
<1>3. /\ StateAt(b1).timestamp = GenesisTime + ExecutionSlot(b1)
      /\ StateAt(b2).timestamp = GenesisTime + ExecutionSlot(b2)
  BY DEF StateAt, compute_timestamp_at_slot
<1> QED
  BY <1>1, <1>2, <1>3, SlotAssumption
=============================================================================
