--------------------------- MODULE ConsensusState ---------------------------
(***************************************************************************)
(* The consensus state a client stores per height (consensus_state.rs).    *)
(* The two committees are aggregate public keys; the timestamp is in slots.*)
(***************************************************************************)
EXTENDS BeaconChain

\* A state that validate() or an update let in: nothing in it is unset.
ConsensusState ==
    [slot : Nat \ {0}, storage_root : Root, timestamp : Nat \ {0},
     current_sync_committee : PublicKey, next_sync_committee : PublicKey]

\* What Default::default() leaves in a field that was never set.
DefaultConsensusState ==
    [slot |-> 0, storage_root |-> DefaultRoot, timestamp |-> 0,
     current_sync_committee |-> DefaultKey, next_sync_committee |-> DefaultKey]

current_period(cs) == compute_sync_committee_period_at_slot(cs.slot)

\* Mutant: an update at or before the trusted slot is applied.
is_relevant_update_always(cs, update_finalized_slot) == TRUE

\* A consensus update is applied only on a state of an earlier slot.
is_relevant_update(cs, update_finalized_slot) == cs.slot < update_finalized_slot

\* Mutant: the committees of a created client are not looked at.
validate_ConsensusState_without_committees(cs) ==
    /\ cs.slot # 0
    /\ cs.timestamp # 0

\* The storage root is tested for an empty byte string, which a 32-byte hash
\* never is: the test rejects no state, so there is no conjunct for it.
validate_ConsensusState(cs) ==
    /\ cs.slot # 0
    /\ cs.timestamp # 0
    /\ cs.current_sync_committee # DefaultKey
    /\ cs.next_sync_committee # DefaultKey

-----------------------------------------------------------------------------
(* The state that truthfully describes a finalised block *)

StateAt(block) ==
    [slot                   |-> block.slot,
     storage_root           |-> StorageRootAt(block),
     timestamp              |-> compute_timestamp_at_slot(ExecutionSlot(block)),
     current_sync_committee |-> CommitteeOf(block.branch,
                                  compute_sync_committee_period_at_slot(block.slot)),
     next_sync_committee    |-> CommitteeOf(block.branch,
                                  compute_sync_committee_period_at_slot(block.slot) + 1)]

HeightOf(block) == ExecutionUpdateOf(block).block_number
=============================================================================
