---------------------------- MODULE SyncProtocol ----------------------------
(***************************************************************************)
(* The checks that client_state.rs delegates to the verifier and types     *)
(* crates (ethereum-light-client-rs), modelled from how it uses them: what *)
(* it passes in, and what it relies on once they have returned Ok.         *)
(*                                                                         *)
(* `time` is the host's time and `corrupt` the periods whose committee     *)
(* keys are in other hands: together they say which signatures can exist.  *)
(***************************************************************************)
EXTENDS ConsensusState

\* TrustedConsensusState::new accepts the header's committee only if its
\* aggregate key is the stored one, current or next as is_next says.
IsTrustedSyncCommittee(cs, sync_committee, is_next) ==
    sync_committee = IF is_next THEN cs.next_sync_committee
                                ELSE cs.current_sync_committee

\* The slots are in order, the signature is in the period of the committee the
\* trusted state was opened with, and that committee has signed the update.
IsAttested(cs, sync_committee, is_next, update, time, corrupt) ==
    /\ update.finalized.slot <= update.attested_slot
    /\ update.attested_slot < update.signature_slot
    /\ update.signature_slot <= current_slot(time)
    /\ compute_sync_committee_period_at_slot(update.signature_slot)
         = current_period(cs) + IF is_next THEN 1 ELSE 0
    /\ MayHaveSigned(sync_committee, update, time, corrupt)

\* The number and the state root of an execution update are proved against the
\* finalised header, and from Gloas on its timestamp: before, nobody reads that.
IsProvedBy(block, execution) ==
    LET proved == ExecutionUpdateOf(block)
    IN  /\ execution.block_number = proved.block_number
        /\ execution.state_root = proved.state_root
        /\ block.slot < GloasSlot \/ execution.timestamp = proved.timestamp

\* validate_updates: an attested update past the trusted slot, and an execution
\* update proved against its finalised header.
validate_updates(cs, sync_committee, is_next, update, execution, time, corrupt) ==
    /\ is_relevant_update(cs, update.finalized.slot)
    /\ IsAttested(cs, sync_committee, is_next, update, time, corrupt)
    /\ IsProvedBy(update.finalized, execution)

\* verify_account_storage: the IBC account's storage root under a state root.
verify_account_storage(state_root, account_storage_root) ==
    /\ state_root.kind = "state"
    /\ account_storage_root = [state_root EXCEPT !.kind = "storage"]

\* compute_sync_committees: the committees of the finalised period, which is
\* the trusted state's or the one after it.
CommitteesAreKnown(cs, update) ==
    LET period == compute_sync_committee_period_at_slot(update.finalized.slot)
    IN  \/ period = current_period(cs)
        \/ /\ period = current_period(cs) + 1
           /\ update.next_sync_committee # DefaultKey

compute_sync_committees(cs, update) ==
    IF compute_sync_committee_period_at_slot(update.finalized.slot) = current_period(cs)
      THEN [current |-> cs.current_sync_committee, next |-> cs.next_sync_committee]
      ELSE [current |-> cs.next_sync_committee, next |-> update.next_sync_committee]

\* validate_misbehaviour: the same committee attested two updates that cannot
\* both be true.  Nothing orders them after the trusted state.
ConflictingFinalizedHeaders(update_1, update_2) ==
    /\ update_1.finalized.slot = update_2.finalized.slot
    /\ update_1.finalized # update_2.finalized

ConflictingNextSyncCommittees(update_1, update_2) ==
    /\ compute_sync_committee_period_at_slot(update_1.attested_slot)
         = compute_sync_committee_period_at_slot(update_2.attested_slot)
    /\ DefaultKey \notin {update_1.next_sync_committee, update_2.next_sync_committee}
    /\ update_1.next_sync_committee # update_2.next_sync_committee

validate_misbehaviour(cs, sync_committee, is_next, data, time, corrupt) ==
    /\ IsAttested(cs, sync_committee, is_next, data.update_1, time, corrupt)
    /\ IsAttested(cs, sync_committee, is_next, data.update_2, time, corrupt)
    /\ \/ /\ data.kind = "FinalizedHeader"
          /\ ConflictingFinalizedHeaders(data.update_1, data.update_2)
       \/ /\ data.kind = "NextSyncCommittee"
          /\ ConflictingNextSyncCommittees(data.update_1, data.update_2)

validate_state_timestamp_within_trusting_period(time, trusting_period, timestamp) ==
    time < timestamp + trusting_period

validate_header_timestamp_not_future(time, max_clock_drift, timestamp) ==
    timestamp < time + max_clock_drift

\* verify_membership and verify_non_membership: a storage proof against the
\* storage root of a consensus state exists exactly for what is stored there.
verify_membership(cs) == HasCommitment(cs.storage_root)
verify_non_membership(cs) ==
    cs.storage_root.kind = "storage" /\ ~HasCommitment(cs.storage_root)
=============================================================================
