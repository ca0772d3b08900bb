---------------------------- MODULE ClientState ----------------------------
(***************************************************************************)
(* The client state and its two checking functions (client_state.rs), the  *)
(* messages they take (header.rs, misbehaviour.rs) and the state id they   *)
(* are committed under (state.rs).  A Rust function that returns a Result  *)
(* is two operators here: a predicate that is true when it returns Ok, and *)
(* the value it then returns.                                              *)
(***************************************************************************)
EXTENDS SyncProtocol

CONSTANTS
    ClientIds,     \* the client identifiers of the host
    None,          \* Option::None, and the absence of a client or message
    Params         \* the verification parameters clients may be created with

\* The fields validate() wants initialised are one flag, except the ones that
\* the checks read: the trusting period and the clock drift.
ASSUME ParamsAssumption ==
    /\ None \notin Nat
    /\ Params \subseteq [initialized : BOOLEAN, trusting_period : Nat,
                         max_clock_drift : Nat]

ClientState ==
    [params : Params, latest_execution_block_number : Nat,
     frozen_height : Nat \cup {None}]

\* Mutant: a client frozen at an older height goes on working.
is_frozen_at_latest(cs) == cs.frozen_height = cs.latest_execution_block_number

is_frozen(cs) == cs.frozen_height # None

with_frozen_height(cs, h) == [cs EXCEPT !.frozen_height = h]

\* Mutant: a client may be created without a latest block number.
validate_ClientState_without_latest(cs) ==
    cs.params.initialized /\ cs.params.trusting_period # 0

validate_ClientState(cs) ==
    /\ cs.params.initialized
    /\ cs.params.trusting_period # 0
    /\ cs.latest_execution_block_number # 0

\* Mutant: the latest block number is left in.
canonicalize_keeping_latest(cs) == [cs EXCEPT !.frozen_height = None]

\* Mutant: the frozen height is left in.
canonicalize_keeping_frozen_height(cs) == [cs EXCEPT !.latest_execution_block_number = 0]

canonicalize(cs) ==
    [cs EXCEPT !.latest_execution_block_number = 0, !.frozen_height = None]

\* Mutant: the storage root is not committed to.
gen_state_id_without_storage_root(cs, consensus_state) ==
    [client_state    |-> canonicalize(cs),
     consensus_state |-> [consensus_state EXCEPT !.storage_root = DefaultRoot]]

gen_state_id(cs, consensus_state) ==
    [client_state |-> canonicalize(cs), consensus_state |-> consensus_state]

StateId == [client_state : ClientState, consensus_state : ConsensusState]

-----------------------------------------------------------------------------
(* Messages *)

TrustedSyncCommittee ==
    [height : Nat, sync_committee : PublicKey \cup {DefaultKey}, is_next : BOOLEAN]

Header ==
    [trusted : TrustedSyncCommittee, update : ConsensusUpdate,
     execution : ExecutionUpdate, account_storage_root : Root]

Misbehaviour ==
    [client_id : ClientIds, trusted : TrustedSyncCommittee,
     data : [kind : {"FinalizedHeader", "NextSyncCommittee"},
             update_1 : ConsensusUpdate, update_2 : ConsensusUpdate]]

\* Mutant: block number zero is let through.
validate_Header_with_zero(header) == TRUE

validate_Header(header) == header.execution.block_number # 0

\* Mutant: the pre-Gloas rule is applied to Gloas blocks.
header_timestamp_of_finalized_slot(header) ==
    compute_timestamp_at_slot(header.update.finalized.slot)

\* Header::timestamp returns Ok: from Gloas on it reads the execution update,
\* which nothing has bound to the consensus update by then.
HasTimestamp(header) ==
    header.update.finalized.slot < GloasSlot
      \/ header.execution.timestamp # NoTimestamp

\* The timestamp of the execution block that the header proves.
header_timestamp(header) ==
    IF header.update.finalized.slot < GloasSlot
      THEN compute_timestamp_at_slot(header.update.finalized.slot)
      ELSE header.execution.timestamp

-----------------------------------------------------------------------------
(* check_header_and_update_state *)

\* Mutant: an expired state still verifies headers.
check_header_without_trusting_period(cs, consensus_state, header, time, corrupt) ==
    /\ validate_Header(header)
    /\ HasTimestamp(header)
    /\ IsTrustedSyncCommittee(consensus_state, header.trusted.sync_committee,
                              header.trusted.is_next)
    /\ validate_updates(consensus_state, header.trusted.sync_committee,
                        header.trusted.is_next, header.update, header.execution,
                        time, corrupt)
    /\ verify_account_storage(header.execution.state_root, header.account_storage_root)
    /\ validate_header_timestamp_not_future(
           time, cs.params.max_clock_drift, header_timestamp(header))
    /\ CommitteesAreKnown(consensus_state, header.update)

\* Mutant: the header may bring a committee the client does not trust.
check_header_with_any_committee(cs, consensus_state, header, time, corrupt) ==
    /\ validate_Header(header)
    /\ HasTimestamp(header)
    /\ validate_updates(consensus_state, header.trusted.sync_committee,
                        header.trusted.is_next, header.update, header.execution,
                        time, corrupt)
    /\ verify_account_storage(header.execution.state_root, header.account_storage_root)
    /\ validate_state_timestamp_within_trusting_period(
           time, cs.params.trusting_period, consensus_state.timestamp)
    /\ validate_header_timestamp_not_future(
           time, cs.params.max_clock_drift, header_timestamp(header))
    /\ CommitteesAreKnown(consensus_state, header.update)

check_header(cs, consensus_state, header, time, corrupt) ==
    /\ validate_Header(header)
    /\ HasTimestamp(header)
    /\ IsTrustedSyncCommittee(consensus_state, header.trusted.sync_committee,
                              header.trusted.is_next)
    /\ validate_updates(consensus_state, header.trusted.sync_committee,
                        header.trusted.is_next, header.update, header.execution,
                        time, corrupt)
    /\ verify_account_storage(header.execution.state_root, header.account_storage_root)
    /\ validate_state_timestamp_within_trusting_period(
           time, cs.params.trusting_period, consensus_state.timestamp)
    /\ validate_header_timestamp_not_future(
           time, cs.params.max_clock_drift, header_timestamp(header))
    /\ CommitteesAreKnown(consensus_state, header.update)

\* Mutant: a header for an older block lowers the latest block number.
new_client_state_always_moved(cs, header) ==
    [cs EXCEPT !.latest_execution_block_number = header.execution.block_number]

new_client_state(cs, header) ==
    IF cs.latest_execution_block_number < header.execution.block_number
      THEN [cs EXCEPT !.latest_execution_block_number = header.execution.block_number]
      ELSE cs

\* Mutant: the slot stays that of the trusted state.
new_consensus_state_at_old_slot(consensus_state, header) ==
    LET committees == compute_sync_committees(consensus_state, header.update)
    IN  [slot                   |-> consensus_state.slot,
         storage_root           |-> header.account_storage_root,
         timestamp              |-> header_timestamp(header),
         current_sync_committee |-> committees.current,
         next_sync_committee    |-> committees.next]

\* Mutant: the execution state root is stored for the IBC storage root.
new_consensus_state_with_state_root(consensus_state, header) ==
    LET committees == compute_sync_committees(consensus_state, header.update)
    IN  [slot                   |-> header.update.finalized.slot,
         storage_root           |-> header.execution.state_root,
         timestamp              |-> header_timestamp(header),
         current_sync_committee |-> committees.current,
         next_sync_committee    |-> committees.next]

\* Mutant: the update's next committee is stored even where there is none.
new_consensus_state_with_update_committee(consensus_state, header) ==
    [slot                   |-> header.update.finalized.slot,
     storage_root           |-> header.account_storage_root,
     timestamp              |-> header_timestamp(header),
     current_sync_committee |->
         compute_sync_committees(consensus_state, header.update).current,
     next_sync_committee    |-> header.update.next_sync_committee]

new_consensus_state(consensus_state, header) ==
    LET committees == compute_sync_committees(consensus_state, header.update)
    IN  [slot                   |-> header.update.finalized.slot,
         storage_root           |-> header.account_storage_root,
         timestamp              |-> header_timestamp(header),
         current_sync_committee |-> committees.current,
         next_sync_committee    |-> committees.next]

-----------------------------------------------------------------------------
(* check_misbehaviour_and_update_state *)

\* Mutant: any sync committee may give evidence.
check_misbehaviour_by_any_committee(cs, client_id, consensus_state, misbehaviour, time, corrupt) ==
    /\ misbehaviour.client_id = client_id
    /\ validate_misbehaviour(consensus_state, misbehaviour.trusted.sync_committee,
                             misbehaviour.trusted.is_next, misbehaviour.data,
                             time, corrupt)
    /\ validate_state_timestamp_within_trusting_period(
           time, cs.params.trusting_period, consensus_state.timestamp)

check_misbehaviour(cs, client_id, consensus_state, misbehaviour, time, corrupt) ==
    /\ misbehaviour.client_id = client_id
    /\ IsTrustedSyncCommittee(consensus_state, misbehaviour.trusted.sync_committee,
                              misbehaviour.trusted.is_next)
    /\ validate_misbehaviour(consensus_state, misbehaviour.trusted.sync_committee,
                             misbehaviour.trusted.is_next, misbehaviour.data,
                             time, corrupt)
    /\ validate_state_timestamp_within_trusting_period(
           time, cs.params.trusting_period, consensus_state.timestamp)
=============================================================================
