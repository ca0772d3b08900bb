---------------------------- MODULE ClientCalls ----------------------------
(***************************************************************************)
(* What the calls of client.rs take and return: the inputs that a host may *)
(* be handed, and the proxy messages that a call makes of the states it    *)
(* has read.  No state here: EthereumLightClient and AnyStore have it.     *)
(*                                                                         *)
(* The inputs of the calls are any of Headers and Misbehaviours: whoever   *)
(* relays them is not trusted.  Who creates a client is: the states it is  *)
(* created with describe a block of the canonical chain, except for the    *)
(* fields named in Omissions, which the creator may forget to set.         *)
(***************************************************************************)
EXTENDS ClientState

CONSTANTS
    Headers,         \* the headers that may be submitted
    Misbehaviours,   \* the misbehaviours that may be submitted
    Omissions,       \* what may be missing or wrong in a creation
    MaxTime          \* bound: the host's clock stops there

CreationFaults ==
    {"nothing", "latest_execution_block_number", "frozen_height", "slot",
     "storage_root", "timestamp", "current_sync_committee", "next_sync_committee"}

ASSUME InputAssumption ==
    /\ Headers \subseteq Header
    /\ Misbehaviours \subseteq Misbehaviour
    /\ Omissions \subseteq CreationFaults
    /\ MaxTime \in Nat
    /\ None \notin ClientState

\* Clients are configured to stop trusting a state before the keys behind it
\* can be in other hands.
ASSUME TrustingPeriodAssumption ==
    \A p \in Params : p.trusting_period <= WeakSubjectivityPeriod

-----------------------------------------------------------------------------
(* Proxy messages *)

UpdateContext == [trusting_period : Nat, clock_drift : Nat,
                  header_timestamp : Nat, state_timestamp : Nat]

UpdateStateProxyMessage ==
    [type : {"UpdateState"}, client_id : ClientIds, prev_height : Nat \cup {None},
     prev_state_id : StateId \cup {None}, post_height : Nat,
     post_state_id : StateId, emitted_states : SUBSET (Nat \X ClientState),
     timestamp : Nat, context : UpdateContext \cup {None}]

MisbehaviourProxyMessage ==
    [type : {"Misbehaviour"}, client_id : ClientIds, prev_states : SUBSET (Nat \X StateId),
     context : UpdateContext, client_message : Misbehaviour]

\* The value of a membership message: present, or None for non-membership.
VerifyMembershipProxyMessage ==
    [type : {"VerifyMembership"}, client_id : ClientIds,
     value : {"present", "absent"}, height : Nat, state_id : StateId]

\* Mutant: the duration is added up from its seconds and its nanoseconds, each
\* of which already is the whole.
TrustingPeriodContext_doubled(cs, clock_drift, header_ts, state_ts) ==
    [trusting_period |-> cs.params.trusting_period + cs.params.trusting_period,
     clock_drift |-> clock_drift, header_timestamp |-> header_ts,
     state_timestamp |-> state_ts]

\* Mutant: the two timestamps change places.
TrustingPeriodContext_swapped(cs, clock_drift, header_ts, state_ts) ==
    [trusting_period |-> cs.params.trusting_period, clock_drift |-> clock_drift,
     header_timestamp |-> state_ts, state_timestamp |-> header_ts]

\* The context that the receiver of a message validates with its own clock.
TrustingPeriodContext(cs, clock_drift, header_ts, state_ts) ==
    [trusting_period |-> cs.params.trusting_period, clock_drift |-> clock_drift,
     header_timestamp |-> header_ts, state_timestamp |-> state_ts]

CreateClientMessage(c, cs, consensus_state, emitted_state) ==
    [type           |-> "UpdateState",
     client_id      |-> c,
     prev_height    |-> None,
     prev_state_id  |-> None,
     post_height    |-> cs.latest_execution_block_number,
     post_state_id  |-> gen_state_id(cs, consensus_state),
     emitted_states |-> {<<cs.latest_execution_block_number, emitted_state>>},
     timestamp      |-> consensus_state.timestamp,
     context        |-> None]

\* The message about the states that `header` leads to from those read.
UpdateStateMessage(c, cs, consensus_state, header) ==
    LET new_state == new_consensus_state(consensus_state, header)
    IN  [type           |-> "UpdateState",
         client_id      |-> c,
         prev_height    |-> header.trusted.height,
         prev_state_id  |-> gen_state_id(cs, consensus_state),
         post_height    |-> header.execution.block_number,
         post_state_id  |-> gen_state_id(new_client_state(cs, header), new_state),
         emitted_states |-> {},
         timestamp      |-> new_state.timestamp,
         context        |-> TrustingPeriodContext(cs, cs.params.max_clock_drift,
                              new_state.timestamp, consensus_state.timestamp)]

MisbehaviourMessage(c, cs, consensus_state, prev_states, client_message) ==
    [type           |-> "Misbehaviour",
     client_id      |-> c,
     prev_states    |-> prev_states,
     context        |-> TrustingPeriodContext(cs, 0, 0, consensus_state.timestamp),
     client_message |-> client_message]

MembershipMessage(c, cs, height, consensus_state, value) ==
    [type |-> "VerifyMembership", client_id |-> c, value |-> value, height |-> height,
     state_id |-> gen_state_id(cs, consensus_state)]

\* Before the first call has returned Ok.
NoMessage == [type |-> "none"]

-----------------------------------------------------------------------------
(* Creation *)

CanonicalBlocks == {block \in [branch : {Canonical}, slot : Slots] :
                        block.slot \in Blocks[Canonical]}

\* What a creator who has `block` submits when it gets `fault` wrong.
CreatedClientState(params, block, fault) ==
    [params |-> params,
     latest_execution_block_number |->
         IF fault = "latest_execution_block_number" THEN 0 ELSE HeightOf(block),
     frozen_height |->
         IF fault = "frozen_height" THEN HeightOf(block) ELSE None]

CreatedConsensusState(block, fault) ==
    LET s == StateAt(block)
    IN  [slot |-> IF fault = "slot" THEN 0 ELSE s.slot,
         storage_root |->
             IF fault = "storage_root" THEN DefaultRoot ELSE s.storage_root,
         timestamp |-> IF fault = "timestamp" THEN 0 ELSE s.timestamp,
         current_sync_committee |->
             IF fault = "current_sync_committee" THEN DefaultKey
                                                 ELSE s.current_sync_committee,
         next_sync_committee |->
             IF fault = "next_sync_committee" THEN DefaultKey
                                              ELSE s.next_sync_committee]

-----------------------------------------------------------------------------
(* What a stored state says, and who could have made it say something else *)

\* `cs`, stored at `height`, describes the canonical chain: its root, its
\* timestamp and both of its committees are those of one finalised block.
IsCanonicalState(height, cs) ==
    LET block == [branch |-> Canonical, slot |-> cs.slot]
    IN  /\ cs.slot \in Blocks[Canonical]
        /\ cs = StateAt(block)
        /\ height = HeightOf(block)

\* Some committee that was in a position to vouch for `cs` equivocated.
IsBlamed(cs) == \E p \in FaultyPeriods : p <= current_period(cs) + 1
=============================================================================
