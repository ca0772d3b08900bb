------------------------------ MODULE AnyStore ------------------------------
(***************************************************************************)
(* client.rs as the host calls it: states are stored, and messages arrive, *)
(* as encoded Any values.  Every call decodes what it is given and what it *)
(* reads from the host, and what it returns is encoded again.  An Any that *)
(* does not decode, whoever sent it, changes nothing.                      *)
(*                                                                         *)
(* EthereumLightClient is the same client over decoded values; this module *)
(* is shown to implement it.                                               *)
(***************************************************************************)
EXTENDS WireCodec, ClientCalls

\* Misbehaviour of one kind is misbehaviour of the other under the other type URL.
ASSUME KindAssumption ==
    \A misbehaviour \in Misbehaviours, kind \in {"FinalizedHeader", "NextSyncCommittee"} :
        [misbehaviour EXCEPT !.data.kind = kind] \in Misbehaviours

VARIABLES
    any_client_states,      \* client id -> the stored Any, or None
    any_consensus_states,   \* client id -> stored height -> Any
    message,                \* the proxy message of the last call that returned Ok
    now, corrupt            \* as in EthereumLightClient

store == <<any_client_states, any_consensus_states>>
vars == <<any_client_states, any_consensus_states, message, now, corrupt>>

-----------------------------------------------------------------------------
(* The decoded view of the store and of the last message *)

ClientStates ==
    [c \in ClientIds |->
        IF any_client_states[c] = None THEN None
                                       ELSE ClientStateOf(any_client_states[c].value)]

ConsensusStates ==
    [c \in ClientIds |->
        [h \in DOMAIN any_consensus_states[c] |->
            ConsensusStateOf(any_consensus_states[c][h].value)]]

\* Two messages carry an Any: the created client state, and misbehaviour.
MessageOf(m) ==
    CASE m.type = "UpdateState" ->
           [m EXCEPT !.emitted_states =
              {<<e[1], ClientStateOf(e[2].value)>> : e \in m.emitted_states}]
      [] m.type = "Misbehaviour" ->
           [m EXCEPT !.client_message = MisbehaviourOf(m.client_message)]
      [] OTHER -> m

Client == INSTANCE EthereumLightClient
            WITH client_states <- ClientStates, consensus_states <- ConsensusStates,
                 message <- MessageOf(message)

-----------------------------------------------------------------------------
Init ==
    /\ any_client_states = [c \in ClientIds |-> None]
    /\ any_consensus_states = [c \in ClientIds |-> [h \in {} |-> None]]
    /\ message = NoMessage
    /\ now = GenesisTime
    /\ corrupt = {}

\* host.client_state and host.consensus_state answer, and both decode.
IsReadable(c, height) ==
    /\ any_client_states[c] # None
    /\ height \in DOMAIN any_consensus_states[c]
    /\ IsClientStateAny(any_client_states[c])
    /\ IsConsensusStateAny(any_consensus_states[c][height])

read_client_state(c) == ClientStateOf(any_client_states[c].value)

read_consensus_state(c, height) == ConsensusStateOf(any_consensus_states[c][height].value)

StoreConsensusState(c, height, any) ==
    any_consensus_states' =
        [any_consensus_states EXCEPT ![c] =
            [h \in DOMAIN any_consensus_states[c] \cup {height} |->
                IF h = height THEN any ELSE any_consensus_states[c][h]]]

\* The host stores the two values of a creation as they were submitted.
CreateClient(c, any_client_state, any_consensus_state) ==
    LET client_state    == ClientStateOf(any_client_state.value)
        consensus_state == ConsensusStateOf(any_consensus_state.value)
        height          == client_state.latest_execution_block_number
    IN  /\ any_client_states[c] = None
        /\ IsClientStateAny(any_client_state)
        /\ validate_ClientState(client_state)
        /\ ~is_frozen(client_state)
        /\ IsConsensusStateAny(any_consensus_state)
        /\ validate_ConsensusState(consensus_state)
        /\ any_client_states' = [any_client_states EXCEPT ![c] = any_client_state]
        /\ StoreConsensusState(c, height, any_consensus_state)
        /\ message' = CreateClientMessage(c, client_state, consensus_state,
                                                 any_client_state)
        /\ UNCHANGED <<now, corrupt>>

\* What update_state demands of a header and of the states it reads.
AcceptsHeader(c, header) ==
    /\ IsReadable(c, header.trusted.height)
    /\ ~is_frozen(read_client_state(c))
    /\ check_header(read_client_state(c), read_consensus_state(c, header.trusted.height),
                    header, now, corrupt)

UpdateState(c, header) ==
    LET height           == header.execution.block_number
        trusted_height   == header.trusted.height
        client_state     == read_client_state(c)
        consensus_state  == read_consensus_state(c, trusted_height)
        new_cs           == new_client_state(client_state, header)
        new_state        == new_consensus_state(consensus_state, header)
    IN  /\ AcceptsHeader(c, header)
        /\ any_client_states' =
               [any_client_states EXCEPT ![c] = AnyOfClientState(new_cs)]
        /\ StoreConsensusState(c, height, AnyOfConsensusState(new_state))
        /\ message' = UpdateStateMessage(c, client_state, consensus_state, header)
        /\ UNCHANGED <<now, corrupt>>

\* The message passes the misbehaviour on as it came.
SubmitMisbehaviour(c, any_message, misbehaviour) ==
    LET trusted_height  == misbehaviour.trusted.height
        client_state    == read_client_state(c)
        consensus_state == read_consensus_state(c, trusted_height)
    IN  /\ IsReadable(c, trusted_height)
        /\ ~is_frozen(client_state)
        /\ check_misbehaviour(client_state, c, consensus_state, misbehaviour, now, corrupt)
        /\ any_client_states' =
               [any_client_states EXCEPT ![c] =
                   AnyOfClientState(with_frozen_height(client_state, trusted_height))]
        /\ message' = MisbehaviourMessage(c, client_state, consensus_state,
               {<<trusted_height, gen_state_id(client_state, consensus_state)>>},
               any_message)
        /\ UNCHANGED <<any_consensus_states, now, corrupt>>

UpdateClient(c, any_message) ==
    \/ /\ IsHeaderAny(any_message)
       /\ UpdateState(c, HeaderOf(any_message.value))
    \/ /\ IsMisbehaviourAny(any_message)
       /\ SubmitMisbehaviour(c, any_message, MisbehaviourOf(any_message))

\* verify_membership, with a value, and verify_non_membership, with None.
VerifyMembership(c, height, value) ==
    LET client_state    == read_client_state(c)
        consensus_state == read_consensus_state(c, height)
    IN  /\ IsReadable(c, height)
        /\ ~is_frozen(client_state)
        /\ value = "present" => verify_membership(consensus_state)
        /\ value = "absent" => verify_non_membership(consensus_state)
        /\ message' = MembershipMessage(c, client_state, height, consensus_state, value)
        /\ UNCHANGED <<store, now, corrupt>>

Tick ==
    /\ now < MaxTime
    /\ now' = now + 1
    /\ UNCHANGED <<store, message, corrupt>>

CorruptCommittee(period) ==
    /\ period \notin corrupt
    /\ MayBeCorrupted(period, now)
    /\ corrupt' = corrupt \cup {period}
    /\ UNCHANGED <<store, message, now>>

-----------------------------------------------------------------------------
(* What arrives: well-formed values, and the same with one thing wrong *)

\* The parts that a raw value may lack, and those that may be malformed.
OptionalFields ==
    {"trusting_period", "max_clock_drift", "frozen_height", "timestamp",
     "current_sync_committee", "next_sync_committee", "trusted_sync_committee",
     "consensus_update", "execution_update", "account_update",
     "consensus_update_1", "consensus_update_2"}

ConvertedFields ==
    {"storage_root", "current_sync_committee", "next_sync_committee", "client_id",
     "trusted_sync_committee", "consensus_update", "execution_update",
     "account_update", "consensus_update_1", "consensus_update_2"}

Spoilt(value) ==
    {value}
    \cup {[value EXCEPT ![f] = None] : f \in OptionalFields \cap DOMAIN value}
    \cup {[value EXCEPT ![f] = Malformed] : f \in ConvertedFields \cap DOMAIN value}

Damaged(any) ==
    {[any EXCEPT !.type_url = u] : u \in TypeUrls}
    \cup {[any EXCEPT !.encoding = "none"]}
    \cup {[any EXCEPT !.value = v] : v \in Spoilt(any.value)}

DamagedClientState(any) ==
    Damaged(any)
    \cup {[any EXCEPT !.value.fixed = fault] : fault \in FixedFaults}
    \cup {[any EXCEPT !.value.trusting_period = -1], [any EXCEPT !.value.max_clock_drift = -1]}

\* The nanoseconds of a timestamp may be negative, or a second too many.
DamagedConsensusState(any) ==
    Damaged(any)
    \cup {[any EXCEPT !.value.timestamp.nanos = nanos] : nanos \in {-1, NanosPerSecond}}

\* The two states that a creator who has `block` may submit.
Creations(block) ==
    UNION {DamagedClientState(AnyOfClientState(CreatedClientState(params, block, fault)))
             \X DamagedConsensusState(AnyOfConsensusState(CreatedConsensusState(block, fault))) :
           params \in Params, fault \in Omissions \cup {"nothing"}}

Next ==
    \/ \E c \in ClientIds :
        \/ \E block \in CanonicalBlocks :
              /\ compute_timestamp_at_slot(block.slot) <= now
              /\ \E creation \in Creations(block) : CreateClient(c, creation[1], creation[2])
        \/ \E header \in Headers : \E any_message \in Damaged(AnyOfHeader(header)) :
              UpdateClient(c, any_message)
        \/ \E misbehaviour \in Misbehaviours :
              \E any_message \in Damaged(AnyOfMisbehaviour(misbehaviour)) :
                 UpdateClient(c, any_message)
        \/ any_client_states[c] # None
            /\ \E height \in DOMAIN any_consensus_states[c],
                  value \in {"present", "absent"} :
                  VerifyMembership(c, height, value)
    \/ Tick
    \/ \E period \in CommitteePeriods : CorruptCommittee(period)

Spec == Init /\ [][Next]_vars

-----------------------------------------------------------------------------
(* Properties *)

\* The host stores one Any per client and per height, of well-formed states,
\* and a message passes on what was submitted, one of the three proxy messages
\* once decoded (ibc.lightclients.ethereum.v1.rs, client.rs 63, 261).
TypeOK ==
    /\ any_client_states \in [ClientIds -> Optional(Any)]
    /\ DOMAIN any_consensus_states = ClientIds
    /\ \A c \in ClientIds :
          /\ DOMAIN any_consensus_states[c] \subseteq Nat
          /\ any_consensus_states[c] \in [DOMAIN any_consensus_states[c] -> Any]
          /\ any_client_states[c] # None => read_client_state(c) \in ClientState
          /\ \A h \in DOMAIN any_consensus_states[c] :
                read_consensus_state(c, h) \in ConsensusState
    /\ message.type = "UpdateState" => message.emitted_states \subseteq Nat \X Any
    /\ message.type = "Misbehaviour" => message.client_message \in Any
    /\ MessageOf(message) \in {NoMessage} \cup UpdateStateProxyMessage
                   \cup MisbehaviourProxyMessage \cup VerifyMembershipProxyMessage
    /\ now \in Nat
    /\ corrupt \subseteq Nat

\* A stored client can always be read again: what one call writes, the next
\* one decodes, so that no sequence of calls leaves a client that answers
\* every call with an error (client_state.rs 284-410, consensus_state.rs
\* 98-154).
StoredAnysDecode ==
    \A c \in ClientIds :
        /\ any_client_states[c] # None => IsClientStateAny(any_client_states[c])
        /\ \A h \in DOMAIN any_consensus_states[c] :
              IsConsensusStateAny(any_consensus_states[c][h])

\* The state id that a message announces is the one that later calls compute
\* from what the host has stored (client.rs 198-203).
PostStateIsStored ==
    message.type = "UpdateState" =>
        message.post_state_id =
            gen_state_id(read_client_state(message.client_id),
                         read_consensus_state(message.client_id, message.post_height))

\* Evidence stands as what it was sent as, on its own: what freezes a client
\* names the height it is frozen at and a committee of the state stored there,
\* and its two updates conflict in the way that its type URL says, although the
\* two kinds are encoded alike (header.rs 28-45, misbehaviour.rs 43-95 and
\* 143-161, client.rs 222-267).
EvidenceIsOfItsKind ==
    message.type = "Misbehaviour" =>
        LET evidence == message.client_message
            trusted  == evidence.value.trusted_sync_committee
            update_1 == evidence.value.consensus_update_1
            update_2 == evidence.value.consensus_update_2
        IN  /\ read_client_state(message.client_id).frozen_height = trusted.height
            /\ IsTrustedSyncCommittee(read_consensus_state(message.client_id, trusted.height),
                   trusted.sync_committee, trusted.is_next)
            /\ \/ /\ evidence.type_url = "FinalizedHeaderMisbehaviour"
                  /\ ConflictingFinalizedHeaders(update_1, update_2)
               \/ /\ evidence.type_url = "NextSyncCommitteeMisbehaviour"
                  /\ ConflictingNextSyncCommittees(update_1, update_2)

\* Over its encoded store the client does what EthereumLightClient does over
\* decoded values: encoding loses nothing, and what does not decode is ignored
\* (client.rs 42-163, header.rs 28-45, misbehaviour.rs 143-161).
ImplementsClient == Client!Spec
=============================================================================
