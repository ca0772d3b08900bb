------------------------ MODULE EthereumLightClient ------------------------
(***************************************************************************)
(* The LightClient implementation (client.rs), driven by a host that       *)
(* stores what each call returns.  The functions of client.rs read the     *)
(* host's store and return new states and a proxy message; the host writes *)
(* the states back, here in the same step (one call at a time per host).   *)
(***************************************************************************)
EXTENDS ClientCalls

VARIABLES
    client_states,      \* client id -> the stored client state, or None
    consensus_states,   \* client id -> stored height -> consensus state
    message,            \* the proxy message of the last call that returned Ok
    now,                \* host_timestamp(): the host's clock
    corrupt             \* periods whose committee keys are in other hands

store == <<client_states, consensus_states>>
vars == <<client_states, consensus_states, message, now, corrupt>>

-----------------------------------------------------------------------------
Init ==
    /\ client_states = [c \in ClientIds |-> None]
    /\ consensus_states = [c \in ClientIds |-> [h \in {} |-> DefaultConsensusState]]
    /\ message = NoMessage
    /\ now = GenesisTime
    /\ corrupt = {}

\* host.client_state and host.consensus_state find what they are asked for.
IsStored(c, height) ==
    /\ client_states[c] # None
    /\ height \in DOMAIN consensus_states[c]

StoreConsensusState(c, height, cs) ==
    consensus_states' =
        [consensus_states EXCEPT ![c] =
            [h \in DOMAIN consensus_states[c] \cup {height} |->
                IF h = height THEN cs ELSE consensus_states[c][h]]]

latest_height(c) == client_states[c].latest_execution_block_number

-----------------------------------------------------------------------------
(* create_client *)

CreateClient(c, params, block, fault) ==
    LET cs == CreatedClientState(params, block, fault)
        consensus_state == CreatedConsensusState(block, fault)
        height == cs.latest_execution_block_number
    IN  /\ client_states[c] = None
        /\ compute_timestamp_at_slot(block.slot) <= now
        /\ validate_ClientState(cs)
        /\ ~is_frozen(cs)
        /\ validate_ConsensusState(consensus_state)
        /\ client_states' = [client_states EXCEPT ![c] = cs]
        /\ StoreConsensusState(c, height, consensus_state)
        /\ message' = CreateClientMessage(c, cs, consensus_state, cs)
        /\ UNCHANGED <<now, corrupt>>

-----------------------------------------------------------------------------
(* update_client with a header: update_state *)

UpdateState(c, header) ==
    LET height          == header.execution.block_number
        trusted_height  == header.trusted.height
        cs              == client_states[c]
        consensus_state == consensus_states[c][trusted_height]
        new_cs          == new_client_state(cs, header)
        new_state       == new_consensus_state(consensus_state, header)
    IN  /\ IsStored(c, trusted_height)
        /\ ~is_frozen(cs)
        /\ check_header(cs, consensus_state, header, now, corrupt)
        /\ client_states' = [client_states EXCEPT ![c] = new_cs]
        /\ StoreConsensusState(c, height, new_state)
        /\ message' = UpdateStateMessage(c, cs, consensus_state, header)
        /\ UNCHANGED <<now, corrupt>>

-----------------------------------------------------------------------------
(* update_client with misbehaviour: submit_misbehaviour *)

make_prev_states(c, cs, heights) ==
    {<<h, gen_state_id(cs, consensus_states[c][h])>> : h \in heights}

SubmitMisbehaviour(c, misbehaviour) ==
    LET trusted_height  == misbehaviour.trusted.height
        cs              == client_states[c]
        consensus_state == consensus_states[c][trusted_height]
    IN  /\ IsStored(c, trusted_height)
        /\ ~is_frozen(cs)
        /\ check_misbehaviour(cs, c, consensus_state, misbehaviour, now, corrupt)
        /\ client_states' =
               [client_states EXCEPT ![c] = with_frozen_height(cs, trusted_height)]
        /\ message' = MisbehaviourMessage(c, cs, consensus_state,
                          make_prev_states(c, cs, {trusted_height}), misbehaviour)
        /\ UNCHANGED <<consensus_states, now, corrupt>>

-----------------------------------------------------------------------------
(* verify_membership and verify_non_membership *)

VerifyMembership(c, height) ==
    /\ IsStored(c, height)
    /\ ~is_frozen(client_states[c])
    /\ verify_membership(consensus_states[c][height])
    /\ message' = MembershipMessage(c, client_states[c], height,
                                    consensus_states[c][height], "present")
    /\ UNCHANGED <<store, now, corrupt>>

VerifyNonMembership(c, height) ==
    /\ IsStored(c, height)
    /\ ~is_frozen(client_states[c])
    /\ verify_non_membership(consensus_states[c][height])
    /\ message' = MembershipMessage(c, client_states[c], height,
                                    consensus_states[c][height], "absent")
    /\ UNCHANGED <<store, now, corrupt>>

-----------------------------------------------------------------------------
(* The environment: time passes, and committee keys leave safe hands *)

Tick ==
    /\ now < MaxTime
    /\ now' = now + 1
    /\ UNCHANGED <<store, message, corrupt>>

CorruptCommittee(period) ==
    /\ period \notin corrupt
    /\ MayBeCorrupted(period, now)
    /\ corrupt' = corrupt \cup {period}
    /\ UNCHANGED <<store, message, now>>

\* The calls of the LightClient trait on one client.
Call(c) ==
    \/ \E params \in Params, block \in CanonicalBlocks, fault \in Omissions \cup {"nothing"} :
          CreateClient(c, params, block, fault)
    \/ \E header \in Headers : UpdateState(c, header)
    \/ \E misbehaviour \in Misbehaviours : SubmitMisbehaviour(c, misbehaviour)
    \/ /\ client_states[c] # None
       /\ \E height \in DOMAIN consensus_states[c] :
            \/ VerifyMembership(c, height)
            \/ VerifyNonMembership(c, height)

Next ==
    \/ \E c \in ClientIds : Call(c)
    \/ Tick
    \/ \E period \in CommitteePeriods : CorruptCommittee(period)

Spec == Init /\ [][Next]_vars

-----------------------------------------------------------------------------
(* Properties *)

\* Every variable has the type its Rust counterpart has: in particular the
\* store keeps a well-formed consensus state per height (client_state.rs
\* 20-34, 44-89) and every call returns one of the three proxy messages.
TypeOK ==
    /\ client_states \in [ClientIds -> ClientState \cup {None}]
    /\ \A c \in ClientIds :
          consensus_states[c] \in [DOMAIN consensus_states[c] -> ConsensusState]
    /\ DOMAIN consensus_states = ClientIds
    /\ \A c \in ClientIds : DOMAIN consensus_states[c] \subseteq Nat
    /\ message \in {NoMessage} \cup UpdateStateProxyMessage
                   \cup MisbehaviourProxyMessage \cup VerifyMembershipProxyMessage
    /\ now \in Nat
    /\ corrupt \subseteq Nat

\* Whatever headers are submitted, in whatever order and however late, a
\* stored consensus state describes a finalised block of the canonical chain,
\* at that block's execution height, unless a committee of its period, the
\* next or an earlier one equivocated.  Keys that leak after the weak
\* subjectivity period never suffice (client_state.rs 176-243).
TrustedStates ==
    \A c \in ClientIds : \A h \in DOMAIN consensus_states[c] :
        \/ IsCanonicalState(h, consensus_states[c][h])
        \/ IsBlamed(consensus_states[c][h])

\* The client state's latest block number is the greatest height stored, in
\* spite of headers that fill in older heights (client_state.rs 76, 232).
LatestIsMaxStored ==
    \A c \in ClientIds : client_states[c] # None =>
        /\ latest_height(c) \in DOMAIN consensus_states[c]
        /\ \A h \in DOMAIN consensus_states[c] : h <= latest_height(c)

\* No state is stored at height zero, even when the first Gloas blocks reach
\* back to the execution genesis block (header.rs 76, client_state.rs 167).
NoStateAtHeightZero ==
    \A c \in ClientIds : 0 \notin DOMAIN consensus_states[c]

\* A client is frozen only by evidence: a committee that its trusted state, at
\* the frozen height, could verify with has equivocated, or one before it did
\* (client.rs 222, client_state.rs 245).
NoFalseFreeze ==
    \A c \in ClientIds : client_states[c] # None /\ client_states[c].frozen_height # None =>
        /\ client_states[c].frozen_height \in DOMAIN consensus_states[c]
        /\ IsBlamed(consensus_states[c][client_states[c].frozen_height])

\* A membership message says what the canonical execution block at its height
\* commits to: messages about one height never contradict each other, whatever
\* was stored there in between (client.rs 91-163).
MembershipReflectsChain ==
    message.type = "VerifyMembership" =>
        \/ \E block \in CanonicalBlocks :
              /\ HeightOf(block) = message.height
              /\ message.value = IF HasCommitment(StorageRootAt(block))
                                   THEN "present" ELSE "absent"
        \/ IsBlamed(message.state_id.consensus_state)

\* On a canonical chain an update message never leads back: neither its height
\* nor its timestamp is below the one it was verified from, although the host
\* may submit headers out of order (client.rs 167-220, header.rs 89).
UpdatesGoForward ==
    FaultyPeriods = {} /\ message.type = "UpdateState" /\ message.prev_height # None =>
        /\ message.prev_height <= message.post_height
        /\ message.context.state_timestamp <= message.timestamp

\* Once frozen, a client is inert: its stored states never change again and no
\* call on it returns a message (client.rs 104, 142, 183, 233).
FrozenIsFinal ==
    [][\A c \in ClientIds : client_states[c] # None /\ client_states[c].frozen_height # None =>
        /\ client_states'[c] = client_states[c]
        /\ consensus_states'[c] = consensus_states[c]
        /\ message' # message => message'.client_id # c]_vars

\* A client whose every stored state has outlived the trusting period stays as
\* it is: no header and no misbehaviour revives or freezes it
\* (client_state.rs 215, 271).
ExpiredIsFinal ==
    [][\A c \in ClientIds :
        /\ client_states[c] # None
        /\ \A h \in DOMAIN consensus_states[c] :
             consensus_states[c][h].timestamp
               + client_states[c].params.trusting_period <= now
        => /\ client_states'[c] = client_states[c]
           /\ consensus_states'[c] = consensus_states[c]]_vars

\* The storage root and timestamp at a height are settled once stored: without
\* equivocation a later update may rewrite the height, and in Gloas with
\* another slot, but never with another execution block (client.rs 173, 203).
RootsAreFinal ==
    [][FaultyPeriods = {} =>
        \A c \in ClientIds : \A h \in DOMAIN consensus_states[c] :
            LET old == consensus_states[c][h]
                new == consensus_states'[c][h]
            IN  /\ new.storage_root = old.storage_root
                /\ new.timestamp = old.timestamp]_vars

\* Before Gloas the whole state at a height is settled, and with it the state
\* id that a later message names as its predecessor.  A height can be given
\* another state only where a Gloas block proves the same execution block as a
\* block before it (client.rs 204-205, header.rs 52-59).
StateIdsAreFinal ==
    [][FaultyPeriods = {} =>
        \A c \in ClientIds : \A h \in DOMAIN consensus_states[c] :
            \/ consensus_states'[c][h] = consensus_states[c][h]
            \/ consensus_states[c][h].slot >= GloasSlot
            \/ consensus_states'[c][h].slot >= GloasSlot]_vars

\* A created client's storage root was set: validate() means to refuse a state
\* that leaves it at its default (consensus_state.rs 76-77).
StorageRootsAreInitialized ==
    \A c \in ClientIds : \A h \in DOMAIN consensus_states[c] :
        consensus_states[c][h].storage_root # DefaultRoot
=============================================================================
