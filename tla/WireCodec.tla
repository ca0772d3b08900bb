----------------------------- MODULE WireCodec ------------------------------
(***************************************************************************)
(* How states and messages travel and are stored: as protobuf values in an *)
(* Any with a type URL.  A TryFrom that returns a Result is two operators, *)
(* as in ClientState; a From is one.                                       *)
(*                                                                         *)
(* `encoding` names the protobuf message whose bytes an Any holds, "none"  *)
(* when they are no message.  In a raw value, None is a sub-message that is*)
(* missing or a byte string that is empty, and Malformed a sub-message, a  *)
(* byte string or an identifier that is there and cannot be converted.     *)
(* One time unit is a nanosecond here, NanosPerSecond of them are a second.*)
(***************************************************************************)
EXTENDS ClientState

CONSTANTS
    Malformed,        \* what a conversion to the type of the crate refuses
    NanosPerSecond

ASSUME NanosAssumption == NanosPerSecond \in Nat \ {0}

TypeUrls ==
    {"ClientState", "ConsensusState", "Header", "FinalizedHeaderMisbehaviour",
     "NextSyncCommitteeMisbehaviour", "unknown"}

MakeAny(type_url, encoding, value) ==
    [type_url |-> type_url, encoding |-> encoding, value |-> value]

Optional(type) == type \cup {None}

Convertible(type) == type \cup {Malformed}

\* Present, and converted with no error.
IsConverted(part) == part \notin {None, Malformed}

IsAnyOf(any, type_url, encoding) == any.type_url = type_url /\ any.encoding = encoding

-----------------------------------------------------------------------------
(* ClientState *)

\* `fixed` stands for the fields that must be there with a set length or form:
\* roots, addresses, fork parameters and the trust level.  They are all well
\* formed, if perhaps not initialised, or one of them has a fault.
FixedFaults ==
    {"no_fork_parameters", "fork_parameters", "no_trust_level", "trust_level",
     "root_length", "ibc_address"}

RawClientState ==
    [fixed           : {"initialized", "default"} \cup FixedFaults,
     trusting_period : Optional(Int),
     max_clock_drift : Optional(Int),
     latest_execution_block_number : Nat,
     frozen_height   : Optional([revision_number : Nat, revision_height : Nat])]

IsClientStateAny(any) ==
    /\ IsAnyOf(any, "ClientState", "ClientState")
    /\ any.value.fixed \notin FixedFaults
    /\ any.value.trusting_period # None /\ any.value.trusting_period >= 0
    /\ any.value.max_clock_drift # None /\ any.value.max_clock_drift >= 0

ClientStateOf(raw) ==
    [params |-> [initialized     |-> raw.fixed = "initialized",
                 trusting_period |-> raw.trusting_period,
                 max_clock_drift |-> raw.max_clock_drift],
     latest_execution_block_number |-> raw.latest_execution_block_number,
     frozen_height |-> IF raw.frozen_height = None THEN None
                                                   ELSE raw.frozen_height.revision_height]

\* Mutant: the frozen height is not written.
AnyOfClientState_without_frozen_height(cs) ==
    MakeAny("ClientState", "ClientState",
        [fixed           |-> IF cs.params.initialized THEN "initialized" ELSE "default",
         trusting_period |-> cs.params.trusting_period,
         max_clock_drift |-> cs.params.max_clock_drift,
         latest_execution_block_number |-> cs.latest_execution_block_number,
         frozen_height   |-> None])

AnyOfClientState(cs) ==
    MakeAny("ClientState", "ClientState",
        [fixed           |-> IF cs.params.initialized THEN "initialized" ELSE "default",
         trusting_period |-> cs.params.trusting_period,
         max_clock_drift |-> cs.params.max_clock_drift,
         latest_execution_block_number |-> cs.latest_execution_block_number,
         frozen_height   |->
            IF cs.frozen_height = None THEN None
              ELSE [revision_number |-> 0, revision_height |-> cs.frozen_height]])

-----------------------------------------------------------------------------
(* ConsensusState *)

RawConsensusState ==
    [slot         : Nat,
     storage_root : Convertible(Root),
     timestamp    : Optional([seconds : Int, nanos : Int]),
     current_sync_committee : Optional(Convertible(PublicKey \cup {DefaultKey})),
     next_sync_committee    : Optional(Convertible(PublicKey \cup {DefaultKey}))]

\* Mutant: the part below a second is not written.
timestamp_to_proto_timestamp_in_seconds(timestamp) ==
    [seconds |-> timestamp \div NanosPerSecond, nanos |-> 0]

\* Mutant: the last whole second is counted in the nanoseconds.
timestamp_to_proto_timestamp_off_by_one(timestamp) ==
    LET seconds == (timestamp - 1) \div NanosPerSecond
    IN  [seconds |-> seconds, nanos |-> timestamp - seconds * NanosPerSecond]

timestamp_to_proto_timestamp(timestamp) ==
    [seconds |-> timestamp \div NanosPerSecond, nanos |-> timestamp % NanosPerSecond]

TimeOf(proto_timestamp) ==
    proto_timestamp.seconds * NanosPerSecond + proto_timestamp.nanos

IsConsensusStateAny(any) ==
    /\ IsAnyOf(any, "ConsensusState", "ConsensusState")
    /\ IsConverted(any.value.next_sync_committee)
    /\ any.value.timestamp # None
    /\ any.value.storage_root # Malformed
    /\ any.value.timestamp.nanos \in 0 .. NanosPerSecond - 1
    /\ IsConverted(any.value.current_sync_committee)

ConsensusStateOf(raw) ==
    [slot                   |-> raw.slot,
     storage_root           |-> raw.storage_root,
     timestamp              |-> TimeOf(raw.timestamp),
     current_sync_committee |-> raw.current_sync_committee,
     next_sync_committee    |-> raw.next_sync_committee]

AnyOfConsensusState(cs) ==
    MakeAny("ConsensusState", "ConsensusState",
        [slot                   |-> cs.slot,
         storage_root           |-> cs.storage_root,
         timestamp              |-> timestamp_to_proto_timestamp(cs.timestamp),
         current_sync_committee |-> cs.current_sync_committee,
         next_sync_committee    |-> cs.next_sync_committee])

-----------------------------------------------------------------------------
(* Client messages: a header, or misbehaviour of one of two kinds *)

RawHeader ==
    [trusted_sync_committee : Optional(Convertible(TrustedSyncCommittee)),
     consensus_update : Optional(Convertible(ConsensusUpdate)),
     execution_update : Optional(Convertible(ExecutionUpdate)),
     account_update   : Optional(Convertible(Root))]

\* FinalizedHeaderMisbehaviour and NextSyncCommitteeMisbehaviour.
RawMisbehaviour ==
    [client_id : Convertible(ClientIds),
     trusted_sync_committee : Optional(Convertible(TrustedSyncCommittee)),
     consensus_update_1 : Optional(Convertible(ConsensusUpdate)),
     consensus_update_2 : Optional(Convertible(ConsensusUpdate))]

IsHeaderAny(any) ==
    /\ IsAnyOf(any, "Header", "Header")
    /\ \A f \in DOMAIN any.value : IsConverted(any.value[f])

HeaderOf(raw) ==
    [trusted |-> raw.trusted_sync_committee, update |-> raw.consensus_update,
     execution |-> raw.execution_update, account_storage_root |-> raw.account_update]

\* Both kinds of misbehaviour are encoded alike: the type URL tells them apart.
IsMisbehaviourAny(any) ==
    /\ \/ IsAnyOf(any, "FinalizedHeaderMisbehaviour", "Misbehaviour")
       \/ IsAnyOf(any, "NextSyncCommitteeMisbehaviour", "Misbehaviour")
    /\ \A f \in DOMAIN any.value : IsConverted(any.value[f])

\* Mutant: whatever its type URL, misbehaviour is read as that of one kind.
MisbehaviourOf_of_one_kind(any) ==
    [client_id |-> any.value.client_id,
     trusted   |-> any.value.trusted_sync_committee,
     data      |-> [kind |-> "FinalizedHeader",
                    update_1 |-> any.value.consensus_update_1,
                    update_2 |-> any.value.consensus_update_2]]

MisbehaviourOf(any) ==
    [client_id |-> any.value.client_id,
     trusted   |-> any.value.trusted_sync_committee,
     data      |-> [kind |-> IF any.type_url = "FinalizedHeaderMisbehaviour"
                               THEN "FinalizedHeader" ELSE "NextSyncCommittee",
                    update_1 |-> any.value.consensus_update_1,
                    update_2 |-> any.value.consensus_update_2]]

\* An Any whose bytes are those of a message, or that message spoilt.
Encoded(encoding, raw) ==
    [type_url : TypeUrls, encoding : {encoding, "none"}, value : raw]

Any == Encoded("ClientState", RawClientState)
       \cup Encoded("ConsensusState", RawConsensusState)
       \cup Encoded("Header", RawHeader)
       \cup Encoded("Misbehaviour", RawMisbehaviour)

\* Nothing that was encoded is taken for something missing or malformed.
ASSUME WireAssumption ==
    \A mark \in {None, Malformed} :
        mark \notin Any \cup Root \cup PublicKey \cup {DefaultKey}
                    \cup TrustedSyncCommittee \cup ConsensusUpdate
                    \cup ExecutionUpdate \cup ClientIds
                    \cup [revision_number : Nat, revision_height : Nat]
                    \cup [seconds : Int, nanos : Int]

\* What a relayer encodes.
AnyOfHeader(header) ==
    MakeAny("Header", "Header",
        [trusted_sync_committee |-> header.trusted,
         consensus_update |-> header.update,
         execution_update |-> header.execution,
         account_update   |-> header.account_storage_root])

AnyOfMisbehaviour(misbehaviour) ==
    MakeAny(IF misbehaviour.data.kind = "FinalizedHeader"
              THEN "FinalizedHeaderMisbehaviour" ELSE "NextSyncCommitteeMisbehaviour",
            "Misbehaviour",
        [client_id |-> misbehaviour.client_id,
         trusted_sync_committee |-> misbehaviour.trusted,
         consensus_update_1 |-> misbehaviour.data.update_1,
         consensus_update_2 |-> misbehaviour.data.update_2])
=============================================================================
