--------------------------- MODULE AnyStoreProofs ---------------------------
(***************************************************************************)
(* Proofs about AnyStore, for every chain, clock and set of messages, and  *)
(* for every way of spoiling them.  What was encoded decodes to what it    *)
(* was (the round trips), and what decodes of the spoilt values is well    *)
(* formed: therefore every stored value can be read again.                 *)
(***************************************************************************)
EXTENDS AnyStore, ClientCallsLemmas, TLAPS

-----------------------------------------------------------------------------
(* Round trips *)

\* The seconds and nanoseconds of a timestamp add up to it again.
LEMMA TimeRoundTrip ==
    ASSUME NEW timestamp \in Nat
    PROVE  /\ timestamp_to_proto_timestamp(timestamp) \in [seconds : Nat, nanos : Nat]
           /\ timestamp_to_proto_timestamp(timestamp).nanos \in 0 .. NanosPerSecond - 1
           /\ TimeOf(timestamp_to_proto_timestamp(timestamp)) = timestamp
<1> DEFINE q == timestamp \div NanosPerSecond
           r == timestamp % NanosPerSecond
<1>1. q \in Nat /\ r \in 0 .. NanosPerSecond - 1
  BY NanosAssumption
<1>2. timestamp = NanosPerSecond * q + r
  BY NanosAssumption
<1>3. q * NanosPerSecond + r = timestamp
  BY <1>1, <1>2, NanosAssumption
<1> HIDE DEF q, r
<1>4. [seconds |-> q, nanos |-> r] \in [seconds : Nat, nanos : Nat]
  BY <1>1, NanosAssumption
<1> QED
  BY <1>1, <1>3, <1>4 DEF timestamp_to_proto_timestamp, TimeOf, q, r

\* An encoded client state decodes to itself.
LEMMA ClientStateRoundTrip ==
    ASSUME NEW cs \in ClientState
    PROVE  /\ AnyOfClientState(cs) \in Any
           /\ IsClientStateAny(AnyOfClientState(cs))
           /\ ClientStateOf(AnyOfClientState(cs).value) = cs
<1> DEFINE any == AnyOfClientState(cs)
           raw == any.value
           frozen == IF cs.frozen_height = None THEN None
                       ELSE [revision_number |-> 0, revision_height |-> cs.frozen_height]
<1>1. /\ cs.params.initialized \in BOOLEAN
      /\ cs.params.trusting_period \in Nat /\ cs.params.max_clock_drift \in Nat
      /\ cs.latest_execution_block_number \in Nat
      /\ cs.frozen_height \in Nat \cup {None}
      /\ cs = [params |-> cs.params,
               latest_execution_block_number |-> cs.latest_execution_block_number,
               frozen_height |-> cs.frozen_height]
      /\ cs.params = [initialized |-> cs.params.initialized,
                      trusting_period |-> cs.params.trusting_period,
                      max_clock_drift |-> cs.params.max_clock_drift]
  BY ParamsAssumption DEF ClientState
<1>2. /\ frozen \in Optional([revision_number : Nat, revision_height : Nat])
      /\ (IF frozen = None THEN None ELSE frozen.revision_height) = cs.frozen_height
  BY <1>1, WireAssumption DEF Optional
<1>3. /\ any = [type_url |-> "ClientState", encoding |-> "ClientState", value |-> raw]
      /\ raw = [fixed |-> IF cs.params.initialized THEN "initialized" ELSE "default",
                trusting_period |-> cs.params.trusting_period,
                max_clock_drift |-> cs.params.max_clock_drift,
                latest_execution_block_number |-> cs.latest_execution_block_number,
                frozen_height |-> frozen]
  BY DEF AnyOfClientState, MakeAny
<1> HIDE DEF any, raw, frozen
<1>4. raw \in RawClientState
  BY <1>1, <1>2, <1>3 DEF RawClientState, Optional
<1>5. any \in Any
  BY <1>3, <1>4 DEF Any, Encoded, TypeUrls
<1>6. IsClientStateAny(any)
  BY <1>1, <1>3, ParamsAssumption DEF IsClientStateAny, IsAnyOf, FixedFaults
<1>7. (raw.fixed = "initialized") = cs.params.initialized
  BY <1>1, <1>3
<1>8. ClientStateOf(raw) = cs
  BY <1>1, <1>2, <1>3, <1>7 DEF ClientStateOf
<1> QED
  BY <1>5, <1>6, <1>8 DEF any, raw

\* A part that is there decodes unless it is malformed.
LEMMA NothingIsMistaken ==
    ASSUME NEW part \in Root \cup PublicKey \cup {DefaultKey} \cup [seconds : Int, nanos : Int]
    PROVE  part # None /\ part # Malformed
BY WireAssumption

\* An encoded consensus state decodes to itself.
LEMMA ConsensusStateRoundTrip ==
    ASSUME NEW cs \in ConsensusState
    PROVE  /\ AnyOfConsensusState(cs) \in Any
           /\ IsConsensusStateAny(AnyOfConsensusState(cs))
           /\ ConsensusStateOf(AnyOfConsensusState(cs).value) = cs
<1> DEFINE any == AnyOfConsensusState(cs)
           raw == any.value
           proto == timestamp_to_proto_timestamp(cs.timestamp)
<1>1. /\ cs.slot \in Nat /\ cs.storage_root \in Root /\ cs.timestamp \in Nat
      /\ cs.current_sync_committee \in PublicKey /\ cs.next_sync_committee \in PublicKey
      /\ cs = [slot |-> cs.slot, storage_root |-> cs.storage_root,
               timestamp |-> cs.timestamp,
               current_sync_committee |-> cs.current_sync_committee,
               next_sync_committee |-> cs.next_sync_committee]
  BY DEF ConsensusState
<1>2. /\ proto \in [seconds : Int, nanos : Int] /\ proto.nanos \in 0 .. NanosPerSecond - 1
      /\ TimeOf(proto) = cs.timestamp
  BY <1>1, TimeRoundTrip
<1>3. /\ any = [type_url |-> "ConsensusState", encoding |-> "ConsensusState", value |-> raw]
      /\ raw = [slot |-> cs.slot, storage_root |-> cs.storage_root, timestamp |-> proto,
                current_sync_committee |-> cs.current_sync_committee,
                next_sync_committee |-> cs.next_sync_committee]
  BY DEF AnyOfConsensusState, MakeAny
<1> HIDE DEF any, raw, proto
<1>4. raw \in RawConsensusState
  BY <1>1, <1>2, <1>3 DEF RawConsensusState, Optional, Convertible
<1>5. any \in Any
  BY <1>3, <1>4 DEF Any, Encoded, TypeUrls
<1>6. IsConsensusStateAny(any)
  <2>1. /\ \A part \in {cs.storage_root, cs.current_sync_committee, cs.next_sync_committee} :
              part # None /\ part # Malformed
        /\ proto # None
    BY <1>1, <1>2, NothingIsMistaken
  <2> QED
    BY <1>2, <1>3, <2>1 DEF IsConsensusStateAny, IsAnyOf, IsConverted
<1>7. ConsensusStateOf(raw) = cs
  BY <1>1, <1>2, <1>3 DEF ConsensusStateOf
<1> QED
  BY <1>5, <1>6, <1>7 DEF any, raw

-----------------------------------------------------------------------------
(* What arrives *)

\* What is spoilt in a value is one field, which is missing or malformed.
LEMMA SpoiltField ==
    ASSUME NEW value, NEW v \in Spoilt(value)
    PROVE  \/ v = value
           \/ \E f \in DOMAIN value :
                \/ f \in OptionalFields /\ v = [value EXCEPT ![f] = None] /\ v[f] = None
                \/ f \in ConvertedFields /\ v = [value EXCEPT ![f] = Malformed]
                     /\ v[f] = Malformed
BY DEF Spoilt

\* A value that must have all its parts is none of the spoilt ones.
LEMMA UnspoiltValue ==
    ASSUME NEW value, NEW v \in Spoilt(value), \A f \in DOMAIN v : IsConverted(v[f])
    PROVE  v = value
<1> SUFFICES ASSUME v # value PROVE FALSE
  OBVIOUS
<1>1. PICK f \in DOMAIN value : v[f] \in {None, Malformed} /\ DOMAIN v = DOMAIN value
  BY SpoiltField
<1> QED
  BY <1>1 DEF IsConverted

\* What is wrong with a spoilt value is its type URL, its bytes, or one field.
LEMMA DamagedForms ==
    ASSUME NEW type_url \in TypeUrls, NEW encoding, NEW value,
           NEW any \in Damaged(MakeAny(type_url, encoding, value))
    PROVE  \E u \in TypeUrls, e \in {encoding, "none"}, v \in Spoilt(value) :
              any = MakeAny(u, e, v)
<1> DEFINE whole == MakeAny(type_url, encoding, value)
<1>1. /\ whole.type_url = type_url /\ whole.encoding = encoding /\ whole.value = value
      /\ \A u : [whole EXCEPT !.type_url = u] = MakeAny(u, encoding, value)
      /\ \A e : [whole EXCEPT !.encoding = e] = MakeAny(type_url, e, value)
      /\ \A v : [whole EXCEPT !.value = v] = MakeAny(type_url, encoding, v)
  BY DEF MakeAny
<1>2. value \in Spoilt(value)
  BY DEF Spoilt
<1>3. \/ \E u \in TypeUrls : any = [whole EXCEPT !.type_url = u]
      \/ any = [whole EXCEPT !.encoding = "none"]
      \/ \E v \in Spoilt(whole.value) : any = [whole EXCEPT !.value = v]
  BY DEF Damaged
<1> HIDE DEF whole
<1>4. CASE \E u \in TypeUrls : any = [whole EXCEPT !.type_url = u]
  <2> PICK u \in TypeUrls : any = [whole EXCEPT !.type_url = u]
    BY <1>4
  <2> any = MakeAny(u, encoding, value)
    BY <1>1
  <2> QED
    BY <1>2
<1>5. CASE any = [whole EXCEPT !.encoding = "none"]
  <2> any = MakeAny(type_url, "none", value)
    BY <1>1, <1>5
  <2> QED
    BY <1>2
<1>6. CASE \E v \in Spoilt(whole.value) : any = [whole EXCEPT !.value = v]
  <2> PICK v \in Spoilt(value) : any = [whole EXCEPT !.value = v]
    BY <1>1, <1>6
  <2> any = MakeAny(type_url, encoding, v)
    BY <1>1
  <2> QED
    OBVIOUS
<1> QED
  BY <1>3, <1>4, <1>5, <1>6

\* A spoilt header that decodes is the header itself.
LEMMA DamagedHeader ==
    ASSUME NEW header \in Header, NEW any \in Damaged(AnyOfHeader(header)),
           IsHeaderAny(any)
    PROVE  HeaderOf(any.value) = header
<1> DEFINE value == [trusted_sync_committee |-> header.trusted,
                     consensus_update |-> header.update,
                     execution_update |-> header.execution,
                     account_update   |-> header.account_storage_root]
<1>1. PICK u \in TypeUrls, e \in {"Header", "none"}, v \in Spoilt(value) :
           any = MakeAny(u, e, v)
  BY DamagedForms DEF AnyOfHeader, TypeUrls
<1>2. any.value = v
  BY <1>1 DEF MakeAny
<1>3. \A f \in DOMAIN v : IsConverted(v[f])
  BY <1>2 DEF IsHeaderAny
<1>4. v = value
  BY <1>3, UnspoiltValue
<1>5. header = [trusted |-> header.trusted, update |-> header.update,
                execution |-> header.execution,
                account_storage_root |-> header.account_storage_root]
  BY DEF Header
<1> QED
  BY <1>2, <1>4, <1>5 DEF HeaderOf

\* A spoilt misbehaviour that decodes is well formed, if perhaps of the other
\* kind.
LEMMA DamagedMisbehaviour ==
    ASSUME NEW misbehaviour \in Misbehaviour,
           NEW any \in Damaged(AnyOfMisbehaviour(misbehaviour)), IsMisbehaviourAny(any)
    PROVE  any \in Any /\ MisbehaviourOf(any) \in Misbehaviour
<1> DEFINE value == [client_id |-> misbehaviour.client_id,
                     trusted_sync_committee |-> misbehaviour.trusted,
                     consensus_update_1 |-> misbehaviour.data.update_1,
                     consensus_update_2 |-> misbehaviour.data.update_2]
<1>1. PICK u \in TypeUrls, e \in {"Misbehaviour", "none"}, v \in Spoilt(value) :
           any = MakeAny(u, e, v)
  BY DamagedForms DEF AnyOfMisbehaviour, TypeUrls
<1>2. any = [type_url |-> u, encoding |-> e, value |-> v]
  BY <1>1 DEF MakeAny
<1>3. \A f \in DOMAIN v : IsConverted(v[f])
  BY <1>2 DEF IsMisbehaviourAny
<1>4. v = value
  BY <1>3, UnspoiltValue
<1>5. /\ misbehaviour.client_id \in ClientIds
      /\ misbehaviour.trusted \in TrustedSyncCommittee
      /\ misbehaviour.data.update_1 \in ConsensusUpdate
      /\ misbehaviour.data.update_2 \in ConsensusUpdate
  BY DEF Misbehaviour
<1>6. v \in RawMisbehaviour
  BY <1>4, <1>5 DEF RawMisbehaviour, Optional, Convertible
<1>7. any \in Any
  BY <1>2, <1>6 DEF Any, Encoded
<1>8. MisbehaviourOf(any) \in Misbehaviour
  BY <1>2, <1>4, <1>5 DEF MisbehaviourOf, Misbehaviour
<1> QED
  BY <1>7, <1>8

\* What a creator submits is well formed but for what validate() looks at.
LEMMA CreatedConsensusStateForm ==
    ASSUME NEW block \in CanonicalBlocks, NEW fault
    PROVE  /\ HeightOf(block) \in Nat
           /\ CreatedConsensusState(block, fault) \in
                [slot : Nat, storage_root : Root, timestamp : Nat,
                 current_sync_committee : PublicKey \cup {DefaultKey},
                 next_sync_committee : PublicKey \cup {DefaultKey}]
<1>1. block \in Block /\ block.slot # 0
  BY BranchAssumption DEF CanonicalBlocks, Block, Slots
<1>2. HeightOf(block) \in Nat
  BY <1>1, ExecutionUpdateType DEF HeightOf, ExecutionUpdate
<1>3. StateAt(block) \in ConsensusState
  BY <1>1, StateAtType
<1>4. DefaultRoot \in Root
  BY DEF DefaultRoot, Root
<1> QED
  BY <1>2, <1>3, <1>4 DEF CreatedConsensusState, ConsensusState

LEMMA CreatedClientStateForm ==
    ASSUME NEW params \in Params, NEW block \in CanonicalBlocks, NEW fault
    PROVE  CreatedClientState(params, block, fault) \in ClientState
BY CreatedConsensusStateForm DEF CreatedClientState, ClientState

\* A spoilt client state that decodes is the client state, or what it would be
\* if it were not frozen.
LEMMA DamagedClientStateDecodes ==
    ASSUME NEW cs \in ClientState, NEW any \in DamagedClientState(AnyOfClientState(cs)),
           IsClientStateAny(any)
    PROVE  /\ any \in Any /\ ClientStateOf(any.value) \in ClientState
           /\ ClientStateOf(any.value) \in {cs, [cs EXCEPT !.frozen_height = None]}
<1> DEFINE whole == AnyOfClientState(cs)
           value == whole.value
           raw   == any.value
<1>1. /\ whole \in Any /\ IsClientStateAny(whole) /\ ClientStateOf(value) = cs
      /\ whole = MakeAny("ClientState", "ClientState", value)
      /\ value \in RawClientState
  <2>1. /\ whole = MakeAny("ClientState", "ClientState", value)
        /\ whole.encoding = "ClientState"
    BY DEF AnyOfClientState, MakeAny
  <2>2. whole \in Any /\ IsClientStateAny(whole) /\ ClientStateOf(value) = cs
    BY ClientStateRoundTrip
  <2>3. value \in RawClientState
    BY <2>1, <2>2 DEF Any, Encoded
  <2> QED
    BY <2>1, <2>2, <2>3
<1>2. \/ any \in Damaged(whole)
      \/ \E f \in FixedFaults : any = [whole EXCEPT !.value.fixed = f]
      \/ any = [whole EXCEPT !.value.trusting_period = -1]
      \/ any = [whole EXCEPT !.value.max_clock_drift = -1]
  BY DEF DamagedClientState
<1> HIDE DEF whole, value
<1>3. /\ any.type_url = "ClientState" /\ any.encoding = "ClientState"
      /\ raw.fixed \notin FixedFaults
      /\ raw.trusting_period # None /\ raw.trusting_period >= 0
      /\ raw.max_clock_drift # None /\ raw.max_clock_drift >= 0
  BY DEF IsClientStateAny, IsAnyOf
<1>4. any.value \in {value, [value EXCEPT !.frozen_height = None]}
      /\ any = MakeAny(any.type_url, any.encoding, any.value)
  <2>1. CASE any \in Damaged(whole)
    <3>1. PICK u \in TypeUrls, e \in {"ClientState", "none"}, v \in Spoilt(value) :
               any = MakeAny(u, e, v)
      BY <1>1, <2>1, DamagedForms DEF TypeUrls
    <3>2. any.value = v /\ any = MakeAny(any.type_url, any.encoding, any.value)
      BY <3>1 DEF MakeAny
    <3>3. CASE v = value
      BY <3>2, <3>3
    <3>4. CASE v # value
      <4>1. PICK f \in DOMAIN value :
              \/ f \in OptionalFields /\ v = [value EXCEPT ![f] = None] /\ v[f] = None
              \/ f \in ConvertedFields
        BY <3>1, <3>4, SpoiltField
      <4>2. f \in {"fixed", "trusting_period", "max_clock_drift",
                   "latest_execution_block_number", "frozen_height"}
        BY <1>1 DEF RawClientState
      <4>3. /\ v = [value EXCEPT ![f] = None] /\ v[f] = None
            /\ f \in {"trusting_period", "max_clock_drift", "frozen_height"}
        BY <4>1, <4>2 DEF OptionalFields, ConvertedFields
      <4>4. f = "frozen_height"
        BY <1>3, <3>2, <4>3
      <4> QED
        BY <3>2, <4>3, <4>4
    <3> QED
      BY <3>3, <3>4
  <2>2. CASE \E f \in FixedFaults : any = [whole EXCEPT !.value.fixed = f]
    <3>1. PICK f \in FixedFaults : any = [whole EXCEPT !.value.fixed = f]
      BY <2>2
    <3>2. any.value.fixed = f
      BY <1>1, <3>1 DEF MakeAny, RawClientState
    <3> QED
      BY <1>3, <3>2
  <2>3. CASE any = [whole EXCEPT !.value.trusting_period = -1]
    <3>1. raw.trusting_period = -1
      BY <1>1, <2>3 DEF MakeAny, RawClientState
    <3> QED
      BY <1>3, <3>1
  <2>4. CASE any = [whole EXCEPT !.value.max_clock_drift = -1]
    <3>1. raw.max_clock_drift = -1
      BY <1>1, <2>4 DEF MakeAny, RawClientState
    <3> QED
      BY <1>3, <3>1
  <2> QED
    BY <1>2, <2>1, <2>2, <2>3, <2>4
<1>5. raw \in RawClientState
  BY <1>1, <1>4 DEF RawClientState, Optional
<1>6. any \in Any
  BY <1>3, <1>4, <1>5 DEF MakeAny, Any, Encoded, TypeUrls
<1>7. ClientStateOf(raw) \in {cs, [cs EXCEPT !.frozen_height = None]}
  BY <1>1, <1>4 DEF ClientStateOf, RawClientState
<1>8. ClientStateOf(raw) \in ClientState
  BY <1>7 DEF ClientState
<1> QED
  BY <1>6, <1>7, <1>8

\* A spoilt consensus state that decodes is the one that was encoded, and well
\* formed if it passes validate().
LEMMA DamagedConsensusStateDecodes ==
    ASSUME NEW block \in CanonicalBlocks, NEW fault,
           NEW any \in DamagedConsensusState(
                          AnyOfConsensusState(CreatedConsensusState(block, fault))),
           IsConsensusStateAny(any), validate_ConsensusState(ConsensusStateOf(any.value))
    PROVE  /\ any \in Any /\ ConsensusStateOf(any.value) \in ConsensusState
           /\ ConsensusStateOf(any.value) = CreatedConsensusState(block, fault)
<1> DEFINE cs    == CreatedConsensusState(block, fault)
           whole == AnyOfConsensusState(cs)
           value == whole.value
           raw   == any.value
           proto == timestamp_to_proto_timestamp(cs.timestamp)
<1>1. /\ cs.slot \in Nat /\ cs.storage_root \in Root /\ cs.timestamp \in Nat
      /\ cs.current_sync_committee \in PublicKey \cup {DefaultKey}
      /\ cs.next_sync_committee \in PublicKey \cup {DefaultKey}
      /\ cs = [slot |-> cs.slot, storage_root |-> cs.storage_root,
               timestamp |-> cs.timestamp,
               current_sync_committee |-> cs.current_sync_committee,
               next_sync_committee |-> cs.next_sync_committee]
  BY CreatedConsensusStateForm
<1> HIDE DEF cs
<1>2. /\ proto \in [seconds : Nat, nanos : Nat]
      /\ proto.nanos \in 0 .. NanosPerSecond - 1
      /\ TimeOf(proto) = cs.timestamp
  BY <1>1, TimeRoundTrip
<1> HIDE DEF proto
<1>3. /\ whole = MakeAny("ConsensusState", "ConsensusState", value)
      /\ value = [slot |-> cs.slot, storage_root |-> cs.storage_root, timestamp |-> proto,
                  current_sync_committee |-> cs.current_sync_committee,
                  next_sync_committee |-> cs.next_sync_committee]
  BY DEF AnyOfConsensusState, MakeAny, proto
<1>4. \/ any \in Damaged(whole)
      \/ \E n \in {-1, NanosPerSecond} : any = [whole EXCEPT !.value.timestamp.nanos = n]
  BY DEF DamagedConsensusState, cs
<1> HIDE DEF whole, value
<1>5. /\ any.type_url = "ConsensusState" /\ any.encoding = "ConsensusState"
      /\ raw.storage_root # Malformed /\ raw.timestamp # None
      /\ raw.current_sync_committee \notin {None, Malformed}
      /\ raw.next_sync_committee \notin {None, Malformed}
      /\ raw.timestamp.nanos \in 0 .. NanosPerSecond - 1
  BY DEF IsConsensusStateAny, IsAnyOf, IsConverted
<1>6. any.value = value /\ any = MakeAny(any.type_url, any.encoding, any.value)
  <2>1. CASE any \in Damaged(whole)
    <3>1. PICK u \in TypeUrls, e \in {"ConsensusState", "none"}, v \in Spoilt(value) :
               any = MakeAny(u, e, v)
      BY <1>3, <2>1, DamagedForms DEF TypeUrls
    <3>2. any.value = v /\ any = MakeAny(any.type_url, any.encoding, any.value)
      BY <3>1 DEF MakeAny
    <3>3. CASE v = value
      BY <3>2, <3>3
    <3>4. CASE v # value
      <4>1. PICK f \in DOMAIN value :
              \/ f \in OptionalFields /\ v[f] = None
              \/ f \in ConvertedFields /\ v[f] = Malformed
        BY <3>1, <3>4, SpoiltField
      <4>2. f \in {"slot", "storage_root", "timestamp", "current_sync_committee",
                   "next_sync_committee"}
        BY <1>3
      <4>3. \/ f \in {"timestamp", "current_sync_committee", "next_sync_committee"}
                 /\ v[f] = None
            \/ f \in {"storage_root", "current_sync_committee", "next_sync_committee"}
                 /\ v[f] = Malformed
        BY <4>1, <4>2 DEF OptionalFields, ConvertedFields
      <4> QED
        BY <1>5, <3>2, <4>3
    <3> QED
      BY <3>3, <3>4
  <2>2. CASE \E n \in {-1, NanosPerSecond} :
               any = [whole EXCEPT !.value.timestamp.nanos = n]
    <3>1. PICK n \in {-1, NanosPerSecond} :
               any = [whole EXCEPT !.value.timestamp.nanos = n]
      BY <2>2
    <3>2. raw.timestamp.nanos = n
      BY <1>2, <1>3, <3>1 DEF MakeAny
    <3>3. n \notin 0 .. NanosPerSecond - 1
      BY NanosAssumption
    <3> QED
      BY <1>5, <3>2, <3>3
  <2> QED
    BY <1>4, <2>1, <2>2
<1>7. raw \in RawConsensusState
  BY <1>1, <1>2, <1>3, <1>6 DEF RawConsensusState, Optional, Convertible
<1>8. any \in Any
  BY <1>5, <1>6, <1>7 DEF MakeAny, Any, Encoded, TypeUrls
<1>9. ConsensusStateOf(raw) = cs
  BY <1>1, <1>2, <1>3, <1>6 DEF ConsensusStateOf
<1>10. cs \in ConsensusState
  BY <1>1, <1>9 DEF ConsensusState, validate_ConsensusState
<1> QED
  BY <1>8, <1>9, <1>10 DEF cs

-----------------------------------------------------------------------------
(* The decoded view of a message *)

LEMMA DecodedCreateClientMessage ==
    ASSUME NEW c, NEW cs, NEW consensus_state, NEW any, ClientStateOf(any.value) = cs
    PROVE  MessageOf(CreateClientMessage(c, cs, consensus_state, any))
             = CreateClientMessage(c, cs, consensus_state, cs)
<1> DEFINE height == cs.latest_execution_block_number
<1>1. {<<e[1], ClientStateOf(e[2].value)>> : e \in {<<height, any>>}} = {<<height, cs>>}
  OBVIOUS
<1> QED
  BY <1>1 DEF MessageOf, CreateClientMessage

LEMMA DecodedUpdateStateMessage ==
    ASSUME NEW c, NEW cs, NEW consensus_state, NEW header
    PROVE  /\ MessageOf(UpdateStateMessage(c, cs, consensus_state, header))
                = UpdateStateMessage(c, cs, consensus_state, header)
           /\ UpdateStateMessage(c, cs, consensus_state, header).emitted_states = {}
<1>1. {<<e[1], ClientStateOf(e[2].value)>> : e \in {}} = {}
  OBVIOUS
<1> QED
  BY <1>1 DEF MessageOf, UpdateStateMessage

LEMMA DecodedMisbehaviourMessage ==
    ASSUME NEW c, NEW cs, NEW consensus_state, NEW prev_states, NEW any
    PROVE  MessageOf(MisbehaviourMessage(c, cs, consensus_state, prev_states, any))
             = MisbehaviourMessage(c, cs, consensus_state, prev_states, MisbehaviourOf(any))
BY DEF MessageOf, MisbehaviourMessage

LEMMA DecodedMembershipMessage ==
    ASSUME NEW c, NEW cs, NEW consensus_state, NEW height, NEW value
    PROVE  MessageOf(MembershipMessage(c, cs, height, consensus_state, value))
             = MembershipMessage(c, cs, height, consensus_state, value)
BY DEF MessageOf, MembershipMessage

-----------------------------------------------------------------------------
(* Reading and storing *)

\* What a call reads decodes into well-formed states.
LEMMA ReadStatesType ==
    ASSUME TypeOK, NEW c \in ClientIds, NEW height, IsReadable(c, height)
    PROVE  /\ read_client_state(c) \in ClientState
           /\ read_consensus_state(c, height) \in ConsensusState
           /\ height \in Nat
BY DEF TypeOK, IsReadable

LEMMA StoreClientState ==
    ASSUME TypeOK, StoredAnysDecode, NEW c \in ClientIds, NEW any \in Any,
           IsClientStateAny(any), ClientStateOf(any.value) \in ClientState,
           any_client_states' = [any_client_states EXCEPT ![c] = any]
    PROVE  /\ any_client_states' \in [ClientIds -> Optional(Any)]
           /\ \A d \in ClientIds : any_client_states'[d] # None =>
                 /\ IsClientStateAny(any_client_states'[d])
                 /\ ClientStateOf(any_client_states'[d].value) \in ClientState
           /\ any_client_states'[c] = any
<1>1. /\ any_client_states'[c] = any
      /\ \A d \in ClientIds \ {c} : any_client_states'[d] = any_client_states[d]
      /\ any_client_states' \in [ClientIds -> Optional(Any)]
  BY DEF TypeOK, Optional
<1>2. \A d \in ClientIds : any_client_states[d] # None =>
          /\ IsClientStateAny(any_client_states[d])
          /\ ClientStateOf(any_client_states[d].value) \in ClientState
  BY DEF TypeOK, StoredAnysDecode, read_client_state
<1>3. \A d \in ClientIds : any_client_states'[d] # None =>
          /\ IsClientStateAny(any_client_states'[d])
          /\ ClientStateOf(any_client_states'[d].value) \in ClientState
  <2> SUFFICES ASSUME NEW d \in ClientIds, any_client_states'[d] # None
               PROVE  /\ IsClientStateAny(any_client_states'[d])
                      /\ ClientStateOf(any_client_states'[d].value) \in ClientState
    OBVIOUS
  <2>1. CASE d = c
    BY <1>1, <2>1
  <2>2. CASE d # c
    BY <1>1, <1>2, <2>2
  <2> QED
    BY <2>1, <2>2
<1> QED
  BY <1>1, <1>3

\* What the host holds about consensus states, and that it can be read again.
StoredConsensusStatesType(any_states) ==
    /\ DOMAIN any_states \subseteq Nat
    /\ any_states \in [DOMAIN any_states -> Any]
    /\ \A h \in DOMAIN any_states :
          /\ IsConsensusStateAny(any_states[h])
          /\ ConsensusStateOf(any_states[h].value) \in ConsensusState

LEMMA StoreConsensusStateType ==
    ASSUME TypeOK, StoredAnysDecode, NEW c \in ClientIds, NEW height \in Nat,
           NEW any \in Any, IsConsensusStateAny(any),
           ConsensusStateOf(any.value) \in ConsensusState,
           StoreConsensusState(c, height, any)
    PROVE  /\ DOMAIN any_consensus_states' = ClientIds
           /\ \A d \in ClientIds : StoredConsensusStatesType(any_consensus_states'[d])
           /\ any_consensus_states'[c][height] = any
<1> DEFINE stored == [h \in DOMAIN any_consensus_states[c] \cup {height} |->
                        IF h = height THEN any ELSE any_consensus_states[c][h]]
<1>1. /\ DOMAIN any_consensus_states = ClientIds
      /\ \A d \in ClientIds : StoredConsensusStatesType(any_consensus_states[d])
  BY DEF TypeOK, StoredAnysDecode, StoredConsensusStatesType, read_consensus_state
<1>2. /\ any_consensus_states' = [any_consensus_states EXCEPT ![c] = stored]
      /\ DOMAIN any_consensus_states' = ClientIds
      /\ any_consensus_states'[c] = stored
      /\ \A d \in ClientIds \ {c} : any_consensus_states'[d] = any_consensus_states[d]
  BY <1>1 DEF StoreConsensusState
<1>3. StoredConsensusStatesType(stored) /\ stored[height] = any
  <2>1. \A h \in DOMAIN stored :
           /\ h \in Nat /\ stored[h] \in Any
           /\ IsConsensusStateAny(stored[h])
           /\ ConsensusStateOf(stored[h].value) \in ConsensusState
    <3> SUFFICES ASSUME NEW h \in DOMAIN stored
                 PROVE  /\ h \in Nat /\ stored[h] \in Any
                        /\ IsConsensusStateAny(stored[h])
                        /\ ConsensusStateOf(stored[h].value) \in ConsensusState
      OBVIOUS
    <3>1. CASE h = height
      BY <3>1
    <3>2. CASE h # height
      <4>1. h \in DOMAIN any_consensus_states[c] /\ stored[h] = any_consensus_states[c][h]
        BY <3>2
      <4> HIDE DEF stored
      <4> QED
        BY <1>1, <4>1 DEF StoredConsensusStatesType
    <3> QED
      BY <3>1, <3>2
  <2>2. stored \in [DOMAIN stored -> Any]
    BY <2>1
  <2> QED
    BY <2>1, <2>2 DEF StoredConsensusStatesType
<1> HIDE DEF stored
<1> QED
  BY <1>1, <1>2, <1>3

-----------------------------------------------------------------------------
(* The inductive invariant: the type invariant and the two properties are  *)
(* inductive together, in parts that the actions disturb apart.            *)

StoreInv ==
    /\ any_client_states \in [ClientIds -> Optional(Any)]
    /\ \A d \in ClientIds : any_client_states[d] # None =>
          /\ IsClientStateAny(any_client_states[d])
          /\ ClientStateOf(any_client_states[d].value) \in ClientState
    /\ DOMAIN any_consensus_states = ClientIds
    /\ \A d \in ClientIds : StoredConsensusStatesType(any_consensus_states[d])

MessageInv ==
    /\ message.type = "UpdateState" => message.emitted_states \subseteq Nat \X Any
    /\ message.type = "Misbehaviour" => message.client_message \in Any
    /\ MessageOf(message) \in {NoMessage} \cup UpdateStateProxyMessage
                   \cup MisbehaviourProxyMessage \cup VerifyMembershipProxyMessage

EnvironmentInv == now \in Nat /\ corrupt \subseteq Nat

WireInv == StoreInv /\ MessageInv /\ EnvironmentInv /\ PostStateIsStored

LEMMA WireInvIsTypeAndProperties ==
    WireInv <=> TypeOK /\ StoredAnysDecode /\ PostStateIsStored
BY DEF WireInv, StoreInv, MessageInv, EnvironmentInv, TypeOK, StoredAnysDecode,
       StoredConsensusStatesType, read_client_state, read_consensus_state

\* Creation stores what was submitted, and announces what it decodes to.
LEMMA CreateStep ==
    ASSUME WireInv, NEW c \in ClientIds, NEW block \in CanonicalBlocks,
           NEW creation \in Creations(block), CreateClient(c, creation[1], creation[2])
    PROVE  WireInv'
<1> DEFINE any_cs == creation[1]
           any_consensus_state == creation[2]
           cs == ClientStateOf(any_cs.value)
           consensus_state == ConsensusStateOf(any_consensus_state.value)
           height == cs.latest_execution_block_number
           m == CreateClientMessage(c, cs, consensus_state, any_cs)
<1>1. PICK params \in Params, fault \in Omissions \cup {"nothing"} :
         /\ any_cs \in DamagedClientState(
                AnyOfClientState(CreatedClientState(params, block, fault)))
         /\ any_consensus_state \in DamagedConsensusState(
                AnyOfConsensusState(CreatedConsensusState(block, fault)))
  BY DEF Creations
<1>2. /\ IsClientStateAny(any_cs) /\ IsConsensusStateAny(any_consensus_state)
      /\ validate_ConsensusState(consensus_state)
      /\ any_client_states' = [any_client_states EXCEPT ![c] = any_cs]
      /\ StoreConsensusState(c, height, any_consensus_state)
      /\ message' = m
      /\ now' = now /\ corrupt' = corrupt
  BY DEF CreateClient
<1>3. any_cs \in Any /\ cs \in ClientState
  BY <1>1, <1>2, CreatedClientStateForm, DamagedClientStateDecodes
<1>4. any_consensus_state \in Any /\ consensus_state \in ConsensusState
  BY <1>1, <1>2, DamagedConsensusStateDecodes
<1>5. height \in Nat
  BY <1>3 DEF ClientState
<1>6. TypeOK /\ StoredAnysDecode
  BY WireInvIsTypeAndProperties
<1> HIDE DEF any_cs, any_consensus_state
<1>7. StoreInv' /\ any_client_states'[c] = any_cs
      /\ any_consensus_states'[c][height] = any_consensus_state
  <2> HIDE DEF height, m
  <2>1. /\ any_client_states' \in [ClientIds -> Optional(Any)]
        /\ \A d \in ClientIds : any_client_states'[d] # None =>
              /\ IsClientStateAny(any_client_states'[d])
              /\ ClientStateOf(any_client_states'[d].value) \in ClientState
        /\ any_client_states'[c] = any_cs
    BY <1>2, <1>3, <1>6, StoreClientState
  <2>2. /\ DOMAIN any_consensus_states' = ClientIds
        /\ \A d \in ClientIds : StoredConsensusStatesType(any_consensus_states'[d])
        /\ any_consensus_states'[c][height] = any_consensus_state
    BY <1>2, <1>4, <1>5, <1>6, StoreConsensusStateType
  <2> QED
    BY <2>1, <2>2 DEF StoreInv
<1>8. MessageOf(m) \in UpdateStateProxyMessage
  <2>1. ClientStateOf(any_cs.value) = cs
    OBVIOUS
  <2> HIDE DEF cs, consensus_state, height
  <2>2. MessageOf(m) = CreateClientMessage(c, cs, consensus_state, cs)
    BY <2>1, DecodedCreateClientMessage
  <2>3. CreateClientMessage(c, cs, consensus_state, cs) \in UpdateStateProxyMessage
    BY <1>3, <1>4, CreateClientMessageType
  <2> QED
    BY <2>2, <2>3
<1>9. /\ m.type = "UpdateState" /\ m.emitted_states = {<<height, any_cs>>}
      /\ m.client_id = c /\ m.post_height = height
      /\ m.post_state_id = gen_state_id(cs, consensus_state)
  BY DEF CreateClientMessage
<1> HIDE DEF m, height, cs, consensus_state
<1>10. MessageInv'
  <2>1. <<height, any_cs>> \in Nat \X Any
    BY <1>3, <1>5
  <2>2. m.emitted_states \subseteq Nat \X Any
    BY <2>1, <1>9
  <2> QED
    BY <1>2, <1>8, <1>9, <2>2 DEF MessageInv
<1>11. PostStateIsStored'
  <2>1. /\ message'.client_id = c /\ message'.post_height = height
        /\ message'.post_state_id = gen_state_id(cs, consensus_state)
    BY <1>2, <1>9
  <2>2. /\ ClientStateOf(any_client_states'[c].value) = cs
        /\ ConsensusStateOf(any_consensus_states'[c][height].value) = consensus_state
    BY <1>7 DEF cs, consensus_state
  <2> QED
    BY <2>1, <2>2 DEF PostStateIsStored, read_client_state, read_consensus_state
<1> QED
  BY <1>2, <1>7, <1>10, <1>11 DEF WireInv, EnvironmentInv

\* An update stores encodings of the states that its message is about.
LEMMA UpdateStep ==
    ASSUME WireInv, NEW c \in ClientIds, NEW header \in Header, UpdateState(c, header)
    PROVE  WireInv'
<1> DEFINE height          == header.execution.block_number
           cs              == read_client_state(c)
           consensus_state == read_consensus_state(c, header.trusted.height)
           new_cs          == new_client_state(cs, header)
           new_state       == new_consensus_state(consensus_state, header)
           m               == UpdateStateMessage(c, cs, consensus_state, header)
<1>1. /\ IsReadable(c, header.trusted.height)
      /\ check_header(cs, consensus_state, header, now, corrupt)
      /\ any_client_states' = [any_client_states EXCEPT ![c] = AnyOfClientState(new_cs)]
      /\ StoreConsensusState(c, height, AnyOfConsensusState(new_state))
      /\ message' = m
      /\ now' = now /\ corrupt' = corrupt
  BY DEF UpdateState, AcceptsHeader
<1>2. TypeOK /\ StoredAnysDecode /\ now \in Nat
  BY WireInvIsTypeAndProperties DEF TypeOK
<1>3. cs \in ClientState /\ consensus_state \in ConsensusState
  BY <1>1, <1>2, ReadStatesType
<1> HIDE DEF cs, consensus_state
<1>4. new_cs \in ClientState /\ m \in UpdateStateProxyMessage
  BY <1>1, <1>2, <1>3, UpdateStateMessageType
<1>5. new_state \in ConsensusState /\ height \in Nat
  BY <1>1, <1>2, <1>3, NewConsensusStateType
<1>6. /\ MessageOf(m) = m /\ m.emitted_states = {}
      /\ m.type = "UpdateState" /\ m.client_id = c /\ m.post_height = height
      /\ m.post_state_id = gen_state_id(new_cs, new_state)
  BY DecodedUpdateStateMessage DEF UpdateStateMessage
<1> HIDE DEF new_cs, new_state, m, height
<1>7. /\ AnyOfClientState(new_cs) \in Any /\ IsClientStateAny(AnyOfClientState(new_cs))
      /\ ClientStateOf(AnyOfClientState(new_cs).value) = new_cs
  BY <1>4, ClientStateRoundTrip
<1>8. /\ AnyOfConsensusState(new_state) \in Any
      /\ IsConsensusStateAny(AnyOfConsensusState(new_state))
      /\ ConsensusStateOf(AnyOfConsensusState(new_state).value) = new_state
  BY <1>5, ConsensusStateRoundTrip
<1>9. StoreInv' /\ any_client_states'[c] = AnyOfClientState(new_cs)
      /\ any_consensus_states'[c][height] = AnyOfConsensusState(new_state)
  BY <1>1, <1>2, <1>4, <1>5, <1>7, <1>8, StoreClientState, StoreConsensusStateType
     DEF StoreInv
<1>10. MessageInv'
  BY <1>1, <1>4, <1>6 DEF MessageInv
<1>11. PostStateIsStored'
  BY <1>1, <1>6, <1>7, <1>8, <1>9
     DEF PostStateIsStored, read_client_state, read_consensus_state
<1> QED
  BY <1>1, <1>9, <1>10, <1>11 DEF WireInv, EnvironmentInv

\* Misbehaviour stores the encoding of the frozen client state only.
LEMMA MisbehaviourStep ==
    ASSUME WireInv, NEW c \in ClientIds, NEW any_message \in Any,
           MisbehaviourOf(any_message) \in Misbehaviour,
           SubmitMisbehaviour(c, any_message, MisbehaviourOf(any_message))
    PROVE  WireInv'
<1> DEFINE trusted_height  == MisbehaviourOf(any_message).trusted.height
           cs              == read_client_state(c)
           consensus_state == read_consensus_state(c, trusted_height)
           frozen          == with_frozen_height(cs, trusted_height)
           prev_states     == {<<trusted_height, gen_state_id(cs, consensus_state)>>}
           m == MisbehaviourMessage(c, cs, consensus_state, prev_states, any_message)
<1>1. /\ IsReadable(c, trusted_height)
      /\ any_client_states' = [any_client_states EXCEPT ![c] = AnyOfClientState(frozen)]
      /\ message' = m
      /\ any_consensus_states' = any_consensus_states /\ now' = now /\ corrupt' = corrupt
  BY DEF SubmitMisbehaviour
<1>2. TypeOK /\ StoredAnysDecode
  BY WireInvIsTypeAndProperties
<1>3. cs \in ClientState /\ consensus_state \in ConsensusState /\ trusted_height \in Nat
  BY <1>1, <1>2, ReadStatesType
<1> HIDE DEF cs, consensus_state, trusted_height
<1>4. frozen \in ClientState
  BY <1>3 DEF with_frozen_height, ClientState
<1>5. prev_states \in SUBSET (Nat \X StateId)
  BY <1>3, StateIdType
<1> HIDE DEF frozen, prev_states
<1>6. MessageOf(m) \in MisbehaviourProxyMessage
  BY <1>3, <1>5, DecodedMisbehaviourMessage, MisbehaviourMessageType
<1>7. m.type = "Misbehaviour" /\ m.client_message = any_message
  BY DEF MisbehaviourMessage
<1> HIDE DEF m
<1>8. /\ AnyOfClientState(frozen) \in Any /\ IsClientStateAny(AnyOfClientState(frozen))
      /\ ClientStateOf(AnyOfClientState(frozen).value) = frozen
  BY <1>4, ClientStateRoundTrip
<1>9. StoreInv'
  BY <1>1, <1>2, <1>4, <1>8, StoreClientState DEF StoreInv, WireInv
<1>10. MessageInv' /\ PostStateIsStored'
  BY <1>1, <1>6, <1>7 DEF MessageInv, PostStateIsStored
<1> QED
  BY <1>1, <1>9, <1>10 DEF WireInv, EnvironmentInv

\* A membership call stores nothing.
LEMMA MembershipStep ==
    ASSUME WireInv, NEW c \in ClientIds, NEW height, NEW value \in {"present", "absent"},
           VerifyMembership(c, height, value)
    PROVE  WireInv'
<1> DEFINE cs              == read_client_state(c)
           consensus_state == read_consensus_state(c, height)
           m               == MembershipMessage(c, cs, height, consensus_state, value)
<1>1. /\ IsReadable(c, height) /\ message' = m
      /\ UNCHANGED <<any_client_states, any_consensus_states, now, corrupt>>
  BY DEF VerifyMembership, store
<1>2. cs \in ClientState /\ consensus_state \in ConsensusState /\ height \in Nat
  BY <1>1, WireInvIsTypeAndProperties, ReadStatesType
<1> HIDE DEF cs, consensus_state
<1>3. MessageOf(m) \in VerifyMembershipProxyMessage
  <2>1. MessageOf(m) = m
    BY DecodedMembershipMessage
  <2>2. m \in VerifyMembershipProxyMessage
    BY <1>2, MembershipMessageType
  <2> QED
    BY <2>1, <2>2
<1>4. m.type = "VerifyMembership"
  BY DEF MembershipMessage
<1> HIDE DEF m
<1>5. MessageInv' /\ PostStateIsStored'
  BY <1>1, <1>3, <1>4 DEF MessageInv, PostStateIsStored
<1> QED
  BY <1>1, <1>5 DEF WireInv, StoreInv, EnvironmentInv

\* Neither time nor leaking keys touch what is stored.
LEMMA EnvironmentStep ==
    ASSUME WireInv,
           Tick \/ (\E period \in CommitteePeriods : CorruptCommittee(period)) \/ UNCHANGED vars
    PROVE  WireInv'
<1>1. StoreInv' /\ MessageInv' /\ PostStateIsStored'
  BY DEF WireInv, StoreInv, MessageInv, PostStateIsStored, read_client_state,
         read_consensus_state, Tick, CorruptCommittee, store, vars
<1>2. CommitteePeriods \subseteq Nat
  BY PeriodType, SlotAssumption DEF CommitteePeriods
<1>3. EnvironmentInv'
  <2>1. now \in Nat /\ corrupt \subseteq Nat
    BY DEF WireInv, EnvironmentInv
  <2>2. CASE Tick
    BY <2>1, <2>2 DEF EnvironmentInv, Tick
  <2>3. ASSUME NEW period \in CommitteePeriods, CorruptCommittee(period)
        PROVE  EnvironmentInv'
    BY <1>2, <2>1, <2>3 DEF EnvironmentInv, CorruptCommittee
  <2>4. CASE UNCHANGED vars
    BY <2>1, <2>4 DEF EnvironmentInv, vars
  <2> QED
    BY <2>2, <2>3, <2>4
<1> QED
  BY <1>1, <1>3 DEF WireInv

LEMMA WireInductive == Spec => []WireInv
<1>1. Init => WireInv
  <2> SUFFICES ASSUME Init PROVE WireInv
    OBVIOUS
  <2>1. StoreInv
    BY DEF Init, StoreInv, StoredConsensusStatesType, Optional
  <2>2. MessageInv /\ PostStateIsStored
    BY DEF Init, MessageInv, MessageOf, PostStateIsStored, NoMessage
  <2>3. EnvironmentInv
    BY SlotAssumption DEF Init, EnvironmentInv
  <2> QED
    BY <2>1, <2>2, <2>3 DEF WireInv
<1>2. WireInv /\ [Next]_vars => WireInv'
  <2> SUFFICES ASSUME WireInv, [Next]_vars PROVE WireInv'
    OBVIOUS
  <2>1. ASSUME NEW c \in ClientIds, NEW block \in CanonicalBlocks,
               NEW creation \in Creations(block), CreateClient(c, creation[1], creation[2])
        PROVE  WireInv'
    BY <2>1, CreateStep
  <2>2. ASSUME NEW c \in ClientIds, NEW header \in Headers,
               NEW any \in Damaged(AnyOfHeader(header)), UpdateClient(c, any)
        PROVE  WireInv'
    <3>1. CASE IsHeaderAny(any) /\ UpdateState(c, HeaderOf(any.value))
      BY <3>1, DamagedHeader, UpdateStep, InputAssumption
    <3>2. CASE IsMisbehaviourAny(any) /\ SubmitMisbehaviour(c, any, MisbehaviourOf(any))
      <4>1. any.encoding \in {"Header", "none"}
        BY DamagedForms DEF AnyOfHeader, MakeAny, TypeUrls
      <4> QED
        BY <3>2, <4>1 DEF IsMisbehaviourAny, IsAnyOf
    <3> QED
      BY <2>2, <3>1, <3>2 DEF UpdateClient
  <2>3. ASSUME NEW c \in ClientIds, NEW misbehaviour \in Misbehaviours,
               NEW any \in Damaged(AnyOfMisbehaviour(misbehaviour)), UpdateClient(c, any)
        PROVE  WireInv'
    <3>1. CASE IsHeaderAny(any) /\ UpdateState(c, HeaderOf(any.value))
      <4>1. any.encoding \in {"Misbehaviour", "none"}
        BY DamagedForms DEF AnyOfMisbehaviour, MakeAny, TypeUrls
      <4> QED
        BY <3>1, <4>1 DEF IsHeaderAny, IsAnyOf
    <3>2. CASE IsMisbehaviourAny(any) /\ SubmitMisbehaviour(c, any, MisbehaviourOf(any))
      BY <3>2, DamagedMisbehaviour, MisbehaviourStep, InputAssumption
    <3> QED
      BY <2>3, <3>1, <3>2 DEF UpdateClient
  <2>4. ASSUME NEW c \in ClientIds, NEW height, NEW value \in {"present", "absent"},
               VerifyMembership(c, height, value)
        PROVE  WireInv'
    BY <2>4, MembershipStep
  <2>5. CASE Tick \/ (\E period \in CommitteePeriods : CorruptCommittee(period))
               \/ UNCHANGED vars
    BY <2>5, EnvironmentStep
  <2> QED
    BY <2>1, <2>2, <2>3, <2>4, <2>5 DEF Next
<1> QED
  BY <1>1, <1>2, PTL DEF Spec

-----------------------------------------------------------------------------
(* Evidence *)

\* What freezes a client conflicts as its type URL says, and a committee of the
\* state at the frozen height has signed it.
LEMMA EvidenceStep ==
    ASSUME WireInv, NEW c \in ClientIds, NEW any, IsMisbehaviourAny(any),
           SubmitMisbehaviour(c, any, MisbehaviourOf(any))
    PROVE  EvidenceIsOfItsKind'
<1> DEFINE misbehaviour    == MisbehaviourOf(any)
           trusted         == any.value.trusted_sync_committee
           cs              == read_client_state(c)
           consensus_state == read_consensus_state(c, trusted.height)
           frozen          == with_frozen_height(cs, trusted.height)
           update_1        == any.value.consensus_update_1
           update_2        == any.value.consensus_update_2
<1>1. /\ misbehaviour.trusted = trusted
      /\ misbehaviour.data.update_1 = update_1 /\ misbehaviour.data.update_2 = update_2
      /\ misbehaviour.data.kind = IF any.type_url = "FinalizedHeaderMisbehaviour"
                                    THEN "FinalizedHeader" ELSE "NextSyncCommittee"
  BY DEF MisbehaviourOf
<1>2. /\ IsReadable(c, trusted.height)
      /\ check_misbehaviour(cs, c, consensus_state, misbehaviour, now, corrupt)
      /\ any_client_states' = [any_client_states EXCEPT ![c] = AnyOfClientState(frozen)]
      /\ message'.type = "Misbehaviour" /\ message'.client_id = c
      /\ message'.client_message = any
      /\ any_consensus_states' = any_consensus_states
  BY <1>1 DEF SubmitMisbehaviour, MisbehaviourMessage
<1>3. cs \in ClientState /\ trusted.height \in Nat
  BY <1>2, WireInvIsTypeAndProperties, ReadStatesType
<1>4. frozen \in ClientState /\ frozen.frozen_height = trusted.height
  BY <1>3 DEF with_frozen_height, ClientState
<1>5. /\ IsTrustedSyncCommittee(consensus_state, trusted.sync_committee, trusted.is_next)
      /\ \/ /\ misbehaviour.data.kind = "FinalizedHeader"
            /\ ConflictingFinalizedHeaders(update_1, update_2)
         \/ /\ misbehaviour.data.kind = "NextSyncCommittee"
            /\ ConflictingNextSyncCommittees(update_1, update_2)
  BY <1>1, <1>2 DEF check_misbehaviour, validate_misbehaviour
<1>6. any.type_url \in {"FinalizedHeaderMisbehaviour", "NextSyncCommitteeMisbehaviour"}
  BY DEF IsMisbehaviourAny, IsAnyOf
<1>7. ClientStateOf(AnyOfClientState(frozen).value) = frozen
  BY <1>4, ClientStateRoundTrip
<1>8. any_client_states'[c] = AnyOfClientState(frozen)
  BY <1>2 DEF WireInv, StoreInv
<1>9. /\ ClientStateOf(any_client_states'[c].value).frozen_height = trusted.height
      /\ ConsensusStateOf(any_consensus_states'[c][trusted.height].value) = consensus_state
  BY <1>2, <1>4, <1>7, <1>8 DEF read_consensus_state
<1> HIDE DEF misbehaviour, trusted, cs, consensus_state, frozen, update_1, update_2
<1>10. \/ /\ any.type_url = "FinalizedHeaderMisbehaviour"
          /\ ConflictingFinalizedHeaders(update_1, update_2)
       \/ /\ any.type_url = "NextSyncCommitteeMisbehaviour"
          /\ ConflictingNextSyncCommittees(update_1, update_2)
  BY <1>1, <1>5, <1>6
<1> QED
  BY <1>2, <1>5, <1>9, <1>10
     DEF EvidenceIsOfItsKind, read_client_state, read_consensus_state, trusted,
         update_1, update_2

\* Every other call that returns Ok is about something else, and nothing but a
\* call touches the last message or what is stored.
LEMMA NoEvidenceStep ==
    ASSUME EvidenceIsOfItsKind,
           \/ message'.type # "Misbehaviour"
           \/ UNCHANGED <<any_client_states, any_consensus_states, message>>
    PROVE  EvidenceIsOfItsKind'
BY DEF EvidenceIsOfItsKind, read_client_state, read_consensus_state

LEMMA EvidenceInductive ==
    ASSUME WireInv, EvidenceIsOfItsKind, [Next]_vars
    PROVE  EvidenceIsOfItsKind'
<1>1. ASSUME NEW c \in ClientIds, NEW any_1, NEW any_2, CreateClient(c, any_1, any_2)
      PROVE  message'.type # "Misbehaviour"
  BY <1>1 DEF CreateClient, CreateClientMessage
<1>2. ASSUME NEW c \in ClientIds, NEW any, UpdateClient(c, any)
      PROVE  EvidenceIsOfItsKind'
  <2>1. CASE IsHeaderAny(any) /\ UpdateState(c, HeaderOf(any.value))
    <3>1. message'.type # "Misbehaviour"
      BY <2>1 DEF UpdateState, UpdateStateMessage
    <3> QED
      BY <3>1, NoEvidenceStep
  <2>2. CASE IsMisbehaviourAny(any) /\ SubmitMisbehaviour(c, any, MisbehaviourOf(any))
    BY <2>2, EvidenceStep
  <2> QED
    BY <1>2, <2>1, <2>2 DEF UpdateClient
<1>3. ASSUME NEW c \in ClientIds, NEW height, NEW value, VerifyMembership(c, height, value)
      PROVE  message'.type # "Misbehaviour"
  BY <1>3 DEF VerifyMembership, MembershipMessage
<1>4. ASSUME Tick \/ (\E period \in CommitteePeriods : CorruptCommittee(period))
               \/ UNCHANGED vars
      PROVE  UNCHANGED <<any_client_states, any_consensus_states, message>>
  BY <1>4 DEF Tick, CorruptCommittee, store, vars
<1> QED
  BY <1>1, <1>2, <1>3, <1>4, NoEvidenceStep DEF Next

-----------------------------------------------------------------------------
(* Theorems *)

\* The host's store holds well-formed values, and every message is one of the
\* three once decoded (client.rs 42-285).
THEOREM WireTypeCorrect == Spec => []TypeOK
<1>1. WireInv => TypeOK
  BY WireInvIsTypeAndProperties
<1> QED
  BY <1>1, WireInductive, PTL

\* However messages and creations are spoilt, no sequence of calls leaves a
\* client that cannot be read again (client_state.rs 284-410, consensus_state.rs
\* 98-154).
THEOREM StoredClientsAreReadable == Spec => []StoredAnysDecode
<1>1. WireInv => StoredAnysDecode
  BY WireInvIsTypeAndProperties
<1> QED
  BY <1>1, WireInductive, PTL

\* The state id of an update's message is that of the encoded states which the
\* host has stored (client.rs 198-203, state.rs 8-15).
THEOREM AnnouncedStateIsStored == Spec => []PostStateIsStored
<1>1. WireInv => PostStateIsStored
  BY DEF WireInv
<1> QED
  BY <1>1, WireInductive, PTL

\* What freezes a client is evidence of the kind that its type URL names, signed
\* by a committee of the state that the client is frozen at, whichever of the
\* two kinds it was encoded for (misbehaviour.rs 43-95 and 143-161, client.rs
\* 222-267).
THEOREM EvidenceKeepsItsKind == Spec => []EvidenceIsOfItsKind
<1>1. Init => EvidenceIsOfItsKind
  BY DEF Init, EvidenceIsOfItsKind, NoMessage
<1>2. WireInv /\ EvidenceIsOfItsKind /\ [Next]_vars => EvidenceIsOfItsKind'
  BY EvidenceInductive
<1> QED
  BY <1>1, <1>2, WireInductive, PTL DEF Spec
=============================================================================
