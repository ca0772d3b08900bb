------------------------- MODULE HostServiceProofs -------------------------
(***************************************************************************)
(* HostService, proved: that calls in pieces keep every stored state       *)
(* canonical however they overlap, and that a host which runs the updates  *)
(* of one client one at a time loses neither a height nor a freeze.        *)
(***************************************************************************)
EXTENDS HostService, EthereumLightClientRefinementProofs

-----------------------------------------------------------------------------
(* What calls hold *)

ReadCalls == CallsAt({"client_state"})
FullCalls == CallsWithState({"consensus_state", "checked"})

KeysWereAllowed(keys, time) == \A p \in keys : MayBeCorrupted(p, time)

\* At some earlier time, with the keys that had leaked by then, the request was
\* accepted from the states that the call still holds.
WasAccepted(call) ==
    \E time \in Nat : \E keys \in SUBSET Nat :
        KeysWereAllowed(keys, time) /\ IsAccepted(call, time, keys)

ServiceCallsSound ==
    \A w \in Workers : calls[w] # None /\ calls[w].stage \in {"checked", "prev_states"}
                         => WasAccepted(calls[w])

\* Requests carry well-formed arguments, and tell what they are.
LEMMA RequestType ==
    ASSUME NEW request \in Requests
    PROVE  /\ request.kind = "header" =>
                /\ request.argument \in Headers /\ request.argument \in Header
                /\ request.height = request.argument.trusted.height
                /\ request.height \in Nat
                /\ request \in UpdateRequests
           /\ request.kind = "misbehaviour" =>
                /\ request.argument \in Misbehaviours /\ request.argument \in Misbehaviour
                /\ request.height = request.argument.trusted.height
                /\ request.height \in Nat
                /\ request \in UpdateRequests
           /\ request.kind = "membership" =>
                /\ request.argument \in {"present", "absent"}
                /\ request.height \in Nat
           /\ request.kind \in {"header", "misbehaviour", "membership"}
           /\ request \in UpdateRequests => request.kind # "membership"
<1>1. /\ \A header \in Headers : header \in Header /\ header.trusted.height \in Nat
      /\ \A misbehaviour \in Misbehaviours :
            misbehaviour \in Misbehaviour /\ misbehaviour.trusted.height \in Nat
  BY InputAssumption DEF Header, Misbehaviour, TrustedSyncCommittee
<1>2. \A height \in Slots : height \in Nat
  BY SlotAssumption DEF Slots
<1>3. CASE \E header \in Headers : request = UpdateRequest(header)
  BY <1>1, <1>3 DEF UpdateRequest, UpdateRequests
<1>4. CASE \E misbehaviour \in Misbehaviours : request = MisbehaviourRequest(misbehaviour)
  BY <1>1, <1>4 DEF MisbehaviourRequest, UpdateRequests
<1>5. \A r \in UpdateRequests : r.kind \in {"header", "misbehaviour"}
  BY DEF UpdateRequests, UpdateRequest, MisbehaviourRequest
<1>6. CASE \E height \in Slots, value \in {"present", "absent"} :
              request = MembershipRequest(height, value)
  <2>1. /\ request.kind = "membership"
        /\ request.argument \in {"present", "absent"}
        /\ request.height \in Nat
    BY <1>2, <1>6 DEF MembershipRequest
  <2> QED
    BY <1>5, <2>1
<1> QED
  BY <1>3, <1>4, <1>6 DEF Requests, UpdateRequests

\* What each stage of a call holds.
LEMMA CallType ==
    ASSUME ServiceTypeOK, NEW w \in Workers, calls[w] # None
    PROVE  /\ calls[w].client_id \in ClientIds
           /\ calls[w].request \in Requests
           /\ calls[w].client_state \in ClientState
           /\ calls[w].stage \in {"client_state", "consensus_state", "checked", "prev_states"}
           /\ calls[w].stage = "client_state" => calls[w] \in ReadCalls
           /\ calls[w].stage \in {"consensus_state", "checked"} => calls[w] \in FullCalls
           /\ calls[w].stage = "prev_states" =>
                /\ calls[w] \in CallsWithEvidence
                /\ calls[w].request.kind = "misbehaviour"
           /\ calls[w].stage # "client_state" => calls[w].consensus_state \in ConsensusState
<1>1. /\ {MisbehaviourRequest(misbehaviour) : misbehaviour \in Misbehaviours} \subseteq Requests
      /\ \A misbehaviour \in Misbehaviours :
            MisbehaviourRequest(misbehaviour).kind = "misbehaviour"
  BY DEF Requests, UpdateRequests, MisbehaviourRequest
<1> QED
  BY <1>1
     DEF ServiceTypeOK, ReadCalls, FullCalls, CallsAt, CallsWithState, CallsWithEvidence

\* A worker that goes on changes nothing but its call.
LEMMA ContinueEffect ==
    ASSUME ServiceTypeOK, NEW w \in Workers, NEW call, Continue(w, call)
    PROVE  /\ calls'[w] = call
           /\ \A v \in Workers \ {w} : calls'[v] = calls[v]
           /\ UNCHANGED vars
           /\ call \in {None} \cup ReadCalls \cup FullCalls \cup CallsWithEvidence
                => ServiceTypeOK'
<1>1. /\ calls'[w] = call
      /\ \A v \in Workers \ {w} : calls'[v] = calls[v]
      /\ DOMAIN calls' = Workers
      /\ UNCHANGED vars
  BY DEF Continue, ServiceTypeOK
<1>2. TypeOK'
  BY <1>1 DEF ServiceTypeOK, TypeOK, vars
<1>3. ASSUME call \in {None} \cup ReadCalls \cup FullCalls \cup CallsWithEvidence
      PROVE  ServiceTypeOK'
  BY <1>2, <1>3 DEF Continue, ServiceTypeOK, ReadCalls, FullCalls
<1> QED
  BY <1>1, <1>3

-----------------------------------------------------------------------------
(* The steps of the service *)

\* A height that a call has found in the store stays there.
HeightsAreThere ==
    \A w \in Workers : calls[w] # None /\ calls[w].stage # "client_state"
        => calls[w].request.height \in DOMAIN consensus_states[calls[w].client_id]

\* The invariant behind the types.
ServiceTypes ==
    /\ ServiceTypeOK
    /\ CorruptionIsAllowed
    /\ HeightsAreThere
    /\ ServiceCallsSound

\* The steps of the environment, and the creation of a client.
OtherStep ==
    /\ UNCHANGED calls
    /\ \/ \E c \in ClientIds, params \in Params, block \in CanonicalBlocks,
             fault \in Omissions \cup {"nothing"} : CreateClient(c, params, block, fault)
       \/ Tick
       \/ \E period \in CommitteePeriods : CorruptCommittee(period)

LEMMA OtherStepIsNext ==
    ASSUME OtherStep
    PROVE  [Next]_vars
BY DEF OtherStep, Next, Call

\* What a call that ends has been accepted for.
LEMMA AcceptedUpdate ==
    ASSUME ServiceTypes, NEW w \in Workers, calls[w] # None,
           calls[w].stage = "checked", calls[w].request.kind = "header"
    PROVE  LET call   == calls[w]
               header == call.request.argument
               new    == new_consensus_state(call.consensus_state, header)
           IN  /\ header \in Header /\ call.request \in UpdateRequests
               /\ call.request.height = header.trusted.height
               /\ new_client_state(call.client_state, header) \in ClientState
               /\ new \in ConsensusState
               /\ header.execution.block_number \in Nat \ {0}
               /\ UpdateStateMessage(call.client_id, call.client_state,
                      call.consensus_state, header) \in UpdateStateProxyMessage
               /\ IsTrustworthy(call.request.height, call.consensus_state)
                    => IsTrustworthy(header.execution.block_number, new)
<1> DEFINE call   == calls[w]
           header == call.request.argument
<1>1. /\ call.client_id \in ClientIds /\ call.client_state \in ClientState
      /\ call.consensus_state \in ConsensusState
      /\ header \in Header /\ call.request \in UpdateRequests
      /\ call.request.height = header.trusted.height
  BY CallType, RequestType DEF ServiceTypes
<1>2. PICK time \in Nat, keys \in SUBSET Nat :
          KeysWereAllowed(keys, time) /\ IsAccepted(call, time, keys)
  BY DEF ServiceTypes, ServiceCallsSound, WasAccepted
<1>3. check_header(call.client_state, call.consensus_state, header, time, keys)
  BY <1>2 DEF IsAccepted
<1>4. validate_state_timestamp_within_trusting_period(
          time, call.client_state.params.trusting_period, call.consensus_state.timestamp)
  BY <1>3 DEF check_header
<1> QED
  BY <1>1, <1>2, <1>3, <1>4, NewConsensusStateType, UpdateStateMessageType,
     AcceptedHeader DEF KeysWereAllowed

LEMMA AcceptedEvidence ==
    ASSUME ServiceTypes, NEW w \in Workers, calls[w] # None,
           calls[w].stage \in {"checked", "prev_states"},
           calls[w].request.kind = "misbehaviour"
    PROVE  LET call == calls[w]
           IN  /\ call.request.argument \in Misbehaviour
               /\ call.request \in UpdateRequests
               /\ call.request.height \in Nat
               /\ with_frozen_height(call.client_state, call.request.height) \in ClientState
               /\ IsTrustworthy(call.request.height, call.consensus_state)
                    => IsBlamed(call.consensus_state)
<1> DEFINE call == calls[w]
<1>1. /\ call.client_id \in ClientIds /\ call.client_state \in ClientState
      /\ call.consensus_state \in ConsensusState
      /\ call.request.argument \in Misbehaviour /\ call.request \in UpdateRequests
      /\ call.request.height \in Nat
  BY CallType, RequestType DEF ServiceTypes
<1>2. with_frozen_height(call.client_state, call.request.height) \in ClientState
  BY <1>1 DEF with_frozen_height, ClientState
<1>3. PICK time \in Nat, keys \in SUBSET Nat :
          KeysWereAllowed(keys, time) /\ IsAccepted(call, time, keys)
  BY DEF ServiceTypes, ServiceCallsSound, WasAccepted
<1>4. check_misbehaviour(call.client_state, call.client_id, call.consensus_state,
                         call.request.argument, time, keys)
  BY <1>3 DEF IsAccepted
<1>5. validate_state_timestamp_within_trusting_period(
          time, call.client_state.params.trusting_period, call.consensus_state.timestamp)
  BY <1>4 DEF check_misbehaviour
<1> QED
  BY <1>1, <1>2, <1>3, <1>4, <1>5, AcceptedMisbehaviour DEF KeysWereAllowed

-----------------------------------------------------------------------------
(* Types *)

\* One worker's step keeps ServiceTypes if it is well typed, removes nothing
\* from the store, and leaves its own call sound.
LEMMA ServiceTypesKept ==
    ASSUME ServiceTypes, ServiceTypeOK', CorruptionIsAllowed', NEW w \in Workers,
           \A v \in Workers \ {w} : calls'[v] = calls[v],
           \A c \in ClientIds : DOMAIN consensus_states[c] \subseteq DOMAIN consensus_states'[c],
           calls'[w] # None /\ calls'[w].stage # "client_state" =>
             /\ calls'[w].request.height \in DOMAIN consensus_states'[calls'[w].client_id]
             /\ calls'[w].stage \in {"checked", "prev_states"} => WasAccepted(calls'[w])
    PROVE  ServiceTypes'
<1>1. \A v \in Workers : calls[v] # None => calls[v].client_id \in ClientIds
  BY CallType DEF ServiceTypes
<1>2. HeightsAreThere'
  BY <1>1 DEF ServiceTypes, HeightsAreThere
<1>3. ServiceCallsSound'
  BY CallType DEF ServiceTypes, ServiceCallsSound
<1> QED
  BY <1>2, <1>3 DEF ServiceTypes

\* The workers' steps that store nothing.
LEMMA ContinuedCallIsSound ==
    ASSUME ServiceTypes, NEW w \in Workers, NEW call, Continue(w, call),
           call \in {None} \cup ReadCalls \cup FullCalls \cup CallsWithEvidence,
           call # None /\ call.stage # "client_state" =>
             /\ call.request.height \in DOMAIN consensus_states[call.client_id]
             /\ call.stage \in {"checked", "prev_states"} => WasAccepted(call)
    PROVE  ServiceTypes'
<1>1. /\ ServiceTypeOK' /\ UNCHANGED vars
      /\ calls'[w] = call
      /\ \A v \in Workers \ {w} : calls'[v] = calls[v]
  BY ContinueEffect DEF ServiceTypes
<1>2. CorruptionIsAllowed'
  BY <1>1, CorruptionStaysAllowed DEF ServiceTypes, ServiceTypeOK
<1> QED
  BY <1>1, <1>2, ServiceTypesKept DEF vars

LEMMA ReadingKeepsTypes ==
    ASSUME ServiceTypes, NEW w \in Workers,
           \/ \E c \in ClientIds, request \in Requests : ReadClientState(w, c, request)
           \/ ReadConsensusState(w)
           \/ Fail(w)
    PROVE  ServiceTypes'
<1>1. ASSUME NEW c \in ClientIds, NEW request \in Requests,
             ReadClientState(w, c, request)
      PROVE  ServiceTypes'
  <2> DEFINE call == [stage |-> "client_state", client_id |-> c, request |-> request,
                      client_state |-> client_states[c]]
  <2>1. client_states[c] \in ClientState
    BY <1>1 DEF ReadClientState, ServiceTypes, ServiceTypeOK, TypeOK
  <2>2. call \in ReadCalls
    BY <2>1 DEF ReadCalls, CallsAt
  <2>3. Continue(w, call)
    BY <1>1 DEF ReadClientState
  <2>4. call.stage = "client_state"
    OBVIOUS
  <2> HIDE DEF call
  <2> QED
    BY <2>2, <2>3, <2>4, ContinuedCallIsSound
<1>2. CASE ReadConsensusState(w)
  <2> DEFINE old  == calls[w]
             call == [stage |-> "consensus_state", client_id |-> old.client_id,
                      request |-> old.request, client_state |-> old.client_state,
                      consensus_state |-> consensus_states[old.client_id][old.request.height]]
  <2>1. /\ old.client_id \in ClientIds /\ old.request \in Requests
        /\ old.client_state \in ClientState
        /\ old.request.height \in DOMAIN consensus_states[old.client_id]
    BY <1>2, CallType DEF ReadConsensusState, ServiceTypes
  <2>2. consensus_states[old.client_id][old.request.height] \in ConsensusState
    BY <2>1 DEF ServiceTypes, ServiceTypeOK, TypeOK
  <2>3. call \in FullCalls
    BY <2>1, <2>2 DEF FullCalls, CallsWithState
  <2>4. Continue(w, call)
    BY <1>2 DEF ReadConsensusState
  <2>5. call.stage = "consensus_state" /\ call.request = old.request
        /\ call.client_id = old.client_id
    OBVIOUS
  <2> HIDE DEF call
  <2> QED
    BY <2>1, <2>3, <2>4, <2>5, ContinuedCallIsSound
<1>3. CASE Fail(w)
  BY <1>3, ContinuedCallIsSound DEF Fail
<1> QED
  BY <1>1, <1>2, <1>3

\* What the previous states of evidence are.
LEMMA PrevStatesType ==
    ASSUME TypeOK, NEW c \in ClientIds, NEW cs \in ClientState,
           NEW height \in DOMAIN consensus_states[c]
    PROVE  make_prev_states(c, cs, {height}) \in SUBSET (Nat \X StateId)
<1>1. height \in Nat /\ consensus_states[c][height] \in ConsensusState
  BY DEF TypeOK
<1> QED
  BY <1>1, StateIdType DEF make_prev_states

LEMMA CheckingKeepsTypes ==
    ASSUME ServiceTypes, NEW w \in Workers, Check(w) \/ ReadPrevStates(w)
    PROVE  ServiceTypes'
<1> DEFINE old == calls[w]
<1>1. /\ old # None /\ old.client_id \in ClientIds /\ old.request \in Requests
      /\ old.client_state \in ClientState /\ old.consensus_state \in ConsensusState
      /\ old.stage \in {"consensus_state", "checked"} /\ old \in FullCalls
      /\ old.request.height \in DOMAIN consensus_states[old.client_id]
      /\ old.stage = "checked" => WasAccepted(old)
  BY CallType DEF Check, ReadPrevStates, ServiceTypes, HeightsAreThere, ServiceCallsSound
<1>2. CASE Check(w)
  <2> DEFINE call == [old EXCEPT !.stage = "checked"]
  <2>1. /\ call \in FullCalls /\ call.stage = "checked" /\ call.request = old.request
        /\ call.client_id = old.client_id /\ call.client_state = old.client_state
        /\ call.consensus_state = old.consensus_state
    BY <1>1 DEF FullCalls, CallsWithState
  <2>2. /\ IsAccepted(old, now, corrupt) /\ Continue(w, call)
        /\ now \in Nat /\ corrupt \in SUBSET Nat
        /\ KeysWereAllowed(corrupt, now)
    BY <1>2 DEF Check, ServiceTypes, ServiceTypeOK, TypeOK, CorruptionIsAllowed,
                KeysWereAllowed
  <2>3. IsAccepted(call, now, corrupt)
    BY <2>1, <2>2 DEF IsAccepted
  <2>4. WasAccepted(call)
    BY <2>2, <2>3 DEF WasAccepted
  <2> HIDE DEF call
  <2> QED
    BY <1>1, <2>1, <2>2, <2>4, ContinuedCallIsSound
<1>3. CASE ReadPrevStates(w)
  <2> DEFINE prev_states == make_prev_states(old.client_id, old.client_state,
                                             {old.request.height})
             call == [stage |-> "prev_states", client_id |-> old.client_id,
                      request |-> old.request, client_state |-> old.client_state,
                      consensus_state |-> old.consensus_state,
                      prev_states |-> prev_states]
  <2>1. old.request \in {MisbehaviourRequest(misbehaviour) : misbehaviour \in Misbehaviours}
    <3>1. old.request.kind = "misbehaviour"
      BY <1>3 DEF ReadPrevStates
    <3> QED
      BY <1>1, <3>1 DEF Requests, UpdateRequests, UpdateRequest, MembershipRequest
  <2>2. prev_states \in SUBSET (Nat \X StateId)
    BY <1>1, PrevStatesType DEF ServiceTypes, ServiceTypeOK
  <2>3. Continue(w, call) /\ old.stage = "checked"
    BY <1>3 DEF ReadPrevStates
  <2> HIDE DEF prev_states
  <2>4. call \in CallsWithEvidence
    BY <1>1, <2>1, <2>2 DEF CallsWithEvidence
  <2>5. /\ call.request = old.request /\ call.client_id = old.client_id
        /\ call.client_state = old.client_state
        /\ call.consensus_state = old.consensus_state
    OBVIOUS
  <2> HIDE DEF call
  <2>6. WasAccepted(call)
    BY <1>1, <2>3, <2>5 DEF WasAccepted, IsAccepted
  <2> QED
    BY <1>1, <2>3, <2>4, <2>5, <2>6, ContinuedCallIsSound
<1> QED
  BY <1>2, <1>3

LEMMA CommitKeepsTypes ==
    ASSUME ServiceTypes, NEW w \in Workers,
           CommitUpdate(w) \/ CommitMisbehaviour(w) \/ CommitMembership(w)
    PROVE  ServiceTypes'
<1> DEFINE call == calls[w]
           c    == call.client_id
<1>1. /\ call # None /\ c \in ClientIds /\ call.request \in Requests
      /\ call.client_state \in ClientState /\ call.consensus_state \in ConsensusState
      /\ calls' = [calls EXCEPT ![w] = None]
      /\ UNCHANGED <<now, corrupt>>
  BY CallType DEF CommitUpdate, CommitMisbehaviour, CommitMembership, ServiceTypes
<1>2. /\ calls'[w] = None
      /\ \A v \in Workers \ {w} : calls'[v] = calls[v]
      /\ CorruptionIsAllowed'
  BY <1>1 DEF ServiceTypes, ServiceTypeOK, CorruptionIsAllowed, MayBeCorrupted
<1>3. ASSUME TypeOK'
      PROVE  ServiceTypeOK'
  BY <1>1, <1>3 DEF ServiceTypes, ServiceTypeOK
<1>4. CASE CommitUpdate(w)
  <2> DEFINE header == call.request.argument
             height == header.execution.block_number
             new_cs == new_client_state(call.client_state, header)
             new    == new_consensus_state(call.consensus_state, header)
  <2>1. /\ new_cs \in ClientState /\ new \in ConsensusState /\ height \in Nat
        /\ UpdateStateMessage(c, call.client_state, call.consensus_state, header)
             \in UpdateStateProxyMessage
    BY <1>4, AcceptedUpdate DEF CommitUpdate
  <2>2. /\ client_states' = [client_states EXCEPT ![c] = new_cs]
        /\ StoreConsensusState(c, height, new)
        /\ message' \in UpdateStateProxyMessage
    BY <1>4, <2>1 DEF CommitUpdate
  <2> HIDE DEF new_cs, new
  <2>3. TypeOK /\ TypeOK'
    BY <1>1, <2>1, <2>2, StoreType DEF ServiceTypes, ServiceTypeOK, TypeOK
  <2>4. \A d \in ClientIds : DOMAIN consensus_states[d] \subseteq DOMAIN consensus_states'[d]
    BY <1>1, <2>2, <2>3, StoreEffect
  <2> QED
    BY <1>2, <1>3, <2>3, <2>4, ServiceTypesKept
<1>5. CASE CommitMisbehaviour(w)
  <2> DEFINE new_cs == with_frozen_height(call.client_state, call.request.height)
  <2>1. /\ call \in CallsWithEvidence /\ call.request.kind = "misbehaviour"
        /\ call.prev_states \in SUBSET (Nat \X StateId)
    BY <1>1, <1>5, CallType DEF CommitMisbehaviour, CallsWithEvidence, ServiceTypes
  <2>2. new_cs \in ClientState /\ call.request.argument \in Misbehaviour
    BY <1>5, <2>1, AcceptedEvidence DEF CommitMisbehaviour
  <2>3. /\ client_states' = [client_states EXCEPT ![c] = new_cs]
        /\ UNCHANGED consensus_states
        /\ message' \in MisbehaviourProxyMessage
    BY <1>1, <1>5, <2>1, <2>2, MisbehaviourMessageType DEF CommitMisbehaviour
  <2> HIDE DEF new_cs
  <2>4. TypeOK'
    BY <1>1, <2>2, <2>3 DEF ServiceTypes, ServiceTypeOK, TypeOK
  <2> QED
    BY <1>2, <1>3, <2>3, <2>4, ServiceTypesKept
<1>6. CASE CommitMembership(w)
  <2>1. message' \in VerifyMembershipProxyMessage
    BY <1>1, <1>6, RequestType, MembershipMessageType DEF CommitMembership
  <2>2. UNCHANGED store
    BY <1>6 DEF CommitMembership
  <2>3. TypeOK'
    BY <1>1, <2>1, <2>2 DEF ServiceTypes, ServiceTypeOK, TypeOK, store
  <2> QED
    BY <1>2, <1>3, <2>2, <2>3, ServiceTypesKept DEF store
<1> QED
  BY <1>4, <1>5, <1>6

LEMMA OtherStepKeepsTypes ==
    ASSUME ServiceTypes, OtherStep
    PROVE  ServiceTypes'
<1>1. /\ TypeOK /\ TypeOK' /\ CorruptionIsAllowed' /\ [Next]_vars /\ calls' = calls
  BY OtherStepIsNext, TypeInductive, CorruptionStaysAllowed
     DEF OtherStep, ServiceTypes, ServiceTypeOK
<1>2. ServiceTypeOK'
  BY <1>1 DEF ServiceTypes, ServiceTypeOK
<1>3. \A c \in ClientIds : DOMAIN consensus_states[c] \subseteq DOMAIN consensus_states'[c]
  BY <1>1, StoreGrows
<1>4. HeightsAreThere'
  <2>1. \A w \in Workers : calls[w] # None => calls[w].client_id \in ClientIds
    BY CallType DEF ServiceTypes
  <2> QED
    BY <1>1, <1>3, <2>1 DEF ServiceTypes, HeightsAreThere
<1>5. ServiceCallsSound'
  BY <1>1 DEF ServiceTypes, ServiceCallsSound
<1> QED
  BY <1>1, <1>2, <1>4, <1>5 DEF ServiceTypes

LEMMA ServiceTypesInductive ==
    ASSUME ServiceTypes, [ServiceNext]_service_vars
    PROVE  ServiceTypes'
<1>1. CASE UNCHANGED service_vars
  BY <1>1 DEF service_vars, vars, ServiceTypes, ServiceTypeOK, TypeOK,
              CorruptionIsAllowed, MayBeCorrupted, HeightsAreThere, ServiceCallsSound
<1> QED
  BY <1>1, ReadingKeepsTypes, CheckingKeepsTypes, CommitKeepsTypes,
     OtherStepKeepsTypes DEF ServiceNext, OtherStep

LEMMA ServiceTypesHold == ServiceSpec => []ServiceTypes
<1>1. ServiceInit => ServiceTypes
  <2>1. Init => TypeOK /\ CorruptionIsAllowed
    BY SlotAssumption DEF Init, TypeOK, CorruptionIsAllowed
  <2> QED
    BY <2>1 DEF ServiceInit, ServiceTypes, ServiceTypeOK, HeightsAreThere, ServiceCallsSound
<1>2. ServiceTypes /\ [ServiceNext]_service_vars => ServiceTypes'
  BY ServiceTypesInductive
<1> QED
  BY <1>1, <1>2, PTL DEF ServiceSpec

\* See ServiceTypeOK: calls in execution hold well-formed copies, and leave a
\* well-formed store behind, however they overlap.
THEOREM ServiceTypeCorrect == ServiceSpec => []ServiceTypeOK
BY ServiceTypesHold, PTL DEF ServiceTypes

-----------------------------------------------------------------------------
(* Trust, however calls overlap *)

\* What a call has read stays trustworthy, even when another call has given
\* the height another state meanwhile.
ReadsAreTrustworthy ==
    \A w \in Workers : calls[w] # None /\ calls[w].stage # "client_state"
        => IsTrustworthy(calls[w].request.height, calls[w].consensus_state)

ServiceTrust == ServiceTypes /\ TrustedStates /\ ReadsAreTrustworthy

LEMMA CommitKeepsTrust ==
    ASSUME ServiceTrust, NEW w \in Workers,
           CommitUpdate(w) \/ CommitMisbehaviour(w) \/ CommitMembership(w)
    PROVE  TrustedStates' /\ ReadsAreTrustworthy'
<1>1. /\ calls'[w] = None
      /\ \A v \in Workers \ {w} : calls'[v] = calls[v]
      /\ calls[w] # None /\ calls[w].client_id \in ClientIds
  BY CallType
     DEF CommitUpdate, CommitMisbehaviour, CommitMembership, ServiceTrust, ServiceTypes,
         ServiceTypeOK
<1>2. ReadsAreTrustworthy'
  BY <1>1 DEF ServiceTrust, ReadsAreTrustworthy
<1>3. CASE CommitUpdate(w)
  <2> DEFINE header == calls[w].request.argument
             new    == new_consensus_state(calls[w].consensus_state, header)
  <2>1. IsTrustworthy(header.execution.block_number, new)
    BY <1>3, AcceptedUpdate DEF CommitUpdate, ServiceTrust, ReadsAreTrustworthy
  <2>2. StoreConsensusState(calls[w].client_id, header.execution.block_number, new)
    BY <1>3 DEF CommitUpdate
  <2> HIDE DEF new
  <2>3. TrustedStates'
    BY <1>1, <2>1, <2>2, TrustworthyStateStored DEF ServiceTrust, ServiceTypes, ServiceTypeOK
  <2> QED
    BY <1>2, <2>3
<1>4. CASE UNCHANGED consensus_states
  BY <1>2, <1>4 DEF ServiceTrust, TrustedStates, IsCanonicalState, IsBlamed, current_period
<1> QED
  BY <1>3, <1>4 DEF CommitMisbehaviour, CommitMembership, store

LEMMA ServiceTrustInductive ==
    ASSUME "storage_root" \notin Omissions, ServiceTrust, [ServiceNext]_service_vars
    PROVE  ServiceTrust'
<1>1. ServiceTypes'
  BY ServiceTypesInductive DEF ServiceTrust
<1> SUFFICES TrustedStates' /\ ReadsAreTrustworthy'
  BY <1>1 DEF ServiceTrust
<1>2. ASSUME consensus_states' = consensus_states
      PROVE  TrustedStates'
  BY <1>2 DEF ServiceTrust, TrustedStates, IsCanonicalState, IsBlamed, current_period
<1>3. ASSUME NEW w \in Workers, NEW call, Continue(w, call),
             call # None /\ call.stage # "client_state"
               => IsTrustworthy(call.request.height, call.consensus_state)
      PROVE  TrustedStates' /\ ReadsAreTrustworthy'
  <2>1. UNCHANGED vars /\ calls'[w] = call
        /\ \A v \in Workers \ {w} : calls'[v] = calls[v]
    BY <1>3, ContinueEffect DEF ServiceTrust, ServiceTypes
  <2>2. ReadsAreTrustworthy'
    BY <1>3, <2>1 DEF ServiceTrust, ReadsAreTrustworthy
  <2> QED
    BY <1>2, <2>1, <2>2 DEF vars
<1>4. ASSUME NEW w \in Workers, NEW c \in ClientIds, NEW request \in Requests,
             ReadClientState(w, c, request)
      PROVE  TrustedStates' /\ ReadsAreTrustworthy'
  BY <1>3, <1>4 DEF ReadClientState
<1>5. ASSUME NEW w \in Workers, ReadConsensusState(w)
      PROVE  TrustedStates' /\ ReadsAreTrustworthy'
  <2> DEFINE old == calls[w]
             state == consensus_states[old.client_id][old.request.height]
  <2>1. /\ old.client_id \in ClientIds
        /\ old.request.height \in DOMAIN consensus_states[old.client_id]
    BY <1>5, CallType DEF ReadConsensusState, ServiceTrust, ServiceTypes
  <2>2. IsTrustworthy(old.request.height, state)
    BY <2>1 DEF ServiceTrust, TrustedStates, IsTrustworthy
  <2>3. Continue(w, [stage |-> "consensus_state", client_id |-> old.client_id,
                     request |-> old.request, client_state |-> old.client_state,
                     consensus_state |-> state])
    BY <1>5 DEF ReadConsensusState
  <2> HIDE DEF state
  <2> QED
    BY <1>3, <2>2, <2>3
<1>6. ASSUME NEW w \in Workers, Check(w)
      PROVE  TrustedStates' /\ ReadsAreTrustworthy'
  <2> DEFINE old  == calls[w]
             call == [old EXCEPT !.stage = "checked"]
  <2>1. /\ Continue(w, call) /\ old # None /\ old.stage = "consensus_state"
        /\ old \in FullCalls
    BY <1>6, CallType DEF Check, ServiceTrust, ServiceTypes
  <2>2. call.request = old.request /\ call.consensus_state = old.consensus_state
    BY <2>1 DEF FullCalls, CallsWithState
  <2>3. IsTrustworthy(old.request.height, old.consensus_state)
    BY <2>1 DEF ServiceTrust, ReadsAreTrustworthy
  <2> HIDE DEF call
  <2> QED
    BY <1>3, <2>1, <2>2, <2>3
<1>7. ASSUME NEW w \in Workers, ReadPrevStates(w)
      PROVE  TrustedStates' /\ ReadsAreTrustworthy'
  <2>1. IsTrustworthy(calls[w].request.height, calls[w].consensus_state)
    BY <1>7 DEF ReadPrevStates, ServiceTrust, ReadsAreTrustworthy
  <2> QED
    BY <1>3, <1>7, <2>1 DEF ReadPrevStates
<1>8. ASSUME NEW w \in Workers, Fail(w)
      PROVE  TrustedStates' /\ ReadsAreTrustworthy'
  BY <1>3, <1>8 DEF Fail
<1>9. CASE OtherStep
  <2>1. ReadsAreTrustworthy'
    BY <1>9 DEF OtherStep, ServiceTrust, ReadsAreTrustworthy
  <2>2. ASSUME NEW c \in ClientIds, NEW params \in Params, NEW block \in CanonicalBlocks,
               NEW fault \in Omissions \cup {"nothing"},
               CreateClient(c, params, block, fault)
        PROVE  TrustedStates'
    <3> DEFINE consensus_state == CreatedConsensusState(block, fault)
               height == CreatedClientState(params, block, fault).latest_execution_block_number
    <3>1. /\ IsCanonicalState(height, consensus_state)
          /\ StoreConsensusState(c, height, consensus_state)
      BY <2>2, CreatedStateIsCanonical DEF CreateClient
    <3> HIDE DEF consensus_state, height
    <3> QED
      BY <3>1, TrustworthyStateStored
         DEF ServiceTrust, ServiceTypes, ServiceTypeOK, IsTrustworthy
  <2>3. CASE Tick \/ \E period \in CommitteePeriods : CorruptCommittee(period)
    <3>1. consensus_states' = consensus_states
      BY <2>3 DEF Tick, CorruptCommittee, store
    <3> QED
      BY <1>2, <2>1, <3>1
  <2> QED
    BY <1>9, <2>1, <2>2, <2>3 DEF OtherStep
<1>10. CASE UNCHANGED service_vars
  <2>1. consensus_states' = consensus_states /\ calls' = calls
    BY <1>10 DEF service_vars, vars
  <2> QED
    BY <1>2, <2>1 DEF ServiceTrust, ReadsAreTrustworthy
<1> QED
  BY <1>4, <1>5, <1>6, <1>7, <1>8, <1>9, <1>10, CommitKeepsTrust
     DEF ServiceNext, OtherStep

LEMMA ServiceTrustHolds ==
    ASSUME "storage_root" \notin Omissions
    PROVE  ServiceSpec => []ServiceTrust
<1>1. ServiceInit => TrustedStates /\ ReadsAreTrustworthy
  BY DEF ServiceInit, Init, TrustedStates, ReadsAreTrustworthy
<1>2. ServiceTrust /\ [ServiceNext]_service_vars => ServiceTrust'
  BY ServiceTrustInductive
<1> QED
  BY <1>1, <1>2, ServiceTypesHold, PTL DEF ServiceSpec, ServiceTrust

\* See TrustedStates: calls that overlap, in whatever order they read and
\* commit, store nothing but canonical states unless a committee is to blame
\* (client.rs 179-203).
THEOREM OverlappingCallsAreTrustworthy ==
    ASSUME "storage_root" \notin Omissions
    PROVE  ServiceSpec => []TrustedStates
BY ServiceTrustHolds, PTL DEF ServiceTrust

\* A membership call answers from the state that it read.
LEMMA CommittedMembershipIsTrue ==
    ASSUME ServiceTrust, NEW w \in Workers, CommitMembership(w)
    PROVE  MembershipReflectsChain'
<1> DEFINE call  == calls[w]
           cs    == call.consensus_state
           block == [branch |-> Canonical, slot |-> cs.slot]
<1>1. /\ call # None /\ call.stage = "checked" /\ call.request.kind = "membership"
      /\ call.request.argument \in {"present", "absent"}
      /\ message'.height = call.request.height
      /\ message'.state_id.consensus_state = cs
      /\ message'.value = call.request.argument
  BY CallType, RequestType
     DEF CommitMembership, MembershipMessage, gen_state_id, ServiceTrust, ServiceTypes
<1>2. PICK time \in Nat, keys \in SUBSET Nat : IsAccepted(call, time, keys)
  BY <1>1 DEF ServiceTrust, ServiceTypes, ServiceCallsSound, WasAccepted
<1>3. call.request.argument =
        IF HasCommitment(cs.storage_root) THEN "present" ELSE "absent"
  BY <1>1, <1>2 DEF IsAccepted, verify_membership, verify_non_membership
<1>4. IsTrustworthy(call.request.height, cs)
  BY <1>1 DEF ServiceTrust, ReadsAreTrustworthy
<1>5. CASE IsCanonicalState(call.request.height, cs)
  <2>1. block \in CanonicalBlocks
    BY <1>5, BranchAssumption DEF IsCanonicalState, CanonicalBlocks
  <2>2. StateAt(block).storage_root = StorageRootAt(block)
    BY DEF StateAt
  <2>3. cs.storage_root = StorageRootAt(block) /\ HeightOf(block) = call.request.height
    BY <1>5, <2>2 DEF IsCanonicalState
  <2> QED
    BY <1>1, <1>3, <2>1, <2>3 DEF MembershipReflectsChain
<1>6. CASE IsBlamed(cs)
  BY <1>1, <1>6 DEF MembershipReflectsChain, IsBlamed, current_period
<1> QED
  BY <1>4, <1>5, <1>6 DEF IsTrustworthy

\* See MembershipReflectsChain: what a membership message says is so, although
\* the client may have been updated or frozen between its reads (client.rs
\* 91-163).
THEOREM OverlappingMembershipIsSound ==
    ASSUME "storage_root" \notin Omissions
    PROVE  ServiceSpec => []MembershipReflectsChain
<1>1. ServiceInit => MembershipReflectsChain
  BY DEF ServiceInit, Init, NoMessage, MembershipReflectsChain
<1>2. ASSUME ServiceTrust, MembershipReflectsChain, [ServiceNext]_service_vars
      PROVE  MembershipReflectsChain'
  <2>1. CASE message' = message
    BY <1>2, <2>1 DEF MembershipReflectsChain, IsBlamed, current_period
  <2>2. CASE message'.type # "VerifyMembership"
    BY <2>2 DEF MembershipReflectsChain
  <2>3. ASSUME NEW w \in Workers, NEW call, Continue(w, call)
        PROVE  message' = message
    BY <2>3 DEF Continue, vars
  <2>4. ASSUME NEW w \in Workers,
               \/ \E c \in ClientIds, request \in Requests : ReadClientState(w, c, request)
               \/ ReadConsensusState(w)
               \/ Check(w)
               \/ ReadPrevStates(w)
               \/ Fail(w)
        PROVE  message' = message
    BY <2>3, <2>4 DEF ReadClientState, ReadConsensusState, Check, ReadPrevStates, Fail
  <2>5. ASSUME NEW w \in Workers, CommitUpdate(w) \/ CommitMisbehaviour(w)
        PROVE  message'.type # "VerifyMembership"
    BY <2>5 DEF CommitUpdate, CommitMisbehaviour, UpdateStateMessage, MisbehaviourMessage
  <2>6. CASE OtherStep
    <3>1. \/ message' = message
          \/ message'.type # "VerifyMembership"
      BY <2>6 DEF OtherStep, CreateClient, CreateClientMessage, Tick, CorruptCommittee
    <3> QED
      BY <2>1, <2>2, <3>1
  <2>7. CASE UNCHANGED service_vars
    <3>1. message' = message
      BY <2>7 DEF service_vars, vars
    <3> QED
      BY <2>1, <3>1
  <2> QED
    BY <1>2, <2>1, <2>2, <2>4, <2>5, <2>6, <2>7, CommittedMembershipIsTrue
       DEF ServiceNext, OtherStep
<1> QED
  BY <1>1, <1>2, ServiceTrustHolds, PTL DEF ServiceSpec

\* Heights never leave the store.
LEMMA ServiceStoreGrows ==
    ASSUME ServiceTypes, [ServiceNext]_service_vars,
           NEW c \in ClientIds, NEW h \in DOMAIN consensus_states[c]
    PROVE  h \in DOMAIN consensus_states'[c]
<1>1. CASE consensus_states' = consensus_states
  BY <1>1
<1>2. ASSUME NEW w \in Workers, NEW call, Continue(w, call)
      PROVE  consensus_states' = consensus_states
  BY <1>2 DEF Continue, vars
<1>3. ASSUME NEW w \in Workers,
             \/ \E d \in ClientIds, request \in Requests : ReadClientState(w, d, request)
             \/ ReadConsensusState(w)
             \/ Check(w)
             \/ ReadPrevStates(w)
             \/ Fail(w)
      PROVE  consensus_states' = consensus_states
  BY <1>2, <1>3 DEF ReadClientState, ReadConsensusState, Check, ReadPrevStates, Fail
<1>4. ASSUME NEW w \in Workers, CommitUpdate(w)
      PROVE  h \in DOMAIN consensus_states'[c]
  BY <1>4 DEF CommitUpdate, StoreConsensusState, ServiceTypes, ServiceTypeOK, TypeOK
<1>5. ASSUME NEW w \in Workers, CommitMisbehaviour(w) \/ CommitMembership(w)
      PROVE  consensus_states' = consensus_states
  BY <1>5 DEF CommitMisbehaviour, CommitMembership, store
<1>6. CASE OtherStep
  BY <1>6, OtherStepIsNext, StoreGrows DEF ServiceTypes, ServiceTypeOK
<1>7. CASE UNCHANGED service_vars
  BY <1>1, <1>7 DEF service_vars, vars
<1> QED
  BY <1>1, <1>3, <1>4, <1>5, <1>6, <1>7 DEF ServiceNext, OtherStep

\* Both follow from the old and the new state being canonical.
LEMMA OverlappingCallsKeepSettled ==
    ASSUME "storage_root" \notin Omissions
    PROVE  ServiceSpec => RootsAreFinal /\ StateIdsAreFinal
<1>1. ASSUME ServiceTrust, ServiceTrust', [ServiceNext]_service_vars, FaultyPeriods = {},
             NEW c \in ClientIds, NEW h \in DOMAIN consensus_states[c]
      PROVE  LET old == consensus_states[c][h]
                 new == consensus_states'[c][h]
             IN  /\ new.storage_root = old.storage_root
                 /\ new.timestamp = old.timestamp
                 /\ \/ new = old
                    \/ old.slot >= GloasSlot
                    \/ new.slot >= GloasSlot
  <2>1. IsCanonicalState(h, consensus_states[c][h])
    BY <1>1 DEF ServiceTrust, TrustedStates, IsBlamed
  <2>2. IsCanonicalState(h, consensus_states'[c][h])
    BY <1>1, ServiceStoreGrows DEF ServiceTrust, TrustedStates, IsBlamed, IsCanonicalState
  <2>3. /\ consensus_states[c][h].slot \in Nat
        /\ consensus_states'[c][h].slot \in Nat
    BY <2>1, <2>2, BranchAssumption DEF IsCanonicalState, Slots
  <2> QED
    BY <2>1, <2>2, <2>3, OneExecutionBlockPerHeight, SlotAssumption
<1>2. ServiceTrust /\ ServiceTrust' /\ [ServiceNext]_service_vars =>
        /\ [FaultyPeriods = {} =>
             \A c \in ClientIds : \A h \in DOMAIN consensus_states[c] :
                LET old == consensus_states[c][h]
                    new == consensus_states'[c][h]
                IN  /\ new.storage_root = old.storage_root
                    /\ new.timestamp = old.timestamp]_vars
        /\ [FaultyPeriods = {} =>
             \A c \in ClientIds : \A h \in DOMAIN consensus_states[c] :
                \/ consensus_states'[c][h] = consensus_states[c][h]
                \/ consensus_states[c][h].slot >= GloasSlot
                \/ consensus_states'[c][h].slot >= GloasSlot]_vars
  BY <1>1
<1> QED
  BY <1>2, ServiceTrustHolds, PTL DEF ServiceSpec, RootsAreFinal, StateIdsAreFinal

\* See RootsAreFinal, of a step of the service: a call that commits late, over a
\* height stored meanwhile, changes neither its root nor its timestamp.
THEOREM OverlappingCallsKeepRoots ==
    ASSUME "storage_root" \notin Omissions
    PROVE  ServiceSpec => RootsAreFinal
BY OverlappingCallsKeepSettled, PTL

\* See StateIdsAreFinal, of a step of the service: Gloas apart, two calls that
\* store a state at one height store the same, whichever is the last.
THEOREM OverlappingCallsKeepStateIds ==
    ASSUME "storage_root" \notin Omissions
    PROVE  ServiceSpec => StateIdsAreFinal
BY OverlappingCallsKeepSettled, PTL

\* The message of an update leads from the state that was read to a later one.
LEMMA CommittedUpdateGoesForward ==
    ASSUME ServiceTrust, NEW w \in Workers, CommitUpdate(w)
    PROVE  UpdatesGoForward'
<1> DEFINE call   == calls[w]
           header == call.request.argument
           old    == call.consensus_state
           new    == new_consensus_state(old, header)
           height == header.execution.block_number
<1> SUFFICES ASSUME FaultyPeriods = {}
             PROVE  /\ message'.prev_height <= message'.post_height
                    /\ message'.context.state_timestamp <= message'.timestamp
  BY DEF UpdatesGoForward
<1>1. /\ call # None /\ call.stage = "checked" /\ call.request.kind = "header"
      /\ call.request.height = header.trusted.height
      /\ IsTrustworthy(call.request.height, old)
      /\ IsTrustworthy(height, new)
  BY AcceptedUpdate DEF CommitUpdate, ServiceTrust, ReadsAreTrustworthy
<1>2. IsCanonicalState(header.trusted.height, old) /\ IsCanonicalState(height, new)
  BY <1>1 DEF IsTrustworthy, IsBlamed
<1>3. PICK time \in Nat, keys \in SUBSET Nat : IsAccepted(call, time, keys)
  BY <1>1 DEF ServiceTrust, ServiceTypes, ServiceCallsSound, WasAccepted
<1>4. old.slot < new.slot
  BY <1>1, <1>3
     DEF IsAccepted, check_header, validate_updates, is_relevant_update, new_consensus_state
<1>5. header.trusted.height <= height /\ old.timestamp <= new.timestamp
  BY <1>2, <1>4, LaterStateIsNotBelow
<1>6. /\ message'.prev_height = header.trusted.height /\ message'.post_height = height
      /\ message'.timestamp = new.timestamp
      /\ message'.context.state_timestamp = old.timestamp
  BY DEF CommitUpdate, UpdateStateMessage, TrustingPeriodContext
<1> QED
  BY <1>5, <1>6

\* See UpdatesGoForward: without equivocation no update message leads back,
\* although other calls have moved the client on since its states were read
\* (client.rs 204-217).
THEOREM OverlappingMessagesGoForward ==
    ASSUME "storage_root" \notin Omissions
    PROVE  ServiceSpec => []UpdatesGoForward
<1>1. ServiceInit => UpdatesGoForward
  BY DEF ServiceInit, Init, NoMessage, UpdatesGoForward
<1>2. ASSUME ServiceTrust, UpdatesGoForward, [ServiceNext]_service_vars
      PROVE  UpdatesGoForward'
  <2>1. CASE message' = message
    BY <1>2, <2>1 DEF UpdatesGoForward
  <2>2. ASSUME NEW w \in Workers,
               \/ \E c \in ClientIds, request \in Requests : ReadClientState(w, c, request)
               \/ ReadConsensusState(w)
               \/ Check(w)
               \/ ReadPrevStates(w)
               \/ Fail(w)
        PROVE  message' = message
    BY <2>2 DEF ReadClientState, ReadConsensusState, Check, ReadPrevStates, Fail, Continue, vars
  <2>3. ASSUME NEW w \in Workers, CommitMembership(w) \/ CommitMisbehaviour(w)
        PROVE  UpdatesGoForward'
    BY <2>3 DEF CommitMembership, CommitMisbehaviour, MembershipMessage,
                MisbehaviourMessage, UpdatesGoForward
  <2>4. CASE OtherStep
    <3>1. \/ message' = message
          \/ message'.prev_height = None
      BY <2>4 DEF OtherStep, CreateClient, CreateClientMessage, Tick, CorruptCommittee
    <3> QED
      BY <2>1, <3>1 DEF UpdatesGoForward
  <2>5. CASE UNCHANGED service_vars
    BY <2>1, <2>5 DEF service_vars, vars
  <2> QED
    BY <1>2, <2>1, <2>2, <2>3, <2>4, <2>5, CommittedUpdateGoesForward
       DEF ServiceNext, OtherStep
<1> QED
  BY <1>1, <1>2, ServiceTrustHolds, PTL DEF ServiceSpec

-----------------------------------------------------------------------------
(* What exclusion of updates adds *)

\* No two updates of one client are executed at a time.
UpdatesAreExclusive ==
    \A v, w \in Workers :
        /\ calls[v] # None /\ calls[v].request \in UpdateRequests
        /\ calls[w] # None /\ calls[w].request \in UpdateRequests
        /\ calls[v].client_id = calls[w].client_id
        => v = w

\* What an update has read is what is stored.
IsCurrent(call) ==
    LET c == call.client_id
    IN  /\ call.client_state = client_states[c]
        /\ call.stage # "client_state" =>
             /\ ~is_frozen(call.client_state)
             /\ call.consensus_state = consensus_states[c][call.request.height]
        /\ call.stage = "prev_states" =>
             call.prev_states =
               {<<call.request.height, gen_state_id(call.client_state, call.consensus_state)>>}

UpdatesAreCurrent ==
    \A w \in Workers : calls[w] # None /\ calls[w].request \in UpdateRequests
        => IsCurrent(calls[w])

ServiceExclusion == ServiceTypes /\ UpdatesAreExclusive /\ UpdatesAreCurrent

\* A step of one worker keeps the others' calls current if it writes to the
\* store of its own client only, when it is an update, and nothing otherwise.
LEMMA ExclusionKept ==
    ASSUME ServiceExclusion, ServiceTypes', NEW w \in Workers,
           \A v \in Workers \ {w} : calls'[v] = calls[v],
           calls'[w] # None /\ calls'[w].request \in UpdateRequests =>
             /\ IsCurrent(calls[w])'
             /\ \A v \in Workers \ {w} :
                  calls[v] # None /\ calls[v].request \in UpdateRequests
                    => calls[v].client_id # calls'[w].client_id,
           \A v \in Workers \ {w} :
              calls[v] # None /\ calls[v].request \in UpdateRequests =>
                LET c == calls[v].client_id
                IN  /\ client_states'[c] = client_states[c]
                    /\ consensus_states'[c] = consensus_states[c]
    PROVE  ServiceExclusion'
<1>1. UpdatesAreExclusive'
  <2> SUFFICES ASSUME NEW u \in Workers, NEW v \in Workers, u # v,
                      calls'[u] # None, calls'[u].request \in UpdateRequests,
                      calls'[v] # None, calls'[v].request \in UpdateRequests,
                      calls'[u].client_id = calls'[v].client_id
               PROVE  FALSE
    BY DEF UpdatesAreExclusive
  <2>1. CASE u # w /\ v # w
    BY <2>1 DEF ServiceExclusion, UpdatesAreExclusive
  <2>2. CASE u = w \/ v = w
    BY <2>2
  <2> QED
    BY <2>1, <2>2
<1>2. UpdatesAreCurrent'
  <2> SUFFICES ASSUME NEW v \in Workers, calls'[v] # None,
                      calls'[v].request \in UpdateRequests
               PROVE  IsCurrent(calls[v])'
    BY DEF UpdatesAreCurrent
  <2>1. CASE v = w
    BY <2>1
  <2>2. CASE v # w
    <3>1. IsCurrent(calls[v]) /\ calls'[v] = calls[v]
      BY <2>2 DEF ServiceExclusion, UpdatesAreCurrent
    <3> QED
      BY <2>2, <3>1 DEF IsCurrent
  <2> QED
    BY <2>1, <2>2
<1> QED
  BY <1>1, <1>2 DEF ServiceExclusion

\* The steps of a call that store nothing.
LEMMA ReadingKeepsExclusion ==
    ASSUME ServiceExclusion, ServiceTypes', Exclusive, NEW w \in Workers,
           \/ \E c \in ClientIds, request \in Requests : ReadClientState(w, c, request)
           \/ ReadConsensusState(w)
           \/ Check(w)
           \/ ReadPrevStates(w)
           \/ Fail(w)
    PROVE  ServiceExclusion'
<1> DEFINE old == calls[w]
<1>1. ASSUME NEW call, Continue(w, call),
             call # None /\ call.request \in UpdateRequests =>
               /\ IsCurrent(call)
               /\ \A v \in Workers \ {w} :
                    calls[v] # None /\ calls[v].request \in UpdateRequests
                      => calls[v].client_id # call.client_id
      PROVE  ServiceExclusion'
  <2>1. /\ calls'[w] = call
        /\ \A v \in Workers \ {w} : calls'[v] = calls[v]
        /\ client_states' = client_states /\ consensus_states' = consensus_states
    BY <1>1, ContinueEffect DEF ServiceExclusion, ServiceTypes, vars
  <2>2. call # None /\ call.request \in UpdateRequests => IsCurrent(calls[w])'
    BY <1>1, <2>1 DEF IsCurrent
  <2> QED
    BY <1>1, <2>1, <2>2, ExclusionKept
<1>2. ASSUME old # None, old.request \in UpdateRequests
      PROVE  /\ IsCurrent(old)
             /\ \A v \in Workers \ {w} :
                  calls[v] # None /\ calls[v].request \in UpdateRequests
                    => calls[v].client_id # old.client_id
  BY <1>2 DEF ServiceExclusion, UpdatesAreCurrent, UpdatesAreExclusive
<1>3. ASSUME NEW c \in ClientIds, NEW request \in Requests,
             ReadClientState(w, c, request)
      PROVE  ServiceExclusion'
  <2> DEFINE call == [stage |-> "client_state", client_id |-> c, request |-> request,
                      client_state |-> client_states[c]]
  <2>1. /\ Continue(w, call)
        /\ request \in UpdateRequests => ~IsUpdating(c)
    BY <1>3 DEF ReadClientState
  <2>2. IsCurrent(call) /\ call.request = request /\ call.client_id = c
    BY DEF IsCurrent
  <2>3. request \in UpdateRequests =>
          \A v \in Workers \ {w} :
             calls[v] # None /\ calls[v].request \in UpdateRequests
               => calls[v].client_id # c
    BY <2>1 DEF IsUpdating
  <2> HIDE DEF call
  <2> QED
    BY <1>1, <2>1, <2>2, <2>3
<1>4. CASE ReadConsensusState(w)
  <2> DEFINE call == [stage |-> "consensus_state", client_id |-> old.client_id,
                      request |-> old.request, client_state |-> old.client_state,
                      consensus_state |-> consensus_states[old.client_id][old.request.height]]
  <2>1. /\ Continue(w, call) /\ old # None /\ ~is_frozen(old.client_state)
        /\ call.request = old.request /\ call.client_id = old.client_id
    BY <1>4 DEF ReadConsensusState
  <2>2. IsCurrent(old) => IsCurrent(call)
    BY <2>1 DEF IsCurrent
  <2> HIDE DEF call
  <2> QED
    BY <1>1, <1>2, <2>1, <2>2
<1>5. CASE Check(w)
  <2> DEFINE call == [old EXCEPT !.stage = "checked"]
  <2>1. /\ Continue(w, call) /\ old # None /\ old.stage = "consensus_state"
        /\ old \in FullCalls
    BY <1>5, CallType DEF Check, ServiceExclusion, ServiceTypes
  <2>2. /\ call.request = old.request /\ call.client_id = old.client_id
        /\ call.client_state = old.client_state
        /\ call.consensus_state = old.consensus_state
        /\ call.stage = "checked"
    BY <2>1 DEF FullCalls, CallsWithState
  <2> HIDE DEF call
  <2>3. IsCurrent(old) => IsCurrent(call)
    BY <2>1, <2>2 DEF IsCurrent
  <2> QED
    BY <1>1, <1>2, <2>1, <2>2, <2>3
<1>6. CASE ReadPrevStates(w)
  <2> DEFINE prev_states == make_prev_states(old.client_id, old.client_state,
                                             {old.request.height})
             call == [stage |-> "prev_states", client_id |-> old.client_id,
                      request |-> old.request, client_state |-> old.client_state,
                      consensus_state |-> old.consensus_state,
                      prev_states |-> prev_states]
  <2>1. /\ Continue(w, call) /\ old # None /\ old.stage = "checked"
        /\ call.request = old.request /\ call.client_id = old.client_id
    BY <1>6 DEF ReadPrevStates
  <2>2. prev_states = {<<old.request.height,
            gen_state_id(old.client_state,
                         consensus_states[old.client_id][old.request.height])>>}
    BY DEF make_prev_states
  <2> HIDE DEF prev_states
  <2>3. IsCurrent(old) => IsCurrent(call)
    BY <2>1, <2>2 DEF IsCurrent
  <2> HIDE DEF call
  <2> QED
    BY <1>1, <1>2, <2>1, <2>3
<1>7. CASE Fail(w)
  BY <1>1, <1>7 DEF Fail
<1> QED
  BY <1>3, <1>4, <1>5, <1>6, <1>7

\* An update that ends is the only one of its client.
LEMMA CommitKeepsExclusion ==
    ASSUME ServiceExclusion, ServiceTypes', NEW w \in Workers,
           CommitUpdate(w) \/ CommitMisbehaviour(w) \/ CommitMembership(w)
    PROVE  ServiceExclusion'
<1> DEFINE c == calls[w].client_id
<1>1. /\ calls'[w] = None /\ calls[w] # None /\ c \in ClientIds
      /\ \A v \in Workers \ {w} : calls'[v] = calls[v]
  BY CallType
     DEF CommitUpdate, CommitMisbehaviour, CommitMembership, ServiceExclusion,
         ServiceTypes, ServiceTypeOK
<1>2. CASE CommitUpdate(w) \/ CommitMisbehaviour(w)
  <2>1. calls[w].request \in UpdateRequests
    BY <1>1, <1>2, AcceptedUpdate, AcceptedEvidence, CallType
       DEF CommitUpdate, CommitMisbehaviour, ServiceExclusion, ServiceTypes
  <2>2. \A d \in ClientIds \ {c} :
           client_states'[d] = client_states[d] /\ consensus_states'[d] = consensus_states[d]
    BY <1>1, <1>2
       DEF CommitUpdate, CommitMisbehaviour, StoreConsensusState, ServiceExclusion,
           ServiceTypes, ServiceTypeOK, TypeOK
  <2>3. \A v \in Workers \ {w} : calls[v] # None /\ calls[v].request \in UpdateRequests
           => calls[v].client_id \in ClientIds \ {c}
    BY <1>1, <2>1, CallType DEF ServiceExclusion, UpdatesAreExclusive, ServiceTypes
  <2> QED
    BY <1>1, <2>2, <2>3, ExclusionKept
<1>3. CASE CommitMembership(w)
  <2>1. client_states' = client_states /\ consensus_states' = consensus_states
    BY <1>3 DEF CommitMembership, store
  <2> QED
    BY <1>1, <2>1, ExclusionKept
<1> QED
  BY <1>2, <1>3

\* A client that a call has read exists, and is not created again.
LEMMA OtherStepKeepsExclusion ==
    ASSUME ServiceExclusion, ServiceTypes', OtherStep
    PROVE  ServiceExclusion'
<1>1. calls' = calls
  BY DEF OtherStep
<1>2. ASSUME NEW w \in Workers, calls[w] # None, calls[w].request \in UpdateRequests
      PROVE  /\ client_states'[calls[w].client_id] = client_states[calls[w].client_id]
             /\ consensus_states'[calls[w].client_id] = consensus_states[calls[w].client_id]
  <2> DEFINE d == calls[w].client_id
  <2>1. /\ d \in ClientIds /\ client_states[d] = calls[w].client_state
        /\ calls[w].client_state \in ClientState
    BY <1>2, CallType DEF ServiceExclusion, UpdatesAreCurrent, IsCurrent, ServiceTypes
  <2>2. client_states[d] # None
    BY <2>1, InputAssumption
  <2>3. ASSUME NEW c \in ClientIds, NEW params, NEW block, NEW fault,
               CreateClient(c, params, block, fault)
        PROVE  client_states'[d] = client_states[d] /\ consensus_states'[d] = consensus_states[d]
    BY <2>1, <2>2, <2>3
       DEF CreateClient, StoreConsensusState, ServiceExclusion, ServiceTypes, ServiceTypeOK,
           TypeOK
  <2> QED
    BY <2>3 DEF OtherStep, Tick, CorruptCommittee, store
<1>3. UpdatesAreExclusive'
  BY <1>1 DEF ServiceExclusion, UpdatesAreExclusive
<1>4. UpdatesAreCurrent'
  BY <1>1, <1>2 DEF ServiceExclusion, UpdatesAreCurrent, IsCurrent
<1> QED
  BY <1>3, <1>4 DEF ServiceExclusion

LEMMA ServiceExclusionInductive ==
    ASSUME Exclusive, ServiceExclusion, [ServiceNext]_service_vars
    PROVE  ServiceExclusion'
<1>1. ServiceTypes'
  BY ServiceTypesInductive DEF ServiceExclusion
<1>2. CASE UNCHANGED service_vars
  <2>1. /\ calls' = calls /\ client_states' = client_states
        /\ consensus_states' = consensus_states
    BY <1>2 DEF service_vars, vars
  <2> QED
    BY <1>1, <2>1 DEF ServiceExclusion, UpdatesAreExclusive, UpdatesAreCurrent, IsCurrent
<1> QED
  BY <1>1, <1>2, ReadingKeepsExclusion, CommitKeepsExclusion, OtherStepKeepsExclusion
     DEF ServiceNext, OtherStep

LEMMA ServiceExclusionHolds ==
    ASSUME Exclusive
    PROVE  ServiceSpec => []ServiceExclusion
<1>1. ServiceInit => UpdatesAreExclusive /\ UpdatesAreCurrent
  BY DEF ServiceInit, UpdatesAreExclusive, UpdatesAreCurrent
<1>2. ServiceExclusion /\ [ServiceNext]_service_vars => ServiceExclusion'
  BY ServiceExclusionInductive
<1> QED
  BY <1>1, <1>2, ServiceTypesHold, PTL DEF ServiceSpec, ServiceExclusion

\* The steps that write the store.
LEMMA StoringServiceSteps ==
    ASSUME [ServiceNext]_service_vars
    PROVE  \/ \E w \in Workers : CommitUpdate(w)
           \/ \E w \in Workers : CommitMisbehaviour(w)
           \/ \E c \in ClientIds, params \in Params, block \in CanonicalBlocks,
                 fault \in Omissions \cup {"nothing"} : CreateClient(c, params, block, fault)
           \/ client_states' = client_states /\ consensus_states' = consensus_states
<1>1. ASSUME NEW w \in Workers,
             \/ \E c \in ClientIds, request \in Requests : ReadClientState(w, c, request)
             \/ ReadConsensusState(w)
             \/ Check(w)
             \/ ReadPrevStates(w)
             \/ CommitMembership(w)
             \/ Fail(w)
      PROVE  client_states' = client_states /\ consensus_states' = consensus_states
  BY <1>1 DEF ReadClientState, ReadConsensusState, Check, ReadPrevStates, Fail, Continue,
              vars, CommitMembership, store
<1>2. CASE Tick \/ \E period \in CommitteePeriods : CorruptCommittee(period)
  BY <1>2 DEF Tick, CorruptCommittee, store
<1>3. CASE UNCHANGED service_vars
  BY <1>3 DEF service_vars, vars
<1> QED
  BY <1>1, <1>2, <1>3 DEF ServiceNext

\* What the call of an exclusive update that ends has in its hands.
LEMMA EndingCallIsCurrent ==
    ASSUME ServiceExclusion, NEW w \in Workers, CommitUpdate(w) \/ CommitMisbehaviour(w)
    PROVE  LET call == calls[w]
               c    == call.client_id
           IN  /\ c \in ClientIds /\ client_states[c] # None
               /\ call.client_state = client_states[c] /\ ~is_frozen(client_states[c])
               /\ call.request.height \in DOMAIN consensus_states[c]
               /\ call.consensus_state = consensus_states[c][call.request.height]
               /\ call.stage = "prev_states" =>
                    call.prev_states =
                      {<<call.request.height,
                         gen_state_id(call.client_state, call.consensus_state)>>}
<1>1. /\ calls[w] # None /\ calls[w].client_id \in ClientIds
      /\ calls[w].client_state \in ClientState /\ calls[w].stage # "client_state"
      /\ calls[w].request \in UpdateRequests
  BY AcceptedUpdate, AcceptedEvidence, CallType
     DEF CommitUpdate, CommitMisbehaviour, ServiceExclusion, ServiceTypes
<1> QED
  BY <1>1, InputAssumption
     DEF ServiceExclusion, UpdatesAreCurrent, IsCurrent, ServiceTypes, HeightsAreThere

\* See FrozenStoreIsFinal: when updates of one client exclude each other, no
\* call that began before a freeze undoes it (client.rs 201, 245-250).
THEOREM ServedFreezeIsFinal ==
    ASSUME Exclusive
    PROVE  ServiceSpec => FrozenStoreIsFinal
<1>1. ASSUME ServiceExclusion, [ServiceNext]_service_vars, NEW c \in ClientIds,
             client_states[c] # None, is_frozen(client_states[c])
      PROVE  /\ client_states'[c] = client_states[c]
             /\ consensus_states'[c] = consensus_states[c]
  <2>1. ASSUME NEW w \in Workers, CommitUpdate(w) \/ CommitMisbehaviour(w)
        PROVE  /\ client_states'[c] = client_states[c]
               /\ consensus_states'[c] = consensus_states[c]
    <3>1. calls[w].client_id # c /\ calls[w].client_id \in ClientIds
      BY <1>1, <2>1, EndingCallIsCurrent
    <3> QED
      BY <1>1, <2>1, <3>1
         DEF CommitUpdate, CommitMisbehaviour, StoreConsensusState, ServiceExclusion,
             ServiceTypes, ServiceTypeOK, TypeOK
  <2>2. ASSUME NEW d \in ClientIds, NEW params, NEW block, NEW fault,
               CreateClient(d, params, block, fault)
        PROVE  /\ client_states'[c] = client_states[c]
               /\ consensus_states'[c] = consensus_states[c]
    BY <1>1, <2>2
       DEF CreateClient, StoreConsensusState, ServiceExclusion, ServiceTypes,
           ServiceTypeOK, TypeOK
  <2> QED
    BY <1>1, <2>1, <2>2, StoringServiceSteps
<1>2. ServiceExclusion /\ [ServiceNext]_service_vars =>
        [\A c \in ClientIds : client_states[c] # None /\ is_frozen(client_states[c]) =>
          /\ client_states'[c] = client_states[c]
          /\ consensus_states'[c] = consensus_states[c]]_service_vars
  BY <1>1
<1> QED
  BY <1>2, ServiceExclusionHolds, PTL DEF ServiceSpec, FrozenStoreIsFinal

\* See FreezeIsAnnounced: the two reads of the state at the frozen height agree,
\* and no freeze is stored without its message (client.rs 245-265, 278).
THEOREM ServedFreezeIsAnnounced ==
    ASSUME Exclusive
    PROVE  ServiceSpec => FreezeIsAnnounced
<1> DEFINE Announced(c) ==
              LET height          == client_states'[c].frozen_height
                  consensus_state == consensus_states'[c][height]
              IN  /\ message'.type = "Misbehaviour"
                  /\ message'.client_id = c
                  /\ message'.prev_states =
                       {<<height, gen_state_id(client_states'[c], consensus_state)>>}
                  /\ message'.context.state_timestamp = consensus_state.timestamp
<1>1. ASSUME ServiceExclusion, [ServiceNext]_service_vars, NEW c \in ClientIds,
             client_states[c] # None, ~is_frozen(client_states[c]),
             is_frozen(client_states'[c])
      PROVE  Announced(c)
  <2>1. ASSUME NEW w \in Workers, CommitUpdate(w)
        PROVE  FALSE
    <3>1. client_states'[c] # client_states[c]
      BY <1>1
    <3>2. calls[w].client_id = c
      BY <1>1, <2>1, <3>1, EndingCallIsCurrent
         DEF CommitUpdate, ServiceExclusion, ServiceTypes, ServiceTypeOK, TypeOK
    <3>3. /\ client_states[c] \in ClientState
          /\ client_states'[c] = new_client_state(client_states[c], calls[w].request.argument)
      BY <1>1, <2>1, <3>2, EndingCallIsCurrent
         DEF CommitUpdate, ServiceExclusion, ServiceTypes, ServiceTypeOK, TypeOK
    <3> QED
      BY <1>1, <3>3 DEF new_client_state, is_frozen, ClientState
  <2>2. ASSUME NEW w \in Workers, CommitMisbehaviour(w)
        PROVE  Announced(c)
    <3> DEFINE call   == calls[w]
               height == call.request.height
               cs     == client_states[c]
    <3>1. call.client_id = c
      BY <1>1, <2>2, EndingCallIsCurrent
         DEF CommitMisbehaviour, ServiceExclusion, ServiceTypes, ServiceTypeOK, TypeOK
    <3>2. /\ cs \in ClientState /\ call.client_state = cs
          /\ call.consensus_state = consensus_states[c][height]
          /\ call.prev_states = {<<height, gen_state_id(cs, call.consensus_state)>>}
          /\ client_states'[c] = with_frozen_height(cs, height)
          /\ consensus_states' = consensus_states
          /\ message' = MisbehaviourMessage(c, cs, call.consensus_state, call.prev_states,
                                            call.request.argument)
      BY <1>1, <2>2, <3>1, EndingCallIsCurrent
         DEF CommitMisbehaviour, ServiceExclusion, ServiceTypes, ServiceTypeOK, TypeOK
    <3>3. /\ client_states'[c].frozen_height = height
          /\ canonicalize(client_states'[c]) = canonicalize(cs)
      BY <3>2 DEF with_frozen_height, canonicalize, ClientState
    <3>4. gen_state_id(client_states'[c], call.consensus_state)
            = gen_state_id(cs, call.consensus_state)
      BY <3>3 DEF gen_state_id
    <3>5. /\ message'.type = "Misbehaviour" /\ message'.client_id = c
          /\ message'.prev_states = call.prev_states
          /\ message'.context.state_timestamp = call.consensus_state.timestamp
      BY <3>2 DEF MisbehaviourMessage, TrustingPeriodContext
    <3> QED
      BY <3>2, <3>3, <3>4, <3>5
  <2>3. ASSUME NEW d \in ClientIds, NEW params, NEW block, NEW fault,
               CreateClient(d, params, block, fault)
        PROVE  client_states'[c] = client_states[c]
    BY <1>1, <2>3 DEF CreateClient, ServiceExclusion, ServiceTypes, ServiceTypeOK, TypeOK
  <2> QED
    BY <1>1, <2>1, <2>2, <2>3, StoringServiceSteps
<1>2. ServiceExclusion /\ [ServiceNext]_service_vars =>
        [\A c \in ClientIds :
          /\ client_states[c] # None /\ ~is_frozen(client_states[c])
          /\ is_frozen(client_states'[c])
          => Announced(c)]_service_vars
  BY <1>1
<1> QED
  BY <1>2, ServiceExclusionHolds, PTL DEF ServiceSpec, FreezeIsAnnounced

\* A freeze that is committed has evidence against the state that is stored, as
\* the state the evidence was checked with is the one still stored.
LEMMA CommitKeepsFreezesJustified ==
    ASSUME ServiceTrust, ServiceExclusion, NoFalseFreeze, NEW w \in Workers,
           CommitUpdate(w) \/ CommitMisbehaviour(w)
    PROVE  NoFalseFreeze'
<1> DEFINE call   == calls[w]
           c      == call.client_id
           height == call.request.height
<1> SUFFICES ASSUME NEW d \in ClientIds, client_states'[d] # None,
                    client_states'[d].frozen_height # None
             PROVE  /\ client_states'[d].frozen_height \in DOMAIN consensus_states'[d]
                    /\ IsBlamed(consensus_states'[d][client_states'[d].frozen_height])
  BY DEF NoFalseFreeze, IsBlamed, current_period
<1>1. /\ call # None /\ c \in ClientIds /\ TypeOK
      /\ call.client_state = client_states[c] /\ ~is_frozen(client_states[c])
      /\ client_states[c] \in ClientState
      /\ height \in DOMAIN consensus_states[c]
      /\ call.consensus_state = consensus_states[c][height]
  BY EndingCallIsCurrent
     DEF CommitUpdate, CommitMisbehaviour, ServiceExclusion, ServiceTypes, ServiceTypeOK, TypeOK
<1>2. CASE CommitUpdate(w)
  <2> DEFINE header == call.request.argument
             new    == new_consensus_state(call.consensus_state, header)
  <2>1. /\ client_states' = [client_states EXCEPT ![c] =
                               new_client_state(client_states[c], header)]
        /\ StoreConsensusState(c, header.execution.block_number, new)
    BY <1>1, <1>2 DEF CommitUpdate
  <2> HIDE DEF new
  <2>2. new_client_state(client_states[c], header).frozen_height = None
    BY <1>1 DEF is_frozen, new_client_state, ClientState
  <2>3. d # c
    BY <1>1, <2>1, <2>2 DEF TypeOK
  <2>4. /\ client_states'[d] = client_states[d]
        /\ consensus_states'[d] = consensus_states[d]
    BY <1>1, <2>1, <2>3, StoreEffect DEF TypeOK
  <2> QED
    BY <2>4 DEF NoFalseFreeze
<1>3. CASE CommitMisbehaviour(w)
  <2>1. /\ client_states' = [client_states EXCEPT ![c] =
                               with_frozen_height(client_states[c], height)]
        /\ UNCHANGED consensus_states
        /\ call.stage = "prev_states" /\ call.request.kind = "misbehaviour"
    BY <1>1, <1>3, CallType DEF CommitMisbehaviour, ServiceExclusion, ServiceTypes
  <2>2. IsBlamed(consensus_states[c][height])
    BY <1>1, <2>1, AcceptedEvidence DEF ServiceTrust, ReadsAreTrustworthy
  <2>3. with_frozen_height(client_states[c], height).frozen_height = height
    BY <1>1 DEF with_frozen_height, ClientState
  <2>4. CASE d = c
    BY <1>1, <2>1, <2>2, <2>3, <2>4 DEF TypeOK
  <2>5. CASE d # c
    BY <1>1, <2>1, <2>5 DEF NoFalseFreeze, TypeOK
  <2> QED
    BY <2>4, <2>5
<1> QED
  BY <1>2, <1>3

\* See NoFalseFreeze: with exclusive updates a call freezes the client by
\* evidence against the state that is stored when it ends, and not against one
\* that has been replaced since it was read (client.rs 231-250).
THEOREM ServedFreezesAreJustified ==
    ASSUME Exclusive, "storage_root" \notin Omissions
    PROVE  ServiceSpec => []NoFalseFreeze
<1>1. ServiceInit => NoFalseFreeze
  BY DEF ServiceInit, Init, NoFalseFreeze
<1>2. ASSUME ServiceTrust, ServiceExclusion, NoFalseFreeze, [ServiceNext]_service_vars
      PROVE  NoFalseFreeze'
  <2>1. ASSUME NEW c \in ClientIds, NEW params \in Params, NEW block \in CanonicalBlocks,
               NEW fault \in Omissions \cup {"nothing"},
               CreateClient(c, params, block, fault)
        PROVE  NoFalseFreeze'
    <3> DEFINE cs == CreatedClientState(params, block, fault)
               consensus_state == CreatedConsensusState(block, fault)
               height == cs.latest_execution_block_number
    <3> SUFFICES ASSUME NEW d \in ClientIds, client_states'[d] # None,
                        client_states'[d].frozen_height # None
                 PROVE  /\ client_states'[d].frozen_height \in DOMAIN consensus_states'[d]
                        /\ IsBlamed(consensus_states'[d][client_states'[d].frozen_height])
      BY DEF NoFalseFreeze, IsBlamed, current_period
    <3>1. /\ StoreConsensusState(c, height, consensus_state)
          /\ ~is_frozen(cs) /\ client_states' = [client_states EXCEPT ![c] = cs]
      BY <2>1 DEF CreateClient
    <3> HIDE DEF cs, consensus_state
    <3>2. TypeOK
      BY <1>2 DEF ServiceTrust, ServiceTypes, ServiceTypeOK
    <3>3. d # c
      BY <3>1, <3>2 DEF is_frozen, TypeOK
    <3> QED
      BY <1>2, <3>1, <3>2, <3>3, StoreEffect DEF NoFalseFreeze, TypeOK
  <2>2. CASE client_states' = client_states /\ consensus_states' = consensus_states
    BY <1>2, <2>2 DEF NoFalseFreeze, IsBlamed, current_period
  <2> QED
    BY <1>2, <2>1, <2>2, StoringServiceSteps, CommitKeepsFreezesJustified
<1> QED
  BY <1>1, <1>2, ServiceTrustHolds, ServiceExclusionHolds, PTL DEF ServiceSpec

\* See LatestIsMaxStored: with exclusive updates no late call lowers the latest
\* height below a stored one (client.rs 201, client_state.rs 230-234).
THEOREM ServedLatestIsGreatest ==
    ASSUME Exclusive
    PROVE  ServiceSpec => []LatestIsMaxStored
<1>1. ServiceInit => Heights
  BY DEF ServiceInit, Init, Heights, LatestIsMaxStored, NoStateAtHeightZero, NoClientNoStates
<1>2. ASSUME ServiceExclusion, Heights, [ServiceNext]_service_vars
      PROVE  Heights'
  <2>1. ASSUME NEW w \in Workers, CommitUpdate(w)
        PROVE  Heights'
    <3> DEFINE header == calls[w].request.argument
    <3>1. header.execution.block_number \in Nat \ {0}
      BY <1>2, <2>1, AcceptedUpdate DEF CommitUpdate, ServiceExclusion
    <3> QED
      BY <1>2, <2>1, <3>1, EndingCallIsCurrent, HeightsAfterUpdate
         DEF CommitUpdate, ServiceExclusion, ServiceTypes, ServiceTypeOK
  <2>2. ASSUME NEW w \in Workers, CommitMisbehaviour(w)
        PROVE  Heights'
    <3>1. calls[w].request.height \in Nat
      BY <1>2, <2>2, CallType, RequestType
         DEF CommitMisbehaviour, ServiceExclusion, ServiceTypes
    <3> QED
      BY <1>2, <2>2, <3>1, EndingCallIsCurrent, HeightsAfterFreeze
         DEF CommitMisbehaviour, ServiceExclusion, ServiceTypes, ServiceTypeOK
  <2>3. ASSUME NEW c \in ClientIds, NEW params \in Params, NEW block \in CanonicalBlocks,
               NEW fault, CreateClient(c, params, block, fault)
        PROVE  Heights'
    BY <1>2, <2>3, HeightsAfterCreation DEF ServiceExclusion, ServiceTypes, ServiceTypeOK
  <2>4. CASE client_states' = client_states /\ consensus_states' = consensus_states
    BY <1>2, <2>4 DEF Heights, LatestIsMaxStored, latest_height, NoStateAtHeightZero,
                      NoClientNoStates
  <2> QED
    BY <1>2, <2>1, <2>2, <2>3, <2>4, StoringServiceSteps
<1>3. Heights => LatestIsMaxStored
  BY DEF Heights
<1> QED
  BY <1>1, <1>2, <1>3, ServiceExclusionHolds, PTL DEF ServiceSpec

\* A late update learns a block: it stores a canonical state, and the client
\* state it computed from what it read is still the next one.
LEMMA ServedUpdateIsLearning ==
    ASSUME FaultyPeriods = {}, ServiceTrust, ServiceExclusion,
           NEW w \in Workers, CommitUpdate(w)
    PROVE  Promise!Next
<1> DEFINE call   == calls[w]
           c      == call.client_id
           header == call.request.argument
           height == header.execution.block_number
           new_cs == new_client_state(call.client_state, header)
           new    == new_consensus_state(call.consensus_state, header)
<1>1. call # None /\ call.stage = "checked" /\ call.request.kind = "header"
  BY DEF CommitUpdate
<1>2. /\ c \in ClientIds /\ client_states[c] # None
      /\ call.client_state = client_states[c]
  BY EndingCallIsCurrent
<1>3. call.client_state \in ClientState
  BY <1>1, CallType DEF ServiceTrust, ServiceTypes
<1>4. /\ new_cs \in ClientState /\ height \in Nat
      /\ IsTrustworthy(height, new)
  BY <1>1, AcceptedUpdate DEF ServiceTrust, ReadsAreTrustworthy
<1>5. IsCanonicalState(height, new)
  BY <1>4 DEF IsTrustworthy, IsBlamed
<1>6. new_cs.latest_execution_block_number =
        IF client_states[c] = None \/ latest_height(c) < height
          THEN height ELSE latest_height(c)
  BY <1>2, <1>3, <1>4 DEF new_client_state, latest_height, ClientState
<1>7. /\ StoreConsensusState(c, height, new)
      /\ client_states' = [client_states EXCEPT ![c] = new_cs]
  BY DEF CommitUpdate
<1>8. TypeOK /\ TrustedStates
  BY DEF ServiceTrust, ServiceTypes, ServiceTypeOK
<1> HIDE DEF new_cs, new, c, height
<1> QED
  BY <1>2, <1>4, <1>5, <1>6, <1>7, <1>8, StoringIsLearning DEF Promise!Next

\* See KeepsPromise: with exclusive updates the calls, taken in pieces, still
\* teach a client one finalised block at a time and take none away
\* (client.rs 184, 201, 228, 245).
THEOREM ServiceKeepsPromise ==
    ASSUME Exclusive, FaultyPeriods = {}, "storage_root" \notin Omissions
    PROVE  ServiceSpec => KeepsPromise
<1>1. ServiceInit => Promise!Init
  BY DEF ServiceInit, Init, Promise!Init, Verified, Latest
<1>2. ASSUME ServiceTrust, ServiceExclusion, [ServiceNext]_service_vars
      PROVE  [Promise!Next]_<<Verified, Latest>>
  <2>1. ASSUME NEW c \in ClientIds, NEW params \in Params, NEW block \in CanonicalBlocks,
               NEW fault \in Omissions \cup {"nothing"},
               CreateClient(c, params, block, fault)
        PROVE  Promise!Next
    <3> DEFINE cs     == CreatedClientState(params, block, fault)
               new    == CreatedConsensusState(block, fault)
               height == cs.latest_execution_block_number
    <3>1. cs \in ClientState /\ IsCanonicalState(height, new)
      BY <2>1, CreatedStatesType, CreatedStateIsCanonical DEF CreateClient
    <3>2. /\ StoreConsensusState(c, height, new) /\ client_states[c] = None
          /\ client_states' = [client_states EXCEPT ![c] = cs]
      BY <2>1 DEF CreateClient
    <3>3. TypeOK /\ TrustedStates
      BY <1>2 DEF ServiceTrust, ServiceTypes, ServiceTypeOK
    <3> HIDE DEF cs, new
    <3> QED
      BY <3>1, <3>2, <3>3, StoringIsLearning DEF Promise!Next
  <2>2. ASSUME NEW w \in Workers, CommitMisbehaviour(w)
        PROVE  UNCHANGED <<Verified, Latest>>
    <3> DEFINE c      == calls[w].client_id
               frozen == with_frozen_height(client_states[c], calls[w].request.height)
    <3>1. /\ c \in ClientIds /\ client_states[c] # None
          /\ calls[w].client_state = client_states[c]
      BY <1>2, <2>2, EndingCallIsCurrent
    <3>2. client_states[c] \in ClientState /\ calls[w].request.height \in Nat
      BY <1>2, <2>2, <3>1, CallType, RequestType
         DEF CommitMisbehaviour, ServiceTrust, ServiceTypes
    <3>3. /\ frozen.latest_execution_block_number
               = client_states[c].latest_execution_block_number
          /\ frozen # None
      BY <3>2, InputAssumption DEF with_frozen_height, ClientState
    <3>4. UNCHANGED Verified
      BY <2>2 DEF CommitMisbehaviour, Verified
    <3>5. client_states' = [client_states EXCEPT ![c] = frozen]
      BY <2>2, <3>1 DEF CommitMisbehaviour
    <3> HIDE DEF c, frozen
    <3>6. UNCHANGED Latest
      BY <1>2, <3>1, <3>3, <3>5
         DEF Latest, latest_height, ServiceTrust, ServiceTypes, ServiceTypeOK, TypeOK
    <3> QED
      BY <3>4, <3>6
  <2>3. CASE client_states' = client_states /\ consensus_states' = consensus_states
    BY <2>3 DEF Verified, Latest, latest_height
  <2> QED
    BY <1>2, <2>1, <2>2, <2>3, StoringServiceSteps, ServedUpdateIsLearning
<1> QED
  BY <1>1, <1>2, ServiceTrustHolds, ServiceExclusionHolds, PTL
     DEF ServiceSpec, KeepsPromise, Promise!Spec
=============================================================================
