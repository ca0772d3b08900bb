-------------------------- MODULE ProxyRelayProofs --------------------------
(***************************************************************************)
(* ProxyRelay, proved: the types, and that a receiver whose own clock is   *)
(* right holds canonical states only, freezes only on evidence and takes   *)
(* only true statements for proofs, whatever the host's clock is and       *)
(* whatever relayers do.  The argument is an invariant on what each sent   *)
(* message would make the receiver believe, were it fresh enough now.      *)
(*                                                                         *)
(* A second invariant, Fit, is about what the messages are good for: they  *)
(* lead back to the client's creation, and before Gloas the receiver can   *)
(* always go on and a lost message is had again.                           *)
(***************************************************************************)
EXTENDS ProxyRelay, EthereumLightClientProofs

ProxyMessage == UpdateStateProxyMessage \cup MisbehaviourProxyMessage
                  \cup VerifyMembershipProxyMessage

-----------------------------------------------------------------------------
(* Types *)

\* A call returns a proxy message and leaves the clock and the keys alone.
LEMMA CallReturnsMessage ==
    ASSUME TypeOK, NEW c \in ClientIds, Call(c)
    PROVE  /\ TypeOK'
           /\ message' \in ProxyMessage
           /\ UNCHANGED <<now, corrupt>>
<1>1. TypeOK'
  BY TypeInductive DEF Next
<1>2. message' # NoMessage /\ UNCHANGED <<now, corrupt>>
  <2>1. ASSUME NEW params \in Params, NEW block \in CanonicalBlocks, NEW fault,
               CreateClient(c, params, block, fault)
        PROVE  message'.type = "UpdateState" /\ UNCHANGED <<now, corrupt>>
    BY <2>1 DEF CreateClient, CreateClientMessage
  <2>2. ASSUME NEW header, UpdateState(c, header)
        PROVE  message'.type = "UpdateState" /\ UNCHANGED <<now, corrupt>>
    BY <2>2 DEF UpdateState, UpdateStateMessage
  <2>3. ASSUME NEW misbehaviour, SubmitMisbehaviour(c, misbehaviour)
        PROVE  message'.type = "Misbehaviour" /\ UNCHANGED <<now, corrupt>>
    BY <2>3 DEF SubmitMisbehaviour, MisbehaviourMessage
  <2>4. ASSUME NEW height, VerifyMembership(c, height) \/ VerifyNonMembership(c, height)
        PROVE  message'.type = "VerifyMembership" /\ UNCHANGED <<now, corrupt>>
    BY <2>4 DEF VerifyMembership, VerifyNonMembership, MembershipMessage
  <2> QED
    BY <2>1, <2>2, <2>3, <2>4 DEF Call, NoMessage
<1> QED
  BY <1>1, <1>2 DEF TypeOK, ProxyMessage

\* What Hold does to what the receiver holds.
LEMMA HoldEffect ==
    ASSUME RelayTypeOK, NEW c \in ClientIds, NEW height \in Nat, NEW id \in StateId,
           Hold(c, height, id)
    PROVE  /\ RelayTypeOK'
           /\ DOMAIN held'[c] = DOMAIN held[c] \cup {height}
           /\ \A h \in DOMAIN held'[c] :
                held'[c][h] = IF h = height THEN id ELSE held[c][h]
           /\ \A d \in ClientIds \ {c} : held'[d] = held[d]
           /\ UNCHANGED <<sent, corrupt, time, held_frozen>>
<1>1. TypeOK'
  BY DEF Hold, client, RelayTypeOK, TypeOK
<1>2. /\ DOMAIN held'[c] = DOMAIN held[c] \cup {height}
      /\ \A h \in DOMAIN held'[c] :
           held'[c][h] = IF h = height THEN id ELSE held[c][h]
      /\ \A d \in ClientIds \ {c} : held'[d] = held[d]
      /\ DOMAIN held' = ClientIds
      /\ held'[c] \in [DOMAIN held'[c] -> StateId]
  BY DEF Hold, RelayTypeOK
<1>3. UNCHANGED <<sent, lost, corrupt, time, held_frozen>>
  BY DEF Hold
<1>4. RelayTypeOK'
  BY <1>1, <1>2, <1>3 DEF RelayTypeOK
<1> QED
  BY <1>2, <1>3, <1>4

\* What an update message makes the receiver hold.
LEMMA UpdateMessageFields ==
    ASSUME RelayTypeOK, NEW m \in sent, m.type = "UpdateState"
    PROVE  /\ m.post_height \in Nat /\ m.post_state_id \in StateId
           /\ m.context \in UpdateContext \cup {None}
BY DEF RelayTypeOK, UpdateStateProxyMessage, MisbehaviourProxyMessage,
       VerifyMembershipProxyMessage

\* No step leaves the types.
LEMMA RelayTypeInductive ==
    ASSUME RelayTypeOK, [RelayNext]_relay_vars
    PROVE  RelayTypeOK'
<1>1. ASSUME NEW c \in ClientIds, CallAndSend(c)
      PROVE  RelayTypeOK'
  BY <1>1, CallReturnsMessage
     DEF CallAndSend, TakeMessage, receiver, RelayTypeOK, ProxyMessage
<1>2. ASSUME NEW c \in ClientIds, NEW m \in sent, Receive(c, m)
      PROVE  RelayTypeOK'
  <2>1. CASE ReceiveCreation(c, m) \/ ReceiveUpdate(c, m)
    BY <1>2, <2>1, HoldEffect, UpdateMessageFields
       DEF ReceiveCreation, ReceiveUpdate, IsCreation
  <2>2. CASE ReceiveMisbehaviour(c, m)
    BY <2>2 DEF ReceiveMisbehaviour, client, RelayTypeOK, TypeOK
  <2> QED
    BY <1>2, <2>1, <2>2 DEF Receive
<1>3. ASSUME NEW m \in sent, Lose(m)
      PROVE  RelayTypeOK'
  BY <1>3 DEF Lose, client, receiver, RelayTypeOK, TypeOK
<1>4. CASE TimePasses
  <2>1. time' \in Nat /\ now' \in Nat
    <3>1. PICK lag \in HostLags : lag <= time' /\ now' = time' - lag
      BY <1>4 DEF TimePasses
    <3> QED
      BY <1>4, <3>1, LagAssumption DEF TimePasses, RelayTypeOK
  <2>2. TypeOK'
    BY <1>4, <2>1 DEF TimePasses, store, RelayTypeOK, TypeOK
  <2> QED
    BY <1>4, <2>1, <2>2 DEF TimePasses, receiver, RelayTypeOK
<1>5. ASSUME NEW period \in CommitteePeriods, LeakKeys(period)
      PROVE  RelayTypeOK'
  <2>1. period \in Nat
    BY <1>5, SlotAssumption DEF CommitteePeriods
  <2> QED
    BY <1>5, <2>1 DEF LeakKeys, client, receiver, RelayTypeOK, TypeOK
<1>6. CASE UNCHANGED relay_vars
  BY <1>6 DEF relay_vars, client, receiver, RelayTypeOK, TypeOK
<1> QED
  BY <1>1, <1>2, <1>3, <1>4, <1>5, <1>6 DEF RelayNext

\* See RelayTypeOK.
THEOREM RelayTypeCorrect == RelaySpec => []RelayTypeOK
<1>1. RelayInit => RelayTypeOK
  <2>1. Init => TypeOK
    BY SlotAssumption DEF Init, TypeOK
  <2> QED
    BY <2>1, SlotAssumption DEF RelayInit, RelayTypeOK
<1>2. RelayTypeOK /\ [RelayNext]_relay_vars => RelayTypeOK'
  BY RelayTypeInductive
<1> QED
  BY <1>1, <1>2, PTL DEF RelaySpec

-----------------------------------------------------------------------------
(* What a message makes the receiver believe *)

IsFresh(context, t) ==
    validate_state_timestamp_within_trusting_period(
        t, context.trusting_period, context.state_timestamp)

\* Whoever trusts the states that `m` starts from may trust what it says, as
\* long as the state it was checked with is within its trusting period at t.
IsSafeUpdate(m, t) ==
    \/ /\ m.prev_height # None
       /\ m.context \in UpdateContext
       /\ IsTrustworthy(m.prev_height, m.prev_state_id.consensus_state)
            => ~IsFresh(m.context, t)
    \/ IsTrustworthy(m.post_height, m.post_state_id.consensus_state)

IsSafeEvidence(m, t) ==
    \/ ~IsFresh(m.context, t)
    \/ \E prev \in m.prev_states :
          \/ ~IsTrustworthy(prev[1], prev[2].consensus_state)
          \/ IsBlamed(prev[2].consensus_state)

IsTrueProof(m) ==
    m.value = IF HasCommitment(m.state_id.consensus_state.storage_root)
                THEN "present" ELSE "absent"

IsSafeMessage(m, t) ==
    /\ m.type = "UpdateState" => IsSafeUpdate(m, t)
    /\ m.type = "Misbehaviour" => IsSafeEvidence(m, t)
    /\ m.type = "VerifyMembership" => IsTrueProof(m)

KeysLeakInTime == \A p \in corrupt : MayBeCorrupted(p, time)

\* The inductive invariant.
RelayTrust ==
    /\ RelayTypeOK
    /\ KeysLeakInTime
    /\ \A m \in sent : IsSafeMessage(m, time)
    /\ ReceiverTrust
    /\ ReceiverFreezesOnEvidence

\* What is safe to believe stays so as time passes.
LEMMA SafeMessagesStaySafe ==
    ASSUME RelayTypeOK, NEW m \in sent, IsSafeMessage(m, time)
    PROVE  IsSafeMessage(m, time + 1)
<1>1. time \in Nat
  BY DEF RelayTypeOK
<1>2. ASSUME NEW context \in UpdateContext, IsFresh(context, time + 1)
      PROVE  IsFresh(context, time)
  BY <1>1, <1>2
     DEF IsFresh, validate_state_timestamp_within_trusting_period, UpdateContext
<1>3. CASE m.type = "UpdateState"
  BY <1>2, <1>3 DEF IsSafeMessage, IsSafeUpdate
<1>4. CASE m.type = "Misbehaviour"
  <2>1. m.context \in UpdateContext
    BY <1>4 DEF RelayTypeOK, UpdateStateProxyMessage, MisbehaviourProxyMessage,
                VerifyMembershipProxyMessage
  <2> QED
    BY <1>2, <1>4, <2>1 DEF IsSafeMessage, IsSafeEvidence
<1> QED
  BY <1>3, <1>4 DEF IsSafeMessage

\* What a call returns is safe to believe, whatever clock it was checked with.
LEMMA SentMessagesAreSafe ==
    ASSUME "storage_root" \notin Omissions, RelayTypeOK, KeysLeakInTime,
           NEW c \in ClientIds, Call(c)
    PROVE  IsSafeMessage(message', time)
<1> USE DEF RelayTypeOK
<1>1. ASSUME NEW params \in Params, NEW block \in CanonicalBlocks,
             NEW fault \in Omissions \cup {"nothing"},
             CreateClient(c, params, block, fault)
      PROVE  IsSafeMessage(message', time)
  <2> DEFINE cs == CreatedClientState(params, block, fault)
             consensus_state == CreatedConsensusState(block, fault)
  <2>1. IsCanonicalState(cs.latest_execution_block_number, consensus_state)
    BY <1>1, CreatedStateIsCanonical DEF CreateClient
  <2>2. message' = CreateClientMessage(c, cs, consensus_state, cs)
    BY <1>1 DEF CreateClient
  <2> HIDE DEF cs, consensus_state
  <2> QED
    BY <2>1, <2>2
       DEF CreateClientMessage, gen_state_id, IsSafeMessage, IsSafeUpdate, IsTrustworthy
<1>2. ASSUME NEW header \in Headers, UpdateState(c, header)
      PROVE  IsSafeMessage(message', time)
  <2> DEFINE trusted_height  == header.trusted.height
             cs              == client_states[c]
             consensus_state == consensus_states[c][trusted_height]
             new_state       == new_consensus_state(consensus_state, header)
             context         == TrustingPeriodContext(cs, cs.params.max_clock_drift,
                                  new_state.timestamp, consensus_state.timestamp)
  <2>1. /\ cs \in ClientState /\ consensus_state \in ConsensusState
        /\ trusted_height \in Nat /\ header \in Header
        /\ check_header(cs, consensus_state, header, now, corrupt)
        /\ message' = UpdateStateMessage(c, cs, consensus_state, header)
    BY <1>2, StoredStatesType, InputAssumption DEF UpdateState
  <2>2. ASSUME IsTrustworthy(trusted_height, consensus_state), IsFresh(context, time)
        PROVE  IsTrustworthy(header.execution.block_number, new_state)
    <3>1. validate_state_timestamp_within_trusting_period(
              time, cs.params.trusting_period, consensus_state.timestamp)
      BY <2>2 DEF IsFresh, TrustingPeriodContext
    <3> QED
      BY <2>1, <2>2, <3>1, AcceptedHeader DEF KeysLeakInTime
  <2>3. context \in UpdateContext
    <3>1. new_state \in ConsensusState
      BY <2>1, NewConsensusStateType DEF TypeOK
    <3>2. cs.params.max_clock_drift \in Nat
      BY <2>1, ParamsAssumption DEF ClientState
    <3>3. new_state.timestamp \in Nat /\ consensus_state.timestamp \in Nat
      BY <2>1, <3>1 DEF ConsensusState
    <3> HIDE DEF new_state
    <3> QED
      BY <2>1, <3>2, <3>3, ContextType
  <2>4. /\ message'.type = "UpdateState"
        /\ message'.prev_height = trusted_height
        /\ message'.prev_state_id.consensus_state = consensus_state
        /\ message'.post_height = header.execution.block_number
        /\ message'.post_state_id.consensus_state = new_state
        /\ message'.context = context
    BY <2>1 DEF UpdateStateMessage, gen_state_id
  <2>5. trusted_height # None
    BY <2>1, ParamsAssumption
  <2> HIDE DEF trusted_height, consensus_state, new_state, context
  <2> QED
    BY <2>2, <2>3, <2>4, <2>5 DEF IsSafeMessage, IsSafeUpdate
<1>3. ASSUME NEW misbehaviour \in Misbehaviours, SubmitMisbehaviour(c, misbehaviour)
      PROVE  IsSafeMessage(message', time)
  <2> DEFINE h               == misbehaviour.trusted.height
             cs              == client_states[c]
             consensus_state == consensus_states[c][h]
             context         == TrustingPeriodContext(cs, 0, 0, consensus_state.timestamp)
             prev            == <<h, gen_state_id(cs, consensus_state)>>
  <2>1. /\ cs \in ClientState /\ consensus_state \in ConsensusState
        /\ misbehaviour \in Misbehaviour
        /\ check_misbehaviour(cs, c, consensus_state, misbehaviour, now, corrupt)
        /\ message' = MisbehaviourMessage(c, cs, consensus_state,
                          make_prev_states(c, cs, {h}), misbehaviour)
    BY <1>3, StoredStatesType, InputAssumption DEF SubmitMisbehaviour
  <2>2. ASSUME IsTrustworthy(h, consensus_state), IsFresh(context, time)
        PROVE  IsBlamed(consensus_state)
    <3>1. validate_state_timestamp_within_trusting_period(
              time, cs.params.trusting_period, consensus_state.timestamp)
      BY <2>2 DEF IsFresh, TrustingPeriodContext
    <3> QED
      BY <2>1, <2>2, <3>1, AcceptedMisbehaviour DEF KeysLeakInTime
  <2>3. /\ message'.type = "Misbehaviour"
        /\ message'.prev_states = {prev}
        /\ message'.context = context
    BY <2>1 DEF MisbehaviourMessage, make_prev_states
  <2>4. prev[1] = h /\ prev[2].consensus_state = consensus_state
    BY DEF gen_state_id
  <2> HIDE DEF h, consensus_state, context, prev
  <2> QED
    BY <2>2, <2>3, <2>4 DEF IsSafeMessage, IsSafeEvidence
<1>4. ASSUME NEW height, VerifyMembership(c, height) \/ VerifyNonMembership(c, height)
      PROVE  IsSafeMessage(message', time)
  BY <1>4 DEF VerifyMembership, VerifyNonMembership, verify_membership,
              verify_non_membership, MembershipMessage, gen_state_id, IsSafeMessage,
              IsTrueProof
<1> QED
  BY <1>1, <1>2, <1>3, <1>4 DEF Call

-----------------------------------------------------------------------------
(* What the receiver holds *)

\* A trustworthy state id may be held at its height: nothing frozen thaws and
\* no blamed state goes away from a frozen client.
LEMMA TrustedHold ==
    ASSUME RelayTrust, NEW c \in ClientIds, NEW height \in Nat, NEW id \in StateId,
           IsTrustworthy(height, id.consensus_state), Hold(c, height, id),
           ~held_frozen[c] \/ DOMAIN held[c] = {}
    PROVE  RelayTrust'
<1> USE DEF RelayTrust
<1>1. /\ RelayTypeOK'
      /\ DOMAIN held'[c] = DOMAIN held[c] \cup {height}
      /\ \A h \in DOMAIN held'[c] :
           held'[c][h] = IF h = height THEN id ELSE held[c][h]
      /\ \A d \in ClientIds \ {c} : held'[d] = held[d]
      /\ UNCHANGED <<sent, corrupt, time, held_frozen>>
  BY HoldEffect
<1>2. ReceiverTrust'
  BY <1>1 DEF ReceiverTrust, IsTrustworthy, IsCanonicalState, IsBlamed, current_period
<1>3. ReceiverFreezesOnEvidence'
  <2>1. ASSUME NEW d \in ClientIds, held_frozen[d]
        PROVE  d # c /\ \E h \in DOMAIN held[d] : IsBlamed(held[d][h].consensus_state)
    BY <2>1 DEF ReceiverFreezesOnEvidence
  <2> QED
    BY <1>1, <2>1 DEF ReceiverFreezesOnEvidence, IsBlamed, current_period
<1>4. KeysLeakInTime' /\ \A m \in sent' : IsSafeMessage(m, time')
  BY <1>1 DEF KeysLeakInTime
<1> QED
  BY <1>1, <1>2, <1>3, <1>4

\* The steps of the light client and of its environment.
LEMMA SenderKeepsTrust ==
    ASSUME "storage_root" \notin Omissions, RelayTrust, RelayTypeOK',
           \/ \E c \in ClientIds : CallAndSend(c)
           \/ \E m \in sent : Lose(m)
           \/ TimePasses
           \/ \E period \in CommitteePeriods : LeakKeys(period)
           \/ UNCHANGED relay_vars
    PROVE  RelayTrust'
<1> USE DEF RelayTrust
<1>1. UNCHANGED receiver
  BY DEF CallAndSend, TakeMessage, Lose, TimePasses, LeakKeys, relay_vars
<1>2. ReceiverTrust' /\ ReceiverFreezesOnEvidence'
  BY <1>1 DEF receiver, ReceiverTrust, ReceiverFreezesOnEvidence, IsCanonicalState,
              IsBlamed, current_period
<1>3. KeysLeakInTime' /\ \A m \in sent' : IsSafeMessage(m, time')
  <2>1. ASSUME NEW c \in ClientIds, CallAndSend(c)
        PROVE  KeysLeakInTime' /\ \A m \in sent' : IsSafeMessage(m, time')
    <3>1. IsSafeMessage(message', time) /\ UNCHANGED corrupt
      BY <2>1, SentMessagesAreSafe, CallReturnsMessage DEF CallAndSend, RelayTypeOK
    <3>2. sent' = sent \cup {message'} /\ UNCHANGED time
      BY <2>1 DEF CallAndSend, TakeMessage
    <3> QED
      BY <3>1, <3>2 DEF KeysLeakInTime
  <2>2. ASSUME NEW m \in sent, Lose(m)
        PROVE  KeysLeakInTime' /\ \A n \in sent' : IsSafeMessage(n, time')
    BY <2>2 DEF Lose, KeysLeakInTime
  <2>3. CASE TimePasses
    <3>1. time' = time + 1 /\ UNCHANGED <<sent, corrupt>>
      BY <2>3 DEF TimePasses
    <3>2. \A slot \in Slots : compute_timestamp_at_slot(slot) \in Nat
      BY SlotAssumption DEF Slots, compute_timestamp_at_slot
    <3>3. KeysLeakInTime'
      BY <3>1, <3>2, SlotAssumption DEF KeysLeakInTime, MayBeCorrupted, RelayTypeOK
    <3> QED
      BY <3>1, <3>3, SafeMessagesStaySafe
  <2>4. ASSUME NEW period \in CommitteePeriods, LeakKeys(period)
        PROVE  KeysLeakInTime' /\ \A m \in sent' : IsSafeMessage(m, time')
    BY <2>4 DEF LeakKeys, KeysLeakInTime
  <2>5. CASE UNCHANGED relay_vars
    BY <2>5 DEF relay_vars, KeysLeakInTime
  <2> QED
    BY <2>1, <2>2, <2>3, <2>4, <2>5
<1> QED
  BY <1>2, <1>3

\* The steps of the receiver.
LEMMA ReceiverKeepsTrust ==
    ASSUME RelayTrust, RelayTypeOK', NEW c \in ClientIds, NEW m \in sent, Receive(c, m)
    PROVE  RelayTrust'
<1> USE DEF RelayTrust
<1>1. CASE ReceiveCreation(c, m)
  <2>1. IsTrustworthy(m.post_height, m.post_state_id.consensus_state)
    BY <1>1 DEF ReceiveCreation, IsCreation, IsSafeMessage, IsSafeUpdate
  <2> QED
    BY <1>1, <2>1, TrustedHold, UpdateMessageFields DEF ReceiveCreation, IsCreation
<1>2. CASE ReceiveUpdate(c, m)
  <2>1. IsTrustworthy(m.prev_height, m.prev_state_id.consensus_state)
    BY <1>2 DEF ReceiveUpdate, Holds, ReceiverTrust, IsTrustworthy
  <2>2. IsFresh(m.context, time)
    BY <1>2 DEF ReceiveUpdate, IsValidContext, IsFresh
  <2>3. IsTrustworthy(m.post_height, m.post_state_id.consensus_state)
    BY <1>2, <2>1, <2>2 DEF ReceiveUpdate, IsSafeMessage, IsSafeUpdate
  <2> QED
    BY <1>2, <2>3, TrustedHold, UpdateMessageFields DEF ReceiveUpdate
<1>3. CASE ReceiveMisbehaviour(c, m)
  <2>1. PICK prev \in m.prev_states :
          \/ ~IsTrustworthy(prev[1], prev[2].consensus_state)
          \/ IsBlamed(prev[2].consensus_state)
    BY <1>3 DEF ReceiveMisbehaviour, IsValidContext, IsFresh, IsSafeMessage, IsSafeEvidence
  <2>2. prev[1] \in DOMAIN held[c] /\ IsBlamed(held[c][prev[1]].consensus_state)
    BY <1>3, <2>1 DEF ReceiveMisbehaviour, Holds, ReceiverTrust, IsTrustworthy
  <2>3. /\ UNCHANGED <<sent, corrupt, time, held>>
        /\ held_frozen' = [held_frozen EXCEPT ![c] = TRUE]
    BY <1>3 DEF ReceiveMisbehaviour
  <2>4. ReceiverFreezesOnEvidence'
    BY <2>2, <2>3
       DEF ReceiverFreezesOnEvidence, RelayTypeOK, IsBlamed, current_period
  <2>5. ReceiverTrust'
    BY <2>3 DEF ReceiverTrust, IsCanonicalState, IsBlamed, current_period
  <2> QED
    BY <2>3, <2>4, <2>5 DEF KeysLeakInTime
<1> QED
  BY <1>1, <1>2, <1>3 DEF Receive

\* RelayTrust holds in every reachable state.
LEMMA RelayTrustHolds ==
    ASSUME "storage_root" \notin Omissions
    PROVE  RelaySpec => []RelayTrust
<1>1. RelayInit /\ RelayTypeOK => RelayTrust
  BY DEF RelayInit, Init, RelayTrust, KeysLeakInTime, ReceiverTrust,
         ReceiverFreezesOnEvidence
<1>2. RelayTrust /\ RelayTypeOK' /\ [RelayNext]_relay_vars => RelayTrust'
  BY SenderKeepsTrust, ReceiverKeepsTrust DEF RelayNext
<1> QED
  BY <1>1, <1>2, RelayTypeCorrect, PTL DEF RelaySpec

\* See ReceiverTrust: a right clock on the receiver's side is enough
\* (client.rs 204-217).
THEOREM ReceiverHoldsCanonicalStates ==
    ASSUME "storage_root" \notin Omissions
    PROVE  RelaySpec => []ReceiverTrust
BY RelayTrustHolds, PTL DEF RelayTrust

\* See ReceiverFreezesOnEvidence: made-up evidence never freezes the receiver
\* (client.rs 250-265).
THEOREM ReceiverFreezesAreJustified ==
    ASSUME "storage_root" \notin Omissions
    PROVE  RelaySpec => []ReceiverFreezesOnEvidence
BY RelayTrustHolds, PTL DEF RelayTrust

\* See ProofsReflectChain: a membership message is true of the state id that it
\* names, and the state ids held are canonical (client.rs 118-126).
THEOREM ProofsAreTrue ==
    ASSUME "storage_root" \notin Omissions
    PROVE  RelaySpec => []ProofsReflectChain
<1>1. ASSUME RelayTrust, NEW c \in ClientIds, NEW m \in sent, IsProof(c, m)
      PROVE  \/ \E block \in CanonicalBlocks :
                   /\ HeightOf(block) = m.height
                   /\ m.value = IF HasCommitment(StorageRootAt(block))
                                  THEN "present" ELSE "absent"
             \/ IsBlamed(held[c][m.height].consensus_state)
  <2> DEFINE cs    == held[c][m.height].consensus_state
             block == [branch |-> Canonical, slot |-> cs.slot]
  <2>1. /\ m.height \in DOMAIN held[c]
        /\ m.value = IF HasCommitment(cs.storage_root) THEN "present" ELSE "absent"
    BY <1>1 DEF RelayTrust, IsProof, Holds, IsSafeMessage, IsTrueProof
  <2>2. CASE IsCanonicalState(m.height, cs)
    <3>1. block \in CanonicalBlocks
      BY <2>2, BranchAssumption DEF IsCanonicalState, CanonicalBlocks
    <3>2. cs.storage_root = StorageRootAt(block) /\ HeightOf(block) = m.height
      <4>1. StateAt(block).storage_root = StorageRootAt(block)
        BY DEF StateAt
      <4> QED
        BY <2>2, <4>1 DEF IsCanonicalState
    <3> QED
      BY <2>1, <3>1, <3>2
  <2> QED
    BY <1>1, <2>1, <2>2 DEF RelayTrust, ReceiverTrust
<1>2. RelayTrust => ProofsReflectChain
  BY <1>1 DEF ProofsReflectChain
<1> QED
  BY <1>2, RelayTrustHolds, PTL
-----------------------------------------------------------------------------
(* The receiver as a VerifiedChain *)

\* The promise speaks of the same blocks.
LEMMA ReceiverSameChain ==
    ASSUME NEW block
    PROVE  /\ ReceiverPromise!NumberOf(block) = HeightOf(block)
           /\ ReceiverPromise!FactsOf(block) =
                [storage_root |-> StorageRootAt(block),
                 timestamp    |-> compute_timestamp_at_slot(ExecutionSlot(block))]
<1>1. ReceiverPromise!ProvablePayloads(block) = ProvablePayloads(block)
  BY DEF ReceiverPromise!ProvablePayloads, ProvablePayloads
<1>2. ReceiverPromise!ExecutionSlot(block) = ExecutionSlot(block)
  BY <1>1 DEF ReceiverPromise!ExecutionSlot, ExecutionSlot, ReceiverPromise!Max, Max
<1>3. ReceiverPromise!NumberOf(block) = HeightOf(block)
  BY <1>1 DEF ReceiverPromise!NumberOf, HeightOf, ReceiverPromise!ExecutionUpdateOf,
             ExecutionUpdateOf, ReceiverPromise!Cardinality, Cardinality
<1>4. ReceiverPromise!StorageRootAt(block) = StorageRootAt(block)
  BY <1>2 DEF ReceiverPromise!StorageRootAt, StorageRootAt, ReceiverPromise!RootAt, RootAt
<1>5. ReceiverPromise!compute_timestamp_at_slot(ReceiverPromise!ExecutionSlot(block))
        = compute_timestamp_at_slot(ExecutionSlot(block))
  BY <1>2 DEF ReceiverPromise!compute_timestamp_at_slot, compute_timestamp_at_slot
<1> QED
  BY <1>3, <1>4, <1>5 DEF ReceiverPromise!FactsOf

\* Every set of heights that the receiver holds states of has a greatest one.
HeldHeightsHaveGreatest ==
    \A c \in ClientIds : DOMAIN held[c] # {} =>
        \E g \in DOMAIN held[c] : \A h \in DOMAIN held[c] : g >= h

LEMMA GreatestOf ==
    ASSUME NEW S \in SUBSET Nat, NEW g \in S, \A h \in S : g >= h
    PROVE  Max(S) = g
<1>1. \E x \in S : \A y \in S : x >= y
  OBVIOUS
<1>2. Max(S) \in S /\ \A h \in S : Max(S) >= h
  BY <1>1 DEF Max
<1>3. Max(S) >= g /\ g >= Max(S) /\ Max(S) \in Nat /\ g \in Nat
  BY <1>2
<1> QED
  BY <1>3

\* Holding a canonical state under its height is learning its block, whether or
\* not the receiver held another state of the height before.
LEMMA HoldingIsLearning ==
    ASSUME RelayTypeOK, ReceiverTrust, FaultyPeriods = {}, HeldHeightsHaveGreatest,
           NEW c \in ClientIds, NEW height \in Nat, NEW id \in StateId,
           IsCanonicalState(height, id.consensus_state), Hold(c, height, id)
    PROVE  /\ \E block \in ReceiverPromise!Finalized : ReceiverPromise!Learn(c, block)
           /\ HeldHeightsHaveGreatest'
<1> DEFINE new   == id.consensus_state
           block == [branch |-> Canonical, slot |-> new.slot]
           facts == ReceiverPromise!FactsOf(block)
<1>1. /\ block \in ReceiverPromise!Finalized
      /\ new = StateAt(block)
      /\ height = ReceiverPromise!NumberOf(block)
  BY BranchAssumption, ReceiverSameChain
     DEF IsCanonicalState, ReceiverPromise!Finalized, ReceiverPromise!Slots, Slots
<1>2. HeldFacts(new) = facts
  <2>1. /\ StateAt(block).storage_root = StorageRootAt(block)
        /\ StateAt(block).timestamp = compute_timestamp_at_slot(ExecutionSlot(block))
    BY DEF StateAt
  <2> QED
    BY <1>1, <2>1, ReceiverSameChain DEF HeldFacts
<1>3. ASSUME height \in DOMAIN held[c]
      PROVE  HeldFacts(held[c][height].consensus_state) = HeldFacts(new)
  <2>1. IsCanonicalState(height, held[c][height].consensus_state)
    BY <1>3 DEF ReceiverTrust, IsBlamed
  <2> QED
    BY <2>1, OneExecutionBlockPerHeight DEF HeldFacts
<1>4. /\ DOMAIN held'[c] = DOMAIN held[c] \cup {height}
      /\ \A h \in DOMAIN held'[c] :
           held'[c][h] = IF h = height THEN id ELSE held[c][h]
      /\ \A d \in ClientIds \ {c} : held'[d] = held[d]
  BY HoldEffect
<1> HIDE DEF facts, block
<1>5. HeldVerified' = [HeldVerified EXCEPT ![c] =
                     [h \in DOMAIN HeldVerified[c] \cup {height} |->
                        IF h \in DOMAIN HeldVerified[c] THEN HeldVerified[c][h] ELSE facts]]
  <2>1. \A h \in DOMAIN held[c] \cup {height} :
          HeldFacts(held'[c][h].consensus_state) =
            IF h \in DOMAIN held[c] THEN HeldFacts(held[c][h].consensus_state) ELSE facts
    BY <1>2, <1>3, <1>4
  <2>2. DOMAIN HeldVerified[c] = DOMAIN held[c]
        /\ \A h \in DOMAIN held[c] :
             HeldVerified[c][h] = HeldFacts(held[c][h].consensus_state)
    BY DEF HeldVerified
  <2>3. HeldVerified'[c] = [h \in DOMAIN HeldVerified[c] \cup {height} |->
                              IF h \in DOMAIN HeldVerified[c] THEN HeldVerified[c][h]
                                                             ELSE facts]
    BY <1>4, <2>1, <2>2 DEF HeldVerified
  <2>4. \A d \in ClientIds \ {c} : HeldVerified'[d] = HeldVerified[d]
    BY <1>4 DEF HeldVerified
  <2>5. HeldVerified \in [ClientIds -> {HeldVerified[d] : d \in ClientIds}]
        /\ HeldVerified' \in [ClientIds -> {HeldVerified'[d] : d \in ClientIds}]
    BY DEF HeldVerified
  <2> QED
    BY <2>3, <2>4, <2>5
<1>6. /\ HeldHeightsHaveGreatest'
      /\ HeldLatest' = [HeldLatest EXCEPT ![c] =
                          IF HeldLatest[c] = None \/ HeldLatest[c] < height
                            THEN height ELSE HeldLatest[c]]
  <2>1. DOMAIN held[c] \in SUBSET Nat /\ DOMAIN held'[c] \in SUBSET Nat
    BY <1>4 DEF RelayTypeOK
  <2>2. CASE DOMAIN held[c] = {}
    <3>1. DOMAIN held'[c] = {height}
      BY <1>4, <2>2
    <3>2. Max(DOMAIN held'[c]) = height
      BY <2>1, <3>1, GreatestOf
    <3>3. HeldHeightsHaveGreatest'
      BY <1>4, <3>1 DEF HeldHeightsHaveGreatest
    <3>4. HeldLatest[c] = None /\ HeldLatest'[c] = height
      BY <2>2, <3>1, <3>2 DEF HeldLatest
    <3>5. \A d \in ClientIds \ {c} : HeldLatest'[d] = HeldLatest[d]
      BY <1>4 DEF HeldLatest
    <3> QED
      BY <3>3, <3>4, <3>5 DEF HeldLatest
  <2>3. CASE DOMAIN held[c] # {}
    <3>1. PICK g \in DOMAIN held[c] : \A h \in DOMAIN held[c] : g >= h
      BY <2>3 DEF HeldHeightsHaveGreatest
    <3> DEFINE greatest == IF g < height THEN height ELSE g
    <3>2. /\ greatest \in DOMAIN held'[c]
          /\ \A h \in DOMAIN held'[c] : greatest >= h
      BY <1>4, <2>1, <3>1
    <3>3. Max(DOMAIN held[c]) = g /\ Max(DOMAIN held'[c]) = greatest
      BY <2>1, <3>1, <3>2, GreatestOf
    <3>4. HeldLatest[c] = g /\ HeldLatest'[c] = greatest /\ g # None
      BY <2>1, <2>3, <3>1, <3>2, <3>3, ParamsAssumption DEF HeldLatest
    <3>5. HeldHeightsHaveGreatest'
      BY <1>4, <3>2 DEF HeldHeightsHaveGreatest
    <3>6. \A d \in ClientIds \ {c} : HeldLatest'[d] = HeldLatest[d]
      BY <1>4 DEF HeldLatest
    <3> QED
      BY <3>4, <3>5, <3>6 DEF HeldLatest
  <2> QED
    BY <2>2, <2>3
<1> QED
  BY <1>1, <1>5, <1>6 DEF ReceiverPromise!Learn, facts

\* A state that the receiver comes to hold is canonical.
LEMMA ReceivedStatesAreLearnt ==
    ASSUME RelayTrust, RelayTrust', FaultyPeriods = {}, HeldHeightsHaveGreatest,
           NEW c \in ClientIds, NEW m \in sent, ReceiveCreation(c, m) \/ ReceiveUpdate(c, m)
    PROVE  ReceiverPromise!Next /\ HeldHeightsHaveGreatest'
<1> USE DEF RelayTrust
<1> DEFINE id == m.post_state_id
<1>1. m.post_height \in Nat /\ id \in StateId /\ Hold(c, m.post_height, id)
  BY UpdateMessageFields DEF ReceiveCreation, ReceiveUpdate, IsCreation
<1>2. m.post_height \in DOMAIN held'[c] /\ held'[c][m.post_height] = id
  BY <1>1, HoldEffect
<1>3. IsCanonicalState(m.post_height, id.consensus_state)
  BY <1>2 DEF ReceiverTrust, IsBlamed, IsCanonicalState
<1> QED
  BY <1>1, <1>3, HoldingIsLearning DEF ReceiverPromise!Next

\* See ReceiverKeepsPromise: the receiver is a light client of the canonical
\* chain even where the client it listens to is not (client.rs 198-217).
THEOREM ReceiverIsALightClient ==
    ASSUME FaultyPeriods = {}, "storage_root" \notin Omissions
    PROVE  RelaySpec => ReceiverKeepsPromise
<1>1. RelayInit => ReceiverPromise!Init /\ HeldHeightsHaveGreatest
  BY DEF RelayInit, ReceiverPromise!Init, HeldVerified, HeldLatest, HeldHeightsHaveGreatest
<1>2. ASSUME RelayTrust, RelayTrust', HeldHeightsHaveGreatest, [RelayNext]_relay_vars
      PROVE  /\ [ReceiverPromise!Next]_<<HeldVerified, HeldLatest>>
             /\ HeldHeightsHaveGreatest'
  <2>1. ASSUME NEW c \in ClientIds, NEW m \in sent,
               ReceiveCreation(c, m) \/ ReceiveUpdate(c, m)
        PROVE  ReceiverPromise!Next /\ HeldHeightsHaveGreatest'
    BY <1>2, <2>1, ReceivedStatesAreLearnt
  <2>2. ASSUME UNCHANGED held
        PROVE  UNCHANGED <<HeldVerified, HeldLatest>> /\ HeldHeightsHaveGreatest'
    BY <1>2, <2>2 DEF HeldVerified, HeldLatest, HeldHeightsHaveGreatest
  <2>3. \/ UNCHANGED held
        \/ \E c \in ClientIds, m \in sent : ReceiveCreation(c, m) \/ ReceiveUpdate(c, m)
    BY <1>2 DEF RelayNext, Receive, ReceiveMisbehaviour, CallAndSend, TakeMessage, Lose,
                TimePasses, LeakKeys, relay_vars, receiver
  <2> QED
    BY <2>1, <2>2, <2>3
<1> QED
  BY <1>1, <1>2, RelayTrustHolds, PTL
     DEF RelaySpec, ReceiverKeepsPromise, ReceiverPromise!Spec
-----------------------------------------------------------------------------
(* How messages fit together *)

\* What is left of a client state in its state ids.
ClientPart(c) == canonicalize(client_states[c])

\* An update message is a function of the two states it leads between: nothing
\* in it depends on what else the client has learnt.
IsRegular(m) ==
    LET part == ClientPart(m.client_id)
        post == m.post_state_id.consensus_state
        prev == m.prev_state_id.consensus_state
    IN  /\ client_states[m.client_id] # None
        /\ m.type = "UpdateState" => m.post_state_id.client_state = part
        /\ m.type = "UpdateState" /\ ~IsCreation(m) =>
             m = [type           |-> "UpdateState",
                  client_id      |-> m.client_id,
                  prev_height    |-> m.prev_height,
                  prev_state_id  |-> [client_state |-> part, consensus_state |-> prev],
                  post_height    |-> m.post_height,
                  post_state_id  |-> [client_state |-> part, consensus_state |-> post],
                  emitted_states |-> {},
                  timestamp      |-> post.timestamp,
                  context        |-> TrustingPeriodContext(part,
                                       part.params.max_clock_drift,
                                       post.timestamp, prev.timestamp)]

StoredStateId(c, h) == gen_state_id(client_states[c], consensus_states[c][h])

StoredStatesAreAnnounced ==
    \A c \in ClientIds : \A h \in DOMAIN consensus_states[c] :
        \E m \in made : Announces(m, c, h, StoredStateId(c, h))

CreationsAreUnique ==
    \A m, n \in made : IsCreation(m) /\ IsCreation(n) /\ m.client_id = n.client_id => m = n

\* Whichever client's messages brought them, the state ids held are those of
\* announced states, and their client part is that of c.
HeldStatesAreAnnounced ==
    \A c \in ClientIds : \A h \in DOMAIN held[c] :
        /\ client_states[c] # None
        /\ held[c][h].client_state = ClientPart(c)
        /\ \E m \in made : /\ m.type = "UpdateState"
                           /\ m.post_height = h
                           /\ m.post_state_id = held[c][h]

CreationIsHeld ==
    \A c \in ClientIds : \A m \in made :
        IsCreation(m) /\ m.client_id = c /\ DOMAIN held[c] # {}
          => m.post_height \in DOMAIN held[c]

\* The inductive invariant.
Fit ==
    /\ RelayTypeOK
    /\ \A m \in made : IsRegular(m)
    /\ StoredStatesAreAnnounced
    /\ MessagesFitTogether
    /\ FreezeCanBeRelayed
    /\ CreationsAreUnique
    /\ HeldStatesAreAnnounced
    /\ CreationIsHeld

\* Messages are lost and had again, but one that was made stays one.
LEMMA MadeGrows ==
    ASSUME [RelayNext]_relay_vars
    PROVE  \/ \E c \in ClientIds : Call(c) /\ made' = made \cup {message'}
                                  /\ UNCHANGED receiver
           \/ made' = made /\ UNCHANGED store
<1>1. ASSUME NEW c \in ClientIds, CallAndSend(c)
      PROVE  Call(c) /\ made' = made \cup {message'} /\ UNCHANGED receiver
  BY <1>1 DEF CallAndSend, TakeMessage, made
<1>2. ASSUME NEW c \in ClientIds, NEW m \in sent, Receive(c, m)
      PROVE  made' = made /\ UNCHANGED store
  BY <1>2 DEF Receive, ReceiveCreation, ReceiveUpdate, ReceiveMisbehaviour, Hold, client,
              store, made
<1>3. ASSUME NEW m \in sent, Lose(m)
      PROVE  made' = made /\ UNCHANGED store
  BY <1>3 DEF Lose, client, store, made
<1>4. CASE TimePasses \/ \E period \in CommitteePeriods : LeakKeys(period)
  BY <1>4 DEF TimePasses, LeakKeys, client, store, made
<1>5. CASE UNCHANGED relay_vars
  BY <1>5 DEF relay_vars, client, store, made
<1> QED
  BY <1>1, <1>2, <1>3, <1>4, <1>5 DEF RelayNext

\* What a call that returns Ok makes of the client and says about it.
CallOutcome(c) ==
    /\ message'.client_id = c
    /\ client_states'[c] # None
    /\ \A d \in ClientIds \ {c} : /\ client_states'[d] = client_states[d]
                                  /\ consensus_states'[d] = consensus_states[d]
    /\ client_states[c] # None =>
         ClientPart(c)' = ClientPart(c) /\ ~is_frozen(client_states[c])
    /\ IsRegular(message)'
    /\ IsCreation(message') => client_states[c] = None
    /\ \A premise \in Premises(message') :
         \E h \in DOMAIN consensus_states[c] :
            /\ premise = <<h, StoredStateId(c, h)>>
            /\ message'.type = "UpdateState" =>
                 consensus_states[c][h].slot < message'.post_state_id.consensus_state.slot
    /\ \A h \in DOMAIN consensus_states'[c] :
         \/ /\ h \in DOMAIN consensus_states[c]
            /\ consensus_states'[c][h] = consensus_states[c][h]
         \/ Announces(message', c, h, StoredStateId(c, h)')
    /\ is_frozen(client_states'[c]) =>
         \E h \in Nat : /\ h = client_states'[c].frozen_height
                        /\ message'.type = "Misbehaviour"
                        /\ message'.prev_states = {<<h, StoredStateId(c, h)'>>}

\* Only the parameters are left of a client state.
LEMMA CanonicalClientStates ==
    ASSUME NEW cs \in ClientState, NEW new_cs \in ClientState, new_cs.params = cs.params
    PROVE  /\ canonicalize(cs).params = cs.params
           /\ canonicalize(new_cs) = canonicalize(cs)
<1>1. /\ canonicalize(cs) \in ClientState
      /\ canonicalize(cs).params = cs.params
      /\ canonicalize(cs).latest_execution_block_number = 0
      /\ canonicalize(cs).frozen_height = None
  BY DEF canonicalize, ClientState
<1>2. /\ canonicalize(new_cs) \in ClientState
      /\ canonicalize(new_cs).params = cs.params
      /\ canonicalize(new_cs).latest_execution_block_number = 0
      /\ canonicalize(new_cs).frozen_height = None
  BY DEF canonicalize, ClientState
<1> HIDE DEF canonicalize
<1>3. canonicalize(new_cs) = canonicalize(cs)
  BY <1>1, <1>2 DEF ClientState
<1> QED
  BY <1>1, <1>3

LEMMA CreationOutcome ==
    ASSUME TypeOK, NoClientNoStates, NEW c \in ClientIds, NEW params \in Params,
           NEW block \in CanonicalBlocks, NEW fault, CreateClient(c, params, block, fault)
    PROVE  CallOutcome(c)
<1> DEFINE cs == CreatedClientState(params, block, fault)
           consensus_state == CreatedConsensusState(block, fault)
           height == cs.latest_execution_block_number
<1>1. /\ client_states[c] = None
      /\ ~is_frozen(cs)
      /\ client_states' = [client_states EXCEPT ![c] = cs]
      /\ StoreConsensusState(c, height, consensus_state)
      /\ message' = CreateClientMessage(c, cs, consensus_state, cs)
  BY DEF CreateClient
<1>2. cs \in ClientState /\ cs # None
  BY CreatedStatesType, InputAssumption DEF CreateClient
<1> HIDE DEF cs, consensus_state
<1>3. /\ client_states'[c] = cs
      /\ \A d \in ClientIds \ {c} : client_states'[d] = client_states[d]
  BY <1>1 DEF TypeOK
<1>4. /\ DOMAIN consensus_states'[c] = {height}
      /\ consensus_states'[c][height] = consensus_state
      /\ \A d \in ClientIds \ {c} : consensus_states'[d] = consensus_states[d]
  <2>1. DOMAIN consensus_states[c] = {}
    BY <1>1 DEF NoClientNoStates
  <2> QED
    BY <1>1, <2>1, StoreEffect
<1>5. /\ message'.type = "UpdateState" /\ message'.client_id = c
      /\ IsCreation(message')
      /\ message'.post_height = height
      /\ message'.post_state_id = gen_state_id(cs, consensus_state)
  BY <1>1 DEF CreateClientMessage, IsCreation
<1>6. IsRegular(message)'
  BY <1>2, <1>3, <1>5 DEF IsRegular, ClientPart, gen_state_id
<1>7. Premises(message') = {}
  BY <1>5 DEF Premises
<1>8. \A h \in DOMAIN consensus_states'[c] : Announces(message', c, h, StoredStateId(c, h)')
  BY <1>3, <1>4, <1>5 DEF Announces, StoredStateId
<1> QED
  BY <1>1, <1>2, <1>3, <1>4, <1>5, <1>6, <1>7, <1>8 DEF CallOutcome

LEMMA UpdateOutcome ==
    ASSUME TypeOK, NEW c \in ClientIds, NEW header \in Headers, UpdateState(c, header)
    PROVE  CallOutcome(c)
<1> DEFINE trusted_height  == header.trusted.height
           height          == header.execution.block_number
           cs              == client_states[c]
           consensus_state == consensus_states[c][trusted_height]
           new_cs          == new_client_state(cs, header)
           new_state       == new_consensus_state(consensus_state, header)
<1>1. /\ cs # None /\ trusted_height \in DOMAIN consensus_states[c]
      /\ ~is_frozen(cs)
      /\ check_header(cs, consensus_state, header, now, corrupt)
      /\ client_states' = [client_states EXCEPT ![c] = new_cs]
      /\ StoreConsensusState(c, height, new_state)
      /\ message' = UpdateStateMessage(c, cs, consensus_state, header)
  BY DEF UpdateState, IsStored
<1>2. /\ cs \in ClientState /\ consensus_state \in ConsensusState
      /\ trusted_height \in Nat /\ header \in Header
  BY StoredStatesType, InputAssumption DEF UpdateState
<1>3. /\ new_cs \in ClientState /\ new_cs # None
      /\ canonicalize(new_cs) = canonicalize(cs)
      /\ ~is_frozen(new_cs)
  <2>1. header.execution.block_number \in Nat
    BY <1>2 DEF Header, ExecutionUpdate
  <2>2. /\ new_cs \in ClientState /\ new_cs.params = cs.params
        /\ new_cs.frozen_height = cs.frozen_height
    BY <1>2, <2>1 DEF new_client_state, ClientState
  <2> QED
    BY <1>1, <1>2, <2>2, CanonicalClientStates, InputAssumption DEF is_frozen
<1>4. consensus_state.slot < new_state.slot
  BY <1>1 DEF check_header, validate_updates, is_relevant_update, new_consensus_state
<1>5. /\ message'.type = "UpdateState" /\ message'.client_id = c
      /\ message'.prev_height = trusted_height
      /\ message'.prev_state_id = gen_state_id(cs, consensus_state)
      /\ message'.post_height = height
      /\ message'.post_state_id = gen_state_id(new_cs, new_state)
      /\ message' = [type           |-> "UpdateState",
                     client_id      |-> c,
                     prev_height    |-> trusted_height,
                     prev_state_id  |-> gen_state_id(cs, consensus_state),
                     post_height    |-> height,
                     post_state_id  |-> gen_state_id(new_cs, new_state),
                     emitted_states |-> {},
                     timestamp      |-> new_state.timestamp,
                     context        |-> TrustingPeriodContext(cs, cs.params.max_clock_drift,
                                          new_state.timestamp, consensus_state.timestamp)]
  BY <1>1 DEF UpdateStateMessage
<1>6. ~IsCreation(message')
  BY <1>2, <1>5, ParamsAssumption DEF IsCreation
<1> HIDE DEF trusted_height, height, consensus_state, new_cs, new_state
<1>7. /\ client_states'[c] = new_cs
      /\ \A d \in ClientIds \ {c} : client_states'[d] = client_states[d]
      /\ ClientPart(c)' = ClientPart(c)
  BY <1>1, <1>3 DEF TypeOK, ClientPart
<1>8. /\ DOMAIN consensus_states'[c] = DOMAIN consensus_states[c] \cup {height}
      /\ \A h \in DOMAIN consensus_states'[c] :
           consensus_states'[c][h] = IF h = height THEN new_state ELSE consensus_states[c][h]
      /\ \A d \in ClientIds \ {c} : consensus_states'[d] = consensus_states[d]
  BY <1>1, StoreEffect
<1>9. IsRegular(message)'
  <2>1. ClientPart(message.client_id)' = canonicalize(cs)
    BY <1>5, <1>7 DEF ClientPart
  <2>2. canonicalize(cs).params = cs.params
    BY <1>2, CanonicalClientStates
  <2>3. TrustingPeriodContext(cs, cs.params.max_clock_drift, new_state.timestamp,
                              consensus_state.timestamp)
        = TrustingPeriodContext(canonicalize(cs), canonicalize(cs).params.max_clock_drift,
                                new_state.timestamp, consensus_state.timestamp)
    BY <2>2 DEF TrustingPeriodContext
  <2> QED
    BY <1>3, <1>5, <1>7, <2>1, <2>3 DEF IsRegular, gen_state_id
<1>10. Premises(message') = {<<trusted_height, StoredStateId(c, trusted_height)>>}
  BY <1>5, <1>6 DEF Premises, StoredStateId, consensus_state
<1>11. message'.post_state_id.consensus_state = new_state
  BY <1>5 DEF gen_state_id
<1>12. \A h \in DOMAIN consensus_states'[c] :
         \/ h \in DOMAIN consensus_states[c]
            /\ consensus_states'[c][h] = consensus_states[c][h]
         \/ Announces(message', c, h, StoredStateId(c, h)')
  BY <1>5, <1>7, <1>8 DEF Announces, StoredStateId
<1>13. \A premise \in Premises(message') :
         \E h \in DOMAIN consensus_states[c] :
            /\ premise = <<h, StoredStateId(c, h)>>
            /\ consensus_states[c][h].slot < message'.post_state_id.consensus_state.slot
  BY <1>1, <1>4, <1>10, <1>11 DEF consensus_state
<1> QED
  BY <1>1, <1>3, <1>5, <1>6, <1>7, <1>8, <1>9, <1>12, <1>13 DEF CallOutcome

LEMMA MisbehaviourOutcome ==
    ASSUME TypeOK, NEW c \in ClientIds, NEW misbehaviour \in Misbehaviours,
           SubmitMisbehaviour(c, misbehaviour)
    PROVE  CallOutcome(c)
<1> DEFINE height          == misbehaviour.trusted.height
           cs              == client_states[c]
           consensus_state == consensus_states[c][height]
           new_cs          == with_frozen_height(cs, height)
           state_id        == gen_state_id(cs, consensus_state)
<1>1. /\ cs # None /\ height \in DOMAIN consensus_states[c]
      /\ ~is_frozen(cs)
      /\ client_states' = [client_states EXCEPT ![c] = new_cs]
      /\ UNCHANGED consensus_states
      /\ message' = MisbehaviourMessage(c, cs, consensus_state,
                        make_prev_states(c, cs, {height}), misbehaviour)
  BY DEF SubmitMisbehaviour, IsStored
<1>2. cs \in ClientState /\ height \in Nat
  BY StoredStatesType DEF SubmitMisbehaviour
<1>3. /\ new_cs \in ClientState /\ new_cs # None
      /\ new_cs.frozen_height = height
      /\ canonicalize(new_cs) = canonicalize(cs)
  <2>1. /\ new_cs \in ClientState /\ new_cs.params = cs.params
        /\ new_cs.frozen_height = height
    BY <1>2 DEF with_frozen_height, ClientState
  <2> QED
    BY <1>2, <2>1, CanonicalClientStates, InputAssumption
<1>4. /\ message'.type = "Misbehaviour" /\ message'.client_id = c
      /\ message'.prev_states = {<<height, state_id>>}
  BY <1>1 DEF MisbehaviourMessage, make_prev_states
<1> HIDE DEF new_cs, height
<1>5. /\ client_states'[c] = new_cs
      /\ \A d \in ClientIds \ {c} : client_states'[d] = client_states[d]
      /\ ClientPart(c)' = ClientPart(c)
  BY <1>1, <1>3 DEF TypeOK, ClientPart
<1>6. state_id = StoredStateId(c, height) /\ state_id = StoredStateId(c, height)'
  BY <1>1, <1>3, <1>5 DEF StoredStateId, gen_state_id
<1>7. ~IsCreation(message') /\ IsRegular(message)'
  BY <1>3, <1>4, <1>5 DEF IsCreation, IsRegular
<1>8. Premises(message') = {<<height, StoredStateId(c, height)>>}
  BY <1>4, <1>6, <1>7 DEF Premises
<1> HIDE DEF state_id
<1>9. \A h \in DOMAIN consensus_states'[c] :
        h \in DOMAIN consensus_states[c] /\ consensus_states'[c][h] = consensus_states[c][h]
  BY <1>1
<1>10. \A premise \in Premises(message') :
         \E h \in DOMAIN consensus_states[c] : premise = <<h, StoredStateId(c, h)>>
  BY <1>1, <1>8
<1>11. \E h \in Nat : /\ h = client_states'[c].frozen_height
                      /\ message'.prev_states = {<<h, StoredStateId(c, h)'>>}
  BY <1>2, <1>3, <1>4, <1>5, <1>6
<1>12. message'.type # "UpdateState"
  BY <1>4
<1> QED
  BY <1>1, <1>3, <1>4, <1>5, <1>7, <1>9, <1>10, <1>11, <1>12 DEF CallOutcome

LEMMA MembershipOutcome ==
    ASSUME TypeOK, NEW c \in ClientIds, NEW height \in DOMAIN consensus_states[c],
           VerifyMembership(c, height) \/ VerifyNonMembership(c, height)
    PROVE  CallOutcome(c)
<1>1. /\ client_states[c] # None /\ ~is_frozen(client_states[c])
      /\ UNCHANGED store
      /\ message'.type = "VerifyMembership" /\ message'.client_id = c
      /\ message'.height = height
      /\ message'.state_id = StoredStateId(c, height)
  BY DEF VerifyMembership, VerifyNonMembership, IsStored, MembershipMessage, StoredStateId
<1>2. ~IsCreation(message') /\ IsRegular(message)'
  BY <1>1 DEF IsCreation, IsRegular, store
<1>3. Premises(message') = {<<height, StoredStateId(c, height)>>}
  BY <1>1, <1>2 DEF Premises
<1>4. ClientPart(c)' = ClientPart(c) /\ ~is_frozen(client_states'[c])
  BY <1>1 DEF store, ClientPart
<1>5. \A premise \in Premises(message') :
        \E h \in DOMAIN consensus_states[c] : premise = <<h, StoredStateId(c, h)>>
  BY <1>3
<1>6. UNCHANGED <<client_states, consensus_states>> /\ message'.type # "UpdateState"
  BY <1>1 DEF store
<1> QED
  BY <1>1, <1>2, <1>4, <1>5, <1>6 DEF CallOutcome

LEMMA CallHasOutcome ==
    ASSUME TypeOK, NoClientNoStates, NEW c \in ClientIds, Call(c)
    PROVE  CallOutcome(c)
BY CreationOutcome, UpdateOutcome, MisbehaviourOutcome, MembershipOutcome DEF Call

\* Whose messages are regular and whose stored states are announced exists.
LEMMA FitClientsExist ==
    ASSUME Fit
    PROVE  NoClientNoStates
BY DEF Fit, IsRegular, StoredStatesAreAnnounced, Announces, NoClientNoStates

\* A step of the receiver or the environment leaves what was made together.
LEMMA FitWithoutCall ==
    ASSUME Fit, RelayTypeOK', made' = made, UNCHANGED store
    PROVE  /\ \A m \in made' : IsRegular(m)'
           /\ StoredStatesAreAnnounced'
           /\ MessagesFitTogether'
           /\ FreezeCanBeRelayed'
           /\ CreationsAreUnique'
<1>1. UNCHANGED <<client_states, consensus_states>>
  BY DEF store
<1>2. \A m \in made' : IsRegular(m)'
  BY <1>1 DEF Fit, IsRegular, ClientPart
<1>3. StoredStatesAreAnnounced'
  BY <1>1 DEF Fit, StoredStatesAreAnnounced, StoredStateId
<1>4. MessagesFitTogether' /\ CreationsAreUnique'
  BY DEF Fit, MessagesFitTogether, CreationsAreUnique
<1>5. FreezeCanBeRelayed'
  BY <1>1 DEF Fit, FreezeCanBeRelayed, IsClientFrozen
<1> QED
  BY <1>2, <1>3, <1>4, <1>5

\* What was made before a call stays as good as it was, and the message of the
\* call is tied to a state that was announced.
LEMMA FitAfterCall ==
    ASSUME Fit, RelayTypeOK', NEW c \in ClientIds, CallOutcome(c),
           made' = made \cup {message'}, UNCHANGED receiver
    PROVE  Fit'
<1> USE DEF Fit
<1>1. \A d \in ClientIds : client_states[d] # None =>
        client_states'[d] # None /\ ClientPart(d)' = ClientPart(d)
  BY DEF CallOutcome, ClientPart
<1>2. \A m \in made' : IsRegular(m)'
  <2>1. ASSUME NEW m \in made
        PROVE  IsRegular(m)'
    <3>1. m.client_id \in ClientIds
      BY DEF made, RelayTypeOK, UpdateStateProxyMessage, MisbehaviourProxyMessage,
             VerifyMembershipProxyMessage
    <3> QED
      BY <1>1, <3>1 DEF IsRegular
  <2>2. IsRegular(message)'
    BY DEF CallOutcome
  <2> QED
    BY <2>1, <2>2
<1>3. StoredStatesAreAnnounced'
  <2> SUFFICES ASSUME NEW d \in ClientIds, NEW h \in DOMAIN consensus_states'[d]
               PROVE  \E m \in made' : Announces(m, d, h, StoredStateId(d, h)')
    BY DEF StoredStatesAreAnnounced
  <2>1. CASE d = c /\ Announces(message', c, h, StoredStateId(c, h)')
    BY <2>1
  <2>2. CASE h \in DOMAIN consensus_states[d]
             /\ consensus_states'[d][h] = consensus_states[d][h]
    <3>1. PICK m \in made : Announces(m, d, h, StoredStateId(d, h))
      BY <2>2 DEF StoredStatesAreAnnounced
    <3>2. client_states[d] # None
      BY <3>1 DEF Announces, IsRegular
    <3>3. StoredStateId(d, h)' = StoredStateId(d, h)
      BY <1>1, <2>2, <3>2 DEF StoredStateId, gen_state_id, ClientPart
    <3> QED
      BY <3>1, <3>3
  <2> QED
    BY <2>1, <2>2 DEF CallOutcome
<1>4. MessagesFitTogether'
  <2> SUFFICES ASSUME NEW m \in made', NEW premise \in Premises(m)
               PROVE  \E n \in made' :
                        /\ Announces(n, m.client_id, premise[1], premise[2])
                        /\ m.type = "UpdateState" =>
                             n.post_state_id.consensus_state.slot
                               < m.post_state_id.consensus_state.slot
    BY DEF MessagesFitTogether
  <2>1. CASE m \in made
    BY <2>1 DEF MessagesFitTogether
  <2>2. CASE m = message'
    <3>1. PICK h \in DOMAIN consensus_states[c] :
            /\ premise = <<h, StoredStateId(c, h)>>
            /\ m.type = "UpdateState" =>
                 consensus_states[c][h].slot < m.post_state_id.consensus_state.slot
      BY <2>2 DEF CallOutcome
    <3>2. PICK n \in made : Announces(n, c, h, StoredStateId(c, h))
      BY DEF StoredStatesAreAnnounced
    <3>3. n.post_state_id.consensus_state = consensus_states[c][h]
      BY <3>2 DEF Announces, StoredStateId, gen_state_id
    <3>4. m.client_id = c /\ premise[1] = h /\ premise[2] = StoredStateId(c, h)
      BY <2>2, <3>1 DEF CallOutcome
    <3> QED
      BY <3>1, <3>2, <3>3, <3>4
  <2> QED
    BY <2>1, <2>2
<1>5. FreezeCanBeRelayed'
  <2> SUFFICES ASSUME NEW d \in ClientIds, IsClientFrozen(d)'
               PROVE  \E m \in made' :
                        /\ m.type = "Misbehaviour"
                        /\ m.client_id = d
                        /\ m.prev_states =
                             {<<client_states'[d].frozen_height,
                                gen_state_id(client_states'[d],
                                  consensus_states'[d][client_states'[d].frozen_height])>>}
    BY DEF FreezeCanBeRelayed
  <2>1. CASE d = c
    BY <2>1 DEF CallOutcome, IsClientFrozen, StoredStateId
  <2>2. CASE d # c
    <3>1. client_states'[d] = client_states[d] /\ consensus_states'[d] = consensus_states[d]
      BY <2>2 DEF CallOutcome
    <3>2. IsClientFrozen(d)
      BY <3>1 DEF IsClientFrozen
    <3> QED
      BY <3>1, <3>2 DEF FreezeCanBeRelayed
  <2> QED
    BY <2>1, <2>2
<1>6. CreationsAreUnique'
  <2>1. ASSUME IsCreation(message'), NEW m \in made, IsCreation(m), m.client_id = c
        PROVE  FALSE
    BY <2>1 DEF CallOutcome, IsRegular
  <2> QED
    BY <2>1 DEF CreationsAreUnique, CallOutcome
<1>7. HeldStatesAreAnnounced'
  BY <1>1 DEF HeldStatesAreAnnounced, receiver
<1>8. CreationIsHeld'
  BY DEF CreationIsHeld, HeldStatesAreAnnounced, receiver, CallOutcome
<1> QED
  BY <1>2, <1>3, <1>4, <1>5, <1>6, <1>7, <1>8

\* What the receiver comes to hold was announced for its client's parameters.
LEMMA FitAfterReceiving ==
    ASSUME Fit, NEW c \in ClientIds, NEW m \in sent,
           ReceiveCreation(c, m) \/ ReceiveUpdate(c, m)
    PROVE  HeldStatesAreAnnounced' /\ CreationIsHeld'
<1> USE DEF Fit
<1>1. /\ m \in made /\ m.type = "UpdateState"
      /\ Hold(c, m.post_height, m.post_state_id)
  BY DEF made, ReceiveCreation, ReceiveUpdate, IsCreation
<1>2. m.post_height \in Nat /\ m.post_state_id \in StateId
  BY <1>1, UpdateMessageFields
<1>3. /\ DOMAIN held'[c] = DOMAIN held[c] \cup {m.post_height}
      /\ \A h \in DOMAIN held'[c] :
           held'[c][h] = IF h = m.post_height THEN m.post_state_id ELSE held[c][h]
      /\ \A d \in ClientIds \ {c} : held'[d] = held[d]
  BY <1>1, <1>2, HoldEffect
<1>4. made' = made /\ UNCHANGED client_states
  BY <1>1 DEF Hold, client, made
<1>5. client_states[c] # None /\ m.post_state_id.client_state = ClientPart(c)
  <2>1. CASE ReceiveCreation(c, m)
    BY <1>1, <2>1 DEF ReceiveCreation, IsRegular
  <2>2. CASE ReceiveUpdate(c, m)
    <3>1. /\ client_states[c] # None
          /\ m.prev_state_id.client_state = ClientPart(c)
      BY <2>2 DEF ReceiveUpdate, Holds, HeldStatesAreAnnounced
    <3>2. m.prev_state_id.client_state = m.post_state_id.client_state
      <4>1. IsRegular(m) /\ ~IsCreation(m)
        BY <1>1, <2>2 DEF ReceiveUpdate
      <4>2. m.prev_state_id.client_state = ClientPart(m.client_id)
        BY <1>1, <4>1 DEF IsRegular
      <4> QED
        BY <1>1, <4>1, <4>2 DEF IsRegular
    <3> QED
      BY <3>1, <3>2
  <2> QED
    BY <2>1, <2>2
<1>6. HeldStatesAreAnnounced'
  BY <1>1, <1>3, <1>4, <1>5 DEF HeldStatesAreAnnounced, ClientPart
<1>7. CreationIsHeld'
  <2> SUFFICES ASSUME NEW d \in ClientIds, NEW n \in made, IsCreation(n), n.client_id = d,
                      DOMAIN held'[d] # {}
               PROVE  n.post_height \in DOMAIN held'[d]
    BY <1>4 DEF CreationIsHeld
  <2>1. CASE DOMAIN held[d] # {}
    BY <1>3, <2>1 DEF CreationIsHeld
  <2>2. CASE DOMAIN held[d] = {}
    <3>1. d = c /\ ReceiveCreation(c, m)
      BY <1>3, <2>2 DEF ReceiveUpdate, Holds
    <3>2. n = m
      BY <1>1, <3>1 DEF CreationsAreUnique, ReceiveCreation
    <3> QED
      BY <1>3, <3>1, <3>2
  <2> QED
    BY <2>1, <2>2
<1> QED
  BY <1>6, <1>7

LEMMA FitInductive ==
    ASSUME Fit, RelayTypeOK', [RelayNext]_relay_vars
    PROVE  Fit'
<1>1. ASSUME NEW c \in ClientIds, Call(c), made' = made \cup {message'}, UNCHANGED receiver
      PROVE  Fit'
  <2>1. CallOutcome(c)
    BY <1>1, FitClientsExist, CallHasOutcome DEF Fit, RelayTypeOK
  <2> QED
    BY <1>1, <2>1, FitAfterCall
<1>2. CASE made' = made /\ UNCHANGED store
  <2>1. HeldStatesAreAnnounced' /\ CreationIsHeld'
    <3>1. ASSUME NEW c \in ClientIds, NEW m \in sent,
                 ReceiveCreation(c, m) \/ ReceiveUpdate(c, m)
          PROVE  HeldStatesAreAnnounced' /\ CreationIsHeld'
      BY <3>1, FitAfterReceiving
    <3>2. ASSUME UNCHANGED held
          PROVE  HeldStatesAreAnnounced' /\ CreationIsHeld'
      BY <1>2, <3>2 DEF Fit, HeldStatesAreAnnounced, CreationIsHeld, store, ClientPart
    <3>3. \/ UNCHANGED held
          \/ \E c \in ClientIds, m \in sent : ReceiveCreation(c, m) \/ ReceiveUpdate(c, m)
      BY DEF RelayNext, Receive, ReceiveMisbehaviour, CallAndSend, TakeMessage, Lose,
             TimePasses, LeakKeys, relay_vars, receiver
    <3> QED
      BY <3>1, <3>2, <3>3
  <2> QED
    BY <1>2, <2>1, FitWithoutCall DEF Fit
<1> QED
  BY <1>1, <1>2, MadeGrows

LEMMA FitHolds == RelaySpec => []Fit
<1>1. RelayInit /\ RelayTypeOK => Fit
  <2> SUFFICES ASSUME RelayInit, RelayTypeOK
               PROVE  Fit
    OBVIOUS
  <2>1. made = {} /\ \A c \in ClientIds : client_states[c] = None
    BY DEF RelayInit, Init, made
  <2>2. \A c \in ClientIds : DOMAIN consensus_states[c] = {} /\ DOMAIN held[c] = {}
    BY DEF RelayInit, Init
  <2> QED
    BY <2>1, <2>2
       DEF Fit, StoredStatesAreAnnounced, MessagesFitTogether, FreezeCanBeRelayed,
           IsClientFrozen, CreationsAreUnique, HeldStatesAreAnnounced, CreationIsHeld
<1>2. Fit /\ RelayTypeOK' /\ [RelayNext]_relay_vars => Fit'
  BY FitInductive
<1> QED
  BY <1>1, <1>2, RelayTypeCorrect, PTL DEF RelaySpec

\* See MessagesFitTogether: following messages back ends at the creation
\* (client.rs 204-207, state.rs 8-15).
THEOREM MessagesFit == RelaySpec => []MessagesFitTogether
BY FitHolds, PTL DEF Fit

\* See FreezeCanBeRelayed: a frozen client's evidence names the state id of what
\* it has at its frozen height (client.rs 245-265).
THEOREM FreezesAreAnnounced == RelaySpec => []FreezeCanBeRelayed
BY FitHolds, PTL DEF Fit

\* An update message starts where an earlier state of the client's was announced.
LEMMA UpdateFollowsUpdate ==
    ASSUME Fit, NEW m \in made, m.type = "UpdateState", ~IsCreation(m)
    PROVE  \E n \in made :
              /\ Announces(n, m.client_id, m.prev_height, m.prev_state_id)
              /\ n.post_state_id.consensus_state.slot < m.post_state_id.consensus_state.slot
<1>1. Premises(m) = {<<m.prev_height, m.prev_state_id>>}
  BY DEF Premises
<1>2. PICK n \in made :
        /\ Announces(n, m.client_id, m.prev_height, m.prev_state_id)
        /\ n.post_state_id.consensus_state.slot < m.post_state_id.consensus_state.slot
  <2>1. <<m.prev_height, m.prev_state_id>> \in Premises(m)
    BY <1>1
  <2> QED
    BY <2>1 DEF Fit, MessagesFitTogether
<1> QED
  BY <1>2

\* The slots of canonical states can be compared.
LEMMA CanonicalSlot ==
    ASSUME NEW h, NEW cs, IsCanonicalState(h, cs)
    PROVE  cs.slot \in Nat
BY BranchAssumption DEF IsCanonicalState, Slots

\* See StateIdsAgree: before Gloas a state id says nothing that the two sides
\* could disagree on (client.rs 118-126, client_state.rs 103-108, state.rs 8-15).
THEOREM ReceiverAgreesOnStateIds == RelaySpec => []StateIdsAgree
<1>1. ASSUME Fit
      PROVE  StateIdsAgree
  <2> SUFFICES ASSUME NEW c \in ClientIds,
                      NEW h \in DOMAIN consensus_states[c] \cap DOMAIN held[c],
                      IsCanonicalState(h, consensus_states[c][h]),
                      IsCanonicalState(h, held[c][h].consensus_state),
                      consensus_states[c][h].slot < GloasSlot,
                      held[c][h].consensus_state.slot < GloasSlot
               PROVE  held[c][h] = gen_state_id(client_states[c], consensus_states[c][h])
    BY DEF StateIdsAgree
  <2>1. held[c][h] \in StateId
    BY <1>1 DEF Fit, RelayTypeOK
  <2>2. held[c][h].client_state = canonicalize(client_states[c])
    BY <1>1 DEF Fit, HeldStatesAreAnnounced, ClientPart
  <2>3. held[c][h].consensus_state = consensus_states[c][h]
    BY OneExecutionBlockPerHeight
  <2> QED
    BY <2>1, <2>2, <2>3 DEF StateId, gen_state_id
<1> QED
  BY <1>1, FitHolds, PTL

\* See RetriesRepeat: nothing in an update message depends on when its header is
\* submitted (client.rs 198-217, client_state.rs 103-108).
THEOREM RetriesGetTheSameMessage == RelaySpec => []RetriesRepeat
<1>1. ASSUME Fit
      PROVE  RetriesRepeat
  <2> SUFFICES ASSUME NEW m \in made, NEW n \in made,
                      m.type = "UpdateState", ~IsCreation(m),
                      n.type = "UpdateState", ~IsCreation(n),
                      m.client_id = n.client_id,
                      m.prev_height = n.prev_height, m.post_height = n.post_height,
                      \A x \in {m, n} :
                        /\ IsCanonicalState(x.prev_height, x.prev_state_id.consensus_state)
                        /\ IsCanonicalState(x.post_height, x.post_state_id.consensus_state)
                        /\ x.post_state_id.consensus_state.slot < GloasSlot
               PROVE  m = n
    BY DEF RetriesRepeat
  <2>1. m.post_state_id.consensus_state = n.post_state_id.consensus_state
    BY OneExecutionBlockPerHeight
  <2>2. ASSUME NEW x \in {m, n}
        PROVE  x.prev_state_id.consensus_state.slot < GloasSlot
    <3>1. PICK y \in made :
            /\ Announces(y, x.client_id, x.prev_height, x.prev_state_id)
            /\ y.post_state_id.consensus_state.slot < x.post_state_id.consensus_state.slot
      BY <1>1, UpdateFollowsUpdate
    <3>2. /\ x.prev_state_id.consensus_state.slot
               < x.post_state_id.consensus_state.slot
          /\ x.prev_state_id.consensus_state.slot \in Nat
          /\ x.post_state_id.consensus_state.slot \in Nat
      BY <3>1, CanonicalSlot DEF Announces
    <3>3. x.post_state_id.consensus_state.slot < GloasSlot
      OBVIOUS
    <3> QED
      BY <3>2, <3>3, SlotAssumption
  <2>3. m.prev_state_id.consensus_state = n.prev_state_id.consensus_state
    BY <2>2, OneExecutionBlockPerHeight
  <2>4. IsRegular(m) /\ IsRegular(n)
    BY <1>1 DEF Fit
  <2> QED
    BY <2>1, <2>3, <2>4, Zenon DEF IsRegular
<1> QED
  BY <1>1, FitHolds, PTL

\* A message of the least slot among those for heights that the receiver lacks
\* starts from a state id that the receiver holds.
LEMMA LeastMissingIsNext ==
    ASSUME Fit, NEW c \in ClientIds, NEW m \in made,
           \A x \in made : x.type = "UpdateState" =>
              /\ IsCanonicalState(x.post_height, x.post_state_id.consensus_state)
              /\ x.post_state_id.consensus_state.slot < GloasSlot,
           m.type = "UpdateState", m.client_id = c, m.post_height \notin DOMAIN held[c],
           \A n \in made : Announces(n, c, n.post_height, n.post_state_id)
                             /\ n.post_height \notin DOMAIN held[c]
              => m.post_state_id.consensus_state.slot <= n.post_state_id.consensus_state.slot
    PROVE  IsNextStep(c, m)
<1>1. CASE IsCreation(m)
  <2>1. DOMAIN held[c] = {}
    BY <1>1 DEF Fit, CreationIsHeld
  <2> QED
    BY <1>1, <2>1 DEF IsNextStep
<1>2. CASE ~IsCreation(m)
  <2> DEFINE height == m.prev_height
  <2>1. PICK n \in made :
          /\ Announces(n, c, height, m.prev_state_id)
          /\ n.post_state_id.consensus_state.slot < m.post_state_id.consensus_state.slot
    BY <1>2, UpdateFollowsUpdate
  <2>2. n.type = "UpdateState" /\ n.post_height = height /\ n.post_state_id = m.prev_state_id
    BY <2>1 DEF Announces
  <2>3. height \in DOMAIN held[c]
    <3>1. /\ n.post_state_id.consensus_state.slot \in Nat
          /\ m.post_state_id.consensus_state.slot \in Nat
      BY <2>2, CanonicalSlot
    <3>2. Announces(n, c, n.post_height, n.post_state_id)
      BY <2>1, <2>2
    <3> QED
      BY <2>1, <2>2, <3>1, <3>2
  <2>4. PICK k \in made : /\ k.type = "UpdateState"
                          /\ k.post_height = height
                          /\ k.post_state_id = held[c][height]
    BY <2>3 DEF Fit, HeldStatesAreAnnounced
  <2>5. held[c][height].consensus_state = m.prev_state_id.consensus_state
    BY <2>2, <2>4, OneExecutionBlockPerHeight
  <2>6. held[c][height].client_state = m.prev_state_id.client_state
    <3>1. held[c][height].client_state = ClientPart(c)
      BY <2>3 DEF Fit, HeldStatesAreAnnounced
    <3>2. n.post_state_id.client_state = ClientPart(c)
      BY <2>1, <2>2 DEF Fit, IsRegular, Announces
    <3> QED
      BY <2>2, <3>1, <3>2
  <2>7. held[c][height] \in StateId
    BY <2>3 DEF Fit, RelayTypeOK
  <2>8. m.prev_state_id \in StateId
    <3>1. n \in ProxyMessage
      BY DEF Fit, RelayTypeOK, made, ProxyMessage
    <3> QED
      BY <2>2, <3>1 DEF ProxyMessage, UpdateStateProxyMessage, MisbehaviourProxyMessage,
                        VerifyMembershipProxyMessage
  <2>9. Holds(c, height, m.prev_state_id)
    BY <2>3, <2>5, <2>6, <2>7, <2>8 DEF Holds, StateId
  <2> QED
    BY <1>2, <2>9 DEF IsNextStep
<1> QED
  BY <1>1, <1>2

\* See NothingIsOutOfReach: the receiver is never stuck before Gloas
\* (client.rs 198-217).  That it does catch up needs fairness and time as well.
THEOREM ReceiverIsNeverStuck == RelaySpec => []NothingIsOutOfReach
<1>1. ASSUME Fit
      PROVE  NothingIsOutOfReach
  <2> SUFFICES ASSUME \A x \in made : x.type = "UpdateState" =>
                        /\ IsCanonicalState(x.post_height, x.post_state_id.consensus_state)
                        /\ x.post_state_id.consensus_state.slot < GloasSlot,
                      NEW c \in ClientIds,
                      NEW h \in DOMAIN consensus_states[c], h \notin DOMAIN held[c]
               PROVE  \E m \in made : IsNextStep(c, m)
    BY DEF NothingIsOutOfReach
  <2> DEFINE missing == {m \in made : /\ m.type = "UpdateState"
                                      /\ m.client_id = c
                                      /\ m.post_height \notin DOMAIN held[c]}
             slots   == {m.post_state_id.consensus_state.slot : m \in missing}
  <2>1. slots # {}
    <3>1. PICK m \in made : Announces(m, c, h, StoredStateId(c, h))
      BY <1>1 DEF Fit, StoredStatesAreAnnounced
    <3>2. m \in missing
      BY <3>1 DEF Announces
    <3> QED
      BY <3>2
  <2>2. slots \in SUBSET Nat
    BY CanonicalSlot
  <2>3. PICK s \in slots : \A t \in slots : s <= t
    <3> HIDE DEF slots
    <3> QED
      BY <2>1, <2>2, LeastOfNaturals
  <2>4. PICK m \in missing : m.post_state_id.consensus_state.slot = s
    OBVIOUS
  <2>5. \A n \in missing :
          m.post_state_id.consensus_state.slot <= n.post_state_id.consensus_state.slot
    BY <2>3, <2>4
  <2>6. \A n \in made : Announces(n, c, n.post_height, n.post_state_id)
                          /\ n.post_height \notin DOMAIN held[c] => n \in missing
    BY DEF Announces
  <2>7. IsNextStep(c, m)
    BY <1>1, <2>4, <2>5, <2>6, LeastMissingIsNext
  <2> QED
    BY <2>4, <2>7
<1> QED
  BY <1>1, FitHolds, PTL
=============================================================================
