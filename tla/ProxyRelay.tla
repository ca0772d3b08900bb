----------------------------- MODULE ProxyRelay -----------------------------
(***************************************************************************)
(* The proxy messages of EthereumLightClient on their way: relayers hold   *)
(* them, lose them, and deliver them as often and in whatever order they   *)
(* like to a receiver on the other chain, which has no Ethereum state.  It *)
(* keeps one state id per height, follows a message only from a state id   *)
(* it has, and validates the message's context with its own clock.         *)
(*                                                                         *)
(* The receiver is not code under src/: it is modelled from the fields     *)
(* that client.rs fills in for it.  Its clock is right (`time`); the       *)
(* host's clock `now`, which the client checks with, may be far behind.    *)
(***************************************************************************)
EXTENDS EthereumLightClientRefinement

CONSTANT HostLags     \* how far behind the host's clock may be

ASSUME LagAssumption == HostLags \subseteq Nat

VARIABLES
    time,           \* the real time, and the receiver's
    sent,           \* the proxy messages that relayers can deliver
    lost,           \* those they have lost
    held,           \* client id -> height -> the state id the receiver holds
    held_frozen     \* client id -> whether the receiver has frozen it

client == <<client_states, consensus_states, message, now>>
receiver == <<held, held_frozen>>
relay_vars == <<client, corrupt, time, sent, lost, receiver>>

RelayInit ==
    /\ Init
    /\ time = GenesisTime
    /\ sent = {}
    /\ lost = {}
    /\ held = [c \in ClientIds |-> [h \in {} |-> None]]
    /\ held_frozen = [c \in ClientIds |-> FALSE]

-----------------------------------------------------------------------------
(* The light client and its environment *)

\* Relayers take what a call returned, if need be a second time.
TakeMessage ==
    /\ sent' = sent \cup {message'}
    /\ lost' = lost \ {message'}
    /\ UNCHANGED <<time, receiver>>

CallAndSend(c) == Call(c) /\ TakeMessage

TimePasses ==
    /\ time < MaxTime
    /\ time' = time + 1
    /\ now' \in {time' - lag : lag \in {l \in HostLags : l <= time'}}
    /\ UNCHANGED <<store, message, corrupt, sent, lost, receiver>>

LeakKeys(period) ==
    /\ period \notin corrupt
    /\ MayBeCorrupted(period, time)
    /\ corrupt' = corrupt \cup {period}
    /\ UNCHANGED <<client, time, sent, lost, receiver>>

-----------------------------------------------------------------------------
(* The receiver *)

IsCreation(m) == m.type = "UpdateState" /\ m.prev_height = None

IsValidContext(context) ==
    /\ validate_state_timestamp_within_trusting_period(
           time, context.trusting_period, context.state_timestamp)
    /\ validate_header_timestamp_not_future(
           time, context.clock_drift, context.header_timestamp)

Holds(c, height, state_id) ==
    height \in DOMAIN held[c] /\ held[c][height] = state_id

Hold(c, height, state_id) ==
    /\ held' = [held EXCEPT ![c] =
          [h \in DOMAIN held[c] \cup {height} |->
              IF h = height THEN state_id ELSE held[c][h]]]
    /\ UNCHANGED <<client, corrupt, time, sent, lost, held_frozen>>

\* The receiver's client is created from the message that created c.
ReceiveCreation(c, m) ==
    /\ IsCreation(m)
    /\ m.client_id = c
    /\ DOMAIN held[c] = {}
    /\ Hold(c, m.post_height, m.post_state_id)

\* Messages do not name a client: what ties them to one is the state id.
ReceiveUpdate(c, m) ==
    /\ m.type = "UpdateState" /\ ~IsCreation(m)
    /\ ~held_frozen[c]
    /\ Holds(c, m.prev_height, m.prev_state_id)
    /\ IsValidContext(m.context)
    /\ Hold(c, m.post_height, m.post_state_id)

ReceiveMisbehaviour(c, m) ==
    /\ m.type = "Misbehaviour"
    /\ ~held_frozen[c]
    /\ \A prev \in m.prev_states : Holds(c, prev[1], prev[2])
    /\ IsValidContext(m.context)
    /\ held_frozen' = [held_frozen EXCEPT ![c] = TRUE]
    /\ UNCHANGED <<client, corrupt, time, sent, lost, held>>

\* A membership message proves its claim when it is about a state id held.
IsProof(c, m) ==
    m.type = "VerifyMembership" /\ ~held_frozen[c] /\ Holds(c, m.height, m.state_id)

Receive(c, m) ==
    ReceiveCreation(c, m) \/ ReceiveUpdate(c, m) \/ ReceiveMisbehaviour(c, m)

\* A creation is a dialogue of both sides and is not lost.
Lose(m) ==
    /\ m.type \in {"UpdateState", "Misbehaviour"} /\ ~IsCreation(m)
    /\ sent' = sent \ {m}
    /\ lost' = lost \cup {m}
    /\ UNCHANGED <<client, corrupt, time, receiver>>

-----------------------------------------------------------------------------
RelayNext ==
    \/ \E c \in ClientIds : CallAndSend(c) \/ \E m \in sent : Receive(c, m)
    \/ \E m \in sent : Lose(m)
    \/ TimePasses
    \/ \E period \in CommitteePeriods : LeakKeys(period)

RelaySpec == RelayInit /\ [][RelayNext]_relay_vars

\* A relayer submits the header of a lost message again.
Resubmit(c, height) ==
    /\ \E m \in lost : m.type = "UpdateState" /\ m.post_height = height
    /\ \E header \in Headers :
          header.execution.block_number = height /\ UpdateState(c, header)
    /\ message' \in lost
    /\ TakeMessage

ReceiveUpdateTo(c, height) ==
    \E m \in sent : ReceiveUpdate(c, m) /\ m.post_height = height

\* Relayers retry (src/tests/configs/templates/ibc-0.json.tpl): they submit
\* again what was lost, and what they can deliver time and again arrives.
FairSpec ==
    /\ RelaySpec
    /\ \A c \in ClientIds :
        /\ WF_relay_vars(\E m \in sent : ReceiveCreation(c, m))
        /\ SF_relay_vars(\E m \in sent : ReceiveMisbehaviour(c, m))
        /\ \A height \in Slots :
            /\ SF_relay_vars(ReceiveUpdateTo(c, height))
            /\ WF_relay_vars(Resubmit(c, height))

-----------------------------------------------------------------------------
(* Properties *)

\* The receiver holds state ids only, and relayers only proxy messages.
RelayTypeOK ==
    /\ TypeOK
    /\ time \in Nat
    /\ sent \cup lost \subseteq UpdateStateProxyMessage \cup MisbehaviourProxyMessage
                                  \cup VerifyMembershipProxyMessage
    /\ DOMAIN held = ClientIds
    /\ \A c \in ClientIds : held[c] \in [DOMAIN held[c] -> StateId]
    /\ \A c \in ClientIds : DOMAIN held[c] \subseteq Nat
    /\ held_frozen \in [ClientIds -> BOOLEAN]

\* What the receiver holds about a height is canonical unless a committee is
\* to blame, even when the host's clock stands still and the client itself
\* believes committees whose keys leaked long ago: the context that an update
\* message carries makes the receiver refuse it (client.rs 204-217).
ReceiverTrust ==
    \A c \in ClientIds : \A h \in DOMAIN held[c] :
        \/ IsCanonicalState(h, held[c][h].consensus_state)
        \/ IsBlamed(held[c][h].consensus_state)

\* The receiver freezes only on evidence against a committee behind a state it
\* holds, and not on evidence that leaked keys made up for a client whose
\* clock stands still (client.rs 250-265).
ReceiverFreezesOnEvidence ==
    \A c \in ClientIds : held_frozen[c] =>
        \E h \in DOMAIN held[c] : IsBlamed(held[c][h].consensus_state)

\* A membership message that the receiver takes for a proof says what the
\* canonical block at its height commits to, although it may have been made
\* from another state than the one the receiver holds (client.rs 118-126,
\* state.rs 8-15).
ProofsReflectChain ==
    \A c \in ClientIds : \A m \in sent : IsProof(c, m) =>
        \/ \E block \in CanonicalBlocks :
              /\ HeightOf(block) = m.height
              /\ m.value = IF HasCommitment(StorageRootAt(block))
                             THEN "present" ELSE "absent"
        \/ IsBlamed(held[c][m.height].consensus_state)

\* What the receiver has learnt: the facts behind each state id it holds.
HeldVerified ==
    [c \in ClientIds |->
        [h \in DOMAIN held[c] |-> HeldFacts(held[c][h].consensus_state)]]

HeldLatest ==
    [c \in ClientIds |-> IF DOMAIN held[c] = {} THEN None ELSE Max(DOMAIN held[c])]

ReceiverPromise == INSTANCE VerifiedChain WITH verified <- HeldVerified, latest <- HeldLatest

\* While no committee equivocates, the receiver itself is a light client of the
\* canonical execution chain: it never learns anything else and never gives up
\* what it has learnt, although the client whose messages it follows may have
\* been made to believe another history, and although messages are lost,
\* repeated and overtake each other (client.rs 198-217, state.rs 8-15).
ReceiverKeepsPromise == ReceiverPromise!Spec

-----------------------------------------------------------------------------
(* How messages fit together *)

made == sent \cup lost

\* The state ids that a receiver has to hold for a message to be of use.
Premises(m) ==
    CASE m.type = "VerifyMembership" -> {<<m.height, m.state_id>>}
      [] m.type = "Misbehaviour"     -> m.prev_states
      [] IsCreation(m)               -> {}
      [] OTHER                       -> {<<m.prev_height, m.prev_state_id>>}

Announces(m, c, height, state_id) ==
    /\ m.type = "UpdateState"
    /\ m.client_id = c
    /\ m.post_height = height
    /\ m.post_state_id = state_id

\* Whatever state id a message starts from, another message of the client ends
\* in, and updates lead from earlier slots to later ones: however far back a
\* header starts and whatever the client has learnt since then, following the
\* messages back ends at the creation (client.rs 204-207, 245, state.rs 8-15).
MessagesFitTogether ==
    \A m \in made : \A premise \in Premises(m) :
        \E n \in made :
            /\ Announces(n, m.client_id, premise[1], premise[2])
            /\ m.type = "UpdateState" =>
                 n.post_state_id.consensus_state.slot < m.post_state_id.consensus_state.slot

\* Before Gloas the two sides agree on state ids: where both know the canonical
\* state of a height, the id that the client's messages about it carry is the
\* one that the receiver holds, whichever messages brought it there and
\* whatever happened to the client since (client.rs 118-126, state.rs 8-15).
StateIdsAgree ==
    \A c \in ClientIds : \A h \in DOMAIN consensus_states[c] \cap DOMAIN held[c] :
        LET consensus_state == consensus_states[c][h]
            state_id        == held[c][h]
        IN  /\ IsCanonicalState(h, consensus_state)
            /\ IsCanonicalState(h, state_id.consensus_state)
            /\ consensus_state.slot < GloasSlot
            /\ state_id.consensus_state.slot < GloasSlot
            => state_id = gen_state_id(client_states[c], consensus_state)

\* Before Gloas, a header that leads from one canonical state to another makes
\* the same message whenever it is submitted: a relayer that lost the message
\* gets it again, although the client has learnt other heights in between
\* (client.rs 198-217, client_state.rs 103-108).
RetriesRepeat ==
    \A m, n \in {x \in made : x.type = "UpdateState" /\ ~IsCreation(x)} :
        /\ m.client_id = n.client_id
        /\ m.prev_height = n.prev_height /\ m.post_height = n.post_height
        /\ \A x \in {m, n} :
              /\ IsCanonicalState(x.prev_height, x.prev_state_id.consensus_state)
              /\ IsCanonicalState(x.post_height, x.post_state_id.consensus_state)
              /\ x.post_state_id.consensus_state.slot < GloasSlot
        => m = n

\* What the receiver could follow at once, but for time and freezing.
IsNextStep(c, m) ==
    /\ m.type = "UpdateState"
    /\ m.post_height \notin DOMAIN held[c]
    /\ IF IsCreation(m)
         THEN m.client_id = c /\ DOMAIN held[c] = {}
         ELSE Holds(c, m.prev_height, m.prev_state_id)

\* Before Gloas, and as long as nobody has made a client announce another
\* history, the receiver is never stuck: while it lacks a height that the client
\* stores, one of the client's messages takes it to a height it does not have,
\* in whatever order it has received the others (client.rs 198-217).
NothingIsOutOfReach ==
    (\A m \in made : m.type = "UpdateState" =>
        LET consensus_state == m.post_state_id.consensus_state
        IN  /\ IsCanonicalState(m.post_height, consensus_state)
            /\ consensus_state.slot < GloasSlot)
    => \A c \in ClientIds : DOMAIN consensus_states[c] \subseteq DOMAIN held[c]
                             \/ \E m \in made : IsNextStep(c, m)

IsExpired(c, height) ==
    ~validate_state_timestamp_within_trusting_period(
        time, client_states[c].params.trusting_period,
        consensus_states[c][height].timestamp)

IsClientFrozen(c) == client_states[c] # None /\ is_frozen(client_states[c])

\* As long as a client is frozen, there is the message with its evidence, and
\* the one state id that it asks for is that of the state which the client has
\* at its frozen height (client.rs 245-265, client_state.rs 110-119).
FreezeCanBeRelayed ==
    \A c \in ClientIds : IsClientFrozen(c) =>
        LET height == client_states[c].frozen_height
        IN  \E m \in made :
               /\ m.type = "Misbehaviour"
               /\ m.client_id = c
               /\ m.prev_states =
                    {<<height, gen_state_id(client_states[c], consensus_states[c][height])>>}

\* An equivocating committee has made the client store another history.
IsMisled(c) ==
    \E h \in DOMAIN consensus_states[c] : ~IsCanonicalState(h, consensus_states[c][h])

\* Before Gloas the receiver gets to every height that the client stores,
\* unless the client freezes or a state on the way expires first: the state ids
\* of successive messages fit together in whatever order updates were made, and
\* a lost message can be had again by submitting its header again
\* (client.rs 198-217, state.rs 8-15).
CatchesUp ==
    \A c \in ClientIds : \A height \in Slots :
        height \in DOMAIN consensus_states[c]
          ~> \/ height \in DOMAIN held[c]
             \/ IsClientFrozen(c) \/ IsMisled(c)
             \/ \E h \in DOMAIN consensus_states[c] : h < height /\ IsExpired(c, h)

\* The evidence that froze the client freezes the receiver too, in time and
\* while no message is lost.  Nothing stronger holds: a frozen client makes no
\* message again (client.rs 234, 250-265).
FreezeArrives ==
    \A c \in ClientIds :
        IsClientFrozen(c) /\ lost = {}
          ~> \/ held_frozen[c]
             \/ lost # {} \/ IsMisled(c)
             \/ \E h \in DOMAIN consensus_states[c] : IsExpired(c, h)
=============================================================================
