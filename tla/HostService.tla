---------------------------- MODULE HostService ----------------------------
(***************************************************************************)
(* The calls of EthereumLightClient as a service with several workers      *)
(* executes them: a call reads the client state, the consensus state and   *)
(* the clock one after the other, misbehaviour reads the consensus state a *)
(* second time, and the host commits the results at the end, in one step   *)
(* with the message.  In between, other workers run.  A call can fail at   *)
(* any point, and leaves nothing behind when it does.                      *)
(*                                                                         *)
(* The host is not code under src/.  Exclusive says whether it lets the    *)
(* updates of one client run one at a time only; nothing in src/ does.     *)
(***************************************************************************)
EXTENDS EthereumLightClientRefinement

CONSTANTS
    Workers,      \* the threads that serve calls
    Exclusive     \* whether updates of one client exclude each other

ASSUME ServiceAssumption == None \notin Workers /\ Exclusive \in BOOLEAN

VARIABLE calls    \* worker -> the call it is executing, or None

service_vars == <<vars, calls>>

-----------------------------------------------------------------------------
(* Requests: the argument of a call, and the height it starts from *)

UpdateRequest(header) ==
    [kind |-> "header", height |-> header.trusted.height, argument |-> header]

MisbehaviourRequest(misbehaviour) ==
    [kind |-> "misbehaviour", height |-> misbehaviour.trusted.height,
     argument |-> misbehaviour]

MembershipRequest(height, value) ==
    [kind |-> "membership", height |-> height, argument |-> value]

UpdateRequests ==
    {UpdateRequest(header) : header \in Headers}
    \cup {MisbehaviourRequest(misbehaviour) : misbehaviour \in Misbehaviours}

Requests ==
    UpdateRequests
    \cup {MembershipRequest(height, value) :
             height \in Slots, value \in {"present", "absent"}}

IsUpdating(c) ==
    \E w \in Workers : /\ calls[w] # None
                       /\ calls[w].client_id = c
                       /\ calls[w].request \in UpdateRequests

\* The worker goes on with its call.
Continue(w, call) ==
    /\ calls' = [calls EXCEPT ![w] = call]
    /\ UNCHANGED vars

-----------------------------------------------------------------------------
ServiceInit == Init /\ calls = [w \in Workers |-> None]

\* Mutant: updates of one client overlap.
ReadClientState_overlapping(w, c, request) ==
    /\ calls[w] = None
    /\ client_states[c] # None
    /\ Continue(w, [stage |-> "client_state", client_id |-> c, request |-> request,
                    client_state |-> client_states[c]])

\* A call begins: host.client_state answers.
ReadClientState(w, c, request) ==
    /\ calls[w] = None
    /\ Exclusive /\ request \in UpdateRequests => ~IsUpdating(c)
    /\ client_states[c] # None
    /\ Continue(w, [stage |-> "client_state", client_id |-> c, request |-> request,
                    client_state |-> client_states[c]])

\* Mutant: the state of the latest height is read for every height.
ReadConsensusState_of_latest(w) ==
    LET call == calls[w]
    IN  /\ call # None
        /\ call.stage = "client_state"
        /\ call.request.height \in DOMAIN consensus_states[call.client_id]
        /\ ~is_frozen(call.client_state)
        /\ Continue(w, [stage |-> "consensus_state", client_id |-> call.client_id,
                        request |-> call.request, client_state |-> call.client_state,
                        consensus_state |->
                            consensus_states[call.client_id][latest_height(call.client_id)]])

\* host.consensus_state answers, and the client that was read is not frozen.
ReadConsensusState(w) ==
    LET call == calls[w]
    IN  /\ call # None
        /\ call.stage = "client_state"
        /\ call.request.height \in DOMAIN consensus_states[call.client_id]
        /\ ~is_frozen(call.client_state)
        /\ Continue(w, [stage |-> "consensus_state", client_id |-> call.client_id,
                        request |-> call.request, client_state |-> call.client_state,
                        consensus_state |->
                            consensus_states[call.client_id][call.request.height]])

\* Whether the request is accepted at `time`, from what the call has read.
IsAccepted(call, time, keys) ==
    CASE call.request.kind = "header" ->
           check_header(call.client_state, call.consensus_state,
                        call.request.argument, time, keys)
      [] call.request.kind = "misbehaviour" ->
           check_misbehaviour(call.client_state, call.client_id, call.consensus_state,
                              call.request.argument, time, keys)
      [] call.request.kind = "membership" ->
           IF call.request.argument = "present"
             THEN verify_membership(call.consensus_state)
             ELSE verify_non_membership(call.consensus_state)

\* host_timestamp is read, and everything is checked.
Check(w) ==
    LET call == calls[w]
    IN  /\ call # None
        /\ call.stage = "consensus_state"
        /\ IsAccepted(call, now, corrupt)
        /\ Continue(w, [call EXCEPT !.stage = "checked"])

\* Mutant: the new client state is handed over before the message is made.
ReadPrevStates_after_freezing(w) ==
    LET call == calls[w]
        c    == call.client_id
    IN  /\ call # None
        /\ call.stage = "checked"
        /\ call.request.kind = "misbehaviour"
        /\ client_states' = [client_states EXCEPT ![c] =
               with_frozen_height(call.client_state, call.request.height)]
        /\ calls' = [calls EXCEPT ![w] =
               [stage |-> "prev_states", client_id |-> c, request |-> call.request,
                client_state |-> call.client_state, consensus_state |-> call.consensus_state,
                prev_states |->
                    make_prev_states(c, call.client_state, {call.request.height})]]
        /\ UNCHANGED <<consensus_states, message, now, corrupt>>

\* make_prev_states asks the host for the consensus state again.
ReadPrevStates(w) ==
    LET call == calls[w]
        c    == call.client_id
    IN  /\ call # None
        /\ call.stage = "checked"
        /\ call.request.kind = "misbehaviour"
        /\ Continue(w, [stage |-> "prev_states", client_id |-> c, request |-> call.request,
                        client_state |-> call.client_state,
                        consensus_state |-> call.consensus_state,
                        prev_states |->
                            make_prev_states(c, call.client_state, {call.request.height})])

\* The call returns: the host stores the states, and passes the message on.
CommitUpdate(w) ==
    LET call   == calls[w]
        c      == call.client_id
        header == call.request.argument
    IN  /\ call # None
        /\ call.stage = "checked"
        /\ call.request.kind = "header"
        /\ client_states' =
               [client_states EXCEPT ![c] = new_client_state(call.client_state, header)]
        /\ StoreConsensusState(c, header.execution.block_number,
               new_consensus_state(call.consensus_state, header))
        /\ message' = UpdateStateMessage(c, call.client_state, call.consensus_state, header)
        /\ calls' = [calls EXCEPT ![w] = None]
        /\ UNCHANGED <<now, corrupt>>

CommitMisbehaviour(w) ==
    LET call == calls[w]
        c    == call.client_id
    IN  /\ call # None
        /\ call.stage = "prev_states"
        /\ client_states' = [client_states EXCEPT ![c] =
               with_frozen_height(call.client_state, call.request.height)]
        /\ message' = MisbehaviourMessage(c, call.client_state, call.consensus_state,
                                          call.prev_states, call.request.argument)
        /\ calls' = [calls EXCEPT ![w] = None]
        /\ UNCHANGED <<consensus_states, now, corrupt>>

\* Nothing is stored.
CommitMembership(w) ==
    LET call == calls[w]
    IN  /\ call # None
        /\ call.stage = "checked"
        /\ call.request.kind = "membership"
        /\ message' = MembershipMessage(call.client_id, call.client_state,
                          call.request.height, call.consensus_state, call.request.argument)
        /\ calls' = [calls EXCEPT ![w] = None]
        /\ UNCHANGED <<store, now, corrupt>>

\* The call returns an error, whichever the reason.
Fail(w) == calls[w] # None /\ Continue(w, None)

ServiceNext ==
    \/ \E w \in Workers :
        \/ \E c \in ClientIds, request \in Requests : ReadClientState(w, c, request)
        \/ ReadConsensusState(w)
        \/ Check(w)
        \/ ReadPrevStates(w)
        \/ CommitUpdate(w)
        \/ CommitMisbehaviour(w)
        \/ CommitMembership(w)
        \/ Fail(w)
    \* create_client reads nothing.
    \/ /\ \E c \in ClientIds, params \in Params, block \in CanonicalBlocks,
             fault \in Omissions \cup {"nothing"} : CreateClient(c, params, block, fault)
       /\ UNCHANGED calls
    \/ /\ Tick \/ \E period \in CommitteePeriods : CorruptCommittee(period)
       /\ UNCHANGED calls

ServiceSpec == ServiceInit /\ [][ServiceNext]_service_vars

-----------------------------------------------------------------------------
(* Properties *)

CallsAt(stages) ==
    [stage : stages, client_id : ClientIds, request : Requests, client_state : ClientState]

CallsWithState(stages) ==
    [stage : stages, client_id : ClientIds, request : Requests, client_state : ClientState,
     consensus_state : ConsensusState]

CallsWithEvidence ==
    [stage : {"prev_states"}, client_id : ClientIds,
     request : {MisbehaviourRequest(misbehaviour) : misbehaviour \in Misbehaviours},
     client_state : ClientState, consensus_state : ConsensusState,
     prev_states : SUBSET (Nat \X StateId)]

\* A call in execution keeps decoded copies of what it has read so far
\* (client.rs 179-190, 228-243).
ServiceTypeOK ==
    /\ TypeOK
    /\ calls \in [Workers -> {None} \cup CallsAt({"client_state"})
                                 \cup CallsWithState({"consensus_state", "checked"})
                                 \cup CallsWithEvidence]

\* A frozen client's stored states never change again, although calls that read
\* it before it was frozen end afterwards (client.rs 184, 201, 233).
FrozenStoreIsFinal ==
    [][\A c \in ClientIds : client_states[c] # None /\ is_frozen(client_states[c]) =>
        /\ client_states'[c] = client_states[c]
        /\ consensus_states'[c] = consensus_states[c]]_service_vars

\* A client freezes only together with the message that tells the receiver, and
\* that message names the state which is stored at the frozen height, with its
\* timestamp, although the call has read it twice (client.rs 245-265, 278).
FreezeIsAnnounced ==
    [][\A c \in ClientIds :
        /\ client_states[c] # None /\ ~is_frozen(client_states[c])
        /\ is_frozen(client_states'[c])
        => LET height          == client_states'[c].frozen_height
               consensus_state == consensus_states'[c][height]
           IN  /\ message'.type = "Misbehaviour"
               /\ message'.client_id = c
               /\ message'.prev_states =
                      {<<height, gen_state_id(client_states'[c], consensus_state)>>}
               /\ message'.context.state_timestamp = consensus_state.timestamp]_service_vars
=============================================================================
