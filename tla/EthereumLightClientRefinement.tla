------------------- MODULE EthereumLightClientRefinement --------------------
(***************************************************************************)
(* EthereumLightClient seen as a VerifiedChain: what a client holds about a*)
(* height is the root and the timestamp of the consensus state it stores.  *)
(***************************************************************************)
EXTENDS EthereumLightClient

\* What one stored state lets the client verify.
HeldFacts(consensus_state) ==
    [storage_root |-> consensus_state.storage_root,
     timestamp    |-> consensus_state.timestamp]

Verified ==
    [c \in ClientIds |->
        [h \in DOMAIN consensus_states[c] |-> HeldFacts(consensus_states[c][h])]]

Latest ==
    [c \in ClientIds |->
        IF client_states[c] = None THEN None ELSE latest_height(c)]

Promise == INSTANCE VerifiedChain WITH verified <- Verified, latest <- Latest

\* While no committee equivocates, every call on a client either leaves what it holds
\* alone or teaches it a finalised execution block: back-filled heights,
\* rewritten heights, skipped payloads and late keys included
\* (client.rs 42-73, 167-220).
KeepsPromise == Promise!Spec
=============================================================================
