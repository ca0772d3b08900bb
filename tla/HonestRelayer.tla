---------------------------- MODULE HonestRelayer ---------------------------
(***************************************************************************)
(* A relayer that has the canonical chain and builds headers from it, among*)
(* others who submit what they like to the encoded store of AnyStore: what *)
(* it may count on.                                                        *)
(***************************************************************************)
EXTENDS AnyStore

\* What proves a later canonical block from the canonical state at `height`:
\* an update that the chain has produced by now, with the next committee when
\* the block is in a later period than the state.
IsHonestHeader(header, consensus_state) ==
    LET period == compute_sync_committee_period_at_slot(header.update.signature_slot)
    IN  /\ IsCanonicalUpdate(header.update, now)
        /\ header.execution = ExecutionUpdateOf(header.update.finalized)
        /\ header.account_storage_root = StorageRootAt(header.update.finalized)
        /\ HeightOf(header.update.finalized) # 0
        /\ consensus_state.slot < header.update.finalized.slot
        /\ period \in {current_period(consensus_state), current_period(consensus_state) + 1}
        /\ header.trusted.sync_committee = CommitteeOf(Canonical, period)
        /\ header.trusted.is_next = (period # current_period(consensus_state))
        /\ \/ compute_sync_committee_period_at_slot(header.update.finalized.slot)
                = current_period(consensus_state)
           \/ header.update.next_sync_committee # DefaultKey

IsUnexpired(c, height) ==
    validate_state_timestamp_within_trusting_period(
        now, read_client_state(c).params.trusting_period,
        read_consensus_state(c, height).timestamp)

MayRelay(c, header) ==
    /\ any_client_states[c] # None
    /\ header.trusted.height \in DOMAIN any_consensus_states[c]
    /\ IsHonestHeader(header, read_consensus_state(c, header.trusted.height))
    /\ IsUnexpired(c, header.trusted.height)

RelayBlock(c, block) ==
    \E header \in Headers :
        /\ header.update.finalized = block
        /\ MayRelay(c, header)
        /\ UpdateClient(c, AnyOfHeader(header))

\* A relayer that tries time and again to relay a block succeeds sometime, others
\* notwithstanding, and the clock runs up to its bound.
FollowingSpec ==
    /\ Spec
    /\ WF_vars(Tick)
    /\ \A c \in ClientIds, block \in CanonicalBlocks : SF_vars(RelayBlock(c, block))

-----------------------------------------------------------------------------
(* Properties *)

\* While no committee equivocates, an honest relayer is never turned away: what
\* others have submitted, and what the client made of it and stored, leaves
\* every canonical header from an unexpired state acceptable (client_state.rs
\* 176-243, consensus_state.rs 96-153).
HonestHeadersAreAccepted ==
    \A c \in ClientIds, header \in Headers :
        MayRelay(c, header) =>
            /\ IsHeaderAny(AnyOfHeader(header))
            /\ AcceptsHeader(c, HeaderOf(AnyOfHeader(header).value))

\* A client that someone relays to gets to every block of the chain, from one
\* committee to the next and across the Gloas fork, unless the states it has
\* expire first (client_state.rs 212-241).
FollowsChain ==
    \A c \in ClientIds : \A block \in CanonicalBlocks :
        any_client_states[c] # None
          ~> \/ \E height \in DOMAIN any_consensus_states[c] : HeightOf(block) <= height
             \/ \A height \in DOMAIN any_consensus_states[c] : ~IsUnexpired(c, height)
=============================================================================
