# A verification development for ethereum-elc

`ethereum-elc` is an Ethereum light client for the LCP framework. A host (the
LCP enclave) stores, per client, one *client state* and one *consensus state*
per execution block height. Four calls read that store: `create_client`,
`update_client` (with a header or with misbehaviour), `verify_membership` and
`verify_non_membership`. A call that succeeds returns states for the host to
store and a *proxy message* that a relayer carries to the chain on the other
side, where a small contract checks only the enclave's signature and the
context the message names.

This directory holds TLA+ modules that model the client, TLC runs over small
instances, and theorems that TLAPS proves for every instance.

## Inventory

| Component (source) | State | Operations | What makes it correct |
|---|---|---|---|
| Light client (`client.rs`) | none of its own; reads the host | create, update_state, submit_misbehaviour, verify_(non_)membership, latest_height | messages are true of the chain; frozen clients are inert |
| Client state (`client_state.rs`) | parameters, latest block number, frozen height | validate, canonicalize, check_header..., check_misbehaviour..., with_frozen_height | no untrusted header changes it; latest is the greatest height; freezing is final and justified |
| Consensus state (`consensus_state.rs`) | slot, storage root, timestamp, current and next committee | validate, is_relevant_update, current_period | all five fields belong to one finalised canonical block |
| Header (`header.rs`) | a message | validate, timestamp | the timestamp is that of the block proved, on both sides of Gloas |
| Misbehaviour (`misbehaviour.rs`) | a message | validate | only real equivocation is accepted |
| State ids (`state.rs`) | none | gen_state_id | one id per stored state, whatever the client's latest height |
| Wire conversions (all of the above) | encoded `Any` values | TryFrom and From | what is written can be read, and is the same |
| Height and time helpers (`misc.rs`) | none | conversions | heights keep both numbers |
| Verifier and types crates (external) | none | validate_updates, compute_sync_committees, ... | assumed, see below |
| Errors (`errors.rs`) | none | one variant per failing check | an error has no effect; an honest header gets none |
| Generated types (`proto/`) | none | | what is optional on the wire is checked when decoded |
| Host: store, workers, clock (external) | the two maps, the time, calls in execution | reads, commits | a freeze survives overlapping calls, and comes with its message |
| Relayers (external) | messages taken and lost | submit, carry, lose, retry | not trusted; one honest relayer suffices |
| On-chain LCP client (external) | a state id per height, a frozen flag | creation, update, misbehaviour, proofs | learns only what is true, and catches up |
| `lib.rs`, `proto-compiler/`, the rest of `tests/` | | registration, build tools | not modelled: no behaviour the properties depend on |

How they interact: the host calls `client.rs` with encoded values; `client.rs`
decodes them and what it reads back from the host, asks `client_state.rs` to
check a message against the stored state that *the message itself* names
(its trusted height), which delegates signatures and Merkle proofs to the
verifier crate, and returns new states together with a message that commits to
the state before and the state after.

What is hard here is order and time: headers arrive in any order and from any
stored height; the same height can be written twice; committees change every
period and their keys are only safe for a while; from the Gloas fork on, the
execution block that a finalised block proves lags behind it, so that several
finalised blocks prove the same execution block; any header or misbehaviour can
be sent by anyone. The crate itself is sequential, but its host runs several
workers (`tests/scripts/run_lcp.sh` 25 starts two), each call reads the store
two or three times before it returns what is to be written, and the messages
it returns travel over relayers that may lose, repeat and reorder them.

## Modules

```
BeaconChain            the chain, committees, who can have signed what   (external)
  ConsensusState       consensus_state.rs
    SyncProtocol       verifier and types crates, as used                (external)
      ClientState      client_state.rs, header.rs, misbehaviour.rs, state.rs
        ClientCalls          inputs of the calls, proxy messages, creation
          EthereumLightClient             client.rs and the host's store: the state machine
            EthereumLightClientRefinement   ... seen as a VerifiedChain
              HostService                   ... its calls taken apart, several workers
              ProxyRelay                    ... with relayers and the receiver
          AnyStore (and WireCodec)        client.rs over encoded values
            HonestRelayer                   ... with a relayer that follows the chain
        WireCodec                         TryFrom / From conversions
VerifiedChain          what a light client promises                      (abstract)
MCChain, MCEthereumLightClient, MCAnyStore, MCHostService, MCProxyRelay   instances for TLC
ClientCallsLemmas, EthereumLightClientProofs, EthereumLightClientRefinementProofs,
AnyStoreProofs, AnyStoreRefinementProofs, HonestRelayerProofs,
HostServiceProofs, ProxyRelayProofs                                       theorems
```

**BeaconChain.** Blocks are pairs of a branch and a slot. One branch is
canonical; the others are histories that only leaked or equivocating keys sign.
Time is counted in slots. `ExecutionUpdateOf(block)` is the execution block a
proof from `block` reaches: the payload of its own slot before Gloas, the parent
of its bid after (comment at `header.rs` 52-59), with withheld payloads left
out. A committee is the branch and period it belongs to; its aggregate key is
that pair. `MayHaveSigned` says which updates carry its signature: a canonical
committee signs only canonical updates, in its own period, unless its period is
in `corrupt`. A period gets there (action `CorruptCommittee`) when it is in
`FaultyPeriods` (an equivocating committee) or when every slot up to the end of
that period is older than `WeakSubjectivityPeriod`.

**SyncProtocol.** The crates outside `src/`, from how they are used: a
committee must be the stored current or next one, the signature must be in its
period, the finalised slot must be past the trusted one, the number and state
root of the execution update must be proved from the finalised header, from
Gloas on its timestamp too (`IsProvedBy`; before, nobody reads it), and the
committees of the new period
must be known. Where the crates check more than the client relies on, the model
checks less, so it accepts at least what they accept: misbehaviour need not be
newer than the trusted state, participation thresholds are not modelled (a
committee signs or does not), and an update may bring any next committee that
its signers would sign.

**ClientState.** One operator per function. A function returning a `Result` is
a predicate (`check_header`) and the value it returns (`new_client_state`,
`new_consensus_state`). `Header::timestamp` is called before anything has bound
the execution update to the consensus update, and fails on an update from Gloas
whose rlp cannot be read (`HasTimestamp`, `NoTimestamp`): in the model that is
a guard of its own, and MCChain's `UnreadableHeaders` are wrong in nothing
else. The parameters `validate` looks at are one flag,
except the trusting period and the clock drift. A state id is the pair of the
canonicalised client state and the consensus state, which takes the hash to be
collision free.

**ClientCalls.** What a host may be handed, and the proxy messages that calls
make of what they have read: state ids before and after, emitted states, and
the context (`TrustingPeriodContext`) that the receiver validates.

**EthereumLightClient.** Variables: the host's two maps, the last proxy message,
the clock, and `corrupt`. One action per call:

| Action | Code |
|---|---|
| `CreateClient` | `create_client`, `client.rs` 42-73 |
| `UpdateState` | `update_client` with a header, 75-89 and 167-220; `client_state.rs` 176-243 |
| `SubmitMisbehaviour` | `update_client` with misbehaviour, 222-286; `client_state.rs` 245-281 |
| `VerifyMembership`, `VerifyNonMembership` | 91-163 |
| `Tick`, `CorruptCommittee` | environment: `host_timestamp`, keys |

The host writes what a call returned in the step of the call, and nothing when
it fails. Headers and misbehaviour are any of a set, truthful or not. The
creator of a client is trusted, as in IBC: it describes a canonical block,
except for one field it may have forgotten (`Omissions`).

**VerifiedChain** is the abstract specification: a map from heights to facts
about canonical execution blocks, which only grows. No keys, periods, clock or
freezing. **EthereumLightClientRefinement** maps the stored consensus states to
those facts; `ProxyRelay` maps the state ids that the receiver holds in the
same way.

**WireCodec** and **AnyStore** model the same calls over a store of encoded
`Any` values, with the dispatch on type URLs. The raw record types are those of
the generated protobuf file. `None` is a part that is missing or empty, and
`Malformed` one that is there and that its conversion refuses: a sub-message of
a header or of misbehaviour (`header.rs` 113-116, `misbehaviour.rs` 50-64 and
76-91), a client id, a committee key or root of the wrong length or form
(`consensus_state.rs` 110-131). Each `?` of a decoder is a conjunct of its
guard; *which* error it returns is not modelled. `Damaged`, `DamagedClientState`
and `DamagedConsensusState` give each message and each creation in forms with one
thing wrong: another type URL, bytes that are no message, one part missing or
malformed, a negative duration, nanoseconds out of range, a root, an address or
fork parameters with a fault. `AnyStore` is checked to implement
`EthereumLightClient` under the decoded view of its store. Where a raw value has
parts that no property tells apart (roots, addresses, fork parameters, trust
level) they are the one part `fixed`, which is initialised, at its default, or
has one of `FixedFaults`. Prost skips unknown fields; bytes of one message read
as another are taken to fail, as the required parts are missing.

**HonestRelayer** adds to `AnyStore` a relayer that builds headers from the
canonical chain (`IsHonestHeader`, `RelayBlock`), among others who submit what
they like, and says what it may count on.

**HostService** takes the calls apart. A worker reads the client state, then
the consensus state, checks with the clock of that moment, for misbehaviour
reads the consensus state once more (`make_prev_states`), and then the host
commits states and message in one step; other workers run in between, time
passes, keys leak, and a call may fail at any point, leaving nothing.
`Exclusive` is whether the host lets the updates of one client run only one at
a time.

| Action | Code in `client.rs` |
|---|---|
| `ReadClientState` | 101, 138, 179, 230 |
| `ReadConsensusState` | 102-107, 139-144, 180-189, 231-239 |
| `Check` | 108-117, 145-153, 191-195, 241-246 |
| `ReadPrevStates` | 248-256, 269-286 |
| `CommitUpdate`, `CommitMisbehaviour`, `CommitMembership` | what 197-219, 248-266, 118-126 and 154-162 return |
| `Fail` | any `?` on the way |

**ProxyRelay** puts relayers and a receiver around `EthereumLightClient`.
`sent` and `lost` are the messages that relayers hold or have dropped. The
receiver keeps one state id per height, follows a message only from a state id
that it holds, and validates the context with its own clock, `time`. The
host's clock `now` is behind `time` by one of `HostLags`, chosen anew each time
it moves. A proxy message does not name its client; `client_id` is in the
model's messages to say whose they are, and the receiver uses it at creation
only, where the two sides are linked.

## Runs

| Run | Instance | Properties |
|---|---|---|
| `LongRange` | one client; slots 1-6 in periods of 2, slot 4 skipped; trusting and weak subjectivity period 5; a forged branch; clock to 15, so that every key leaks | `TypeOK`, `TrustedStates`, `LatestIsMaxStored`, `MembershipReflectsChain`, `ExpiredIsFinal`, `StateIdsAreFinal` |
| `Gloas` | one client; fork at slot 3, periods of 3, payloads of slots 3, 5, 6 withheld | `TrustedStates`, `UpdatesGoForward`, `KeepsPromise` |
| `Equivocation` | two clients; the committee of period 3 signs two branches; Gloas from the second slot on | `TrustedStates`, `NoFalseFreeze`, `NoStateAtHeightZero`, `FrozenIsFinal` |
| `EncodedStore` | one client over encoded values, damaged messages and creations; fork at slot 4, the committee of period 3 equivocates | `TypeOK`, `StoredAnysDecode`, `PostStateIsStored`, `EvidenceIsOfItsKind`, `ImplementsClient` |
| `HonestRelayer` | three periods, fork at slot 3, slots 3 and 6 without payload; trusting period short or longer than the run; headers with and without the next committee | `HonestHeadersAreAccepted`, `FollowsChain` |
| `ExclusiveUpdates` | two workers, exclusive updates, before Gloas, the committee of period 2 equivocates | `ServiceTypeOK`, `LatestIsMaxStored`, `FrozenStoreIsFinal`, `FreezeIsAnnounced` |
| `ServedPromise` | two workers, exclusive updates, fork at slot 4 without its payload, leaking keys | `KeepsPromise` |
| `OverlappingCalls` | two workers, nothing excluded, fork at slot 4, keys leak early | `TrustedStates`, `MembershipReflectsChain`, `RootsAreFinal` |
| `SlowHost` | messages lost and reordered; host clock right, 2 or 3 slots late; all keys leak; Gloas fork at slot 3, so that slots 2 and 3 prove one execution block | `RelayTypeOK`, `ReceiverTrust`, `ReceiverFreezesOnEvidence`, `ProofsReflectChain`, `MessagesFitTogether`, `StateIdsAgree`, `ReceiverKeepsPromise` |
| `Relaying` | messages lost and retried; the committee of period 2 equivocates | `FreezeCanBeRelayed`, `FreezeArrives` |
| `OutOfOrder` | messages lost and retried in one period of three blocks, each of which can be updated to from each earlier one | `RetriesRepeat`, `NothingIsOutOfReach`, `CatchesUp` |
| `UnsetStorageRoot` | a creator that forgets the storage root | `StorageRootsAreInitialized`, violated |

What they show:

- `TrustedStates`: every stored state describes a finalised canonical block at
  its execution height, unless a committee of its period, the next or an earlier
  one equivocated. Leaked keys do not suffice, in whatever order headers come.
- `LatestIsMaxStored`: back-filling an older height does not lower the latest.
- `RootsAreFinal`, `StateIdsAreFinal`: a height may be written twice, but never
  with another root or timestamp (across the fork this is part of `KeepsPromise`)
  and, away from Gloas, never with another state.
  Around Gloas the *state* at a height does change (two finalised blocks prove
  one execution block), even to an earlier slot: a header that names that height
  as trusted, prepared before, may find `is_next` wrong and have to be rebuilt.
- `MembershipReflectsChain`, `UpdatesGoForward`: the messages are true.
- `NoFalseFreeze`, `FrozenIsFinal`, `ExpiredIsFinal`: a client freezes only on
  evidence against a committee that could vouch for the state trusted, and a
  frozen or expired client stays as it is.
- `NoStateAtHeightZero`: the first Gloas blocks prove execution block 0, which
  `Header::validate` refuses.
- `StoredAnysDecode`, `PostStateIsStored`, `ImplementsClient`: storing and
  reading back lose nothing.
- `EvidenceIsOfItsKind`: what has frozen a client is, on its own, evidence of
  the kind that its type URL names, by a committee of the state at the height
  that the client is frozen at. The two kinds are encoded alike, so that only
  the type URL keeps two updates that agree on the next committee from being
  taken for a conflict about it. Evidence sent under the other URL is among the
  messages here, and so are updates that conflict in one way only.
- `HonestHeadersAreAccepted`, `FollowsChain`: while no committee equivocates,
  no history of calls by others leaves a client that turns away a canonical
  header from an unexpired state, and a client that is relayed to follows the
  chain from period to period and across the fork. This needs a finalised block
  in every period, and a retry of the relayer: in Gloas, others can keep setting
  a stored height back to an earlier slot with headers that prove the same
  execution block.
- `FrozenStoreIsFinal`, `FreezeIsAnnounced`, `LatestIsMaxStored` over
  `HostService`: these need the host to run the updates of one client one at a
  time. Nothing under `src/` does. Without it, an update that has read the
  client before a freeze writes it back unfrozen, and the latest height can
  fall (with `Exclusive = FALSE`, or with the mutant
  `ReadClientState_overlapping`, TLC finds both). A membership message may
  always follow a freeze, if the call had read the client before.
- `TrustedStates`, `MembershipReflectsChain`, `RootsAreFinal` hold over
  `HostService` even when nothing is excluded: no lie gets in by overlap.
- `ReceiverTrust`, `ReceiverFreezesOnEvidence`: when the host's clock is late
  the *client* may believe, or be frozen by, committees whose keys leaked, and
  the receiver refuses on account of the context. The two timestamps of the
  context could change places without harm to trust, since the older of them is
  what expires; `FreezeArrives` is what that mutant breaks.
- `ReceiverKeepsPromise`: the receiver is itself a `VerifiedChain`. In `SlowHost`
  the host's clock lets the client store forged states, and the receiver's
  heights are rewritten, by new messages and back by old ones; the facts behind
  the state ids that it holds are canonical and stay the same.
- `ProofsReflectChain`: a membership message may be made from another state at
  its height than the one the receiver holds; what it says is true all the same.
- `MessagesFitTogether`, `StateIdsAgree`: a state id is a hash of the client
  state and a consensus state, and client states move on, or freeze, between
  the messages that carry it. Since `canonicalize` clears what moves, what one
  message ends in another can start from; a `canonicalize` that forgets one of
  the two fields breaks these and `FreezeCanBeRelayed`, whose message is made
  from the *frozen* client state.
- `RetriesRepeat`, `NothingIsOutOfReach`: a header submitted again, however much
  later, gets the message that was lost, and whatever part of the messages has
  arrived, in whatever order, one of them takes the receiver further. These are
  what makes `CatchesUp` true. They are stated for canonical states before
  Gloas: after it the state at a height is rewritten, so that one header makes
  different messages and a receiver can hold another state of the height that a
  message starts from.
- `CatchesUp`, `FreezeArrives`: messages fit together in whatever order updates
  were made, and a lost update can be made again by submitting its header
  again. A lost *misbehaviour* message cannot: the client is frozen by then and
  answers no call, so the receiver stays unfrozen unless another client is
  used. Where a height has been rewritten (equivocation, Gloas) the chain of
  state ids can break, or an old message take the receiver's height back to
  the state before; `CatchesUp` is stated for clients that are not misled, on a
  chain before Gloas.

**Finding.** `ConsensusState::validate` tests `storage_root.as_bytes().is_empty()`
(`consensus_state.rs` 76), which is never true of a 32-byte hash, so its
`UninitializedConsensusStateField("storage_root")` is never returned and a client
whose storage root was left at the default is created. `UnsetStorageRoot` shows
the step; the theorems that depend on truthful creation assume that this
omission does not happen.

**Bounds.** `MaxSlot`, `MaxTime` and `MaxHeight` bound the chain, the clock and
the heights that headers name. Six slots are three or two periods with a
boundary inside and outside the trusted state's next period; the clock runs
past the trusting period of the last block; two branches are one truth and one
lie; two clients are enough for one to be frozen while the other works, since a
call touches one. Headers are all combinations of block, committee, trusted
height, `is_next`, signature slot and next committee from MCChain; the other MC
modules take those of a relayer that picks the committee a client would expect,
since there each message comes in all its damaged forms, is in flight at two
workers, or stays with relayers. Two workers are enough for one call to begin
before another ends; they are symmetric. Four slots, two periods and three
heights are enough for a back-fill, a period boundary and a rewritten height
during a call, and for a message that needs the one before it. `OutOfOrder` has
a single period because heights can be filled in behind later ones only from a
state whose committees still sign. The clock bound makes the system stop when
every client is frozen or has everything, so the runs where that can happen do
not check deadlock; in `OutOfOrder` relayers always have something to do.

**Fairness.** The crate answers calls and schedules nothing, so the safety runs
assume none. Liveness is about relayers. `FollowingSpec` (HonestRelayer) has weak
fairness of the clock and, for each block, *strong* fairness of relaying it:
the relayer's header may be refused after a third party has rewritten the
height it starts from, and the relayer builds it anew from what is stored then.
`FairSpec` (ProxyRelay) has weak fairness of the creation, which is a dialogue
and not lost, and of submitting the header of a lost message again, and strong
fairness of delivering updates and misbehaviour, which others may lose time and
again: relayers retry what was not included
(`tests/configs/templates/ibc-0.json.tpl` 17). Nothing is assumed about who
wins a race, and every liveness property ends in expiry as the alternative,
since no fairness can outrun the trusting period.

## Proofs

`tlapm` checks, for every chain, set of messages, number of clients, workers and
messages in flight:

| Theorem | Statement |
|---|---|
| `TypeCorrect` | `Spec => []TypeOK` |
| `TrustIsSound`, `FreezesAreJustified` | `Spec => []TrustedStates`, `[]NoFalseFreeze` |
| `LatestIsGreatest`, `HeightZeroIsNeverStored` | `Spec => []LatestIsMaxStored`, `[]NoStateAtHeightZero` |
| `FrozenStaysFrozen` | `Spec => FrozenIsFinal` |
| `ExpiredStaysExpired` | `Spec => ExpiredIsFinal` |
| `StorageRootsStaySettled`, `StateIdsStaySettled` | `Spec => RootsAreFinal`, `StateIdsAreFinal` |
| `MessagesGoForward`, `MembershipIsSound` | `Spec => []UpdatesGoForward`, `[]MembershipReflectsChain` |
| `LightClientKeepsPromise` | `Spec => KeepsPromise`, that is, `VerifiedChain` is implemented |
| `ServiceTypeCorrect` | `ServiceSpec => []ServiceTypeOK` |
| `OverlappingCallsAreTrustworthy`, `OverlappingMembershipIsSound`, `OverlappingCallsKeepRoots` | `ServiceSpec => []TrustedStates`, `[]MembershipReflectsChain`, `RootsAreFinal`, whether or not updates exclude each other |
| `OverlappingCallsKeepStateIds`, `OverlappingMessagesGoForward` | `ServiceSpec => StateIdsAreFinal`, `[]UpdatesGoForward`, likewise |
| `ServedFreezeIsFinal`, `ServedFreezeIsAnnounced`, `ServedFreezesAreJustified`, `ServedLatestIsGreatest` | if `Exclusive`: `ServiceSpec => FrozenStoreIsFinal`, `FreezeIsAnnounced`, `[]NoFalseFreeze`, `[]LatestIsMaxStored` |
| `ServiceKeepsPromise` | if `Exclusive`: `ServiceSpec => KeepsPromise`, the service implements `VerifiedChain` |
| `RelayTypeCorrect` | `RelaySpec => []RelayTypeOK` |
| `ReceiverHoldsCanonicalStates`, `ReceiverFreezesAreJustified`, `ProofsAreTrue` | `RelaySpec => []ReceiverTrust`, `[]ReceiverFreezesOnEvidence`, `[]ProofsReflectChain` |
| `MessagesFit`, `FreezesAreAnnounced` | `RelaySpec => []MessagesFitTogether`, `[]FreezeCanBeRelayed` |
| `ReceiverAgreesOnStateIds`, `RetriesGetTheSameMessage`, `ReceiverIsNeverStuck` | `RelaySpec => []StateIdsAgree`, `[]RetriesRepeat`, `[]NothingIsOutOfReach` |
| `ReceiverIsALightClient` | without equivocation, `RelaySpec => ReceiverKeepsPromise`: the receiver implements `VerifiedChain` |
| `WireTypeCorrect`, `StoredClientsAreReadable`, `AnnouncedStateIsStored` | AnyStore's `Spec => []TypeOK`, `[]StoredAnysDecode`, `[]PostStateIsStored` |
| `EncodingIsTransparent` | AnyStore's `Spec => ImplementsClient`: it implements `EthereumLightClient` |
| `EncodedStatesAreTrustworthy` | AnyStore's `Spec => []TrustedStates` and `[]NoFalseFreeze` of the decoded store |
| `EvidenceKeepsItsKind` | AnyStore's `Spec => []EvidenceIsOfItsKind` |
| `HonestRelayersAreServed` | without equivocation, `Spec => []HonestHeadersAreAccepted` |

Assumptions, all named in the modules: the shape of the chain
(`SlotAssumption`, `BranchAssumption`, `PayloadAssumption`), well-typed inputs
(`InputAssumption`, `ParamsAssumption`), and `TrustingPeriodAssumption`: clients
are configured with a trusting period no longer than the weak subjectivity
period; for the encoded store also that no value on the wire is taken for
a missing or a malformed one (`WireAssumption`), and that evidence of one kind may also be
submitted under the type URL of the other, with which it is evidence of that
kind (`KindAssumption`). The ones about truth add that the creator sets the storage root
(`"storage_root" \notin Omissions`), and `LightClientKeepsPromise`,
`ServiceKeepsPromise`, `ReceiverIsALightClient` and `HonestRelayersAreServed` that no committee equivocates.

The argument. `TrustedStates` is not inductive: a state is as good as the keys
that verified it. The invariant `Trust` adds `CorruptionIsAllowed`, that keys in
other hands are those `MayBeCorrupted` allows *now*. Then, from a canonical
state within its trusting period, the state's own committees still have safe
keys or are to blame (`SafeKeys`: the trusted block is younger than the weak
subjectivity period, and it lies in or before the committee's period); what
they signed is canonical; the finalised, attested and signature periods are
squeezed between the trusted period and the one after it, so that the next
committee an update brings is the one of the finalised period
(`AcceptedHeader`). Blame spreads only forward, because updates do. Two
canonical headers cannot conflict, so accepted misbehaviour is evidence
(`AcceptedMisbehaviour`). That a height has one execution block follows from
the payload sets of two blocks of a branch being nested, so that equal
cardinality is equality (`SameNumberSameExecution`).

In `HostService` the argument is about a call that has been checked: the
invariant says of each call in execution that the states it has read are copies
of states that were stored, canonical or with somebody to blame, and that what
it will commit follows from an accepted header. Keys that leak after the check
do not matter, because `check_header` was true of the keys *then*, and its
conclusion (`AcceptedHeader`) is about the chain and not about keys. With
`Exclusive`, at most one updating call per client is in execution, and the copy
it holds of the client state *is* the stored one until it commits; freezing,
the second read and the greatest height follow, and
with `TrustedStates` that each commit is a step of `VerifiedChain`
(`StoringIsLearning`). That freezes are justified is proved for
`Exclusive` only: the evidence is against the state that was *read*, which an
overlapping update might have replaced.

In `ProxyRelay` the client itself is not to be trusted, for its clock may be
late. The invariant `RelayTrust` is about messages: an update message in flight
that starts from a canonical state id and whose context is valid *at the
receiver's time* leads to a canonical one. A message's context carries the
timestamp of the state it starts from, which the state id ties to the state
that the receiver holds; if that is within the trusting period at `time`, its
keys were safe at every earlier moment, in particular when the client checked.
Without equivocation every state id that the receiver comes to hold is then
canonical, two canonical states at one height agree in root and timestamp, and
holding it is a step of `VerifiedChain` (`HoldingIsLearning`); that the greatest
height held exists (`HeldHeightsHaveGreatest`) is part of that invariant.

What the messages are good for is a second invariant there, `Fit`, which assumes
nothing of keys, clocks or creators. `MessagesFitTogether` alone is not
inductive: a new message starts from what the client *has*, so that each stored
state must have been announced (`StoredStatesAreAnnounced`), under the state id
that it has now, although the client state has changed since; hence every
message is a function of the client's fixed part and of the two states it leads
between (`IsRegular`), and so is every id held (`HeldStatesAreAnnounced`). A
call keeps this because of the one thing proved of each kind of call in turn
(`CallOutcome`): its premises are stored states, what it stores it announces,
and `canonicalize` of the client state stays the same. `RetriesRepeat` is then
two canonical states per message and one state per height
(`OneExecutionBlockPerHeight`). For `NothingIsOutOfReach`, take, among the
messages for heights that the receiver lacks, one of the least slot
(`LeastMissingIsNext`): it is the creation, or it starts from a height that
another message of an earlier slot ends in. The receiver has that height, by
the choice of the message, and under that very id. `FreezeCanBeRelayed` is part
of `Fit`, for a call that freezes is a call that makes the message.

In `AnyStoreProofs` the decoders undo the encoders for every state
(`ClientStateRoundTrip`, `ConsensusStateRoundTrip`, for whatever
`NanosPerSecond`), and every damaged creation that still decodes decodes to a
well-formed state: what is spoilt in it is one field (`SpoiltField`), and the
decoder would have refused it. The types of the store, its readability and the
announced state id are inductive together (`WireInv`). `EvidenceIsOfItsKind` is
inductive relative to them: the only step that makes such a message checks the
conflict by the kind that it read off the type URL, and stores a client state
that decodes to the one frozen at the trusted height.

`AnyStoreRefinementProofs` goes from there to the refinement. Writing an encoded
state is writing the state it decodes to, under the same height
(`StoreViews`, `StoreConsensusViews`); a damaged creation that is accepted is
the creation of `EthereumLightClient` with one of `Omissions`
(`CreationIsACreation`); a message that decodes is a header or misbehaviour that
`EthereumLightClient` may be handed, which for evidence under the other type
URL is where `KindAssumption` is used (`SpoiltMisbehaviour`); and each call is
then the same call over the decoded store (`StepIsAStep`). The trust argument
carries over to the decoded store by the same lemmas about accepted headers.

`HonestRelayersAreServed` (`HonestRelayerProofs`) combines readability with
trust: what an honest relayer builds on is a canonical state that decodes, so
that its own committees are those that signed the canonical update, and each
check of `check_header_and_update_state` passes in turn
(`HonestHeaderPassesChecks`).

Only model-checked: the liveness properties `FollowsChain`, `CatchesUp` and
`FreezeArrives`. Liveness under fairness is beyond the prover.

## What is left out

- `prove` flags; which of several errors a failing call returns, and its wording:
  a call that fails changes nothing, whichever check it was.
- What the enclave adds to a message: signatures, its aggregation of several
  messages into one (`message_aggregation` in `ibc-0.json.tpl`), attestation.
- A host whose clock is ahead of the receiver's, and hosts that lose what they
  have committed: the crate persists nothing and has no recovery of its own.
- Signatures, quorums, Merkle branches, RLP: abstracted to who may have signed
  and what is proved from what.
- `TrustedSyncCommittee::validate`, which compares a committee with its own
  aggregate key; committees *are* aggregate keys here.
- The revision number of heights, always 0.
- Times before 1970 in a raw state and the upper end of the clock's range.
- `new_timestamp`, which only tests call.

## Plan

1. *Core* (done): `EthereumLightClient` with its checks, the abstract
   `VerifiedChain`, its runs and theorems.
2. *Encoded store* (done): `WireCodec`, `AnyStore`; type correctness,
   readability, announced states and kinds of evidence proved.
3. *Several workers* (done): `HostService`, its runs and theorems.
4. *Relayers and receiver* (done): `ProxyRelay`, its runs and theorems,
   liveness under retries.
5. *Refinement of the encoded store, honest relayers served* (done):
   `AnyStoreRefinementProofs`, `HonestRelayer`, `HonestRelayerProofs`.
6. *The receiver as a light client*, across the Gloas fork (done):
   `ReceiverKeepsPromise`, proved.
7. *How messages fit together*, the safety behind `CatchesUp` and
   `FreezeArrives` (done): five properties of `ProxyRelay`, proved.
8. Next: what relayers must do on the far side of the fork for a receiver to
   catch up, where an old message can take a height back to the state before.
