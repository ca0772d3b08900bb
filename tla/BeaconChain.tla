---------------------------- MODULE BeaconChain ----------------------------
(***************************************************************************)
(* The Ethereum chain the light client follows, and what its sync          *)
(* committees have signed.  None of it is code under src/: it is the       *)
(* environment of the client, as the client's inputs show it.              *)
(*                                                                         *)
(* Finalised beacon blocks are pairs of a branch and a slot.  Exactly one  *)
(* branch is canonical; the others stand for histories that only a sync    *)
(* committee whose keys leaked, or that equivocates, can sign.  Time is    *)
(* counted in slots: SecondsPerSlot is the unit.                           *)
(***************************************************************************)
EXTENDS Integers, FiniteSets, FiniteSetsExt

CONSTANTS
    MaxSlot,            \* bound: the last slot any block of the model is in
    SlotsPerPeriod,     \* slots_per_epoch * epochs_per_sync_committee_period
    GenesisTime,        \* genesis_time, in slots
    GloasSlot,          \* the first slot of the Gloas fork
    Branches,           \* the finalised histories that may be presented
    Canonical,          \* the one that Ethereum finalised
    NoBranch,           \* the branch of nothing: marks default keys and roots
    Blocks,             \* branch -> the slots at which it has a beacon block
    Payloads,           \* branch -> the slots whose execution payload it includes
    CommittedFrom,      \* branch -> the slot from which the IBC commitment exists
    WeakSubjectivityPeriod, \* how long after a slot its signers' keys stay safe
    FaultyPeriods       \* sync committee periods whose committee equivocates

Slots == 1 .. MaxSlot

ASSUME SlotAssumption ==
    /\ MaxSlot \in Nat \ {0}
    /\ SlotsPerPeriod \in Nat \ {0}
    /\ GenesisTime \in Nat \ {0}
    /\ GloasSlot \in Nat
    /\ WeakSubjectivityPeriod \in Nat

ASSUME BranchAssumption ==
    /\ Canonical \in Branches
    /\ NoBranch \notin Branches
    /\ Blocks \in [Branches -> SUBSET Slots]
    /\ Payloads \in [Branches -> SUBSET Slots]
    /\ CommittedFrom \in [Branches -> Nat]

\* A beacon block carries its payload before Gloas; from Gloas on the payload
\* is revealed separately and may be withheld.
ASSUME PayloadAssumption ==
    \A b \in Branches :
        /\ Payloads[b] \subseteq Blocks[b]
        /\ {s \in Blocks[b] : s < GloasSlot} \subseteq Payloads[b]

ASSUME FaultAssumption == FaultyPeriods \subseteq Nat

-----------------------------------------------------------------------------
(* Slots, periods and time *)

compute_sync_committee_period_at_slot(slot) == slot \div SlotsPerPeriod

compute_timestamp_at_slot(slot) == GenesisTime + slot

\* The wall-clock slot at a time.
current_slot(time) == time - GenesisTime

-----------------------------------------------------------------------------
(* Beacon blocks and the execution block each one lets a proof reach *)

Block == [branch : Branches, slot : Nat]

IsCanonicalBlock(block) ==
    /\ block.branch = Canonical
    /\ block.slot \in Blocks[Canonical]

\* The slots of the payloads on the chain that ends in the execution block
\* provable from `block`: its own payload before Gloas, its bid's parent after.
ProvablePayloads(block) ==
    {s \in Payloads[block.branch] :
        IF block.slot < GloasSlot THEN s <= block.slot ELSE s < block.slot}

ExecutionSlot(block) == Max({0} \cup ProvablePayloads(block))

\* A root of the execution chain: `state` roots the world state and `storage`
\* the IBC contract's storage, at the block with this branch and slot.
Root == [kind : {"state", "storage", "default"},
         branch : Branches \cup {NoBranch}, slot : Nat]

RootAt(kind, block) ==
    [kind |-> kind, branch |-> block.branch, slot |-> ExecutionSlot(block)]

DefaultRoot == [kind |-> "default", branch |-> NoBranch, slot |-> 0]

StorageRootAt(block) == RootAt("storage", block)

\* The execution block described by a truthful execution update for `block`.
\* Number 0 is the execution genesis block.
ExecutionUpdateOf(block) ==
    [block_number |-> Cardinality(ProvablePayloads(block)),
     state_root   |-> RootAt("state", block),
     timestamp    |-> compute_timestamp_at_slot(ExecutionSlot(block))]

\* What is read from an execution update whose rlp is no execution block header.
NoTimestamp == -1

ExecutionUpdate ==
    [block_number : Nat, state_root : Root, timestamp : Nat \cup {NoTimestamp}]

\* Whether the IBC contract's storage holds the commitment under this root.
HasCommitment(root) ==
    /\ root.kind = "storage"
    /\ root.branch \in Branches
    /\ CommittedFrom[root.branch] <= root.slot

-----------------------------------------------------------------------------
(* Sync committees: the aggregate public key names the committee *)

PublicKey == [period : Nat, branch : Branches]

DefaultKey == [period |-> 0, branch |-> NoBranch]

CommitteeOf(branch, period) == [period |-> period, branch |-> branch]

ConsensusUpdate ==
    [finalized : Block, attested_slot : Nat, signature_slot : Nat,
     next_sync_committee : PublicKey \cup {DefaultKey}]

\* An update that the canonical chain produced by `time`.  Its next sync
\* committee, when present, is the one in the attested header's state.
IsCanonicalUpdate(update, time) ==
    /\ IsCanonicalBlock(update.finalized)
    /\ update.finalized.slot <= update.attested_slot
    /\ update.attested_slot < update.signature_slot
    /\ update.signature_slot <= current_slot(time)
    /\ update.next_sync_committee \in
         {DefaultKey,
          CommitteeOf(Canonical,
              compute_sync_committee_period_at_slot(update.attested_slot) + 1)}

\* Whether `key` may have signed `update`: a canonical committee signs only
\* canonical updates in its own period, until its keys are in other hands.
MayHaveSigned(key, update, time, corrupt) ==
    \/ key.branch # Canonical
    \/ key.period \in corrupt
    \/ /\ IsCanonicalUpdate(update, time)
       /\ key.period = compute_sync_committee_period_at_slot(update.signature_slot)

\* When the keys of the committee of `period` may be in other hands: always if
\* it equivocates, and otherwise only once every slot up to the end of its
\* period is older than the weak subjectivity period.
MayBeCorrupted(period, time) ==
    \/ period \in FaultyPeriods
    \/ \A slot \in Slots :
          compute_sync_committee_period_at_slot(slot) <= period
            => compute_timestamp_at_slot(slot) + WeakSubjectivityPeriod <= time

CommitteePeriods == 0 .. compute_sync_committee_period_at_slot(MaxSlot) + 1
=============================================================================
