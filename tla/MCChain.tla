------------------------------ MODULE MCChain ------------------------------
(***************************************************************************)
(* Small chains and messages for TLC: two branches, the headers a relayer  *)
(* can put together from them, and misbehaviour.                           *)
(***************************************************************************)
EXTENDS ClientState

CONSTANTS canonical, forged,    \* the branches
          CanonicalSlots,       \* where the canonical branch has blocks
          CanonicalPayloads,    \* and payloads
          ForgedSlots,          \* and the same for the forged branch
          ForgedPayloads,
          MaxHeight,            \* bound: the heights a header may trust
          TrustingPeriods       \* one per way of configuring a client

MCBranches == {canonical, forged}
MCBlocks == [b \in MCBranches |-> IF b = canonical THEN CanonicalSlots ELSE ForgedSlots]
MCPayloads == [b \in MCBranches |-> IF b = canonical THEN CanonicalPayloads ELSE ForgedPayloads]
\* The commitment appears in the third slot of the canonical chain only.
MCCommittedFrom == [b \in MCBranches |-> IF b = canonical THEN 3 ELSE MaxSlot + 1]

MCParams ==
    {[initialized |-> TRUE, trusting_period |-> t, max_clock_drift |-> 0] :
        t \in TrustingPeriods}
    \cup {[initialized |-> FALSE, trusting_period |-> 1, max_clock_drift |-> 0],
          [initialized |-> TRUE, trusting_period |-> 0, max_clock_drift |-> 0]}

Period(slot) == compute_sync_committee_period_at_slot(slot)

AllBlocks == UNION {{[branch |-> b, slot |-> s] : s \in MCBlocks[b]} : b \in MCBranches}

\* Signed right after the finalised slot, or in the next period's first slot.
SignatureSlots(block) == {block.slot + 1, (Period(block.slot) + 1) * SlotsPerPeriod}

\* A next committee is absent, the branch's own, or forged.
Updates ==
    UNION {{[finalized |-> block, attested_slot |-> sig - 1, signature_slot |-> sig,
             next_sync_committee |-> key] :
              key \in {DefaultKey, CommitteeOf(block.branch, Period(sig - 1) + 1),
                       CommitteeOf(forged, Period(sig - 1) + 1)}} :
           block \in AllBlocks, sig \in UNION {SignatureSlots(b) : b \in AllBlocks}}

PlausibleUpdates == {u \in Updates : u.signature_slot \in SignatureSlots(u.finalized)}

\* The committees that may present themselves for an update.
Trusted(update) ==
    {[height |-> h, sync_committee |-> CommitteeOf(b, Period(update.signature_slot)),
      is_next |-> next] : h \in 0 .. MaxHeight, b \in MCBranches, next \in BOOLEAN}

HeaderFor(trusted, update, execution, account) ==
    [trusted |-> trusted, update |-> update,
     execution |-> ExecutionUpdateOf(execution),
     account_storage_root |-> StorageRootAt(account)]

TruthfulHeaders ==
    UNION {{HeaderFor(t, u, u.finalized, u.finalized) : t \in Trusted(u)} :
             u \in PlausibleUpdates}

\* The execution or account update belongs to another block.
LyingHeaders ==
    UNION {{HeaderFor(t, u, b, a) :
              t \in {x \in Trusted(u) : x.sync_committee.branch = canonical},
              b \in {u.finalized, [branch |-> forged, slot |-> u.finalized.slot]},
              a \in {[branch |-> forged, slot |-> u.finalized.slot]}} :
             u \in {x \in PlausibleUpdates : x.finalized.branch = canonical
                                             /\ x.next_sync_committee = DefaultKey}}

\* The execution update is right but for an rlp that cannot be read.
WithoutTimestamp(header) == [header EXCEPT !.execution.timestamp = NoTimestamp]

UnreadableHeaders ==
    {WithoutTimestamp(header) : header \in {x \in TruthfulHeaders :
        x.trusted.sync_committee.branch = canonical
          /\ x.update.finalized.branch = canonical
          /\ x.update.next_sync_committee.branch = canonical}}

MCHeaders == TruthfulHeaders \cup LyingHeaders \cup UnreadableHeaders

MCMisbehaviours ==
    UNION {{[client_id |-> c, trusted |-> t,
             data |-> [kind |-> k, update_1 |-> u, update_2 |-> v]] :
              c \in ClientIds, t \in Trusted(u),
              k \in {"FinalizedHeader", "NextSyncCommittee"},
              v \in {x \in PlausibleUpdates :
                       /\ x.signature_slot = u.signature_slot
                       /\ x.finalized.slot = u.finalized.slot
                       /\ x # u}} :
           u \in {x \in PlausibleUpdates : x.finalized.branch = canonical}}
=============================================================================
