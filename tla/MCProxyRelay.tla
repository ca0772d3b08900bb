---------------------------- MODULE MCProxyRelay ----------------------------
(***************************************************************************)
(* Instances of ProxyRelay for TLC, on the chains of MCChain, with the     *)
(* headers and the evidence whose committee is one of the trusted branch.  *)
(***************************************************************************)
EXTENDS ProxyRelay, MCChain

\* The commitment appears in the second slot of the canonical chain only.
RelayedCommittedFrom ==
    [b \in MCBranches |-> IF b = canonical THEN 2 ELSE MaxSlot + 1]

\* Signed in the period of the trusted state's committee, with the next
\* committee of the finalised block's own branch where one is needed.
RelayedHeaders ==
    {header \in TruthfulHeaders :
        /\ header.trusted.height # 0
        /\ header.update.next_sync_committee =
             IF Period(header.update.finalized.slot) < Period(header.update.attested_slot)
                  \/ header.trusted.sync_committee.branch # canonical
               THEN DefaultKey
               ELSE CommitteeOf(header.update.finalized.branch,
                                Period(header.update.attested_slot) + 1)}

RelayedMisbehaviours ==
    {misbehaviour \in MCMisbehaviours :
        /\ misbehaviour.trusted.height # 0
        /\ misbehaviour.trusted.sync_committee.branch = canonical
        /\ misbehaviour.data.kind = "FinalizedHeader"
        /\ DefaultKey = misbehaviour.data.update_1.next_sync_committee
        /\ DefaultKey = misbehaviour.data.update_2.next_sync_committee}
=============================================================================
