---------------------------- MODULE MCHostService ----------------------------
(***************************************************************************)
(* Instances of HostService for TLC, on the chains of MCChain, with the    *)
(* messages whose committee is one of the trusted branch.                  *)
(***************************************************************************)
EXTENDS HostService, MCChain, TLC

WorkerSymmetry == Permutations(Workers)

IsExpected(trusted) == trusted.height # 0 /\ trusted.sync_committee.branch = canonical

ServedHeaders ==
    {header \in TruthfulHeaders :
        /\ IsExpected(header.trusted)
        /\ header.update.next_sync_committee =
             CommitteeOf(header.update.finalized.branch,
                         Period(header.update.attested_slot) + 1)}

ServedMisbehaviours ==
    {misbehaviour \in MCMisbehaviours :
        /\ IsExpected(misbehaviour.trusted)
        /\ misbehaviour.data.kind = "FinalizedHeader"
        /\ DefaultKey = misbehaviour.data.update_1.next_sync_committee
        /\ DefaultKey = misbehaviour.data.update_2.next_sync_committee}
=============================================================================
