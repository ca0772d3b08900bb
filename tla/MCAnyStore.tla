----------------------------- MODULE MCAnyStore -----------------------------
(***************************************************************************)
(* Instances of AnyStore and HonestRelayer for TLC, on MCChain.  There are *)
(* fewer messages here, since each comes in all its damaged forms: those of*)
(* a relayer that picks the committee the client expects.                  *)
(***************************************************************************)
EXTENDS HonestRelayer, MCChain

IsExpected(trusted) == trusted.height # 0 /\ trusted.sync_committee.branch = canonical

WireHeaders ==
    {header \in TruthfulHeaders \cup UnreadableHeaders :
        /\ IsExpected(header.trusted)
        /\ header.update.next_sync_committee.branch = header.update.finalized.branch}

\* With the next committee and without it.
FollowedHeaders ==
    {header \in TruthfulHeaders :
        /\ IsExpected(header.trusted)
        /\ header.update.finalized.branch = canonical
        /\ header.update.next_sync_committee.branch \in {canonical, NoBranch}}

WireMisbehaviours ==
    {misbehaviour \in MCMisbehaviours :
        /\ IsExpected(misbehaviour.trusted)
        /\ misbehaviour.data.update_1.next_sync_committee # DefaultKey
        /\ misbehaviour.data.update_2.next_sync_committee # DefaultKey}
=============================================================================
