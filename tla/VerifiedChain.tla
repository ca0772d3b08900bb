--------------------------- MODULE VerifiedChain ----------------------------
(***************************************************************************)
(* What a light client promises while no sync committee equivocates: each  *)
(* client holds, per height, facts about the one execution block of the    *)
(* canonical chain with that number.  A fact, once held, stays, and nothing*)
(* else is ever held.  There are no keys, no periods, no clock and no      *)
(* freezing here: EthereumLightClient is to hide them.                     *)
(***************************************************************************)
EXTENDS BeaconChain

CONSTANTS ClientIds, None

VARIABLES
    verified,   \* client -> height -> the facts held about that height
    latest      \* client -> the greatest of its heights, None before the first

Finalized == {block \in [branch : {Canonical}, slot : Slots] :
                 block.slot \in Blocks[Canonical]}

NumberOf(block) == ExecutionUpdateOf(block).block_number

FactsOf(block) ==
    [storage_root |-> StorageRootAt(block),
     timestamp    |-> compute_timestamp_at_slot(ExecutionSlot(block))]

Init ==
    /\ verified = [c \in ClientIds |-> [h \in {} |-> FactsOf(h)]]
    /\ latest = [c \in ClientIds |-> None]

Learn(c, block) ==
    /\ verified' =
         [verified EXCEPT ![c] =
            [h \in DOMAIN verified[c] \cup {NumberOf(block)} |->
                IF h \in DOMAIN verified[c] THEN verified[c][h] ELSE FactsOf(block)]]
    /\ latest' =
         [latest EXCEPT ![c] =
            IF latest[c] = None \/ latest[c] < NumberOf(block)
              THEN NumberOf(block) ELSE latest[c]]

Next == \E c \in ClientIds, block \in Finalized : Learn(c, block)

Spec == Init /\ [][Next]_<<verified, latest>>
=============================================================================
