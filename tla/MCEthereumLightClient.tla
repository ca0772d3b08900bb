----------------------- MODULE MCEthereumLightClient -----------------------
(***************************************************************************)
(* Instances of EthereumLightClient for TLC, on the chains of MCChain.     *)
(***************************************************************************)
EXTENDS EthereumLightClientRefinement, MCChain
=============================================================================
