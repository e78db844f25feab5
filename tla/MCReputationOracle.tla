------------------------- MODULE MCReputationOracle -------------------------
(***************************************************************************)
(* One agent whose completions others countersign and challenge, amounts   *)
(* in units of 0.01 ETH.  The agent's stake of six pays one upheld         *)
(* challenge in full and the next one in part.                             *)
(***************************************************************************)
EXTENDS ReputationOracle

CONSTANTS agent, requester, other
=============================================================================
