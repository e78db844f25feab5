------------------------ MODULE MCCapabilityRegistry ------------------------
(***************************************************************************)
(* Three registrations over two types: enough to remove the first, the     *)
(* middle and the last entry of an index.  Bonds in units of 0.05 ETH.     *)
(***************************************************************************)
EXTENDS CapabilityRegistry

CONSTANTS creator, buyer
=============================================================================
