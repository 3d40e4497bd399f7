------------------------ MODULE MCControllerElection ------------------------
(* Model values and symmetry for ControllerElection. *)
EXTENDS ControllerElection, TLC

CONSTANTS b1, b2, b3

MCBroker == {b1, b2, b3}
MCPair == {b1, b2}
Symmetry == Permutations(MCBroker)
=============================================================================
