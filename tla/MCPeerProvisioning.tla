-------------------------- MODULE MCPeerProvisioning --------------------------
(* A small instance of the peer provisioning for TLC.  A byte has five values, *)
(* so a whole block has two host addresses, 2 and 3.                     *)
EXTENDS PeerProvisioning, TLC

MCWholeBlock == [base |-> 0, size |-> 5]
MCHalfBlock  == [base |-> 0, size |-> 3]
MCSymmetry   == Permutations(Handler) \cup Permutations(Token)
=============================================================================
