------------------------------ MODULE MCSyncQueue ------------------------------
(* A small instance of the kernel-sync queue for TLC. *)
EXTENDS SyncQueueRefinement, TLC

CONSTANTS s1, p1, p2, u1

MCOwner  == [p \in Peer |-> u1]
MCModeOf == [s \in Server |-> "local"]
=============================================================================
