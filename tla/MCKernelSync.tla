----------------------------- MODULE MCKernelSync -----------------------------
(* Small instances of the kernel sync with its helper for TLC: s1 is managed  *)
(* on this host; s2 either belongs to a node and happens to use the same      *)
(* interface name, or is a second local server with an interface of its own.  *)
EXTENDS KernelSync, TLC

CONSTANTS s1, s2, p1, u1, wg0, wg1, c1, c2

MCOwner       == [p \in Peer |-> u1]
MCOneLocal    == [s \in Server |-> IF s = s1 THEN "local" ELSE "remote"]
MCAllLocal    == [s \in Server |-> "local"]
MCSharedIface == [s \in Server |-> wg0]
MCPortOf      == [c \in Conf |-> IF c = c1 THEN 1 ELSE 2]
MCOwnIface    == [s \in Server |-> IF s = s1 THEN wg0 ELSE wg1]
=============================================================================
