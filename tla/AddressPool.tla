----------------------------- MODULE AddressPool -----------------------------
(***************************************************************************)
(* The choice of a peer's tunnel address (nextAvailableIP in               *)
(* backend/internal/api/peers.go) and of the server's own (gatewayForCIDR  *)
(* in servers.go).  An IPv4 address is a number and a network an interval  *)
(* of them.  Both functions do their arithmetic on the last byte of the    *)
(* network's base address, so the number of values of a byte is a          *)
(* parameter here: 256 in the code, a handful in the instances that TLC    *)
(* fills up.                                                               *)
(***************************************************************************)
EXTENDS Naturals

CONSTANTS
    Octet,      \* how many values a byte has
    NoAddress   \* the error "no free addresses left"

ASSUME OctetAssumption   == Octet \in Nat /\ Octet >= 4
ASSUME AddressAssumption == NoAddress \notin Nat

\* An IPv4 network: the masked base address and the number of addresses.
Networks == [base : Nat, size : Nat \ {0}]

InNetwork(net, a) == net.base <= a /\ a < net.base + net.size

\* The address whose last byte is zero.
Block(a) == a - (a % Octet)

\* base[3]++ on a byte.
Incremented(byte) == IF byte = Octet - 1 THEN 0 ELSE byte + 1
Gateway(net)      == Block(net.base) + Incremented(net.base % Octet)

\* The addresses the scan visits: the last byte, whatever the base has there,
\* runs from 2 to the last but one value.
Candidates(net) == {Block(net.base) + i : i \in 2 .. Octet - 2}

Free(net, used) == Candidates(net) \ used

\* Mutant: the scan does not skip the addresses in use.
FirstCandidate(net, used) ==
    IF Free(net, used) = {} THEN NoAddress
    ELSE CHOOSE a \in Candidates(net) : \A b \in Candidates(net) : a <= b

\* The first candidate that no row of the server uses.
NextAvailable(net, used) ==
    IF Free(net, used) = {} THEN NoAddress
    ELSE CHOOSE a \in Free(net, used) : \A b \in Free(net, used) : a <= b
=============================================================================
