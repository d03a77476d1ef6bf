---------------------------- MODULE MCTrustStore ----------------------------
(* Instances of TrustStore for TLC: client identities, and one prefix that  *)
(* fits all of them beside the full ids.                                    *)
EXTENDS TrustStore, TLC

CONSTANTS c1, c2, t1, t2, a1, a2, d, any, none

MCPrefixes == Clients \cup {any}
MCStartsWith == [p \in MCPrefixes |-> IF p = any THEN Clients ELSE {p}]

Symmetry == Permutations(Clients) \cup Permutations(Tasks) \cup Permutations(Admins)
=============================================================================
