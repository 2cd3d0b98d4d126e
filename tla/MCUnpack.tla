------------------------------ MODULE MCUnpack ------------------------------
(* Unpack for TLC: two images over the same base whose closures differ and *)
(* whose copyToRoots do not, and one without a base.                       *)
EXTENDS Unpack, TLC

CONSTANTS a, b, base

MCPaths == {a, b}
MCRequests == {[base |-> <<base>>, paths |-> {a}, links |-> {}],
               [base |-> <<base>>, paths |-> {a, b}, links |-> {}],
               [base |-> <<>>, paths |-> {b}, links |-> {}]}
MCLayers == {Plain} \cup {[nix |-> TRUE, paths |-> r.paths] : r \in MCRequests}
MCKeys == Procs \cup Containers
            \cup UNION {{Chain(r, n) : n \in Numbers(r)} : r \in MCRequests}
Symmetry == Permutations(Procs)
=============================================================================
