--------------------------- MODULE MCSnapshotter ---------------------------
(* Snapshotter for TLC: two store paths, a plain layer and two nix layers  *)
(* that share a path.                                                      *)
EXTENDS Snapshotter, TLC

CONSTANTS a, b

MCPaths == {a, b}
MCLayers == {[nix |-> FALSE, paths |-> {}],
             [nix |-> TRUE, paths |-> {a}],
             [nix |-> TRUE, paths |-> {a, b}]}

\* Keys and goroutines are only compared, never ordered or chosen.
Symmetry == Permutations(Keys) \cup Permutations(Procs)
=============================================================================
