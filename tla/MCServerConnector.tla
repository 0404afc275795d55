--------------------------- MODULE MCServerConnector ---------------------------
(* Instances of ServerConnector for TLC. *)
EXTENDS ServerConnector, TLC

Symmetry == Permutations(Calls)

================================================================================
