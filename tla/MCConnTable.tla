----------------------------- MODULE MCConnTable -----------------------------
(* Numbers, addresses and workers are only compared for equality. *)
EXTENDS ConnTable, TLC

MCSymmetry == Permutations(Socks) \cup Permutations(Nodes) \cup Permutations(Workers)
==============================================================================
