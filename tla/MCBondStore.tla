----------------------------- MODULE MCBondStore -----------------------------
(* BondStore for TLC: the hosts and the characteristics are interchangeable.  *)
EXTENDS BondStore, TLC

MCSymmetry == Permutations(Peers) \cup Permutations(Chars)
=============================================================================
