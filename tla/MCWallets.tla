------------------------------ MODULE MCWallets ------------------------------
(* Wallets and WalletPromises on a small instance: model values and their symmetry. *)
EXTENDS Wallets, TLC

CONSTANTS u1, u2, a1, a2, t1, p1, p2, k1

Symmetry == Permutations(Users) \cup Permutations(Actors)
=============================================================================
