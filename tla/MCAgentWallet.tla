--------------------------- MODULE MCAgentWallet ---------------------------
(* AgentWallet for TLC: the cfg files give the constants; addresses,       *)
(* Pandas, wallets, pair hashes and proof keys are model values.  Values   *)
(* no definition tells apart are interchangeable.                          *)
EXTENDS AgentWallet, TLC

PairSymmetry == Permutations(PairsHash)

WalletSymmetry == Permutations(Wallet) \cup Permutations(User)
=============================================================================
