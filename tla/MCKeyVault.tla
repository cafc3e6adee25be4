----------------------------- MODULE MCKeyVault -----------------------------
EXTENDS KeyVault, TLC

MCSymmetry == Permutations(Clients) \union Permutations(Vaults)
    \union Permutations(Phrases) \union Permutations(Keys)
=============================================================================
