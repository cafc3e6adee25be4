------------------------ MODULE MCComposerDelivery --------------------------
EXTENDS ComposerDelivery, TLC

Symmetric == Permutations(Calls)
=============================================================================
