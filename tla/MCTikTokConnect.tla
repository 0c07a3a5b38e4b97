-------------------------- MODULE MCTikTokConnect --------------------------
\* TikTokConnect with the bounds of its runs and the symmetry of its actors.
EXTENDS TikTokConnect, TLC

Symmetry == Permutations(Callbacks) \cup Permutations(Refreshers)
            \cup Permutations(OAuthStates) \cup Permutations(Events)
=============================================================================
