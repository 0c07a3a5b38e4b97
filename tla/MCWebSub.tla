------------------------------ MODULE MCWebSub ------------------------------
\* WebSub with the bounds of its run and the symmetry of its actors.
EXTENDS WebSub, TLC

Symmetry == Permutations(Requests) \cup Permutations(Checks) \cup Permutations(Rows)
            \cup Permutations(OAuthStates)
=============================================================================
