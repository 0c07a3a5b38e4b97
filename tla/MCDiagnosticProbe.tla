--------------------------- MODULE MCDiagnosticProbe ---------------------------
\* DiagnosticProbe with the bounds of its run and the symmetry of its actors.
EXTENDS DiagnosticProbe, TLC

Symmetry ==
  Permutations(Operations) \cup Permutations(Probes)
    \cup Permutations(Bodies) \cup Permutations(Entries)
=============================================================================
