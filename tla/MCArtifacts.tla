----------------------------- MODULE MCArtifacts -----------------------------
EXTENDS Artifacts, TLC
Symmetry == Permutations(Jobs) \cup Permutations(Uploads)
=============================================================================
