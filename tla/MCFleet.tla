-------------------------------- MODULE MCFleet -------------------------------
EXTENDS Fleet, TLC

CONSTANTS j1, j2, p1, p2, m1

MCJobModel == [j \in Jobs |-> m1]
MCPodModel == [p \in Pods |-> m1]
Symmetry == Permutations(Jobs) \cup Permutations(Pods)
===============================================================================
