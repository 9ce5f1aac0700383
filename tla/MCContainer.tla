------------------------------ MODULE MCContainer -----------------------------
EXTENDS Container
CONSTANTS j1, p1, m1
MCJobModel == [j \in Jobs |-> m1]
MCPodModel == [p \in Pods |-> m1]
===============================================================================
