---- MODULE MCAnonCluster ----
EXTENDS AnonCluster, TLC
Symmetry == Permutations(Frame) \cup Permutations(Context)
====
