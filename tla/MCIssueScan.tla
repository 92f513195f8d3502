---- MODULE MCIssueScan ----
EXTENDS IssueScan, TLC

Symmetry ==
  Permutations(Prints) \cup Permutations(Lots) \cup
  Permutations(Scans) \cup Permutations(Visitors)
====
