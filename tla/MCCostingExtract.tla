-------------------------- MODULE MCCostingExtract --------------------------
EXTENDS CostingExtract, TLC

Symmetry == Permutations(Runs) \cup Permutations(Names)

\* One line of a costed project to begin with: more lines come from runs and edits, and
\* a finished run leaves a draft.
MCInit == Init /\ Cardinality(lines) = 1 /\ status = "ready"
MCSpec == MCInit /\ [][Next]_vars
=============================================================================
