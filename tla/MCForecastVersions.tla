---- MODULE MCForecastVersions ----
EXTENDS ForecastVersions, TLC

\* The runs start with two or three versions; archived and empty ones come of steps.
MCInit ==
  /\ Init
  /\ Cardinality(Exists) >= 2
  /\ \A v \in Versions : /\ version[v].status # "archived"
                         /\ version[v].status # "new" => SkusOf(v) # {}

MCSpec == MCInit /\ [][Next]_vars

Symmetry == Permutations(Reqs) \cup Permutations(Versions) \cup Permutations(Skus)
====
