---- MODULE MCRuleParamSets ----
(* Instances of RuleParamSets for TLC; the .cfg files give the bounds. *)
EXTENDS RuleParamSets, TLC

\* Ids, requests and parameter values are interchangeable. Only runs without
\* liveness properties use this.
Symmetry == Permutations(Sets) \cup Permutations(Requests) \cup Permutations(Params)
====
