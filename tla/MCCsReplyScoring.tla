---- MODULE MCCsReplyScoring ----
(* Instances of CsReplyScoring for TLC; the .cfg files give the bounds. *)
EXTENDS CsReplyScoring, TLC

\* Jobs, runners and rescorings are interchangeable. Only runs without
\* liveness properties use this.
Symmetry == Permutations(Jobs) \cup Permutations(Slots) \cup Permutations(Rescores)
====
