---- MODULE MCFeishuPull ----
(***************************************************************************)
(* Instances of FeishuPull for TLC.                                         *)
(***************************************************************************)
EXTENDS FeishuPull, TLC

Symmetry == Permutations(Manual) \cup Permutations(Cron)
====
