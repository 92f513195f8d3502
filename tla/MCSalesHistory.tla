---- MODULE MCSalesHistory ----
EXTENDS SalesHistory, TLC

CONSTANTS s1, s2

MCSold == s1 :> {1, 2, 3} @@ s2 :> {1}
\* The Feishu table with recent days only, and with an old day of one SKU.
MCRecent == s1 :> {3} @@ s2 :> {}
MCRecentAndOld == s1 :> {3} @@ s2 :> {1}
MCFiles == {[rows |-> <<s2, s1, s1>>, from |-> 1],
            [rows |-> <<s1>>, from |-> 2]}

Symmetry == Permutations(Imports)
====
