---- MODULE TableMirror ----
(***************************************************************************)
(* What the readers of a procurement list are promised: it shows one state  *)
(* of the Feishu table, replaced as a whole by one that is not older.  Once *)
(* pulls have overlapped it may mix states; it then still shows none that   *)
(* the table never had, and each pull that ends well shows what it read.    *)
(***************************************************************************)
EXTENDS Naturals

VARIABLES
    table,  \* version of the Feishu table
    shown,  \* versions of the table that rows of the list come from
    mixed   \* pulls have overlapped

vars == <<table, shown, mixed>>

Init == table = 0 /\ shown = {} /\ ~mixed

\* Somebody edits the Feishu table.
Edit ==
    /\ table' = table + 1
    /\ UNCHANGED <<shown, mixed>>

\* The list shows another state of the table, no older than the one before.
Replace(version) ==
    /\ ~mixed
    /\ \A u \in shown : u <= version
    /\ shown' = {version}
    /\ UNCHANGED <<table, mixed>>

\* Two pulls work on the list at the same time.
Mix ==
    /\ mixed' = TRUE
    /\ UNCHANGED <<table, shown>>

\* Rows of one of them come beside what is left of the others'.
Blend(version, left) ==
    /\ mixed
    /\ left \subseteq shown
    /\ shown' = left \cup {version}
    /\ UNCHANGED <<table, mixed>>

Next ==
    \/ Edit \/ Mix
    \/ \E version \in 0..table :
         Replace(version) \/ \E left \in SUBSET shown : Blend(version, left)

Spec == Init /\ [][Next]_vars
====
