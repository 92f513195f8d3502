---------------------------- MODULE StockAlerts ----------------------------
(***************************************************************************)
(* The stock alert job: every run replaces the open alerts by its own        *)
(* snapshot (lib/inventory-health-store.ts applyStockAlertCoverageReplace)   *)
(* without a transaction, and the only thing that keeps two runs apart is a  *)
(* count of running rows before one is inserted (routes/tasks.ts).  The     *)
(* daily pipeline runs the same job and counts nothing.                     *)
(***************************************************************************)
EXTENDS Naturals, FiniteSets

CONSTANTS Keys,     \* fingerprints of alerts: SKU, warehouse, type, horizon
          Posts,    \* calls of POST /tasks/stock-alert, each with its task_runs row
          Pipes,    \* runs of the daily pipeline that reach its alert step
          Chunk,    \* rows of one INSERT (400 in the code)
          MaxMoves  \* bound: changes of the stock, clicks and restarts together

ASSUME KeysFinite == IsFiniteSet(Keys)
ASSUME PostsApart == Posts \cap Pipes = {}
ASSUME ChunkIsPos == Chunk \in Nat \ {0}
ASSUME MovesIsNat == MaxMoves \in Nat

VARIABLES open,   \* how many unresolved rows of stock_alerts a fingerprint has
          short,  \* fingerprints the stock and the forecast now call for
          task,   \* task_runs.status of the posts
          stale,  \* rows that have been running for more than 45 minutes
          exec,   \* posts and pipeline runs; known, old, aged and torn are history
          moves   \* changes, clicks and restarts so far

vars == <<open, short, task, stale, exec, moves>>

Jobs == Posts \cup Pipes
Rest(pc) == [pc |-> pc, snap |-> {}, todo |-> {}, known |-> {}, old |-> {},
             aged |-> FALSE, torn |-> FALSE]
At(e, pc) == exec[e].pc = pc
Working(e) == exec[e].pc \in {"read", "resolve", "write"}
Go(e, pc) == exec' = [exec EXCEPT ![e] = [@ EXCEPT !.pc = pc]]

Init ==
  /\ open \in [Keys -> {0, 1}]
  /\ short \in SUBSET Keys
  /\ task = [p \in Posts |-> "none"]
  /\ stale = {}
  /\ exec = [e \in Jobs |-> Rest("none")]
  /\ moves = 0

(***************************************************************************)
(* POST /tasks/stock-alert: close what is stale, count what runs, insert a   *)
(* row and answer 202: three statements, then the job in the background.    *)
(***************************************************************************)

FailStale ==
  /\ task' = [p \in Posts |-> IF p \in stale THEN "failed" ELSE task[p]]
  /\ stale' = {}

\* Mutant: what a restart has left is closed by the page of the task records alone.
PostKeepsStale(p) ==
  /\ At(p, "none")
  /\ exec' = [exec EXCEPT ![p] = [@ EXCEPT !.pc = "count", !.old = stale]]
  /\ UNCHANGED <<open, short, task, stale, moves>>

Post(p) ==
  /\ At(p, "none")
  /\ FailStale
  /\ exec' = [exec EXCEPT ![p] = [@ EXCEPT !.pc = "count", !.old = stale]]
  /\ UNCHANGED <<open, short, moves>>

Running == {q \in Posts : task[q] = "running"}

\* Mutant: what runs already is not counted.
CountNothing(p) ==
  /\ At(p, "count")
  /\ exec' = [exec EXCEPT ![p] = [Rest("start") EXCEPT !.known = {q \in Posts : task[q] # "none"}]]
  /\ UNCHANGED <<open, short, task, stale, moves>>

Count(p) ==
  /\ At(p, "count")
  /\ exec' = [exec EXCEPT ![p] =
       IF Running = {} THEN [Rest("start") EXCEPT !.known = {q \in Posts : task[q] # "none"}]
       ELSE Rest("refused")]
  /\ UNCHANGED <<open, short, task, stale, moves>>

StartRun(p) ==
  /\ At(p, "start")
  /\ task' = [task EXCEPT ![p] = "running"]
  /\ Go(p, "read")
  /\ UNCHANGED <<open, short, stale, moves>>

\* dailyInventoryPipeline gets to its alert step.
BeginStep(e) ==
  /\ At(e, "none")
  /\ Go(e, "read")
  /\ UNCHANGED <<open, short, task, stale, moves>>

(***************************************************************************)
(* runStockAlert: what is short is worked out, then every open alert is      *)
(* resolved in one statement and the snapshot inserted chunk by chunk.      *)
(***************************************************************************)
ReadStock(e) ==
  /\ At(e, "read")
  /\ exec' = [exec EXCEPT ![e] = [@ EXCEPT !.snap = short, !.pc = "resolve"]]
  /\ UNCHANGED <<open, short, task, stale, moves>>

\* Somebody else's write falls between the resolving and the last chunk.
Tears(w) == IF w.pc = "write" THEN [w EXCEPT !.torn = TRUE] ELSE w

\* Mutant: only what the snapshot no longer holds is resolved.
ResolveGone(e) ==
  /\ At(e, "resolve")
  /\ open' = [k \in Keys |-> IF k \in exec[e].snap THEN open[k] ELSE 0]
  /\ exec' = [f \in Jobs |->
       IF f = e THEN [exec[e] EXCEPT !.pc = "write", !.todo = exec[e].snap, !.torn = FALSE]
       ELSE Tears(exec[f])]
  /\ UNCHANGED <<short, task, stale, moves>>

ResolveAll(e) ==
  /\ At(e, "resolve")
  /\ open' = [k \in Keys |-> 0]
  /\ exec' = [f \in Jobs |->
       IF f = e THEN [exec[e] EXCEPT !.pc = "write", !.todo = exec[e].snap, !.torn = FALSE]
       ELSE Tears(exec[f])]
  /\ UNCHANGED <<short, task, stale, moves>>

Inserted(K) == open' = [k \in Keys |-> IF k \in K THEN open[k] + 1 ELSE open[k]]

WriteChunk(e) ==
  /\ At(e, "write")
  /\ \E K \in SUBSET exec[e].todo :
       /\ K # {}
       /\ Cardinality(K) = Chunk \/ (Cardinality(K) < Chunk /\ K = exec[e].todo)
       /\ Inserted(K)
       /\ exec' = [f \in Jobs |-> IF f = e THEN [exec[e] EXCEPT !.todo = @ \ K] ELSE Tears(exec[f])]
  /\ UNCHANGED <<short, task, stale, moves>>

Written(e) ==
  /\ At(e, "write")
  /\ exec[e].todo = {}
  /\ exec' = [exec EXCEPT ![e] = Rest(IF e \in Posts THEN "finish" ELSE "over")]
  /\ UNCHANGED <<open, short, task, stale, moves>>

\* finishTaskRun writes by id, over a row that was given up meanwhile too.
Finish(p) ==
  /\ At(p, "finish")
  /\ task' = [task EXCEPT ![p] = "success"]
  /\ stale' = stale \ {p}
  /\ exec' = [exec EXCEPT ![p] = Rest("over")]
  /\ UNCHANGED <<open, short, moves>>

\* A statement fails; what was resolved or inserted stays so.
Throw(e) ==
  /\ Working(e)
  /\ exec' = [exec EXCEPT ![e] = Rest(IF e \in Posts THEN "fail" ELSE "over")]
  /\ UNCHANGED <<open, short, task, stale, moves>>

FailRun(p) ==
  /\ At(p, "fail")
  /\ task' = [task EXCEPT ![p] = "failed"]
  /\ stale' = stale \ {p}
  /\ exec' = [exec EXCEPT ![p] = Rest("over")]
  /\ UNCHANGED <<open, short, moves>>

(***************************************************************************)
(* The surroundings: time, the page of the task records, people, the stock. *)
(***************************************************************************)
Age(p) ==
  /\ task[p] = "running"
  /\ p \notin stale
  /\ stale' = stale \cup {p}
  /\ exec' = [exec EXCEPT ![p] = [@ EXCEPT !.aged = Working(p)]]
  /\ UNCHANGED <<open, short, task, moves>>

\* reconcileStaleRunningTaskRuns, before the latest task records are listed.
Reconcile ==
  /\ stale # {}
  /\ FailStale
  /\ UNCHANGED <<open, short, exec, moves>>

\* PATCH /alerts/:id/resolve.
ResolveByHand(k) ==
  /\ moves < MaxMoves
  /\ open[k] > 0
  /\ open' = [open EXCEPT ![k] = @ - 1]
  /\ exec' = [f \in Jobs |-> Tears(exec[f])]
  /\ moves' = moves + 1
  /\ UNCHANGED <<short, task, stale>>

StockChanges(k) ==
  /\ moves < MaxMoves
  /\ short' = IF k \in short THEN short \ {k} ELSE short \cup {k}
  /\ moves' = moves + 1
  /\ UNCHANGED <<open, task, stale, exec>>

\* The process stops; rows that were running stay so until they are stale.
Crash ==
  /\ moves < MaxMoves
  /\ moves' = moves + 1
  /\ exec' = [e \in Jobs |-> IF At(e, "none") THEN exec[e] ELSE Rest("over")]
  /\ UNCHANGED <<open, short, task, stale>>

Job(e) ==
  \/ e \in Posts /\ (Post(e) \/ Count(e) \/ StartRun(e) \/ Finish(e) \/ FailRun(e))
  \/ e \in Pipes /\ BeginStep(e)
  \/ ReadStock(e) \/ ResolveAll(e) \/ WriteChunk(e) \/ Written(e) \/ Throw(e)

Next ==
  \/ \E e \in Jobs : Job(e)
  \/ \E p \in Posts : Age(p)
  \/ Reconcile
  \/ \E k \in Keys : ResolveByHand(k) \/ StockChanges(k)
  \/ Crash

Spec == Init /\ [][Next]_vars

-----------------------------------------------------------------------------
TypeOK ==
  /\ open \in [Keys -> Nat]
  /\ short \in SUBSET Keys
  /\ task \in [Posts -> {"none", "running", "success", "failed"}]
  /\ stale \in SUBSET Posts
  /\ \A p \in stale : task[p] = "running"
  /\ exec \in [Jobs -> [pc : {"none", "count", "refused", "start", "read", "resolve", "write",
                              "finish", "fail", "over"},
                        snap : SUBSET Keys, todo : SUBSET Keys, known : SUBSET Posts,
                        old : SUBSET Posts, aged : BOOLEAN, torn : BOOLEAN]]
  /\ moves \in 0..MaxMoves

\* Two posted runs work at once only when the second was counted before the row of the
\* first was there, or the first had been running so long that it was given up: the
\* count and the insert of POST /tasks/stock-alert are two statements.
RunsMeetOnlyByRace ==
  \A p, q \in Posts :
    (p # q /\ Working(p) /\ Working(q) /\ q \in exec[p].known) => exec[q].aged

\* A run nobody interfered with leaves exactly its snapshot open, one row each ("open
\* 行数 = 本轮 activeCount"), whatever an earlier run that broke off had left.
ReplaceIsExact ==
  [][\A e \in Jobs : (At(e, "write") /\ Written(e) /\ ~exec[e].torn) =>
       open = [k \in Keys |-> IF k \in exec[e].snap THEN 1 ELSE 0]]_vars

\* A row that a restart or a hanging job has left running refuses posts for 45 minutes and no
\* longer: a post is refused only over a row that was not too old when the post came.  Nobody
\* is bound to close such a row otherwise: the cron call is switched off (deploy/cron/crontab).
StaleNeverRefuses ==
  [][\A p \in Posts : (Count(p) /\ exec'[p].pc = "refused") =>
       \E q \in Running : q \notin exec[p].old]_vars
=============================================================================
