---- MODULE FeishuPull ----
(***************************************************************************)
(* Pulling one procurement list from its Feishu table: the manual route     *)
(* (routes/procurement-lists.ts), the cron route (routes/tasks.ts), the     *)
(* rows of task_runs they use as a lock (lib/task-runs.ts and               *)
(* lib/procurement-feishu-sync-lock.ts) and the replacement of the list     *)
(* (lib/procurement-bitable-list.ts).                                       *)
(*                                                                          *)
(* A step is one statement of the database or the whole Feishu read.  The   *)
(* statements of the replacing transaction run at PostgreSQL's default      *)
(* level: a DELETE sees what was committed when it started, and waits for   *)
(* the rows another transaction has deleted.                                *)
(***************************************************************************)
EXTENDS Naturals, FiniteSets

CONSTANTS
    Manual,      \* pulls a user starts from the list's page
    Cron,        \* pulls started through /api/tasks
    MaxVersion,  \* bound: changes of the Feishu table
    MaxCrashes   \* bound: restarts of the server process

Pulls == Manual \cup Cron
Nobody == "nobody"

ASSUME PullsAssumption ==
    /\ Manual \cap Cron = {} /\ Nobody \notin Pulls
    /\ IsFiniteSet(Manual) /\ IsFiniteSet(Cron)
ASSUME BoundsAssumption == MaxVersion \in Nat /\ MaxCrashes \in Nat

VARIABLES
    pc,         \* the statement each handler runs next
    run,        \* status of each pull's row of task_runs
    old,        \* pulls whose row has been running for more than ten minutes
    feishu,     \* version of the Feishu table
    got,        \* the version a pull has read
    seen,       \* pulls whose rows a pull's DELETE saw when it started
    dead,       \* pulls whose rows a pull has deleted and not yet committed
    list,       \* pulls whose rows are in procurement_list_rows
    meta,       \* the pull whose row count procurement_list_meta holds
    metaLock,   \* the pull whose transaction has written procurement_list_meta
    crashes,    \* restarts so far
    reaped,     \* history: pulls whose row was marked failed while they went on
    overlapped  \* history: two pulls have been working at the same time

data == <<got, seen, dead, metaLock>>
handler == <<pc, data>>
tables == <<run, list, meta>>
vars == <<handler, tables, old, feishu, crashes, reaped, overlapped>>

Point == {"idle", "assert", "start", "count", "fetch", "delete", "lock", "meta",
          "commit", "succeed", "fail", "over", "gone"}

TypeOK ==
    /\ pc \in [Pulls -> Point]
    /\ run \in [Pulls -> {"none", "running", "success", "failed"}]
    /\ old \subseteq Pulls
    /\ feishu \in 0..MaxVersion
    /\ got \in [Pulls -> 0..MaxVersion]
    /\ seen \in [Pulls -> SUBSET Pulls]
    /\ dead \in [Pulls -> SUBSET Pulls]
    /\ list \subseteq Pulls
    /\ meta \in Pulls \cup {Nobody}
    /\ metaLock \in Pulls \cup {Nobody}
    /\ crashes \in 0..MaxCrashes
    /\ reaped \subseteq Pulls
    /\ overlapped \in BOOLEAN

Init ==
    /\ pc = [p \in Pulls |-> "idle"]
    /\ run = [p \in Pulls |-> "none"]
    /\ old = {}
    /\ feishu = 0
    /\ got = [p \in Pulls |-> 0]
    /\ seen = [p \in Pulls |-> {}]
    /\ dead = [p \in Pulls |-> {}]
    /\ list = {}
    /\ meta = Nobody
    /\ metaLock = Nobody
    /\ crashes = 0
    /\ reaped = {}
    /\ overlapped = FALSE

----
(* Rows of task_runs *)

Running == {p \in Pulls : run[p] = "running"}
Working(p) == pc[p] \in {"fetch", "delete", "lock", "meta", "commit"}

Goto(p, to) == pc' = [pc EXCEPT ![p] = to]

\* A pull past its check; it overlaps the ones that are working already.
GoWork(p) ==
    /\ Goto(p, "fetch")
    /\ overlapped' = (overlapped \/ \E q \in Pulls : q # p /\ Working(q))

StartRun(p) == run' = [run EXCEPT ![p] = "running"]

\* By id, whatever the row says by now.
FinishRun(p, status) ==
    /\ run' = [run EXCEPT ![p] = status]
    /\ old' = old \ {p}

----
(* The two handlers *)

Request(p) ==
    /\ pc[p] = "idle"
    /\ Goto(p, IF p \in Manual THEN "assert" ELSE "start")
    /\ UNCHANGED <<data, tables, old, feishu, crashes, reaped, overlapped>>

\* assertNoRunningProcurementFeishuIo: 400, no row.
AssertNoneRunning(p) ==
    /\ pc[p] = "assert"
    /\ Goto(p, IF Running = {} THEN "start" ELSE "over")
    /\ UNCHANGED <<data, tables, old, feishu, crashes, reaped, overlapped>>

ManualStart(p) ==
    /\ p \in Manual
    /\ pc[p] = "start"
    /\ StartRun(p)
    /\ GoWork(p)
    /\ UNCHANGED <<data, list, meta, old, feishu, crashes, reaped>>

CronStart(p) ==
    /\ p \in Cron
    /\ pc[p] = "start"
    /\ StartRun(p)
    /\ Goto(p, "count")
    /\ UNCHANGED <<data, list, meta, old, feishu, crashes, reaped, overlapped>>

\* Mutant: off by one, as if the count did not include the pull's own row.
CronCountLoose(p) ==
    /\ pc[p] = "count"
    /\ IF Cardinality(Running) > 2
       THEN Goto(p, "fail") /\ UNCHANGED overlapped
       ELSE GoWork(p)
    /\ UNCHANGED <<data, tables, old, feishu, crashes, reaped>>

\* detectProcurementFeishuPullConflict: the count includes the pull's own row.
CronCount(p) ==
    /\ pc[p] = "count"
    /\ IF Cardinality(Running) > 1
       THEN Goto(p, "fail") /\ UNCHANGED overlapped
       ELSE GoWork(p)
    /\ UNCHANGED <<data, tables, old, feishu, crashes, reaped>>

\* Mutant: the pages may come from a cache.
FetchCached(p) ==
    /\ pc[p] = "fetch"
    /\ Goto(p, "delete")
    /\ \E version \in 0..feishu : got' = [got EXCEPT ![p] = version]
    /\ UNCHANGED <<seen, dead, metaLock, tables, old, feishu, crashes, reaped, overlapped>>

Fetch(p) ==
    /\ pc[p] = "fetch"
    /\ Goto(p, "delete")
    /\ got' = [got EXCEPT ![p] = feishu]
    /\ UNCHANGED <<seen, dead, metaLock, tables, old, feishu, crashes, reaped, overlapped>>

\* An error of the database or of Feishu rolls the transaction back.  Before the
\* row is inserted there is nothing to finish; an error of the UPDATE that records
\* a failure leaves the handler, and nobody will finish the row.
Caught(point) ==
    CASE point \in {"assert", "start"} -> "over"
      [] point = "fail"                -> "gone"
      [] OTHER                         -> "fail"

Throws(p) ==
    /\ pc[p] \notin {"idle", "over", "gone"}
    /\ Goto(p, Caught(pc[p]))
    /\ dead' = [dead EXCEPT ![p] = {}]
    /\ seen' = [seen EXCEPT ![p] = {}]
    /\ metaLock' = IF metaLock = p THEN Nobody ELSE metaLock
    /\ UNCHANGED <<got, tables, old, feishu, crashes, reaped, overlapped>>

Succeed(p) ==
    /\ pc[p] = "succeed"
    /\ FinishRun(p, "success")
    /\ Goto(p, "over")
    /\ UNCHANGED <<data, list, meta, feishu, crashes, reaped, overlapped>>

\* Mutant: an error is only logged.
FailUnrecorded(p) ==
    /\ pc[p] = "fail"
    /\ Goto(p, "over")
    /\ UNCHANGED <<run, old>>
    /\ UNCHANGED <<data, list, meta, feishu, crashes, reaped, overlapped>>

Fail(p) ==
    /\ pc[p] = "fail"
    /\ FinishRun(p, "failed")
    /\ Goto(p, "over")
    /\ UNCHANGED <<data, list, meta, feishu, crashes, reaped, overlapped>>

----
(* replaceProcurementListData *)

\* The DELETE takes its snapshot ...
DeleteBegin(p) ==
    /\ pc[p] = "delete"
    /\ seen' = [seen EXCEPT ![p] = list]
    /\ Goto(p, "lock")
    /\ UNCHANGED <<got, dead, metaLock, tables, old, feishu, crashes, reaped, overlapped>>

\* ... and deletes what is left of it when nobody else holds any of those rows.
DeleteRows(p) ==
    /\ pc[p] = "lock"
    /\ \A q \in Pulls : q # p => seen[p] \cap dead[q] = {}
    /\ dead' = [dead EXCEPT ![p] = seen[p] \cap list]
    /\ Goto(p, "meta")
    /\ UNCHANGED <<got, seen, metaLock, tables, old, feishu, crashes, reaped, overlapped>>

\* The new rows, then the upsert of the list's one row of meta.
WriteMeta(p) ==
    /\ pc[p] = "meta"
    /\ metaLock = Nobody
    /\ metaLock' = p
    /\ Goto(p, "commit")
    /\ UNCHANGED <<got, seen, dead, tables, old, feishu, crashes, reaped, overlapped>>

\* Mutant: rows whose Feishu record is in the list already are not inserted.
CommitMissing(p) ==
    /\ pc[p] = "commit"
    /\ list' = (list \ dead[p]) \cup (IF list = {} THEN {p} ELSE {})
    /\ meta' = p
    /\ metaLock' = Nobody
    /\ dead' = [dead EXCEPT ![p] = {}]
    /\ seen' = [seen EXCEPT ![p] = {}]
    /\ Goto(p, "succeed")
    /\ UNCHANGED <<got, run, old, feishu, crashes, reaped, overlapped>>

Commit(p) ==
    /\ pc[p] = "commit"
    /\ list' = (list \ dead[p]) \cup {p}
    /\ meta' = p
    /\ metaLock' = Nobody
    /\ dead' = [dead EXCEPT ![p] = {}]
    /\ seen' = [seen EXCEPT ![p] = {}]
    /\ Goto(p, "succeed")
    /\ UNCHANGED <<got, run, old, feishu, crashes, reaped, overlapped>>

----
(* The surroundings *)

\* Somebody edits the Feishu table.
Edit ==
    /\ feishu < MaxVersion
    /\ feishu' = feishu + 1
    /\ UNCHANGED <<handler, tables, old, crashes, reaped, overlapped>>

\* A run passes ten minutes: Feishu is slow, or its process is gone.
Age(p) ==
    /\ p \in Running \ old
    /\ old' = old \cup {p}
    /\ UNCHANGED <<handler, tables, feishu, crashes, reaped, overlapped>>

\* reconcileStaleRunningTaskRuns, whenever the task page is read.
Reap ==
    /\ old # {}
    /\ run' = [p \in Pulls |-> IF p \in old THEN "failed" ELSE run[p]]
    /\ old' = {}
    /\ reaped' = reaped \cup {p \in old : pc[p] # "gone"}
    /\ UNCHANGED <<handler, list, meta, feishu, crashes, overlapped>>

\* The process restarts: handlers are gone, transactions rolled back, rows of
\* task_runs stay as they are.
Crash ==
    /\ crashes < MaxCrashes
    /\ crashes' = crashes + 1
    /\ pc' = [p \in Pulls |-> IF pc[p] \in {"idle", "over"} THEN pc[p] ELSE "gone"]
    /\ dead' = [p \in Pulls |-> {}]
    /\ seen' = [p \in Pulls |-> {}]
    /\ metaLock' = Nobody
    /\ UNCHANGED <<got, tables, old, feishu, reaped, overlapped>>

----
Handle(p) ==
    \/ AssertNoneRunning(p) \/ ManualStart(p) \/ CronStart(p) \/ CronCount(p)
    \/ Fetch(p) \/ DeleteBegin(p) \/ DeleteRows(p) \/ WriteMeta(p) \/ Commit(p)
    \/ Throws(p) \/ Succeed(p) \/ Fail(p)

Next ==
    \/ \E p \in Pulls : Request(p) \/ Handle(p) \/ Age(p)
    \/ Edit \/ Reap \/ Crash

Spec == Init /\ [][Next]_vars

----
(* Properties *)

\* Cron pulls insert their row before they count: of two, at most one works on
\* the list, unless the task page gave up a run that was still going on.
CronPullsExclude ==
    \A p, q \in Cron : Working(p) /\ Working(q) /\ {p, q} \cap reaped = {} => p = q

\* Whatever overlaps, throws or restarts, the rows of the pull that meta counts
\* are in the list; without overlap there are no others.
ListMatchesMeta ==
    /\ meta # Nobody => meta \in list
    /\ ~overlapped => \A p \in list : p = meta

\* Without overlap the list never goes back to an older state of the table.
NeverBack ==
    [][~overlapped' /\ meta # Nobody => got[meta] <= got'[meta']]_vars

\* The pages of the list see a mirror of the Feishu table: whatever throws, restarts
\* or is given up, one state of it replaces another and is not older, as long as no
\* two pulls have overlapped.
Mirror == INSTANCE TableMirror
    WITH table <- feishu, shown <- {got[p] : p \in list}, mixed <- overlapped
ImplementsMirror == Mirror!Spec

\* A run that says "running" has a handler that will finish it, whatever throws
\* before, or that handler was lost: to a restart or to an error while it recorded
\* a failure.  Only these block the list's pulls until somebody reads the task page.
RunningIsHandled == \A p \in Running : pc[p] \notin {"idle", "over"}

====
