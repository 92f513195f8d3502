---- MODULE CsReplyScoring ----
(***************************************************************************)
(* Importing one batch of customer-service replies and scoring it with Dify *)
(* (apps/web/server/lib/cs-reply-quality/service.ts and score-job.ts).      *)
(*                                                                          *)
(* Everything after the HTTP answer runs in the memory of the one server    *)
(* process: the import job, at most one scoring job per batch (the Set      *)
(* activeBatchJobs), the job's pool of runners, and the rescoring of single *)
(* records, which asks nobody.  A step is one statement of the database; a  *)
(* statement may throw and the process may die between any two.             *)
(***************************************************************************)
EXTENDS Naturals, FiniteSets

CONSTANTS
    Total,      \* valid rows of the uploaded file (bound)
    Chunk,      \* CS_REPLY_IMPORT_CHUNK_SIZE
    Jobs,       \* scoring jobs that can be in memory at once: one, and failed ones
    Slots,      \* CS_REPLY_SCORE_CONCURRENCY runners of a job's pool
    Rescores,   \* rescorings of a single record that may run at the same time
    AutoScore,  \* values the autoScore field of an upload can have
    MaxFaults   \* bound: throwing statements and process restarts

Rows == 1..Total
Runners == Jobs \X Slots
Workers == Runners \cup Rescores \cup Jobs   \* a job itself does the last refresh

ASSUME SizeAssumption == Total \in Nat \ {0} /\ Chunk \in Nat \ {0} /\ MaxFaults \in Nat
\* The environment variable is capped to 1..5, if it is a number (config.ts).
ASSUME SetsAssumption == /\ Jobs \cap Rescores = {} /\ Jobs \cap Runners = {}
                         /\ Rescores \cap Runners = {}
                         /\ IsFiniteSet(Slots) /\ Slots # {}
                         /\ AutoScore \subseteq BOOLEAN

VARIABLES
    batch,      \* the row of cs_reply_batches, status "none" before and after
    row,        \* score_status of each row of cs_reply_records
    imp,        \* the import job
    active,     \* activeBatchJobs.has(batchId)
    job,        \* the scoring jobs
    queue,      \* rows of a job its runners have not taken yet
    work,       \* what each worker does
    faults,     \* statements that threw and restarts so far
    mixed,      \* history: a rescoring overlapped a job or another rescoring
    dropped     \* history: the import found a job running and scheduled none

vars == <<batch, row, imp, active, job, queue, work, faults, mixed, dropped>>
history == <<mixed, dropped>>

RowStatus == {"none", "pending", "scoring", "scored", "failed"}
BatchStatus == {"none", "importing", "imported", "scoring", "completed", "failed"}
ImportPoint == {"none", "insert", "count", "finish", "schedule", "fail", "over"}
JobPoint == {"off", "load", "reset", "resetBatch", "start", "select", "pool",
             "final", "fail", "end"}
WorkPoint == {"idle", "next", "mark", "score", "count", "store"}

Stats == [scored: 0..Total, failed: 0..Total, pending: 0..Total]
NoStats == [scored |-> 0, failed |-> 0, pending |-> 0]
NoBatch == [status |-> "none", imported |-> 0, scored |-> 0, failed |-> 0]
Idle == [pc |-> "idle", row |-> 1, stats |-> NoStats]
NoJob == [pc |-> "off", reset |-> FALSE]

TypeOK ==
    /\ batch \in [status: BatchStatus, imported: 0..Total,
                  scored: 0..Total, failed: 0..Total]
    /\ row \in [Rows -> RowStatus]
    /\ imp \in [pc: ImportPoint, done: 0..Total, auto: BOOLEAN]
    /\ active \in BOOLEAN
    /\ job \in [Jobs -> [pc: JobPoint, reset: BOOLEAN]]
    /\ queue \in [Jobs -> SUBSET Rows]
    /\ work \in [Workers -> [pc: WorkPoint, row: Rows, stats: Stats]]
    /\ faults \in 0..MaxFaults
    /\ mixed \in BOOLEAN
    /\ dropped \in BOOLEAN

Init ==
    /\ batch = NoBatch
    /\ row = [r \in Rows |-> "none"]
    /\ imp = [pc |-> "none", done |-> 0, auto |-> FALSE]
    /\ active = FALSE
    /\ job = [j \in Jobs |-> NoJob]
    /\ queue = [j \in Jobs |-> {}]
    /\ work = [w \in Workers |-> Idle]
    /\ faults = 0
    /\ mixed = FALSE
    /\ dropped = FALSE

----
(* Rows and workers *)

With(statuses) == {r \in Rows : row[r] \in statuses}
Busy(w) == work[w].pc # "idle"
Pool(j) == {j} \X Slots
Holds(w, r) == work[w].pc \in {"mark", "score"} /\ work[w].row = r

\* UPDATE ... WHERE id = batch: no row is hit once the batch has been cleared.
SetBatch(b) == batch' = IF batch.status = "none" THEN batch ELSE b
SetRow(r, s) == row' = IF row[r] = "none" THEN row ELSE [row EXCEPT ![r] = s]

Go(w, pc) == work' = [work EXCEPT ![w] = [@ EXCEPT !.pc = pc]]
JobGo(j, pc) == job' = [job EXCEPT ![j] = [@ EXCEPT !.pc = pc]]
ImportGo(pc) == imp' = [imp EXCEPT !.pc = pc]

----
(* POST import: the batch row, then an import job in chunks *)

CreateBatch(auto) ==
    /\ imp.pc = "none"
    /\ batch' = [NoBatch EXCEPT !.status = "importing"]
    /\ imp' = [pc |-> "insert", done |-> 0, auto |-> auto]
    /\ UNCHANGED <<row, active, job, queue, work, faults, history>>

\* The foreign key refuses the rows of a batch that has been cleared.
ImportChunk ==
    LET upto == IF imp.done + Chunk < Total THEN imp.done + Chunk ELSE Total IN
    /\ imp.pc = "insert"
    /\ IF batch.status = "none"
       THEN ImportGo("fail") /\ UNCHANGED row
       ELSE /\ row' = [r \in Rows |-> IF r \in (imp.done + 1)..upto
                                      THEN "pending" ELSE row[r]]
            /\ imp' = [imp EXCEPT !.pc = "count", !.done = upto]
    /\ UNCHANGED <<batch, active, job, queue, work, faults, history>>

ImportCount ==
    /\ imp.pc = "count"
    /\ SetBatch([batch EXCEPT !.imported = imp.done])
    /\ ImportGo(IF imp.done = Total THEN "finish" ELSE "insert")
    /\ UNCHANGED <<row, active, job, queue, work, faults, history>>

ImportFinish ==
    /\ imp.pc = "finish"
    /\ SetBatch([batch EXCEPT !.status = "imported", !.imported = imp.done])
    /\ ImportGo("schedule")
    /\ UNCHANGED <<row, active, job, queue, work, faults, history>>

ImportFail ==
    /\ imp.pc = "fail"
    /\ SetBatch([batch EXCEPT !.status = "failed"])
    /\ ImportGo("over")
    /\ UNCHANGED <<row, active, job, queue, work, faults, history>>

----
(* scheduleCsReplyScoreJob *)

\* A job whose last run has left nothing in memory.
Reusable(j) == job[j].pc = "off" /\ \A w \in Pool(j) : ~Busy(w)

Start(j, reset) ==
    /\ ~active
    /\ Reusable(j)
    /\ active' = TRUE
    /\ job' = [job EXCEPT ![j] = [pc |-> "load", reset |-> reset]]
    /\ mixed' = (mixed \/ \E w \in Rescores : Busy(w))

\* POST batches/:id/score; a call that finds the batch active changes nothing.
ScoreBatch(j, reset) ==
    /\ batch.status # "none"
    /\ Start(j, reset)
    /\ UNCHANGED <<batch, row, imp, queue, work, faults, dropped>>

\* The end of the import job calls the same function when autoScore was ticked.
ImportSchedule ==
    /\ imp.pc = "schedule"
    /\ ImportGo("over")
    /\ \/ /\ imp.auto /\ ~active
          /\ \E j \in Jobs : Start(j, FALSE)
          /\ UNCHANGED dropped
       \/ /\ imp.auto => active
          /\ dropped' = (dropped \/ imp.auto)
          /\ UNCHANGED <<active, job, mixed>>
    /\ UNCHANGED <<batch, row, queue, work, faults>>

\* Nobody asks for the flag a second time.
JobLoad(j) ==
    /\ job[j].pc = "load"
    /\ job' = [job EXCEPT ![j] =
                [pc |-> IF batch.status = "none" THEN "end"
                        ELSE IF job[j].reset THEN "reset" ELSE "start",
                 reset |-> FALSE]]
    /\ UNCHANGED <<batch, row, imp, active, queue, work, faults, history>>

\* resetBatchForScoring, first statement: rows being scored are left alone.
JobResetRows(j) ==
    /\ job[j].pc = "reset"
    /\ row' = [r \in Rows |-> IF row[r] \in {"pending", "failed", "scored"}
                              THEN "pending" ELSE row[r]]
    /\ JobGo(j, "resetBatch")
    /\ UNCHANGED <<batch, imp, active, queue, work, faults, history>>

JobResetBatch(j) ==
    /\ job[j].pc = "resetBatch"
    /\ SetBatch([batch EXCEPT !.status = "imported", !.scored = 0, !.failed = 0])
    /\ JobGo(j, "start")
    /\ UNCHANGED <<row, imp, active, queue, work, faults, history>>

JobStart(j) ==
    /\ job[j].pc = "start"
    /\ SetBatch([batch EXCEPT !.status = "scoring"])
    /\ JobGo(j, "select")
    /\ UNCHANGED <<row, imp, active, queue, work, faults, history>>

Selected == With({"pending", "failed"})

JobSelect(j) ==
    /\ job[j].pc = "select"
    /\ queue' = [queue EXCEPT ![j] = Selected]
    /\ work' = [w \in Workers |-> IF w \in Pool(j)
                                  THEN [Idle EXCEPT !.pc = "next"] ELSE work[w]]
    /\ JobGo(j, "pool")
    /\ UNCHANGED <<batch, row, imp, active, faults, history>>

\* Promise.all: every runner has run out of rows.
JobPoolDone(j) ==
    /\ job[j].pc = "pool"
    /\ \A w \in Pool(j) : ~Busy(w)
    /\ Go(j, "count")
    /\ JobGo(j, "final")
    /\ UNCHANGED <<batch, row, imp, active, queue, faults, history>>

\* Mutant: the catch block releases the batch, and finally does so again.
JobFailReleases(j) ==
    /\ job[j].pc = "fail"
    /\ SetBatch([batch EXCEPT !.status = "failed"])
    /\ active' = FALSE
    /\ JobGo(j, "end")
    /\ UNCHANGED <<row, imp, queue, work, faults, history>>

JobFail(j) ==
    /\ job[j].pc = "fail"
    /\ SetBatch([batch EXCEPT !.status = "failed"])
    /\ JobGo(j, "end")
    /\ UNCHANGED <<row, imp, active, queue, work, faults, history>>

\* Mutant: the batch stays in activeBatchJobs.
JobLingers(j) ==
    /\ job[j].pc = "end"
    /\ job' = [job EXCEPT ![j] = NoJob]
    /\ UNCHANGED <<batch, row, imp, active, queue, work, faults, history>>

\* finally { activeBatchJobs.delete(batchId) }
JobEnd(j) ==
    /\ job[j].pc = "end"
    /\ active' = FALSE
    /\ job' = [job EXCEPT ![j] = NoJob]
    /\ UNCHANGED <<batch, row, imp, queue, work, faults, history>>

----
(* Scoring one row: a runner of a pool, or POST records/:id/rescore *)

\* Mutant: the loop stops one step before the end of the list.
RunnerStopsEarly(w) ==
    LET j == w[1] IN
    /\ work[w].pc = "next"
    /\ \/ /\ Cardinality(queue[j]) <= 1
          /\ Go(w, "idle")
          /\ UNCHANGED queue
       \/ \E r \in queue[j] :
            /\ Cardinality(queue[j]) > 1
            /\ queue' = [queue EXCEPT ![j] = @ \ {r}]
            /\ work' = [work EXCEPT ![w] = [@ EXCEPT !.pc = "mark", !.row = r]]
    /\ UNCHANGED <<batch, row, imp, active, job, faults, history>>

\* Mutant: the index moves on only when the row has been scored.
RunnerNextKeeps(w) ==
    LET j == w[1] IN
    /\ work[w].pc = "next"
    /\ \/ /\ queue[j] = {}
          /\ Go(w, "idle")
       \/ \E r \in queue[j] :
            work' = [work EXCEPT ![w] = [@ EXCEPT !.pc = "mark", !.row = r]]
    /\ UNCHANGED <<batch, row, imp, active, job, queue, faults, history>>

\* items[index++], or the runner is done; no statement runs in between.
RunnerNext(w) ==
    LET j == w[1] IN
    /\ work[w].pc = "next"
    /\ \/ /\ queue[j] = {}
          /\ Go(w, "idle")
          /\ UNCHANGED queue
       \/ \E r \in queue[j] :
            /\ queue' = [queue EXCEPT ![j] = @ \ {r}]
            /\ work' = [work EXCEPT ![w] = [@ EXCEPT !.pc = "mark", !.row = r]]
    /\ UNCHANGED <<batch, row, imp, active, job, faults, history>>

\* It reads the record and its batch, nothing else, before it marks the row.
Rescore(w, r) ==
    /\ ~Busy(w)
    /\ row[r] # "none"
    /\ work' = [work EXCEPT ![w] = [Idle EXCEPT !.pc = "mark", !.row = r]]
    /\ mixed' = (mixed \/ active \/ \E v \in Workers : Busy(v))
    /\ UNCHANGED <<batch, row, imp, active, job, queue, faults, dropped>>

Mark(w) ==
    /\ work[w].pc = "mark"
    /\ SetRow(work[w].row, "scoring")
    /\ Go(w, "score")
    /\ UNCHANGED <<batch, imp, active, job, queue, faults, history>>

\* Mutant: the catch block only logs a failed call.
AnswerOrLog(w) ==
    /\ work[w].pc = "score"
    /\ \E s \in {"scored", "scoring"} : SetRow(work[w].row, s)
    /\ work' = [work EXCEPT ![w] = [Idle EXCEPT !.pc = "count"]]
    /\ UNCHANGED <<batch, imp, active, job, queue, faults, history>>

\* Dify answers and the answer parses, or not, or the call fails or times out.
Answer(w) ==
    /\ work[w].pc = "score"
    /\ \E s \in {"scored", "failed"} : SetRow(work[w].row, s)
    /\ work' = [work EXCEPT ![w] = [Idle EXCEPT !.pc = "count"]]
    /\ UNCHANGED <<batch, imp, active, job, queue, faults, history>>

\* refreshBatchScoreCounters: read, then write what was read.
Count(w) ==
    /\ work[w].pc = "count"
    /\ work' = [work EXCEPT ![w] = [@ EXCEPT !.pc = "store", !.stats =
                [scored |-> Cardinality(With({"scored"})),
                 failed |-> Cardinality(With({"failed"})),
                 pending |-> Cardinality(With({"pending", "scoring"}))]]]
    /\ UNCHANGED <<batch, row, imp, active, job, queue, faults, history>>

Refreshed(stats) ==
    [batch EXCEPT !.scored = stats.scored, !.failed = stats.failed,
        !.status = IF stats.pending > 0 THEN "scoring"
                   ELSE IF stats.scored + stats.failed > 0 THEN "completed"
                   ELSE "imported"]

\* Mutant: the job reports the counters it has seen, without a last refresh.
StoreByRunners(w) ==
    /\ work[w].pc = "store"
    /\ IF w \in Jobs THEN UNCHANGED batch ELSE SetBatch(Refreshed(work[w].stats))
    /\ work' = [work EXCEPT ![w] =
                IF w \in Runners THEN [Idle EXCEPT !.pc = "next"] ELSE Idle]
    /\ IF w \in Jobs THEN JobGo(w, "end") ELSE UNCHANGED job
    /\ UNCHANGED <<row, imp, active, queue, faults, history>>

Store(w) ==
    /\ work[w].pc = "store"
    /\ SetBatch(Refreshed(work[w].stats))
    /\ work' = [work EXCEPT ![w] =
                IF w \in Runners THEN [Idle EXCEPT !.pc = "next"] ELSE Idle]
    /\ IF w \in Jobs THEN JobGo(w, "end") ELSE UNCHANGED job
    /\ UNCHANGED <<row, imp, active, queue, faults, history>>

----
(* POST clear, and what goes wrong *)

\* The records go with their batch (ON DELETE CASCADE); jobs do not notice.
Clear ==
    /\ batch.status # "none"
    /\ batch' = NoBatch
    /\ row' = [r \in Rows |-> "none"]
    /\ UNCHANGED <<imp, active, job, queue, work, faults, history>>

Fault == faults < MaxFaults /\ faults' = faults + 1

ImportThrows ==
    /\ Fault
    /\ imp.pc \in {"insert", "count", "finish"}
    /\ ImportGo("fail")
    /\ UNCHANGED <<batch, row, active, job, queue, work, history>>

JobThrows(j) ==
    /\ Fault
    /\ job[j].pc \in {"load", "reset", "resetBatch", "start", "select"}
    /\ JobGo(j, "fail")
    /\ UNCHANGED <<batch, row, imp, active, queue, work, history>>

\* Promise.all rejects at once; the other runners go on through the list.  A
\* runner at "score" gets here when the failure could not be recorded either.
WorkerThrows(j, w) ==
    /\ Fault
    /\ w \in Pool(j) \cup {j}
    /\ work[w].pc \in {"mark", "score", "count", "store"}
    /\ work' = [work EXCEPT ![w] = Idle]
    /\ IF job[j].pc \in {"pool", "final"} THEN JobGo(j, "fail") ELSE UNCHANGED job
    /\ UNCHANGED <<batch, row, imp, active, queue, history>>

\* The process dies: everything but the two tables is gone.  A rescoring that
\* throws ends here too, nothing handles the rejection.
Restart ==
    /\ Fault
    /\ imp' = IF imp.pc = "none" THEN imp ELSE [imp EXCEPT !.pc = "over"]
    /\ active' = FALSE
    /\ job' = [j \in Jobs |-> NoJob]
    /\ queue' = [j \in Jobs |-> {}]
    /\ work' = [w \in Workers |-> Idle]
    /\ UNCHANGED <<batch, row, history>>

----
ImportStep ==
    \/ ImportChunk \/ ImportCount \/ ImportFinish \/ ImportSchedule \/ ImportFail

JobStep(j) ==
    \/ JobLoad(j) \/ JobResetRows(j) \/ JobResetBatch(j) \/ JobStart(j)
    \/ JobSelect(j) \/ JobPoolDone(j) \/ JobFail(j) \/ JobEnd(j)

WorkStep(w) ==
    \/ w \in Runners /\ RunnerNext(w)
    \/ Mark(w) \/ Answer(w) \/ Count(w) \/ Store(w)

Next ==
    \/ \E auto \in AutoScore : CreateBatch(auto)
    \/ ImportStep
    \/ \E j \in Jobs, reset \in BOOLEAN : ScoreBatch(j, reset)
    \/ \E j \in Jobs : JobStep(j)
    \/ \E w \in Rescores, r \in Rows : Rescore(w, r)
    \/ \E w \in Workers : WorkStep(w)
    \/ Clear
    \/ ImportThrows
    \/ \E j \in Jobs : JobThrows(j)
    \/ \E j \in Jobs, w \in Workers : WorkerThrows(j, w)
    \/ Restart

Spec == Init /\ [][Next]_vars

\* The event loop runs every continuation that is ready, statements return and
\* the Dify call has a timeout (integrations/dify.ts): as long as a job or a
\* worker can go on, one of them does.
FairSpec ==
    /\ Spec
    /\ WF_vars(\E j \in Jobs : JobStep(j))
    /\ WF_vars(\E w \in Workers : WorkStep(w))

----
(* Properties *)

\* Nothing is left in memory.
Quiet == imp.pc = "over" /\ ~active /\ \A w \in Workers : ~Busy(w)

\* A row is never being scored by two runners: the runners of a pool take their
\* rows from one list, also those that go on after their job has failed, and
\* activeBatchJobs admits one job.  Between two pools this needs that nothing
\* has thrown: the runners of a failed job go on beside the next one's.
OneRunnerPerRow ==
    \A v, w \in Runners : \A r \in Rows :
        Holds(v, r) /\ Holds(w, r) /\ (faults = 0 \/ v[1] = w[1]) => v = w

\* "Scoring" is written by a worker that will replace it: without a fault no
\* row keeps the status after its worker has gone, although a job and any
\* number of single rescorings may be at the same row.
ScoringIsOwned ==
    faults = 0 => \A r \in With({"scoring"}) :
        \E w \in Workers : work[w].pc = "score" /\ work[w].row = r

\* The runners' refreshes overwrite each other with counts read earlier; the
\* job's last one repairs it, unless a rescoring was going on beside it.
CountersSettle ==
    Quiet /\ faults = 0 /\ ~mixed /\ batch.status # "none" =>
        /\ batch.scored = Cardinality(With({"scored"}))
        /\ batch.failed = Cardinality(With({"failed"}))

\* A batch imported with autoScore ends with every row scored or failed, if
\* its import found no other job of the batch running.
AutoScoreCovers ==
    Quiet /\ faults = 0 /\ imp.auto /\ ~dropped /\ batch.status # "none" =>
        /\ With({"pending"}) = {}
        /\ ~mixed => batch.status = "completed"

\* activeBatchJobs has the batch exactly while one job of it is running, also
\* when statements throw and runners of failed jobs are still about.
ActiveIsOneJob ==
    /\ active <=> \E j \in Jobs : job[j].pc # "off"
    /\ \A i, j \in Jobs : job[i].pc # "off" /\ job[j].pc # "off" => i = j

\* The batch does not stay in activeBatchJobs: it can be scored again.
JobsEnd == active ~> ~active

====
