---- MODULE CsReplyScoringProofs ----
(***************************************************************************)
(* Proofs about CsReplyScoring for any file, chunk, pool and number of      *)
(* jobs, rescorings and faults.                                             *)
(***************************************************************************)
EXTENDS CsReplyScoring, FiniteSetTheorems, TLAPS

Batch == [status: BatchStatus, imported: 0..Total, scored: 0..Total, failed: 0..Total]
Importer == [pc: ImportPoint, done: 0..Total, auto: BOOLEAN]
Job == [pc: JobPoint, reset: BOOLEAN]
Worker == [pc: WorkPoint, row: Rows, stats: Stats]

\* A set of rows has at most Total members.
LEMMA RowsCounted ==
    ASSUME NEW S \in SUBSET Rows
    PROVE  Cardinality(S) \in 0..Total
<1>1. Total \in Int /\ 1 \in Int /\ Total \in Nat /\ Total >= 1
  BY SizeAssumption
<1>2. IsFiniteSet(Rows) /\ Cardinality(Rows) = Total
  <2>1. IsFiniteSet(1..Total) /\ Cardinality(1..Total) = IF 1 > Total THEN 0 ELSE Total - 1 + 1
    BY <1>1, FS_Interval
  <2> QED
    BY <1>1, <2>1 DEF Rows
<1>3. Cardinality(S) <= Total
  BY <1>2, FS_Subset
<1>4. Cardinality(S) \in Nat
  BY <1>2, FS_Subset, FS_CardinalityType
<1> QED
  BY <1>1, <1>3, <1>4

\* Moving a worker, a job or the import job on keeps it well typed.
LEMMA WorkerMoves ==
    ASSUME NEW q \in Worker
    PROVE  /\ q.row \in Rows /\ q.stats \in Stats
           /\ \A pc \in WorkPoint : [q EXCEPT !.pc = pc] \in Worker
           /\ \A r \in Rows : [q EXCEPT !.pc = "mark", !.row = r] \in Worker
           /\ \A s \in Stats : [q EXCEPT !.pc = "store", !.stats = s] \in Worker
BY DEF Worker, WorkPoint

LEMMA JobMoves ==
    ASSUME NEW q \in Job
    PROVE  q.reset \in BOOLEAN /\ \A pc \in JobPoint : [q EXCEPT !.pc = pc] \in Job
BY DEF Job

LEMMA ImporterMoves ==
    ASSUME NEW q \in Importer
    PROVE  /\ q.done \in 0..Total /\ q.auto \in BOOLEAN
           /\ \A pc \in ImportPoint : [q EXCEPT !.pc = pc] \in Importer
BY DEF Importer

\* The constant records are well typed.
LEMMA ConstantsTyped ==
    /\ NoBatch \in Batch /\ NoJob \in Job /\ Idle \in Worker
    /\ [Idle EXCEPT !.pc = "next"] \in Worker /\ [Idle EXCEPT !.pc = "count"] \in Worker
    /\ \A r \in Rows : [Idle EXCEPT !.pc = "mark", !.row = r] \in Worker
<1>1. 0 \in 0..Total /\ 1 \in 1..Total
  BY SizeAssumption
<1>2. NoBatch \in Batch
  BY <1>1 DEF NoBatch, Batch, BatchStatus
<1>3. NoJob \in Job
  BY DEF NoJob, Job, JobPoint
<1>4. NoStats \in Stats
  BY <1>1 DEF NoStats, Stats
<1>5. Idle \in Worker
  BY <1>1, <1>4 DEF Idle, Worker, WorkPoint, Rows
<1>6. [Idle EXCEPT !.pc = "next"] \in Worker /\ [Idle EXCEPT !.pc = "count"] \in Worker
  BY <1>5 DEF Worker, WorkPoint
<1>7. ASSUME NEW r \in Rows
      PROVE  [Idle EXCEPT !.pc = "mark", !.row = r] \in Worker
  BY <1>5, WorkerMoves
<1> QED
  BY <1>2, <1>3, <1>5, <1>6, <1>7

\* So do the updates of the batch.
LEMMA BatchTyped ==
    \A b \in Batch :
        /\ \A s \in BatchStatus : [b EXCEPT !.status = s] \in Batch
        /\ \A n \in 0..Total : [b EXCEPT !.imported = n] \in Batch
        /\ \A n \in 0..Total : [b EXCEPT !.status = "imported", !.imported = n] \in Batch
        /\ [b EXCEPT !.status = "imported", !.scored = 0, !.failed = 0] \in Batch
        /\ \A n, k \in 0..Total : \A s \in BatchStatus :
             [b EXCEPT !.scored = n, !.failed = k, !.status = s] \in Batch
<1> SUFFICES ASSUME NEW b \in Batch
             PROVE  /\ \A s \in BatchStatus : [b EXCEPT !.status = s] \in Batch
                    /\ \A n \in 0..Total : [b EXCEPT !.imported = n] \in Batch
                    /\ \A n \in 0..Total : [b EXCEPT !.status = "imported", !.imported = n] \in Batch
                    /\ [b EXCEPT !.status = "imported", !.scored = 0, !.failed = 0] \in Batch
                    /\ \A n, k \in 0..Total : \A s \in BatchStatus :
                         [b EXCEPT !.scored = n, !.failed = k, !.status = s] \in Batch
  OBVIOUS
<1>1. 0 \in 0..Total /\ "imported" \in BatchStatus
  BY SizeAssumption DEF BatchStatus
<1>2. \A s \in BatchStatus : [b EXCEPT !.status = s] \in Batch
  BY DEF Batch
<1>3. \A n \in 0..Total : [b EXCEPT !.imported = n] \in Batch
  BY DEF Batch
<1>4. \A n \in 0..Total : [b EXCEPT !.status = "imported", !.imported = n] \in Batch
  BY <1>1 DEF Batch
<1>5. [b EXCEPT !.status = "imported", !.scored = 0, !.failed = 0] \in Batch
  BY <1>1 DEF Batch
<1>6. \A n, k \in 0..Total : \A s \in BatchStatus :
        [b EXCEPT !.scored = n, !.failed = k, !.status = s] \in Batch
  BY DEF Batch
<1> QED
  BY <1>2, <1>3, <1>4, <1>5, <1>6

\* TypeOK with the record types by their names.
LEMMA TypeNamed ==
    TypeOK <=>
        /\ batch \in Batch /\ row \in [Rows -> RowStatus] /\ imp \in Importer
        /\ active \in BOOLEAN /\ job \in [Jobs -> Job] /\ queue \in [Jobs -> SUBSET Rows]
        /\ work \in [Workers -> Worker] /\ faults \in 0..MaxFaults
        /\ mixed \in BOOLEAN /\ dropped \in BOOLEAN
BY DEF TypeOK, Batch, Importer, Job, Worker

\* A runner's first component is its job.
LEMMA RunnerJob == \A w \in Runners : w[1] \in Jobs /\ w \in Pool(w[1])
BY DEF Runners, Pool

\* SetBatch and SetRow keep the tables well typed.
LEMMA TablesTyped ==
    ASSUME TypeOK
    PROVE  /\ \A b \in Batch : SetBatch(b) => batch' \in Batch
           /\ \A r \in Rows, s \in RowStatus : SetRow(r, s) => row' \in [Rows -> RowStatus]
<1>1. batch \in Batch /\ row \in [Rows -> RowStatus]
  BY TypeNamed
<1> QED
  BY <1>1 DEF SetBatch, SetRow

\* The counters a refresh reads are in range.
LEMMA StatsTyped ==
    [scored |-> Cardinality(With({"scored"})),
     failed |-> Cardinality(With({"failed"})),
     pending |-> Cardinality(With({"pending", "scoring"}))] \in Stats
<1>1. ASSUME NEW s PROVE With(s) \in SUBSET Rows
  BY DEF With
<1>2. /\ Cardinality(With({"scored"})) \in 0..Total
      /\ Cardinality(With({"failed"})) \in 0..Total
      /\ Cardinality(With({"pending", "scoring"})) \in 0..Total
  BY <1>1, RowsCounted
<1> QED
  BY <1>2 DEF Stats

\* What a refresh writes is a batch.
LEMMA RefreshedTyped ==
    ASSUME TypeOK, NEW q \in Worker
    PROVE  Refreshed(q.stats) \in Batch
<1>1. batch \in Batch
  BY TypeNamed
<1>2. q.stats.scored \in 0..Total /\ q.stats.failed \in 0..Total
  BY WorkerMoves DEF Stats
<1>3. "scoring" \in BatchStatus /\ "completed" \in BatchStatus /\ "imported" \in BatchStatus
  BY DEF BatchStatus
<1> QED
  BY <1>1, <1>2, <1>3, BatchTyped DEF Refreshed

----
(* Type correctness *)

LEMMA InitTyped == Init => TypeOK
<1> SUFFICES ASSUME Init PROVE TypeOK
  OBVIOUS
<1>1. 0 \in 0..Total /\ 0 \in 0..MaxFaults
  BY SizeAssumption
<1>2. imp \in Importer
  BY <1>1 DEF Init, Importer, ImportPoint
<1>3. row \in [Rows -> RowStatus] /\ queue \in [Jobs -> SUBSET Rows]
  BY DEF Init, RowStatus
<1>4. job \in [Jobs -> Job] /\ work \in [Workers -> Worker] /\ batch \in Batch
  BY ConstantsTyped DEF Init
<1> QED
  BY <1>1, <1>2, <1>3, <1>4, TypeNamed DEF Init

LEMMA TypeNamedNext ==
    TypeOK' <=>
        /\ batch' \in Batch /\ row' \in [Rows -> RowStatus] /\ imp' \in Importer
        /\ active' \in BOOLEAN /\ job' \in [Jobs -> Job] /\ queue' \in [Jobs -> SUBSET Rows]
        /\ work' \in [Workers -> Worker] /\ faults' \in 0..MaxFaults
        /\ mixed' \in BOOLEAN /\ dropped' \in BOOLEAN
BY DEF TypeOK, Batch, Importer, Job, Worker

\* Moving one process on.
LEMMA GoTyped ==
    ASSUME TypeOK
    PROVE  /\ \A w \in Workers, pc \in WorkPoint : Go(w, pc) => work' \in [Workers -> Worker]
           /\ \A j \in Jobs, pc \in JobPoint : JobGo(j, pc) => job' \in [Jobs -> Job]
           /\ \A pc \in ImportPoint : ImportGo(pc) => imp' \in Importer
<1>1. work \in [Workers -> Worker] /\ job \in [Jobs -> Job] /\ imp \in Importer
  BY TypeNamed
<1>2. ASSUME NEW w \in Workers, NEW pc \in WorkPoint, Go(w, pc)
      PROVE  work' \in [Workers -> Worker]
  <2>1. [work[w] EXCEPT !.pc = pc] \in Worker
    BY <1>1, WorkerMoves
  <2> QED
    BY <1>1, <1>2, <2>1 DEF Go
<1>3. ASSUME NEW j \in Jobs, NEW pc \in JobPoint, JobGo(j, pc)
      PROVE  job' \in [Jobs -> Job]
  <2>1. [job[j] EXCEPT !.pc = pc] \in Job
    BY <1>1, JobMoves
  <2> QED
    BY <1>1, <1>3, <2>1 DEF JobGo
<1>4. ASSUME NEW pc \in ImportPoint, ImportGo(pc)
      PROVE  imp' \in Importer
  BY <1>1, <1>4, ImporterMoves DEF ImportGo
<1> QED
  BY <1>2, <1>3, <1>4

\* The import job.
LEMMA ImportTyped ==
    TypeOK /\ (ImportStep \/ \E auto \in AutoScore : CreateBatch(auto)) => TypeOK'
<1> SUFFICES ASSUME TypeOK, ImportStep \/ \E auto \in AutoScore : CreateBatch(auto)
             PROVE  TypeOK'
  OBVIOUS
<1>0. /\ batch \in Batch /\ row \in [Rows -> RowStatus] /\ imp \in Importer
      /\ active \in BOOLEAN /\ job \in [Jobs -> Job] /\ queue \in [Jobs -> SUBSET Rows]
      /\ work \in [Workers -> Worker] /\ faults \in 0..MaxFaults
      /\ mixed \in BOOLEAN /\ dropped \in BOOLEAN
  BY TypeNamed
<1>p. {"finish", "insert", "schedule", "over", "fail", "count"} \subseteq ImportPoint
  BY DEF ImportPoint
<1>1. ASSUME NEW auto \in AutoScore, CreateBatch(auto) PROVE TypeOK'
  <2>1. batch' \in Batch
    BY <1>1, ConstantsTyped, BatchTyped DEF CreateBatch, BatchStatus
  <2>2. imp' \in Importer
    BY <1>1, SizeAssumption, SetsAssumption DEF CreateBatch, Importer, ImportPoint
  <2> QED
    BY <1>0, <1>1, <2>1, <2>2, TypeNamedNext DEF CreateBatch, history
<1>2. CASE ImportChunk
  <2> DEFINE upto == IF imp.done + Chunk < Total THEN imp.done + Chunk ELSE Total
  <2>1. upto \in 0..Total
    <3>1. imp.done \in 0..Total
      BY <1>0, ImporterMoves
    <3> QED
      BY <3>1, SizeAssumption
  <2>2. imp' \in Importer
    <3>1. CASE batch.status = "none"
      BY <1>2, <1>p, <3>1, GoTyped DEF ImportChunk
    <3>2. CASE batch.status # "none"
      <4>1. imp' = [imp EXCEPT !.pc = "count", !.done = upto]
        BY <1>2, <3>2 DEF ImportChunk
      <4> HIDE DEF upto
      <4>2. [imp EXCEPT !.pc = "count", !.done = upto] \in Importer
        BY <1>0, <2>1 DEF Importer, ImportPoint
      <4> QED
        BY <4>1, <4>2
    <3> QED
      BY <3>1, <3>2
  <2>3. row' \in [Rows -> RowStatus]
    BY <1>0, <1>2 DEF ImportChunk, RowStatus
  <2> QED
    BY <1>0, <1>2, <2>2, <2>3, TypeNamedNext DEF ImportChunk, history
<1>3. CASE ImportCount
  <2>1. batch' \in Batch
    BY <1>0, <1>3, ImporterMoves, BatchTyped DEF ImportCount, SetBatch
  <2>2. imp' \in Importer
    BY <1>3, <1>p, GoTyped DEF ImportCount
  <2> QED
    BY <1>0, <1>3, <2>1, <2>2, TypeNamedNext DEF ImportCount, history
<1>4. CASE ImportFinish
  <2>1. batch' \in Batch
    BY <1>0, <1>4, ImporterMoves, BatchTyped DEF ImportFinish, SetBatch
  <2>2. imp' \in Importer
    BY <1>4, <1>p, GoTyped DEF ImportFinish
  <2> QED
    BY <1>0, <1>4, <2>1, <2>2, TypeNamedNext DEF ImportFinish, history
<1>5. CASE ImportSchedule
  <2>1. imp' \in Importer
    BY <1>5, <1>p, GoTyped DEF ImportSchedule
  <2>2. imp.auto \in BOOLEAN
    BY <1>0, ImporterMoves
  <2>3. CASE \E j \in Jobs : Start(j, FALSE) /\ UNCHANGED dropped
    <3>1. PICK j \in Jobs : Start(j, FALSE) /\ UNCHANGED dropped
      BY <2>3
    <3>2. [pc |-> "load", reset |-> FALSE] \in Job
      BY DEF Job, JobPoint
    <3>3. job' \in [Jobs -> Job] /\ active' \in BOOLEAN /\ mixed' \in BOOLEAN
      BY <1>0, <3>1, <3>2 DEF Start
    <3> QED
      BY <1>0, <1>5, <2>1, <3>1, <3>3, TypeNamedNext DEF ImportSchedule
  <2>4. CASE dropped' = (dropped \/ imp.auto) /\ UNCHANGED <<active, job, mixed>>
    <3>1. dropped' \in BOOLEAN
      BY <1>0, <2>2, <2>4
    <3> QED
      BY <1>0, <1>5, <2>1, <2>4, <3>1, TypeNamedNext DEF ImportSchedule
  <2> QED
    BY <1>5, <2>3, <2>4 DEF ImportSchedule
<1>6. CASE ImportFail
  <2>1. batch' \in Batch
    BY <1>0, <1>6, BatchTyped DEF ImportFail, SetBatch, BatchStatus
  <2>2. imp' \in Importer
    BY <1>6, <1>p, GoTyped DEF ImportFail
  <2> QED
    BY <1>0, <1>6, <2>1, <2>2, TypeNamedNext DEF ImportFail, history
<1> QED
  BY <1>1, <1>2, <1>3, <1>4, <1>5, <1>6 DEF ImportStep

\* The scoring job.
LEMMA JobTyped ==
    ASSUME TypeOK, NEW j \in Jobs,
           JobStep(j) \/ \E reset \in BOOLEAN : ScoreBatch(j, reset)
    PROVE  TypeOK'
<1>0. /\ batch \in Batch /\ row \in [Rows -> RowStatus] /\ imp \in Importer
      /\ active \in BOOLEAN /\ job \in [Jobs -> Job] /\ queue \in [Jobs -> SUBSET Rows]
      /\ work \in [Workers -> Worker] /\ faults \in 0..MaxFaults
      /\ mixed \in BOOLEAN /\ dropped \in BOOLEAN
  BY TypeNamed
<1>p. {"load", "reset", "resetBatch", "start", "select", "pool", "final", "end"}
         \subseteq JobPoint
  BY DEF JobPoint
<1>1. CASE \E reset \in BOOLEAN : ScoreBatch(j, reset)
  <2>1. PICK reset \in BOOLEAN : ScoreBatch(j, reset)
    BY <1>1
  <2>2. [pc |-> "load", reset |-> reset] \in Job
    BY DEF Job, JobPoint
  <2>3. active' \in BOOLEAN /\ job' \in [Jobs -> Job] /\ mixed' \in BOOLEAN
    BY <1>0, <2>1, <2>2 DEF ScoreBatch, Start
  <2> QED
    BY <1>0, <2>1, <2>3, TypeNamedNext DEF ScoreBatch
<1>2. CASE JobLoad(j)
  <2>1. job' \in [Jobs -> Job]
    BY <1>0, <1>2, <1>p DEF JobLoad, Job
  <2> QED
    BY <1>0, <1>2, <2>1, TypeNamedNext DEF JobLoad, history
<1>3. CASE JobResetRows(j)
  <2>1. job' \in [Jobs -> Job]
    BY <1>3, <1>p, GoTyped DEF JobResetRows
  <2>2. row' \in [Rows -> RowStatus]
    BY <1>0, <1>3 DEF JobResetRows, RowStatus
  <2> QED
    BY <1>0, <1>3, <2>1, <2>2, TypeNamedNext DEF JobResetRows, history
<1>4. CASE JobResetBatch(j)
  <2>1. job' \in [Jobs -> Job]
    BY <1>4, <1>p, GoTyped DEF JobResetBatch
  <2>2. batch' \in Batch
    BY <1>0, <1>4, BatchTyped DEF JobResetBatch, SetBatch
  <2> QED
    BY <1>0, <1>4, <2>1, <2>2, TypeNamedNext DEF JobResetBatch, history
<1>5. CASE JobStart(j)
  <2>1. job' \in [Jobs -> Job]
    BY <1>5, <1>p, GoTyped DEF JobStart
  <2>2. batch' \in Batch
    BY <1>0, <1>5, BatchTyped DEF JobStart, SetBatch, BatchStatus
  <2> QED
    BY <1>0, <1>5, <2>1, <2>2, TypeNamedNext DEF JobStart, history
<1>6. CASE JobSelect(j)
  <2>1. job' \in [Jobs -> Job]
    BY <1>6, <1>p, GoTyped DEF JobSelect
  <2>2. queue' \in [Jobs -> SUBSET Rows]
    BY <1>0, <1>6 DEF JobSelect, Selected, With
  <2>3. work' \in [Workers -> Worker]
    BY <1>0, <1>6, ConstantsTyped DEF JobSelect
  <2> QED
    BY <1>0, <1>6, <2>1, <2>2, <2>3, TypeNamedNext DEF JobSelect, history
<1>7. CASE JobPoolDone(j)
  <2>1. job' \in [Jobs -> Job]
    BY <1>7, <1>p, GoTyped DEF JobPoolDone
  <2>2. work' \in [Workers -> Worker]
    <3>1. j \in Workers /\ "count" \in WorkPoint
      BY DEF Workers, WorkPoint
    <3> QED
      BY <1>7, <3>1, GoTyped DEF JobPoolDone
  <2> QED
    BY <1>0, <1>7, <2>1, <2>2, TypeNamedNext DEF JobPoolDone, history
<1>8. CASE JobFail(j)
  <2>1. job' \in [Jobs -> Job]
    BY <1>8, <1>p, GoTyped DEF JobFail
  <2>2. batch' \in Batch
    BY <1>0, <1>8, BatchTyped DEF JobFail, SetBatch, BatchStatus
  <2> QED
    BY <1>0, <1>8, <2>1, <2>2, TypeNamedNext DEF JobFail, history
<1>9. CASE JobEnd(j)
  <2>1. job' \in [Jobs -> Job]
    BY <1>0, <1>9, ConstantsTyped DEF JobEnd
  <2> QED
    BY <1>0, <1>9, <2>1, TypeNamedNext DEF JobEnd, history
<1> QED
  BY <1>1, <1>2, <1>3, <1>4, <1>5, <1>6, <1>7, <1>8, <1>9 DEF JobStep

\* Scoring one row.
LEMMA WorkTyped ==
    ASSUME TypeOK, NEW w \in Workers,
           WorkStep(w) \/ (w \in Rescores /\ \E r \in Rows : Rescore(w, r))
    PROVE  TypeOK'
<1>0. /\ batch \in Batch /\ row \in [Rows -> RowStatus] /\ imp \in Importer
      /\ active \in BOOLEAN /\ job \in [Jobs -> Job] /\ queue \in [Jobs -> SUBSET Rows]
      /\ work \in [Workers -> Worker] /\ faults \in 0..MaxFaults
      /\ mixed \in BOOLEAN /\ dropped \in BOOLEAN
  BY TypeNamed
<1>t. work[w] \in Worker /\ work[w].row \in Rows
  BY <1>0, WorkerMoves
<1>p. {"idle", "mark", "score", "count"} \subseteq WorkPoint
  BY DEF WorkPoint
<1>1. CASE w \in Rescores /\ \E r \in Rows : Rescore(w, r)
  <2>1. PICK r \in Rows : Rescore(w, r)
    BY <1>1
  <2>2. work' \in [Workers -> Worker] /\ mixed' \in BOOLEAN
    BY <1>0, <2>1, ConstantsTyped DEF Rescore
  <2> QED
    BY <1>0, <2>1, <2>2, TypeNamedNext DEF Rescore
<1>2. CASE w \in Runners /\ RunnerNext(w)
  <2> DEFINE j == w[1]
  <2>1. j \in Jobs
    BY <1>2, RunnerJob
  <2>2. queue' \in [Jobs -> SUBSET Rows] /\ work' \in [Workers -> Worker]
    <3>1. CASE Go(w, "idle") /\ UNCHANGED queue
      BY <1>0, <1>p, <3>1, GoTyped
    <3>2. CASE \E r \in queue[j] :
                /\ queue' = [queue EXCEPT ![j] = @ \ {r}]
                /\ work' = [work EXCEPT ![w] = [@ EXCEPT !.pc = "mark", !.row = r]]
      <4>1. PICK r \in queue[j] :
                /\ queue' = [queue EXCEPT ![j] = @ \ {r}]
                /\ work' = [work EXCEPT ![w] = [@ EXCEPT !.pc = "mark", !.row = r]]
        BY <3>2
      <4>2. r \in Rows
        BY <1>0, <2>1, <4>1
      <4>3. [work[w] EXCEPT !.pc = "mark", !.row = r] \in Worker
        BY <1>t, <4>2, WorkerMoves
      <4>4. queue[j] \ {r} \in SUBSET Rows
        BY <1>0, <2>1
      <4>5. work' \in [Workers -> Worker]
        BY <1>0, <4>1, <4>3
      <4>6. queue' \in [Jobs -> SUBSET Rows]
        BY <1>0, <2>1, <4>1, <4>4
      <4> QED
        BY <4>5, <4>6
    <3> QED
      BY <1>2, <3>1, <3>2 DEF RunnerNext
  <2> QED
    BY <1>0, <1>2, <2>2, TypeNamedNext DEF RunnerNext, history
<1>3. CASE Mark(w)
  <2>1. row' \in [Rows -> RowStatus]
    BY <1>3, <1>t, TablesTyped DEF Mark, RowStatus
  <2>2. work' \in [Workers -> Worker]
    BY <1>3, <1>p, GoTyped DEF Mark
  <2> QED
    BY <1>0, <1>3, <2>1, <2>2, TypeNamedNext DEF Mark, history
<1>4. CASE Answer(w)
  <2>1. row' \in [Rows -> RowStatus]
    <3>1. PICK s \in {"scored", "failed"} : SetRow(work[w].row, s)
      BY <1>4 DEF Answer
    <3>2. s \in RowStatus
      BY DEF RowStatus
    <3> QED
      BY <1>t, <3>1, <3>2, TablesTyped
  <2>2. work' \in [Workers -> Worker]
    BY <1>0, <1>4, ConstantsTyped DEF Answer
  <2> QED
    BY <1>0, <1>4, <2>1, <2>2, TypeNamedNext DEF Answer, history
<1>5. CASE Count(w)
  <2> DEFINE stats == [scored |-> Cardinality(With({"scored"})),
                       failed |-> Cardinality(With({"failed"})),
                       pending |-> Cardinality(With({"pending", "scoring"}))]
  <2>1. work' = [work EXCEPT ![w] = [@ EXCEPT !.pc = "store", !.stats = stats]]
    BY <1>5 DEF Count
  <2>2. stats \in Stats
    BY StatsTyped
  <2> HIDE DEF stats
  <2>3. [work[w] EXCEPT !.pc = "store", !.stats = stats] \in Worker
    BY <1>t, <2>2, WorkerMoves
  <2>4. work' \in [Workers -> Worker]
    BY <1>0, <2>1, <2>3
  <2> QED
    BY <1>0, <1>5, <2>4, TypeNamedNext DEF Count, history
<1>6. CASE Store(w)
  <2>1. batch' \in Batch
    BY <1>0, <1>6, <1>t, RefreshedTyped, TablesTyped DEF Store
  <2>2. work' \in [Workers -> Worker]
    BY <1>0, <1>6, ConstantsTyped DEF Store
  <2>3. job' \in [Jobs -> Job]
    BY <1>0, <1>6, GoTyped DEF Store, JobPoint
  <2> QED
    BY <1>0, <1>6, <2>1, <2>2, <2>3, TypeNamedNext DEF Store, history
<1> QED
  BY <1>1, <1>2, <1>3, <1>4, <1>5, <1>6 DEF WorkStep

\* Clearing, throwing statements and restarts.
LEMMA OtherTyped ==
    ASSUME TypeOK,
           \/ Clear \/ ImportThrows \/ Restart
           \/ \E j \in Jobs : JobThrows(j)
           \/ \E j \in Jobs, w \in Workers : WorkerThrows(j, w)
    PROVE  TypeOK'
<1>0. /\ batch \in Batch /\ row \in [Rows -> RowStatus] /\ imp \in Importer
      /\ active \in BOOLEAN /\ job \in [Jobs -> Job] /\ queue \in [Jobs -> SUBSET Rows]
      /\ work \in [Workers -> Worker] /\ faults \in 0..MaxFaults
      /\ mixed \in BOOLEAN /\ dropped \in BOOLEAN
  BY TypeNamed
<1>f. Fault => faults' \in 0..MaxFaults
  BY <1>0, SizeAssumption DEF Fault
<1>1. CASE Clear
  <2>1. batch' \in Batch /\ row' \in [Rows -> RowStatus]
    BY <1>1, ConstantsTyped DEF Clear, RowStatus
  <2> QED
    BY <1>0, <1>1, <2>1, TypeNamedNext DEF Clear, history
<1>2. CASE ImportThrows
  <2>1. imp' \in Importer
    BY <1>2, GoTyped DEF ImportThrows, ImportPoint
  <2> QED
    BY <1>0, <1>f, <1>2, <2>1, TypeNamedNext DEF ImportThrows, history
<1>3. CASE Restart
  <2>1. imp' \in Importer
    BY <1>0, <1>3, ImporterMoves DEF Restart, ImportPoint
  <2>2. job' \in [Jobs -> Job] /\ work' \in [Workers -> Worker]
    BY <1>3, ConstantsTyped DEF Restart
  <2>3. queue' \in [Jobs -> SUBSET Rows] /\ active' \in BOOLEAN
    BY <1>3 DEF Restart
  <2> QED
    BY <1>0, <1>f, <1>3, <2>1, <2>2, <2>3, TypeNamedNext DEF Restart, history
<1>4. ASSUME NEW j \in Jobs, JobThrows(j) PROVE TypeOK'
  <2>1. job' \in [Jobs -> Job]
    BY <1>4, GoTyped DEF JobThrows, JobPoint
  <2> QED
    BY <1>0, <1>f, <1>4, <2>1, TypeNamedNext DEF JobThrows, history
<1>5. ASSUME NEW j \in Jobs, NEW w \in Workers, WorkerThrows(j, w) PROVE TypeOK'
  <2>1. work' \in [Workers -> Worker]
    BY <1>0, <1>5, ConstantsTyped DEF WorkerThrows
  <2>2. job' \in [Jobs -> Job]
    BY <1>0, <1>5, GoTyped DEF WorkerThrows, JobPoint
  <2> QED
    BY <1>0, <1>f, <1>5, <2>1, <2>2, TypeNamedNext DEF WorkerThrows, history
<1> QED
  BY <1>1, <1>2, <1>3, <1>4, <1>5

LEMMA TypeStep == TypeOK /\ [Next]_vars => TypeOK'
<1> SUFFICES ASSUME TypeOK, [Next]_vars PROVE TypeOK'
  OBVIOUS
<1>1. CASE UNCHANGED vars
  BY <1>1 DEF vars, TypeOK
<1>2. CASE Next
  <2>1. Rescores \subseteq Workers
    BY DEF Workers
  <2> QED
    BY <1>2, <2>1, ImportTyped, JobTyped, WorkTyped, OtherTyped DEF Next
<1> QED
  BY <1>1, <1>2

\* Every value keeps its type: counters between 0 and the size of the file,
\* statuses those of the schema (cs_reply_batches, cs_reply_records).
THEOREM TypeCorrect == Spec => []TypeOK
BY InitTyped, TypeStep, PTL DEF Spec

----
(* What the processes do to one another *)

\* A job whose pool has not been started or has been waited for has no runner
\* at work: a job is only started again when its last pool has emptied.
PoolEmpty ==
    \A j \in Jobs :
        job[j].pc \in {"load", "reset", "resetBatch", "start", "select", "final"} =>
            \A w \in Pool(j) : ~Busy(w)

\* A job itself only does its last refresh.
LastRefresh ==
    \A j \in Jobs : /\ work[j].pc \in {"idle", "count", "store"}
                    /\ Busy(j) => job[j].pc = "final"

\* The row a runner holds is no longer in the list of its pool, ...
Taken ==
    \A w \in Runners : work[w].pc \in {"mark", "score"} => work[w].row \notin queue[w[1]]

\* ... so the other runners of the pool hold other rows.
Apart ==
    \A v, w \in Runners :
        /\ v[1] = w[1] /\ work[v].row = work[w].row
        /\ work[v].pc \in {"mark", "score"} /\ work[w].pc \in {"mark", "score"}
        => v = w

\* As long as nothing has thrown, runners only work for a job that waits for them.
NoStraggler ==
    faults = 0 => \A w \in Runners : Busy(w) => job[w[1]].pc = "pool"

Structure ==
    ActiveIsOneJob /\ PoolEmpty /\ LastRefresh /\ Taken /\ Apart /\ NoStraggler

IInv == TypeOK /\ Structure /\ ScoringIsOwned

\* A step that leaves jobs, lists and the workers of jobs alone.
LEMMA Framed ==
    ASSUME Structure, UNCHANGED <<active, job, queue>>, faults' = 0 => faults = 0,
           \A v \in Runners \cup Jobs : work'[v] = work[v]
    PROVE  Structure'
<1>1. ActiveIsOneJob'
  BY DEF Structure, ActiveIsOneJob
<1>2. \A j \in Jobs : Pool(j) \subseteq Runners
  BY DEF Pool, Runners
<1>3. PoolEmpty'
  BY <1>2 DEF Structure, PoolEmpty, Busy, Pool
<1>4. LastRefresh'
  BY DEF Structure, LastRefresh, Busy
<1>5. Taken'
  BY DEF Structure, Taken
<1>6. Apart'
  BY DEF Structure, Apart
<1>7. NoStraggler'
  BY DEF Structure, NoStraggler, Busy
<1> QED
  BY <1>1, <1>3, <1>4, <1>5, <1>6, <1>7 DEF Structure

\* A job goes on with its own statements.
LEMMA JobMovedTo ==
    ASSUME TypeOK, Structure, NEW j \in Jobs, NEW pc \in JobPoint,
           job'[j].pc = pc, \A i \in Jobs : i # j => job'[i].pc = job[i].pc,
           UNCHANGED <<active, queue, work>>, faults' = 0 => faults = 0,
           job[j].pc \notin {"off", "pool", "final"}, pc \notin {"off", "pool", "final"},
           pc \in {"load", "reset", "resetBatch", "start", "select"} =>
               job[j].pc \in {"load", "reset", "resetBatch", "start", "select"}
    PROVE  Structure'
<1>1. job'[j].pc = pc /\ \A i \in Jobs : i # j => job'[i].pc = job[i].pc
  OBVIOUS
<1>2. ActiveIsOneJob'
  BY <1>1 DEF Structure, ActiveIsOneJob
<1>3. PoolEmpty'
  BY <1>1 DEF Structure, PoolEmpty, Busy, Pool
<1>4. LastRefresh'
  BY <1>1 DEF Structure, LastRefresh, Busy
<1>5. Taken' /\ Apart'
  BY DEF Structure, Taken, Apart
<1>6. NoStraggler'
  BY <1>1, RunnerJob DEF Structure, NoStraggler, Busy
<1> QED
  BY <1>2, <1>3, <1>4, <1>5, <1>6 DEF Structure

\* The same, when only the point of the job changes.
LEMMA JobMoved ==
    ASSUME TypeOK, Structure, NEW j \in Jobs, NEW pc \in JobPoint, JobGo(j, pc),
           UNCHANGED <<active, queue, work>>, faults' = 0 => faults = 0,
           job[j].pc \notin {"off", "pool", "final"}, pc \notin {"off", "pool", "final"},
           pc \in {"load", "reset", "resetBatch", "start", "select"} =>
               job[j].pc \in {"load", "reset", "resetBatch", "start", "select"}
    PROVE  Structure'
<1>1. job'[j].pc = pc /\ \A i \in Jobs : i # j => job'[i].pc = job[i].pc
  BY TypeNamed DEF JobGo, Job
<1> QED
  BY <1>1, JobMovedTo

\* A new job finds the batch without a job and its pool empty.
LEMMA JobStarted ==
    ASSUME TypeOK, Structure, NEW j \in Jobs, NEW reset \in BOOLEAN, Start(j, reset),
           UNCHANGED <<queue, work, faults>>
    PROVE  Structure'
<1>0. job \in [Jobs -> Job] /\ active \in BOOLEAN
  BY TypeNamed
<1>1. \A i \in Jobs : job[i].pc = "off"
  BY DEF Structure, ActiveIsOneJob, Start
<1>2. active' = TRUE /\ job' = [job EXCEPT ![j] = [pc |-> "load", reset |-> reset]]
  BY DEF Start
<1>3. job'[j].pc = "load" /\ \A i \in Jobs : i # j => job'[i].pc = "off"
  BY <1>0, <1>1, <1>2
<1>4. ActiveIsOneJob'
  BY <1>2, <1>3 DEF ActiveIsOneJob
<1>5. \A w \in Pool(j) : ~Busy(w)
  BY DEF Start, Reusable
<1>6. PoolEmpty'
  BY <1>3, <1>5 DEF PoolEmpty, Busy, Pool
<1>7. LastRefresh'
  BY <1>1, <1>3 DEF Structure, LastRefresh, Busy
<1>8. Taken' /\ Apart'
  BY DEF Structure, Taken, Apart
<1>9. NoStraggler'
  BY <1>1, <1>3, RunnerJob DEF Structure, NoStraggler, Busy
<1> QED
  BY <1>4, <1>6, <1>7, <1>8, <1>9 DEF Structure

\* A worker goes on with its row.
LEMMA WorkerMoved ==
    ASSUME TypeOK, Structure, NEW w \in Workers, NEW q \in Worker,
           work' = [work EXCEPT ![w] = q], UNCHANGED <<active, job, queue>>,
           faults' = 0 => faults = 0, work[w].pc # "idle",
           q.pc \in {"mark", "score"} => /\ work[w].pc \in {"mark", "score"}
                                         /\ q.row = work[w].row,
           w \in Jobs => q.pc \in {"idle", "count", "store"}
    PROVE  Structure'
<1>0. work \in [Workers -> Worker]
  BY TypeNamed
<1>1. work'[w] = q /\ \A v \in Workers : v # w => work'[v] = work[v]
  BY <1>0
<1>2. Runners \subseteq Workers /\ Jobs \subseteq Workers
  BY DEF Workers
<1>p. \A j \in Jobs : Pool(j) \subseteq Workers
  BY <1>2 DEF Pool, Runners
<1>3. ActiveIsOneJob'
  BY DEF Structure, ActiveIsOneJob
<1>4. PoolEmpty'
  BY <1>1, <1>p DEF Structure, PoolEmpty, Busy, Pool
<1>5. LastRefresh'
  BY <1>1, <1>2 DEF Structure, LastRefresh, Busy
<1>6. Taken'
  BY <1>1, <1>2 DEF Structure, Taken
<1>7. Apart'
  BY <1>1, <1>2 DEF Structure, Apart
<1>8. NoStraggler'
  BY <1>1, <1>2 DEF Structure, NoStraggler, Busy
<1> QED
  BY <1>3, <1>4, <1>5, <1>6, <1>7, <1>8 DEF Structure

\* No step undoes a fault.
LEMMA FaultsStay ==
    ASSUME TypeOK, Next
    PROVE  faults' = 0 => faults = 0
<1>1. faults \in Nat
  BY SizeAssumption DEF TypeOK
<1>2. Fault => faults' # 0
  BY <1>1 DEF Fault
<1>3. Fault \/ UNCHANGED faults
  BY DEF Next, CreateBatch, ImportStep, ImportChunk, ImportCount, ImportFinish, ImportFail,
         ImportSchedule, ScoreBatch, JobStep, JobLoad, JobResetRows, JobResetBatch, JobStart,
         JobSelect, JobPoolDone, JobFail, JobEnd, Rescore, WorkStep, RunnerNext, Mark, Answer,
         Count, Store, Clear, ImportThrows, JobThrows, WorkerThrows, Restart
<1> QED
  BY <1>2, <1>3

\* The job reads its rows: the pool starts on a list nobody has taken from.
LEMMA SelectKeeps ==
    ASSUME TypeOK, Structure, NEW j \in Jobs, JobSelect(j)
    PROVE  Structure'
<1>0. work \in [Workers -> Worker] /\ job \in [Jobs -> Job] /\ queue \in [Jobs -> SUBSET Rows]
  BY TypeNamed
<1>1. /\ job[j].pc = "select" /\ job'[j].pc = "pool"
      /\ \A i \in Jobs : i # j => job'[i].pc = job[i].pc
  BY <1>0 DEF JobSelect, JobGo, Job
<1>2. Runners \subseteq Workers /\ Jobs \subseteq Workers
  BY DEF Workers
<1>3. /\ \A w \in Pool(j) : w \in Workers => work'[w] = [Idle EXCEPT !.pc = "next"]
      /\ \A w \in Workers : w \notin Pool(j) => work'[w] = work[w]
  BY DEF JobSelect
<1>4. [Idle EXCEPT !.pc = "next"].pc = "next"
  BY DEF Idle
<1>5. \A w \in Runners : w[1] = j <=> w \in Pool(j)
  BY DEF Runners, Pool
<1>6. \A i \in Jobs : i # j => queue'[i] = queue[i]
  BY <1>0 DEF JobSelect
<1>7. \A w \in Runners : w \in Pool(j) => work'[w].pc = "next"
  BY <1>2, <1>3, <1>4
<1>8. \A i \in Jobs : i \notin Pool(j)
  BY SetsAssumption DEF Pool, Runners
<1>9. ActiveIsOneJob'
  BY <1>1 DEF Structure, ActiveIsOneJob, JobSelect
<1>10. PoolEmpty'
  <2>1. \A i \in Jobs : \A w \in Pool(i) : i # j => w \in Workers /\ w \notin Pool(j)
    BY <1>2 DEF Pool, Runners
  <2> QED
    BY <1>1, <1>3, <2>1 DEF Structure, PoolEmpty, Busy
<1>11. LastRefresh'
  BY <1>1, <1>2, <1>3, <1>8 DEF Structure, LastRefresh, Busy
<1>12. Taken'
  <2> SUFFICES ASSUME NEW w \in Runners, work'[w].pc \in {"mark", "score"}
               PROVE  work'[w].row \notin queue'[w[1]]
    BY DEF Taken
  <2>1. w \notin Pool(j) /\ w[1] # j /\ w[1] \in Jobs
    BY <1>5, <1>7, RunnerJob
  <2> QED
    BY <1>2, <1>3, <1>6, <2>1 DEF Structure, Taken
<1>13. Apart'
  BY <1>2, <1>3, <1>7 DEF Structure, Apart
<1>14. NoStraggler'
  <2> SUFFICES ASSUME faults' = 0, NEW w \in Runners, work'[w].pc # "idle"
               PROVE  job'[w[1]].pc = "pool"
    BY DEF NoStraggler, Busy
  <2>1. faults = 0
    BY DEF JobSelect
  <2>2. CASE w[1] = j
    BY <1>1, <2>2
  <2>3. CASE w[1] # j
    BY <1>1, <1>2, <1>3, <1>5, <2>1, <2>3, RunnerJob DEF Structure, NoStraggler, Busy
  <2> QED
    BY <2>2, <2>3
<1> QED
  BY <1>9, <1>10, <1>11, <1>12, <1>13, <1>14 DEF Structure

\* The job has waited for its pool.
LEMMA PoolDoneKeeps ==
    ASSUME TypeOK, Structure, NEW j \in Jobs, JobPoolDone(j)
    PROVE  Structure'
<1>0. work \in [Workers -> Worker] /\ job \in [Jobs -> Job]
  BY TypeNamed
<1>1. /\ job[j].pc = "pool" /\ job'[j].pc = "final"
      /\ \A i \in Jobs : i # j => job'[i].pc = job[i].pc
  BY <1>0 DEF JobPoolDone, JobGo, Job
<1>2. Runners \subseteq Workers /\ Jobs \subseteq Workers
  BY DEF Workers
<1>3. work'[j].pc = "count" /\ \A w \in Workers : w # j => work'[w] = work[w]
  BY <1>0, <1>2 DEF JobPoolDone, Go, Worker
<1>4. j \notin Runners
  BY SetsAssumption
<1>5. \A w \in Runners : work'[w] = work[w]
  BY <1>2, <1>3, <1>4
<1>6. \A i \in Jobs : Pool(i) \subseteq Runners
  BY DEF Pool, Runners
<1>7. \A w \in Pool(j) : ~Busy(w)
  BY DEF JobPoolDone
<1>8. ActiveIsOneJob'
  BY <1>1 DEF Structure, ActiveIsOneJob, JobPoolDone
<1>9. PoolEmpty'
  BY <1>1, <1>5, <1>6, <1>7 DEF Structure, PoolEmpty, Busy, Pool
<1>10. LastRefresh'
  BY <1>1, <1>2, <1>3 DEF Structure, LastRefresh, Busy
<1>11. Taken' /\ Apart'
  BY <1>5 DEF Structure, Taken, Apart, JobPoolDone
<1>12. NoStraggler'
  BY <1>1, <1>5, <1>7, RunnerJob DEF Structure, NoStraggler, Busy, JobPoolDone
<1> QED
  BY <1>8, <1>9, <1>10, <1>11, <1>12 DEF Structure

\* The job leaves; no other job is there.
LEMMA EndKeeps ==
    ASSUME TypeOK, Structure, NEW j \in Jobs, JobEnd(j)
    PROVE  Structure'
<1>0. job \in [Jobs -> Job]
  BY TypeNamed
<1>1. job[j].pc = "end" /\ active' = FALSE /\ job' = [job EXCEPT ![j] = NoJob]
  BY DEF JobEnd
<1>2. \A i \in Jobs : job'[i].pc = "off"
  BY <1>0, <1>1 DEF Structure, ActiveIsOneJob, NoJob
<1>3. UNCHANGED <<queue, work, faults>>
  BY DEF JobEnd
<1>4. ActiveIsOneJob'
  BY <1>1, <1>2 DEF ActiveIsOneJob
<1>5. PoolEmpty' /\ Taken' /\ Apart'
  BY <1>2, <1>3 DEF Structure, PoolEmpty, Taken, Apart
<1>6. LastRefresh'
  BY <1>0, <1>1, <1>2, <1>3 DEF Structure, ActiveIsOneJob, LastRefresh, Busy
<1>7. NoStraggler'
  <2>1. \A i \in Jobs : job[i].pc # "pool"
    BY <1>1 DEF Structure, ActiveIsOneJob
  <2> QED
    BY <1>3, <2>1, RunnerJob DEF Structure, NoStraggler, Busy
<1> QED
  BY <1>4, <1>5, <1>6, <1>7 DEF Structure

\* A runner takes a row out of the list.
LEMMA NextKeeps ==
    ASSUME TypeOK, Structure, NEW w \in Runners, RunnerNext(w)
    PROVE  Structure'
<1>0. work \in [Workers -> Worker] /\ queue \in [Jobs -> SUBSET Rows]
  BY TypeNamed
<1>1. Runners \subseteq Workers /\ Jobs \subseteq Workers /\ w \in Workers
  BY DEF Workers
<1>2. work[w].pc = "next" /\ w[1] \in Jobs /\ work[w] \in Worker
  BY <1>0, <1>1, RunnerJob DEF RunnerNext
<1>3. CASE Go(w, "idle") /\ UNCHANGED queue
  <2>1. [work[w] EXCEPT !.pc = "idle"] \in Worker
    BY <1>2, WorkerMoves DEF WorkPoint
  <2>2. [work[w] EXCEPT !.pc = "idle"].pc = "idle"
    BY <1>2 DEF Worker
  <2> DEFINE q == [work[w] EXCEPT !.pc = "idle"]
  <2>3. work' = [work EXCEPT ![w] = q]
    BY <1>3 DEF Go
  <2>4. q \in Worker /\ q.pc = "idle"
    BY <2>1, <2>2
  <2> HIDE DEF q
  <2>5. UNCHANGED <<active, job, queue>> /\ (faults' = 0 => faults = 0)
    BY <1>3 DEF RunnerNext
  <2> QED
    BY <1>1, <1>2, <2>3, <2>4, <2>5, WorkerMoved
<1>4. CASE \E r \in queue[w[1]] :
             /\ queue' = [queue EXCEPT ![w[1]] = @ \ {r}]
             /\ work' = [work EXCEPT ![w] = [@ EXCEPT !.pc = "mark", !.row = r]]
  <2>1. PICK r \in queue[w[1]] :
             /\ queue' = [queue EXCEPT ![w[1]] = @ \ {r}]
             /\ work' = [work EXCEPT ![w] = [@ EXCEPT !.pc = "mark", !.row = r]]
    BY <1>4
  <2>2. /\ work'[w].pc = "mark" /\ work'[w].row = r
        /\ \A v \in Workers : v # w => work'[v] = work[v]
    BY <1>0, <1>1, <1>2, <2>1 DEF Worker
  <2>3. /\ queue'[w[1]] = queue[w[1]] \ {r}
        /\ \A j \in Jobs : j # w[1] => queue'[j] = queue[j]
    BY <1>0, <1>2, <2>1
  <2>4. UNCHANGED <<active, job, faults>>
    BY DEF RunnerNext
  <2>5. ActiveIsOneJob'
    BY <2>4 DEF Structure, ActiveIsOneJob
  <2>6. \A j \in Jobs : \A v \in Pool(j) : v \in Workers /\ (v = w => j = w[1])
    BY <1>1 DEF Pool, Runners
  <2>7. w \in Pool(w[1]) /\ Busy(w)
    BY <1>2, RunnerJob DEF Busy
  <2>8. PoolEmpty'
    BY <1>2, <2>2, <2>4, <2>6, <2>7 DEF Structure, PoolEmpty, Busy
  <2>9. w \notin Jobs
    BY SetsAssumption
  <2>10. LastRefresh'
    BY <1>1, <2>2, <2>4, <2>9 DEF Structure, LastRefresh, Busy
  <2>11. \A v \in Runners : v[1] \in Jobs
    BY RunnerJob
  <2>12. Taken'
    BY <1>1, <1>2, <2>2, <2>3, <2>11 DEF Structure, Taken
  <2>13. Apart'
    <3>1. \A v \in Runners : v[1] = w[1] /\ work[v].pc \in {"mark", "score"} => work[v].row # r
      BY <2>1 DEF Structure, Taken
    <3> QED
      BY <1>1, <2>2, <3>1 DEF Structure, Apart
  <2>14. NoStraggler'
    BY <1>1, <2>2, <2>4, <2>7 DEF Structure, NoStraggler, Busy
  <2> QED
    BY <2>5, <2>8, <2>10, <2>12, <2>13, <2>14 DEF Structure
<1> QED
  BY <1>3, <1>4 DEF RunnerNext

\* A worker writes the counters; the last refresh ends its job.
LEMMA StoreKeeps ==
    ASSUME TypeOK, Structure, NEW w \in Workers, Store(w)
    PROVE  Structure'
<1>0. work \in [Workers -> Worker] /\ job \in [Jobs -> Job]
  BY TypeNamed
<1> DEFINE q == IF w \in Runners THEN [Idle EXCEPT !.pc = "next"] ELSE Idle
<1>1. work' = [work EXCEPT ![w] = q] /\ work[w].pc = "store"
  BY DEF Store
<1>2. q \in Worker /\ (w \in Jobs => q.pc = "idle") /\ q.pc \notin {"mark", "score"}
  BY ConstantsTyped, SetsAssumption DEF Idle
<1> HIDE DEF q
<1>3. CASE w \notin Jobs
  <2>1. UNCHANGED <<active, job, queue>> /\ (faults' = 0 => faults = 0)
    BY <1>3 DEF Store
  <2> QED
    BY <1>1, <1>2, <1>3, <2>1, WorkerMoved
<1>4. CASE w \in Jobs
  <2>1. job[w].pc = "final"
    BY <1>1, <1>4 DEF Structure, LastRefresh, Busy
  <2>2. job'[w].pc = "end" /\ \A i \in Jobs : i # w => job'[i].pc = job[i].pc
    BY <1>0, <1>4 DEF Store, JobGo, Job
  <2>3. work'[w].pc = "idle" /\ \A v \in Workers : v # w => work'[v] = work[v]
    BY <1>0, <1>1, <1>2, <1>4
  <2>4. w \notin Runners /\ Runners \subseteq Workers /\ Jobs \subseteq Workers
    BY <1>4, SetsAssumption DEF Workers
  <2>5. \A v \in Runners : work'[v] = work[v]
    BY <2>3, <2>4
  <2>6. UNCHANGED <<active, queue, faults>>
    BY DEF Store
  <2>7. \A i \in Jobs : Pool(i) \subseteq Runners
    BY DEF Pool, Runners
  <2>8. ActiveIsOneJob'
    BY <2>1, <2>2, <2>6 DEF Structure, ActiveIsOneJob
  <2>9. PoolEmpty'
    BY <2>2, <2>5, <2>7 DEF Structure, PoolEmpty, Busy, Pool
  <2>10. LastRefresh'
    BY <2>2, <2>3, <2>4 DEF Structure, LastRefresh, Busy
  <2>11. Taken' /\ Apart'
    BY <2>5, <2>6 DEF Structure, Taken, Apart
  <2>12. NoStraggler'
    BY <2>1, <2>2, <2>5, <2>6, RunnerJob DEF Structure, NoStraggler, Busy
  <2> QED
    BY <2>8, <2>9, <2>10, <2>11, <2>12 DEF Structure
<1> QED
  BY <1>3, <1>4

\* A statement of a worker throws: its job may fail, other workers go on.
LEMMA ThrowKeeps ==
    ASSUME TypeOK, Structure, NEW j \in Jobs, NEW w \in Workers, WorkerThrows(j, w)
    PROVE  Structure'
<1>0. work \in [Workers -> Worker] /\ job \in [Jobs -> Job] /\ faults \in Nat
  BY TypeNamed, SizeAssumption
<1>1. work'[w].pc = "idle" /\ \A v \in Workers : v # w => work'[v] = work[v]
  BY <1>0 DEF WorkerThrows, Idle
<1>2. faults' # 0 /\ UNCHANGED <<active, queue>> /\ work[w].pc # "idle"
  BY <1>0 DEF WorkerThrows, Fault
<1>3. Runners \subseteq Workers /\ Jobs \subseteq Workers
  BY DEF Workers
<1>4. \A i \in Jobs : Pool(i) \subseteq Workers
  BY <1>3 DEF Pool, Runners
<1>5. /\ \A i \in Jobs : i # j => job'[i].pc = job[i].pc
      /\ \/ job[j].pc \in {"pool", "final"} /\ job'[j].pc = "fail"
         \/ job[j].pc \notin {"pool", "final"} /\ job'[j].pc = job[j].pc
  BY <1>0 DEF WorkerThrows, JobGo, Job
<1>6. ActiveIsOneJob'
  BY <1>2, <1>5 DEF Structure, ActiveIsOneJob
<1>7. PoolEmpty'
  BY <1>1, <1>4, <1>5 DEF Structure, PoolEmpty, Busy, Pool
<1>8. LastRefresh'
  <2> SUFFICES ASSUME NEW i \in Jobs
               PROVE  /\ work'[i].pc \in {"idle", "count", "store"}
                      /\ work'[i].pc # "idle" => job'[i].pc = "final"
    BY DEF LastRefresh, Busy
  <2>1. CASE i = w
    BY <1>1, <2>1
  <2>2. CASE i # w /\ i # j
    BY <1>1, <1>3, <1>5, <2>2 DEF Structure, LastRefresh, Busy
  <2>3. CASE i # w /\ i = j
    <3>1. w \in Pool(j)
      BY <2>3 DEF WorkerThrows
    <3>2. job[j].pc # "final"
      BY <1>2, <3>1 DEF Structure, PoolEmpty, Busy
    <3> QED
      BY <1>1, <1>3, <2>3, <3>2 DEF Structure, LastRefresh, Busy
  <2> QED
    BY <2>1, <2>2, <2>3
<1>9. Taken' /\ Apart'
  BY <1>1, <1>2, <1>3 DEF Structure, Taken, Apart
<1>10. NoStraggler'
  BY <1>2 DEF NoStraggler
<1> QED
  BY <1>6, <1>7, <1>8, <1>9, <1>10 DEF Structure

LEMMA StructureInit == Init => Structure
<1> SUFFICES ASSUME Init PROVE Structure
  OBVIOUS
<1>1. \A j \in Jobs : job[j].pc = "off"
  BY DEF Init, NoJob
<1>2. \A w \in Workers : work[w].pc = "idle"
  BY DEF Init, Idle
<1>3. Runners \subseteq Workers /\ Jobs \subseteq Workers
  BY DEF Workers
<1>4. ActiveIsOneJob
  BY <1>1 DEF ActiveIsOneJob, Init
<1>5. PoolEmpty /\ LastRefresh
  BY <1>1, <1>2, <1>3 DEF PoolEmpty, LastRefresh, Busy
<1>6. Taken /\ Apart /\ NoStraggler
  BY <1>2, <1>3 DEF Taken, Apart, NoStraggler, Busy
<1> QED
  BY <1>4, <1>5, <1>6 DEF Structure

LEMMA StructureStep == TypeOK /\ Structure /\ [Next]_vars => Structure'
<1> SUFFICES ASSUME TypeOK, Structure, [Next]_vars PROVE Structure'
  OBVIOUS
<1>0. work \in [Workers -> Worker] /\ job \in [Jobs -> Job]
  BY TypeNamed
<1>w. Runners \subseteq Workers /\ Jobs \subseteq Workers
  BY DEF Workers
<1>f. Next => (faults' = 0 => faults = 0)
  BY FaultsStay
<1>1. CASE UNCHANGED vars
  BY <1>1, Framed DEF vars
<1>2. ASSUME Next, UNCHANGED <<active, job, queue, work>> PROVE Structure'
  BY <1>2, <1>f, Framed
<1>3. ASSUME ImportStep PROVE Structure'
  <2>0. Next
    BY <1>3 DEF Next
  <2>1. CASE ImportSchedule
    <3>1. CASE \E j \in Jobs : Start(j, FALSE)
      BY <2>1, <3>1, JobStarted DEF ImportSchedule
    <3>2. CASE UNCHANGED <<active, job, mixed>>
      BY <1>2, <2>0, <2>1, <3>2 DEF ImportSchedule
    <3> QED
      BY <2>1, <3>1, <3>2 DEF ImportSchedule
  <2>2. CASE ImportChunk \/ ImportCount \/ ImportFinish \/ ImportFail
    BY <1>2, <2>0, <2>2 DEF ImportChunk, ImportCount, ImportFinish, ImportFail
  <2> QED
    BY <1>3, <2>1, <2>2 DEF ImportStep
<1>4. ASSUME NEW j \in Jobs, NEW reset \in BOOLEAN, ScoreBatch(j, reset) PROVE Structure'
  BY <1>4, JobStarted DEF ScoreBatch
<1>5. ASSUME NEW j \in Jobs, JobStep(j) PROVE Structure'
  <2>0. faults' = 0 => faults = 0
    BY <1>5, <1>f DEF Next
  <2>1. CASE JobLoad(j)
    <3> DEFINE pc == IF batch.status = "none" THEN "end"
                     ELSE IF job[j].reset THEN "reset" ELSE "start"
    <3>1. job' = [job EXCEPT ![j] = [pc |-> pc, reset |-> FALSE]]
      BY <2>1 DEF JobLoad
    <3>2. pc \in {"end", "reset", "start"}
      OBVIOUS
    <3> HIDE DEF pc
    <3>3. job'[j].pc = pc /\ \A i \in Jobs : i # j => job'[i].pc = job[i].pc
      BY <1>0, <3>1
    <3> QED
      BY <2>0, <2>1, <3>2, <3>3, JobMovedTo DEF JobLoad, JobPoint
  <2>2. CASE JobResetRows(j)
    BY <2>0, <2>2, JobMoved DEF JobResetRows, JobPoint
  <2>3. CASE JobResetBatch(j)
    BY <2>0, <2>3, JobMoved DEF JobResetBatch, JobPoint
  <2>4. CASE JobStart(j)
    BY <2>0, <2>4, JobMoved DEF JobStart, JobPoint
  <2>5. CASE JobFail(j)
    BY <2>0, <2>5, JobMoved DEF JobFail, JobPoint
  <2> QED
    BY <1>5, <2>1, <2>2, <2>3, <2>4, <2>5, SelectKeeps, PoolDoneKeeps, EndKeeps DEF JobStep
<1>6. ASSUME NEW w \in Rescores, NEW r \in Rows, Rescore(w, r) PROVE Structure'
  <2>1. w \notin Runners \cup Jobs
    BY SetsAssumption
  <2>2. \A v \in Runners \cup Jobs : work'[v] = work[v]
    BY <1>0, <1>6, <1>w, <2>1 DEF Rescore
  <2> QED
    BY <1>6, <2>2, Framed DEF Rescore
<1>7. ASSUME NEW w \in Workers, WorkStep(w) PROVE Structure'
  <2>0. faults' = 0 => faults = 0
    BY <1>7, <1>f DEF Next
  <2>t. work[w] \in Worker /\ (w \in Jobs => work[w].pc \in {"idle", "count", "store"})
    BY <1>0 DEF Structure, LastRefresh
  <2>1. CASE Mark(w)
    <3> DEFINE q == [work[w] EXCEPT !.pc = "score"]
    <3>1. work' = [work EXCEPT ![w] = q] /\ work[w].pc = "mark" /\ w \notin Jobs
      BY <2>1, <2>t DEF Mark, Go
    <3>2. q \in Worker
      BY <2>t, WorkerMoves DEF WorkPoint
    <3>3. q.row = work[w].row
      BY <2>t DEF Worker
    <3> HIDE DEF q
    <3>4. UNCHANGED <<active, job, queue>>
      BY <2>1 DEF Mark
    <3> QED
      BY <2>0, <3>1, <3>2, <3>3, <3>4, WorkerMoved
  <2>2. CASE Answer(w)
    <3> DEFINE q == [Idle EXCEPT !.pc = "count"]
    <3>1. work' = [work EXCEPT ![w] = q] /\ work[w].pc = "score" /\ UNCHANGED <<active, job, queue>>
      BY <2>2 DEF Answer
    <3>2. q \in Worker /\ q.pc = "count"
      BY ConstantsTyped DEF Idle
    <3> HIDE DEF q
    <3> QED
      BY <2>0, <3>1, <3>2, WorkerMoved
  <2>3. CASE Count(w)
    <3> DEFINE stats == [scored |-> Cardinality(With({"scored"})),
                         failed |-> Cardinality(With({"failed"})),
                         pending |-> Cardinality(With({"pending", "scoring"}))]
    <3> DEFINE q == [work[w] EXCEPT !.pc = "store", !.stats = stats]
    <3>1. work' = [work EXCEPT ![w] = q] /\ work[w].pc = "count" /\ UNCHANGED <<active, job, queue>>
      BY <2>3 DEF Count
    <3>2. stats \in Stats
      BY StatsTyped
    <3> HIDE DEF stats
    <3>3. q \in Worker /\ q.pc = "store"
      <4>1. q \in Worker
        BY <2>t, <3>2, WorkerMoves
      <4>2. q.pc = "store"
        BY <2>t DEF Worker
      <4> QED
        BY <4>1, <4>2
    <3> HIDE DEF q
    <3> QED
      BY <2>0, <3>1, <3>3, WorkerMoved
  <2> QED
    BY <1>7, <2>1, <2>2, <2>3, NextKeeps, StoreKeeps DEF WorkStep
<1>8. ASSUME NEW j \in Jobs, JobThrows(j) PROVE Structure'
  <2>0. faults' = 0 => faults = 0
    BY <1>8, <1>f DEF Next
  <2> QED
    BY <1>8, <2>0, JobMoved DEF JobThrows, JobPoint
<1>9. ASSUME Restart PROVE Structure'
  <2>1. \A j \in Jobs : job'[j].pc = "off"
    BY <1>9 DEF Restart, NoJob
  <2>2. \A w \in Workers : work'[w].pc = "idle"
    BY <1>9 DEF Restart, Idle
  <2>3. ActiveIsOneJob'
    BY <1>9, <2>1 DEF Restart, ActiveIsOneJob
  <2>4. PoolEmpty' /\ LastRefresh'
    BY <1>w, <2>1, <2>2 DEF PoolEmpty, LastRefresh, Busy
  <2>5. Taken' /\ Apart' /\ NoStraggler'
    BY <1>w, <2>2 DEF Taken, Apart, NoStraggler, Busy
  <2> QED
    BY <2>3, <2>4, <2>5 DEF Structure
<1>10. ASSUME NEW auto \in AutoScore, CreateBatch(auto) PROVE Structure'
  BY <1>10, <1>2 DEF CreateBatch, Next
<1>11. ASSUME Clear \/ ImportThrows PROVE Structure'
  BY <1>11, <1>2 DEF Clear, ImportThrows, Next
<1> QED
  BY <1>1, <1>3, <1>4, <1>5, <1>6, <1>7, <1>8, <1>9, <1>10, <1>11, ThrowKeeps DEF Next

\* A step after which no further row is "scoring" and nobody has given up one.
LEMMA OwnersStay ==
    ASSUME ScoringIsOwned, faults' = 0 => faults = 0,
           \A r \in Rows : row'[r] = "scoring" => row[r] = "scoring",
           \A v \in Workers : work[v].pc = "score" =>
               work'[v].pc = "score" /\ work'[v].row = work[v].row
    PROVE  ScoringIsOwned'
<1> SUFFICES ASSUME faults' = 0, NEW r \in Rows, row'[r] = "scoring"
             PROVE  \E w \in Workers : work'[w].pc = "score" /\ work'[w].row = r
  BY DEF ScoringIsOwned, With
<1>1. PICK w \in Workers : work[w].pc = "score" /\ work[w].row = r
  BY DEF ScoringIsOwned, With
<1> QED
  BY <1>1

LEMMA OwnedStep == TypeOK /\ Structure /\ ScoringIsOwned /\ [Next]_vars => ScoringIsOwned'
<1> SUFFICES ASSUME TypeOK, Structure, ScoringIsOwned, [Next]_vars PROVE ScoringIsOwned'
  OBVIOUS
<1>0. work \in [Workers -> Worker] /\ row \in [Rows -> RowStatus] /\ faults \in Nat
  BY TypeNamed, SizeAssumption
<1>w. Runners \subseteq Workers /\ Jobs \subseteq Workers /\ Rescores \subseteq Workers
  BY DEF Workers
<1>f. Next => (faults' = 0 => faults = 0)
  BY FaultsStay
<1>1. ASSUME Next, UNCHANGED work, \A r \in Rows : row'[r] = "scoring" => row[r] = "scoring"
      PROVE  ScoringIsOwned'
  BY <1>1, <1>f, OwnersStay
<1>2. ASSUME Next, UNCHANGED row, NEW w \in Workers, work[w].pc # "score",
             \A v \in Workers : v # w => work'[v] = work[v]
      PROVE  ScoringIsOwned'
  BY <1>2, <1>f, OwnersStay
<1>3. CASE UNCHANGED vars
  BY <1>3, OwnersStay DEF vars
<1>4. ASSUME Fault PROVE ScoringIsOwned'
  BY <1>0, <1>4 DEF Fault, ScoringIsOwned
<1>5. ASSUME NEW auto \in AutoScore, CreateBatch(auto) PROVE ScoringIsOwned'
  BY <1>1, <1>5 DEF CreateBatch, Next
<1>6. ASSUME ImportStep PROVE ScoringIsOwned'
  <2>0. Next
    BY <1>6 DEF Next
  <2>1. \A r \in Rows : row'[r] = "scoring" => row[r] = "scoring"
    BY <1>6 DEF ImportStep, ImportChunk, ImportCount, ImportFinish, ImportSchedule, ImportFail
  <2>2. UNCHANGED work
    BY <1>6 DEF ImportStep, ImportChunk, ImportCount, ImportFinish, ImportSchedule, ImportFail
  <2> QED
    BY <1>1, <2>0, <2>1, <2>2
<1>7. ASSUME NEW j \in Jobs, NEW reset \in BOOLEAN, ScoreBatch(j, reset) PROVE ScoringIsOwned'
  BY <1>1, <1>7 DEF ScoreBatch, Next
<1>8. ASSUME NEW j \in Jobs, JobStep(j) PROVE ScoringIsOwned'
  <2>0. Next
    BY <1>8 DEF Next
  <2>1. CASE JobSelect(j)
    <3>1. \A v \in Pool(j) : work[v].pc = "idle"
      BY <2>1 DEF JobSelect, Structure, PoolEmpty, Busy
    <3>2. \A v \in Workers : work[v].pc = "score" => work'[v] = work[v]
      BY <2>1, <3>1 DEF JobSelect
    <3>3. UNCHANGED row
      BY <2>1 DEF JobSelect
    <3> QED
      BY <1>f, <2>0, <3>2, <3>3, OwnersStay
  <2>2. CASE JobPoolDone(j)
    <3>1. work[j].pc # "score"
      BY DEF Structure, LastRefresh
    <3>2. \A v \in Workers : v # j => work'[v] = work[v]
      BY <1>0, <2>2 DEF JobPoolDone, Go
    <3> QED
      BY <1>2, <1>w, <2>0, <2>2, <3>1, <3>2 DEF JobPoolDone
  <2>3. CASE JobResetRows(j)
    BY <1>1, <2>0, <2>3 DEF JobResetRows
  <2>4. CASE \/ JobLoad(j) \/ JobResetBatch(j) \/ JobStart(j) \/ JobFail(j) \/ JobEnd(j)
    BY <1>1, <2>0, <2>4 DEF JobLoad, JobResetBatch, JobStart, JobFail, JobEnd
  <2> QED
    BY <1>8, <2>1, <2>2, <2>3, <2>4 DEF JobStep
<1>9. ASSUME NEW w \in Rescores, NEW r \in Rows, Rescore(w, r) PROVE ScoringIsOwned'
  <2>1. Next
    BY <1>9 DEF Next
  <2>2. work[w].pc # "score" /\ UNCHANGED row
    BY <1>9 DEF Rescore, Busy
  <2>3. \A v \in Workers : v # w => work'[v] = work[v]
    BY <1>0, <1>9 DEF Rescore
  <2> QED
    BY <1>2, <1>w, <2>1, <2>2, <2>3
<1>10. ASSUME NEW w \in Workers, WorkStep(w) PROVE ScoringIsOwned'
  <2>0. Next /\ (faults' = 0 => faults = 0)
    BY <1>10, <1>f DEF Next
  <2>1. \A v \in Workers : v # w => work'[v] = work[v]
    BY <1>0, <1>10 DEF WorkStep, RunnerNext, Mark, Answer, Count, Store, Go
  <2>2. CASE RunnerNext(w) \/ Count(w) \/ Store(w)
    BY <1>2, <2>0, <2>1, <2>2 DEF RunnerNext, Count, Store
  <2>3. CASE Mark(w)
    <3>1. work'[w].pc = "score" /\ work'[w].row = work[w].row /\ work[w].pc = "mark"
      BY <1>0, <2>3 DEF Mark, Go, Worker
    <3> SUFFICES ASSUME faults' = 0, NEW r \in Rows, row'[r] = "scoring"
                 PROVE  \E v \in Workers : work'[v].pc = "score" /\ work'[v].row = r
      BY DEF ScoringIsOwned, With
    <3>2. CASE r = work[w].row
      BY <3>1, <3>2
    <3>3. CASE r # work[w].row
      <4>1. row[r] = "scoring"
        BY <1>0, <2>3, <3>3 DEF Mark, SetRow
      <4>2. PICK v \in Workers : work[v].pc = "score" /\ work[v].row = r
        BY <2>0, <4>1 DEF ScoringIsOwned, With
      <4> QED
        BY <2>1, <3>1, <4>2
    <3> QED
      BY <3>2, <3>3
  <2>4. CASE Answer(w)
    <3> SUFFICES ASSUME faults' = 0, NEW r \in Rows, row'[r] = "scoring"
                 PROVE  \E v \in Workers : work'[v].pc = "score" /\ work'[v].row = r
      BY DEF ScoringIsOwned, With
    <3>1. PICK s \in {"scored", "failed"} : SetRow(work[w].row, s)
      BY <2>4 DEF Answer
    <3>2. work[w].row \in Rows
      BY <1>0, WorkerMoves
    <3>3. r # work[w].row /\ row[r] = "scoring"
      BY <1>0, <3>1, <3>2 DEF SetRow
    <3>4. PICK v \in Workers : work[v].pc = "score" /\ work[v].row = r
      BY <2>0, <3>3 DEF ScoringIsOwned, With
    <3> QED
      BY <2>1, <3>3, <3>4
  <2> QED
    BY <1>10, <2>2, <2>3, <2>4 DEF WorkStep
<1>11. ASSUME Clear PROVE ScoringIsOwned'
  BY <1>1, <1>11 DEF Clear, Next
<1>12. ASSUME \/ ImportThrows \/ Restart \/ \E j \in Jobs : JobThrows(j)
              \/ \E j \in Jobs, w \in Workers : WorkerThrows(j, w)
       PROVE  ScoringIsOwned'
  BY <1>4, <1>12 DEF ImportThrows, Restart, JobThrows, WorkerThrows
<1> QED
  BY <1>3, <1>5, <1>6, <1>7, <1>8, <1>9, <1>10, <1>11, <1>12 DEF Next

----
(* What the counters and the list of rows to be scored come to *)

\* Without overlap a rescoring is by itself.
Alone ==
    ~mixed => /\ active => \A w \in Rescores : ~Busy(w)
              /\ \A v, w \in Rescores : Busy(v) /\ Busy(w) => v = w

\* Nothing happens before the import, and the rows are those it has got to.
Begun ==
    imp.pc = "none" => batch.status = "none" /\ ~active /\ \A w \in Workers : ~Busy(w)
Filled ==
    /\ \A r \in Rows : row[r] # "none" <=> batch.status # "none" /\ r <= imp.done
    /\ faults = 0 /\ batch.status # "none" =>
           /\ imp.pc # "fail"
           /\ imp.pc \in {"finish", "schedule", "over"} => imp.done = Total

\* Jobs fail by faults only, and a runner leaves when the list is empty.
NoFailure == faults = 0 => \A j \in Jobs : job[j].pc # "fail"
Drained ==
    faults = 0 => \A j \in Jobs : job[j].pc = "pool" /\ queue[j] # {} => \A w \in Pool(j) : Busy(w)

Frame == Alone /\ Begun /\ Filled /\ NoFailure /\ Drained

\* An import that was to score its batch is over and has started its job.
Promised == faults = 0 /\ imp.pc = "over" /\ imp.auto /\ ~dropped /\ batch.status # "none"

\* Then every pending row is still ahead of somebody.
Starting == {"load", "reset", "resetBatch", "start", "select"}
Awaited(r) ==
    \/ \E j \in Jobs : job[j].pc \in Starting \/ (job[j].pc = "pool" /\ r \in queue[j])
    \/ \E w \in Workers : work[w].pc = "mark" /\ work[w].row = r
Covered == Promised => \A r \in With({"pending"}) : Awaited(r)

\* The counters are right when nobody is at work, and so is what a last refresh
\* or a rescoring has read.
Right(c) == c.scored = Cardinality(With({"scored"})) /\ c.failed = Cardinality(With({"failed"}))
Full(s) == s.pending = 0 /\ s.scored + s.failed > 0
AtRest == ~active /\ \A w \in Rescores : ~Busy(w)
Reported ==
    faults = 0 /\ ~mixed /\ batch.status # "none" =>
        /\ AtRest \/ (\E j \in Jobs : job[j].pc = "end") =>
               Right(batch) /\ (Promised => batch.status = "completed")
        /\ \A w \in Rescores \cup Jobs : work[w].pc = "store" =>
               Right(work[w].stats) /\ (Promised => Full(work[w].stats))

\* Who is at work without a fault and without overlap: a job, or a rescoring.
LEMMA WhoWorks ==
    ASSUME TypeOK, Structure, faults = 0
    PROVE  /\ \A j \in Jobs, w \in Runners : Busy(w) => w[1] \in Jobs /\ job[w[1]].pc = "pool"
           /\ ~active => \A w \in Runners \cup Jobs : ~Busy(w)
           /\ \A j \in Jobs : job[j].pc # "off" => active /\ \A i \in Jobs : i # j => job[i].pc = "off"
           /\ \A j \in Jobs : job[j].pc # "off" => \A i \in Jobs : i # j => ~Busy(i)
<1>1. \A w \in Runners : Busy(w) => w[1] \in Jobs /\ job[w[1]].pc = "pool"
  BY RunnerJob DEF Structure, NoStraggler
<1>2. \A j \in Jobs : Busy(j) => job[j].pc = "final"
  BY DEF Structure, LastRefresh
<1>3. \A j \in Jobs : job[j].pc # "off" => active /\ \A i \in Jobs : i # j => job[i].pc = "off"
  BY DEF Structure, ActiveIsOneJob
<1>4. ~active => \A w \in Runners \cup Jobs : ~Busy(w)
  BY <1>1, <1>2, <1>3
<1>5. \A j \in Jobs : job[j].pc # "off" => \A i \in Jobs : i # j => ~Busy(i)
  BY <1>2, <1>3
<1> QED
  BY <1>1, <1>3, <1>4, <1>5

\* Steps that neither start a job nor a rescoring.
LEMMA AloneKept ==
    ASSUME Alone, ~mixed' => ~mixed, active' => active,
           \A w \in Rescores : work'[w].pc # "idle" => work[w].pc # "idle"
    PROVE  Alone'
BY DEF Alone, Busy

LEMMA AloneStep == TypeOK /\ Alone /\ [Next]_vars => Alone'
<1> SUFFICES ASSUME TypeOK, Alone, [Next]_vars PROVE Alone'
  OBVIOUS
<1>0. work \in [Workers -> Worker] /\ mixed \in BOOLEAN
  BY TypeNamed
<1>w. Rescores \subseteq Workers /\ Rescores \cap Runners = {} /\ Rescores \cap Jobs = {}
  BY SetsAssumption DEF Workers
<1>i. Idle.pc = "idle"
  BY DEF Idle
<1>1. ASSUME UNCHANGED <<mixed, active>>, UNCHANGED work PROVE Alone'
  BY <1>1, AloneKept
<1>2. ASSUME NEW j \in Jobs, NEW reset \in BOOLEAN, Start(j, reset), UNCHANGED work PROVE Alone'
  BY <1>0, <1>2 DEF Start, Alone, Busy
<1>3. CASE UNCHANGED vars
  BY <1>1, <1>3 DEF vars, history
<1>4. ASSUME NEW auto \in AutoScore, CreateBatch(auto) PROVE Alone'
  BY <1>1, <1>4 DEF CreateBatch, history
<1>5. CASE ImportStep
  <2>1. CASE ImportSchedule
    <3>1. CASE \E j \in Jobs : Start(j, FALSE)
      BY <1>2, <2>1, <3>1 DEF ImportSchedule
    <3>2. CASE UNCHANGED <<active, job, mixed>>
      BY <1>1, <2>1, <3>2 DEF ImportSchedule
    <3> QED
      BY <2>1, <3>1, <3>2 DEF ImportSchedule
  <2>2. CASE ImportChunk \/ ImportCount \/ ImportFinish \/ ImportFail
    BY <1>1, <2>2 DEF ImportChunk, ImportCount, ImportFinish, ImportFail, history
  <2> QED
    BY <1>5, <2>1, <2>2 DEF ImportStep
<1>6. ASSUME NEW j \in Jobs, NEW reset \in BOOLEAN, ScoreBatch(j, reset) PROVE Alone'
  BY <1>2, <1>6 DEF ScoreBatch
<1>7. ASSUME NEW j \in Jobs, JobStep(j) PROVE Alone'
  <2>1. \A w \in Rescores : w # j /\ w \notin Pool(j)
    BY <1>w DEF Pool, Runners
  <2>2. CASE JobSelect(j)
    BY <1>w, <2>1, <2>2, AloneKept DEF JobSelect, history
  <2>3. CASE JobPoolDone(j)
    BY <1>0, <1>w, <2>1, <2>3, AloneKept DEF JobPoolDone, Go, history
  <2>4. CASE JobEnd(j)
    BY <2>4, AloneKept DEF JobEnd, history
  <2>5. CASE JobLoad(j) \/ JobResetRows(j) \/ JobResetBatch(j) \/ JobStart(j) \/ JobFail(j)
    BY <1>1, <2>5 DEF JobLoad, JobResetRows, JobResetBatch, JobStart, JobFail, history
  <2> QED
    BY <1>7, <2>2, <2>3, <2>4, <2>5 DEF JobStep
<1>8. ASSUME NEW w \in Rescores, NEW r \in Rows, Rescore(w, r) PROVE Alone'
  <2>1. \A v \in Rescores : v # w => work'[v] = work[v]
    BY <1>0, <1>8, <1>w DEF Rescore
  <2>2. ~mixed' => ~mixed /\ ~active /\ \A v \in Rescores : work[v].pc = "idle"
    BY <1>0, <1>8, <1>w DEF Rescore, Busy
  <2>3. UNCHANGED active
    BY <1>8 DEF Rescore
  <2> QED
    BY <2>1, <2>2, <2>3 DEF Alone, Busy
<1>9. ASSUME NEW w \in Workers, WorkStep(w) PROVE Alone'
  <2>1. work[w].pc # "idle" /\ \A v \in Workers : v # w => work'[v] = work[v]
    BY <1>0, <1>9 DEF WorkStep, RunnerNext, Mark, Answer, Count, Store, Go
  <2>2. UNCHANGED <<active, mixed>>
    BY <1>9 DEF WorkStep, RunnerNext, Mark, Answer, Count, Store, history
  <2> QED
    BY <1>w, <2>1, <2>2, AloneKept
<1>10. CASE Clear \/ ImportThrows \/ \E j \in Jobs : JobThrows(j)
  BY <1>1, <1>10 DEF Clear, ImportThrows, JobThrows, history
<1>11. ASSUME NEW j \in Jobs, NEW w \in Workers, WorkerThrows(j, w) PROVE Alone'
  <2>1. \A v \in Workers : work'[v].pc # "idle" => work[v].pc # "idle"
    BY <1>0, <1>11, <1>i DEF WorkerThrows
  <2>2. UNCHANGED <<active, mixed>>
    BY <1>11 DEF WorkerThrows, history
  <2> QED
    BY <1>w, <2>1, <2>2, AloneKept
<1>12. CASE Restart
  BY <1>12, <1>i, <1>w, AloneKept DEF Restart, history
<1> QED
  BY <1>3, <1>4, <1>5, <1>6, <1>7, <1>8, <1>9, <1>10, <1>11, <1>12 DEF Next

LEMMA BegunStep == TypeOK /\ Structure /\ Begun /\ Filled /\ [Next]_vars => Begun'
<1> SUFFICES ASSUME TypeOK, Structure, Begun, Filled, [Next]_vars, imp'.pc = "none"
             PROVE  batch'.status = "none" /\ ~active' /\ \A w \in Workers : work'[w].pc = "idle"
  BY DEF Begun, Busy
<1>0. imp \in Importer /\ work \in [Workers -> Worker] /\ row \in [Rows -> RowStatus]
  BY TypeNamed
<1>1. imp.pc = "none"
  BY <1>0 DEF Next, vars, CreateBatch, ImportStep, ImportChunk, ImportCount, ImportFinish, ImportFail,
         ImportSchedule, ScoreBatch, JobStep, JobLoad, JobResetRows, JobResetBatch, JobStart,
         JobSelect, JobPoolDone, JobFail, JobEnd, Rescore, WorkStep, RunnerNext, Mark, Answer,
         Count, Store, Clear, ImportThrows, JobThrows, WorkerThrows, Restart, ImportGo, Importer
<1>2. /\ batch.status = "none" /\ ~active /\ \A w \in Workers : work[w].pc = "idle"
      /\ \A r \in Rows : row[r] = "none"
  BY <1>1 DEF Begun, Filled, Busy
<1>3. \A j \in Jobs : job[j].pc = "off"
  BY <1>2 DEF Structure, ActiveIsOneJob
<1>4. CASE UNCHANGED vars
  BY <1>2, <1>4 DEF vars
<1>5. CASE \E auto \in AutoScore : CreateBatch(auto)
  BY <1>5 DEF CreateBatch
<1>6. ~ImportStep /\ ~ImportThrows
  BY <1>1 DEF ImportStep, ImportChunk, ImportCount, ImportFinish, ImportSchedule, ImportFail, ImportThrows
<1>7. ~(\E j \in Jobs, reset \in BOOLEAN : ScoreBatch(j, reset)) /\ ~Clear
  BY <1>2 DEF ScoreBatch, Clear
<1>8. ASSUME NEW j \in Jobs PROVE ~JobStep(j) /\ ~JobThrows(j)
  BY <1>3 DEF JobStep, JobLoad, JobResetRows, JobResetBatch, JobStart,
         JobSelect, JobPoolDone, JobFail, JobEnd, JobThrows
<1>9. ~(\E w \in Rescores, r \in Rows : Rescore(w, r))
  BY <1>2 DEF Rescore
<1>10. ASSUME NEW w \in Workers PROVE ~WorkStep(w) /\ ~(\E j \in Jobs : WorkerThrows(j, w))
  BY <1>2 DEF WorkStep, RunnerNext, Mark, Answer, Count, Store, WorkerThrows
<1>11. CASE Restart
  BY <1>2, <1>11 DEF Restart, Idle
<1> QED
  BY <1>4, <1>5, <1>6, <1>7, <1>8, <1>9, <1>10, <1>11 DEF Next

\* The rows that are there, and the batch, are the same before and after a step.
LEMMA FilledKept ==
    ASSUME TypeOK, Filled, faults' = 0 => faults = 0, UNCHANGED imp,
           \A r \in Rows : row'[r] = "none" <=> row[r] = "none",
           batch'.status = "none" <=> batch.status = "none"
    PROVE  Filled'
BY DEF Filled

LEMMA FilledStep == TypeOK /\ Begun /\ Filled /\ [Next]_vars => Filled'
<1> SUFFICES ASSUME TypeOK, Begun, Filled, [Next]_vars PROVE Filled'
  OBVIOUS
<1>0. /\ batch \in Batch /\ row \in [Rows -> RowStatus] /\ imp \in Importer /\ faults \in Nat
      /\ work \in [Workers -> Worker] /\ imp.done \in Nat /\ Total \in Nat /\ Chunk \in Nat \ {0}
  BY TypeNamed, SizeAssumption DEF Importer
<1>f. Next => (faults' = 0 => faults = 0)
  BY FaultsStay
<1>r. \A r \in Rows : Rows = 1..Total /\ r \in Nat /\ r >= 1 /\ r <= Total
  BY <1>0 DEF Rows
<1>1. CASE UNCHANGED vars
  BY <1>1 DEF vars, Filled
<1>2. ASSUME Next, UNCHANGED <<imp, row, batch>> PROVE Filled'
  BY <1>2, <1>f, FilledKept
<1>3. ASSUME NEW auto \in AutoScore, CreateBatch(auto) PROVE Filled'
  <2>1. \A r \in Rows : row[r] = "none"
    BY <1>3 DEF CreateBatch, Begun, Filled
  <2>2. imp'.done = 0 /\ imp'.pc = "insert" /\ UNCHANGED row
    BY <1>3 DEF CreateBatch
  <2> QED
    BY <1>r, <2>1, <2>2 DEF Filled
<1>4. CASE ImportStep
  <2>0. Next
    BY <1>4 DEF Next
  <2>1. CASE ImportChunk
    <3> DEFINE upto == IF imp.done + Chunk < Total THEN imp.done + Chunk ELSE Total
    <3>1. imp.pc = "insert" /\ UNCHANGED <<batch, faults>>
      BY <2>1 DEF ImportChunk
    <3>2. CASE batch.status = "none"
      <4>1. UNCHANGED row
        BY <2>1, <3>2 DEF ImportChunk
      <4>2. imp'.done = imp.done
        BY <1>0, <2>1, <3>2 DEF ImportChunk, ImportGo, Importer
      <4> QED
        BY <3>1, <3>2, <4>1, <4>2 DEF Filled
    <3>3. CASE batch.status # "none"
      <4>1. row' = [r \in Rows |-> IF r \in (imp.done + 1)..upto THEN "pending" ELSE row[r]]
        BY <2>1, <3>3 DEF ImportChunk
      <4>2. imp'.done = upto /\ imp'.pc = "count"
        BY <1>0, <2>1, <3>3 DEF ImportChunk, Importer
      <4>3. upto \in Nat /\ upto <= Total /\ imp.done <= upto
        <5>1. imp.done <= Total
          BY <1>0 DEF Importer
        <5> QED
          BY <1>0, <5>1
      <4> HIDE DEF upto
      <4>4. ASSUME NEW r \in Rows PROVE row'[r] # "none" <=> r <= upto
        <5>1. row[r] # "none" <=> r <= imp.done
          BY <3>3 DEF Filled
        <5>2. row'[r] = IF r \in (imp.done + 1)..upto THEN "pending" ELSE row[r]
          BY <4>1
        <5>3. imp.done <= upto /\ r \in Nat
          BY <1>r, <4>3
        <5>4. CASE r \in (imp.done + 1)..upto
          <6>1. r <= upto
            BY <1>0, <4>3, <5>3, <5>4
          <6> QED
            BY <5>2, <5>4, <6>1
        <5>5. CASE r \notin (imp.done + 1)..upto
          <6>1. r <= imp.done <=> r <= upto
            BY <1>0, <4>3, <5>3, <5>5
          <6>2. row'[r] = row[r]
            BY <5>2, <5>5
          <6> QED
            BY <5>1, <6>1, <6>2
        <5> QED
          BY <5>4, <5>5
      <4> QED
        BY <3>1, <3>3, <4>2, <4>4 DEF Filled
    <3> QED
      BY <3>2, <3>3
  <2>2. CASE ImportCount
    <3>1. imp.pc = "count" /\ imp'.done = imp.done /\ imp'.pc = IF imp.done = Total THEN "finish" ELSE "insert"
      BY <1>0, <2>2 DEF ImportCount, ImportGo, Importer
    <3>2. batch'.status = "none" <=> batch.status = "none"
      BY <1>0, <2>2 DEF ImportCount, SetBatch, Batch
    <3> QED
      BY <2>2, <3>1, <3>2 DEF ImportCount, Filled
  <2>3. CASE ImportFinish
    <3>1. imp.pc = "finish" /\ imp'.done = imp.done /\ imp'.pc = "schedule"
      BY <1>0, <2>3 DEF ImportFinish, ImportGo, Importer
    <3>2. batch'.status = "none" <=> batch.status = "none"
      BY <1>0, <2>3 DEF ImportFinish, SetBatch, Batch
    <3> QED
      BY <2>3, <3>1, <3>2 DEF ImportFinish, Filled
  <2>4. CASE ImportSchedule
    <3>1. imp.pc = "schedule" /\ imp'.done = imp.done /\ imp'.pc = "over"
      BY <1>0, <2>4 DEF ImportSchedule, ImportGo, Importer
    <3> QED
      BY <2>4, <3>1 DEF ImportSchedule, Filled
  <2>5. CASE ImportFail
    <3>1. imp.pc = "fail" /\ imp'.done = imp.done /\ imp'.pc = "over"
      BY <1>0, <2>5 DEF ImportFail, ImportGo, Importer
    <3>2. batch'.status = "none" <=> batch.status = "none"
      BY <1>0, <2>5 DEF ImportFail, SetBatch, Batch
    <3> QED
      BY <2>5, <3>1, <3>2 DEF ImportFail, Filled
  <2> QED
    BY <1>4, <2>1, <2>2, <2>3, <2>4, <2>5 DEF ImportStep
<1>5. ASSUME NEW j \in Jobs, NEW reset \in BOOLEAN, ScoreBatch(j, reset) PROVE Filled'
  BY <1>2, <1>5 DEF ScoreBatch, Next
<1>6. ASSUME NEW j \in Jobs, JobStep(j) PROVE Filled'
  <2>0. Next
    BY <1>6 DEF Next
  <2>1. CASE JobLoad(j) \/ JobSelect(j) \/ JobPoolDone(j) \/ JobEnd(j)
    BY <1>2, <2>0, <2>1 DEF JobLoad, JobSelect, JobPoolDone, JobEnd
  <2>2. CASE JobResetRows(j)
    <3>1. \A r \in Rows : row'[r] = "none" <=> row[r] = "none"
      BY <2>2 DEF JobResetRows
    <3> QED
      BY <1>f, <2>0, <2>2, <3>1, FilledKept DEF JobResetRows
  <2>3. CASE JobResetBatch(j) \/ JobStart(j) \/ JobFail(j)
    <3>1. batch'.status = "none" <=> batch.status = "none"
      BY <1>0, <2>3 DEF JobResetBatch, JobStart, JobFail, SetBatch, Batch
    <3> QED
      BY <1>f, <2>0, <2>3, <3>1, FilledKept DEF JobResetBatch, JobStart, JobFail
  <2> QED
    BY <1>6, <2>1, <2>2, <2>3 DEF JobStep
<1>7. ASSUME NEW w \in Rescores, NEW r \in Rows, Rescore(w, r) PROVE Filled'
  BY <1>2, <1>7 DEF Rescore, Next
<1>8. ASSUME NEW w \in Workers, WorkStep(w) PROVE Filled'
  <2>0. Next
    BY <1>8 DEF Next
  <2>1. CASE RunnerNext(w) \/ Count(w)
    BY <1>2, <2>0, <2>1 DEF RunnerNext, Count
  <2>2. CASE Mark(w) \/ Answer(w)
    <3>1. \A r \in Rows : row'[r] = "none" <=> row[r] = "none"
      BY <1>0, <2>2 DEF Mark, Answer, SetRow
    <3> QED
      BY <1>f, <2>0, <2>2, <3>1, FilledKept DEF Mark, Answer
  <2>3. CASE Store(w)
    <3>1. batch'.status = "none" <=> batch.status = "none"
      <4>1. Refreshed(work[w].stats).status # "none"
        BY <1>0 DEF Refreshed, Batch
      <4> QED
        BY <2>3, <4>1 DEF Store, SetBatch
    <3> QED
      BY <1>f, <2>0, <2>3, <3>1, FilledKept DEF Store
  <2> QED
    BY <1>8, <2>1, <2>2, <2>3 DEF WorkStep
<1>9. CASE Clear
  BY <1>9 DEF Clear, Filled, NoBatch
<1>10. CASE ImportThrows
  <2>1. imp'.done = imp.done /\ faults' # 0
    BY <1>0, <1>10 DEF ImportThrows, ImportGo, Importer, Fault
  <2> QED
    BY <1>10, <2>1 DEF ImportThrows, Filled
<1>11. CASE Restart
  <2>1. imp'.done = imp.done /\ faults' # 0
    BY <1>0, <1>11 DEF Restart, Importer, Fault
  <2> QED
    BY <1>11, <2>1 DEF Restart, Filled
<1>12. CASE (\E j \in Jobs : JobThrows(j)) \/ \E j \in Jobs, w \in Workers : WorkerThrows(j, w)
  <2>1. Next /\ UNCHANGED <<imp, row, batch>>
    BY <1>12 DEF Next, JobThrows, WorkerThrows
  <2> QED
    BY <1>2, <2>1
<1> QED
  BY <1>1, <1>3, <1>4, <1>5, <1>6, <1>7, <1>8, <1>9, <1>10, <1>11, <1>12 DEF Next

LEMMA NoFailureStep == TypeOK /\ Structure /\ Filled /\ NoFailure /\ [Next]_vars => NoFailure'
<1> SUFFICES ASSUME TypeOK, NoFailure, [Next]_vars, faults' = 0, NEW j \in Jobs
             PROVE  job'[j].pc # "fail"
  BY DEF NoFailure
<1>0. job \in [Jobs -> Job] /\ faults \in Nat
  BY TypeNamed, SizeAssumption
<1>1. faults = 0 /\ job[j].pc # "fail"
  <2>1. faults = 0
    BY FaultsStay DEF vars
  <2> QED
    BY <2>1 DEF NoFailure
<1>2. ASSUME NEW i \in Jobs, NEW pc \in JobPoint \ {"fail"}, JobGo(i, pc) PROVE job'[j].pc # "fail"
  BY <1>0, <1>1, <1>2 DEF JobGo, Job
<1>3. ASSUME NEW i \in Jobs, NEW reset \in BOOLEAN, Start(i, reset) PROVE job'[j].pc # "fail"
  BY <1>0, <1>1, <1>3 DEF Start
<1>4. ASSUME UNCHANGED job PROVE job'[j].pc # "fail"
  BY <1>1, <1>4
<1>5. CASE ImportStep
  BY <1>3, <1>4, <1>5 DEF ImportStep, ImportChunk, ImportCount, ImportFinish, ImportFail, ImportSchedule
<1>6. ASSUME NEW i \in Jobs, JobStep(i) PROVE job'[j].pc # "fail"
  <2>1. {"end", "reset", "start", "resetBatch", "select", "pool", "final"} \subseteq JobPoint \ {"fail"}
    BY DEF JobPoint
  <2>2. CASE JobEnd(i)
    BY <1>0, <1>1, <2>2 DEF JobEnd, NoJob
  <2>3. CASE JobLoad(i)
    BY <1>0, <1>1, <2>3 DEF JobLoad
  <2>4. CASE JobResetRows(i) \/ JobResetBatch(i) \/ JobStart(i) \/ JobSelect(i) \/ JobPoolDone(i) \/ JobFail(i)
    BY <1>2, <2>1, <2>4 DEF JobResetRows, JobResetBatch, JobStart, JobSelect, JobPoolDone, JobFail
  <2> QED
    BY <1>6, <2>2, <2>3, <2>4 DEF JobStep
<1>7. ASSUME NEW w \in Workers, WorkStep(w) PROVE job'[j].pc # "fail"
  <2>1. "end" \in JobPoint \ {"fail"}
    BY DEF JobPoint
  <2>2. CASE Store(w)
    BY <1>2, <1>4, <2>1, <2>2 DEF Store
  <2>3. CASE RunnerNext(w) \/ Mark(w) \/ Answer(w) \/ Count(w)
    BY <1>4, <2>3 DEF RunnerNext, Mark, Answer, Count
  <2> QED
    BY <1>7, <2>2, <2>3 DEF WorkStep
<1>8. ~Fault
  BY <1>0 DEF Fault
<1>9. CASE \/ UNCHANGED vars \/ Clear \/ \E auto \in AutoScore : CreateBatch(auto)
           \/ \E w \in Rescores, r \in Rows : Rescore(w, r)
  BY <1>4, <1>9 DEF vars, Clear, CreateBatch, Rescore
<1>10. CASE \E i \in Jobs, reset \in BOOLEAN : ScoreBatch(i, reset)
  BY <1>3, <1>10 DEF ScoreBatch
<1> QED
  BY <1>5, <1>6, <1>7, <1>8, <1>9, <1>10
     DEF Next, ImportThrows, JobThrows, WorkerThrows, Restart

\* A pool whose list is the same or shorter and whose runners stay at work.
LEMMA DrainedKept ==
    ASSUME Drained, faults = 0, NEW j \in Jobs, job'[j].pc = "pool" => job[j].pc = "pool",
           queue'[j] \subseteq queue[j], \A w \in Pool(j) : work[w].pc # "idle" => work'[w].pc # "idle"
    PROVE  job'[j].pc = "pool" /\ queue'[j] # {} => \A w \in Pool(j) : work'[w].pc # "idle"
BY DEF Drained, Busy

LEMMA DrainedStep == TypeOK /\ Structure /\ Drained /\ [Next]_vars => Drained'
<1> SUFFICES ASSUME TypeOK, Structure, Drained, [Next]_vars, faults' = 0, NEW j \in Jobs
             PROVE  job'[j].pc = "pool" /\ queue'[j] # {} => \A w \in Pool(j) : work'[w].pc # "idle"
  BY DEF Drained, Busy, Pool
<1>0. /\ job \in [Jobs -> Job] /\ faults \in Nat /\ work \in [Workers -> Worker]
      /\ queue \in [Jobs -> SUBSET Rows]
  BY TypeNamed, SizeAssumption
<1>w. /\ Pool(j) \subseteq Runners /\ Runners \subseteq Workers /\ Jobs \subseteq Workers
      /\ Rescores \subseteq Workers
      /\ Rescores \cap Runners = {} /\ Jobs \cap Runners = {} /\ \A i \in Jobs : i # j => Pool(i) \cap Pool(j) = {}
  BY SetsAssumption DEF Workers, Runners, Pool
<1>1. faults = 0
  BY FaultsStay DEF vars
<1>2. ASSUME UNCHANGED <<queue, work>>, job'[j].pc = "pool" => job[j].pc = "pool"
      PROVE  job'[j].pc = "pool" /\ queue'[j] # {} => \A w \in Pool(j) : work'[w].pc # "idle"
  BY <1>1, <1>2, DrainedKept
<1>3. ASSUME NEW i \in Jobs, NEW reset \in BOOLEAN, Start(i, reset)
      PROVE  job'[j].pc = "pool" => job[j].pc = "pool"
  BY <1>0, <1>3 DEF Start
<1>4. CASE ImportStep
  BY <1>2, <1>3, <1>4 DEF ImportStep, ImportChunk, ImportCount, ImportFinish, ImportFail, ImportSchedule
<1>5. ASSUME NEW i \in Jobs, NEW pc \in JobPoint \ {"pool"}, JobGo(i, pc)
      PROVE  job'[j].pc = "pool" => job[j].pc = "pool"
  BY <1>0, <1>5 DEF JobGo, Job
<1>p. {"end", "reset", "start", "resetBatch", "select", "final"} \subseteq JobPoint \ {"pool"}
  BY DEF JobPoint
<1>6. ASSUME NEW i \in Jobs, JobStep(i)
      PROVE  job'[j].pc = "pool" /\ queue'[j] # {} => \A w \in Pool(j) : work'[w].pc # "idle"
  <2>1. CASE JobSelect(i)
    <3>1. [Idle EXCEPT !.pc = "next"].pc # "idle"
      BY DEF Idle
    <3>2. CASE i = j
      BY <1>w, <2>1, <3>1, <3>2 DEF JobSelect
    <3>3. CASE i # j
      <4>1. queue'[j] = queue[j] /\ job'[j] = job[j] /\ \A w \in Pool(j) : work'[w] = work[w]
        BY <1>0, <1>w, <2>1, <3>3 DEF JobSelect, JobGo
      <4> QED
        BY <1>1, <4>1, DrainedKept
    <3> QED
      BY <3>2, <3>3
  <2>2. CASE JobPoolDone(i)
    <3>1. \A w \in Pool(j) : work'[w] = work[w]
      BY <1>0, <1>w, <2>2 DEF JobPoolDone, Go
    <3>2. job'[j].pc = "pool" => job[j].pc = "pool"
      BY <1>5, <1>p, <2>2 DEF JobPoolDone
    <3>3. UNCHANGED queue
      BY <2>2 DEF JobPoolDone
    <3> QED
      BY <1>1, <3>1, <3>2, <3>3, DrainedKept
  <2>3. CASE JobEnd(i)
    <3>1. job'[j].pc = "pool" => job[j].pc = "pool"
      BY <1>0, <2>3 DEF JobEnd, NoJob
    <3> QED
      BY <1>2, <2>3, <3>1 DEF JobEnd
  <2>4. CASE JobLoad(i)
    <3>1. job'[j].pc = "pool" => job[j].pc = "pool"
      BY <1>5, <1>p, <2>4 DEF JobLoad
    <3> QED
      BY <1>2, <2>4, <3>1 DEF JobLoad
  <2>5. CASE JobResetRows(i) \/ JobResetBatch(i) \/ JobStart(i) \/ JobFail(i)
    <3>1. job'[j].pc = "pool" => job[j].pc = "pool"
      BY <1>5, <1>p, <2>5 DEF JobResetRows, JobResetBatch, JobStart, JobFail
    <3> QED
      BY <1>2, <2>5, <3>1 DEF JobResetRows, JobResetBatch, JobStart, JobFail
  <2> QED
    BY <1>6, <2>1, <2>2, <2>3, <2>4, <2>5 DEF JobStep
<1>7. ASSUME NEW v \in Workers, WorkStep(v)
      PROVE  job'[j].pc = "pool" /\ queue'[j] # {} => \A w \in Pool(j) : work'[w].pc # "idle"
  <2>1. \A w \in Workers : w # v => work'[w] = work[w]
    BY <1>0, <1>7 DEF WorkStep, RunnerNext, Mark, Answer, Count, Store, Go
  <2>2. CASE v \notin Pool(j)
    <3>1. queue'[j] = queue[j]
      <4>1. CASE v \in Runners /\ RunnerNext(v)
        <5>1. v[1] # j
          BY <2>2, <4>1, RunnerJob
        <5> QED
          BY <1>0, <4>1, <5>1 DEF RunnerNext
      <4>2. CASE Mark(v) \/ Answer(v) \/ Count(v) \/ Store(v)
        BY <4>2 DEF Mark, Answer, Count, Store
      <4> QED
        BY <1>7, <4>1, <4>2 DEF WorkStep
    <3>2. job'[j].pc = "pool" => job[j].pc = "pool"
      <4>1. CASE Store(v)
        BY <1>5, <1>p, <4>1 DEF Store
      <4>2. CASE ~Store(v)
        BY <1>7, <4>2 DEF WorkStep, RunnerNext, Mark, Answer, Count
      <4> QED
        BY <4>1, <4>2
    <3> QED
      BY <1>1, <1>w, <2>1, <2>2, <3>1, <3>2, DrainedKept
  <2>3. CASE v \in Pool(j)
    <3>1. v \in Runners /\ v[1] = j /\ v \notin Jobs
      BY <1>w, <2>3 DEF Pool
    <3>2. CASE RunnerNext(v)
      <4>1. CASE queue[v[1]] = {} /\ UNCHANGED queue
        BY <3>1, <4>1
      <4>2. CASE \E r \in queue[v[1]] :
                   /\ queue' = [queue EXCEPT ![v[1]] = @ \ {r}]
                   /\ work' = [work EXCEPT ![v] = [@ EXCEPT !.pc = "mark", !.row = r]]
        <5>1. queue'[j] \subseteq queue[j] /\ work'[v].pc = "mark"
          BY <1>0, <3>1, <4>2 DEF Worker
        <5>2. UNCHANGED job
          BY <3>2 DEF RunnerNext
        <5> QED
          BY <1>1, <1>w, <2>1, <5>1, <5>2, DrainedKept
      <4> QED
        BY <3>2, <4>1, <4>2 DEF RunnerNext
    <3>3. CASE Mark(v) \/ Answer(v) \/ Count(v)
      <4>1. work'[v].pc # "idle" /\ UNCHANGED <<queue, job>>
        BY <1>0, <3>3 DEF Mark, Answer, Count, Go, Worker, Idle
      <4> QED
        BY <1>1, <1>w, <2>1, <4>1, DrainedKept
    <3>4. CASE Store(v)
      <4>1. work'[v].pc # "idle" /\ UNCHANGED <<queue, job>>
        BY <1>0, <3>1, <3>4 DEF Store, Idle
      <4> QED
        BY <1>1, <1>w, <2>1, <4>1, DrainedKept
    <3> QED
      BY <1>7, <3>2, <3>3, <3>4 DEF WorkStep
  <2> QED
    BY <2>2, <2>3
<1>8. ~Fault
  BY <1>0 DEF Fault
<1>9. CASE UNCHANGED vars \/ Clear \/ \E auto \in AutoScore : CreateBatch(auto)
  BY <1>2, <1>9 DEF vars, Clear, CreateBatch
<1>10. CASE \E i \in Jobs, reset \in BOOLEAN : ScoreBatch(i, reset)
  BY <1>2, <1>3, <1>10 DEF ScoreBatch
<1>11. ASSUME NEW v \in Rescores, NEW r \in Rows, Rescore(v, r)
       PROVE  job'[j].pc = "pool" /\ queue'[j] # {} => \A w \in Pool(j) : work'[w].pc # "idle"
  <2>1. \A w \in Pool(j) : work'[w] = work[w]
    BY <1>0, <1>11, <1>w DEF Rescore
  <2> QED
    BY <1>1, <1>11, <2>1, DrainedKept DEF Rescore
<1> QED
  BY <1>4, <1>6, <1>7, <1>8, <1>9, <1>10, <1>11
     DEF Next, ImportThrows, JobThrows, WorkerThrows, Restart

\* A pending row stays ahead of whoever it was ahead of.
LEMMA AwaitedKept ==
    ASSUME NEW r \in Rows, Covered, Promised, row[r] = "pending",
           \A j \in Jobs : job[j].pc \in Starting => job'[j].pc \in Starting,
           \A j \in Jobs : job[j].pc = "pool" /\ r \in queue[j] => job'[j].pc = "pool" /\ r \in queue'[j],
           \A w \in Workers : work[w].pc = "mark" /\ work[w].row = r =>
                                work'[w].pc = "mark" /\ work'[w].row = r
    PROVE  Awaited(r)'
<1>1. Awaited(r)
  BY DEF Covered, With
<1>2. CASE \E j \in Jobs : job[j].pc \in Starting
  <2>1. PICK j \in Jobs : job[j].pc \in Starting
    BY <1>2
  <2> QED
    BY <2>1 DEF Awaited
<1>3. CASE \E j \in Jobs : job[j].pc = "pool" /\ r \in queue[j]
  <2>1. PICK j \in Jobs : job[j].pc = "pool" /\ r \in queue[j]
    BY <1>3
  <2> QED
    BY <2>1 DEF Awaited
<1>4. CASE \E w \in Workers : work[w].pc = "mark" /\ work[w].row = r
  BY <1>4 DEF Awaited
<1> QED
  BY <1>1, <1>2, <1>3, <1>4 DEF Awaited

LEMMA CoveredStep == TypeOK /\ Structure /\ Frame /\ Covered /\ [Next]_vars => Covered'
<1> SUFFICES ASSUME TypeOK, Structure, Frame, Covered, [Next]_vars, Promised',
                    NEW r \in Rows, row'[r] = "pending"
             PROVE  Awaited(r)'
  BY DEF Covered, With
<1>0. /\ job \in [Jobs -> Job] /\ faults \in Nat /\ work \in [Workers -> Worker]
      /\ queue \in [Jobs -> SUBSET Rows] /\ row \in [Rows -> RowStatus] /\ imp \in Importer
      /\ batch \in Batch
  BY TypeNamed, SizeAssumption
<1>w. Runners \subseteq Workers /\ Jobs \subseteq Workers /\ Rescores \subseteq Workers
  BY DEF Workers
<1>1. faults = 0
  BY FaultsStay DEF vars, Promised
<1>2. ~Fault
  BY <1>0, <1>1 DEF Fault, Promised
<1>3. ASSUME NEW j \in Jobs, NEW reset \in BOOLEAN, Start(j, reset) PROVE Awaited(r)'
  BY <1>0, <1>3 DEF Start, Awaited, Starting
<1>4. CASE ImportStep
  <2>1. CASE ImportSchedule
    <3>1. CASE \E j \in Jobs : Start(j, FALSE)
      BY <1>3, <3>1
    <3>2. CASE (imp.auto => active) /\ dropped' = (dropped \/ imp.auto)
      <4>1. imp'.auto = imp.auto
        BY <1>0, <2>1 DEF ImportSchedule, ImportGo, Importer
      <4> QED
        BY <3>2, <4>1 DEF Promised
    <3> QED
      BY <2>1, <3>1, <3>2 DEF ImportSchedule
  <2>2. CASE ImportFail
    <3>1. imp.pc = "fail" /\ batch.status = "none"
      BY <1>1, <2>2 DEF ImportFail, Frame, Filled
    <3> QED
      BY <2>2, <3>1 DEF ImportFail, SetBatch, Promised
  <2>3. CASE ImportChunk \/ ImportCount \/ ImportFinish
    <3>1. imp'.pc # "over"
      BY <1>0, <2>3 DEF ImportChunk, ImportCount, ImportFinish, ImportGo, Importer
    <3> QED
      BY <3>1 DEF Promised
  <2> QED
    BY <1>4, <2>1, <2>2, <2>3 DEF ImportStep
<1>5. CASE \E auto \in AutoScore : CreateBatch(auto)
  BY <1>5 DEF CreateBatch, Promised
<1>6. CASE Clear
  BY <1>6 DEF Clear, NoBatch, Promised
<1>7. CASE \E j \in Jobs, reset \in BOOLEAN : ScoreBatch(j, reset)
  BY <1>3, <1>7 DEF ScoreBatch
<1>8. ASSUME UNCHANGED <<imp, dropped>>, batch.status # "none" PROVE Promised
  BY <1>1, <1>8 DEF Promised
<1>9. CASE UNCHANGED vars
  <2>1. Promised
    BY <1>8, <1>9 DEF vars, history, Promised
  <2> QED
    BY <1>9, <2>1, AwaitedKept DEF vars
<1>10. ASSUME NEW j \in Jobs, JobStep(j) PROVE Awaited(r)'
  <2>1. UNCHANGED <<imp, dropped>>
    BY <1>10 DEF JobStep, JobLoad, JobResetRows, JobResetBatch, JobStart, JobSelect,
           JobPoolDone, JobFail, JobEnd, history
  <2>2. batch.status # "none"
    BY <1>10 DEF JobStep, JobLoad, JobResetRows, JobResetBatch, JobStart, JobSelect,
           JobPoolDone, JobFail, JobEnd, SetBatch, Promised
  <2>3. Promised
    BY <1>8, <2>1, <2>2
  <2>4. CASE JobLoad(j) \/ JobResetRows(j) \/ JobResetBatch(j) \/ JobStart(j)
    <3>1. job'[j].pc \in Starting
      BY <1>0, <2>2, <2>4 DEF JobLoad, JobResetRows, JobResetBatch, JobStart, JobGo, Job, Starting
    <3> QED
      BY <3>1 DEF Awaited
  <2>5. CASE JobSelect(j)
    <3>1. job'[j].pc = "pool" /\ r \in queue'[j]
      BY <1>0, <2>5 DEF JobSelect, JobGo, Job, Selected, With
    <3> QED
      BY <3>1 DEF Awaited
  <2>6. CASE JobPoolDone(j)
    <3>1. queue[j] = {}
      <4>1. PICK s \in Slots : TRUE
        BY SetsAssumption
      <4>2. <<j, s>> \in Pool(j)
        BY DEF Pool
      <4> QED
        BY <1>1, <2>6, <4>2 DEF JobPoolDone, Frame, Drained
    <3>2. \A i \in Jobs : i # j => job'[i] = job[i]
      BY <1>0, <2>6 DEF JobPoolDone, JobGo
    <3>3. job[j].pc = "pool"
      BY <2>6 DEF JobPoolDone
    <3>4. \A w \in Workers : work[w].pc = "mark" => work'[w] = work[w]
      <4>1. work[j].pc # "mark"
        BY DEF Structure, LastRefresh
      <4> QED
        BY <1>0, <2>6, <4>1 DEF JobPoolDone, Go
    <3>5. "pool" \notin Starting
      BY DEF Starting
    <3>6. row[r] = "pending" /\ UNCHANGED queue
      BY <2>6 DEF JobPoolDone
    <3> QED
      BY <2>3, <3>1, <3>2, <3>3, <3>4, <3>5, <3>6, AwaitedKept
  <2>7. CASE JobFail(j) \/ JobEnd(j)
    <3>1. \A i \in Jobs : i # j => job'[i] = job[i]
      BY <1>0, <2>7 DEF JobFail, JobEnd, JobGo
    <3>2. job[j].pc \notin Starting /\ job[j].pc # "pool"
      BY <2>7 DEF JobFail, JobEnd, Starting
    <3>3. row[r] = "pending" /\ UNCHANGED <<queue, work>>
      BY <2>7 DEF JobFail, JobEnd
    <3> QED
      BY <2>3, <3>1, <3>2, <3>3, AwaitedKept
  <2> QED
    BY <1>10, <2>4, <2>5, <2>6, <2>7 DEF JobStep
<1>11. ASSUME NEW w \in Rescores, NEW q \in Rows, Rescore(w, q) PROVE Awaited(r)'
  <2>1. Promised
    BY <1>8, <1>11 DEF Rescore, Promised
  <2>2. work[w].pc = "idle" /\ \A v \in Workers : v # w => work'[v] = work[v]
    BY <1>0, <1>11, <1>w DEF Rescore, Busy
  <2>3. row[r] = "pending" /\ UNCHANGED <<job, queue>>
    BY <1>11 DEF Rescore
  <2> QED
    BY <2>1, <2>2, <2>3, AwaitedKept
<1>12. ASSUME NEW w \in Workers, WorkStep(w) PROVE Awaited(r)'
  <2>1. UNCHANGED <<imp, dropped>>
    BY <1>12 DEF WorkStep, RunnerNext, Mark, Answer, Count, Store, history
  <2>2. batch.status # "none"
    BY <1>12 DEF WorkStep, RunnerNext, Mark, Answer, Count, Store, SetBatch, Promised
  <2>3. Promised
    BY <1>8, <2>1, <2>2
  <2>4. \A v \in Workers : v # w => work'[v] = work[v]
    BY <1>0, <1>12 DEF WorkStep, RunnerNext, Mark, Answer, Count, Store, Go
  <2>5. CASE w \in Runners /\ RunnerNext(w)
    <3>1. w[1] \in Jobs
      BY <2>5, RunnerJob
    <3>2. row[r] = "pending" /\ UNCHANGED job /\ work[w].pc = "next"
      BY <2>5 DEF RunnerNext
    <3>3. CASE UNCHANGED queue
      BY <2>3, <2>4, <3>2, <3>3, AwaitedKept
    <3>4. CASE \E q \in queue[w[1]] :
                 /\ queue' = [queue EXCEPT ![w[1]] = @ \ {q}]
                 /\ work' = [work EXCEPT ![w] = [@ EXCEPT !.pc = "mark", !.row = q]]
      <4>1. PICK q \in queue[w[1]] :
                 /\ queue' = [queue EXCEPT ![w[1]] = @ \ {q}]
                 /\ work' = [work EXCEPT ![w] = [@ EXCEPT !.pc = "mark", !.row = q]]
        BY <3>4
      <4>2. CASE q = r
        <5>1. work'[w].pc = "mark" /\ work'[w].row = r
          BY <1>0, <4>1, <4>2 DEF Worker
        <5> QED
          BY <5>1 DEF Awaited
      <4>3. CASE q # r
        <5>1. \A j \in Jobs : r \in queue[j] => r \in queue'[j]
          BY <1>0, <3>1, <4>1, <4>3
        <5> QED
          BY <2>3, <2>4, <3>2, <5>1, AwaitedKept
      <4> QED
        BY <4>2, <4>3
    <3> QED
      BY <2>5, <3>3, <3>4 DEF RunnerNext
  <2>6. CASE Mark(w)
    <3>1. UNCHANGED <<job, queue>> /\ row[r] = "pending" /\ work[w].row # r
      BY <1>0, <2>6 DEF Mark, SetRow
    <3> QED
      BY <2>3, <2>4, <3>1, AwaitedKept
  <2>7. CASE Answer(w) \/ Count(w)
    <3>1. UNCHANGED <<job, queue>> /\ row[r] = "pending" /\ work[w].pc # "mark"
      BY <1>0, <2>7 DEF Answer, Count, SetRow
    <3> QED
      BY <2>3, <2>4, <3>1, AwaitedKept
  <2>8. CASE Store(w)
    <3>1. UNCHANGED <<queue, row>> /\ work[w].pc = "store"
      BY <2>8 DEF Store
    <3>2. CASE w \in Jobs
      <4>1. job[w].pc = "final"
        BY <3>1, <3>2 DEF Structure, LastRefresh, Busy
      <4>2. \A i \in Jobs : i # w => job'[i] = job[i]
        BY <1>0, <2>8, <3>2 DEF Store, JobGo
      <4>3. "final" \notin Starting
        BY DEF Starting
      <4> QED
        BY <2>3, <2>4, <3>1, <4>1, <4>2, <4>3, AwaitedKept
    <3>3. CASE w \notin Jobs
      <4>1. UNCHANGED job
        BY <2>8, <3>3 DEF Store
      <4> QED
        BY <2>3, <2>4, <3>1, <4>1, AwaitedKept
    <3> QED
      BY <3>2, <3>3
  <2> QED
    BY <1>12, <2>5, <2>6, <2>7, <2>8 DEF WorkStep
<1> QED
  BY <1>2, <1>4, <1>5, <1>6, <1>7, <1>9, <1>10, <1>11, <1>12
     DEF Next, ImportThrows, JobThrows, WorkerThrows, Restart

\* Somebody is at work whose refresh is still to come.
LEMMA ReportedLater ==
    ASSUME ~AtRest', \A j \in Jobs : job'[j].pc # "end",
           \A w \in Rescores \cup Jobs : work'[w].pc # "store"
    PROVE  Reported'
BY DEF Reported

LEMMA ReportedAtWork ==
    ASSUME Structure', Alone', ~mixed', NEW j \in Jobs, job'[j].pc \notin {"off", "end"},
           work'[j].pc # "store"
    PROVE  Reported'
<1>1. active'
  BY DEF Structure, ActiveIsOneJob
<1>2. \A i \in Jobs : job'[i].pc # "end"
  BY DEF Structure, ActiveIsOneJob
<1>3. \A w \in Rescores : work'[w].pc = "idle"
  BY <1>1 DEF Alone, Busy
<1>4. \A i \in Jobs : work'[i].pc # "store"
  BY DEF Structure, LastRefresh, ActiveIsOneJob, Busy
<1>5. ~AtRest'
  BY <1>1 DEF AtRest
<1> QED
  BY <1>2, <1>3, <1>4, <1>5, ReportedLater

\* The counters and the rows they count stay as they are.
LEMMA ReportedKept ==
    ASSUME Reported, faults = 0, ~mixed, batch.status # "none",
           batch'.scored = batch.scored, batch'.failed = batch.failed,
           \A r \in Rows, s \in {"scored", "failed"} : row'[r] = s <=> row[r] = s,
           Promised' => Promised /\ batch'.status = batch.status,
           AtRest' => AtRest \/ \E j \in Jobs : job[j].pc = "end",
           \A j \in Jobs : job'[j].pc = "end" => job[j].pc = "end",
           \A w \in Rescores \cup Jobs : work'[w].pc = "store" => work'[w] = work[w]
    PROVE  Reported'
<1>1. With({"scored"})' = With({"scored"}) /\ With({"failed"})' = With({"failed"})
  BY DEF With
<1>2. ASSUME AtRest' \/ \E j \in Jobs : job'[j].pc = "end"
      PROVE  Right(batch)' /\ (Promised' => batch'.status = "completed")
  <2>1. Right(batch) /\ (Promised => batch.status = "completed")
    BY <1>2 DEF Reported
  <2> QED
    BY <1>1, <2>1 DEF Right
<1>3. ASSUME NEW w \in Rescores \cup Jobs, work'[w].pc = "store"
      PROVE  Right(work[w].stats)' /\ (Promised' => Full(work[w].stats)')
  <2>1. work'[w] = work[w] /\ Right(work[w].stats) /\ (Promised => Full(work[w].stats))
    BY <1>3 DEF Reported
  <2> QED
    BY <1>1, <2>1 DEF Right, Full
<1> QED
  BY <1>2, <1>3 DEF Reported

\* A job at its last refresh, or a rescoring without overlap, is the only one at work.
LEMMA OnlyOne ==
    ASSUME TypeOK, Structure, Alone, faults = 0, ~mixed, NEW w \in Rescores \cup Jobs, Busy(w)
    PROVE  /\ \A v \in Workers : v # w => ~Busy(v)
           /\ \A j \in Jobs : job[j].pc \notin Starting \cup {"pool", "end"}
           /\ \A j \in Jobs : j # w => job[j].pc = "off"
           /\ w \in Jobs => active /\ job[w].pc = "final" /\ w \notin Rescores
           /\ w \in Rescores => ~active
<1>1. CASE w \in Jobs
  <2>1. job[w].pc = "final" /\ active /\ \A j \in Jobs : j # w => job[j].pc = "off"
    BY <1>1 DEF Structure, LastRefresh, ActiveIsOneJob
  <2>2. \A v \in Runners : ~Busy(v)
    BY <2>1, RunnerJob DEF Structure, NoStraggler
  <2>3. \A v \in Jobs : v # w => ~Busy(v)
    BY <2>1 DEF Structure, LastRefresh
  <2>4. \A v \in Rescores : ~Busy(v)
    BY <2>1 DEF Alone
  <2>5. {"off", "final"} \cap (Starting \cup {"pool", "end"}) = {}
    BY DEF Starting
  <2> QED
    BY <1>1, <2>1, <2>2, <2>3, <2>4, <2>5, SetsAssumption DEF Workers
<1>2. CASE w \in Rescores
  <2>1. ~active /\ \A v \in Rescores : v # w => ~Busy(v)
    BY <1>2 DEF Alone
  <2>2. \A j \in Jobs : job[j].pc = "off"
    BY <2>1 DEF Structure, ActiveIsOneJob
  <2>3. \A v \in Runners \cup Jobs : ~Busy(v)
    BY <2>1, WhoWorks
  <2>4. "off" \notin Starting \cup {"pool", "end"}
    BY DEF Starting
  <2> QED
    BY <1>2, <2>1, <2>2, <2>3, <2>4, SetsAssumption DEF Workers
<1> QED
  BY <1>1, <1>2

\* When it counts, no row of a promised batch is left.
LEMMA CountsAll ==
    ASSUME TypeOK, Structure, ScoringIsOwned, Frame, Covered, Promised, NEW w \in Workers,
           work[w].pc = "count", \A v \in Workers : v # w => ~Busy(v),
           \A j \in Jobs : job[j].pc \notin Starting \cup {"pool", "end"}
    PROVE  /\ Cardinality(With({"pending", "scoring"})) = 0
           /\ Cardinality(With({"scored"})) + Cardinality(With({"failed"})) > 0
<1>1. \A v \in Workers : work[v].pc \notin {"mark", "score"}
  BY DEF Busy
<1>2. \A r \in Rows : ~Awaited(r)
  BY <1>1 DEF Awaited
<1>3. \A r \in Rows : row[r] # "pending"
  BY <1>2 DEF Covered, With
<1>4. \A r \in Rows : row[r] # "scoring"
  BY <1>1 DEF ScoringIsOwned, With, Promised
<1>5. With({"pending", "scoring"}) = {}
  BY <1>3, <1>4 DEF With
<1>6. 1 \in Rows /\ imp.done = Total /\ 1 <= Total
  <2>1. 1 \in Rows /\ 1 <= Total
    BY SizeAssumption DEF Rows
  <2> QED
    BY <2>1 DEF Frame, Filled, Promised
<1>7. row[1] # "none"
  BY <1>6 DEF Frame, Filled, Promised
<1>8. row[1] \in {"scored", "failed"}
  BY <1>3, <1>4, <1>6, <1>7 DEF TypeOK, RowStatus
<1>9. ASSUME NEW s, 1 \in With(s) PROVE Cardinality(With(s)) > 0
  <2>1. With(s) \subseteq Rows /\ IsFiniteSet(Rows)
    BY FS_Interval, SizeAssumption DEF With, Rows
  <2>2. IsFiniteSet(With(s)) /\ With(s) # {}
    BY <1>9, <2>1, FS_Subset
  <2>3. Cardinality(With(s)) \in Nat /\ Cardinality(With(s)) # 0
    BY <2>2, FS_EmptySet, FS_CardinalityType
  <2> QED
    BY <2>3
<1>10. 1 \in With({"scored"}) \/ 1 \in With({"failed"})
  BY <1>6, <1>8 DEF With
<1>11. Cardinality(With({"scored"})) \in Nat /\ Cardinality(With({"failed"})) \in Nat
  <2>1. With({"scored"}) \in SUBSET Rows /\ With({"failed"}) \in SUBSET Rows
    BY DEF With
  <2> QED
    BY <2>1, RowsCounted
<1>12. Cardinality(With({"scored"})) > 0 \/ Cardinality(With({"failed"})) > 0
  BY <1>9, <1>10
<1>13. Cardinality(With({"pending", "scoring"})) = 0
  BY <1>5, FS_EmptySet
<1>14. Cardinality(With({"scored"})) + Cardinality(With({"failed"})) > 0
  <2> DEFINE m == Cardinality(With({"scored"}))
             n == Cardinality(With({"failed"}))
  <2>1. m \in Nat /\ n \in Nat /\ (m > 0 \/ n > 0)
    BY <1>11, <1>12
  <2> HIDE DEF m, n
  <2>2. m + n > 0
    BY <2>1
  <2> QED
    BY <2>2 DEF m, n
<1> QED
  BY <1>13, <1>14

\* A refresh reads the truth, and everything when it is the last one.
LEMMA CountReported ==
    ASSUME TypeOK, Structure, ScoringIsOwned, Frame, Covered, faults = 0, ~mixed,
           NEW w \in Rescores \cup Jobs, Count(w)
    PROVE  Reported'
<1>0. work \in [Workers -> Worker] /\ w \in Workers /\ w \in Rescores \cup Jobs
  BY TypeNamed DEF Workers
<1>1. work[w].pc = "count" /\ Busy(w)
  BY DEF Count, Busy
<1>2. /\ \A v \in Workers : v # w => ~Busy(v)
      /\ \A j \in Jobs : job[j].pc \notin Starting \cup {"pool", "end"}
      /\ w \in Jobs => active
      /\ w \in Rescores => ~active
  BY <1>1, OnlyOne DEF Frame
<1> DEFINE stats == [scored |-> Cardinality(With({"scored"})),
                     failed |-> Cardinality(With({"failed"})),
                     pending |-> Cardinality(With({"pending", "scoring"}))]
<1>3. work'[w].stats = stats /\ work'[w].pc = "store" /\ \A v \in Workers : v # w => work'[v] = work[v]
  <2>1. work' = [work EXCEPT ![w] = [@ EXCEPT !.pc = "store", !.stats = stats]]
    BY DEF Count
  <2> HIDE DEF stats
  <2>2. work[w] \in Worker
    BY <1>0
  <2> QED
    BY <1>0, <2>1, <2>2 DEF Worker
<1>4. UNCHANGED <<batch, row, imp, active, job, faults, dropped>>
  BY DEF Count, history
<1>5. stats.scored = Cardinality(With({"scored"})) /\ stats.failed = Cardinality(With({"failed"}))
      /\ stats.pending = Cardinality(With({"pending", "scoring"}))
  OBVIOUS
<1>6. Promised => stats.pending = 0 /\ stats.scored + stats.failed > 0
  BY <1>0, <1>1, <1>2, <1>5, CountsAll
<1> HIDE DEF stats
<1>7. With({"scored"})' = With({"scored"}) /\ With({"failed"})' = With({"failed"})
  BY <1>4 DEF With
<1>8. Promised' => Promised
  BY <1>4 DEF Promised
<1>9. \A v \in Rescores \cup Jobs : work'[v].pc = "store" => v = w
  BY <1>2, <1>3 DEF Workers, Busy
<1>10. Right(work[w].stats)' /\ (Promised' => Full(work[w].stats)')
  BY <1>3, <1>5, <1>6, <1>7, <1>8 DEF Right, Full
<1>11. ~AtRest' /\ \A j \in Jobs : job'[j].pc # "end"
  BY <1>0, <1>2, <1>3, <1>4 DEF AtRest, Busy
<1> QED
  BY <1>9, <1>10, <1>11 DEF Reported

\* And it is what the batch gets.
LEMMA StoreReported ==
    ASSUME TypeOK, Structure, Frame, Reported, faults = 0, ~mixed, batch.status # "none",
           NEW w \in Rescores \cup Jobs, Store(w)
    PROVE  Reported'
<1>0. work \in [Workers -> Worker] /\ w \in Workers /\ batch \in Batch
  BY TypeNamed DEF Workers
<1>1. work[w].pc = "store" /\ Busy(w)
  BY DEF Store, Busy
<1>2. \A v \in Workers : v # w => ~Busy(v)
  BY <1>1, OnlyOne DEF Frame
<1>3. Right(work[w].stats) /\ (Promised => Full(work[w].stats))
  BY <1>1 DEF Reported
<1>4. batch' = Refreshed(work[w].stats) /\ UNCHANGED <<row, imp, faults, dropped>>
  BY DEF Store, SetBatch, history
<1>5. /\ batch'.scored = work[w].stats.scored /\ batch'.failed = work[w].stats.failed
      /\ Full(work[w].stats) => batch'.status = "completed"
  BY <1>0, <1>4 DEF Refreshed, Batch, Full
<1>6. \A v \in Workers : work'[v].pc # "store"
  BY <1>0, <1>2 DEF Store, Busy, Idle
<1>7. With({"scored"})' = With({"scored"}) /\ With({"failed"})' = With({"failed"})
  BY <1>4 DEF With
<1>8. Promised' => Promised
  BY <1>4 DEF Promised
<1>9. Right(batch)' /\ (Promised' => batch'.status = "completed")
  BY <1>3, <1>5, <1>7, <1>8 DEF Right
<1> QED
  BY <1>6, <1>9 DEF Reported, Workers

LEMMA ReportedStep ==
    TypeOK /\ Structure /\ ScoringIsOwned /\ Frame /\ Covered /\ Reported /\ [Next]_vars => Reported'
<1> SUFFICES ASSUME TypeOK, Structure, ScoringIsOwned, Frame, Covered, Reported, [Next]_vars,
                    faults' = 0, ~mixed', batch'.status # "none"
             PROVE  Reported'
  BY DEF Reported
<1>0. /\ job \in [Jobs -> Job] /\ faults \in Nat /\ work \in [Workers -> Worker]
      /\ row \in [Rows -> RowStatus] /\ imp \in Importer /\ batch \in Batch
      /\ mixed \in BOOLEAN
  BY TypeNamed, SizeAssumption
<1>w. Runners \subseteq Workers /\ Jobs \subseteq Workers /\ Rescores \subseteq Workers
  BY DEF Workers
<1>1. faults = 0 /\ ~Fault
  BY <1>0, FaultsStay DEF vars, Fault
<1>2. ~mixed
  BY <1>0 DEF Next, vars, history, CreateBatch, ImportStep, ImportChunk, ImportCount, ImportFinish, ImportFail,
         ImportSchedule, Start, ScoreBatch, JobStep, JobLoad, JobResetRows, JobResetBatch, JobStart,
         JobSelect, JobPoolDone, JobFail, JobEnd, Rescore, WorkStep, RunnerNext, Mark, Answer,
         Count, Store, Clear, ImportThrows, JobThrows, WorkerThrows, Restart
<1>3. Structure' /\ Alone'
  BY StructureStep, AloneStep DEF Frame
<1>4. ASSUME UNCHANGED <<imp, dropped>>, batch.status # "none", Promised' PROVE Promised
  BY <1>1, <1>4 DEF Promised
<1>5. ASSUME NEW j \in Jobs, NEW reset \in BOOLEAN, Start(j, reset), UNCHANGED work
      PROVE  Reported'
  <2>1. job'[j].pc = "load" /\ ~active
    BY <1>0, <1>5 DEF Start
  <2>2. work'[j].pc # "store"
    BY <1>1, <1>5, <2>1, WhoWorks DEF Busy
  <2> QED
    BY <1>3, <2>1, <2>2, ReportedAtWork
<1>6. CASE UNCHANGED vars
  <2>1. Promised' => Promised
    BY <1>6 DEF vars, Promised
  <2> QED
    BY <1>1, <1>2, <1>6, <2>1, ReportedKept DEF vars, AtRest, Busy
<1>7. CASE \E auto \in AutoScore : CreateBatch(auto)
  <2>1. imp.pc = "none" /\ UNCHANGED <<row, work, job>> /\ imp'.pc = "insert"
    BY <1>7 DEF CreateBatch
  <2>2. batch.status = "none" /\ ~active /\ \A w \in Workers : work[w].pc = "idle"
    BY <2>1 DEF Frame, Begun, Busy
  <2>3. \A r \in Rows : row[r] = "none"
    BY <2>2 DEF Frame, Filled
  <2>4. With({"scored"})' = {} /\ With({"failed"})' = {}
    BY <2>1, <2>3 DEF With
  <2>5. batch'.scored = 0 /\ batch'.failed = 0
    BY <1>7 DEF CreateBatch, NoBatch
  <2>6. Right(batch)'
    BY <2>4, <2>5, FS_EmptySet DEF Right
  <2>7. ~Promised'
    BY <2>1 DEF Promised
  <2> QED
    BY <1>w, <2>1, <2>2, <2>6, <2>7 DEF Reported
<1>8. CASE ImportStep
  <2>1. CASE ImportSchedule
    <3>1. CASE \E j \in Jobs : Start(j, FALSE)
      BY <1>5, <2>1, <3>1 DEF ImportSchedule
    <3>2. CASE /\ imp.auto => active
               /\ dropped' = (dropped \/ imp.auto)
               /\ UNCHANGED <<active, job, mixed>>
      <4>1. imp'.auto = imp.auto
        BY <1>0, <2>1 DEF ImportSchedule, ImportGo, Importer
      <4>2. ~Promised'
        BY <3>2, <4>1 DEF Promised
      <4>3. UNCHANGED <<batch, row, work>>
        BY <2>1 DEF ImportSchedule
      <4> QED
        BY <1>1, <1>2, <3>2, <4>2, <4>3, ReportedKept DEF AtRest, Busy
    <3> QED
      BY <2>1, <3>1, <3>2 DEF ImportSchedule
  <2>2. CASE ImportFail
    <3>1. imp.pc = "fail" /\ batch.status = "none"
      BY <1>1, <2>2 DEF ImportFail, Frame, Filled
    <3> QED
      BY <2>2, <3>1 DEF ImportFail, SetBatch
  <2>3. CASE ImportChunk
    <3>1. ~Promised'
      BY <1>0, <2>3 DEF ImportChunk, ImportGo, Importer, Promised
    <3>2. UNCHANGED <<batch, active, job, work>>
      BY <2>3 DEF ImportChunk
    <3>3. ASSUME NEW r \in Rows, NEW s \in {"scored", "failed"}
          PROVE  row'[r] = s <=> row[r] = s
      <4> DEFINE upto == IF imp.done + Chunk < Total THEN imp.done + Chunk ELSE Total
      <4>1. row' = [q \in Rows |-> IF q \in (imp.done + 1)..upto THEN "pending" ELSE row[q]]
        BY <2>3, <3>2 DEF ImportChunk
      <4>2. imp.done \in Nat /\ r \in Int
        <5>1. imp.done \in 0..Total
          BY <1>0, ImporterMoves
        <5> QED
          BY <5>1 DEF Rows
      <4>3. upto \in Int
        BY <4>2, SizeAssumption
      <4> HIDE DEF upto
      <4>4. CASE r \in (imp.done + 1)..upto
        <5>1. ~(r <= imp.done)
          BY <4>2, <4>3, <4>4
        <5>2. row[r] = "none"
          BY <5>1 DEF Frame, Filled
        <5>3. row'[r] = "pending"
          BY <4>1, <4>4
        <5> QED
          BY <5>2, <5>3
      <4>5. CASE r \notin (imp.done + 1)..upto
        BY <4>1, <4>5
      <4> QED
        BY <4>4, <4>5
    <3> QED
      BY <1>1, <1>2, <3>1, <3>2, <3>3, ReportedKept DEF AtRest, Busy
  <2>4. CASE ImportCount \/ ImportFinish
    <3>1. ~Promised'
      BY <1>0, <2>4 DEF ImportCount, ImportFinish, ImportGo, Importer, Promised
    <3>2. UNCHANGED <<row, active, job, work>>
      BY <2>4 DEF ImportCount, ImportFinish
    <3>3. batch.status # "none" /\ batch'.scored = batch.scored /\ batch'.failed = batch.failed
      BY <1>0, <2>4 DEF ImportCount, ImportFinish, SetBatch, Batch
    <3> QED
      BY <1>1, <1>2, <3>1, <3>2, <3>3, ReportedKept DEF AtRest, Busy
  <2> QED
    BY <1>8, <2>1, <2>2, <2>3, <2>4 DEF ImportStep
<1>9. CASE \E j \in Jobs, reset \in BOOLEAN : ScoreBatch(j, reset)
  BY <1>5, <1>9 DEF ScoreBatch
<1>10. ASSUME NEW j \in Jobs, JobStep(j) PROVE Reported'
  <2>1. CASE JobLoad(j) \/ JobResetRows(j) \/ JobResetBatch(j) \/ JobStart(j) \/ JobSelect(j)
    <3>1. CASE JobLoad(j) /\ batch.status = "none"
      BY <3>1 DEF JobLoad
    <3>2. CASE ~(JobLoad(j) /\ batch.status = "none")
      <4>1. job'[j].pc \in {"reset", "resetBatch", "start", "select", "pool"}
        BY <1>0, <2>1, <3>2 DEF JobLoad, JobResetRows, JobResetBatch, JobStart, JobSelect, JobGo, Job
      <4>2. work'[j].pc # "store"
        BY <1>3, <4>1 DEF Structure, LastRefresh, Busy
      <4> QED
        BY <1>3, <4>1, <4>2, ReportedAtWork
    <3> QED
      BY <3>1, <3>2
  <2>2. CASE JobPoolDone(j)
    <3>1. job'[j].pc = "final" /\ work'[j].pc = "count"
      BY <1>0, <1>w, <2>2 DEF JobPoolDone, JobGo, Go, Job, Worker
    <3> QED
      BY <1>3, <3>1, ReportedAtWork
  <2>3. CASE JobFail(j)
    BY <1>1, <2>3 DEF JobFail, Frame, NoFailure
  <2>4. CASE JobEnd(j)
    <3>1. job[j].pc = "end" /\ UNCHANGED <<batch, row, imp, work, dropped>>
      BY <2>4 DEF JobEnd, history
    <3>2. \A i \in Jobs : job'[i].pc = "end" => job[i].pc = "end"
      BY <1>0, <2>4 DEF JobEnd, NoJob
    <3>3. Promised' => Promised
      BY <1>4, <3>1
    <3> QED
      BY <1>1, <1>2, <3>1, <3>2, <3>3, ReportedKept
  <2> QED
    BY <1>10, <2>1, <2>2, <2>3, <2>4 DEF JobStep
<1>11. ASSUME NEW w \in Rescores, NEW r \in Rows, Rescore(w, r) PROVE Reported'
  <2>1. ~active /\ \A v \in Workers : work[v].pc = "idle"
    BY <1>0, <1>11 DEF Rescore, Busy
  <2>2. \A j \in Jobs : job[j].pc = "off"
    BY <2>1 DEF Structure, ActiveIsOneJob
  <2>3. work'[w].pc = "mark" /\ \A v \in Workers : v # w => work'[v] = work[v]
    BY <1>0, <1>11, <1>w DEF Rescore, Idle
  <2>4. \A v \in Rescores \cup Jobs : work'[v].pc # "store"
    BY <1>w, <2>1, <2>3
  <2>5. ~AtRest'
    BY <2>3 DEF AtRest, Busy
  <2> QED
    BY <1>11, <2>2, <2>4, <2>5, ReportedLater DEF Rescore
<1>12. ASSUME NEW w \in Workers, WorkStep(w) PROVE Reported'
  <2>0. Busy(w) /\ \A v \in Workers : v # w => work'[v] = work[v]
    BY <1>0, <1>12 DEF WorkStep, RunnerNext, Mark, Answer, Count, Store, Go, Busy
  <2>1. CASE w \in Runners
    <3>1. w[1] \in Jobs /\ job[w[1]].pc = "pool"
      BY <1>1, <2>0, <2>1, RunnerJob DEF Structure, NoStraggler
    <3>2. w \notin Jobs
      BY <2>1, SetsAssumption
    <3>3. UNCHANGED job
      BY <1>12, <3>2 DEF WorkStep, RunnerNext, Mark, Answer, Count, Store
    <3>4. work'[w[1]].pc # "store"
      BY <1>w, <2>0, <3>1, <3>2 DEF Structure, LastRefresh, Busy
    <3> QED
      BY <1>3, <3>1, <3>3, <3>4, ReportedAtWork
  <2>2. CASE w \in Rescores \cup Jobs
    <3>1. w \notin Runners
      BY <2>2, SetsAssumption
    <3>2. CASE Count(w)
      BY <1>1, <1>2, <2>2, <3>2, CountReported
    <3>3. CASE Store(w)
      <4>1. batch.status # "none"
        BY <3>3 DEF Store, SetBatch
      <4> QED
        BY <1>1, <1>2, <2>2, <3>3, <4>1, StoreReported
    <3>4. CASE Mark(w) \/ Answer(w)
      <4>1. work[w].pc \in {"mark", "score"} /\ work'[w].pc \in {"score", "count"} /\ UNCHANGED job
        BY <1>0, <3>4 DEF Mark, Answer, Go, Worker, Idle
      <4>2. w \in Rescores
        BY <2>2, <4>1 DEF Structure, LastRefresh
      <4>3. \A v \in Workers : v # w => work[v].pc = "idle"
        BY <1>1, <1>2, <2>0, <2>2, OnlyOne DEF Frame, Busy
      <4>4. \A j \in Jobs : job[j].pc # "end"
        BY <1>1, <1>2, <2>0, <2>2, OnlyOne DEF Frame
      <4>5. \A v \in Rescores \cup Jobs : work'[v].pc # "store"
        BY <1>w, <2>0, <4>1, <4>3
      <4>6. ~AtRest'
        BY <4>1, <4>2 DEF AtRest, Busy
      <4> QED
        BY <4>1, <4>4, <4>5, <4>6, ReportedLater
    <3> QED
      BY <1>12, <3>1, <3>2, <3>3, <3>4 DEF WorkStep
  <2> QED
    BY <2>1, <2>2 DEF Workers
<1>13. CASE Clear
  BY <1>13 DEF Clear, NoBatch
<1> QED
  BY <1>1, <1>6, <1>7, <1>8, <1>9, <1>10, <1>11, <1>12, <1>13
     DEF Next, ImportThrows, JobThrows, WorkerThrows, Restart

----
(* Theorems *)

\* The inductive invariant: the pools' lists and the jobs' places.
THEOREM Inductive == Spec => []IInv
<1>1. Init => IInv
  <2>1. Init => ScoringIsOwned
    BY DEF Init, ScoringIsOwned, With
  <2> QED
    BY <2>1, InitTyped, StructureInit DEF IInv
<1>2. IInv /\ [Next]_vars => IInv'
  BY TypeStep, StructureStep, OwnedStep DEF IInv
<1> QED
  BY <1>1, <1>2, PTL DEF Spec

\* activeBatchJobs has the batch exactly while one job of it is in memory
\* (score-job.ts), whatever throws and however often the process restarts.
THEOREM OneJob == Spec => []ActiveIsOneJob
<1>1. IInv => ActiveIsOneJob
  BY DEF IInv, Structure
<1> QED
  BY <1>1, Inductive, PTL

\* No row is being scored by two runners of one pool, nor by two pools as long
\* as no statement has thrown (runWithConcurrency in score-job.ts).
THEOREM OneRunner == Spec => []OneRunnerPerRow
<1>1. IInv => OneRunnerPerRow
  <2> SUFFICES ASSUME IInv, NEW v \in Runners, NEW w \in Runners, NEW r \in Rows,
                      Holds(v, r), Holds(w, r), faults = 0 \/ v[1] = w[1]
               PROVE  v = w
    BY DEF OneRunnerPerRow
  <2>1. v[1] = w[1]
    <3>1. CASE faults = 0
      <4>1. job[v[1]].pc = "pool" /\ job[w[1]].pc = "pool"
        BY <3>1 DEF IInv, Structure, NoStraggler, Holds, Busy
      <4> QED
        BY <4>1, RunnerJob DEF IInv, Structure, ActiveIsOneJob
    <3> QED
      BY <3>1
  <2> QED
    BY <2>1 DEF IInv, Structure, Apart, Holds
<1> QED
  BY <1>1, Inductive, PTL

\* A row that is "scoring" is in the hands of a worker that is waiting for the
\* answer to it, as long as no statement has thrown (scoreRecord in score-job.ts).
THEOREM ScoringOwned == Spec => []ScoringIsOwned
<1>1. IInv => ScoringIsOwned
  BY DEF IInv
<1> QED
  BY <1>1, Inductive, PTL

\* The rows, the lists and the refreshes, with what the rows have still to expect.
THEOREM Settling == Spec => [](IInv /\ Frame /\ Covered /\ Reported)
<1>1. Init => Frame /\ Covered /\ Reported
  <2> SUFFICES ASSUME Init PROVE Frame /\ Covered /\ Reported
    OBVIOUS
  <2>1. \A w \in Workers : work[w].pc = "idle"
    BY DEF Init, Idle
  <2>2. \A j \in Jobs : job[j].pc = "off"
    BY DEF Init, NoJob
  <2>3. batch.status = "none" /\ imp.pc = "none" /\ ~active /\ \A r \in Rows : row[r] = "none"
    BY DEF Init, NoBatch
  <2>4. Rescores \subseteq Workers
    BY DEF Workers
  <2>5. Alone /\ Begun /\ Filled /\ NoFailure /\ Drained
    BY <2>1, <2>2, <2>3, <2>4 DEF Alone, Begun, Filled, NoFailure, Drained, Busy
  <2> QED
    BY <2>3, <2>5 DEF Frame, Covered, Promised, Reported
<1>2. IInv /\ Frame /\ Covered /\ Reported /\ [Next]_vars => (Frame /\ Covered /\ Reported)'
  BY AloneStep, BegunStep, FilledStep, NoFailureStep, DrainedStep, CoveredStep, ReportedStep
     DEF IInv, Frame
<1> QED
  BY <1>1, <1>2, Inductive, PTL DEF Spec

\* When everybody has gone, the batch's counters are those of its rows, unless a
\* statement threw or a rescoring went on beside the job or another rescoring
\* (refreshBatchScoreCounters in score-job.ts).
THEOREM CountersHold == Spec => []CountersSettle
<1>1. Reported => CountersSettle
  BY DEF Reported, CountersSettle, Quiet, AtRest, Right, Workers
<1> QED
  BY <1>1, Settling, PTL

\* A batch imported with autoScore ends with every row scored or failed, as long
\* as no statement threw and the import found no other job of the batch
\* (runImportJob in service.ts, runCsReplyScoreJob in score-job.ts).
THEOREM CoversHold == Spec => []AutoScoreCovers
<1>1. IInv /\ Covered /\ Reported => AutoScoreCovers
  <2> SUFFICES ASSUME IInv, Covered, Reported, Quiet, faults = 0, imp.auto, ~dropped,
                      batch.status # "none"
               PROVE  /\ With({"pending"}) = {}
                      /\ ~mixed => batch.status = "completed"
    BY DEF AutoScoreCovers
  <2>1. Promised /\ AtRest
    BY DEF Promised, Quiet, AtRest, Workers
  <2>2. \A j \in Jobs : job[j].pc = "off"
    BY DEF IInv, Structure, ActiveIsOneJob, Quiet
  <2>3. \A w \in Workers : work[w].pc = "idle"
    BY DEF Quiet, Busy
  <2>4. \A r \in Rows : ~Awaited(r)
    BY <2>2, <2>3 DEF Awaited, Starting
  <2>5. With({"pending"}) = {}
    BY <2>1, <2>4 DEF Covered, With
  <2>6. ~mixed => batch.status = "completed"
    BY <2>1 DEF Reported
  <2> QED
    BY <2>5, <2>6
<1> QED
  BY <1>1, Settling, PTL

====
