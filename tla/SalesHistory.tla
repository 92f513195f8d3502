---- MODULE SalesHistory ----
(***************************************************************************)
(* The daily and the monthly sales tables and everything that writes them:  *)
(* the import of a wide CSV file as a batch (routes/import.ts, lib/import/  *)
(* batch.ts, async-job.ts, sales-xiaoshou.ts), the daily Feishu pull, the   *)
(* maintenance task and the aggregation on demand.                          *)
(*                                                                          *)
(* The months are sums of the days.  An aggregation first reads the oldest  *)
(* day of the whole daily table and leaves out the months that began before *)
(* it, for their days have been pruned.  A step is one statement of the     *)
(* database; nothing is locked and nothing is in a transaction.             *)
(*                                                                          *)
(* A stored quantity is the set of the file's parts that it adds up, a      *)
(* monthly quantity the set of the days it adds up.                         *)
(***************************************************************************)
EXTENDS Naturals, FiniteSets, FiniteSetsExt, Sequences

CONSTANTS
    Skus,
    LastDay,        \* the days of the calendar are 1..LastDay
    DaysPerMonth,
    Sold,           \* the days on which each SKU was sold
    Imports,        \* the import requests, each with its row of import_batches
    Files,          \* wide files: the SKU of each row, and the first day column
    Recent,         \* the days of each SKU that the Feishu table holds
    Pull,           \* the Feishu pull
    Sweep,          \* the maintenance task, or the aggregation on demand
    None,
    MaxBusy,        \* bound: workers that run at the same time
    MaxCutoff,      \* bound: the last day the retention limit reaches
    MaxFaults       \* bound: throwing statements and process restarts

Workers == Imports \cup {Pull, Sweep}
Days == 1..LastDay
Month(d) == (d - 1) \div DaysPerMonth + 1
Months == {Month(d) : d \in Days}
FirstDay(m) == (m - 1) * DaysPerMonth + 1

ASSUME CalendarAssumption == /\ LastDay \in Nat /\ DaysPerMonth \in Nat \ {0}
                             /\ MaxBusy \in Nat /\ MaxCutoff \in Nat
                             /\ MaxFaults \in Nat
ASSUME SalesAssumption == /\ Sold \in [Skus -> SUBSET Days]
                          /\ Recent \in [Skus -> SUBSET Days]
                          /\ IsFiniteSet(Skus)
ASSUME FilesAssumption == /\ Files \subseteq [rows: Seq(Skus), from: Days]
                          /\ \A f \in Files : f.rows # <<>>
ASSUME NamesAssumption == /\ None \notin Workers
                          /\ Pull \notin Imports /\ Sweep \notin Imports /\ Pull # Sweep

VARIABLES
    batch,      \* status of each row of import_batches
    req,        \* the file of each import, and whether it runs in the background
    daily,      \* sales_history: who wrote a row last, and which parts it adds up
    monthly,    \* sales_history_monthly: the days each month adds up
    work,       \* what each worker does
    cutoff,     \* the retention limit: days before it may be pruned
    faults,     \* statements that threw and restarts so far
    overlap,    \* history: two workers were at it at the same time
    broken,     \* history: a worker died or threw before its end
    skipped,    \* history: SKU-months that an aggregation left out, of workers alone
    revived     \* history: days before the retention limit stored by a pull alone

vars == <<batch, req, daily, monthly, work, cutoff, faults, overlap, broken, skipped, revived>>
tables == <<daily, monthly>>
history == <<overlap, broken, skipped, revived>>

Point == {"off", "abandon", "insert", "save", "write", "min", "upsert", "prune",
          "finish", "count", "settle", "over", "dead"}
Status == {"none", "pending", "success", "partial", "failed"}
NoRow == [by |-> None, parts |-> {}]
NoFile == [rows |-> <<>>, from |-> 1, async |-> FALSE]
Idle == [pc |-> "off", part |-> 1, min |-> 0, skus |-> {}, prune |-> FALSE]

Init ==
    /\ batch = [b \in Imports |-> "none"]
    /\ req = [b \in Imports |-> NoFile]
    /\ daily = [s \in Skus |-> [d \in Days |-> NoRow]]
    /\ monthly = [s \in Skus |-> [m \in Months |-> {}]]
    /\ work = [w \in Workers |-> Idle]
    /\ cutoff = 1
    /\ faults = 0
    /\ overlap = FALSE /\ broken = FALSE /\ skipped = {} /\ revived = {}

----
(* The tables *)

Stored(s, d) == daily[s][d].parts # {}
StoredDays == {d \in Days : \E s \in Skus : Stored(s, d)}
OldestDay == IF StoredDays = {} THEN 0 ELSE Min(StoredDays)
Owns(b) == \E s \in Skus : \E d \in Days : daily[s][d].by = b

Busy(w) == work[w].pc \notin {"off", "over", "dead"}
At(w, pc) == work[w].pc = pc
Go(w, pc) == work' = [work EXCEPT ![w] = [@ EXCEPT !.pc = pc]]
AtWork == {w \in Workers : Busy(w)}
Starts == /\ Cardinality(AtWork) < MaxBusy
          /\ overlap' = (overlap \/ AtWork # {})

\* Mutant: a later row of the same file replaces the earlier one.
MergeReplacing(row, by, part) == [by |-> by, parts |-> {part}]

\* INSERT ... ON CONFLICT DO UPDATE: a row of the same batch is added to,
\* any other is replaced.
Merge(row, by, part) ==
    IF by # None /\ row.by = by /\ row.parts # {}
    THEN [row EXCEPT !.parts = @ \cup {part}]
    ELSE [by |-> by, parts |-> {part}]

\* The rows of one SKU after a part of a file is written.
Written(rows, days, by, part) ==
    [d \in Days |-> IF d \in days THEN Merge(rows[d], by, part) ELSE rows[d]]

----
(* POST /import/sales: createImportBatch, then the file row by row *)

Request(b, file, async) ==
    /\ At(b, "off")
    /\ req' = [req EXCEPT ![b] = [rows |-> file.rows, from |-> file.from, async |-> async]]
    /\ Go(b, "abandon")
    /\ Starts
    /\ UNCHANGED <<batch, tables, cutoff, faults, broken, skipped, revived>>

\* Mutant: a batch left pending by a restart stays so.
AbandonNothing(b) ==
    /\ At(b, "abandon")
    /\ Go(b, "insert")
    /\ UNCHANGED <<batch, req, tables, cutoff, faults, history>>

\* Every pending batch is marked failed, also one whose job is still at work.
AbandonStale(b) ==
    /\ At(b, "abandon")
    /\ batch' = [c \in Imports |-> IF batch[c] = "pending" THEN "failed" ELSE batch[c]]
    /\ Go(b, "insert")
    /\ UNCHANGED <<req, tables, cutoff, faults, history>>

InsertBatch(b) ==
    /\ At(b, "insert")
    /\ batch' = [batch EXCEPT ![b] = "pending"]
    /\ Go(b, IF req[b].async THEN "save" ELSE "write")
    /\ UNCHANGED <<req, tables, cutoff, faults, history>>

\* saveSalesImportTempFile: outside the job, so nothing settles the batch if it throws.
SaveFile(b) ==
    /\ At(b, "save")
    /\ Go(b, "write")
    /\ UNCHANGED <<batch, req, tables, cutoff, faults, history>>

\* One wide row whose SKU is known or can be created; the others only add an error.
\* A row without a sale leaves its SKU out of the aggregation.
WriteRow(b) ==
    LET s == req[b].rows[work[b].part]
        days == {d \in Sold[s] : d >= req[b].from}
        skus == IF days = {} THEN work[b].skus ELSE work[b].skus \cup {s}
        pc == IF work[b].part < Len(req[b].rows) THEN "write"
              ELSE IF skus = {} THEN "finish" ELSE "min" IN
    /\ At(b, "write")
    /\ daily' = [daily EXCEPT ![s] = Written(@, days, b, work[b].part)]
    /\ work' = [work EXCEPT ![b] = [Idle EXCEPT !.pc = pc, !.part = work[b].part + 1,
                                                !.skus = skus, !.prune = TRUE]]
    /\ UNCHANGED <<batch, req, monthly, cutoff, faults, history>>

----
(* aggregateSalesHistoryMonthlyFromDaily and pruneSalesHistoryDailyBeyondRetention *)

Aggregates(w, min, pc) ==
    work' = [work EXCEPT ![w] = IF pc = "off" THEN Idle ELSE [@ EXCEPT !.pc = pc, !.min = min]]
AfterAggregate(w) == IF work[w].prune THEN "prune" ELSE "off"

\* The oldest day of all SKUs, not only of those to be aggregated.
ReadOldest(w) ==
    /\ At(w, "min")
    /\ Aggregates(w, OldestDay, IF OldestDay = 0 THEN AfterAggregate(w) ELSE "upsert")
    /\ UNCHANGED <<batch, req, tables, cutoff, faults, history>>

DaysOf(s, m) == {d \in Days : Month(d) = m /\ Stored(s, d)}

\* Mutant: also the month whose first days have been pruned.
AggregatedAny(s, m, min) == IF DaysOf(s, m) # {} THEN DaysOf(s, m) ELSE monthly[s][m]

\* Mutant: not the month that begins with the oldest day.
AggregatedAfter(s, m, min) ==
    IF FirstDay(m) > min /\ DaysOf(s, m) # {} THEN DaysOf(s, m) ELSE monthly[s][m]

\* A month without a row of the SKU is not touched.
Aggregated(s, m, min) ==
    IF FirstDay(m) >= min /\ DaysOf(s, m) # {} THEN DaysOf(s, m) ELSE monthly[s][m]

\* The months taken for pruned although they have a day that the monthly table lacks.
LeftOut(w) == {sm \in work[w].skus \X Months :
    /\ FirstDay(sm[2]) < work[w].min
    /\ ~(DaysOf(sm[1], sm[2]) \subseteq monthly[sm[1]][sm[2]])}

UpsertMonths(w) ==
    /\ At(w, "upsert")
    /\ skipped' = IF overlap \/ broken THEN skipped ELSE skipped \cup LeftOut(w)
    /\ monthly' = [s \in Skus |-> [m \in Months |->
           IF s \in work[w].skus THEN Aggregated(s, m, work[w].min) ELSE monthly[s][m]]]
    /\ Aggregates(w, 0, AfterAggregate(w))
    /\ UNCHANGED <<batch, req, daily, cutoff, faults, overlap, broken, revived>>

Prune(w) ==
    /\ At(w, "prune")
    /\ daily' = [s \in Skus |-> [d \in Days |-> IF d < cutoff THEN NoRow ELSE daily[s][d]]]
    /\ work' = [work EXCEPT ![w] = IF w = Sweep THEN Idle ELSE [@ EXCEPT !.pc = "finish"]]
    /\ UNCHANGED <<batch, req, monthly, cutoff, faults, history>>

----
(* finalizeImportBatch *)

Outcome(imported, errors) ==
    IF ~imported /\ errors THEN "failed" ELSE IF errors THEN "partial" ELSE "success"

Over(b) == work' = [work EXCEPT ![b] = [Idle EXCEPT !.pc = "over"]]

\* UPDATE ... WHERE id, whatever another import has made of the status meanwhile;
\* errors: of rows without a known SKU or quantity, or of the life cycles' refresh.
Finish(b, errors) ==
    /\ At(b, "finish")
    /\ batch' = [batch EXCEPT ![b] = Outcome(work[b].skus # {}, errors)]
    /\ Over(b)
    /\ UNCHANGED <<req, tables, cutoff, faults, history>>

\* Mutant: the background job, like the request, reports that nothing was imported.
CountNothing(b) ==
    /\ At(b, "count")
    /\ work' = [work EXCEPT ![b] = [@ EXCEPT !.pc = "settle", !.skus = {}]]
    /\ UNCHANGED <<batch, req, tables, cutoff, faults, history>>

\* The catch of a background job counts the rows that carry the batch's id.
CountRows(b) ==
    /\ At(b, "count")
    /\ work' = [work EXCEPT ![b] = [@ EXCEPT !.pc = "settle",
                    !.skus = {s \in Skus : \E d \in Days : daily[s][d].by = b}]]
    /\ UNCHANGED <<batch, req, tables, cutoff, faults, history>>

SettleFailed(b) ==
    /\ At(b, "settle")
    /\ batch' = [batch EXCEPT ![b] = Outcome(work[b].skus # {}, TRUE)]
    /\ Over(b)
    /\ UNCHANGED <<req, tables, cutoff, faults, history>>

----
(* The Feishu pull, the maintenance and the aggregation on demand *)

\* One pull at a time (the runs of its task), of all SKUs in one go, without a batch.
\* It asks that the newest day of the table is recent, nothing of the others.
PullDays ==
    LET skus == {s \in Skus : Sold[s] \cap Recent[s] # {}} IN
    /\ At(Pull, "off")
    /\ skus # {}
    /\ daily' = [s \in Skus |-> Written(daily[s], Sold[s] \cap Recent[s], None, 0)]
    /\ work' = [work EXCEPT ![Pull] = [Idle EXCEPT !.pc = "min", !.skus = skus]]
    /\ Starts
    /\ revived' = IF overlap' \/ broken THEN revived
                  ELSE revived \cup {d \in 1..(cutoff - 1) :
                                            \E s \in skus : d \in Sold[s] \cap Recent[s]}
    /\ UNCHANGED <<batch, req, monthly, cutoff, faults, broken, skipped>>

\* The maintenance prunes afterwards, POST monthly-sales/aggregate does not.
StartSweep(prune) ==
    /\ At(Sweep, "off")
    /\ work' = [work EXCEPT ![Sweep] = [Idle EXCEPT !.pc = "min", !.skus = Skus,
                                                    !.prune = prune]]
    /\ Starts
    /\ UNCHANGED <<batch, req, tables, cutoff, faults, broken, skipped, revived>>

NextDay ==
    /\ cutoff < MaxCutoff
    /\ cutoff' = cutoff + 1
    /\ UNCHANGED <<batch, req, tables, work, faults, history>>

----
(* Statements that throw, and restarts *)

\* Where a throw takes a worker: the catch of the job, that of the request, or out.
Caught(w) ==
    IF w \in {Pull, Sweep} THEN "off"
    ELSE IF At(w, "abandon") \/ At(w, "insert") \/ At(w, "save") THEN "dead"
    ELSE IF req[w].async THEN "count"
    ELSE IF At(w, "finish") \/ At(w, "settle") THEN "dead"
    ELSE "settle"

\* A request that throws reports nothing imported, whatever it has stored.
Throw(w) ==
    /\ Busy(w)
    /\ faults < MaxFaults
    /\ ~(w \in Imports /\ req[w].async /\ work[w].pc \in {"count", "settle"})
    /\ work' = [work EXCEPT ![w] = [Idle EXCEPT !.pc = Caught(w)]]
    /\ faults' = faults + 1
    /\ broken' = TRUE
    /\ UNCHANGED <<batch, req, tables, cutoff, overlap, skipped, revived>>

\* Nobody catches what the catch of a background job throws, so that ends the process too.
Crash ==
    /\ faults < MaxFaults
    /\ AtWork # {}
    /\ work' = [w \in Workers |->
           IF w \in {Pull, Sweep} THEN Idle
           ELSE IF Busy(w) THEN [Idle EXCEPT !.pc = "dead"] ELSE work[w]]
    /\ faults' = faults + 1
    /\ broken' = TRUE
    /\ UNCHANGED <<batch, req, tables, cutoff, overlap, skipped, revived>>

----
ImportStep(b) ==
    \/ AbandonStale(b)
    \/ InsertBatch(b)
    \/ SaveFile(b)
    \/ WriteRow(b)
    \/ \E errors \in BOOLEAN : Finish(b, errors)
    \/ CountRows(b)
    \/ SettleFailed(b)

WorkStep(w) ==
    \/ ReadOldest(w)
    \/ UpsertMonths(w)
    \/ Prune(w)

Next ==
    \/ \E b \in Imports, f \in Files, async \in BOOLEAN : Request(b, f, async)
    \/ \E b \in Imports : ImportStep(b)
    \/ \E w \in Workers : WorkStep(w) \/ Throw(w)
    \/ PullDays
    \/ \E prune \in BOOLEAN : StartSweep(prune)
    \/ NextDay
    \/ Crash

Spec == Init /\ [][Next]_vars

----
(* Properties *)

TypeOK ==
    /\ batch \in [Imports -> Status]
    /\ req \in [Imports -> [rows: Seq(Skus), from: Nat, async: BOOLEAN]]
    /\ daily \in [Skus -> [Days -> [by: Imports \cup {None}, parts: SUBSET Nat]]]
    /\ monthly \in [Skus -> [Months -> SUBSET Days]]
    /\ work \in [Workers -> [pc: Point, part: Nat, min: Nat, skus: SUBSET Skus,
                             prune: BOOLEAN]]
    /\ \A b \in Imports : At(b, "write") => work[b].part \in 1..Len(req[b].rows)
    /\ cutoff \in Nat
    /\ faults \in 0..MaxFaults
    /\ overlap \in BOOLEAN /\ broken \in BOOLEAN /\ skipped \subseteq Skus \X Months
    /\ revived \subseteq Days

\* What is stored of a day adds up every wide row of the SKU in one file: the
\* row of a finished import that nothing overlapped is the whole file's.
RowIsOneFile ==
    \A b \in Imports : ~overlap /\ work[b].pc = "over" /\ batch[b] = "success" =>
        \A s \in Skus, d \in Days : daily[s][d].by = b =>
            daily[s][d].parts = {i \in 1..Len(req[b].rows) : req[b].rows[i] = s}

\* A background import that ends failed has left no row of its own in the table,
\* however its job was interrupted and whatever ran beside it.
FailedLeftNothing ==
    \A b \in Imports :
        req[b].async /\ work[b].pc = "over" /\ batch[b] = "failed" => ~Owns(b)

\* Imports that do not overlap leave at most one batch pending, restarts included:
\* the next import settles what a dead one has left behind.
OnePending ==
    \A b, c \in Imports :
        ~overlap /\ batch[b] = "pending" /\ batch[c] = "pending" => b = c

Shrinks(s, m) == ~(monthly[s][m] \subseteq monthly'[s][m])

\* The remains of a pruned month never overwrite its monthly quantity, as long as every
\* worker runs alone and to its end (sales-history-monthly.ts shouldAggregateCalendarMonth),
\* but for the months from a pruned day on that the Feishu table still holds: a pull
\* stores it again, and the months after it pass for complete.
SoloMonthsKeepTheirDays ==
    [][overlap' \/ broken' \/ \A s \in Skus, m \in Months :
          Shrinks(s, m) => \E d \in revived \cap StoredDays : d <= FirstDay(m)]_vars

\* Only days that the monthly table adds up are pruned.
PrunedWereCounted ==
    [][\A s \in Skus, d \in Days :
          Stored(s, d) /\ daily'[s][d] = NoRow => d \in monthly[s][Month(d)]]_vars

\* The same for workers that neither overlap nor fail: every row is added up before it
\* is pruned, but for those of a month that an aggregation took for pruned already.
SoloPrunedWereCounted ==
    [][overlap' \/ broken' \/ \A s \in Skus, d \in Days :
          Stored(s, d) /\ daily'[s][d] = NoRow =>
            d \in monthly[s][Month(d)] \/ <<s, Month(d)>> \in skipped]_vars
====
