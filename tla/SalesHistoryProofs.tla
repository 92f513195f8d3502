------------------------ MODULE SalesHistoryProofs ------------------------
(***************************************************************************)
(* Proofs about SalesHistory for any SKUs, calendar, files, imports and      *)
(* bounds.                                                                  *)
(***************************************************************************)
EXTENDS SalesHistory, WellFoundedInduction, TLAPS

\* A nonempty set of naturals has a least element.
LEMMA Least ==
  ASSUME NEW T \in SUBSET Nat, T # {}
  PROVE  \E x \in T : \A y \in T : x <= y
<1>1. IsWellFoundedOn(OpToRel(<, Nat), Nat)
  BY NatLessThanWellFounded
<1>2. PICK x \in T : \A y \in T : ~(<<y, x>> \in OpToRel(<, Nat))
  BY <1>1, WFMin
<1>3. \A y \in T : ~(y < x)
  BY <1>2 DEF OpToRel
<1>4. ASSUME NEW y \in T
      PROVE  x <= y
  <2>1. x \in Nat /\ y \in Nat /\ ~(y < x)
    BY <1>3
  <2> QED
    BY <2>1
<1> QED
  BY <1>4

-----------------------------------------------------------------------------
(* Types *)

WorkType == [pc: Point, part: Nat, min: Nat, skus: SUBSET Skus, prune: BOOLEAN]
FileType == [rows: Seq(Skus), from: Nat, async: BOOLEAN]
RowType == [by: Imports \cup {None}, parts: SUBSET Nat]
DailyType == [Skus -> [Days -> RowType]]
MonthlyType == [Skus -> [Months -> SUBSET Days]]
WorkTyped == work \in [Workers -> WorkType]
BatchTyped == batch \in [Imports -> Status]
ReqTyped == req \in [Imports -> FileType]
DailyTyped == daily \in DailyType
MonthlyTyped == monthly \in MonthlyType
CountsTyped == /\ cutoff \in Nat /\ faults \in 0..MaxFaults
               /\ overlap \in BOOLEAN /\ broken \in BOOLEAN
               /\ skipped \subseteq Skus \X Months
RevivedTyped == revived \subseteq Days

\* An import is at a row of its file; at the start at its first; and its aggregation
\* is followed by pruning.
Placed(w, q) ==
  /\ w.pc = "write" => w.part \in 1..Len(q.rows)
  /\ w.pc \in {"off", "abandon", "insert", "save"} => w.part = 1
  /\ w.pc \in {"abandon", "insert", "save"} => Len(q.rows) >= 1
  /\ w.pc \in {"min", "upsert"} => w.prune
PlacedInv == \A b \in Imports : Placed(work[b], req[b])

Typed == /\ WorkTyped /\ BatchTyped /\ ReqTyped /\ DailyTyped /\ MonthlyTyped /\ CountsTyped
         /\ PlacedInv

LEMMA TypeParts == Typed /\ RevivedTyped => TypeOK
  BY DEF RevivedTyped, Typed, TypeOK, WorkTyped, BatchTyped, ReqTyped, DailyTyped, MonthlyTyped, CountsTyped,
     PlacedInv, Placed, At, WorkType, FileType, RowType, DailyType, MonthlyType

LEMMA ImportsWork == \A b \in Imports : b \in Workers /\ b # Pull /\ b # Sweep /\ b # None
  BY NamesAssumption DEF Workers
LEMMA OthersWork == Pull \in Workers /\ Sweep \in Workers
  BY DEF Workers

LEMMA IdleTyped == Idle \in WorkType /\ Idle.pc = "off" /\ Idle.part = 1 /\ Idle.skus = {}
  BY DEF Idle, WorkType, Point

\* Only b moves, and becomes w.
Turns(b, w) == /\ work' \in [Workers -> WorkType]
               /\ work'[b] = w
               /\ \A c \in Workers \ {b} : work'[c] = work[c]

LEMMA SetTurns ==
  ASSUME WorkTyped, NEW b \in Workers, NEW w \in WorkType, work' = [work EXCEPT ![b] = w]
  PROVE  Turns(b, w)
  BY DEF WorkTyped, Turns

LEMMA GoTurns ==
  ASSUME WorkTyped, NEW b \in Workers, NEW pc \in Point, Go(b, pc)
  PROVE  /\ work' \in [Workers -> WorkType]
         /\ \A c \in Workers \ {b} : work'[c] = work[c]
         /\ work'[b].pc = pc /\ work'[b].part = work[b].part /\ work'[b].min = work[b].min
         /\ work'[b].skus = work[b].skus /\ work'[b].prune = work[b].prune
<1>1. work[b] \in WorkType
  BY DEF WorkTyped
<1> DEFINE w == [work[b] EXCEPT !.pc = pc]
<1>2. /\ w \in WorkType /\ w.pc = pc /\ w.part = work[b].part /\ w.min = work[b].min
      /\ w.skus = work[b].skus /\ w.prune = work[b].prune
  BY <1>1 DEF WorkType
<1>3. work' = [work EXCEPT ![b] = w]
  BY DEF Go
<1> HIDE DEF w
<1> QED
  BY <1>2, <1>3, SetTurns DEF Turns

\* The rows of the daily table after a file's part, the Feishu pull, or pruning.
LEMMA MergeTyped ==
  ASSUME NEW row \in RowType, NEW by \in Imports \cup {None}, NEW part \in Nat
  PROVE  /\ Merge(row, by, part) \in RowType
         /\ Merge(row, by, part).by = by
         /\ Merge(row, by, part).parts # {}
         /\ by # None /\ row.by = by /\ row.parts # {} =>
              Merge(row, by, part).parts = row.parts \cup {part}
         /\ ~(by # None /\ row.by = by /\ row.parts # {}) =>
              Merge(row, by, part).parts = {part}
<1>1. CASE by # None /\ row.by = by /\ row.parts # {}
  <2> DEFINE n == [row EXCEPT !.parts = row.parts \cup {part}]
  <2>1. Merge(row, by, part) = n
    BY <1>1 DEF Merge
  <2>2. n \in RowType /\ n.by = row.by /\ n.parts = row.parts \cup {part}
    BY DEF RowType
  <2> HIDE DEF n
  <2> QED
    BY <1>1, <2>1, <2>2
<1>2. CASE ~(by # None /\ row.by = by /\ row.parts # {})
  <2>1. Merge(row, by, part) = [by |-> by, parts |-> {part}]
    BY <1>2 DEF Merge
  <2>2. [by |-> by, parts |-> {part}] \in RowType
    BY DEF RowType
  <2> QED
    BY <1>2, <2>1, <2>2
<1> QED
  BY <1>1, <1>2

LEMMA WrittenTyped ==
  ASSUME NEW rows \in [Days -> RowType], NEW days, NEW by \in Imports \cup {None},
         NEW part \in Nat
  PROVE  /\ Written(rows, days, by, part) \in [Days -> RowType]
         /\ \A d \in Days : Written(rows, days, by, part)[d] =
              IF d \in days THEN Merge(rows[d], by, part) ELSE rows[d]
<1>1. \A d \in Days : (IF d \in days THEN Merge(rows[d], by, part) ELSE rows[d]) \in RowType
  BY MergeTyped
<1> QED
  BY <1>1 DEF Written

LEMMA OldestIs ==
  ASSUME DailyTyped
  PROVE  /\ OldestDay \in Nat
         /\ StoredDays # {} => /\ OldestDay \in StoredDays
                               /\ \A d \in StoredDays : OldestDay <= d
         /\ StoredDays = {} <=> OldestDay = 0
<1>1. StoredDays \in SUBSET Nat /\ 0 \notin StoredDays
  BY CalendarAssumption DEF StoredDays, Days
<1>2. StoredDays # {} => Min(StoredDays) \in StoredDays /\ \A d \in StoredDays : Min(StoredDays) <= d
  <2>1. StoredDays # {} => \E x \in StoredDays : \A y \in StoredDays : x <= y
    BY <1>1, Least
  <2> QED
    BY <2>1, Zenon DEF Min
<1>3. CASE StoredDays = {}
  BY <1>3 DEF OldestDay
<1>4. CASE StoredDays # {}
  BY <1>1, <1>2, <1>4 DEF OldestDay
<1> QED
  BY <1>3, <1>4

-----------------------------------------------------------------------------
(* What the steps do to the worker that takes them *)

\* The worker b gets to pc and keeps everything else.
OnlyGoes(b, pc) ==
  /\ work' \in [Workers -> WorkType]
  /\ \A c \in Workers \ {b} : work'[c] = work[c]
  /\ work'[b].pc = pc /\ work'[b].part = work[b].part /\ work'[b].min = work[b].min
  /\ work'[b].skus = work[b].skus /\ work'[b].prune = work[b].prune

\* The worker b becomes idle but for its place.
Resets(b, pc) ==
  /\ work' \in [Workers -> WorkType]
  /\ \A c \in Workers \ {b} : work'[c] = work[c]
  /\ work'[b].pc = pc /\ work'[b].skus = {} /\ work'[b].part = 1

LEMMA GoesTyped ==
  ASSUME WorkTyped, NEW b \in Workers, NEW pc \in Point, Go(b, pc)
  PROVE  OnlyGoes(b, pc)
  BY GoTurns DEF OnlyGoes

LEMMA ResetsTyped ==
  ASSUME WorkTyped, NEW b \in Workers, NEW pc \in Point,
         work' = [work EXCEPT ![b] = [Idle EXCEPT !.pc = pc]]
  PROVE  Resets(b, pc)
<1> DEFINE w == [Idle EXCEPT !.pc = pc]
<1>1. w \in WorkType /\ w.pc = pc /\ w.skus = {} /\ w.part = 1
  BY IdleTyped DEF WorkType
<1>2. work' = [work EXCEPT ![b] = w]
  OBVIOUS
<1> HIDE DEF w
<1>3. Turns(b, w)
  BY <1>1, <1>2, SetTurns
<1> QED
  BY <1>1, <1>3 DEF Turns, Resets

LEMMA RequestEffect ==
  ASSUME Typed, NEW b \in Imports, NEW f \in Files, NEW async \in BOOLEAN, Request(b, f, async)
  PROVE  /\ OnlyGoes(b, "abandon") /\ work[b].pc = "off"
         /\ req' \in [Imports -> FileType] /\ \A c \in Imports \ {b} : req'[c] = req[c]
         /\ req'[b].rows = f.rows /\ req'[b].from = f.from /\ Len(f.rows) >= 1
         /\ overlap' = (overlap \/ AtWork # {}) /\ UNCHANGED <<batch, tables, cutoff, faults, broken, skipped>>
         /\ req'[b].async = async
<1>1. f.rows \in Seq(Skus) /\ f.from \in Days /\ f.rows # <<>>
  BY FilesAssumption
<1>2. Len(f.rows) \in Nat /\ Len(f.rows) >= 1
  BY <1>1
<1> DEFINE q == [rows |-> f.rows, from |-> f.from, async |-> async]
<1>3. q \in FileType /\ q.rows = f.rows /\ q.from = f.from /\ q.async = async
  BY <1>1, CalendarAssumption DEF FileType, Days
<1>4. req' = [req EXCEPT ![b] = q]
  BY DEF Request
<1> HIDE DEF q
<1>5. req' \in [Imports -> FileType] /\ req'[b] = q /\ \A c \in Imports \ {b} : req'[c] = req[c]
  BY <1>3, <1>4 DEF Typed, ReqTyped
<1>6. OnlyGoes(b, "abandon")
  BY ImportsWork, GoesTyped DEF Request, Typed, Point
<1> QED
  BY <1>2, <1>3, <1>5, <1>6 DEF Request, At, Starts, Typed, CountsTyped

LEMMA WriteEffect ==
  ASSUME Typed, NEW b \in Imports, WriteRow(b)
  PROVE  LET s == req[b].rows[work[b].part]
             days == {d \in Sold[s] : d >= req[b].from} IN
         /\ s \in Skus /\ work[b].pc = "write" /\ work[b].part \in 1..Len(req[b].rows)
         /\ daily' \in DailyType
         /\ \A t \in Skus \ {s} : daily'[t] = daily[t]
         /\ \A d \in Days : daily'[s][d] =
              IF d \in days THEN Merge(daily[s][d], b, work[b].part) ELSE daily[s][d]
         /\ work' \in [Workers -> WorkType]
         /\ \A c \in Workers \ {b} : work'[c] = work[c]
         /\ work'[b].part = work[b].part + 1 /\ work'[b].prune
         /\ work'[b].skus = IF days = {} THEN work[b].skus ELSE work[b].skus \cup {s}
         /\ \/ work'[b].pc = "write" /\ work[b].part < Len(req[b].rows)
            \/ /\ work'[b].pc \in {"min", "finish"} /\ work[b].part = Len(req[b].rows)
               /\ work'[b].pc = "finish" => work'[b].skus = {}
         /\ UNCHANGED <<batch, req, monthly, cutoff, faults, history>>
<1> DEFINE n == Len(req[b].rows)
           i == work[b].part
           s == req[b].rows[i]
           days == {d \in Sold[s] : d >= req[b].from}
           skus == IF days = {} THEN work[b].skus ELSE work[b].skus \cup {s}
           pc == IF i < n THEN "write" ELSE IF skus = {} THEN "finish" ELSE "min"
           w == [Idle EXCEPT !.pc = pc, !.part = i + 1, !.skus = skus, !.prune = TRUE]
<1>1. work[b].pc = "write" /\ i \in 1..n /\ work[b] \in WorkType /\ req[b] \in FileType
  BY ImportsWork DEF WriteRow, At, Typed, PlacedInv, Placed, WorkTyped, ReqTyped
<1>2. s \in Skus /\ n \in Nat
  BY <1>1 DEF FileType
<1>3. skus \in SUBSET Skus /\ i + 1 \in Nat /\ pc \in {"write", "min", "finish"} /\ pc \in Point
  BY <1>1, <1>2 DEF WorkType, Point
<1>4. /\ daily' = [daily EXCEPT ![s] = Written(daily[s], days, b, i)]
      /\ work' = [work EXCEPT ![b] = w]
      /\ UNCHANGED <<batch, req, monthly, cutoff, faults, history>>
  BY DEF WriteRow
<1>5. \/ pc = "write" /\ i < n
      \/ pc \in {"min", "finish"} /\ i = n /\ (pc = "finish" => skus = {})
  BY <1>1, <1>2
<1> HIDE DEF pc, skus
<1>6. w \in WorkType /\ w.pc = pc /\ w.part = i + 1 /\ w.skus = skus /\ w.prune
  BY <1>3, IdleTyped DEF WorkType
<1> HIDE DEF w
<1>7. Turns(b, w)
  BY <1>4, <1>6, ImportsWork, SetTurns DEF Typed
<1>8. daily[s] \in [Days -> RowType] /\ i \in Nat
  BY <1>1, <1>2 DEF Typed, DailyTyped, DailyType
<1>9. /\ Written(daily[s], days, b, i) \in [Days -> RowType]
      /\ \A d \in Days : Written(daily[s], days, b, i)[d] =
           IF d \in days THEN Merge(daily[s][d], b, i) ELSE daily[s][d]
  <2> HIDE DEF days, s, i
  <2> QED
    BY <1>8, WrittenTyped
<1>10. /\ daily' \in DailyType /\ \A t \in Skus \ {s} : daily'[t] = daily[t]
       /\ daily'[s] = Written(daily[s], days, b, i)
  BY <1>2, <1>4, <1>9 DEF Typed, DailyTyped, DailyType
<1> QED
  BY <1>1, <1>2, <1>4, <1>5, <1>6, <1>7, <1>9, <1>10 DEF Turns, skus

\* An aggregating worker goes on to what follows, or is done.
LEMMA AggregateEffect ==
  ASSUME WorkTyped, NEW w \in Workers, NEW min \in Nat, NEW pc \in Point \ {"write"},
         Aggregates(w, min, pc)
  PROVE  /\ work' \in [Workers -> WorkType]
         /\ \A c \in Workers \ {w} : work'[c] = work[c]
         /\ work'[w].pc = pc
         /\ pc # "off" => /\ work'[w].part = work[w].part /\ work'[w].min = min
                          /\ work'[w].skus = work[w].skus /\ work'[w].prune = work[w].prune
<1>1. CASE pc = "off"
  BY <1>1, IdleTyped, SetTurns DEF Aggregates, Turns
<1>2. CASE pc # "off"
  <2> DEFINE n == [work[w] EXCEPT !.pc = pc, !.min = min]
  <2>1. work[w] \in WorkType
    BY DEF WorkTyped
  <2>2. /\ n \in WorkType /\ n.pc = pc /\ n.min = min /\ n.part = work[w].part
        /\ n.skus = work[w].skus /\ n.prune = work[w].prune
    BY <2>1 DEF WorkType
  <2>3. work' = [work EXCEPT ![w] = n]
    BY <1>2 DEF Aggregates
  <2> HIDE DEF n
  <2> QED
    BY <2>2, <2>3, SetTurns DEF Turns
<1> QED
  BY <1>1, <1>2

LEMMA OldestEffect ==
  ASSUME Typed, NEW w \in Workers, ReadOldest(w)
  PROVE  /\ work[w].pc = "min" /\ work' \in [Workers -> WorkType]
         /\ \A c \in Workers \ {w} : work'[c] = work[c]
         /\ \/ /\ work'[w].pc = "upsert" /\ StoredDays # {} /\ work'[w].min = OldestDay
               /\ work'[w].skus = work[w].skus /\ work'[w].prune = work[w].prune
            \/ /\ work'[w].pc = "prune" /\ StoredDays = {}
               /\ work'[w].skus = work[w].skus /\ work'[w].prune = work[w].prune
            \/ work'[w].pc = "off" /\ StoredDays = {} /\ ~work[w].prune
         /\ UNCHANGED <<batch, req, tables, cutoff, faults, history>>
<1> DEFINE pc == IF OldestDay = 0 THEN AfterAggregate(w) ELSE "upsert"
<1>1. OldestDay \in Nat /\ (OldestDay = 0 <=> StoredDays = {}) /\ work[w] \in WorkType
  BY OldestIs DEF Typed, WorkTyped
<1>2. /\ pc \in {"upsert", "prune", "off"} /\ (pc = "upsert" => StoredDays # {})
      /\ (pc # "upsert" => StoredDays = {}) /\ (pc = "off" => ~work[w].prune)
  BY <1>1 DEF AfterAggregate
<1>3. Aggregates(w, OldestDay, pc)
  BY DEF ReadOldest
<1> HIDE DEF pc
<1>4. pc \in Point \ {"write"}
  BY <1>2 DEF Point
<1>5. /\ work' \in [Workers -> WorkType]
      /\ \A c \in Workers \ {w} : work'[c] = work[c]
      /\ work'[w].pc = pc
      /\ pc # "off" => /\ work'[w].part = work[w].part /\ work'[w].min = OldestDay
                       /\ work'[w].skus = work[w].skus /\ work'[w].prune = work[w].prune
  BY <1>1, <1>3, <1>4, AggregateEffect DEF Typed
<1> QED
  BY <1>2, <1>5 DEF ReadOldest, At

LEMMA UpsertEffect ==
  ASSUME Typed, NEW w \in Workers, UpsertMonths(w)
  PROVE  /\ work[w].pc = "upsert" /\ work' \in [Workers -> WorkType]
         /\ \A c \in Workers \ {w} : work'[c] = work[c]
         /\ \/ /\ work'[w].pc = "prune"
               /\ work'[w].skus = work[w].skus /\ work'[w].prune = work[w].prune
            \/ work'[w].pc = "off" /\ ~work[w].prune
         /\ monthly' \in MonthlyType
         /\ \A s \in Skus, m \in Months : monthly'[s][m] =
              IF s \in work[w].skus THEN Aggregated(s, m, work[w].min) ELSE monthly[s][m]
         /\ skipped' \subseteq Skus \X Months
         /\ skipped' = IF overlap \/ broken THEN skipped ELSE skipped \cup LeftOut(w)
         /\ UNCHANGED <<batch, req, daily, cutoff, faults, overlap, broken>>
<1> DEFINE pc == AfterAggregate(w)
<1>1. work[w] \in WorkType
  BY DEF Typed, WorkTyped
<1>2. pc \in {"prune", "off"} /\ (pc = "off" => ~work[w].prune)
  BY DEF AfterAggregate
<1>3. Aggregates(w, 0, pc)
  BY DEF UpsertMonths
<1> HIDE DEF pc
<1>4. pc \in Point \ {"write"}
  BY <1>2 DEF Point
<1>5. /\ work' \in [Workers -> WorkType]
      /\ \A c \in Workers \ {w} : work'[c] = work[c]
      /\ work'[w].pc = pc
      /\ pc # "off" => work'[w].skus = work[w].skus /\ work'[w].prune = work[w].prune
  BY <1>3, <1>4, AggregateEffect DEF Typed
<1>6. ASSUME NEW s \in Skus, NEW m \in Months
      PROVE  (IF s \in work[w].skus THEN Aggregated(s, m, work[w].min) ELSE monthly[s][m])
             \in SUBSET Days
  BY DEF Aggregated, DaysOf, Typed, MonthlyTyped, MonthlyType
<1>7. monthly' = [s \in Skus |-> [m \in Months |->
           IF s \in work[w].skus THEN Aggregated(s, m, work[w].min) ELSE monthly[s][m]]]
  BY DEF UpsertMonths
<1>8. monthly' \in MonthlyType
  BY <1>6, <1>7 DEF MonthlyType
<1>9. skipped' = IF overlap \/ broken THEN skipped ELSE skipped \cup LeftOut(w)
  BY DEF UpsertMonths
<1>10. LeftOut(w) \subseteq Skus \X Months
  BY <1>1 DEF LeftOut, WorkType
<1>11. skipped' \subseteq Skus \X Months
  BY <1>9, <1>10 DEF Typed, CountsTyped
<1> QED
  BY <1>2, <1>5, <1>7, <1>8, <1>9, <1>11 DEF UpsertMonths, At

LEMMA NoRowTyped == NoRow \in RowType /\ NoRow.by = None /\ NoRow.parts = {}
  BY DEF NoRow, RowType

LEMMA PruneEffect ==
  ASSUME Typed, NEW w \in Workers, Prune(w)
  PROVE  /\ work[w].pc = "prune" /\ work' \in [Workers -> WorkType]
         /\ \A c \in Workers \ {w} : work'[c] = work[c]
         /\ \/ w = Sweep /\ work'[w].pc = "off"
            \/ w # Sweep /\ work'[w].pc = "finish" /\ work'[w].skus = work[w].skus
         /\ daily' \in DailyType
         /\ \A s \in Skus, d \in Days :
              daily'[s][d] = IF d < cutoff THEN NoRow ELSE daily[s][d]
         /\ UNCHANGED <<batch, req, monthly, cutoff, faults, history>>
<1>1. work[w] \in WorkType /\ WorkTyped
  BY DEF Typed, WorkTyped
<1>2. ASSUME w # Sweep
      PROVE  OnlyGoes(w, "finish")
  <2>1. Go(w, "finish")
    BY <1>2 DEF Prune, Go
  <2> QED
    BY <1>1, <2>1, GoesTyped DEF Point
<1>3. ASSUME w = Sweep
      PROVE  Turns(w, Idle)
  <2>1. work' = [work EXCEPT ![w] = Idle]
    BY <1>3 DEF Prune
  <2> QED
    BY <1>1, <2>1, IdleTyped, SetTurns
<1>4. \A s \in Skus, d \in Days : (IF d < cutoff THEN NoRow ELSE daily[s][d]) \in RowType
  BY NoRowTyped DEF Typed, DailyTyped, DailyType
<1>5. daily' = [s \in Skus |-> [d \in Days |-> IF d < cutoff THEN NoRow ELSE daily[s][d]]]
  BY DEF Prune
<1>6. daily' \in DailyType
  BY <1>4, <1>5 DEF DailyType
<1> QED
  BY <1>2, <1>3, <1>5, <1>6, IdleTyped DEF OnlyGoes, Turns, Prune, At

LEMMA OutcomeIs ==
  ASSUME NEW imported \in BOOLEAN, NEW errors \in BOOLEAN
  PROVE  /\ Outcome(imported, errors) \in {"success", "partial", "failed"}
         /\ Outcome(imported, errors) = "failed" => ~imported /\ errors
         /\ Outcome(imported, errors) = "success" => ~errors
  BY DEF Outcome

\* An import's batch gets its outcome and the import is over.
LEMMA OverEffect ==
  ASSUME Typed, NEW b \in Imports, NEW errors \in BOOLEAN,
         Over(b), batch' = [batch EXCEPT ![b] = Outcome(work[b].skus # {}, errors)]
  PROVE  /\ Resets(b, "over")
         /\ batch' \in [Imports -> Status] /\ \A c \in Imports \ {b} : batch'[c] = batch[c]
         /\ batch'[b] \in {"success", "partial", "failed"}
         /\ batch'[b] = "failed" => work[b].skus = {} /\ errors
         /\ batch'[b] = "success" => ~errors
<1>1. Resets(b, "over")
  BY ImportsWork, ResetsTyped DEF Over, Typed, Point
<1> DEFINE o == Outcome(work[b].skus # {}, errors)
<1>2. /\ o \in {"success", "partial", "failed"}
      /\ o = "failed" => work[b].skus = {} /\ errors
      /\ o = "success" => ~errors
  BY OutcomeIs
<1>3. batch' = [batch EXCEPT ![b] = o]
  OBVIOUS
<1> HIDE DEF o
<1> QED
  BY <1>1, <1>2, <1>3 DEF Typed, BatchTyped, Status

LEMMA CountEffect ==
  ASSUME Typed, NEW b \in Imports, CountRows(b)
  PROVE  /\ work[b].pc = "count" /\ work' \in [Workers -> WorkType]
         /\ \A c \in Workers \ {b} : work'[c] = work[c]
         /\ work'[b].pc = "settle"
         /\ \A s \in Skus : s \in work'[b].skus <=> \E d \in Days : daily[s][d].by = b
         /\ UNCHANGED <<batch, req, tables, cutoff, faults, history>>
<1> DEFINE S == {s \in Skus : \E d \in Days : daily[s][d].by = b}
           w == [work[b] EXCEPT !.pc = "settle", !.skus = S]
<1>1. work[b] \in WorkType
  BY ImportsWork DEF Typed, WorkTyped
<1>2. S \in SUBSET Skus
  OBVIOUS
<1>3. work' = [work EXCEPT ![b] = w]
  BY DEF CountRows
<1>4. \A s \in Skus : s \in S <=> \E d \in Days : daily[s][d].by = b
  OBVIOUS
<1> HIDE DEF S
<1>5. w \in WorkType /\ w.pc = "settle" /\ w.skus = S
  BY <1>1, <1>2 DEF WorkType, Point
<1> HIDE DEF w
<1> QED
  BY <1>3, <1>4, <1>5, ImportsWork, SetTurns DEF Turns, CountRows, At, Typed

LEMMA PullEffect ==
  ASSUME Typed, PullDays
  PROVE  /\ work[Pull].pc = "off" /\ work' \in [Workers -> WorkType]
         /\ \A c \in Workers \ {Pull} : work'[c] = work[c]
         /\ work'[Pull].pc = "min" /\ ~work'[Pull].prune
         /\ daily' \in DailyType
         /\ \A s \in Skus, d \in Days : daily'[s][d] =
              IF d \in Sold[s] \cap Recent[s] THEN Merge(daily[s][d], None, 0) ELSE daily[s][d]
         /\ \A s \in Skus : s \in work'[Pull].skus <=> Sold[s] \cap Recent[s] # {}
         /\ overlap' = (overlap \/ AtWork # {})
         /\ UNCHANGED <<batch, req, monthly, cutoff, faults, broken, skipped>>
<1> DEFINE S == {s \in Skus : Sold[s] \cap Recent[s] # {}}
           w == [Idle EXCEPT !.pc = "min", !.skus = S]
<1>1. w \in WorkType /\ w.pc = "min" /\ w.skus = S /\ ~w.prune
  BY IdleTyped DEF Idle, WorkType, Point
<1>2. work' = [work EXCEPT ![Pull] = w]
  BY DEF PullDays
<1> HIDE DEF w
<1>3. Turns(Pull, w)
  BY <1>1, <1>2, OthersWork, SetTurns DEF Typed
<1>4. ASSUME NEW s \in Skus
      PROVE  /\ Written(daily[s], Sold[s] \cap Recent[s], None, 0) \in [Days -> RowType]
             /\ \A d \in Days : Written(daily[s], Sold[s] \cap Recent[s], None, 0)[d] =
                  IF d \in Sold[s] \cap Recent[s] THEN Merge(daily[s][d], None, 0) ELSE daily[s][d]
  <2>1. daily[s] \in [Days -> RowType]
    BY DEF Typed, DailyTyped, DailyType
  <2> DEFINE days == Sold[s] \cap Recent[s]
  <2> HIDE DEF days
  <2>2. /\ Written(daily[s], days, None, 0) \in [Days -> RowType]
        /\ \A d \in Days : Written(daily[s], days, None, 0)[d] =
                  IF d \in days THEN Merge(daily[s][d], None, 0) ELSE daily[s][d]
    <3>1. None \in Imports \cup {None} /\ 0 \in Nat
      OBVIOUS
    <3> DEFINE rows == daily[s]
    <3>2. rows \in [Days -> RowType]
      BY <2>1
    <3> HIDE DEF rows
    <3>3. /\ Written(rows, days, None, 0) \in [Days -> RowType]
          /\ \A d \in Days : Written(rows, days, None, 0)[d] =
               IF d \in days THEN Merge(rows[d], None, 0) ELSE rows[d]
      BY <3>1, <3>2, WrittenTyped
    <3> QED
      BY <3>3 DEF rows
  <2> QED
    BY <2>2 DEF days
<1>5. daily' = [s \in Skus |-> Written(daily[s], Sold[s] \cap Recent[s], None, 0)]
  BY DEF PullDays
<1>6. daily' \in DailyType
  BY <1>4, <1>5 DEF DailyType
<1>7. \A s \in Skus, d \in Days : daily'[s][d] =
        IF d \in Sold[s] \cap Recent[s] THEN Merge(daily[s][d], None, 0) ELSE daily[s][d]
  BY <1>4, <1>5
<1>8. \A s \in Skus : s \in work'[Pull].skus <=> Sold[s] \cap Recent[s] # {}
  BY <1>1, <1>3 DEF Turns
<1> QED
  BY <1>1, <1>3, <1>6, <1>7, <1>8 DEF Turns, PullDays, At, Starts

LEMMA SweepEffect ==
  ASSUME Typed, NEW prune \in BOOLEAN, StartSweep(prune)
  PROVE  /\ work[Sweep].pc = "off" /\ work' \in [Workers -> WorkType]
         /\ \A c \in Workers \ {Sweep} : work'[c] = work[c]
         /\ work'[Sweep].pc = "min" /\ work'[Sweep].skus = Skus
         /\ overlap' = (overlap \/ AtWork # {})
         /\ UNCHANGED <<batch, req, tables, cutoff, faults, broken, skipped>>
<1> DEFINE w == [Idle EXCEPT !.pc = "min", !.skus = Skus, !.prune = prune]
<1>1. w \in WorkType /\ w.pc = "min" /\ w.skus = Skus
  BY IdleTyped DEF WorkType, Point
<1>2. work' = [work EXCEPT ![Sweep] = w]
  BY DEF StartSweep
<1> HIDE DEF w
<1> QED
  BY <1>1, <1>2, OthersWork, SetTurns DEF Turns, StartSweep, At, Starts, Typed

LEMMA ThrowEffect ==
  ASSUME Typed, NEW w \in Workers, Throw(w)
  PROVE  /\ Resets(w, Caught(w)) /\ Busy(w)
         /\ Caught(w) \in {"off", "dead", "count", "settle"}
         /\ w \in Imports => Caught(w) # "off"
         /\ w \in Imports /\ Caught(w) = "settle" => ~req[w].async
         /\ broken' = TRUE /\ faults' \in 0..MaxFaults
         /\ UNCHANGED <<batch, req, tables, cutoff, overlap, skipped>>
<1>1. Caught(w) \in {"off", "dead", "count", "settle"} /\ Caught(w) \in Point
  BY DEF Caught, Point
<1>2. Resets(w, Caught(w))
  BY <1>1, ResetsTyped DEF Throw, Typed
<1>3. faults' \in 0..MaxFaults
  BY CalendarAssumption DEF Throw, Typed, CountsTyped
<1> QED
  BY <1>1, <1>2, <1>3, ImportsWork DEF Throw, Caught

LEMMA CrashEffect ==
  ASSUME Typed, Crash
  PROVE  /\ work' \in [Workers -> WorkType]
         /\ \A b \in Imports : work'[b] = work[b] \/ (Busy(b) /\ work'[b].pc = "dead")
         /\ work'[Pull].pc = "off" /\ work'[Sweep].pc = "off"
         /\ \A w \in Workers : ~(work'[w].pc \notin {"off", "over", "dead"})
         /\ broken' = TRUE /\ faults' \in 0..MaxFaults
         /\ UNCHANGED <<batch, req, tables, cutoff, overlap, skipped>>
<1> DEFINE x == [Idle EXCEPT !.pc = "dead"]
<1>1. x \in WorkType /\ x.pc = "dead"
  BY IdleTyped DEF WorkType, Point
<1>2. work' = [w \in Workers |-> IF w \in {Pull, Sweep} THEN Idle
                                 ELSE IF Busy(w) THEN x ELSE work[w]]
  BY DEF Crash
<1> HIDE DEF x
<1>3. \A w \in Workers : work'[w] \in WorkType
  BY <1>1, <1>2, IdleTyped DEF Typed, WorkTyped
<1>4. work' \in [Workers -> WorkType]
  BY <1>2, <1>3
<1>5. faults' \in 0..MaxFaults
  BY CalendarAssumption DEF Crash, Typed, CountsTyped
<1>6. \A b \in Imports : work'[b] = work[b] \/ (Busy(b) /\ work'[b].pc = "dead")
  BY <1>1, <1>2, ImportsWork
<1>7. work'[Pull].pc = "off" /\ work'[Sweep].pc = "off"
  BY <1>2, IdleTyped, OthersWork
<1>8. \A w \in Workers : work'[w].pc \in {"off", "over", "dead"}
  BY <1>1, <1>2, IdleTyped DEF Busy
<1> QED
  BY <1>4, <1>5, <1>6, <1>7, <1>8 DEF Crash

-----------------------------------------------------------------------------
(* Types are kept *)

\* A step after which all workers but b are where they were.
LEMMA PlacedKept ==
  ASSUME PlacedInv, NEW b \in Workers, \A c \in Workers \ {b} : work'[c] = work[c],
         \A c \in Imports \ {b} : req'[c] = req[c],
         b \in Imports => Placed(work'[b], req'[b])
  PROVE  PlacedInv'
  BY ImportsWork DEF PlacedInv

LEMMA TypedInit == Init => Typed
<1> SUFFICES ASSUME Init
             PROVE  Typed
  OBVIOUS
<1>1. WorkTyped
  BY IdleTyped DEF Init, WorkTyped
<1>2. NoFile \in FileType
  <2>1. <<>> \in Seq(Skus)
    OBVIOUS
  <2> QED
    BY <2>1 DEF NoFile, FileType
<1>3. ReqTyped /\ BatchTyped
  BY <1>2 DEF Init, ReqTyped, BatchTyped, Status
<1>4. DailyTyped /\ MonthlyTyped
  BY NoRowTyped DEF Init, DailyTyped, DailyType, MonthlyTyped, MonthlyType
<1>5. CountsTyped
  <2>1. cutoff \in Nat /\ faults \in 0..MaxFaults
    BY CalendarAssumption DEF Init
  <2>2. overlap \in BOOLEAN /\ broken \in BOOLEAN /\ skipped \subseteq Skus \X Months
    BY DEF Init
  <2> QED
    BY <2>1, <2>2 DEF CountsTyped
<1>6. PlacedInv
  <2>1. \A b \in Imports : work[b] = Idle
    BY ImportsWork DEF Init
  <2> QED
    BY <2>1, IdleTyped DEF PlacedInv, Placed
<1> QED
  BY <1>1, <1>3, <1>4, <1>5, <1>6 DEF Typed

LEMMA TypedNext == Typed /\ [Next]_vars => Typed'
<1> SUFFICES ASSUME Typed, [Next]_vars
             PROVE  Typed'
  OBVIOUS
<1> USE DEF tables, history
<1>1. ASSUME NEW b \in Imports, NEW f \in Files, NEW async \in BOOLEAN, Request(b, f, async)
      PROVE  Typed'
  <2>1. /\ OnlyGoes(b, "abandon") /\ work[b].pc = "off"
        /\ req' \in [Imports -> FileType] /\ \A c \in Imports \ {b} : req'[c] = req[c]
        /\ Len(req'[b].rows) >= 1
        /\ overlap' = (overlap \/ AtWork # {})
        /\ UNCHANGED <<batch, daily, monthly, cutoff, faults, broken, skipped>>
    BY <1>1, RequestEffect
  <2>2. work'[b].part = 1
    BY <2>1, ImportsWork DEF OnlyGoes, Typed, PlacedInv, Placed
  <2>3. PlacedInv'
    BY <2>1, <2>2, ImportsWork, PlacedKept DEF OnlyGoes, Placed, Typed
  <2> QED
    BY <2>1, <2>3 DEF Typed, WorkTyped, BatchTyped, ReqTyped, DailyTyped, MonthlyTyped,
       CountsTyped, OnlyGoes
<1>2. ASSUME NEW b \in Imports, AbandonStale(b) \/ InsertBatch(b) \/ SaveFile(b)
      PROVE  Typed'
  <2>1. /\ work[b].pc \in {"abandon", "insert", "save"}
        /\ OnlyGoes(b, "insert") \/ OnlyGoes(b, "save") \/ OnlyGoes(b, "write")
        /\ UNCHANGED <<req, daily, monthly, cutoff, faults, overlap, broken, skipped>>
    BY <1>2, ImportsWork, GoesTyped DEF AbandonStale, InsertBatch, SaveFile, At, Point, Typed
  <2>2. batch' \in [Imports -> Status]
    BY <1>2 DEF AbandonStale, InsertBatch, SaveFile, Typed, BatchTyped, Status
  <2>3. Placed(work[b], req[b]) /\ req[b] \in FileType
    BY DEF Typed, PlacedInv, ReqTyped
  <2>4. Len(req[b].rows) \in Nat
    BY <2>3 DEF FileType
  <2>5. PlacedInv'
    BY <2>1, <2>3, <2>4, ImportsWork, PlacedKept DEF OnlyGoes, Placed, Typed
  <2> QED
    BY <2>1, <2>2, <2>5 DEF Typed, WorkTyped, BatchTyped, ReqTyped, DailyTyped, MonthlyTyped,
       CountsTyped, OnlyGoes
<1>3. ASSUME NEW b \in Imports, WriteRow(b)
      PROVE  Typed'
  <2>1. /\ work[b].part \in 1..Len(req[b].rows) /\ daily' \in DailyType
        /\ work' \in [Workers -> WorkType] /\ \A c \in Workers \ {b} : work'[c] = work[c]
        /\ work'[b].part = work[b].part + 1 /\ work'[b].prune
        /\ \/ work'[b].pc = "write" /\ work[b].part < Len(req[b].rows)
           \/ work'[b].pc \in {"min", "finish"}
        /\ UNCHANGED <<batch, req, monthly, cutoff, faults, overlap, broken, skipped>>
    BY <1>3, WriteEffect
  <2>2. req[b] \in FileType
    BY DEF Typed, ReqTyped
  <2>3. Len(req[b].rows) \in Nat
    BY <2>2 DEF FileType
  <2>4. PlacedInv'
    BY <2>1, <2>3, ImportsWork, PlacedKept DEF Placed, Typed
  <2> QED
    BY <2>1, <2>4 DEF Typed, WorkTyped, BatchTyped, ReqTyped, DailyTyped, MonthlyTyped,
       CountsTyped
<1>4. ASSUME NEW b \in Imports, NEW errors \in BOOLEAN, Finish(b, errors) \/ SettleFailed(b)
      PROVE  Typed'
  <2>1. /\ Resets(b, "over") /\ batch' \in [Imports -> Status]
        /\ UNCHANGED <<req, daily, monthly, cutoff, faults, overlap, broken, skipped>>
    BY <1>4, OverEffect DEF Finish, SettleFailed
  <2>2. PlacedInv'
    BY <2>1, ImportsWork, PlacedKept DEF Placed, Typed, Resets
  <2> QED
    BY <2>1, <2>2 DEF Typed, WorkTyped, BatchTyped, ReqTyped, DailyTyped, MonthlyTyped,
       CountsTyped, Resets
<1>5. ASSUME NEW b \in Imports, CountRows(b)
      PROVE  Typed'
  <2>1. /\ work' \in [Workers -> WorkType] /\ \A c \in Workers \ {b} : work'[c] = work[c]
        /\ work'[b].pc = "settle"
        /\ UNCHANGED <<batch, req, daily, monthly, cutoff, faults, overlap, broken, skipped>>
    BY <1>5, CountEffect
  <2>2. PlacedInv'
    BY <2>1, ImportsWork, PlacedKept DEF Placed, Typed
  <2> QED
    BY <2>1, <2>2 DEF Typed, WorkTyped, BatchTyped, ReqTyped, DailyTyped, MonthlyTyped,
       CountsTyped
<1>6. ASSUME NEW w \in Workers, ReadOldest(w) \/ UpsertMonths(w)
      PROVE  Typed'
  <2>1. /\ work' \in [Workers -> WorkType] /\ \A c \in Workers \ {w} : work'[c] = work[c]
        /\ work[w].pc \in {"min", "upsert"}
        /\ \/ work'[w].pc = "upsert" /\ work'[w].prune = work[w].prune
           \/ work'[w].pc = "prune"
           \/ work'[w].pc = "off" /\ ~work[w].prune
        /\ monthly' \in MonthlyType /\ skipped' \subseteq Skus \X Months
        /\ UNCHANGED <<batch, req, daily, cutoff, faults, overlap, broken>>
    BY <1>6, OldestEffect, UpsertEffect DEF Typed, MonthlyTyped, CountsTyped
  <2>2. PlacedInv'
    BY <2>1, ImportsWork, PlacedKept DEF Placed, PlacedInv, Typed
  <2> QED
    BY <2>1, <2>2 DEF Typed, WorkTyped, BatchTyped, ReqTyped, DailyTyped, MonthlyTyped,
       CountsTyped
<1>7. ASSUME NEW w \in Workers, Prune(w)
      PROVE  Typed'
  <2>1. /\ work' \in [Workers -> WorkType] /\ \A c \in Workers \ {w} : work'[c] = work[c]
        /\ work'[w].pc = "finish" \/ w = Sweep
        /\ daily' \in DailyType
        /\ UNCHANGED <<batch, req, monthly, cutoff, faults, overlap, broken, skipped>>
    BY <1>7, PruneEffect
  <2>2. PlacedInv'
    BY <2>1, ImportsWork, PlacedKept DEF Placed, Typed
  <2> QED
    BY <2>1, <2>2 DEF Typed, WorkTyped, BatchTyped, ReqTyped, DailyTyped, MonthlyTyped,
       CountsTyped
<1>8. CASE PullDays
  <2>1. /\ work' \in [Workers -> WorkType] /\ \A c \in Workers \ {Pull} : work'[c] = work[c]
        /\ daily' \in DailyType /\ overlap' \in BOOLEAN
        /\ UNCHANGED <<batch, req, monthly, cutoff, faults, broken, skipped>>
    BY <1>8, PullEffect DEF Typed, CountsTyped
  <2>2. PlacedInv'
    BY <2>1, ImportsWork, OthersWork, PlacedKept, NamesAssumption DEF Typed
  <2> QED
    BY <2>1, <2>2 DEF Typed, WorkTyped, BatchTyped, ReqTyped, DailyTyped, MonthlyTyped,
       CountsTyped
<1>9. ASSUME NEW prune \in BOOLEAN, StartSweep(prune)
      PROVE  Typed'
  <2>1. /\ work' \in [Workers -> WorkType] /\ \A c \in Workers \ {Sweep} : work'[c] = work[c]
        /\ overlap' \in BOOLEAN
        /\ UNCHANGED <<batch, req, daily, monthly, cutoff, faults, broken, skipped>>
    BY <1>9, SweepEffect DEF Typed, CountsTyped
  <2>2. PlacedInv'
    BY <2>1, ImportsWork, OthersWork, PlacedKept, NamesAssumption DEF Typed
  <2> QED
    BY <2>1, <2>2 DEF Typed, WorkTyped, BatchTyped, ReqTyped, DailyTyped, MonthlyTyped,
       CountsTyped
<1>10. CASE NextDay \/ UNCHANGED vars
  BY <1>10 DEF NextDay, vars, Typed, WorkTyped, BatchTyped, ReqTyped, DailyTyped, MonthlyTyped,
     CountsTyped, PlacedInv
<1>11. ASSUME NEW w \in Workers, Throw(w)
      PROVE  Typed'
  <2>1. /\ Resets(w, Caught(w)) /\ Caught(w) \in {"off", "dead", "count", "settle"}
        /\ w \in Imports => Caught(w) # "off"
        /\ broken' \in BOOLEAN /\ faults' \in 0..MaxFaults
        /\ UNCHANGED <<batch, req, daily, monthly, cutoff, overlap, skipped>>
    BY <1>11, ThrowEffect
  <2>2. PlacedInv'
    BY <2>1, ImportsWork, PlacedKept DEF Placed, Typed, Resets
  <2> QED
    BY <2>1, <2>2 DEF Typed, WorkTyped, BatchTyped, ReqTyped, DailyTyped, MonthlyTyped,
       CountsTyped, Resets
<1>12. CASE Crash
  <2>1. /\ work' \in [Workers -> WorkType]
        /\ \A b \in Imports : work'[b] = work[b] \/ work'[b].pc = "dead"
        /\ broken' \in BOOLEAN /\ faults' \in 0..MaxFaults
        /\ UNCHANGED <<batch, req, daily, monthly, cutoff, overlap, skipped>>
    BY <1>12, CrashEffect
  <2>2. PlacedInv'
    BY <2>1 DEF Typed, PlacedInv, Placed
  <2> QED
    BY <2>1, <2>2 DEF Typed, WorkTyped, BatchTyped, ReqTyped, DailyTyped, MonthlyTyped,
       CountsTyped
<1> QED
  BY <1>1, <1>2, <1>3, <1>4, <1>5, <1>6, <1>7, <1>8, <1>9, <1>10, <1>11, <1>12
     DEF Next, ImportStep, WorkStep

LEMMA TypedHolds == Spec => []Typed
  BY TypedInit, TypedNext, PTL DEF Spec

\* Days are only ever added to those that pulls have brought back.
LEMMA RevivedNext ==
  Typed /\ [Next]_vars => /\ revived \subseteq revived'
                          /\ RevivedTyped => RevivedTyped'
<1> SUFFICES ASSUME Typed, [Next]_vars
             PROVE  revived \subseteq revived' /\ (RevivedTyped => RevivedTyped')
  OBVIOUS
<1>1. CASE PullDays
  <2>1. \A s \in Skus : Sold[s] \cap Recent[s] \subseteq Days
    BY SalesAssumption
  <2>2. \/ revived' = revived
        \/ revived' = revived \cup {d \in 1..(cutoff - 1) :
             \E s \in {t \in Skus : Sold[t] \cap Recent[t] # {}} : d \in Sold[s] \cap Recent[s]}
    BY <1>1, Zenon DEF PullDays
  <2> QED
    BY <2>1, <2>2 DEF RevivedTyped
<1>2. CASE revived' = revived
  BY <1>2 DEF RevivedTyped
<1> QED
  BY <1>1, <1>2 DEF Next, ImportStep, WorkStep, Request, AbandonStale, InsertBatch, SaveFile,
     WriteRow, Finish, CountRows, SettleFailed, ReadOldest, UpsertMonths, Prune, Throw,
     StartSweep, NextDay, Crash, vars, history

LEMMA RevivedHolds == Spec => []RevivedTyped
<1>1. Init => RevivedTyped
  BY DEF Init, RevivedTyped
<1> QED
  BY <1>1, TypedHolds, RevivedNext, PTL DEF Spec

\* Every variable keeps the type its table or process variable has.
THEOREM TypeCorrect == Spec => []TypeOK
  BY TypedHolds, RevivedHolds, TypeParts, PTL

-----------------------------------------------------------------------------
(* Batches: what workers that do not overlap leave to each other *)

SoloInv == ~overlap => \A w, x \in Workers : Busy(w) /\ Busy(x) => w = x

PendInv ==
  ~overlap => /\ \A b, c \in Imports : batch[b] = "pending" /\ batch[c] = "pending" => b = c
              /\ \A b, c \in Imports : work[b].pc = "insert" => batch[c] # "pending"

\* Steps that leave the batches alone and bring nobody to the INSERT.
LEMMA PendKept ==
  ASSUME PendInv, UNCHANGED batch, ~overlap' => ~overlap,
         \A b \in Imports : work'[b].pc = "insert" => work[b].pc = "insert"
  PROVE  PendInv'
  BY DEF PendInv

\* A worker that was at work moves, or one starts while nobody is.
LEMMA SoloKept ==
  ASSUME SoloInv, NEW b \in Workers, \A c \in Workers \ {b} : work'[c] = work[c],
         ~overlap' => ~overlap /\ (Busy(b) \/ AtWork = {})
  PROVE  SoloInv'
<1>1. SUFFICES ASSUME ~overlap', NEW w \in Workers, NEW x \in Workers, Busy(w)', Busy(x)'
               PROVE  w = x
  BY DEF SoloInv
<1>2. ~overlap /\ (Busy(b) \/ AtWork = {})
  BY <1>1
<1>3. \A c \in Workers \ {b} : Busy(c)' => Busy(c)
  BY DEF Busy
<1>4. CASE Busy(b)
  BY <1>1, <1>2, <1>3, <1>4 DEF SoloInv
<1>5. CASE AtWork = {}
  BY <1>1, <1>3, <1>5 DEF AtWork
<1> QED
  BY <1>2, <1>4, <1>5

Solo == SoloInv /\ PendInv

LEMMA SoloNext == Typed /\ Solo /\ [Next]_vars => Solo'
<1> SUFFICES ASSUME Typed, SoloInv, PendInv, [Next]_vars
             PROVE  SoloInv' /\ PendInv'
  BY DEF Solo
<1> USE DEF tables, history
<1>1. ASSUME NEW b \in Imports, NEW f \in Files, NEW async \in BOOLEAN, Request(b, f, async)
      PROVE  SoloInv' /\ PendInv'
  <2>1. /\ OnlyGoes(b, "abandon") /\ overlap' = (overlap \/ AtWork # {}) /\ batch' = batch
    BY <1>1, RequestEffect
  <2> QED
    BY <2>1, ImportsWork, SoloKept, PendKept DEF OnlyGoes
<1>2. ASSUME NEW b \in Imports, AbandonStale(b)
      PROVE  SoloInv' /\ PendInv'
  <2>1. /\ OnlyGoes(b, "insert") /\ work[b].pc = "abandon" /\ overlap' = overlap
        /\ \A c \in Imports : batch'[c] # "pending"
    BY <1>2, ImportsWork, GoesTyped DEF AbandonStale, At, Point, Typed
  <2> QED
    BY <2>1, ImportsWork, SoloKept DEF OnlyGoes, PendInv, Busy
<1>3. ASSUME NEW b \in Imports, InsertBatch(b)
      PROVE  SoloInv' /\ PendInv'
  <2>1. /\ work[b].pc = "insert" /\ overlap' = overlap
        /\ OnlyGoes(b, "save") \/ OnlyGoes(b, "write")
        /\ \A c \in Imports \ {b} : batch'[c] = batch[c]
    BY <1>3, ImportsWork, GoesTyped DEF InsertBatch, At, Point, Typed, BatchTyped
  <2>2. SoloInv'
    BY <2>1, ImportsWork, SoloKept DEF OnlyGoes, Busy
  <2>3. SUFFICES ASSUME ~overlap
                 PROVE  /\ \A c, d \in Imports : batch'[c] = "pending" /\ batch'[d] = "pending"
                                                 => c = d
                        /\ \A c \in Imports : work'[c].pc # "insert"
    BY <2>1, <2>2 DEF PendInv
  <2>4. \A c \in Imports : batch[c] # "pending"
    BY <2>1, <2>3 DEF PendInv
  <2>5. \A c \in Imports \ {b} : work[c].pc # "insert"
    BY <2>1, <2>3, ImportsWork DEF SoloInv, Busy
  <2> QED
    BY <2>1, <2>4, <2>5, ImportsWork DEF OnlyGoes
<1>4. ASSUME NEW b \in Imports, SaveFile(b)
      PROVE  SoloInv' /\ PendInv'
  <2>1. /\ OnlyGoes(b, "write") /\ work[b].pc = "save" /\ overlap' = overlap /\ batch' = batch
    BY <1>4, ImportsWork, GoesTyped DEF SaveFile, At, Point, Typed
  <2> QED
    BY <2>1, ImportsWork, SoloKept, PendKept DEF OnlyGoes, Busy
<1>5. ASSUME NEW b \in Imports, WriteRow(b) \/ CountRows(b)
      PROVE  SoloInv' /\ PendInv'
  <2>1. /\ work[b].pc \in {"write", "count"} /\ overlap' = overlap /\ batch' = batch
        /\ work'[b].pc \in {"write", "min", "finish", "settle"}
        /\ \A c \in Workers \ {b} : work'[c] = work[c]
    BY <1>5, WriteEffect, CountEffect
  <2> QED
    BY <2>1, ImportsWork, SoloKept, PendKept DEF Busy
<1>6. ASSUME NEW b \in Imports, NEW errors \in BOOLEAN, Finish(b, errors) \/ SettleFailed(b)
      PROVE  SoloInv' /\ PendInv'
  <2>1. /\ work[b].pc \in {"finish", "settle"} /\ overlap' = overlap
        /\ Resets(b, "over") /\ batch'[b] # "pending"
        /\ \A c \in Imports \ {b} : batch'[c] = batch[c]
    BY <1>6, OverEffect DEF Finish, SettleFailed, At
  <2>2. SoloInv'
    BY <2>1, ImportsWork, SoloKept DEF Resets, Busy
  <2>3. PendInv'
    BY <2>1, ImportsWork DEF Resets, PendInv
  <2> QED
    BY <2>2, <2>3
<1>7. ASSUME NEW w \in Workers, WorkStep(w)
      PROVE  SoloInv' /\ PendInv'
  <2>1. /\ work[w].pc \in {"min", "upsert", "prune"} /\ overlap' = overlap /\ batch' = batch
        /\ work'[w].pc \in {"upsert", "prune", "off", "finish"}
        /\ \A c \in Workers \ {w} : work'[c] = work[c]
    BY <1>7, OldestEffect, UpsertEffect, PruneEffect DEF WorkStep
  <2> QED
    BY <2>1, ImportsWork, SoloKept, PendKept DEF Busy
<1>8. CASE PullDays
  <2>1. /\ overlap' = (overlap \/ AtWork # {}) /\ batch' = batch /\ work'[Pull].pc = "min"
        /\ \A c \in Workers \ {Pull} : work'[c] = work[c]
    BY <1>8, PullEffect
  <2> QED
    BY <2>1, ImportsWork, OthersWork, SoloKept, PendKept
<1>9. ASSUME NEW prune \in BOOLEAN, StartSweep(prune)
      PROVE  SoloInv' /\ PendInv'
  <2>1. /\ overlap' = (overlap \/ AtWork # {}) /\ batch' = batch /\ work'[Sweep].pc = "min"
        /\ \A c \in Workers \ {Sweep} : work'[c] = work[c]
    BY <1>9, SweepEffect
  <2> QED
    BY <2>1, ImportsWork, OthersWork, SoloKept, PendKept
<1>10. CASE NextDay \/ UNCHANGED vars
  BY <1>10 DEF NextDay, vars, SoloInv, PendInv, Busy
<1>11. ASSUME NEW w \in Workers, Throw(w)
      PROVE  SoloInv' /\ PendInv'
  <2>1. /\ Resets(w, Caught(w)) /\ Caught(w) \in {"off", "dead", "count", "settle"} /\ Busy(w)
        /\ overlap' = overlap /\ batch' = batch
    BY <1>11, ThrowEffect
  <2> QED
    BY <2>1, ImportsWork, SoloKept, PendKept DEF Resets
<1>12. CASE Crash
  <2>1. /\ \A b \in Imports : work'[b] = work[b] \/ work'[b].pc = "dead"
        /\ \A w \in Workers : ~(work'[w].pc \notin {"off", "over", "dead"})
        /\ overlap' = overlap /\ batch' = batch
    BY <1>12, CrashEffect
  <2> QED
    BY <2>1, PendKept DEF SoloInv, Busy
<1> QED
  BY <1>1, <1>2, <1>3, <1>4, <1>5, <1>6, <1>7, <1>8, <1>9, <1>10, <1>11, <1>12
     DEF Next, ImportStep

LEMMA SoloHolds == Spec => [](Typed /\ Solo)
<1>1. Init => Solo
  <2>1. ASSUME Init
        PROVE  \A w \in Workers : work[w] = Idle
    BY <2>1 DEF Init
  <2> QED
    BY <2>1, IdleTyped, ImportsWork DEF Init, Solo, SoloInv, PendInv, Busy
<1> QED
  BY <1>1, TypedInit, TypedNext, SoloNext, PTL DEF Spec

\* Imports that do not overlap leave at most one batch pending, also after restarts
\* (abandonStalePendingBatches in createImportBatch).
THEOREM OnePendingHolds == Spec => []OnePending
<1>1. Solo => OnePending
  BY DEF Solo, PendInv, OnePending
<1> QED
  BY <1>1, SoloHolds, PTL

-----------------------------------------------------------------------------
(* Rows: which import they are of, and which parts of its file they add up *)

OwnedBy(b, D) == {s \in Skus : \E d \in Days : D[s][d].by = b}

\* A worker w of import b with file q and batch status st knows the SKUs b has rows of.
OwnFit(b, w, q, st, D) ==
  /\ w.pc \in {"off", "abandon", "insert", "save"} => OwnedBy(b, D) = {}
  /\ \/ w.pc \in {"write", "min", "upsert", "prune", "finish"}
     \/ w.pc = "settle" /\ q.async
     => OwnedBy(b, D) \subseteq w.skus
  /\ w.pc = "over" => st # "pending" /\ (q.async /\ st = "failed" => OwnedBy(b, D) = {})

OwnInv == \A b \in Imports : OwnFit(b, work[b], req[b], batch[b], daily)

\* The rows of the first n parts of a file that are of SKU s.
PartsOf(q, s, n) == {i \in 1..n : q.rows[i] = s}

\* Alone, the rows of b add up what the file has of their SKU as far as it is read.
PartsFit(b, w, q, st, D) ==
  /\ w.pc = "write" =>
       /\ \A s \in Skus, d \in Days : D[s][d].by = b =>
            D[s][d].parts = PartsOf(q, s, w.part - 1) /\ d \in Sold[s] /\ d >= q.from
       /\ \A i \in 1..(w.part - 1) : \A d \in Sold[q.rows[i]] :
            d >= q.from => D[q.rows[i]][d].by = b
  /\ w.pc \in {"min", "upsert", "prune", "finish"} \/ (w.pc = "over" /\ st = "success") =>
       \A s \in Skus, d \in Days : D[s][d].by = b => D[s][d].parts = PartsOf(q, s, Len(q.rows))

PartsInv == ~overlap => \A b \in Imports : PartsFit(b, work[b], req[b], batch[b], daily)

\* A row somebody wrote adds up something.
SomeParts == \A s \in Skus, d \in Days : daily[s][d].by # None => daily[s][d].parts # {}

\* A row of b is as it was.
Mine(b) == \A s \in Skus, d \in Days : daily'[s][d].by = b => daily'[s][d] = daily[s][d]

RowsInv == OwnInv /\ PartsInv /\ SomeParts

LEMMA MineOwned ==
  ASSUME NEW b, Mine(b)
  PROVE  OwnedBy(b, daily') \subseteq OwnedBy(b, daily)
  BY DEF Mine, OwnedBy

\* The imports that do not move keep what they know.
LEMMA OthersKeep ==
  ASSUME OwnInv, PartsInv, NEW b \in Workers, \A c \in Workers \ {b} : work'[c] = work[c],
         \A c \in Imports \ {b} : Mine(c) /\ req'[c] = req[c],
         \A c \in Imports \ {b} : \/ batch'[c] = batch[c]
                                  \/ batch[c] = "pending" /\ batch'[c] = "failed",
         ~overlap' => ~overlap,
         \/ daily' = daily
         \/ ~overlap' => \A c \in Imports \ {b} : ~Busy(c),
         b \in Imports => OwnFit(b, work'[b], req'[b], batch'[b], daily'),
         b \in Imports /\ ~overlap' => PartsFit(b, work'[b], req'[b], batch'[b], daily')
  PROVE  OwnInv' /\ PartsInv'
<1>1. ASSUME NEW c \in Imports
      PROVE  OwnFit(c, work'[c], req'[c], batch'[c], daily')
  <2>1. CASE c = b
    BY <2>1
  <2>2. CASE c # b
    <3>1. OwnFit(c, work[c], req[c], batch[c], daily) /\ work'[c] = work[c] /\ req'[c] = req[c]
      BY <2>2, ImportsWork DEF OwnInv
    <3>2. OwnedBy(c, daily') \subseteq OwnedBy(c, daily)
      BY <2>2, MineOwned
    <3> QED
      BY <2>2, <3>1, <3>2 DEF OwnFit
  <2> QED
    BY <2>1, <2>2
<1>2. ASSUME ~overlap', NEW c \in Imports
      PROVE  PartsFit(c, work'[c], req'[c], batch'[c], daily')
  <2>1. CASE c = b
    BY <1>2, <2>1
  <2>2. CASE c # b
    <3>1. PartsFit(c, work[c], req[c], batch[c], daily) /\ work'[c] = work[c] /\ req'[c] = req[c]
      BY <1>2, <2>2, ImportsWork DEF PartsInv
    <3>2. batch'[c] = "success" => batch[c] = "success"
      BY <2>2
    <3>3. Mine(c)
      BY <2>2
    <3>4. CASE daily' = daily
      BY <3>1, <3>2, <3>4 DEF PartsFit
    <3>5. CASE work[c].pc \in {"off", "over", "dead"}
      BY <3>1, <3>2, <3>3, <3>5 DEF PartsFit, Mine
    <3> QED
      BY <1>2, <2>2, <3>4, <3>5 DEF Busy
  <2> QED
    BY <2>1, <2>2
<1> QED
  BY <1>1, <1>2 DEF OwnInv, PartsInv

\* What one part of a file leaves in its SKU's row of a day.
LEMMA PartWritten ==
  ASSUME Typed, RowsInv, NEW b \in Imports, WriteRow(b)
  PROVE  /\ \A c \in Imports \ {b} : Mine(c)
         /\ OwnFit(b, work'[b], req'[b], batch'[b], daily')
         /\ ~overlap => PartsFit(b, work'[b], req'[b], batch'[b], daily')
         /\ SomeParts'
<1> DEFINE i == work[b].part
           s == req[b].rows[i]
           days == {d \in Sold[s] : d >= req[b].from}
           n == Len(req[b].rows)
<1>1. /\ s \in Skus /\ work[b].pc = "write" /\ i \in 1..n
      /\ daily' \in DailyType
      /\ \A t \in Skus \ {s} : daily'[t] = daily[t]
      /\ \A d \in Days : daily'[s][d] =
           IF d \in days THEN Merge(daily[s][d], b, i) ELSE daily[s][d]
      /\ work'[b].part = i + 1
      /\ work'[b].skus = IF days = {} THEN work[b].skus ELSE work[b].skus \cup {s}
      /\ \/ work'[b].pc = "write" /\ i < n
         \/ /\ work'[b].pc \in {"min", "finish"} /\ i = n
            /\ work'[b].pc = "finish" => work'[b].skus = {}
      /\ UNCHANGED <<batch, req>>
  BY WriteEffect DEF history
<1>2. req[b] \in FileType /\ daily \in DailyType /\ b # None
  BY ImportsWork DEF Typed, ReqTyped, DailyTyped
<1>3. n \in Nat /\ i \in Nat /\ i <= n /\ i >= 1
  <2>1. n \in Nat
    BY <1>2 DEF FileType
  <2>2. i \in 1..n
    BY <1>1
  <2> HIDE DEF n, i
  <2> QED
    BY <2>1, <2>2
<1>4. ASSUME NEW t \in Skus, NEW d \in Days
      PROVE  /\ t # s \/ d \notin days => daily'[t][d] = daily[t][d]
             /\ t = s /\ d \in days =>
                  /\ daily'[t][d].by = b /\ daily'[t][d].parts # {}
                  /\ daily[t][d].by = b /\ daily[t][d].parts # {} =>
                       daily'[t][d].parts = daily[t][d].parts \cup {i}
                  /\ ~(daily[t][d].by = b /\ daily[t][d].parts # {}) =>
                       daily'[t][d].parts = {i}
  <2>1. daily[t][d] \in RowType /\ b \in Imports \cup {None}
    BY <1>2 DEF DailyType
  <2> HIDE DEF days, s, i
  <2>2. CASE t # s \/ d \notin days
    BY <1>1, <2>2
  <2>3. CASE t = s /\ d \in days
    BY <1>1, <1>2, <1>3, <2>1, <2>3, MergeTyped
  <2> QED
    BY <2>2, <2>3
<1>5. SomeParts'
  BY <1>4 DEF SomeParts, RowsInv
<1>6. ASSUME NEW c \in Imports \ {b}
      PROVE  Mine(c)
  BY <1>4 DEF Mine
<1>7. OwnFit(b, work'[b], req'[b], batch'[b], daily')
  <2>1. OwnedBy(b, daily) \subseteq work[b].skus
    BY <1>1 DEF RowsInv, OwnInv, OwnFit
  <2>2. OwnedBy(b, daily') \subseteq work'[b].skus
    <3>1. SUFFICES ASSUME NEW t \in Skus, NEW d \in Days, daily'[t][d].by = b
                   PROVE  t \in work'[b].skus
      BY DEF OwnedBy
    <3>2. CASE t = s /\ d \in days
      BY <1>1, <3>2
    <3>3. CASE t # s \/ d \notin days
      <4>1. t \in work[b].skus
        BY <1>4, <2>1, <3>1, <3>3 DEF OwnedBy
      <4> QED
        BY <1>1, <4>1
    <3> QED
      BY <3>2, <3>3
  <2> QED
    BY <1>1, <2>2 DEF OwnFit
<1>8. ASSUME ~overlap
      PROVE  PartsFit(b, work'[b], req'[b], batch'[b], daily')
  <2>1. /\ \A t \in Skus, d \in Days : daily[t][d].by = b =>
             /\ daily[t][d].parts = PartsOf(req[b], t, i - 1)
             /\ d \in Sold[t] /\ d >= req[b].from
        /\ \A j \in 1..(i - 1) : \A d \in Sold[req[b].rows[j]] :
             d >= req[b].from => daily[req[b].rows[j]][d].by = b
    BY <1>1, <1>8 DEF RowsInv, PartsInv, PartsFit
  <2>2. ASSUME NEW t \in Skus, NEW d \in Days, daily'[t][d].by = b
        PROVE  /\ daily'[t][d].parts = PartsOf(req[b], t, i)
               /\ d \in Sold[t] /\ d >= req[b].from
    <3>1. t = s => PartsOf(req[b], t, i) = PartsOf(req[b], t, i - 1) \cup {i}
      BY <1>3 DEF PartsOf
    <3>2. t # s => PartsOf(req[b], t, i) = PartsOf(req[b], t, i - 1)
      BY <1>3 DEF PartsOf
    <3>3. CASE t # s
      BY <1>4, <2>1, <2>2, <3>2, <3>3
    <3>4. CASE t = s /\ d \notin days
      BY <1>4, <2>1, <2>2, <3>4
    <3>5. CASE t = s /\ d \in days
      <4>1. CASE daily[t][d].by = b
        <5>1. daily[t][d].parts = PartsOf(req[b], t, i - 1) /\ daily[t][d].parts # {}
          BY <1>2, <2>1, <4>1 DEF RowsInv, SomeParts
        <5> QED
          BY <1>4, <3>1, <3>5, <4>1, <5>1
      <4>2. CASE daily[t][d].by # b
        <5>1. PartsOf(req[b], t, i - 1) = {}
          <6>1. SUFFICES ASSUME NEW j \in 1..(i - 1), req[b].rows[j] = t
                         PROVE  FALSE
            BY DEF PartsOf
          <6>2. d \in Sold[t] /\ d >= req[b].from
            BY <3>5
          <6> QED
            BY <2>1, <4>2, <6>1, <6>2
        <5> QED
          BY <1>4, <3>1, <3>5, <4>2, <5>1
      <4> QED
        BY <4>1, <4>2
    <3> QED
      BY <3>3, <3>4, <3>5
  <2>3. ASSUME NEW j \in 1..i, NEW d \in Sold[req[b].rows[j]], d >= req[b].from
        PROVE  daily'[req[b].rows[j]][d].by = b
    <3> DEFINE t == req[b].rows[j]
    <3>1. t \in Skus
      <4>1. j \in 1..Len(req[b].rows)
        BY <1>3
      <4> QED
        BY <1>2, <4>1 DEF FileType
    <3>2. d \in Days
      BY <3>1, SalesAssumption
    <3>3. CASE t = s
      <4>1. d \in days
        BY <2>3, <3>3
      <4> QED
        BY <1>4, <3>1, <3>2, <3>3, <4>1
    <3>4. CASE t # s
      <4>1. j # i
        BY <3>4
      <4>2. j \in 1..(i - 1)
        BY <1>3, <4>1
      <4>3. daily[t][d].by = b
        BY <2>1, <2>3, <4>2
      <4> QED
        BY <1>4, <3>1, <3>2, <3>4, <4>3
    <3> QED
      BY <3>3, <3>4
  <2>4. work'[b].part - 1 = i
    <3>1. work'[b].part = i + 1
      BY <1>1
    <3> HIDE DEF i
    <3> QED
      BY <1>3, <3>1
  <2>5. CASE work'[b].pc = "write"
    <3>1. req'[b] = req[b]
      BY <1>1
    <3>2. /\ \A t \in Skus, d \in Days : daily'[t][d].by = b =>
               /\ daily'[t][d].parts = PartsOf(req'[b], t, work'[b].part - 1)
               /\ d \in Sold[t] /\ d >= req'[b].from
          /\ \A j \in 1..(work'[b].part - 1) : \A d \in Sold[req'[b].rows[j]] :
               d >= req'[b].from => daily'[req'[b].rows[j]][d].by = b
      <4> HIDE DEF i
      <4> QED
        BY <2>2, <2>3, <2>4, <3>1
    <3> HIDE DEF i, n
    <3> QED
      BY <2>5, <3>2 DEF PartsFit
  <2>6. CASE work'[b].pc \in {"min", "finish"} /\ i = n
    BY <1>1, <2>2, <2>6 DEF PartsFit
  <2> QED
    BY <1>1, <2>5, <2>6
<1> QED
  BY <1>5, <1>6, <1>7, <1>8

LEMMA RowsInit == Init => RowsInv
<1> SUFFICES ASSUME Init
             PROVE  RowsInv
  OBVIOUS
<1>1. \A s \in Skus, d \in Days : daily[s][d] = NoRow
  BY DEF Init
<1>2. \A b \in Imports : work[b] = Idle
  BY ImportsWork DEF Init
<1>3. \A b \in Imports : OwnedBy(b, daily) = {}
  BY <1>1, NoRowTyped, ImportsWork DEF OwnedBy
<1> QED
  BY <1>1, <1>2, <1>3, IdleTyped, NoRowTyped DEF RowsInv, OwnInv, OwnFit, PartsInv, PartsFit,
     SomeParts

LEMMA RowsNext == Typed /\ Solo /\ RowsInv /\ [Next]_vars => RowsInv'
<1> SUFFICES ASSUME Typed, Solo, RowsInv, [Next]_vars
             PROVE  OwnInv' /\ PartsInv' /\ SomeParts'
  BY DEF RowsInv
<1> USE DEF tables, history
<1>a. OwnInv /\ PartsInv /\ SomeParts /\ SoloInv
  BY DEF RowsInv, Solo
<1>b. daily' = daily => SomeParts' /\ \A c \in Imports : Mine(c)
  BY <1>a DEF SomeParts, Mine
<1>c. ASSUME NEW b \in Imports
      PROVE  /\ OwnFit(b, work[b], req[b], batch[b], daily)
             /\ ~overlap => PartsFit(b, work[b], req[b], batch[b], daily)
             /\ Placed(work[b], req[b]) /\ b \in Workers
  BY <1>a, ImportsWork DEF OwnInv, PartsInv, Typed, PlacedInv
<1>1. ASSUME NEW b \in Imports, NEW f \in Files, NEW async \in BOOLEAN, Request(b, f, async)
      PROVE  OwnInv' /\ PartsInv' /\ SomeParts'
  <2>1. /\ OnlyGoes(b, "abandon") /\ work[b].pc = "off" /\ batch' = batch /\ daily' = daily
        /\ \A c \in Imports \ {b} : req'[c] = req[c]
        /\ ~overlap' => ~overlap
    BY <1>1, RequestEffect
  <2>2. OwnFit(b, work'[b], req'[b], batch'[b], daily')
    BY <1>c, <2>1 DEF OwnFit, OnlyGoes
  <2>3. PartsFit(b, work'[b], req'[b], batch'[b], daily')
    BY <2>1 DEF PartsFit, OnlyGoes
  <2> QED
    BY <1>a, <1>b, <1>c, <2>1, <2>2, <2>3, OthersKeep DEF OnlyGoes
<1>2. ASSUME NEW b \in Imports, AbandonStale(b) \/ InsertBatch(b) \/ SaveFile(b)
      PROVE  OwnInv' /\ PartsInv' /\ SomeParts'
  <2>1. /\ work[b].pc \in {"abandon", "insert", "save"}
        /\ OnlyGoes(b, "insert") \/ OnlyGoes(b, "save") \/ OnlyGoes(b, "write")
        /\ UNCHANGED <<req, daily, overlap>>
    BY <1>2, ImportsWork, GoesTyped DEF AbandonStale, InsertBatch, SaveFile, At, Point, Typed
  <2>2. \A c \in Imports \ {b} : \/ batch'[c] = batch[c]
                                 \/ batch[c] = "pending" /\ batch'[c] = "failed"
    BY <1>2 DEF AbandonStale, InsertBatch, SaveFile, Typed, BatchTyped
  <2>3. work[b].part = 1 /\ OwnedBy(b, daily) = {}
    BY <1>c, <2>1 DEF Placed, OwnFit
  <2>4. OwnFit(b, work'[b], req'[b], batch'[b], daily')
    BY <2>1, <2>3 DEF OwnFit, OnlyGoes
  <2>5. PartsFit(b, work'[b], req'[b], batch'[b], daily')
    <3>1. \A s \in Skus, d \in Days : daily'[s][d].by # b
      BY <2>1, <2>3 DEF OwnedBy
    <3>2. work'[b].part = 1 /\ work'[b].pc \in {"insert", "save", "write"}
      BY <2>1, <2>3 DEF OnlyGoes
    <3> QED
      BY <3>1, <3>2 DEF PartsFit
  <2> QED
    BY <1>a, <1>b, <1>c, <2>1, <2>2, <2>4, <2>5, OthersKeep DEF OnlyGoes
<1>3. ASSUME NEW b \in Imports, WriteRow(b)
      PROVE  OwnInv' /\ PartsInv' /\ SomeParts'
  <2>1. /\ \A c \in Imports \ {b} : Mine(c)
        /\ OwnFit(b, work'[b], req'[b], batch'[b], daily')
        /\ ~overlap => PartsFit(b, work'[b], req'[b], batch'[b], daily')
        /\ SomeParts'
    BY <1>3, PartWritten
  <2>2. /\ work[b].pc = "write" /\ \A c \in Workers \ {b} : work'[c] = work[c]
        /\ UNCHANGED <<batch, req, overlap>>
    BY <1>3, WriteEffect
  <2>3. ~overlap' => \A c \in Imports \ {b} : ~Busy(c)
    BY <1>a, <1>c, <2>2 DEF SoloInv, Busy
  <2> QED
    BY <1>a, <1>c, <2>1, <2>2, <2>3, OthersKeep
<1>4. ASSUME NEW b \in Imports, NEW errors \in BOOLEAN, Finish(b, errors)
      PROVE  OwnInv' /\ PartsInv' /\ SomeParts'
  <2>1. /\ Resets(b, "over") /\ work[b].pc = "finish"
        /\ \A c \in Imports \ {b} : batch'[c] = batch[c]
        /\ batch'[b] \in {"success", "partial", "failed"}
        /\ batch'[b] = "failed" => work[b].skus = {}
        /\ UNCHANGED <<req, daily, overlap>>
    BY <1>4, OverEffect DEF Finish, At
  <2>2. OwnFit(b, work'[b], req'[b], batch'[b], daily')
    BY <1>c, <2>1 DEF OwnFit, Resets
  <2>3. ~overlap => PartsFit(b, work'[b], req'[b], batch'[b], daily')
    BY <1>c, <2>1 DEF PartsFit, Resets
  <2> QED
    BY <1>a, <1>b, <1>c, <2>1, <2>2, <2>3, OthersKeep DEF Resets
<1>5. ASSUME NEW b \in Imports, SettleFailed(b)
      PROVE  OwnInv' /\ PartsInv' /\ SomeParts'
  <2>1. /\ Resets(b, "over") /\ work[b].pc = "settle"
        /\ \A c \in Imports \ {b} : batch'[c] = batch[c]
        /\ batch'[b] \in {"partial", "failed"}
        /\ batch'[b] = "failed" => work[b].skus = {}
        /\ UNCHANGED <<req, daily, overlap>>
    <3>1. Over(b) /\ batch' = [batch EXCEPT ![b] = Outcome(work[b].skus # {}, TRUE)]
      BY <1>5 DEF SettleFailed
    <3>2. TRUE \in BOOLEAN
      OBVIOUS
    <3>3. /\ Resets(b, "over") /\ \A c \in Imports \ {b} : batch'[c] = batch[c]
          /\ batch'[b] \in {"success", "partial", "failed"}
          /\ batch'[b] = "failed" => work[b].skus = {}
          /\ batch'[b] # "success"
      BY <3>1, <3>2, OverEffect
    <3> QED
      BY <1>5, <3>3 DEF SettleFailed, At
  <2>2. OwnFit(b, work'[b], req'[b], batch'[b], daily')
    BY <1>c, <2>1 DEF OwnFit, Resets
  <2>3. PartsFit(b, work'[b], req'[b], batch'[b], daily')
    BY <2>1 DEF PartsFit, Resets
  <2> QED
    BY <1>a, <1>b, <1>c, <2>1, <2>2, <2>3, OthersKeep DEF Resets
<1>6. ASSUME NEW b \in Imports, CountRows(b)
      PROVE  OwnInv' /\ PartsInv' /\ SomeParts'
  <2>1. /\ \A c \in Workers \ {b} : work'[c] = work[c]
        /\ work'[b].pc = "settle"
        /\ \A s \in Skus : s \in work'[b].skus <=> \E d \in Days : daily[s][d].by = b
        /\ UNCHANGED <<batch, req, daily, overlap>>
    BY <1>6, CountEffect
  <2>2. OwnedBy(b, daily') \subseteq work'[b].skus
    BY <2>1 DEF OwnedBy
  <2>3. OwnFit(b, work'[b], req'[b], batch'[b], daily')
    BY <2>1, <2>2 DEF OwnFit
  <2>4. PartsFit(b, work'[b], req'[b], batch'[b], daily')
    BY <2>1 DEF PartsFit
  <2> QED
    BY <1>a, <1>b, <1>c, <2>1, <2>3, <2>4, OthersKeep
<1>7. ASSUME NEW w \in Workers, ReadOldest(w) \/ UpsertMonths(w)
      PROVE  OwnInv' /\ PartsInv' /\ SomeParts'
  <2>1. /\ \A c \in Workers \ {w} : work'[c] = work[c]
        /\ work[w].pc \in {"min", "upsert"}
        /\ \/ work'[w].pc \in {"upsert", "prune"} /\ work'[w].skus = work[w].skus
           \/ work'[w].pc = "off" /\ ~work[w].prune
        /\ UNCHANGED <<batch, req, daily, overlap>>
    BY <1>7, OldestEffect, UpsertEffect
  <2>2. ASSUME w \in Imports
        PROVE  work'[w].pc \in {"upsert", "prune"} /\ work'[w].skus = work[w].skus
    BY <1>c, <2>1, <2>2 DEF Placed
  <2>3. w \in Imports => OwnFit(w, work'[w], req'[w], batch'[w], daily')
    BY <1>c, <2>1, <2>2 DEF OwnFit
  <2>4. w \in Imports /\ ~overlap' => PartsFit(w, work'[w], req'[w], batch'[w], daily')
    BY <1>c, <2>1, <2>2 DEF PartsFit
  <2> QED
    BY <1>a, <1>b, <1>c, <2>1, <2>3, <2>4, OthersKeep
<1>8. ASSUME NEW w \in Workers, Prune(w)
      PROVE  OwnInv' /\ PartsInv' /\ SomeParts'
  <2>1. /\ work[w].pc = "prune" /\ \A c \in Workers \ {w} : work'[c] = work[c]
        /\ \/ w = Sweep
           \/ work'[w].pc = "finish" /\ work'[w].skus = work[w].skus
        /\ \A s \in Skus, d \in Days :
              daily'[s][d] = IF d < cutoff THEN NoRow ELSE daily[s][d]
        /\ UNCHANGED <<batch, req, overlap>>
    BY <1>8, PruneEffect
  <2>2. \A c \in Imports : Mine(c)
    BY <2>1, NoRowTyped, ImportsWork DEF Mine
  <2>3. SomeParts'
    BY <1>a, <2>1, NoRowTyped DEF SomeParts
  <2>4. ~overlap' => \A c \in Imports \ {w} : ~Busy(c)
    BY <1>a, <1>c, <2>1 DEF SoloInv, Busy
  <2>5. w \in Imports => OwnFit(w, work'[w], req'[w], batch'[w], daily')
    BY <1>c, <2>1, <2>2, ImportsWork, MineOwned DEF OwnFit
  <2>6. w \in Imports /\ ~overlap' => PartsFit(w, work'[w], req'[w], batch'[w], daily')
    BY <1>c, <2>1, <2>2, ImportsWork DEF PartsFit, Mine
  <2> QED
    BY <1>a, <2>1, <2>2, <2>3, <2>4, <2>5, <2>6, OthersKeep
<1>9. CASE PullDays
  <2>1. /\ \A c \in Workers \ {Pull} : work'[c] = work[c]
        /\ \A s \in Skus, d \in Days : daily'[s][d] =
              IF d \in Sold[s] \cap Recent[s] THEN Merge(daily[s][d], None, 0) ELSE daily[s][d]
        /\ overlap' = (overlap \/ AtWork # {})
        /\ UNCHANGED <<batch, req>>
    BY <1>9, PullEffect
  <2>2. ASSUME NEW s \in Skus, NEW d \in Days
        PROVE  daily'[s][d] = daily[s][d] \/ daily'[s][d].by = None
    <3>1. daily[s][d] \in RowType /\ None \in Imports \cup {None} /\ 0 \in Nat
      BY DEF Typed, DailyTyped, DailyType
    <3> DEFINE row == daily[s][d]
    <3> HIDE DEF row
    <3>2. row \in RowType
      BY <3>1 DEF row
    <3>3. Merge(row, None, 0).by = None
      BY <3>1, <3>2, MergeTyped
    <3> QED
      BY <2>1, <3>3 DEF row
  <2>3. SomeParts' /\ \A c \in Imports : Mine(c)
    BY <1>a, <2>2, ImportsWork DEF SomeParts, Mine
  <2>4. ~overlap' => ~overlap /\ \A c \in Imports : ~Busy(c)
    BY <2>1, ImportsWork DEF AtWork
  <2> QED
    BY <1>a, <2>1, <2>3, <2>4, OthersWork, NamesAssumption, OthersKeep
<1>10. ASSUME NEW prune \in BOOLEAN, StartSweep(prune)
      PROVE  OwnInv' /\ PartsInv' /\ SomeParts'
  <2>1. /\ \A c \in Workers \ {Sweep} : work'[c] = work[c]
        /\ overlap' = (overlap \/ AtWork # {}) /\ UNCHANGED <<batch, req, daily>>
    BY <1>10, SweepEffect
  <2> QED
    BY <1>a, <1>b, <2>1, OthersWork, NamesAssumption, OthersKeep
<1>11. CASE NextDay \/ UNCHANGED vars
  BY <1>a, <1>11 DEF NextDay, vars, OwnInv, PartsInv, SomeParts
<1>12. ASSUME NEW w \in Workers, Throw(w)
      PROVE  OwnInv' /\ PartsInv' /\ SomeParts'
  <2>1. /\ Resets(w, Caught(w)) /\ Caught(w) \in {"off", "dead", "count", "settle"}
        /\ w \in Imports => Caught(w) # "off"
        /\ w \in Imports /\ Caught(w) = "settle" => ~req[w].async
        /\ UNCHANGED <<batch, req, daily, overlap>>
    BY <1>12, ThrowEffect
  <2>2. w \in Imports => OwnFit(w, work'[w], req'[w], batch'[w], daily')
    BY <2>1 DEF OwnFit, Resets
  <2>3. w \in Imports => PartsFit(w, work'[w], req'[w], batch'[w], daily')
    BY <2>1 DEF PartsFit, Resets
  <2> QED
    BY <1>a, <1>b, <2>1, <2>2, <2>3, OthersKeep DEF Resets
<1>13. CASE Crash
  <2>1. /\ \A b \in Imports : work'[b] = work[b] \/ work'[b].pc = "dead"
        /\ UNCHANGED <<batch, req, daily, overlap>>
    BY <1>13, CrashEffect
  <2>2. ASSUME NEW b \in Imports
        PROVE  /\ OwnFit(b, work'[b], req'[b], batch'[b], daily')
               /\ ~overlap' => PartsFit(b, work'[b], req'[b], batch'[b], daily')
    <3>1. CASE work'[b] = work[b]
      BY <1>c, <2>1, <3>1
    <3>2. CASE work'[b].pc = "dead"
      BY <3>2 DEF OwnFit, PartsFit
    <3> QED
      BY <2>1, <3>1, <3>2
  <2> QED
    BY <1>b, <2>1, <2>2 DEF OwnInv, PartsInv
<1> QED
  BY <1>1, <1>2, <1>3, <1>4, <1>5, <1>6, <1>7, <1>8, <1>9, <1>10, <1>11, <1>12, <1>13
     DEF Next, ImportStep, WorkStep

LEMMA RowsHold == Spec => [](Typed /\ Solo /\ RowsInv)
  BY SoloHolds, RowsInit, RowsNext, PTL DEF Spec

\* A background import that ends failed has left no row of its own, however its job was
\* interrupted and whatever ran beside it (the catch of async-job.ts counts the rows).
THEOREM FailedHolds == Spec => []FailedLeftNothing
<1>1. OwnInv => FailedLeftNothing
  BY DEF OwnInv, OwnFit, OwnedBy, FailedLeftNothing, Owns
<1>2. RowsInv => OwnInv
  BY DEF RowsInv
<1> QED
  BY <1>1, <1>2, RowsHold, PTL

\* The row of a finished import that nothing overlapped adds up every wide row of its SKU
\* in the file, and nothing else (ON CONFLICT DO UPDATE in upsertSalesHistoryBatch).
THEOREM RowHolds == Spec => []RowIsOneFile
<1>1. PartsInv => RowIsOneFile
  BY DEF PartsInv, PartsFit, PartsOf, RowIsOneFile
<1>2. RowsInv => PartsInv
  BY DEF RowsInv
<1> QED
  BY <1>1, <1>2, RowsHold, PTL

-----------------------------------------------------------------------------
(* The calendar *)

\* A month's first day is not after its days.
LEMMA FirstDayIs ==
  ASSUME NEW d \in Days
  PROVE  /\ Month(d) \in Months /\ FirstDay(Month(d)) \in Nat /\ FirstDay(Month(d)) <= d
<1> DEFINE n == DaysPerMonth
           q == (d - 1) \div n
<1>1. n \in Nat /\ n > 0 /\ d \in Nat /\ d >= 1
  BY CalendarAssumption DEF Days
<1>2. q \in Nat /\ q * n <= d - 1
  <2> DEFINE x == d - 1
  <2>1. x \in Nat
    BY <1>1
  <2> HIDE DEF n, x
  <2>2. x \div n \in Nat /\ (x \div n) * n <= x
    BY <1>1, <2>1
  <2> QED
    BY <2>2 DEF x
<1>3. Month(d) = q + 1
  BY DEF Month
<1> HIDE DEF q, n
<1>4. FirstDay(Month(d)) = q * n + 1
  <2>1. (q + 1) - 1 = q
    BY <1>2
  <2> QED
    BY <1>3, <2>1 DEF FirstDay, n
<1>5. q * n \in Nat
  BY <1>1, <1>2
<1>6. FirstDay(Month(d)) \in Nat /\ FirstDay(Month(d)) <= d
  <2> DEFINE y == q * n
  <2>1. y \in Nat /\ y <= d - 1 /\ FirstDay(Month(d)) = y + 1
    BY <1>2, <1>4, <1>5
  <2> HIDE DEF y
  <2> QED
    BY <1>1, <2>1
<1> QED
  BY <1>6 DEF Months

-----------------------------------------------------------------------------
(* Every row is added up before it is pruned *)

Counting == {"write", "min", "upsert"}
ToCount(s) == \E w \in Workers : work[w].pc \in Counting /\ s \in work[w].skus
Counted(s, d) == d \in monthly[s][Month(d)] \/ <<s, Month(d)>> \in skipped

\* What is stored and in no month is of a SKU that a worker has yet to add up.
CountedInv ==
  ~overlap /\ ~broken =>
    \A s \in Skus, d \in Days : Stored(s, d) => Counted(s, d) \/ ToCount(s)

\* A worker that is not counting moves, and the tables stay.
LEMMA CountedKept ==
  ASSUME CountedInv, NEW b \in Workers, \A c \in Workers \ {b} : work'[c] = work[c],
         work[b].pc \notin Counting, UNCHANGED <<daily, monthly, skipped>>,
         ~overlap' => ~overlap, ~broken' => ~broken
  PROVE  CountedInv'
<1>1. \A s \in Skus : ToCount(s) => ToCount(s)'
  BY DEF ToCount
<1> QED
  BY <1>1 DEF CountedInv, Counted, Stored

LEMMA CountedInit == Init => CountedInv
<1> SUFFICES ASSUME Init
             PROVE  CountedInv
  OBVIOUS
<1>1. \A s \in Skus, d \in Days : daily[s][d] = NoRow
  BY DEF Init
<1> QED
  BY <1>1, NoRowTyped DEF CountedInv, Stored

LEMMA CountedNext == Typed /\ Solo /\ CountedInv /\ [Next]_vars => CountedInv'
<1> SUFFICES ASSUME Typed, Solo, CountedInv, [Next]_vars
             PROVE  CountedInv'
  OBVIOUS
<1> USE DEF tables, history
<1>a. SoloInv /\ \A b \in Imports : b \in Workers
  BY ImportsWork DEF Solo
<1>1. ASSUME NEW b \in Imports, NEW f \in Files, NEW async \in BOOLEAN, Request(b, f, async)
      PROVE  CountedInv'
  <2>1. /\ OnlyGoes(b, "abandon") /\ work[b].pc = "off"
        /\ ~overlap' => ~overlap
        /\ UNCHANGED <<daily, monthly, skipped, broken>>
    BY <1>1, RequestEffect
  <2> QED
    BY <1>a, <2>1, CountedKept DEF OnlyGoes, Counting
<1>2. ASSUME NEW b \in Imports, AbandonStale(b) \/ InsertBatch(b) \/ SaveFile(b)
      PROVE  CountedInv'
  <2>1. /\ work[b].pc \in {"abandon", "insert", "save"}
        /\ OnlyGoes(b, "insert") \/ OnlyGoes(b, "save") \/ OnlyGoes(b, "write")
        /\ UNCHANGED <<daily, monthly, skipped, overlap, broken>>
    BY <1>2, ImportsWork, GoesTyped DEF AbandonStale, InsertBatch, SaveFile, At, Point, Typed
  <2> QED
    BY <1>a, <2>1, CountedKept DEF OnlyGoes, Counting
<1>3. ASSUME NEW b \in Imports, WriteRow(b)
      PROVE  CountedInv'
  <2> DEFINE i == work[b].part
             s == req[b].rows[i]
             days == {d \in Sold[s] : d >= req[b].from}
  <2>1. /\ s \in Skus /\ work[b].pc = "write"
        /\ \A t \in Skus \ {s} : daily'[t] = daily[t]
        /\ \A d \in Days : daily'[s][d] =
             IF d \in days THEN Merge(daily[s][d], b, i) ELSE daily[s][d]
        /\ \A c \in Workers \ {b} : work'[c] = work[c]
        /\ work'[b].skus = IF days = {} THEN work[b].skus ELSE work[b].skus \cup {s}
        /\ work'[b].pc \in {"write", "min"} \/ work'[b].skus = {}
        /\ UNCHANGED <<monthly, skipped, overlap, broken>>
    BY <1>3, WriteEffect
  <2> HIDE DEF s, days, i
  <2>2. \A t \in work'[b].skus : ToCount(t)'
    BY <1>a, <2>1 DEF ToCount, Counting
  <2>3. \A t \in Skus : ToCount(t) => ToCount(t)'
    BY <1>a, <2>1 DEF ToCount, Counting
  <2>4. ASSUME NEW t \in Skus, NEW d \in Days, Stored(t, d)', ~Stored(t, d)
        PROVE  ToCount(t)'
    <3>1. t = s /\ d \in days
      BY <2>1, <2>4 DEF Stored
    <3>2. t \in work'[b].skus
      BY <2>1, <3>1
    <3> QED
      BY <2>2, <3>2
  <2> QED
    BY <2>1, <2>3, <2>4 DEF CountedInv, Counted
<1>4. ASSUME NEW b \in Imports, NEW errors \in BOOLEAN, Finish(b, errors) \/ SettleFailed(b)
      PROVE  CountedInv'
  <2>1. /\ work[b].pc \in {"finish", "settle"} /\ Resets(b, "over")
        /\ UNCHANGED <<daily, monthly, skipped, overlap, broken>>
    BY <1>4, OverEffect DEF Finish, SettleFailed, At
  <2> QED
    BY <1>a, <2>1, CountedKept DEF Resets, Counting
<1>5. ASSUME NEW b \in Imports, CountRows(b)
      PROVE  CountedInv'
  <2>1. /\ work[b].pc = "count" /\ \A c \in Workers \ {b} : work'[c] = work[c]
        /\ UNCHANGED <<daily, monthly, skipped, overlap, broken>>
    BY <1>5, CountEffect
  <2> QED
    BY <1>a, <2>1, CountedKept DEF Counting
<1>6. ASSUME NEW w \in Workers, ReadOldest(w)
      PROVE  CountedInv'
  <2>1. /\ work[w].pc = "min" /\ \A c \in Workers \ {w} : work'[c] = work[c]
        /\ \/ work'[w].pc = "upsert" /\ work'[w].skus = work[w].skus
           \/ StoredDays = {}
        /\ UNCHANGED <<daily, monthly, skipped, overlap, broken>>
    BY <1>6, OldestEffect
  <2>2. CASE StoredDays = {}
    <3>1. \A s \in Skus, d \in Days : ~Stored(s, d)'
      BY <2>1, <2>2 DEF StoredDays, Stored
    <3> QED
      BY <3>1 DEF CountedInv
  <2>3. CASE work'[w].pc = "upsert" /\ work'[w].skus = work[w].skus
    <3>1. \A s \in Skus : ToCount(s) => ToCount(s)'
      BY <2>1, <2>3 DEF ToCount, Counting
    <3> QED
      BY <2>1, <3>1 DEF CountedInv, Counted, Stored
  <2> QED
    BY <2>1, <2>2, <2>3
<1>7. ASSUME NEW w \in Workers, UpsertMonths(w)
      PROVE  CountedInv'
  <2>1. /\ work[w].pc = "upsert"
        /\ \A s \in Skus, m \in Months : monthly'[s][m] =
             IF s \in work[w].skus THEN Aggregated(s, m, work[w].min) ELSE monthly[s][m]
        /\ skipped' = IF overlap \/ broken THEN skipped ELSE skipped \cup LeftOut(w)
        /\ UNCHANGED <<daily, overlap, broken>>
    BY <1>7, UpsertEffect
  <2>2. SUFFICES ASSUME ~overlap, ~broken, NEW s \in Skus, NEW d \in Days, Stored(s, d)
                 PROVE  Counted(s, d)'
    BY <2>1 DEF CountedInv, Stored
  <2> DEFINE m == Month(d)
             min == work[w].min
             first == FirstDay(m)
  <2>3. m \in Months /\ first \in Nat /\ min \in Nat /\ d \in DaysOf(s, m)
    BY <2>2, FirstDayIs DEF DaysOf, Typed, WorkTyped, WorkType
  <2>4. CASE s \notin work[w].skus
    <3>1. ~ToCount(s)
      BY <1>a, <2>1, <2>2, <2>4 DEF ToCount, Counting, SoloInv, Busy
    <3>2. Counted(s, d)
      BY <2>2, <3>1 DEF CountedInv
    <3>3. monthly'[s][m] = monthly[s][m] /\ skipped \subseteq skipped'
      BY <2>1, <2>3, <2>4
    <3> QED
      BY <3>2, <3>3 DEF Counted
  <2>5. CASE s \in work[w].skus /\ first >= min
    <3>1. monthly'[s][m] = DaysOf(s, m)
      BY <2>1, <2>3, <2>5 DEF Aggregated
    <3> QED
      BY <2>3, <3>1 DEF Counted
  <2>6. CASE s \in work[w].skus /\ ~(first >= min)
    <3>1. first < min
      <4> HIDE DEF first, min
      <4> QED
        BY <2>3, <2>6
    <3>2. monthly'[s][m] = monthly[s][m]
      BY <2>1, <2>3, <2>6 DEF Aggregated
    <3>3. CASE DaysOf(s, m) \subseteq monthly[s][m]
      BY <2>3, <3>2, <3>3 DEF Counted
    <3>4. CASE ~(DaysOf(s, m) \subseteq monthly[s][m])
      <4>1. <<s, m>> \in LeftOut(w)
        BY <2>3, <2>6, <3>1, <3>4 DEF LeftOut
      <4> QED
        BY <2>1, <2>2, <4>1 DEF Counted
    <3> QED
      BY <3>3, <3>4
  <2> QED
    BY <2>4, <2>5, <2>6
<1>8. ASSUME NEW w \in Workers, Prune(w)
      PROVE  CountedInv'
  <2>1. /\ work[w].pc = "prune" /\ \A c \in Workers \ {w} : work'[c] = work[c]
        /\ \A s \in Skus, d \in Days :
             daily'[s][d] = IF d < cutoff THEN NoRow ELSE daily[s][d]
        /\ UNCHANGED <<monthly, skipped, overlap, broken>>
    BY <1>8, PruneEffect
  <2>2. \A s \in Skus, d \in Days : Stored(s, d)' => Stored(s, d)
    BY <2>1, NoRowTyped DEF Stored
  <2>3. \A s \in Skus : ToCount(s) => ToCount(s)'
    BY <2>1 DEF ToCount, Counting
  <2> QED
    BY <2>1, <2>2, <2>3 DEF CountedInv, Counted
<1>9. CASE PullDays
  <2>1. /\ work[Pull].pc = "off" /\ \A c \in Workers \ {Pull} : work'[c] = work[c]
        /\ work'[Pull].pc = "min"
        /\ \A s \in Skus, d \in Days : daily'[s][d] =
             IF d \in Sold[s] \cap Recent[s] THEN Merge(daily[s][d], None, 0) ELSE daily[s][d]
        /\ \A s \in Skus : s \in work'[Pull].skus <=> Sold[s] \cap Recent[s] # {}
        /\ ~overlap' => ~overlap
        /\ UNCHANGED <<monthly, skipped, broken>>
    BY <1>9, PullEffect
  <2>2. \A s \in Skus : ToCount(s) => ToCount(s)'
    BY <2>1 DEF ToCount, Counting
  <2>3. ASSUME NEW s \in Skus, NEW d \in Days, Stored(s, d)', ~Stored(s, d)
        PROVE  ToCount(s)'
    <3>1. d \in Sold[s] \cap Recent[s]
      BY <2>1, <2>3 DEF Stored
    <3>2. s \in work'[Pull].skus
      BY <2>1, <3>1
    <3> QED
      BY <2>1, <3>2, OthersWork DEF ToCount, Counting
  <2> QED
    BY <2>1, <2>2, <2>3 DEF CountedInv, Counted
<1>10. ASSUME NEW prune \in BOOLEAN, StartSweep(prune)
      PROVE  CountedInv'
  <2>1. /\ work[Sweep].pc = "off" /\ \A c \in Workers \ {Sweep} : work'[c] = work[c]
        /\ ~overlap' => ~overlap
        /\ UNCHANGED <<daily, monthly, skipped, broken>>
    BY <1>10, SweepEffect
  <2> QED
    BY <2>1, OthersWork, CountedKept DEF Counting
<1>11. CASE NextDay \/ UNCHANGED vars
  BY <1>11 DEF NextDay, vars, CountedInv, Counted, ToCount, Stored
<1>12. CASE Crash \/ \E w \in Workers : Throw(w)
  BY <1>12 DEF Crash, Throw, CountedInv
<1> QED
  BY <1>1, <1>2, <1>3, <1>4, <1>5, <1>6, <1>7, <1>8, <1>9, <1>10, <1>11, <1>12
     DEF Next, ImportStep, WorkStep

LEMMA CountedHolds == Spec => [](Typed /\ Solo /\ CountedInv)
  BY SoloHolds, CountedInit, CountedNext, PTL DEF Spec

\* Only pruning takes a row out of the daily table.
LEMMA RowsGo ==
  ASSUME Typed, [Next]_vars, NEW s \in Skus, NEW d \in Days, Stored(s, d), ~Stored(s, d)'
  PROVE  \E w \in Workers : Prune(w)
<1> USE DEF tables, history
<1>1. ASSUME NEW b \in Imports, WriteRow(b)
      PROVE  FALSE
  <2> DEFINE i == work[b].part
             t == req[b].rows[i]
             days == {e \in Sold[t] : e >= req[b].from}
  <2>1. /\ t \in Skus /\ i \in 1..Len(req[b].rows)
        /\ \A u \in Skus \ {t} : daily'[u] = daily[u]
        /\ \A e \in Days : daily'[t][e] =
             IF e \in days THEN Merge(daily[t][e], b, i) ELSE daily[t][e]
    BY <1>1, WriteEffect
  <2>2. daily[s][d] \in RowType /\ i \in Nat /\ b \in Imports \cup {None}
    BY <2>1, ImportsWork DEF Typed, DailyTyped, DailyType, WorkTyped, WorkType
  <2> HIDE DEF i, t, days
  <2>3. Merge(daily[s][d], b, i).parts # {}
    BY <2>2, MergeTyped
  <2> QED
    BY <2>1, <2>3 DEF Stored
<1>2. CASE PullDays
  <2>1. \A t \in Skus, e \in Days : daily'[t][e] =
          IF e \in Sold[t] \cap Recent[t] THEN Merge(daily[t][e], None, 0) ELSE daily[t][e]
    BY <1>2, PullEffect
  <2> DEFINE row == daily[s][d]
  <2>2. row \in RowType /\ None \in Imports \cup {None} /\ 0 \in Nat
    BY DEF Typed, DailyTyped, DailyType
  <2>3. row.parts # {} /\ ~(daily'[s][d].parts # {})
    BY DEF Stored
  <2>4. daily'[s][d] = Merge(row, None, 0) \/ daily'[s][d] = row
    BY <2>1
  <2> HIDE DEF row
  <2>5. Merge(row, None, 0).parts # {}
    BY <2>2, MergeTyped
  <2> QED
    BY <2>3, <2>4, <2>5
<1>3. CASE daily' = daily
  BY <1>3 DEF Stored
<1> QED
  BY <1>1, <1>2, <1>3 DEF Next, ImportStep, WorkStep, Request, AbandonStale, InsertBatch,
     SaveFile, Finish, CountRows, SettleFailed, ReadOldest, UpsertMonths, Throw, StartSweep,
     NextDay, Crash, vars

\* A day that is pruned is added up in its month, unless an aggregation took the month for
\* pruned already, as long as workers neither overlap nor fail (salesHistoryMaintenance.ts,
\* persistDailySalesRowsAsHistory: aggregate, then prune).
THEOREM PrunedHolds == Spec => SoloPrunedWereCounted
<1> DEFINE Kept == overlap' \/ broken' \/ \A s \in Skus, d \in Days :
              Stored(s, d) /\ daily'[s][d] = NoRow =>
                d \in monthly[s][Month(d)] \/ <<s, Month(d)>> \in skipped
<1>1. Typed /\ Solo /\ CountedInv /\ [Next]_vars => Kept
  <2>1. SUFFICES ASSUME Typed, Solo, CountedInv, [Next]_vars, ~overlap', ~broken',
                        NEW s \in Skus, NEW d \in Days, Stored(s, d), daily'[s][d] = NoRow
                 PROVE  Counted(s, d)
    BY DEF Counted
  <2>2. ~Stored(s, d)'
    BY <2>1, NoRowTyped DEF Stored
  <2>3. PICK w \in Workers : Prune(w)
    BY <2>1, <2>2, RowsGo
  <2>4. work[w].pc = "prune" /\ ~overlap /\ ~broken
    BY <2>1, <2>3 DEF Prune, At, history
  <2>5. ~ToCount(s)
    BY <2>1, <2>4 DEF ToCount, Counting, Solo, SoloInv, Busy
  <2> QED
    BY <2>1, <2>4, <2>5 DEF CountedInv
<1>2. Typed /\ Solo /\ CountedInv /\ [Next]_vars => [Kept]_vars
  BY <1>1
<1> QED
  BY <1>2, CountedHolds, PTL DEF Spec, SoloPrunedWereCounted

-----------------------------------------------------------------------------
(* A month keeps the days it adds up *)

\* Days are stored, and added up, on which the SKU was sold.
SoldInv == \A s \in Skus :
  /\ \A d \in Days : Stored(s, d) => d \in Sold[s]
  /\ \A m \in Months : \A d \in monthly[s][m] : Month(d) = m /\ d \in Sold[s]

Oldest(n) == n \in StoredDays /\ \A d \in StoredDays : n <= d

\* Alone, a worker about to write the months knows the oldest day.
MinInv == ~overlap => \A w \in Workers : work[w].pc = "upsert" => Oldest(work[w].min)

\* Alone, an import has stored all that its file has of the SKUs it is to add up.
WholeFit(b, w, q, D) ==
  /\ w.pc \in {"off", "abandon", "insert", "save"} => w.skus = {}
  /\ w.pc \in Counting =>
       /\ \A s \in w.skus : \A d \in Sold[s] : d >= q.from => D[s][d].parts # {}
       /\ \A s \in Skus, d \in Days : D[s][d].by = b => d >= q.from

WholeInv == ~overlap => \A b \in Imports : WholeFit(b, work[b], req[b], daily)

\* b moves, and nobody else is at work unless workers have overlapped.
Moves(b) == /\ \A c \in Workers \ {b} : work'[c] = work[c]
            /\ ~overlap' => ~overlap /\ \A c \in Workers \ {b} : ~Busy(c)

LEMMA SoloMoves ==
  ASSUME SoloInv, NEW b \in Workers, \A c \in Workers \ {b} : work'[c] = work[c],
         ~overlap' => ~overlap /\ (Busy(b) \/ AtWork = {})
  PROVE  Moves(b)
<1>1. SUFFICES ASSUME ~overlap', NEW c \in Workers \ {b}
               PROVE  ~overlap /\ ~Busy(c)
  BY DEF Moves
<1>2. ~overlap /\ (Busy(b) \/ AtWork = {})
  BY <1>1
<1> QED
  BY <1>1, <1>2 DEF SoloInv, AtWork

LEMMA FilesKept ==
  ASSUME MinInv, WholeInv, NEW b \in Workers, Moves(b),
         \A c \in Imports \ {b} : req'[c] = req[c],
         ~overlap' /\ work'[b].pc = "upsert" => Oldest(work[b].min)',
         ~overlap' /\ b \in Imports => WholeFit(b, work'[b], req'[b], daily')
  PROVE  MinInv' /\ WholeInv'
<1>1. ASSUME ~overlap', NEW w \in Workers, work'[w].pc = "upsert"
      PROVE  Oldest(work[w].min)'
  <2>1. w = b
    BY <1>1 DEF Moves, Busy
  <2> QED
    BY <1>1, <2>1
<1>2. ASSUME ~overlap', NEW c \in Imports, c # b
      PROVE  WholeFit(c, work'[c], req'[c], daily')
  <2>1. ~Busy(c) /\ work'[c] = work[c] /\ WholeFit(c, work[c], req[c], daily)
    BY <1>2, ImportsWork DEF Moves, WholeInv
  <2> QED
    BY <2>1 DEF WholeFit, Busy, Counting
<1>3. ASSUME ~overlap', NEW c \in Imports
      PROVE  WholeFit(c, work'[c], req'[c], daily')
  BY <1>2, <1>3
<1> QED
  BY <1>1, <1>3 DEF MinInv, WholeInv

LEMMA SoldInit == Init => SoldInv /\ MinInv /\ WholeInv
<1> SUFFICES ASSUME Init
             PROVE  SoldInv /\ MinInv /\ WholeInv
  OBVIOUS
<1>1. \A s \in Skus : \A d \in Days : daily[s][d] = NoRow
  BY DEF Init
<1>2. \A s \in Skus : \A m \in Months : monthly[s][m] = {}
  BY DEF Init
<1>3. \A w \in Workers : work[w] = Idle
  BY DEF Init
<1>5. SoldInv
  BY <1>1, <1>2, NoRowTyped DEF SoldInv, Stored
<1>6. MinInv /\ WholeInv
  BY <1>3, IdleTyped, ImportsWork DEF MinInv, WholeInv, WholeFit, Counting
<1> QED
  BY <1>5, <1>6

LEMMA SoldNext == Typed /\ SoldInv /\ [Next]_vars => SoldInv'
<1> SUFFICES ASSUME Typed, SoldInv, [Next]_vars
             PROVE  SoldInv'
  OBVIOUS
<1> USE DEF tables, history
<1>1. CASE NextDay
  BY <1>1 DEF NextDay, SoldInv, Stored
<1>2. ASSUME NEW b \in Imports, WriteRow(b)
      PROVE  SoldInv'
  <2> DEFINE i == work[b].part
             s == req[b].rows[i]
             days == {d \in Sold[s] : d >= req[b].from}
  <2>1. /\ s \in Skus
        /\ \A t \in Skus \ {s} : daily'[t] = daily[t]
        /\ \A d \in Days : daily'[s][d] =
             IF d \in days THEN Merge(daily[s][d], b, i) ELSE daily[s][d]
        /\ UNCHANGED <<monthly, cutoff>>
    BY <1>2, WriteEffect
  <2>2. \A d \in days : d \in Sold[s]
    OBVIOUS
  <2> HIDE DEF s, days, i
  <2> QED
    BY <2>1, <2>2 DEF SoldInv, Stored
<1>3. CASE PullDays
  <2>1. /\ \A s \in Skus, d \in Days : daily'[s][d] =
             IF d \in Sold[s] \cap Recent[s] THEN Merge(daily[s][d], None, 0) ELSE daily[s][d]
        /\ UNCHANGED <<monthly, cutoff>>
    BY <1>3, PullEffect
  <2> QED
    BY <2>1 DEF SoldInv, Stored
<1>4. ASSUME NEW w \in Workers, UpsertMonths(w)
      PROVE  SoldInv'
  <2>1. /\ \A s \in Skus, m \in Months : monthly'[s][m] =
             IF s \in work[w].skus THEN Aggregated(s, m, work[w].min) ELSE monthly[s][m]
        /\ UNCHANGED <<daily, cutoff>>
    BY <1>4, UpsertEffect
  <2>2. \A s \in Skus, m \in Months : monthly'[s][m] \in {DaysOf(s, m), monthly[s][m]}
    BY <2>1 DEF Aggregated
  <2>3. \A s \in Skus, m \in Months : \A d \in DaysOf(s, m) : Month(d) = m /\ d \in Sold[s]
    BY DEF SoldInv, DaysOf
  <2> QED
    BY <2>1, <2>2, <2>3 DEF SoldInv, Stored
<1>5. ASSUME NEW w \in Workers, Prune(w)
      PROVE  SoldInv'
  <2>1. /\ \A s \in Skus, d \in Days :
             daily'[s][d] = IF d < cutoff THEN NoRow ELSE daily[s][d]
        /\ UNCHANGED <<monthly, cutoff>>
    BY <1>5, PruneEffect
  <2> QED
    BY <2>1, NoRowTyped DEF SoldInv, Stored
<1>6. CASE UNCHANGED <<daily, monthly, cutoff>>
  BY <1>6 DEF SoldInv, Stored
<1> QED
  BY <1>1, <1>2, <1>3, <1>4, <1>5, <1>6 DEF Next, ImportStep, WorkStep, Request, AbandonStale,
     InsertBatch, SaveFile, Finish, CountRows, SettleFailed, ReadOldest, Throw, StartSweep,
     Crash, vars

LEMMA FilesNext ==
  Typed /\ Solo /\ RowsInv /\ MinInv /\ WholeInv /\ [Next]_vars => MinInv' /\ WholeInv'
<1> SUFFICES ASSUME Typed, Solo, RowsInv, MinInv, WholeInv, [Next]_vars
             PROVE  MinInv' /\ WholeInv'
  OBVIOUS
<1> USE DEF tables, history
<1>a. SoloInv /\ OwnInv /\ \A b \in Imports : b \in Workers
  BY ImportsWork DEF Solo, RowsInv
<1>b. ASSUME ~overlap, NEW b \in Imports
      PROVE  WholeFit(b, work[b], req[b], daily)
  BY <1>b DEF WholeInv
<1>1. ASSUME NEW b \in Imports, NEW f \in Files, NEW async \in BOOLEAN, Request(b, f, async)
      PROVE  MinInv' /\ WholeInv'
  <2>1. /\ OnlyGoes(b, "abandon") /\ work[b].pc = "off"
        /\ overlap' = (overlap \/ AtWork # {})
        /\ \A c \in Imports \ {b} : req'[c] = req[c]
    BY <1>1, RequestEffect
  <2>2. Moves(b)
    BY <1>a, <2>1, SoloMoves DEF OnlyGoes
  <2>3. ~overlap' => WholeFit(b, work'[b], req'[b], daily')
    BY <1>b, <2>1 DEF OnlyGoes, WholeFit, Counting
  <2> QED
    BY <1>a, <2>1, <2>2, <2>3, FilesKept DEF OnlyGoes
<1>2. ASSUME NEW b \in Imports, AbandonStale(b) \/ InsertBatch(b) \/ SaveFile(b)
      PROVE  MinInv' /\ WholeInv'
  <2>1. /\ work[b].pc \in {"abandon", "insert", "save"}
        /\ OnlyGoes(b, "insert") \/ OnlyGoes(b, "save") \/ OnlyGoes(b, "write")
        /\ UNCHANGED <<daily, req, overlap>>
    BY <1>2, ImportsWork, GoesTyped DEF AbandonStale, InsertBatch, SaveFile, At, Point, Typed
  <2>2. Moves(b)
    BY <1>a, <2>1, SoloMoves DEF OnlyGoes, Busy
  <2>3. ~overlap' => WholeFit(b, work'[b], req'[b], daily')
    <3>1. \A s \in Skus, d \in Days : daily[s][d].by # b
      BY <1>a, <2>1 DEF OwnInv, OwnFit, OwnedBy
    <3>2. ~overlap => work'[b].skus = {}
      BY <1>b, <2>1 DEF WholeFit, OnlyGoes
    <3> QED
      BY <2>1, <3>1, <3>2 DEF WholeFit
  <2>4. work'[b].pc # "upsert"
    BY <2>1 DEF OnlyGoes
  <2> QED
    BY <1>a, <2>1, <2>2, <2>3, <2>4, FilesKept
<1>3. ASSUME NEW b \in Imports, WriteRow(b)
      PROVE  MinInv' /\ WholeInv'
  <2> DEFINE i == work[b].part
             s == req[b].rows[i]
             days == {d \in Sold[s] : d >= req[b].from}
  <2>1. /\ s \in Skus /\ work[b].pc = "write" /\ i \in 1..Len(req[b].rows)
        /\ \A t \in Skus \ {s} : daily'[t] = daily[t]
        /\ \A d \in Days : daily'[s][d] =
             IF d \in days THEN Merge(daily[s][d], b, i) ELSE daily[s][d]
        /\ \A c \in Workers \ {b} : work'[c] = work[c]
        /\ work'[b].skus = IF days = {} THEN work[b].skus ELSE work[b].skus \cup {s}
        /\ work'[b].pc \in {"write", "min", "finish"}
        /\ UNCHANGED <<req, overlap>>
    BY <1>3, WriteEffect
  <2>2. Moves(b)
    BY <1>a, <2>1, SoloMoves DEF Busy
  <2>3. ASSUME NEW d \in Days
        PROVE  d \in days <=> d \in Sold[s] /\ d >= req[b].from
    OBVIOUS
  <2>4. daily \in DailyType /\ i \in Nat /\ b \in Imports \cup {None}
    BY <2>1, ImportsWork DEF Typed, DailyTyped, WorkTyped, WorkType
  <2> HIDE DEF s, days, i
  <2>5. ASSUME NEW t \in Skus, NEW d \in Days
        PROVE  /\ t = s /\ d \in days => daily'[t][d].parts # {}
               /\ ~(t = s /\ d \in days) => daily'[t][d] = daily[t][d]
    <3>1. daily[t][d] \in RowType
      BY <2>4 DEF DailyType
    <3>2. Merge(daily[t][d], b, i).parts # {}
      BY <2>4, <3>1, MergeTyped
    <3> QED
      BY <2>1, <3>2
  <2>6. ASSUME ~overlap
        PROVE  /\ \A t \in work'[b].skus : \A d \in Sold[t] :
                    d >= req[b].from => daily'[t][d].parts # {}
               /\ \A t \in Skus, d \in Days : daily'[t][d].by = b => d >= req[b].from
    <3>1. /\ \A t \in work[b].skus : \A d \in Sold[t] :
               d >= req[b].from => daily[t][d].parts # {}
          /\ \A t \in Skus, d \in Days : daily[t][d].by = b => d >= req[b].from
      BY <1>b, <2>1, <2>6 DEF WholeFit, Counting
    <3>2. ASSUME NEW t \in work'[b].skus, NEW d \in Sold[t], d >= req[b].from
          PROVE  daily'[t][d].parts # {}
      <4>1. t \in work[b].skus \/ t = s
        BY <2>1
      <4>2. t \in Skus
        BY <1>a, <2>1, <4>1 DEF Typed, WorkTyped, WorkType
      <4>3. d \in Days
        BY <4>2, SalesAssumption
      <4> QED
        BY <2>3, <2>5, <3>1, <3>2, <4>1, <4>2, <4>3
    <3>3. \A t \in Skus, d \in Days : daily'[t][d].by = b => d >= req[b].from
      BY <2>3, <2>5, <3>1
    <3> QED
      BY <3>2, <3>3
  <2>7. ~overlap' => WholeFit(b, work'[b], req'[b], daily')
    BY <2>1, <2>6 DEF WholeFit
  <2> QED
    BY <1>a, <2>1, <2>2, <2>7, FilesKept
<1>4. ASSUME NEW b \in Imports, NEW errors \in BOOLEAN, Finish(b, errors) \/ SettleFailed(b)
      PROVE  MinInv' /\ WholeInv'
  <2>1. /\ work[b].pc \in {"finish", "settle"} /\ Resets(b, "over")
        /\ UNCHANGED <<req, overlap>>
    BY <1>4, OverEffect DEF Finish, SettleFailed, At
  <2>2. Moves(b)
    BY <1>a, <2>1, SoloMoves DEF Resets, Busy
  <2>3. WholeFit(b, work'[b], req'[b], daily')
    BY <2>1 DEF WholeFit, Resets, Counting
  <2> QED
    BY <1>a, <2>1, <2>2, <2>3, FilesKept DEF Resets
<1>5. ASSUME NEW b \in Imports, CountRows(b)
      PROVE  MinInv' /\ WholeInv'
  <2>1. /\ work[b].pc = "count" /\ \A c \in Workers \ {b} : work'[c] = work[c]
        /\ work'[b].pc = "settle"
        /\ UNCHANGED <<req, overlap>>
    BY <1>5, CountEffect
  <2>2. Moves(b)
    BY <1>a, <2>1, SoloMoves DEF Busy
  <2>3. WholeFit(b, work'[b], req'[b], daily')
    BY <2>1 DEF WholeFit, Counting
  <2> QED
    BY <1>a, <2>1, <2>2, <2>3, FilesKept
<1>6. ASSUME NEW w \in Workers, ReadOldest(w)
      PROVE  MinInv' /\ WholeInv'
  <2>1. /\ work[w].pc = "min" /\ \A c \in Workers \ {w} : work'[c] = work[c]
        /\ \/ /\ work'[w].pc = "upsert" /\ StoredDays # {} /\ work'[w].min = OldestDay
              /\ work'[w].skus = work[w].skus
           \/ work'[w].pc = "prune"
           \/ work'[w].pc = "off" /\ ~work[w].prune
        /\ UNCHANGED <<daily, req, overlap>>
    BY <1>6, OldestEffect
  <2>2. Moves(w)
    BY <1>a, <2>1, SoloMoves DEF Busy
  <2>3. work'[w].pc = "upsert" => Oldest(work[w].min)'
    <3>1. SUFFICES ASSUME work'[w].pc = "upsert"
                   PROVE  Oldest(work[w].min)'
      OBVIOUS
    <3>2. Oldest(OldestDay)
      BY <2>1, <3>1, OldestIs DEF Oldest, Typed
    <3>3. StoredDays' = StoredDays
      BY <2>1 DEF StoredDays, Stored
    <3> QED
      BY <2>1, <3>1, <3>2, <3>3 DEF Oldest
  <2>4. ASSUME w \in Imports, ~overlap'
        PROVE  WholeFit(w, work'[w], req'[w], daily')
    <3>1. work[w].prune
      BY <2>1, <2>4 DEF Typed, PlacedInv, Placed
    <3> QED
      BY <1>b, <2>1, <2>4, <3>1 DEF WholeFit, Counting
  <2> QED
    BY <1>a, <2>1, <2>2, <2>3, <2>4, FilesKept
<1>7. ASSUME NEW w \in Workers, UpsertMonths(w) \/ Prune(w)
      PROVE  MinInv' /\ WholeInv'
  <2>1. /\ work[w].pc \in {"upsert", "prune"} /\ \A c \in Workers \ {w} : work'[c] = work[c]
        /\ \/ work'[w].pc \in {"prune", "finish"}
           \/ work'[w].pc = "off" /\ ~(w \in Imports)
        /\ UNCHANGED <<req, overlap>>
    <3>1. w \in Imports /\ work[w].pc = "upsert" => work[w].prune
      BY DEF Typed, PlacedInv, Placed
    <3> QED
      BY <1>7, <3>1, ImportsWork, UpsertEffect, PruneEffect
  <2>2. Moves(w)
    BY <1>a, <2>1, SoloMoves DEF Busy
  <2>3. w \in Imports => WholeFit(w, work'[w], req'[w], daily')
    BY <2>1 DEF WholeFit, Counting
  <2> QED
    BY <1>a, <2>1, <2>2, <2>3, FilesKept
<1>8. CASE PullDays
  <2>1. /\ work[Pull].pc = "off" /\ \A c \in Workers \ {Pull} : work'[c] = work[c]
        /\ work'[Pull].pc = "min" /\ overlap' = (overlap \/ AtWork # {}) /\ req' = req
    BY <1>8, PullEffect
  <2>2. Moves(Pull)
    BY <1>a, <2>1, OthersWork, SoloMoves
  <2> QED
    BY <1>a, <2>1, <2>2, OthersWork, NamesAssumption, FilesKept
<1>9. ASSUME NEW prune \in BOOLEAN, StartSweep(prune)
      PROVE  MinInv' /\ WholeInv'
  <2>1. /\ work[Sweep].pc = "off" /\ \A c \in Workers \ {Sweep} : work'[c] = work[c]
        /\ work'[Sweep].pc = "min" /\ overlap' = (overlap \/ AtWork # {}) /\ req' = req
    BY <1>9, SweepEffect
  <2>2. Moves(Sweep)
    BY <1>a, <2>1, OthersWork, SoloMoves
  <2> QED
    BY <1>a, <2>1, <2>2, OthersWork, NamesAssumption, FilesKept
<1>10. CASE NextDay \/ UNCHANGED vars
  <2>1. UNCHANGED <<work, req, daily, overlap>>
    BY <1>10 DEF NextDay, vars
  <2> QED
    BY <2>1 DEF MinInv, WholeInv, Oldest, StoredDays, Stored
<1>11. ASSUME NEW w \in Workers, Throw(w)
      PROVE  MinInv' /\ WholeInv'
  <2>1. /\ Resets(w, Caught(w)) /\ Caught(w) \in {"off", "dead", "count", "settle"} /\ Busy(w)
        /\ UNCHANGED <<req, overlap>>
    BY <1>11, ThrowEffect
  <2>2. Moves(w)
    BY <1>a, <2>1, SoloMoves DEF Resets
  <2>3. WholeFit(w, work'[w], req'[w], daily')
    BY <2>1 DEF WholeFit, Resets, Counting
  <2> QED
    BY <1>a, <2>1, <2>2, <2>3, FilesKept DEF Resets
<1>12. CASE Crash
  <2>1. /\ \A b \in Imports : work'[b] = work[b] \/ work'[b].pc = "dead"
        /\ work'[Pull].pc = "off" /\ work'[Sweep].pc = "off"
        /\ \A w \in Workers : ~(work'[w].pc \notin {"off", "over", "dead"})
        /\ UNCHANGED <<req, daily, overlap>>
    BY <1>12, CrashEffect
  <2>2. WholeInv'
    <3>1. SUFFICES ASSUME ~overlap, NEW b \in Imports
                   PROVE  WholeFit(b, work'[b], req'[b], daily')
      BY <2>1 DEF WholeInv
    <3>2. WholeFit(b, work[b], req[b], daily)
      BY <1>b, <3>1
    <3>3. CASE work'[b] = work[b]
      BY <2>1, <3>2, <3>3
    <3>4. CASE work'[b].pc = "dead"
      BY <3>4 DEF WholeFit, Counting
    <3> QED
      BY <2>1, <3>3, <3>4
  <2>3. MinInv'
    BY <2>1 DEF MinInv
  <2> QED
    BY <2>2, <2>3
<1> QED
  BY <1>1, <1>2, <1>3, <1>4, <1>5, <1>6, <1>7, <1>8, <1>9, <1>10, <1>11, <1>12
     DEF Next, ImportStep, WorkStep

Writing == {"write", "min", "upsert", "prune"}

\* A row of the import now at work.
Fresh(s, d) == \E b \in Imports : daily[s][d].by = b /\ work[b].pc \in Writing

\* A day that its month adds up and the daily table no longer has.
Gone(t, e) == e \in monthly[t][Month(e)] /\ ~Stored(t, e)

\* Every row older than a pruned day is of the import now at work, or of a day that a
\* pull has brought back.
KeptInv ==
  ~overlap /\ ~broken =>
    \A t \in Skus, e \in Days : Gone(t, e) =>
      e < cutoff /\ \A s \in Skus, d \in Days :
                      Stored(s, d) /\ ~Fresh(s, d) => e < d \/ d \in revived

\* A worker moves, stays with its rows, and leaves the tables alone.
LEMMA KeptKept ==
  ASSUME KeptInv, NEW b \in Workers, \A c \in Workers \ {b} : work'[c] = work[c],
         UNCHANGED <<daily, monthly, cutoff>>, ~overlap' => ~overlap, ~broken' => ~broken,
         revived \subseteq revived',
         b \in Imports /\ work[b].pc \in Writing => work'[b].pc \in Writing
  PROVE  KeptInv'
<1>1. \A s \in Skus, d \in Days : Fresh(s, d) => Fresh(s, d)'
  BY ImportsWork DEF Fresh
<1>2. \A s \in Skus, d \in Days : (Stored(s, d)' <=> Stored(s, d)) /\ (Gone(s, d)' <=> Gone(s, d))
  BY DEF Stored, Gone
<1> QED
  BY <1>1, <1>2 DEF KeptInv

LEMMA KeptInit == Init => KeptInv
<1> SUFFICES ASSUME Init
             PROVE  KeptInv
  OBVIOUS
<1>1. \A s \in Skus : \A m \in Months : monthly[s][m] = {}
  BY DEF Init
<1>2. \A t \in Skus, e \in Days : ~Gone(t, e)
  BY <1>1, FirstDayIs DEF Gone
<1> QED
  BY <1>2 DEF KeptInv

LEMMA KeptNext ==
  Typed /\ Solo /\ RowsInv /\ KeptInv /\ [Next]_vars => KeptInv'
<1> SUFFICES ASSUME Typed, Solo, RowsInv, KeptInv, [Next]_vars
             PROVE  KeptInv'
  OBVIOUS
<1> USE DEF tables, history
<1>a. OwnInv /\ \A b \in Imports : b \in Workers
  BY ImportsWork DEF RowsInv
<1>d. revived \subseteq revived'
  BY RevivedNext
<1>b. cutoff \in Nat /\ MaxCutoff \in Nat /\ Days \subseteq Nat \ {0}
  BY CalendarAssumption DEF Typed, CountsTyped, Days
<1>1. ASSUME NEW b \in Imports, NEW f \in Files, NEW async \in BOOLEAN, Request(b, f, async)
      PROVE  KeptInv'
  <2>1. /\ OnlyGoes(b, "abandon") /\ work[b].pc = "off"
        /\ ~overlap' => ~overlap
        /\ UNCHANGED <<daily, monthly, cutoff, broken>>
    BY <1>1, RequestEffect
  <2> QED
    BY <1>a, <1>d, <2>1, KeptKept DEF OnlyGoes, Writing
<1>2. ASSUME NEW b \in Imports, AbandonStale(b) \/ InsertBatch(b) \/ SaveFile(b)
      PROVE  KeptInv'
  <2>1. /\ work[b].pc \in {"abandon", "insert", "save"}
        /\ OnlyGoes(b, "insert") \/ OnlyGoes(b, "save") \/ OnlyGoes(b, "write")
        /\ UNCHANGED <<daily, monthly, cutoff, overlap, broken>>
    BY <1>2, ImportsWork, GoesTyped DEF AbandonStale, InsertBatch, SaveFile, At, Point, Typed
  <2> QED
    BY <1>a, <1>d, <2>1, KeptKept DEF OnlyGoes, Writing
<1>3. ASSUME NEW b \in Imports, WriteRow(b)
      PROVE  KeptInv'
  <2> DEFINE i == work[b].part
             s == req[b].rows[i]
             days == {d \in Sold[s] : d >= req[b].from}
  <2>1. /\ s \in Skus /\ work[b].pc = "write" /\ i \in 1..Len(req[b].rows)
        /\ \A t \in Skus \ {s} : daily'[t] = daily[t]
        /\ \A d \in Days : daily'[s][d] =
             IF d \in days THEN Merge(daily[s][d], b, i) ELSE daily[s][d]
        /\ \A c \in Workers \ {b} : work'[c] = work[c]
        /\ work'[b].skus = IF days = {} THEN work[b].skus ELSE work[b].skus \cup {s}
        /\ \/ work'[b].pc \in {"write", "min"}
           \/ work'[b].pc = "finish" /\ work'[b].skus = {}
        /\ UNCHANGED <<monthly, cutoff, overlap, broken>>
    BY <1>3, WriteEffect
  <2>2. OwnedBy(b, daily) \subseteq work[b].skus
    BY <1>a, <2>1 DEF OwnInv, OwnFit
  <2>3. daily \in DailyType /\ i \in Nat /\ b \in Imports \cup {None}
    BY <2>1, ImportsWork DEF Typed, DailyTyped, WorkTyped, WorkType
  <2> HIDE DEF s, days, i
  <2>4. ASSUME NEW t \in Skus, NEW d \in Days
        PROVE  /\ t = s /\ d \in days => daily'[t][d].parts # {} /\ daily'[t][d].by = b
               /\ ~(t = s /\ d \in days) => daily'[t][d] = daily[t][d]
    <3>1. daily[t][d] \in RowType
      BY <2>3 DEF DailyType
    <3>2. Merge(daily[t][d], b, i).parts # {} /\ Merge(daily[t][d], b, i).by = b
      BY <2>3, <3>1, MergeTyped
    <3> QED
      BY <2>1, <3>2
  <2>5. ASSUME NEW t \in Skus, NEW d \in Days, Fresh(t, d)
        PROVE  Fresh(t, d)'
    <3>1. PICK c \in Imports : daily[t][d].by = c /\ work[c].pc \in Writing
      BY <2>5 DEF Fresh
    <3>2. CASE t = s /\ d \in days
      <4>1. work'[b].skus # {}
        BY <2>1, <3>2
      <4> QED
        BY <2>1, <2>4, <3>2, <4>1 DEF Fresh, Writing
    <3>3. CASE ~(t = s /\ d \in days) /\ c # b
      BY <1>a, <2>1, <2>4, <3>1, <3>3 DEF Fresh
    <3>4. CASE ~(t = s /\ d \in days) /\ c = b
      <4>1. t \in work[b].skus
        BY <2>2, <3>1, <3>4 DEF OwnedBy
      <4>2. work'[b].skus # {}
        BY <2>1, <4>1
      <4> QED
        BY <2>1, <2>4, <3>1, <3>4, <4>2 DEF Fresh, Writing
    <3> QED
      BY <3>2, <3>3, <3>4
  <2>6. ASSUME NEW t \in Skus, NEW d \in Days, Stored(t, d)', ~Fresh(t, d)'
        PROVE  Stored(t, d) /\ ~Fresh(t, d)
    <3>1. CASE t = s /\ d \in days
      <4>1. work'[b].skus # {}
        BY <2>1, <3>1
      <4> QED
        BY <2>1, <2>4, <2>6, <3>1, <4>1 DEF Fresh, Writing
    <3>2. CASE ~(t = s /\ d \in days)
      BY <2>4, <2>5, <2>6, <3>2 DEF Stored
    <3> QED
      BY <3>1, <3>2
  <2>7. ASSUME NEW t \in Skus, NEW d \in Days, Gone(t, d)'
        PROVE  Gone(t, d)
    BY <2>1, <2>4, <2>7 DEF Gone, Stored
  <2> QED
    BY <1>d, <2>1, <2>6, <2>7 DEF KeptInv
<1>4. ASSUME NEW b \in Imports, NEW errors \in BOOLEAN, Finish(b, errors) \/ SettleFailed(b)
      PROVE  KeptInv'
  <2>1. /\ work[b].pc \in {"finish", "settle"} /\ Resets(b, "over")
        /\ UNCHANGED <<daily, monthly, cutoff, overlap, broken>>
    BY <1>4, OverEffect DEF Finish, SettleFailed, At
  <2> QED
    BY <1>a, <1>d, <2>1, KeptKept DEF Resets, Writing
<1>5. ASSUME NEW b \in Imports, CountRows(b)
      PROVE  KeptInv'
  <2>1. /\ work[b].pc = "count" /\ \A c \in Workers \ {b} : work'[c] = work[c]
        /\ UNCHANGED <<daily, monthly, cutoff, overlap, broken>>
    BY <1>5, CountEffect
  <2> QED
    BY <1>a, <1>d, <2>1, KeptKept DEF Writing
<1>c. ASSUME NEW w \in Imports, work[w].pc \in {"min", "upsert"}
      PROVE  work[w].prune
  BY <1>c DEF Typed, PlacedInv, Placed
<1>6. ASSUME NEW w \in Workers, ReadOldest(w)
      PROVE  KeptInv'
  <2>1. /\ work[w].pc = "min" /\ \A c \in Workers \ {w} : work'[c] = work[c]
        /\ work'[w].pc \in {"upsert", "prune"} \/ (work'[w].pc = "off" /\ ~work[w].prune)
        /\ UNCHANGED <<daily, monthly, cutoff, overlap, broken>>
    BY <1>6, OldestEffect
  <2> QED
    BY <1>c, <1>d, <2>1, KeptKept DEF Writing
<1>7. ASSUME NEW w \in Workers, UpsertMonths(w)
      PROVE  KeptInv'
  <2>1. /\ work[w].pc = "upsert" /\ \A c \in Workers \ {w} : work'[c] = work[c]
        /\ work'[w].pc = "prune" \/ (work'[w].pc = "off" /\ ~work[w].prune)
        /\ \A s \in Skus, m \in Months : monthly'[s][m] =
             IF s \in work[w].skus THEN Aggregated(s, m, work[w].min) ELSE monthly[s][m]
        /\ UNCHANGED <<daily, cutoff, overlap, broken>>
    BY <1>7, UpsertEffect
  <2>2. \A s \in Skus, d \in Days : Fresh(s, d) => Fresh(s, d)'
    BY <1>a, <1>c, <2>1 DEF Fresh, Writing
  <2>3. ASSUME NEW t \in Skus, NEW e \in Days, Gone(t, e)'
        PROVE  Gone(t, e)
    <3>1. monthly'[t][Month(e)] \in {DaysOf(t, Month(e)), monthly[t][Month(e)]}
      BY <2>1, FirstDayIs DEF Aggregated
    <3>2. e \notin DaysOf(t, Month(e))
      BY <2>1, <2>3 DEF DaysOf, Gone, Stored
    <3> QED
      BY <2>1, <2>3, <3>1, <3>2 DEF Gone, Stored
  <2> QED
    BY <1>d, <2>1, <2>2, <2>3 DEF KeptInv, Stored
<1>8. ASSUME NEW w \in Workers, Prune(w)
      PROVE  KeptInv'
  <2>1. /\ \A s \in Skus, d \in Days :
             daily'[s][d] = IF d < cutoff THEN NoRow ELSE daily[s][d]
        /\ UNCHANGED <<monthly, cutoff, overlap, broken>>
    BY <1>8, PruneEffect
  <2>2. SUFFICES ASSUME ~overlap, ~broken, NEW t \in Skus, NEW e \in Days, Gone(t, e)'
                 PROVE  /\ e < cutoff
                        /\ \A s \in Skus, d \in Days : Stored(s, d)' => e < d
    BY <2>1 DEF KeptInv
  <2>3. e < cutoff
    <3>1. CASE Stored(t, e)
      BY <2>1, <2>2, <3>1 DEF Gone, Stored
    <3>2. CASE ~Stored(t, e)
      BY <2>1, <2>2, <3>2 DEF Gone, KeptInv
    <3> QED
      BY <3>1, <3>2
  <2>4. ASSUME NEW s \in Skus, NEW d \in Days, Stored(s, d)'
        PROVE  ~(d < cutoff)
    BY <2>1, <2>4, NoRowTyped DEF Stored
  <2>5. ASSUME NEW s \in Skus, NEW d \in Days, Stored(s, d)'
        PROVE  e < d
    <3>1. e \in Nat /\ d \in Nat /\ cutoff \in Nat /\ ~(d < cutoff) /\ e < cutoff
      BY <1>b, <2>3, <2>4, <2>5
    <3> QED
      BY <3>1
  <2> QED
    BY <2>3, <2>5
<1>9. CASE PullDays
  <2>1. /\ \A c \in Workers \ {Pull} : work'[c] = work[c]
        /\ \A s \in Skus, d \in Days : daily'[s][d] =
             IF d \in Sold[s] \cap Recent[s] THEN Merge(daily[s][d], None, 0) ELSE daily[s][d]
        /\ ~overlap' => ~overlap
        /\ UNCHANGED <<monthly, cutoff, broken>>
    BY <1>9, PullEffect
  <2>2. \A b \in Imports : work'[b] = work[b]
    BY <2>1, ImportsWork
  <2>3. ASSUME NEW t \in Skus, NEW e \in Days, Gone(t, e)'
        PROVE  Gone(t, e)
    <3>1. CASE e \notin Sold[t] \cap Recent[t]
      BY <2>1, <2>3, <3>1 DEF Gone, Stored
    <3>2. CASE e \in Sold[t] \cap Recent[t]
      <4> DEFINE row == daily[t][e]
      <4>1. row \in RowType /\ None \in Imports \cup {None} /\ 0 \in Nat
        BY DEF Typed, DailyTyped, DailyType
      <4>2. daily'[t][e] = Merge(row, None, 0)
        BY <2>1, <3>2
      <4> HIDE DEF row
      <4>3. Merge(row, None, 0).parts # {}
        BY <4>1, MergeTyped
      <4> QED
        BY <2>3, <4>2, <4>3 DEF Gone, Stored
    <3> QED
      BY <3>1, <3>2
  <2>4. SUFFICES ASSUME ~overlap', ~broken', NEW t \in Skus, NEW e \in Days, Gone(t, e),
                        NEW s \in Skus, NEW d \in Days, Stored(s, d)', ~Fresh(s, d)'
                 PROVE  e < d \/ d \in revived'
    BY <2>1, <2>3 DEF KeptInv
  <2>5. e < cutoff /\ (Stored(s, d) /\ ~Fresh(s, d) => e < d \/ d \in revived)
    BY <2>1, <2>4 DEF KeptInv
  <2>6. CASE d \in Sold[s] \cap Recent[s]
    <3>1. d < cutoff => d \in revived'
      <4>1. revived' = revived \cup {x \in 1..(cutoff - 1) :
              \E u \in {v \in Skus : Sold[v] \cap Recent[v] # {}} : x \in Sold[u] \cap Recent[u]}
        <5>1. ~(overlap' \/ broken)
          BY <2>1, <2>4
        <5>2. revived' = IF overlap' \/ broken THEN revived ELSE revived \cup
                {x \in 1..(cutoff - 1) :
                   \E u \in {v \in Skus : Sold[v] \cap Recent[v] # {}} : x \in Sold[u] \cap Recent[u]}
          BY <1>9, Zenon DEF PullDays
        <5> QED
          BY <5>1, <5>2
      <4>2. d < cutoff => d \in 1..(cutoff - 1)
        BY <1>b
      <4> QED
        BY <2>6, <4>1, <4>2
    <3>2. d \in Nat /\ e \in Nat
      BY <1>b
    <3> QED
      BY <1>b, <2>5, <3>1, <3>2
  <2>7. CASE d \notin Sold[s] \cap Recent[s]
    <3>1. daily'[s][d] = daily[s][d]
      BY <2>1, <2>7
    <3>2. Stored(s, d) /\ ~Fresh(s, d)
      BY <2>2, <2>4, <3>1 DEF Stored, Fresh
    <3> QED
      BY <1>d, <2>5, <3>2
  <2> QED
    BY <2>6, <2>7
<1>10. ASSUME NEW prune \in BOOLEAN, StartSweep(prune)
      PROVE  KeptInv'
  <2>1. /\ \A c \in Workers \ {Sweep} : work'[c] = work[c]
        /\ ~overlap' => ~overlap
        /\ UNCHANGED <<daily, monthly, cutoff, broken>>
    BY <1>10, SweepEffect
  <2> QED
    BY <1>d, <2>1, OthersWork, NamesAssumption, KeptKept
<1>11. CASE NextDay \/ UNCHANGED vars
  <2>1. /\ cutoff' \in {cutoff, cutoff + 1}
        /\ UNCHANGED <<work, daily, monthly, overlap, broken>>
    BY <1>11 DEF NextDay, vars
  <2>2. \A e \in Days : e < cutoff => e < cutoff'
    BY <1>b, <2>1
  <2> QED
    BY <1>d, <2>1, <2>2 DEF KeptInv, Gone, Stored, Fresh
<1>12. CASE Crash \/ \E w \in Workers : Throw(w)
  BY <1>12 DEF Crash, Throw, KeptInv
<1> QED
  BY <1>1, <1>2, <1>3, <1>4, <1>5, <1>6, <1>7, <1>8, <1>9, <1>10, <1>11, <1>12
     DEF Next, ImportStep, WorkStep

MonthsInv == SoldInv /\ MinInv /\ WholeInv /\ KeptInv

LEMMA MonthsInit == Init => MonthsInv
  BY SoldInit, KeptInit DEF MonthsInv

LEMMA MonthsNext ==
  Typed /\ Solo /\ RowsInv /\ MonthsInv /\ [Next]_vars => MonthsInv'
  BY SoldNext, FilesNext, KeptNext DEF MonthsInv

\* Alone, an aggregation writes no month whose days it does not all have, unless a pull has
\* brought back a day from before it.
LEMMA MonthsGrow ==
  ASSUME Typed, Solo, MonthsInv, NEW w \in Workers, UpsertMonths(w), ~overlap, ~broken,
         NEW s \in Skus, NEW m \in Months
  PROVE  Shrinks(s, m) => \E d \in revived \cap StoredDays : d <= FirstDay(m)
<1> SUFFICES ASSUME \A d \in revived \cap StoredDays : ~(d <= FirstDay(m))
             PROVE  monthly[s][m] \subseteq monthly'[s][m]
  BY DEF Shrinks
<1>1. /\ work[w].pc = "upsert"
      /\ monthly'[s][m] =
           IF s \in work[w].skus THEN Aggregated(s, m, work[w].min) ELSE monthly[s][m]
  BY UpsertEffect
<1> DEFINE min == work[w].min
<1>2. SUFFICES ASSUME s \in work[w].skus, FirstDay(m) >= min, NEW x \in monthly[s][m]
               PROVE  x \in DaysOf(s, m)
  BY <1>1 DEF Aggregated
<1>3. x \in Days /\ Month(x) = m /\ x \in Sold[s]
  BY <1>2 DEF MonthsInv, SoldInv, Typed, MonthlyTyped, MonthlyType
<1>4. SUFFICES ASSUME ~Stored(s, x)
               PROVE  FALSE
  BY <1>3 DEF DaysOf
<1>5. min \in StoredDays
  BY <1>1 DEF MonthsInv, MinInv, Oldest
<1>6. PICK t \in Skus : Stored(t, min)
  BY <1>5 DEF StoredDays
<1>7. min \in Days /\ min \in Nat /\ x \in Nat /\ min <= x
  <2>1. FirstDay(m) \in Nat /\ FirstDay(m) <= x
    BY <1>3, FirstDayIs
  <2>2. min \in Days /\ min \in Nat /\ x \in Nat
    BY <1>3, <1>5, CalendarAssumption DEF StoredDays, Days
  <2> HIDE DEF min
  <2> QED
    BY <1>2, <2>1, <2>2
<1>8. Gone(s, x)
  BY <1>2, <1>3, <1>4 DEF Gone
<1>9. ~Fresh(t, min) => x < min
  <2>1. ~Fresh(t, min) => x < min \/ min \in revived
    BY <1>3, <1>6, <1>7, <1>8 DEF MonthsInv, KeptInv
  <2> HIDE DEF min
  <2> QED
    BY <1>2, <1>5, <2>1
<1>10. CASE ~Fresh(t, min)
  <2> HIDE DEF min
  <2> QED
    BY <1>7, <1>9, <1>10
<1>11. CASE Fresh(t, min)
  <2>1. PICK b \in Imports : daily[t][min].by = b /\ work[b].pc \in Writing
    BY <1>11 DEF Fresh
  <2>2. b = w
    BY <1>1, <2>1, ImportsWork DEF Solo, SoloInv, Busy, Writing
  <2>3. /\ \A d \in Sold[s] : d >= req[b].from => daily[s][d].parts # {}
        /\ min >= req[b].from
    BY <1>1, <1>2, <1>6, <1>7, <2>1, <2>2 DEF MonthsInv, WholeInv, WholeFit, Counting
  <2>4. req[b].from \in Nat
    BY DEF Typed, ReqTyped, FileType
  <2>5. x >= req[b].from
    <3> HIDE DEF min
    <3> QED
      BY <1>7, <2>3, <2>4
  <2> QED
    BY <1>3, <1>4, <2>3, <2>5 DEF Stored
<1> QED
  BY <1>10, <1>11

\* A month loses none of the days it adds up, as long as workers neither overlap nor fail,
\* unless the daily table holds a day from before the month that a pull has brought back: the
\* remains of a pruned month never overwrite its quantity (sales-history-monthly.ts
\* shouldAggregateCalendarMonth).
THEOREM MonthsHold == Spec => SoloMonthsKeepTheirDays
<1> DEFINE Grows == overlap' \/ broken' \/ \A s \in Skus, m \in Months :
                      Shrinks(s, m) => \E d \in revived \cap StoredDays : d <= FirstDay(m)
<1>1. Typed /\ Solo /\ MonthsInv /\ [Next]_vars => Grows
  <2>1. SUFFICES ASSUME Typed, Solo, MonthsInv, [Next]_vars, ~overlap', ~broken',
                        NEW s \in Skus, NEW m \in Months
                 PROVE  Shrinks(s, m) => \E d \in revived \cap StoredDays : d <= FirstDay(m)
    OBVIOUS
  <2>2. ASSUME NEW w \in Workers, UpsertMonths(w)
        PROVE  Shrinks(s, m) => \E d \in revived \cap StoredDays : d <= FirstDay(m)
    <3>1. ~overlap /\ ~broken
      BY <2>1, <2>2 DEF UpsertMonths
    <3> QED
      BY <2>1, <2>2, <3>1, MonthsGrow
  <2>3. CASE monthly' = monthly
    BY <2>3 DEF Shrinks
  <2> QED
    BY <2>1, <2>2, <2>3 DEF Next, ImportStep, WorkStep, Request, AbandonStale, InsertBatch,
       SaveFile, WriteRow, Finish, CountRows, SettleFailed, ReadOldest, Prune, PullDays, Throw,
       StartSweep, NextDay, Crash, vars, tables
<1>2. Typed /\ Solo /\ MonthsInv /\ [Next]_vars => [Grows]_vars
  BY <1>1
<1>3. Typed /\ Solo /\ RowsInv /\ MonthsInv /\ [Next]_vars => MonthsInv'
  BY MonthsNext
<1>4. Spec => [](Typed /\ Solo /\ MonthsInv)
  BY <1>3, RowsHold, MonthsInit, PTL DEF Spec
<1> QED
  BY <1>2, <1>4, PTL DEF Spec, SoloMonthsKeepTheirDays
=============================================================================
