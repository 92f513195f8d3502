---------------------- MODULE ForecastVersionsProofs ----------------------
(***************************************************************************)
(* Proofs about ForecastVersions for any requests, versions and SKUs.       *)
(***************************************************************************)
EXTENDS ForecastVersions, FiniteSetTheorems, WellFoundedInduction, TLAPS

\* A nonempty set of naturals has a least element.
LEMMA Least ==
  ASSUME NEW T \in SUBSET Nat, T # {}
  PROVE  \E x \in T : \A y \in T : x <= y
<1>1. IsWellFoundedOn(OpToRel(<, Nat), Nat)
  BY NatLessThanWellFounded
<1>2. PICK x \in T : \A y \in T : ~(<<y, x>> \in OpToRel(<, Nat))
  BY <1>1, WFMin
<1>3. \A y \in T : ~(y < x)
  BY <1>2 DEF OpToRel
<1>4. ASSUME NEW y \in T
      PROVE  x <= y
  <2>1. x \in Nat /\ y \in Nat /\ ~(y < x)
    BY <1>3
  <2> QED
    BY <2>1
<1> QED
  BY <1>4

-----------------------------------------------------------------------------
(* Types *)

Pcs == {"idle", "read", "row", "set", "archive", "find", "target", "open",
        "copy", "drop", "write", "check", "create", "purge", "next", "put",
        "fail", "raise", "rows", "wipe", "over"}
OpNames == {"publish", "merge", "delete", "edit", "calibrate", "archive", "generate",
            "regenerate", "reset"}
SeenType == [Skus -> Row \cup {NoRow}]
WorkType == [op: OpNames \cup {"none"}, pc: Pcs,
             v: Versions \cup {NoVersion}, p: Versions \cup {NoVersion},
             seen: SeenType, todo: SUBSET Skus, began: Nat]
VersionType == [status: Status, at: Nat]
TaskType == {"none", "running", "failed", "success"}

LEMMA OpsAre == Ops = OpNames
  BY DEF Ops, OpNames, First

LEMMA FirstIs ==
  /\ First["publish"] = "read" /\ First["merge"] = "read" /\ First["delete"] = "read"
  /\ First["edit"] = "row" /\ First["calibrate"] = "read" /\ First["archive"] = "archive"
  /\ First["generate"] = "check" /\ First["regenerate"] = "read" /\ First["reset"] = "fail"
  BY DEF First

LEMMA AfterReadIs ==
  /\ AfterRead["publish"] = "set" /\ AfterRead["merge"] = "find"
  /\ AfterRead["delete"] = "drop" /\ AfterRead["edit"] = "write"
  /\ AfterRead["calibrate"] = "row" /\ AfterRead["regenerate"] = "check"
  BY DEF AfterRead

TablesTyped == /\ version \in [Versions -> VersionType]
               /\ rows \in [Versions -> SeenType]
               /\ clock \in Nat
WorkTyped == work \in [Reqs -> WorkType]
RestTyped == /\ task \in [Reqs -> TaskType]
             /\ flag \in BOOLEAN /\ fresh \in BOOLEAN
             /\ late \in [Reqs -> Nat]

LEMMA TypeParts == TypeOK <=> TablesTyped /\ WorkTyped /\ RestTyped
  BY OpsAre DEF TypeOK, TablesTyped, WorkTyped, RestTyped, VersionType, SeenType, WorkType,
     Pcs, TaskType

LEMMA TypePartsNext == TypeOK' <=> TablesTyped' /\ WorkTyped' /\ RestTyped'
  BY OpsAre DEF TypeOK, TablesTyped, WorkTyped, RestTyped, VersionType, SeenType, WorkType,
     Pcs, TaskType, Row

\* Only r moves, and it becomes w.
Turns(r, w) == /\ work' \in [Reqs -> WorkType]
               /\ work'[r] = w
               /\ \A q \in Reqs \ {r} : work'[q] = work[q]

LEMMA SetTurns ==
  ASSUME WorkTyped, NEW r \in Reqs, NEW w \in WorkType, work' = [work EXCEPT ![r] = w]
  PROVE  Turns(r, w)
  BY DEF WorkTyped, Turns

\* The fields of a request's record that go on, and those that it had before.
LEMMA FieldsOf ==
  ASSUME NEW w \in WorkType, NEW op \in OpNames, NEW pc \in Pcs,
         NEW v \in Versions \cup {NoVersion}, NEW seen \in SeenType, NEW todo \in SUBSET Skus
  PROVE  /\ [w EXCEPT !.pc = pc] \in WorkType
         /\ [w EXCEPT !.op = op, !.pc = pc] \in WorkType
         /\ [w EXCEPT !.p = v, !.pc = pc] \in WorkType
         /\ [w EXCEPT !.pc = pc, !.seen = seen] \in WorkType
         /\ [w EXCEPT !.seen = seen, !.pc = pc] = [w EXCEPT !.pc = pc, !.seen = seen]
         /\ [w EXCEPT !.v = v, !.todo = todo, !.pc = pc] \in WorkType
         /\ [w EXCEPT !.todo = todo, !.pc = pc] \in WorkType
         /\ [w EXCEPT !.pc = pc, !.todo = todo] = [w EXCEPT !.todo = todo, !.pc = pc]
  BY DEF WorkType

LEMMA IdleTyped ==
  /\ Idle \in WorkType
  /\ \A op \in OpNames, pc \in Pcs, v \in Versions \cup {NoVersion}, c \in Nat :
       [Idle EXCEPT !.op = op, !.pc = pc, !.v = v, !.began = c] \in WorkType
<1>1. Idle \in WorkType
  BY DEF Idle, WorkType, NoRows, SeenType, Pcs
<1>2. ASSUME NEW op \in OpNames, NEW pc \in Pcs, NEW v \in Versions \cup {NoVersion},
             NEW c \in Nat
      PROVE  [Idle EXCEPT !.op = op, !.pc = pc, !.v = v, !.began = c] \in WorkType
  BY <1>1 DEF WorkType
<1> QED
  BY <1>1, <1>2

LEMMA GoTurns ==
  ASSUME WorkTyped, NEW r \in Reqs, NEW pc \in Pcs, Go(r, pc)
  PROVE  Turns(r, [work[r] EXCEPT !.pc = pc])
<1>1. work[r] \in WorkType
  BY DEF WorkTyped
<1>2. [work[r] EXCEPT !.pc = pc] \in WorkType
  BY <1>1 DEF WorkType
<1> QED
  BY <1>2, SetTurns DEF Go

-----------------------------------------------------------------------------
(* The inductive invariant *)

\* What a request is at fits its operation and what it has.
Fits(w) ==
  /\ w.pc = "read" => w.op \in {"publish", "merge", "delete", "edit", "calibrate", "regenerate"}
  /\ w.pc = "row" => w.op \in {"edit", "calibrate"}
  /\ w.pc \in {"find", "target", "open", "copy"} => w.op = "merge"
  /\ w.pc \in {"target", "open", "copy"} => w.p \in Versions
  /\ w.pc \in {"read", "row", "find", "target", "open", "copy", "set", "drop", "archive",
               "purge", "write", "next", "put"} => w.v \in Versions
  /\ w.pc = "check" => w.op = "generate" \/ (w.op = "regenerate" /\ w.v \in Versions)
  /\ w.pc = "purge" => w.op = "regenerate"
  /\ w.pc = "archive" => w.op = "archive"
  /\ w.pc \in {"fail", "raise", "rows", "wipe"} => w.op = "reset"

\* A request that has read its version as a draft: it still is one, or it changed since.
HasRead(w) ==
  \/ w.pc \in {"set", "drop", "find", "target", "open", "copy", "write", "purge", "next", "put"}
  \/ w.pc = "row" /\ w.op = "calibrate"
  \/ w.pc = "check" /\ w.op = "regenerate"
Known(w, ver) ==
  HasRead(w) => ver[w.v].status = "draft" \/ w.began < ver[w.v].at

\* A merge that no decision overtook aims at the version published last.
Aims(w, ver, rws, c) ==
  w.pc \in {"target", "open", "copy"} /\ w.began = c =>
    /\ ver[w.p].status = "published"
    /\ \A u \in Versions : ver[u].status = "published" => ver[u].at <= ver[w.p].at
    /\ w.pc = "copy" => \A s \in Skus : w.seen[s] # NoRow => rws[w.v][s] # NoRow

\* A run that no decision overtook has put the rows that are not left to do.
Full(w, rws, c) ==
  w.op = "generate" /\ w.pc \in {"next", "put"} /\ w.began = c =>
    /\ \A s \in Skus \ w.todo : rws[w.v][s] # NoRow
    /\ w.pc = "put" => \A s \in Skus : w.seen[s] # NoRow => rws[w.v][s] # NoRow

Fine(w, ver, rws, c) ==
  Fits(w) /\ Known(w, ver) /\ Aims(w, ver, rws, c) /\ Full(w, rws, c) /\ w.began <= c

WorkInv == \A r \in Reqs : Fine(work[r], version, rows, clock)

\* No decision is later than the clock, and no two publications are of the same time.
ClockInv ==
  /\ \A v \in Versions : version[v].at <= clock
  /\ \A u, v \in Versions : /\ version[u].status = "published"
                            /\ version[v].status = "published"
                            /\ version[u].at = version[v].at
                            => u = v

LateInv ==
  flag => \A r \in Reqs : \/ late[r] = 0
                          \/ late[r] = 1 /\ work[r].pc \in {"next", "over"}

TaskInv ==
  \A r \in Reqs : /\ task[r] # "none" => work[r].op = "generate"
                  /\ task[r] = "success" => work[r].pc = "over"
                  /\ work[r].pc = "idle" => task[r] = "none"

Inv == TypeOK /\ ClockInv /\ WorkInv /\ LateInv /\ TaskInv

\* What every step does to the tables: the clock goes on with each decision, a version
\* that changes takes its time, at most one comes to be published, and rows are
\* removed by decisions only.
Forward ==
  /\ clock <= clock'
  /\ \A v \in Versions :
       \/ version'[v] = version[v]
       \/ version'[v].at = clock' /\ clock < clock'
       \/ version[v].status = "new" /\ version'[v].status = "draft" /\ version'[v].at <= clock
  /\ \A v \in Versions : version'[v].status = "published" /\ version'[v] # version[v] =>
       /\ version'[v].at = clock' /\ clock < clock'
       /\ \A u \in Versions \ {v} : version'[u] = version[u]
  /\ clock' = clock =>
       \A v \in Versions, s \in Skus : rows[v][s] # NoRow => rows'[v][s] # NoRow

LEMMA Standing ==
  ASSUME UNCHANGED <<version, rows, clock>>, TablesTyped
  PROVE  Forward
  BY DEF Forward, TablesTyped

LEMMA ForwardClock ==
  ASSUME TablesTyped, TablesTyped', ClockInv, Forward
  PROVE  ClockInv'
<1>1. ASSUME NEW v \in Versions
      PROVE  version'[v].at <= clock'
  BY <1>1 DEF TablesTyped, ClockInv, Forward, VersionType
<1>2. ASSUME NEW u \in Versions, NEW v \in Versions, version'[u].status = "published",
             version'[v].status = "published", version'[u].at = version'[v].at, u # v
      PROVE  FALSE
  <2>1. CASE version'[u] = version[u] /\ version'[v] = version[v]
    BY <1>2, <2>1 DEF ClockInv
  <2>2. CASE version'[u] # version[u]
    <3>1. version'[v] = version[v] /\ version'[u].at = clock' /\ clock < clock'
      BY <1>2, <2>2 DEF Forward
    <3> QED
      BY <1>2, <3>1 DEF TablesTyped, ClockInv, VersionType
  <2>3. CASE version'[v] # version[v]
    <3>1. version'[u] = version[u] /\ version'[v].at = clock' /\ clock < clock'
      BY <1>2, <2>3 DEF Forward
    <3> QED
      BY <1>2, <3>1 DEF TablesTyped, ClockInv, VersionType
  <2> QED
    BY <2>1, <2>2, <2>3
<1> QED
  BY <1>1, <1>2 DEF ClockInv

\* What holds of a request goes on holding while the tables go forward.
LEMMA ForwardFine ==
  ASSUME TablesTyped, TablesTyped', Forward, NEW w \in WorkType,
         Fine(w, version, rows, clock)
  PROVE  Fine(w, version', rows', clock')
<1>1. Fits(w) /\ Known(w, version) /\ Aims(w, version, rows, clock) /\ Full(w, rows, clock)
      /\ w.began <= clock
  BY DEF Fine
<1>2. clock \in Nat /\ clock' \in Nat /\ w.began \in Nat /\ clock <= clock'
  BY DEF TablesTyped, WorkType, Forward
<1>3. Known(w, version')
  <2>1. SUFFICES ASSUME HasRead(w)
                 PROVE  version'[w.v].status = "draft" \/ w.began < version'[w.v].at
    BY DEF Known
  <2>2. w.v \in Versions /\ (version[w.v].status = "draft" \/ w.began < version[w.v].at)
    BY <1>1, <2>1 DEF Fits, Known, HasRead
  <2>3. version[w.v].at \in Nat /\ version'[w.v].at \in Nat
    BY <2>2 DEF TablesTyped, VersionType
  <2> QED
    BY <1>1, <1>2, <2>2, <2>3 DEF Forward
<1>4. Aims(w, version', rows', clock')
  <2>1. SUFFICES ASSUME w.pc \in {"target", "open", "copy"}, w.began = clock'
                 PROVE  /\ version'[w.p].status = "published"
                        /\ \A u \in Versions : version'[u].status = "published" =>
                             version'[u].at <= version'[w.p].at
                        /\ w.pc = "copy" =>
                             \A s \in Skus : w.seen[s] # NoRow => rows'[w.v][s] # NoRow
    BY DEF Aims
  <2>2. clock' = clock /\ w.began = clock
    BY <1>1, <1>2, <2>1
  <2>3. /\ version[w.p].status = "published" /\ w.p \in Versions /\ w.v \in Versions
        /\ \A u \in Versions : version[u].status = "published" =>
             version[u].at <= version[w.p].at
        /\ w.pc = "copy" => \A s \in Skus : w.seen[s] # NoRow => rows[w.v][s] # NoRow
    BY <1>1, <2>1, <2>2 DEF Aims, Fits
  <2>4. \A u \in Versions : \/ version'[u] = version[u]
                            \/ version[u].status = "new" /\ version'[u].status = "draft"
    BY <1>2, <2>2 DEF Forward
  <2>5. \A v \in Versions, s \in Skus : rows[v][s] # NoRow => rows'[v][s] # NoRow
    BY <2>2 DEF Forward
  <2> QED
    BY <2>3, <2>4, <2>5
<1>5. Full(w, rows', clock')
  <2>1. SUFFICES ASSUME w.op = "generate", w.pc \in {"next", "put"}, w.began = clock'
                 PROVE  /\ \A s \in Skus \ w.todo : rows'[w.v][s] # NoRow
                        /\ w.pc = "put" =>
                             \A s \in Skus : w.seen[s] # NoRow => rows'[w.v][s] # NoRow
    BY DEF Full
  <2>2. clock' = clock /\ w.began = clock
    BY <1>1, <1>2, <2>1
  <2>3. /\ w.v \in Versions
        /\ \A s \in Skus \ w.todo : rows[w.v][s] # NoRow
        /\ w.pc = "put" => \A s \in Skus : w.seen[s] # NoRow => rows[w.v][s] # NoRow
    BY <1>1, <2>1, <2>2 DEF Full, Fits
  <2>4. \A v \in Versions, s \in Skus : rows[v][s] # NoRow => rows'[v][s] # NoRow
    BY <2>2 DEF Forward
  <2> QED
    BY <2>3, <2>4
<1> QED
  BY <1>1, <1>2, <1>3, <1>4, <1>5 DEF Fine

\* So it is enough to look at the request that moves.
LEMMA MoverFine ==
  ASSUME Inv, TablesTyped', Forward, NEW r \in Reqs, NEW w \in WorkType, Turns(r, w),
         Fine(w, version', rows', clock')
  PROVE  WorkTyped' /\ TablesTyped /\ ClockInv' /\ WorkInv'
<1>1. TablesTyped /\ WorkTyped /\ WorkTyped' /\ ClockInv /\ WorkInv
  BY TypeParts DEF Inv, Turns, WorkTyped
<1>2. ASSUME NEW q \in Reqs
      PROVE  Fine(work'[q], version', rows', clock')
  <2>1. CASE q = r
    BY <2>1 DEF Turns
  <2>2. CASE q # r
    <3>1. work'[q] = work[q] /\ work[q] \in WorkType /\ Fine(work[q], version, rows, clock)
      BY <1>1, <2>2 DEF Turns, WorkTyped, WorkInv
    <3>2. Fine(work[q], version', rows', clock')
      BY <1>1, <3>1, ForwardFine
    <3> QED
      BY <3>1, <3>2
  <2> QED
    BY <2>1, <2>2
<1> QED
  BY <1>1, <1>2, ForwardClock DEF WorkInv

-----------------------------------------------------------------------------
(* Steps that go on, and steps that end a request *)

LEMMA OverFine ==
  ASSUME NEW w \in WorkType, NEW ver, NEW rws, NEW c \in Nat, w.pc = "over", w.began <= c
  PROVE  Fine(w, ver, rws, c)
  BY DEF Fine, Fits, Known, HasRead, Aims, Full

LEMMA InvParts ==
  ASSUME Inv
  PROVE  /\ TablesTyped /\ WorkTyped /\ RestTyped /\ ClockInv /\ WorkInv /\ LateInv /\ TaskInv
         /\ \A r \in Reqs : work[r] \in WorkType /\ Fine(work[r], version, rows, clock)
  BY TypeParts DEF Inv, WorkTyped, WorkInv

\* A request that goes on.
LEMMA OnStep ==
  ASSUME Inv, NEW r \in Reqs, NEW w \in WorkType, Turns(r, w), TablesTyped', Forward,
         Fine(w, version', rows', clock'),
         work[r].op = "generate" => w.op = "generate", work[r].pc # "over", w.pc # "idle",
         ~flag \/ work[r].pc # "next" \/ w.pc \in {"next", "over"},
         UNCHANGED <<task, flag, late>>, fresh' \in BOOLEAN
  PROVE  Inv'
<1>1. WorkTyped' /\ ClockInv' /\ WorkInv' /\ RestTyped /\ LateInv /\ TaskInv
  BY MoverFine, InvParts
<1>2. RestTyped'
  BY <1>1 DEF RestTyped
<1>3. LateInv'
  BY <1>1 DEF LateInv, Turns
<1>4. TaskInv'
  BY <1>1 DEF TaskInv, Turns
<1> QED
  BY <1>1, <1>2, <1>3, <1>4, TypePartsNext DEF Inv

\* A request that ends, with or without a task record to close.
LEMMA OverStep ==
  ASSUME Inv, NEW r \in Reqs, Go(r, "over"), TablesTyped', Forward,
         task' = task \/ \E o \in {"failed", "success"} : Ended(r, o),
         flag' = flag \/ flag' = FALSE, late' = late, fresh' \in BOOLEAN
  PROVE  Inv'
<1> DEFINE w == [work[r] EXCEPT !.pc = "over"]
<1>1. TablesTyped /\ WorkTyped /\ RestTyped /\ LateInv /\ TaskInv /\ work[r] \in WorkType
      /\ Fine(work[r], version, rows, clock)
  BY InvParts
<1>2. w \in WorkType /\ w.pc = "over" /\ w.op = work[r].op /\ w.began = work[r].began
  BY <1>1 DEF WorkType, Pcs
<1>3. Turns(r, w)
  BY <1>1, GoTurns DEF Pcs
<1> HIDE DEF w
<1>4. w.began <= clock'
  <2>1. work[r].began <= clock /\ clock <= clock'
    BY <1>1 DEF Fine, Forward
  <2>2. work[r].began \in Nat /\ clock \in Nat /\ clock' \in Nat
    BY <1>1 DEF WorkType, TablesTyped
  <2> QED
    BY <1>2, <2>1, <2>2
<1>5. clock' \in Nat
  BY DEF TablesTyped
<1>6. Fine(w, version', rows', clock')
  BY <1>2, <1>4, <1>5, OverFine
<1>7. WorkTyped' /\ ClockInv' /\ WorkInv'
  BY <1>2, <1>3, <1>6, MoverFine
<1>8. task' = task \/ \E o \in {"failed", "success"} : task' = [task EXCEPT ![r] = o] /\ task[r] # "none"
  BY DEF Ended
<1>9. RestTyped'
  BY <1>1, <1>8 DEF RestTyped, TaskType
<1>10. LateInv'
  BY <1>1, <1>2, <1>3 DEF LateInv, Turns
<1>11. TaskInv'
  BY <1>1, <1>2, <1>3, <1>8 DEF TaskInv, Turns, RestTyped
<1> QED
  BY <1>7, <1>9, <1>10, <1>11, TypePartsNext DEF Inv

-----------------------------------------------------------------------------
(* The steps *)

\* A step whose request only gets to another point.
LEMMA QuietGo ==
  ASSUME Inv, NEW r \in Reqs, NEW pc \in Pcs, Go(r, pc),
         UNCHANGED <<version, rows, task, flag, fresh, late, clock>>,
         work[r].pc # "over", pc # "idle", ~flag \/ work[r].pc # "next",
         Fine([work[r] EXCEPT !.pc = pc], version, rows, clock)
  PROVE  Inv'
<1> DEFINE w == [work[r] EXCEPT !.pc = pc]
<1>1. TablesTyped /\ WorkTyped /\ RestTyped /\ work[r] \in WorkType
  BY InvParts
<1>2. w \in WorkType /\ w.op = work[r].op /\ w.pc = pc
  BY <1>1 DEF WorkType
<1>3. Turns(r, w)
  BY <1>1, GoTurns
<1>4. Fine(w, version', rows', clock')
  BY <1>1
<1>5. Forward /\ TablesTyped' /\ fresh' \in BOOLEAN
  BY <1>1, Standing DEF TablesTyped, RestTyped
<1> HIDE DEF w
<1> QED
  BY <1>2, <1>3, <1>4, <1>5, OnStep

LEMMA BeginStep ==
  ASSUME Inv, NEW r \in Reqs, NEW op \in OpNames, NEW v \in Versions \cup {NoVersion},
         v = NoVersion => op \in {"generate", "reset"},
         Begin(r, op, v)
  PROVE  Inv'
<1> DEFINE w == [Idle EXCEPT !.op = op, !.pc = First[op], !.v = v, !.began = clock]
<1>1. TablesTyped /\ WorkTyped /\ RestTyped /\ LateInv /\ TaskInv /\ work[r] \in WorkType
  BY InvParts
<1>2. clock \in Nat /\ First[op] \in Pcs /\ First[op] \in {"read", "row", "archive", "check", "fail"}
  BY <1>1, FirstIs DEF TablesTyped, OpNames, Pcs
<1>3. w \in WorkType
  BY <1>2, IdleTyped
<1>4. w.op = op /\ w.pc = First[op] /\ w.v = v /\ w.began = clock
  BY DEF Idle
<1>5. Turns(r, w)
  BY <1>1, <1>3, SetTurns DEF Begin
<1> HIDE DEF w
<1>6. v \notin Versions => op \in {"generate", "reset"}
  OBVIOUS
<1>7. Fine(w, version, rows, clock)
  <2>1. Fits(w)
    BY <1>2, <1>4, <1>6, FirstIs DEF Fits, OpNames
  <2>2. ~HasRead(w) /\ w.pc \notin {"target", "open", "copy", "next", "put"}
    BY <1>2, <1>4, FirstIs DEF HasRead, OpNames
  <2> QED
    BY <1>2, <1>4, <2>1, <2>2 DEF Fine, Known, Aims, Full
<1>8. Forward /\ TablesTyped' /\ fresh' \in BOOLEAN
  BY <1>1, Standing DEF TablesTyped, RestTyped, Begin
<1>9. Fine(w, version', rows', clock')
  BY <1>7 DEF Begin
<1>10. WorkTyped' /\ ClockInv' /\ WorkInv'
  BY <1>3, <1>5, <1>8, <1>9, MoverFine
<1>11. RestTyped'
  BY <1>1 DEF Begin, RestTyped, TaskType
<1>12. LateInv'
  <2>1. work[r].pc = "idle" /\ late' = late /\ flag' = flag
    BY DEF Begin, At
  <2> QED
    BY <1>1, <1>5, <2>1 DEF LateInv, Turns
<1>13. TaskInv'
  <2>1. task[r] # "success" /\ (task[r] # "none" => work[r].op = "generate")
    BY <1>1 DEF TaskInv, Begin, At
  <2>2. CASE op = "generate"
    BY <1>1, <1>2, <1>4, <1>5, <2>1, <2>2 DEF TaskInv, Turns, Begin, RestTyped
  <2>3. CASE op # "generate"
    <3>1. task[r] = "none"
      BY <1>1 DEF TaskInv, Begin, At
    <3> QED
      BY <1>1, <1>2, <1>4, <1>5, <2>1, <2>3, <3>1 DEF TaskInv, Turns, Begin, RestTyped
  <2> QED
    BY <2>2, <2>3
<1> QED
  BY <1>8, <1>10, <1>11, <1>12, <1>13, TypePartsNext DEF Inv

\* A decision about one version.
LEMMA Decided ==
  ASSUME TablesTyped, NEW v \in Versions, NEW st \in Status,
         version' = [version EXCEPT ![v] = [status |-> st, at |-> clock + 1]],
         clock' = clock + 1, rows' \in [Versions -> SeenType]
  PROVE  TablesTyped' /\ Forward
<1>1. clock \in Nat /\ clock' \in Nat /\ clock < clock' /\ clock' # clock
  BY DEF TablesTyped
<1>2. [status |-> st, at |-> clock + 1] \in VersionType
  BY <1>1 DEF VersionType
<1>3. version' \in [Versions -> VersionType]
  BY <1>2 DEF TablesTyped
<1>4. /\ version'[v] = [status |-> st, at |-> clock + 1]
      /\ \A u \in Versions \ {v} : version'[u] = version[u]
  BY DEF TablesTyped
<1>5. version'[v].at = clock'
  BY <1>4
<1> QED
  BY <1>1, <1>3, <1>4, <1>5 DEF TablesTyped, Forward

LEMMA Standards ==
  ASSUME TablesTyped, RestTyped
  PROVE  /\ UNCHANGED <<version, rows, clock>> => TablesTyped' /\ Forward
         /\ fresh' = fresh => fresh' \in BOOLEAN
         /\ UNCHANGED rows => rows' \in [Versions -> SeenType]
  BY Standing DEF TablesTyped, RestTyped

LEMMA PublishStep ==
  ASSUME Inv, NEW r \in Reqs, Publish(r)
  PROVE  Inv'
<1>1. TablesTyped /\ RestTyped
  BY InvParts
<1>2. TablesTyped' /\ Forward
  <2>1. CASE work[r].v \in Exists
    BY <1>1, <2>1, Decided DEF Publish, Exists, TablesTyped, Status
  <2>2. CASE work[r].v \notin Exists
    BY <1>1, <2>2, Standards DEF Publish
  <2> QED
    BY <2>1, <2>2
<1> QED
  BY <1>1, <1>2, OverStep DEF Publish, RestTyped

LEMMA ArchiveStep ==
  ASSUME Inv, NEW r \in Reqs, Archive(r)
  PROVE  Inv'
<1>1. TablesTyped /\ RestTyped
  BY InvParts
<1>2. TablesTyped' /\ Forward
  <2>1. CASE work[r].v \in Exists
    BY <1>1, <2>1, Decided DEF Archive, Exists, TablesTyped, Status
  <2>2. CASE work[r].v \notin Exists
    BY <1>1, <2>2, Standards DEF Archive
  <2> QED
    BY <2>1, <2>2
<1> QED
  BY <1>1, <1>2, OverStep DEF Archive, RestTyped

LEMMA NoRowsTyped == NoRows \in SeenType
  BY DEF NoRows, SeenType

LEMMA DeleteStep ==
  ASSUME Inv, NEW r \in Reqs, DeleteDraft(r)
  PROVE  Inv'
<1>1. TablesTyped /\ RestTyped /\ Fine(work[r], version, rows, clock)
  BY InvParts
<1>2. work[r].v \in Versions
  BY <1>1 DEF Fine, Fits, DeleteDraft, At
<1>3. TablesTyped' /\ Forward
  <2>1. CASE version[work[r].v].status = "draft"
    <3>1. rows' \in [Versions -> SeenType]
      BY <1>1, <2>1, NoRowsTyped DEF DeleteDraft, TablesTyped
    <3> QED
      BY <1>1, <1>2, <2>1, <3>1, Decided DEF DeleteDraft, Status
  <2>2. CASE version[work[r].v].status # "draft"
    BY <1>1, <2>2, Standards DEF DeleteDraft
  <2> QED
    BY <2>1, <2>2
<1> QED
  BY <1>1, <1>3, OverStep DEF DeleteDraft, RestTyped

LEMMA RowsOfType ==
  ASSUME TablesTyped, NEW v \in Versions, NEW s \in Skus
  PROVE  rows[v][s] \in Row \cup {NoRow} /\ rows[v] \in SeenType
  BY DEF TablesTyped, SeenType

\* A row by somebody is a row.
LEMMA RowIs ==
  ASSUME NEW i \in Reqs \cup Versions, NEW b \in Reqs \cup Versions
  PROVE  [id |-> i, by |-> b] \in Row /\ [id |-> i, by |-> b] # NoRow
  BY NoRowIsNew DEF Row
LEMMA RowHas ==
  ASSUME NEW row \in Row \cup {NoRow}, row # NoRow
  PROVE  row.id \in Reqs \cup Versions /\ row.by \in Reqs \cup Versions
  BY DEF Row

LEMMA MergedTyped ==
  ASSUME TablesTyped, NEW r \in Reqs, work[r] \in WorkType, work[r].v \in Versions,
         work[r].p \in Versions
  PROVE  Merged(r) \in SeenType
<1>1. ASSUME NEW s \in Skus
      PROVE  (IF rows[work[r].v][s] # NoRow THEN [id |-> r, by |-> rows[work[r].v][s].by]
              ELSE IF work[r].seen[s] # NoRow THEN NoRow ELSE rows[work[r].p][s])
             \in Row \cup {NoRow}
  <2>1. rows[work[r].v][s] \in Row \cup {NoRow} /\ rows[work[r].p][s] \in Row \cup {NoRow}
    BY RowsOfType
  <2>2. rows[work[r].v][s] # NoRow => [id |-> r, by |-> rows[work[r].v][s].by] \in Row
    BY <2>1, RowHas, RowIs
  <2> QED
    BY <2>1, <2>2
<1> QED
  BY <1>1 DEF Merged, SeenType

LEMMA CopyStep ==
  ASSUME Inv, NEW r \in Reqs, CopyDraft(r)
  PROVE  Inv'
<1> DEFINE v == work[r].v
           p == work[r].p
<1>1. TablesTyped /\ RestTyped /\ Fine(work[r], version, rows, clock) /\ work[r] \in WorkType
  BY InvParts
<1>2. v \in Versions /\ p \in Versions
  BY <1>1 DEF Fine, Fits, CopyDraft, At
<1>3. TablesTyped' /\ Forward /\ fresh' \in BOOLEAN
  <2>1. CASE Clashes(r) \/ (SkusOf(v) # {} /\ p \notin Exists)
    <3>1. UNCHANGED <<version, rows, fresh, clock>>
      BY <2>1 DEF CopyDraft
    <3> QED
      BY <1>1, <3>1, Standards
  <2>2. CASE ~(Clashes(r) \/ (SkusOf(v) # {} /\ p \notin Exists))
    <3>1. /\ rows' = [rows EXCEPT ![p] = Merged(r)]
          /\ fresh' = (fresh \/ (Wiping /\ SkusOf(v) # {}))
          /\ version' = IF v \in Exists
                          THEN [version EXCEPT ![v] = [status |-> "archived", at |-> clock + 1]]
                          ELSE version
          /\ clock' = clock + 1
      BY <2>2 DEF CopyDraft
    <3>2. rows' \in [Versions -> SeenType]
      BY <1>1, <1>2, <3>1, MergedTyped DEF TablesTyped
    <3>3. fresh' \in BOOLEAN
      BY <3>1
    <3>4. CASE v \in Exists
      BY <1>1, <1>2, <3>1, <3>2, <3>3, <3>4, Decided DEF Status
    <3>5. CASE v \notin Exists
      <4>1. version' = version /\ clock' \in Nat /\ clock <= clock' /\ clock' # clock
        BY <1>1, <3>1, <3>5 DEF TablesTyped
      <4>2. TablesTyped'
        BY <1>1, <3>2, <4>1 DEF TablesTyped
      <4>3. Forward
        <5>1. \A u \in Versions : version'[u] = version[u]
          BY <4>1
        <5> QED
          BY <4>1, <5>1 DEF Forward
      <4> QED
        BY <3>3, <4>2, <4>3
    <3> QED
      BY <3>4, <3>5
  <2> QED
    BY <2>1, <2>2
<1> QED
  BY <1>1, <1>3, OverStep DEF CopyDraft

LEMMA WriteStep ==
  ASSUME Inv, NEW r \in Reqs, WriteRows(r)
  PROVE  Inv'
<1> DEFINE v == work[r].v
           n == [s \in Skus |-> IF Same(rows[v][s], work[r].seen[s])
                                  THEN [id |-> rows[v][s].id, by |-> r] ELSE rows[v][s]]
<1>1. TablesTyped /\ RestTyped /\ Fine(work[r], version, rows, clock) /\ work[r] \in WorkType
  BY InvParts
<1>2. v \in Versions
  BY <1>1 DEF Fine, Fits, WriteRows, At
<1>3. ASSUME NEW s \in Skus
      PROVE  /\ n[s] \in Row \cup {NoRow}
             /\ rows[v][s] # NoRow => n[s] # NoRow
  <2>1. rows[v][s] \in Row \cup {NoRow}
    BY <1>1, <1>2, RowsOfType
  <2>2. Same(rows[v][s], work[r].seen[s]) => rows[v][s] # NoRow
    BY DEF Same
  <2>3. rows[v][s] # NoRow => /\ [id |-> rows[v][s].id, by |-> r] \in Row
                              /\ [id |-> rows[v][s].id, by |-> r] # NoRow
    BY <2>1, RowHas, RowIs
  <2> QED
    BY <2>1, <2>2, <2>3
<1>4. rows' = [rows EXCEPT ![v] = n]
  BY <1>1, <1>2 DEF WriteRows, TablesTyped
<1>5. n \in SeenType
  BY <1>3 DEF SeenType
<1> HIDE DEF n
<1>6. rows' \in [Versions -> SeenType]
  BY <1>1, <1>4, <1>5 DEF TablesTyped
<1>7. \A u \in Versions, s \in Skus : rows[u][s] # NoRow => rows'[u][s] # NoRow
  BY <1>1, <1>2, <1>3, <1>4 DEF TablesTyped
<1>8. UNCHANGED <<version, clock, task, flag, fresh, late>>
  BY DEF WriteRows
<1>9. TablesTyped' /\ Forward /\ fresh' \in BOOLEAN
  BY <1>1, <1>6, <1>7, <1>8 DEF TablesTyped, Forward, RestTyped
<1> QED
  BY <1>8, <1>9, OverStep DEF WriteRows

LEMMA ReadStep ==
  ASSUME Inv, NEW r \in Reqs, ReadDraft(r)
  PROVE  Inv'
<1>1. TablesTyped /\ RestTyped /\ Fine(work[r], version, rows, clock) /\ work[r] \in WorkType
  BY InvParts
<1>2. CASE version[work[r].v].status = "draft"
  <2> DEFINE pc == AfterRead[work[r].op]
             w == [work[r] EXCEPT !.pc = pc]
  <2>1. /\ work[r].v \in Versions /\ work[r].pc = "read"
        /\ work[r].op \in {"publish", "merge", "delete", "edit", "calibrate", "regenerate"}
    BY <1>1 DEF Fine, Fits, ReadDraft, At
  <2>2. /\ pc \in {"set", "find", "drop", "write", "row", "check"} /\ pc \in Pcs
        /\ pc = "find" => work[r].op = "merge"
        /\ pc = "row" => work[r].op = "calibrate"
        /\ pc = "check" => work[r].op = "regenerate"
    BY <2>1, AfterReadIs DEF Pcs
  <2>3. w.pc = pc /\ w.op = work[r].op /\ w.v = work[r].v /\ w.began = work[r].began
    BY <1>1 DEF WorkType
  <2>4. Go(r, pc) /\ UNCHANGED <<version, rows, task, flag, fresh, late, clock>>
    BY <1>2 DEF ReadDraft
  <2> HIDE DEF pc, w
  <2>5. Fits(w)
    BY <2>1, <2>2, <2>3 DEF Fits
  <2>6. Known(w, version)
    BY <1>2, <2>3 DEF Known
  <2>7. Aims(w, version, rows, clock) /\ Full(w, rows, clock)
    BY <2>2, <2>3 DEF Aims, Full
  <2>8. Fine(w, version, rows, clock)
    BY <1>1, <2>3, <2>5, <2>6, <2>7 DEF Fine
  <2> QED
    BY <2>1, <2>2, <2>4, <2>8, QuietGo DEF w
<1>3. CASE version[work[r].v].status # "draft"
  <2>1. Go(r, "over") /\ UNCHANGED <<version, rows, task, flag, fresh, late, clock>>
    BY <1>3 DEF ReadDraft
  <2> QED
    BY <1>1, <2>1, Standards, OverStep
<1> QED
  BY <1>2, <1>3

\* Of any versions one was published last.
LEMMA LatestIs ==
  ASSUME TablesTyped, ClockInv, NEW V \in SUBSET Versions, V # {}
  PROVE  Latest(V) \in V /\ \A u \in V : version[u].at <= version[Latest(V)].at
<1> DEFINE T == {clock - version[u].at : u \in V}
<1>1. \A u \in V : version[u].at \in Nat /\ version[u].at <= clock /\ clock \in Nat
  BY DEF TablesTyped, VersionType, ClockInv
<1>2. T \in SUBSET Nat /\ T # {}
  BY <1>1
<1>3. PICK x \in T : \A y \in T : x <= y
  BY <1>2, Least
<1>4. PICK v \in V : x = clock - version[v].at
  BY <1>3
<1>5. ASSUME NEW u \in V
      PROVE  version[u].at <= version[v].at
  <2>1. clock - version[v].at <= clock - version[u].at
    BY <1>3, <1>4
  <2> QED
    BY <1>1, <2>1
<1>6. \E w \in V : \A u \in V : version[u].at <= version[w].at
  BY <1>5
<1> QED
  BY <1>6, Zenon DEF Latest

\* A merge without a target goes on as a publication.
LEMMA PublishingStep ==
  ASSUME Inv, NEW r \in Reqs, work[r].pc \in {"find", "target"}, ByPublishing(r),
         UNCHANGED <<version, rows, task, flag, fresh, late, clock>>
  PROVE  Inv'
<1> DEFINE w == [work[r] EXCEPT !.op = "publish", !.pc = "read"]
<1>1. TablesTyped /\ WorkTyped /\ RestTyped /\ Fine(work[r], version, rows, clock)
      /\ work[r] \in WorkType
  BY InvParts
<1>2. /\ w \in WorkType /\ w.op = "publish" /\ w.pc = "read" /\ w.v = work[r].v
      /\ w.began = work[r].began
  BY <1>1 DEF WorkType, OpNames, Pcs
<1>3. Turns(r, w)
  BY <1>1, <1>2, SetTurns DEF ByPublishing
<1> HIDE DEF w
<1>4. work[r].v \in Versions /\ work[r].op = "merge"
  BY <1>1 DEF Fine, Fits
<1>5. Fits(w) /\ Known(w, version) /\ Aims(w, version, rows, clock) /\ Full(w, rows, clock)
  BY <1>2, <1>4 DEF Fits, Known, HasRead, Aims, Full
<1>6. Fine(w, version', rows', clock')
  BY <1>1, <1>2, <1>5 DEF Fine
<1>7. TablesTyped' /\ Forward /\ fresh' \in BOOLEAN
  BY <1>1, Standards
<1> QED
  BY <1>2, <1>3, <1>4, <1>6, <1>7, OnStep

LEMMA FindStep ==
  ASSUME Inv, NEW r \in Reqs, FindPrimary(r)
  PROVE  Inv'
<1> DEFINE p == Latest(Published)
           w == [work[r] EXCEPT !.p = p, !.pc = "target"]
<1>1. TablesTyped /\ WorkTyped /\ RestTyped /\ Fine(work[r], version, rows, clock)
      /\ work[r] \in WorkType /\ ClockInv
  BY InvParts
<1>2. work[r].pc = "find" /\ UNCHANGED <<version, rows, task, flag, fresh, late, clock>>
  BY DEF FindPrimary, At
<1>3. CASE Published = {}
  BY <1>2, <1>3, PublishingStep DEF FindPrimary
<1>4. CASE Published # {}
  <2>1. p \in Published /\ \A u \in Published : version[u].at <= version[p].at
    BY <1>1, <1>4, LatestIs DEF Published
  <2>2. work' = [work EXCEPT ![r] = w]
    BY <1>4 DEF FindPrimary
  <2> HIDE DEF p
  <2>3. /\ w \in WorkType /\ w.op = work[r].op /\ w.pc = "target" /\ w.v = work[r].v
        /\ w.p = p /\ w.began = work[r].began
    BY <1>1, <2>1 DEF WorkType, Pcs, Published
  <2>4. Turns(r, w)
    BY <1>1, <2>2, <2>3, SetTurns
  <2> HIDE DEF w
  <2>5. work[r].v \in Versions /\ work[r].op = "merge" /\ Known(work[r], version)
    BY <1>1, <1>2 DEF Fine, Fits
  <2>6. Fits(w)
    BY <2>1, <2>3, <2>5 DEF Fits, Published
  <2>7. Known(w, version)
    BY <1>2, <2>3, <2>5 DEF Known, HasRead
  <2>8. Aims(w, version, rows, clock) /\ Full(w, rows, clock)
    BY <2>1, <2>3 DEF Aims, Full, Published
  <2>9. Fine(w, version', rows', clock')
    BY <1>1, <1>2, <2>3, <2>6, <2>7, <2>8 DEF Fine
  <2>10. TablesTyped' /\ Forward /\ fresh' \in BOOLEAN
    BY <1>1, <1>2, Standards
  <2> QED
    BY <1>2, <2>3, <2>4, <2>5, <2>9, <2>10, OnStep
<1> QED
  BY <1>3, <1>4

LEMMA TargetStep ==
  ASSUME Inv, NEW r \in Reqs, ReadPrimary(r)
  PROVE  Inv'
<1> DEFINE w == [work[r] EXCEPT !.pc = "open"]
<1>1. TablesTyped /\ Fine(work[r], version, rows, clock) /\ work[r] \in WorkType
  BY InvParts
<1>2. work[r].pc = "target" /\ UNCHANGED <<version, rows, task, flag, fresh, late, clock>>
  BY DEF ReadPrimary, At
<1>3. CASE work[r].p \in Published /\ work[r].p # work[r].v
  <2>1. Go(r, "open")
    BY <1>3 DEF ReadPrimary
  <2>2. /\ w.op = work[r].op /\ w.pc = "open" /\ w.v = work[r].v /\ w.p = work[r].p
        /\ w.began = work[r].began
    BY <1>1 DEF WorkType
  <2> HIDE DEF w
  <2>3. Fits(w) /\ Known(w, version)
    BY <1>1, <1>2, <2>2 DEF Fine, Fits, Known, HasRead
  <2>4. Aims(w, version, rows, clock) /\ Full(w, rows, clock)
    BY <1>1, <1>2, <2>2 DEF Fine, Aims, Full
  <2>5. Fine(w, version, rows, clock)
    BY <1>1, <2>2, <2>3, <2>4 DEF Fine
  <2> QED
    BY <1>2, <2>1, <2>5, QuietGo DEF w, Pcs
<1>4. CASE ~(work[r].p \in Published /\ work[r].p # work[r].v)
  BY <1>2, <1>4, PublishingStep DEF ReadPrimary
<1> QED
  BY <1>3, <1>4

LEMMA SomeSeen ==
  ASSUME TablesTyped, NEW v \in Versions, NEW S
  PROVE  [s \in Skus |-> IF s \in S THEN rows[v][s] ELSE NoRow] \in SeenType
<1>1. \A s \in Skus : (IF s \in S THEN rows[v][s] ELSE NoRow) \in Row \cup {NoRow}
  BY RowsOfType
<1> QED
  BY <1>1 DEF SeenType

LEMMA OpenStep ==
  ASSUME Inv, NEW r \in Reqs, OpenMerge(r)
  PROVE  Inv'
<1> DEFINE S == SkusOf(work[r].v)
           seen == [s \in Skus |-> IF s \in S THEN rows[work[r].p][s] ELSE NoRow]
           w == [work[r] EXCEPT !.pc = "copy", !.seen = seen]
<1>1. TablesTyped /\ WorkTyped /\ RestTyped /\ Fine(work[r], version, rows, clock)
      /\ work[r] \in WorkType
  BY InvParts
<1>2. work[r].pc = "open" /\ UNCHANGED <<version, rows, task, flag, fresh, late, clock>>
  BY DEF OpenMerge, At
<1>3. CASE S = {}
  BY <1>1, <1>2, <1>3, Standards, OverStep DEF OpenMerge
<1>4. CASE S # {}
  <2>1. work[r].v \in Versions /\ work[r].p \in Versions /\ work[r].op = "merge"
    BY <1>1, <1>2 DEF Fine, Fits
  <2>2. seen \in SeenType
    BY <1>1, <2>1, SomeSeen
  <2>3. work' = [work EXCEPT ![r] = w]
    BY <1>4 DEF OpenMerge
  <2>4. \A s \in Skus : seen[s] # NoRow => rows[work[r].v][s] # NoRow
    BY DEF SkusOf
  <2> HIDE DEF seen
  <2>5. /\ w \in WorkType /\ w.op = work[r].op /\ w.pc = "copy" /\ w.v = work[r].v
        /\ w.p = work[r].p /\ w.began = work[r].began /\ w.seen = seen
    BY <1>1, <2>2 DEF WorkType, Pcs
  <2>6. Turns(r, w)
    BY <1>1, <2>3, <2>5, SetTurns
  <2> HIDE DEF w
  <2>7. Fits(w) /\ Known(w, version)
    BY <1>1, <1>2, <2>1, <2>5 DEF Fine, Fits, Known, HasRead
  <2>8. Aims(w, version, rows, clock) /\ Full(w, rows, clock)
    BY <1>1, <1>2, <2>4, <2>5 DEF Fine, Aims, Full
  <2>9. Fine(w, version', rows', clock')
    BY <1>1, <1>2, <2>5, <2>7, <2>8 DEF Fine
  <2>10. TablesTyped' /\ Forward /\ fresh' \in BOOLEAN
    BY <1>1, <1>2, Standards
  <2> QED
    BY <1>2, <2>1, <2>5, <2>6, <2>9, <2>10, OnStep
<1> QED
  BY <1>3, <1>4

LEMMA RowsStep ==
  ASSUME Inv, NEW r \in Reqs, ReadRows(r)
  PROVE  Inv'
<1>1. TablesTyped /\ WorkTyped /\ RestTyped /\ Fine(work[r], version, rows, clock)
      /\ work[r] \in WorkType
  BY InvParts
<1>2. work[r].pc = "row" /\ UNCHANGED <<version, rows, task, flag, fresh, late, clock>>
  BY DEF ReadRows, At
<1>3. work[r].v \in Versions /\ work[r].op \in {"edit", "calibrate"}
  BY <1>1, <1>2 DEF Fine, Fits
<1> DEFINE pc == IF work[r].op = "edit" THEN "read" ELSE "write"
<1>4. PICK S : work' = [work EXCEPT ![r] = [@ EXCEPT
         !.seen = [s \in Skus |-> IF s \in S THEN rows[work[r].v][s] ELSE NoRow],
         !.pc = pc]]
  BY DEF ReadRows
<1> DEFINE seen == [s \in Skus |-> IF s \in S THEN rows[work[r].v][s] ELSE NoRow]
           w == [work[r] EXCEPT !.seen = seen, !.pc = pc]
<1>5. seen \in SeenType
  BY <1>1, <1>3, SomeSeen
<1>6. work' = [work EXCEPT ![r] = w]
  BY <1>1, <1>4 DEF WorkTyped
<1>7. pc \in {"read", "write"} /\ (pc = "write" => work[r].op = "calibrate")
  BY <1>3
<1> HIDE DEF seen, pc
<1>8. /\ w \in WorkType /\ w.op = work[r].op /\ w.pc = pc /\ w.v = work[r].v
      /\ w.p = work[r].p /\ w.began = work[r].began /\ w.seen = seen
  BY <1>1, <1>5, <1>7 DEF WorkType, Pcs
<1>9. Turns(r, w)
  BY <1>1, <1>6, <1>8, SetTurns
<1> HIDE DEF w
<1>10. Fits(w)
  BY <1>3, <1>7, <1>8 DEF Fits
<1>11. Known(w, version)
  BY <1>1, <1>2, <1>7, <1>8 DEF Fine, Known, HasRead
<1>12. Aims(w, version, rows, clock) /\ Full(w, rows, clock)
  BY <1>7, <1>8 DEF Aims, Full
<1>13. Fine(w, version', rows', clock')
  BY <1>1, <1>2, <1>8, <1>10, <1>11, <1>12 DEF Fine
<1>14. TablesTyped' /\ Forward /\ fresh' \in BOOLEAN
  BY <1>1, <1>2, Standards
<1> QED
  BY <1>2, <1>7, <1>8, <1>9, <1>13, <1>14, OnStep

LEMMA CheckStep ==
  ASSUME Inv, NEW r \in Reqs, CheckFlag(r)
  PROVE  Inv'
<1>1. TablesTyped /\ WorkTyped /\ RestTyped /\ Fine(work[r], version, rows, clock)
      /\ work[r] \in WorkType
  BY InvParts
<1>2. work[r].pc = "check" /\ UNCHANGED <<version, rows, flag, fresh, late, clock>>
  BY DEF CheckFlag, At
<1>3. CASE flag
  BY <1>1, <1>2, <1>3, Standards, OverStep DEF CheckFlag
<1>4. CASE ~flag
  <2> DEFINE pc == IF work[r].op = "generate" THEN "create" ELSE "purge"
             w == [work[r] EXCEPT !.pc = pc]
  <2>1. Go(r, pc) /\ task' = task
    BY <1>4 DEF CheckFlag
  <2>2. \/ work[r].op = "generate" /\ pc = "create"
        \/ work[r].op = "regenerate" /\ work[r].v \in Versions /\ pc = "purge"
    BY <1>1, <1>2 DEF Fine, Fits
  <2> HIDE DEF pc
  <2>3. /\ w.op = work[r].op /\ w.pc = pc /\ w.v = work[r].v /\ w.began = work[r].began
    BY <1>1, <2>2 DEF WorkType
  <2> HIDE DEF w
  <2>4. Fits(w) /\ Known(w, version)
    BY <1>1, <1>2, <2>2, <2>3 DEF Fine, Fits, Known, HasRead
  <2>5. Aims(w, version, rows, clock) /\ Full(w, rows, clock)
    BY <2>2, <2>3 DEF Aims, Full
  <2>6. Fine(w, version, rows, clock)
    BY <1>1, <2>3, <2>4, <2>5 DEF Fine
  <2> QED
    BY <1>2, <2>1, <2>2, <2>6, QuietGo DEF w, Pcs
<1> QED
  BY <1>3, <1>4

LEMMA CreateStep ==
  ASSUME Inv, NEW r \in Reqs, NEW v \in Versions, CreateDraft(r, v)
  PROVE  Inv'
<1> DEFINE w == [work[r] EXCEPT !.v = v, !.todo = Skus, !.pc = "next"]
<1>1. TablesTyped /\ WorkTyped /\ RestTyped /\ Fine(work[r], version, rows, clock)
      /\ work[r] \in WorkType
  BY InvParts
<1>2. work[r].pc = "create" /\ UNCHANGED <<rows, task, flag, fresh, late, clock>>
      /\ version[v].status = "new"
      /\ version' = [version EXCEPT ![v] = [status |-> "draft", at |-> clock]]
      /\ work' = [work EXCEPT ![r] = w]
  BY DEF CreateDraft, At
<1>3. /\ w \in WorkType /\ w.op = work[r].op /\ w.pc = "next" /\ w.v = v
      /\ w.began = work[r].began /\ w.todo = Skus
  BY <1>1 DEF WorkType, Pcs
<1>4. Turns(r, w)
  BY <1>1, <1>2, <1>3, SetTurns
<1> HIDE DEF w
<1>5. /\ version'[v] = [status |-> "draft", at |-> clock]
      /\ \A u \in Versions \ {v} : version'[u] = version[u]
      /\ [status |-> "draft", at |-> clock] \in VersionType
  BY <1>1, <1>2 DEF TablesTyped, VersionType, Status
<1>6. version'[v].status = "draft" /\ version'[v].at = clock /\ clock \in Nat
  BY <1>1, <1>5 DEF TablesTyped
<1>7. TablesTyped'
  BY <1>1, <1>2, <1>5 DEF TablesTyped
<1>8. Forward
  BY <1>2, <1>5, <1>6 DEF Forward
<1>9. Fine(w, version', rows', clock')
  BY <1>1, <1>2, <1>3, <1>6 DEF Fine, Fits, Known, Aims, Full
<1>10. fresh' \in BOOLEAN
  BY <1>1, <1>2, Standards
<1> QED
  BY <1>2, <1>3, <1>4, <1>7, <1>8, <1>9, <1>10, OnStep

\* A version's row comes, goes or changes its content.
LEMMA RowSet ==
  ASSUME TablesTyped, NEW v \in Versions, NEW s \in Skus, NEW row \in Row \cup {NoRow},
         rows' = WithRow(v, s, row)
  PROVE  /\ rows' \in [Versions -> SeenType]
         /\ rows'[v][s] = row
         /\ \A u \in Versions, t \in Skus : u # v \/ t # s => rows'[u][t] = rows[u][t]
<1>1. rows[v] \in SeenType
  BY DEF TablesTyped
<1>2. [rows[v] EXCEPT ![s] = row] \in SeenType
  BY <1>1 DEF SeenType
<1>3. rows' \in [Versions -> SeenType] /\ rows'[v] = [rows[v] EXCEPT ![s] = row]
      /\ \A u \in Versions \ {v} : rows'[u] = rows[u]
  BY <1>2 DEF TablesTyped, WithRow
<1> QED
  BY <1>1, <1>3 DEF SeenType

LEMMA PurgeStep ==
  ASSUME Inv, NEW r \in Reqs, NEW s \in Skus, PurgeSku(r, s)
  PROVE  Inv'
<1> DEFINE v == work[r].v
           w == [work[r] EXCEPT !.todo = {s}, !.pc = "next"]
<1>1. TablesTyped /\ WorkTyped /\ RestTyped /\ Fine(work[r], version, rows, clock)
      /\ work[r] \in WorkType
  BY InvParts
<1>2. work[r].pc = "purge" /\ UNCHANGED <<version, task, flag, fresh, late>>
  BY DEF PurgeSku, At
<1>3. work[r].v \in Versions /\ work[r].op = "regenerate" /\ Known(work[r], version)
  BY <1>1, <1>2 DEF Fine, Fits
<1>4. CASE v \notin Exists
  BY <1>1, <1>2, <1>4, Standards, OverStep DEF PurgeSku
<1>5. CASE v \in Exists
  <2>1. /\ rows' = WithRow(v, s, NoRow)
        /\ work' = [work EXCEPT ![r] = w] /\ clock' = clock + 1
    BY <1>5 DEF PurgeSku
  <2>2. rows' \in [Versions -> SeenType]
    BY <1>1, <1>3, <2>1, RowSet
  <2>3. /\ w \in WorkType /\ w.op = work[r].op /\ w.pc = "next" /\ w.v = work[r].v
        /\ w.began = work[r].began
    BY <1>1 DEF WorkType, Pcs
  <2>4. Turns(r, w)
    BY <1>1, <2>1, <2>3, SetTurns
  <2> HIDE DEF w
  <2>5. clock \in Nat /\ clock' \in Nat /\ clock <= clock' /\ clock' # clock
    BY <1>1, <2>1 DEF TablesTyped
  <2>6. TablesTyped' /\ Forward
    BY <1>1, <1>2, <2>2, <2>5 DEF TablesTyped, Forward
  <2>7. w.began <= clock'
    BY <1>1, <2>3, <2>5 DEF Fine, WorkType
  <2>8. Fine(w, version', rows', clock')
    BY <1>2, <1>3, <2>3, <2>7 DEF Fine, Fits, Known, HasRead, Aims, Full
  <2>9. fresh' \in BOOLEAN
    BY <1>1, <1>2, Standards
  <2> QED
    BY <1>2, <1>3, <2>3, <2>4, <2>6, <2>8, <2>9, OnStep
<1> QED
  BY <1>4, <1>5

LEMMA NextStep ==
  ASSUME Inv, NEW r \in Reqs, NextRow(r)
  PROVE  Inv'
<1>1. TablesTyped /\ WorkTyped /\ RestTyped /\ Fine(work[r], version, rows, clock)
      /\ work[r] \in WorkType
  BY InvParts
<1>2. work[r].pc = "next" /\ UNCHANGED <<version, rows, flag, fresh, late, clock>>
  BY DEF NextRow, At
<1>3. CASE flag
  BY <1>1, <1>2, <1>3, Standards, OverStep DEF NextRow
<1>4. CASE ~flag
  <2> DEFINE w == [work[r] EXCEPT !.pc = "put", !.seen = rows[work[r].v]]
  <2>1. work' = [work EXCEPT ![r] = w] /\ task' = task
    BY <1>4 DEF NextRow
  <2>2. work[r].v \in Versions
    BY <1>1, <1>2 DEF Fine, Fits
  <2>3. rows[work[r].v] \in SeenType
    BY <1>1, <2>2 DEF TablesTyped
  <2>4. /\ w \in WorkType /\ w.op = work[r].op /\ w.pc = "put" /\ w.v = work[r].v
        /\ w.began = work[r].began /\ w.todo = work[r].todo /\ w.seen = rows[work[r].v]
    BY <1>1, <2>3 DEF WorkType, Pcs
  <2>5. Turns(r, w)
    BY <1>1, <2>1, <2>4, SetTurns
  <2> HIDE DEF w
  <2>6. Fits(w) /\ Known(w, version)
    BY <1>1, <1>2, <2>2, <2>4 DEF Fine, Fits, Known, HasRead
  <2>7. Aims(w, version, rows, clock) /\ Full(w, rows, clock)
    BY <1>1, <1>2, <2>4 DEF Fine, Aims, Full
  <2>8. Fine(w, version', rows', clock')
    BY <1>1, <1>2, <2>4, <2>6, <2>7 DEF Fine
  <2>9. TablesTyped' /\ Forward /\ fresh' \in BOOLEAN
    BY <1>1, <1>2, Standards
  <2> QED
    BY <1>2, <1>4, <2>1, <2>4, <2>5, <2>8, <2>9, OnStep
<1> QED
  BY <1>3, <1>4

LEMMA FinishStep ==
  ASSUME Inv, NEW r \in Reqs, Finish(r)
  PROVE  Inv'
<1>1. TablesTyped /\ RestTyped
  BY InvParts
<1> QED
  BY <1>1, Standards, OverStep DEF Finish

\* A row that is put or found unchanged: the run goes to the next.
LEMMA PutStep ==
  ASSUME Inv, NEW r \in Reqs, NEW s \in Skus, PutRow(r, s)
  PROVE  Inv'
<1> DEFINE v == work[r].v
           seen == work[r].seen[s]
           w == [work[r] EXCEPT !.pc = "next", !.todo = work[r].todo \ {s}]
<1>1. TablesTyped /\ WorkTyped /\ RestTyped /\ Fine(work[r], version, rows, clock)
      /\ work[r] \in WorkType /\ LateInv /\ TaskInv
  BY InvParts
<1>2. work[r].pc = "put" /\ s \in work[r].todo /\ UNCHANGED <<version, flag, clock>>
  BY DEF PutRow, At
<1>3. v \in Versions
  BY <1>1, <1>2 DEF Fine, Fits
<1>4. CASE seen = NoRow /\ Refused(r, s)
  <2>1. Go(r, "over") /\ Ended(r, "failed") /\ UNCHANGED <<rows, fresh, late>>
    BY <1>4 DEF PutRow
  <2> QED
    BY <1>1, <1>2, <2>1, Standards, OverStep
<1>5. ASSUME ~(seen = NoRow /\ Refused(r, s))
      PROVE  Inv'
  <2>1. work' = [work EXCEPT ![r] = w] /\ task' = task
    BY <1>5 DEF PutRow
  <2>2. /\ w \in WorkType /\ w.op = work[r].op /\ w.pc = "next" /\ w.v = v
        /\ w.began = work[r].began /\ w.todo = work[r].todo \ {s}
    BY <1>1 DEF WorkType, Pcs
  <2>3. Turns(r, w)
    BY <1>1, <2>1, <2>2, SetTurns
  <2> HIDE DEF w
  <2>4. /\ rows' \in [Versions -> SeenType]
        /\ \A u \in Versions, t \in Skus : rows[u][t] # NoRow => rows'[u][t] # NoRow
        /\ seen = NoRow => rows'[v][s] # NoRow
    <3>1. CASE seen = NoRow
      <4> DEFINE row == [id |-> r, by |-> r]
      <4>1. rows' = WithRow(v, s, row)
        BY <1>5, <3>1 DEF PutRow
      <4>2. row \in Row \cup {NoRow} /\ row # NoRow
        BY RowIs
      <4> HIDE DEF row
      <4>3. rows' \in [Versions -> SeenType] /\ rows'[v][s] = row
            /\ \A u \in Versions, t \in Skus : u # v \/ t # s => rows'[u][t] = rows[u][t]
        BY <1>1, <1>3, <4>1, <4>2, RowSet
      <4> QED
        BY <4>2, <4>3
    <3>2. CASE seen # NoRow /\ ~Same(rows[v][s], seen)
      <4>1. rows' = rows
        BY <3>2 DEF PutRow
      <4> QED
        BY <1>1, <3>2, <4>1 DEF TablesTyped
    <3>3. CASE seen # NoRow /\ Same(rows[v][s], seen)
      <4> DEFINE row == [id |-> seen.id, by |-> r]
      <4>1. rows' = WithRow(v, s, row)
        BY <3>3 DEF PutRow
      <4>2. rows[v][s] \in Row /\ seen.id = rows[v][s].id
        BY <1>1, <1>3, <3>3, RowsOfType DEF Same
      <4>3. row \in Row \cup {NoRow} /\ row # NoRow
        <5>1. seen.id \in Reqs \cup Versions
          BY <4>2 DEF Row
        <5> QED
          BY <5>1, RowIs
      <4> HIDE DEF row
      <4>5. rows' \in [Versions -> SeenType] /\ rows'[v][s] = row
            /\ \A u \in Versions, t \in Skus : u # v \/ t # s => rows'[u][t] = rows[u][t]
        BY <1>1, <1>3, <4>1, <4>3, RowSet
      <4> QED
        BY <3>3, <4>3, <4>5
    <3> QED
      BY <3>1, <3>2, <3>3
  <2>5. TablesTyped' /\ Forward
    BY <1>1, <1>2, <2>4 DEF TablesTyped, Forward
  <2>6. Fits(w) /\ Known(w, version)
    BY <1>1, <1>2, <1>3, <2>2 DEF Fine, Fits, Known, HasRead
  <2>7. Full(w, rows', clock)
    <3>1. SUFFICES ASSUME w.op = "generate", w.began = clock, NEW t \in Skus \ w.todo
                   PROVE  rows'[v][t] # NoRow
      BY <2>2 DEF Full
    <3>2. Full(work[r], rows, clock) /\ work[r].op = "generate" /\ work[r].began = clock
      BY <1>1, <2>2, <3>1 DEF Fine
    <3>3. CASE t = s
      BY <1>2, <1>3, <2>4, <3>2, <3>3 DEF Full
    <3>4. CASE t # s
      BY <1>2, <1>3, <2>2, <2>4, <3>1, <3>2, <3>4 DEF Full
    <3> QED
      BY <3>3, <3>4
  <2>8. Fine(w, version', rows', clock')
    BY <1>1, <1>2, <2>2, <2>6, <2>7 DEF Fine, Aims
  <2>9. WorkTyped' /\ ClockInv' /\ WorkInv'
    BY <2>2, <2>3, <2>5, <2>8, MoverFine
  <2>10. fresh' \in BOOLEAN /\ (late' = late \/ (flag /\ late' = [late EXCEPT ![r] = @ + 1]))
    BY <1>1, <1>5 DEF PutRow, RestTyped
  <2>11. RestTyped'
    BY <1>1, <1>2, <2>1, <2>10 DEF RestTyped
  <2>12. LateInv'
    <3>1. SUFFICES ASSUME flag
                   PROVE  \A q \in Reqs : \/ late'[q] = 0
                                          \/ late'[q] = 1 /\ work'[q].pc \in {"next", "over"}
      BY <1>2 DEF LateInv
    <3>2. \A q \in Reqs : late[q] = 0 \/ (late[q] = 1 /\ work[q].pc \in {"next", "over"})
      BY <1>1, <3>1 DEF LateInv
    <3>3. late[r] = 0
      BY <1>2, <3>2
    <3>4. late'[r] \in {0, 1} /\ \A q \in Reqs \ {r} : late'[q] = late[q]
      BY <1>1, <2>10, <3>3 DEF RestTyped
    <3> QED
      BY <2>2, <2>3, <3>2, <3>4 DEF Turns
  <2>13. TaskInv'
    BY <1>1, <1>2, <2>1, <2>2, <2>3 DEF TaskInv, Turns
  <2> QED
    BY <2>5, <2>9, <2>11, <2>12, <2>13, TypePartsNext DEF Inv
<1> QED
  BY <1>4, <1>5

LEMMA WipeStep ==
  ASSUME Inv, NEW r \in Reqs, WipeRows(r)
  PROVE  Inv'
<1>1. Fine(work[r], version, rows, clock) /\ work[r] \in WorkType /\ TablesTyped
      /\ WorkTyped /\ RestTyped
  BY InvParts
<1>2. /\ work[r].pc = "rows" /\ Go(r, "wipe") /\ fresh' = FALSE
      /\ UNCHANGED <<version, rows, task, flag, late, clock>>
  BY DEF WipeRows, At
<1> DEFINE w == [work[r] EXCEPT !.pc = "wipe"]
<1>3. /\ w \in WorkType /\ w.op = work[r].op /\ w.pc = "wipe" /\ w.began = work[r].began
  BY <1>1 DEF WorkType, Pcs
<1>4. Turns(r, w)
  BY <1>1, <1>2, GoTurns DEF Pcs
<1> HIDE DEF w
<1>5. Fine(w, version', rows', clock')
  BY <1>1, <1>2, <1>3 DEF Fine, Fits, Known, HasRead, Aims, Full
<1>6. TablesTyped' /\ Forward
  BY <1>1, <1>2, Standards
<1> QED
  BY <1>2, <1>3, <1>4, <1>5, <1>6, OnStep

LEMMA DropStep ==
  ASSUME Inv, NEW r \in Reqs, DropVersions(r)
  PROVE  Inv'
<1>1. TablesTyped /\ RestTyped
  BY InvParts
<1>2. TablesTyped' /\ Forward
  <2>1. CASE fresh
    BY <1>1, <2>1, Standards DEF DropVersions
  <2>2. CASE ~fresh
    <3>1. /\ version' = [v \in Versions |->
                 IF v \in Exists THEN [status |-> "gone", at |-> clock + 1] ELSE version[v]]
          /\ rows' = [v \in Versions |-> NoRows]
          /\ clock' = clock + 1
      BY <2>2 DEF DropVersions
    <3>2. clock' \in Nat /\ clock <= clock' /\ clock < clock' /\ clock' # clock
      BY <1>1, <3>1 DEF TablesTyped
    <3>3. [status |-> "gone", at |-> clock'] \in VersionType
      BY <3>2 DEF VersionType, Status
    <3>4. \A v \in Versions : \/ version'[v] = [status |-> "gone", at |-> clock']
                              \/ version'[v] = version[v]
      BY <3>1
    <3>5. \A v \in Versions : version'[v] \in VersionType
      BY <1>1, <3>3, <3>4 DEF TablesTyped
    <3>6. version' \in [Versions -> VersionType] /\ rows' \in [Versions -> SeenType]
      BY <3>1, <3>5, NoRowsTyped
    <3>7. \A v \in Versions : \/ version'[v].status = "gone" /\ version'[v].at = clock'
                              \/ version'[v] = version[v]
      BY <3>4
    <3> QED
      BY <3>2, <3>6, <3>7 DEF TablesTyped, Forward
  <2> QED
    BY <2>1, <2>2
<1> QED
  BY <1>1, <1>2, OverStep DEF DropVersions, RestTyped

LEMMA FailStep ==
  ASSUME Inv, NEW r \in Reqs, Fail(r)
  PROVE  Inv'
<1>1. TablesTyped /\ RestTyped
  BY InvParts
<1>2. flag' = flag \/ flag' = FALSE
  BY DEF Fail
<1> QED
  BY <1>1, <1>2, Standards, OverStep DEF Fail

\* The reset's first two steps touch what it keeps about other requests.
LEMMA ResetMoves ==
  ASSUME Inv, NEW r \in Reqs, NEW pc \in {"raise", "rows"}, Go(r, pc),
         work[r].pc \in {"fail", "raise"}, UNCHANGED <<version, rows, clock>>
  PROVE  /\ TablesTyped' /\ WorkTyped' /\ ClockInv' /\ WorkInv'
         /\ work'[r].op = work[r].op /\ work'[r].pc = pc
         /\ \A q \in Reqs \ {r} : work'[q] = work[q]
<1> DEFINE w == [work[r] EXCEPT !.pc = pc]
<1>1. Fine(work[r], version, rows, clock) /\ work[r] \in WorkType /\ TablesTyped
      /\ WorkTyped /\ RestTyped
  BY InvParts
<1>2. /\ w \in WorkType /\ w.op = work[r].op /\ w.pc = pc /\ w.began = work[r].began
  BY <1>1 DEF WorkType, Pcs
<1>3. Turns(r, w)
  BY <1>1, GoTurns DEF Pcs
<1> HIDE DEF w
<1>4. Fine(w, version', rows', clock')
  BY <1>1, <1>2 DEF Fine, Fits, Known, HasRead, Aims, Full
<1>5. TablesTyped' /\ Forward
  BY <1>1, Standards
<1> QED
  BY <1>2, <1>3, <1>4, <1>5, MoverFine DEF Turns

LEMMA FailRunsStep ==
  ASSUME Inv, NEW r \in Reqs, FailRuns(r)
  PROVE  Inv'
<1>1. RestTyped /\ LateInv /\ TaskInv /\ work[r].pc = "fail"
  BY InvParts DEF FailRuns, At
<1>2. /\ TablesTyped' /\ WorkTyped' /\ ClockInv' /\ WorkInv'
      /\ work'[r].op = work[r].op /\ work'[r].pc = "raise"
      /\ \A q \in Reqs \ {r} : work'[q] = work[q]
  BY <1>1, ResetMoves DEF FailRuns
<1>3. RestTyped'
  BY <1>1 DEF FailRuns, RestTyped, TaskType
<1>4. LateInv'
  BY <1>1, <1>2 DEF FailRuns, LateInv
<1>5. TaskInv'
  <2>1. \A q \in Reqs : \/ task'[q] = task[q]
                        \/ task[q] = "running" /\ task'[q] = "failed"
    BY DEF FailRuns
  <2> QED
    BY <1>1, <1>2, <2>1 DEF TaskInv
<1> QED
  BY <1>2, <1>3, <1>4, <1>5, TypePartsNext DEF Inv

LEMMA RaiseStep ==
  ASSUME Inv, NEW r \in Reqs, RaiseFlag(r)
  PROVE  Inv'
<1>1. RestTyped /\ LateInv /\ TaskInv /\ work[r].pc = "raise"
  BY InvParts DEF RaiseFlag, At
<1>2. /\ TablesTyped' /\ WorkTyped' /\ ClockInv' /\ WorkInv'
      /\ work'[r].op = work[r].op /\ work'[r].pc = "rows"
      /\ \A q \in Reqs \ {r} : work'[q] = work[q]
  BY <1>1, ResetMoves DEF RaiseFlag
<1>3. RestTyped'
  BY <1>1 DEF RaiseFlag, RestTyped
<1>4. LateInv'
  BY DEF RaiseFlag, LateInv
<1>5. TaskInv'
  BY <1>1, <1>2 DEF TaskInv, RaiseFlag
<1> QED
  BY <1>2, <1>3, <1>4, <1>5, TypePartsNext DEF Inv

-----------------------------------------------------------------------------
(* The invariant holds *)

LEMMA InitInv == Init => Inv
<1> SUFFICES ASSUME Init
             PROVE  Inv
  OBVIOUS
<1> DEFINE n == Cardinality(Versions)
<1>1. n \in Nat
  BY VersionsFinite, FS_CardinalityType
<1>2. \A v \in Versions : version[v].at \in Nat /\ version[v].at <= clock
  BY <1>1 DEF Init
<1>3. clock \in Nat /\ version \in [Versions -> VersionType]
  BY <1>1 DEF Init, VersionType, Status
<1>4. rows \in [Versions -> SeenType]
  <2>1. PICK has \in [Versions -> SUBSET Skus] :
          rows = [v \in Versions |-> [s \in Skus |->
                    IF s \in has[v] THEN [id |-> v, by |-> v] ELSE NoRow]]
    BY DEF Init
  <2>2. \A v \in Versions, s \in Skus :
          (IF s \in has[v] THEN [id |-> v, by |-> v] ELSE NoRow) \in Row \cup {NoRow}
    BY RowIs
  <2> QED
    BY <2>1, <2>2 DEF SeenType
<1>5. \A r \in Reqs : work[r] = Idle
  BY DEF Init
<1>6. WorkTyped
  BY IdleTyped DEF Init, WorkTyped
<1>7. Idle.pc = "idle" /\ Idle.began = 0
  BY DEF Idle
<1>8. WorkInv
  BY <1>3, <1>5, <1>7 DEF WorkInv, Fine, Fits, Known, HasRead, Aims, Full
<1>9. ClockInv
  BY <1>2 DEF ClockInv, Init
<1>10. RestTyped /\ LateInv /\ TaskInv
  BY DEF Init, RestTyped, LateInv, TaskInv, TaskType
<1> QED
  BY <1>3, <1>4, <1>6, <1>8, <1>9, <1>10, TypeParts DEF Inv, TablesTyped

LEMMA StepInv ==
  ASSUME Inv, NEW r \in Reqs, Step(r)
  PROVE  Inv'
  BY ReadStep, PublishStep, ArchiveStep, DeleteStep, FindStep, TargetStep, OpenStep, CopyStep,
     RowsStep, WriteStep, CheckStep, NextStep, FinishStep, CreateStep, PurgeStep, PutStep,
     FailRunsStep, RaiseStep, WipeStep, DropStep DEF Step

LEMMA NextInv == Inv /\ [Next]_vars => Inv'
<1> SUFFICES ASSUME Inv, [Next]_vars
             PROVE  Inv'
  OBVIOUS
<1>1. ASSUME NEW r \in Reqs, NEW op \in Ops,
             NEW v \in IF op \in {"generate", "reset"} THEN {NoVersion} ELSE Versions,
             Begin(r, op, v)
      PROVE  Inv'
  <2>1. op \in OpNames /\ v \in Versions \cup {NoVersion}
        /\ (v = NoVersion => op \in {"generate", "reset"})
    BY OpsAre, NoVersionIsNew
  <2> QED
    BY <1>1, <2>1, BeginStep
<1>2. CASE UNCHANGED vars
  <2>1. TypeOK' /\ ClockInv' /\ WorkInv' /\ LateInv' /\ TaskInv'
    BY <1>2 DEF vars, Inv, TypeOK, ClockInv, WorkInv, LateInv, TaskInv
  <2> QED
    BY <2>1 DEF Inv
<1>3. CASE Next
  BY <1>1, <1>3, StepInv, FailStep DEF Next
<1> QED
  BY <1>2, <1>3

LEMMA InvHolds == Spec => []Inv
  BY InitInv, NextInv, PTL DEF Spec

\* Every variable keeps the type of the table or the process variable it stands for.
THEOREM TypeCorrect == Spec => []TypeOK
<1>1. Inv => TypeOK
  BY DEF Inv
<1> QED
  BY <1>1, InvHolds, PTL

\* Whatever runs beside a reset, a baseline run lands at most one row while the flag is up
\* (assertForecastResetNotInProgress before every row).
THEOREM LateHolds == Spec => []OneLateRow
<1>1. Inv => OneLateRow
  <2>1. Inv => LateInv /\ RestTyped
    BY InvParts
  <2> QED
    BY <2>1 DEF LateInv, OneLateRow, RestTyped
<1> QED
  BY <1>1, InvHolds, PTL

-----------------------------------------------------------------------------
(* What a step may never do *)

LEMMA GoMoves ==
  ASSUME WorkTyped, NEW r \in Reqs, NEW pc \in Pcs, Go(r, pc), work[r].pc # pc
  PROVE  Mover(r)
<1>1. Turns(r, [work[r] EXCEPT !.pc = pc]) /\ work[r] \in WorkType
  BY GoTurns DEF WorkTyped
<1>2. work'[r].pc = pc
  BY <1>1 DEF Turns, WorkType
<1> QED
  BY <1>2 DEF Mover

\* Six steps change versions, six change rows.
LEMMA VersionSteps ==
  ASSUME [Next]_vars, version' # version
  PROVE  \E r \in Reqs : \/ Publish(r) \/ Archive(r) \/ DeleteDraft(r) \/ CopyDraft(r)
                         \/ DropVersions(r) \/ \E v \in Versions : CreateDraft(r, v)
<1>1. PICK r \in Reqs : Step(r)
  BY DEF Next, vars, Begin, Fail
<1> QED
  BY <1>1 DEF Step, ReadDraft, FindPrimary, ReadPrimary, OpenMerge, ReadRows, WriteRows,
     CheckFlag, NextRow, Finish, PurgeSku, PutRow, FailRuns, RaiseFlag, WipeRows

LEMMA RowSteps ==
  ASSUME [Next]_vars, rows' # rows
  PROVE  \E r \in Reqs : \/ DeleteDraft(r) \/ CopyDraft(r) \/ WriteRows(r) \/ DropVersions(r)
                         \/ \E s \in Skus : PurgeSku(r, s) \/ PutRow(r, s)
<1>1. PICK r \in Reqs : Step(r)
  BY DEF Next, vars, Begin, Fail
<1> QED
  BY <1>1 DEF Step, ReadDraft, Publish, Archive, FindPrimary, ReadPrimary, OpenMerge, ReadRows,
     CreateDraft, CheckFlag, NextRow, Finish, FailRuns, RaiseFlag, WipeRows

\* What a request at a step has and knows.
LEMMA Knows ==
  ASSUME Inv, NEW r \in Reqs
  PROVE  /\ work[r].pc \in {"set", "drop", "copy", "write", "purge", "put"} =>
              /\ work[r].v \in Versions
              /\ \/ version[work[r].v].status = "draft"
                 \/ work[r].began < version[work[r].v].at
         /\ work[r].pc = "copy" => work[r].op = "merge" /\ work[r].p \in Versions
         /\ work[r].pc = "wipe" => work[r].op = "reset"
         /\ work[r].pc = "archive" => work[r].op = "archive"
         /\ work[r] \in WorkType /\ WorkTyped /\ TablesTyped
  BY InvParts DEF Fine, Fits, Known, HasRead

\* Only the reset removes a published version (deleteDraftForecastVersion and its
\* re-check inside the transaction).
THEOREM PublishedStays == Spec => PublishedNotDeleted
<1>1. ASSUME Inv, [Next]_vars, NEW v \in Published, version'[v].status = "gone"
      PROVE  \E r \in Reqs : Mover(r) /\ work[r].op = "reset"
  <2>1. v \in Versions /\ version[v].status = "published" /\ version' # version
    BY <1>1 DEF Published
  <2>2. PICK r \in Reqs : \/ Publish(r) \/ Archive(r) \/ DeleteDraft(r) \/ CopyDraft(r)
                          \/ DropVersions(r) \/ \E u \in Versions : CreateDraft(r, u)
    BY <1>1, <2>1, VersionSteps
  <2>3. version \in [Versions -> VersionType]
    BY <1>1, Knows DEF TablesTyped
  <2>4. DropVersions(r)
    <3>1. ~Publish(r)
      BY <1>1, <2>1, <2>3 DEF Publish, Exists
    <3>2. ~Archive(r)
      BY <1>1, <2>1, <2>3 DEF Archive, Exists
    <3>3. ~DeleteDraft(r)
      BY <1>1, <2>1, <2>3 DEF DeleteDraft
    <3>4. ~CopyDraft(r)
      BY <1>1, <2>1, <2>3 DEF CopyDraft, Exists
    <3>5. \A u \in Versions : ~CreateDraft(r, u)
      BY <1>1, <2>1, <2>3 DEF CreateDraft
    <3> QED
      BY <2>2, <3>1, <3>2, <3>3, <3>4, <3>5
  <2>5. work[r].pc = "wipe" /\ Go(r, "over")
    BY <2>4 DEF DropVersions, At
  <2> QED
    BY <1>1, <2>5, Knows, GoMoves DEF Pcs
<1>2. Inv /\ [Next]_vars =>
        \A v \in Published : version'[v].status = "gone" =>
          \E r \in Reqs : Mover(r) /\ work[r].op = "reset"
  BY <1>1
<1> QED
  BY <1>2, InvHolds, PTL DEF Spec, PublishedNotDeleted

\* An archived version is published again only by a request that was running when it
\* was archived (publishForecastVersion reads a draft and updates by id).
THEOREM RevivedHolds == Spec => RevivedOnlyByRace
<1>1. ASSUME Inv, [Next]_vars, NEW v \in Versions, version[v].status = "archived",
             version'[v].status = "published"
      PROVE  \E r \in Reqs : Mover(r) /\ work[r].began < version[v].at
  <2>1. PICK r \in Reqs : \/ Publish(r) \/ Archive(r) \/ DeleteDraft(r) \/ CopyDraft(r)
                          \/ DropVersions(r) \/ \E u \in Versions : CreateDraft(r, u)
    BY <1>1, VersionSteps
  <2>2. version \in [Versions -> VersionType]
    BY <1>1, Knows DEF TablesTyped
  <2>3. Publish(r)
    <3>1. ~Archive(r)
      BY <1>1, <2>2 DEF Archive, Exists
    <3>2. ~DeleteDraft(r)
      BY <1>1, <2>2 DEF DeleteDraft
    <3>3. ~CopyDraft(r)
      BY <1>1, <2>2 DEF CopyDraft, Exists
    <3>4. \A u \in Versions : ~CreateDraft(r, u)
      BY <1>1, <2>2 DEF CreateDraft
    <3>5. ~DropVersions(r)
      BY <1>1, <2>2 DEF DropVersions
    <3> QED
      BY <2>1, <3>1, <3>2, <3>3, <3>4, <3>5
  <2>4. work[r].pc = "set" /\ Go(r, "over") /\ v = work[r].v
    BY <1>1, <2>2, <2>3 DEF Publish, At, Exists
  <2> QED
    BY <1>1, <2>4, Knows, GoMoves DEF Pcs
<1>2. Inv /\ [Next]_vars =>
        \A v \in Versions : version[v].status = "archived" /\ version'[v].status = "published" =>
          \E r \in Reqs : Mover(r) /\ work[r].began < version[v].at
  BY <1>1
<1> QED
  BY <1>2, InvHolds, PTL DEF Spec, RevivedOnlyByRace

\* The rows of a version that is no draft are frozen but for a merge into it, the reset,
\* and requests that were running when it stopped being one.
THEOREM FrozenHolds == Spec => RowsFrozen
<1>1. ASSUME Inv, [Next]_vars, NEW v \in Versions, rows'[v] # rows[v],
             version[v].status # "draft"
      PROVE  \E r \in Reqs : /\ Mover(r)
                             /\ \/ work[r].op = "merge" /\ work[r].p = v
                                \/ work[r].op = "reset"
                                \/ work[r].began < version[v].at
  <2>1. PICK r \in Reqs : \/ DeleteDraft(r) \/ CopyDraft(r) \/ WriteRows(r) \/ DropVersions(r)
                          \/ \E s \in Skus : PurgeSku(r, s) \/ PutRow(r, s)
    BY <1>1, RowSteps
  <2>2. rows \in [Versions -> SeenType] /\ WorkTyped /\ work[r] \in WorkType
    BY <1>1, Knows DEF TablesTyped
  <2>3. CASE DeleteDraft(r)
    BY <1>1, <2>2, <2>3 DEF DeleteDraft
  <2>4. CASE CopyDraft(r)
    <3>1. work[r].pc = "copy" /\ Go(r, "over") /\ work[r].p = v
      BY <1>1, <2>2, <2>4 DEF CopyDraft, At
    <3> QED
      BY <1>1, <3>1, Knows, GoMoves DEF Pcs
  <2>5. CASE WriteRows(r)
    <3>1. work[r].pc = "write" /\ Go(r, "over") /\ work[r].v = v
      BY <1>1, <2>2, <2>5 DEF WriteRows, At
    <3> QED
      BY <1>1, <3>1, Knows, GoMoves DEF Pcs
  <2>6. CASE DropVersions(r)
    <3>1. work[r].pc = "wipe" /\ Go(r, "over")
      BY <2>6 DEF DropVersions, At
    <3> QED
      BY <1>1, <3>1, Knows, GoMoves DEF Pcs
  <2>7. ASSUME NEW s \in Skus, PurgeSku(r, s) \/ PutRow(r, s)
        PROVE  Mover(r) /\ work[r].began < version[v].at
    <3>1. work[r].v = v /\ work[r].pc \in {"purge", "put"}
      BY <1>1, <2>2, <2>7 DEF PurgeSku, PutRow, At, WithRow
    <3>2. work'[r].pc \in {"next", "over"}
      BY <2>2, <2>7 DEF PurgeSku, PutRow, Go, WorkTyped, WorkType
    <3> QED
      BY <1>1, <3>1, <3>2, Knows DEF Mover
  <2> QED
    BY <2>1, <2>3, <2>4, <2>5, <2>6, <2>7
<1>2. Inv /\ [Next]_vars =>
        \A v \in Versions : rows'[v] # rows[v] /\ version[v].status # "draft" =>
          \E r \in Reqs : /\ Mover(r)
                          /\ \/ work[r].op = "merge" /\ work[r].p = v
                             \/ work[r].op = "reset"
                             \/ work[r].began < version[v].at
  BY <1>1
<1> QED
  BY <1>2, InvHolds, PTL DEF Spec, RowsFrozen

\* A baseline run that no decision overtook succeeds only with a row for every SKU
\* (the run is aborted, never shortened, when it meets the reset's flag).
THEOREM GeneratedHolds == Spec => GeneratedIsComplete
<1>1. ASSUME Inv, [Next]_vars, NEW r \in Reqs, At(r, "next"), task'[r] = "success",
             Mover(r), work[r].began = clock
      PROVE  SkusOf(work[r].v) = Skus
  <2>1. /\ task[r] # "success" /\ work[r].pc = "next" /\ work[r] \in WorkType
        /\ (task[r] # "none" => work[r].op = "generate")
        /\ Full(work[r], rows, clock) /\ WorkTyped /\ RestTyped
    BY <1>1, InvParts DEF TaskInv, At, Fine
  <2>2. work[r].todo = {} /\ task[r] # "none"
    <3>1. PICK q \in Reqs : task' # task /\ (Step(q) \/ Fail(q) \/
            \E op \in Ops : \E v \in IF op \in {"generate", "reset"} THEN {NoVersion} ELSE Versions :
              Begin(q, op, v))
      BY <1>1, <2>1 DEF Next, vars
    <3>2. ASSUME Ended(q, "failed") \/ FailRuns(q) \/ task'[r] = "running"
          PROVE  FALSE
      BY <1>1, <2>1, <3>2 DEF Ended, FailRuns, RestTyped
    <3>3. ASSUME NEW op, NEW v, Begin(q, op, v)
          PROVE  FALSE
      <4>1. task'[r] \in {task[r], "running"}
        BY <2>1, <3>3 DEF Begin, RestTyped
      <4> QED
        BY <1>1, <2>1, <3>2, <4>1
    <3>4. ~Fail(q)
      BY <3>2 DEF Fail
    <3>5. Finish(q)
      BY <3>1, <3>2, <3>3, <3>4 DEF Step, ReadDraft, Publish, Archive, DeleteDraft, FindPrimary,
         ReadPrimary, OpenMerge, CopyDraft, ReadRows, WriteRows, CheckFlag, NextRow,
         CreateDraft, PurgeSku, PutRow, RaiseFlag, WipeRows, DropVersions
    <3> QED
      BY <1>1, <2>1, <3>1, <3>5 DEF Finish, Ended, RestTyped
  <2>3. \A s \in Skus : rows[work[r].v][s] # NoRow
    BY <1>1, <2>1, <2>2 DEF Full
  <2> QED
    BY <2>3 DEF SkusOf
<1>2. Inv /\ [Next]_vars =>
        \A r \in Reqs :
          /\ At(r, "next") /\ task'[r] = "success" /\ Mover(r) /\ work[r].began = clock
          => SkusOf(work[r].v) = Skus
  BY <1>1
<1> QED
  BY <1>2, InvHolds, PTL DEF Spec, GeneratedIsComplete

-----------------------------------------------------------------------------
(* The forecast in force *)

\* The published versions with a row of the SKU, and the one published last of some.
Having(s, ver, rws) ==
  {v \in {u \in Versions : ver[u].status = "published"} : rws[v][s] # NoRow}
TopOf(V, ver) == CHOOSE v \in V : \A w \in V : ver[w].at <= ver[v].at

LEMMA InForceIs ==
  ASSUME NEW s
  PROVE  InForce(s) = IF Having(s, version, rows) = {} THEN NoRow
                      ELSE rows[TopOf(Having(s, version, rows), version)][s].by
  BY DEF InForce, Having, TopOf, Latest, Published

LEMMA InForceNext ==
  ASSUME NEW s
  PROVE  InForce(s)' = IF Having(s, version', rows') = {} THEN NoRow
                       ELSE rows'[TopOf(Having(s, version', rows'), version')][s].by
  BY DEF InForce, Having, TopOf, Latest, Published

LEMMA TopIs ==
  ASSUME NEW ver, NEW c \in Nat, NEW V, V # {}, \A u \in V : ver[u].at \in Nat,
         \A u \in V : ver[u].at <= c
  PROVE  TopOf(V, ver) \in V /\ \A u \in V : ver[u].at <= ver[TopOf(V, ver)].at
<1> DEFINE T == {c - ver[u].at : u \in V}
<1>1. T \in SUBSET Nat /\ T # {}
  OBVIOUS
<1>2. PICK x \in T : \A y \in T : x <= y
  BY <1>1, Least
<1>3. PICK v \in V : x = c - ver[v].at
  BY <1>2
<1>4. ASSUME NEW u \in V
      PROVE  ver[u].at <= ver[v].at
  <2>1. c - ver[v].at <= c - ver[u].at
    BY <1>2, <1>3
  <2> QED
    BY <2>1
<1>5. \E w \in V : \A u \in V : ver[u].at <= ver[w].at
  BY <1>4
<1> QED
  BY <1>5, Zenon DEF TopOf

\* Whatever has an author is in force as such: nobody is called like the missing row.
LEMMA NoneInForce ==
  ASSUME TablesTyped', ClockInv', NEW s \in Skus, InForce(s)' = NoRow
  PROVE  Having(s, version', rows') = {}
<1> SUFFICES ASSUME Having(s, version', rows') # {}
             PROVE  FALSE
  OBVIOUS
<1> DEFINE V == Having(s, version', rows')
           t == TopOf(V, version')
<1>1. /\ V # {} /\ clock' \in Nat
      /\ \A u \in V : version'[u].at \in Nat /\ version'[u].at <= clock'
                      /\ rows'[u][s] # NoRow /\ rows'[u][s] \in Row \cup {NoRow}
  BY DEF TablesTyped, ClockInv, Having, VersionType, SeenType
<1>2. t \in V
  <2> HIDE DEF V
  <2> QED
    BY <1>1, TopIs
<1>3. rows'[t][s].by \in Reqs \cup Versions
  BY <1>1, <1>2, RowHas
<1>4. InForce(s)' = rows'[t][s].by
  BY <1>1, InForceNext
<1> QED
  BY <1>3, <1>4, NoRowIsNew

\* A SKU loses its forecast only with a version that is archived, with the reset, or by a
\* request that a decision overtook (merge, regeneration of one SKU).
THEOREM CoverageHolds == Spec => CoverageKept
<1>1. ASSUME Inv, Inv', [Next]_vars, NEW s \in Skus, InForce(s) # NoRow, InForce(s)' = NoRow
      PROVE  \E r \in Reqs : /\ Mover(r)
                             /\ \/ work[r].op \in {"archive", "reset"}
                                \/ work[r].began # clock
  <2>1. Having(s, version, rows) # {} /\ Having(s, version', rows') = {}
    BY <1>1, InForceIs, NoneInForce, TypePartsNext DEF Inv
  <2>2. PICK v \in Versions : version[v].status = "published" /\ rows[v][s] # NoRow
    BY <2>1 DEF Having
  <2>3. version'[v].status # "published" \/ rows'[v][s] = NoRow
    BY <2>1 DEF Having
  <2>4. /\ version \in [Versions -> VersionType] /\ rows \in [Versions -> SeenType]
        /\ clock \in Nat /\ version[v].at <= clock /\ version[v].at \in Nat
        /\ rows[v] \in SeenType
    BY <1>1, InvParts DEF TablesTyped, ClockInv, VersionType
  <2>5. ASSUME NEW r \in Reqs, work[r].pc \in {"copy", "purge"}, work[r].v = v
        PROVE  work[r].began # clock
    BY <1>1, <2>2, <2>4, <2>5, Knows DEF WorkType
  <2>6. CASE version'[v].status # "published"
    <3>1. PICK r \in Reqs : \/ Publish(r) \/ Archive(r) \/ DeleteDraft(r) \/ CopyDraft(r)
                            \/ DropVersions(r) \/ \E u \in Versions : CreateDraft(r, u)
      BY <2>2, <2>6, VersionSteps, <1>1
    <3>2. ~Publish(r)
      BY <2>2, <2>4, <2>6 DEF Publish, Exists
    <3>3. ~DeleteDraft(r)
      BY <2>2, <2>4, <2>6 DEF DeleteDraft
    <3>4. \A u \in Versions : ~CreateDraft(r, u)
      BY <2>2, <2>4, <2>6 DEF CreateDraft
    <3>5. CASE CopyDraft(r)
      <4>1. work[r].pc = "copy" /\ work[r].v = v /\ Go(r, "over")
        BY <2>2, <2>4, <2>6, <3>5 DEF CopyDraft, At
      <4> QED
        BY <1>1, <2>5, <4>1, Knows, GoMoves DEF Pcs
    <3>6. CASE Archive(r) \/ DropVersions(r)
      <4>1. work[r].pc \in {"archive", "wipe"} /\ Go(r, "over")
        BY <3>6 DEF Archive, DropVersions, At
      <4> QED
        BY <1>1, <4>1, Knows, GoMoves DEF Pcs
    <3> QED
      BY <3>1, <3>2, <3>3, <3>4, <3>5, <3>6
  <2>7. CASE rows'[v][s] = NoRow
    <3>1. PICK r \in Reqs : \/ DeleteDraft(r) \/ CopyDraft(r) \/ WriteRows(r) \/ DropVersions(r)
                            \/ \E t \in Skus : PurgeSku(r, t) \/ PutRow(r, t)
      BY <1>1, <2>2, <2>7, RowSteps
    <3>2. WorkTyped /\ work[r] \in WorkType /\ Fine(work[r], version, rows, clock)
          /\ TablesTyped
      BY <1>1, InvParts
    <3>3. ~DeleteDraft(r)
      BY <2>2, <2>4, <2>7 DEF DeleteDraft
    <3>4. ASSUME CopyDraft(r), work[r].began = clock
          PROVE  FALSE
      <4>1. work[r].pc = "copy" /\ work[r].v \in Versions /\ work[r].p = v
            /\ rows'[v] = Merged(r)
        BY <1>1, <2>2, <2>4, <2>7, <3>4, Knows DEF CopyDraft, At
      <4>2. work[r].seen[s] # NoRow => rows[work[r].v][s] # NoRow
        BY <3>2, <3>4, <4>1 DEF Fine, Aims
      <4>3. rows[work[r].v][s] # NoRow => rows[work[r].v][s].by \in Reqs \cup Versions
        BY <3>2, <4>1, RowsOfType, RowHas
      <4>4. rows[work[r].v][s] # NoRow => [id |-> r, by |-> rows[work[r].v][s].by] # NoRow
        BY <4>3, RowIs
      <4> QED
        BY <2>2, <2>7, <4>1, <4>2, <4>4 DEF Merged
    <3>5. CASE CopyDraft(r)
      <4>1. work[r].pc = "copy" /\ Go(r, "over")
        BY <3>5 DEF CopyDraft, At
      <4> QED
        BY <3>2, <3>4, <3>5, <4>1, GoMoves DEF Pcs
    <3>6. ~WriteRows(r)
      <4>1. SUFFICES ASSUME WriteRows(r), work[r].v = v
                     PROVE  FALSE
        BY <2>2, <2>4, <2>7 DEF WriteRows
      <4>2. rows'[v][s] = IF Same(rows[v][s], work[r].seen[s])
                            THEN [id |-> rows[v][s].id, by |-> r] ELSE rows[v][s]
        BY <2>4, <4>1 DEF WriteRows
      <4>3. rows[v][s].id \in Reqs \cup Versions
        BY <2>2, <3>2, RowsOfType, RowHas
      <4>4. [id |-> rows[v][s].id, by |-> r] # NoRow
        BY <4>3, RowIs
      <4> QED
        BY <2>2, <2>7, <4>2, <4>4
    <3>7. CASE DropVersions(r)
      <4>1. work[r].pc = "wipe" /\ Go(r, "over")
        BY <3>7 DEF DropVersions, At
      <4> QED
        BY <1>1, <4>1, Knows, GoMoves DEF Pcs
    <3>8. ASSUME NEW t \in Skus, PurgeSku(r, t)
          PROVE  Mover(r) /\ work[r].began # clock
      <4>1. work[r].pc = "purge" /\ work[r].v = v
        BY <2>2, <2>4, <2>7, <3>8 DEF PurgeSku, At, WithRow
      <4>2. work'[r].pc \in {"next", "over"}
        BY <3>2, <3>8 DEF PurgeSku, Go, WorkTyped, WorkType
      <4> QED
        BY <2>5, <4>1, <4>2 DEF Mover
    <3>9. ASSUME NEW t \in Skus, PutRow(r, t)
          PROVE  FALSE
      <4>1. work[r].v = v /\ t = s
        BY <2>2, <2>4, <2>7, <3>9 DEF PutRow, WithRow, SeenType
      <4>2. work[r].seen[s] # NoRow /\ Same(rows[v][s], work[r].seen[s])
            /\ rows' = WithRow(v, s, [id |-> work[r].seen[s].id, by |-> r])
        BY <2>2, <2>7, <3>9, <4>1 DEF PutRow, Refused
      <4>3. work[r].seen[s].id \in Reqs \cup Versions
        BY <2>2, <3>2, <4>2, RowsOfType, RowHas DEF Same
      <4>4. [id |-> work[r].seen[s].id, by |-> r] # NoRow
        BY <4>3, RowIs
      <4>5. rows'[v][s] = [id |-> work[r].seen[s].id, by |-> r]
        BY <2>4, <4>2 DEF WithRow, SeenType
      <4> QED
        BY <2>7, <4>4, <4>5
    <3> QED
      BY <3>1, <3>3, <3>5, <3>6, <3>7, <3>8, <3>9
  <2> QED
    BY <2>3, <2>6, <2>7
<1>2. Inv /\ Inv' /\ [Next]_vars =>
        \A s \in Skus : InForce(s) # NoRow /\ InForce(s)' = NoRow =>
          \E r \in Reqs : /\ Mover(r)
                          /\ \/ work[r].op \in {"archive", "reset"}
                             \/ work[r].began # clock
  BY <1>1
<1> QED
  BY <1>2, InvHolds, PTL DEF Spec, CoverageKept

\* A step moves one request.
LEMMA OneMoves ==
  ASSUME WorkTyped, NEW r \in Reqs, NEW q \in Reqs, q # r,
         \/ Step(q) \/ Fail(q)
         \/ \E op \in Ops : \E v \in IF op \in {"generate", "reset"} THEN {NoVersion} ELSE Versions :
              Begin(q, op, v)
  PROVE  work'[r] = work[r]
<1>1. \A w : work' = [work EXCEPT ![q] = w] => work'[r] = work[r]
  BY DEF WorkTyped
<1>2. \A pc : Go(q, pc) => work'[r] = work[r]
  BY DEF Go, WorkTyped
<1>3. ByPublishing(q) => work'[r] = work[r]
  BY DEF ByPublishing, WorkTyped
<1>4. CASE \E op \in Ops : \E v \in IF op \in {"generate", "reset"} THEN {NoVersion} ELSE Versions :
             Begin(q, op, v)
  BY <1>4 DEF Begin, WorkTyped
<1>5. CASE Fail(q)
  BY <1>2, <1>5 DEF Fail
<1>6. CASE Step(q)
  <2>1. CASE \/ ReadDraft(q) \/ Publish(q) \/ Archive(q) \/ DeleteDraft(q) \/ CopyDraft(q)
             \/ WriteRows(q) \/ CheckFlag(q) \/ Finish(q) \/ FailRuns(q) \/ RaiseFlag(q)
             \/ WipeRows(q) \/ DropVersions(q)
    BY <1>2, <2>1 DEF ReadDraft, Publish, Archive, DeleteDraft, CopyDraft, WriteRows, CheckFlag,
       Finish, FailRuns, RaiseFlag, WipeRows, DropVersions
  <2>2. CASE FindPrimary(q) \/ ReadPrimary(q)
    BY <1>1, <1>2, <1>3, <2>2 DEF FindPrimary, ReadPrimary, WorkTyped
  <2>3. CASE OpenMerge(q) \/ NextRow(q)
    BY <1>2, <2>3 DEF OpenMerge, NextRow, WorkTyped
  <2>4. CASE ReadRows(q)
    BY <2>4 DEF ReadRows, WorkTyped
  <2>5. CASE \E v \in Versions : CreateDraft(q, v)
    BY <2>5 DEF CreateDraft, WorkTyped
  <2>6. CASE \E s \in Skus : PurgeSku(q, s) \/ PutRow(q, s)
    BY <1>2, <2>6 DEF PurgeSku, PutRow, WorkTyped
  <2> QED
    BY <1>6, <2>1, <2>2, <2>3, <2>4, <2>5, <2>6 DEF Step
<1> QED
  BY <1>4, <1>5, <1>6

\* A merge that commits without another decision since it began is the copy of a draft
\* into the version published last.
LEMMA SoloCopies ==
  ASSUME Inv, [Next]_vars, NEW r \in Reqs, At(r, "copy"), clock' # clock, Mover(r),
         work[r].began = clock
  PROVE  /\ CopyDraft(r)
         /\ work[r].v \in Versions /\ work[r].p \in Versions
         /\ version[work[r].v].status = "draft" /\ version[work[r].p].status = "published"
         /\ rows' = [rows EXCEPT ![work[r].p] = Merged(r)]
         /\ version' = [version EXCEPT ![work[r].v] = [status |-> "archived", at |-> clock + 1]]
<1>1. WorkTyped /\ Fine(work[r], version, rows, clock) /\ TablesTyped /\ ClockInv
      /\ work[r].pc = "copy"
  BY InvParts DEF At
<1>2. Step(r)
  <2>1. PICK q \in Reqs :
           \/ Step(q) \/ Fail(q)
           \/ \E op \in Ops : \E v \in IF op \in {"generate", "reset"} THEN {NoVersion} ELSE Versions :
                Begin(q, op, v)
    BY DEF Next, vars
  <2>2. q = r
    BY <1>1, <2>1, OneMoves DEF Mover
  <2> QED
    BY <2>1, <2>2 DEF Begin, Fail
<1>3. CopyDraft(r)
  BY <1>1, <1>2 DEF Step, At, ReadDraft, Publish, Archive, DeleteDraft, FindPrimary, ReadPrimary,
     OpenMerge, ReadRows, WriteRows, CheckFlag, NextRow, Finish, CreateDraft, PurgeSku, PutRow,
     FailRuns, RaiseFlag, WipeRows, DropVersions
<1>4. /\ work[r].v \in Versions /\ work[r].p \in Versions
      /\ version[work[r].v].status = "draft" \/ clock < version[work[r].v].at
      /\ version[work[r].p].status = "published"
  BY <1>1 DEF Fine, Fits, Known, HasRead, Aims
<1>5. version[work[r].v].status = "draft" /\ work[r].v \in Exists
  <2>1. version[work[r].v].at \in Nat /\ version[work[r].v].at <= clock /\ clock \in Nat
    BY <1>1, <1>4 DEF TablesTyped, ClockInv, VersionType
  <2> QED
    BY <1>4, <2>1 DEF Exists
<1> QED
  BY <1>3, <1>4, <1>5 DEF CopyDraft

\* A merge that no decision overtook puts exactly the draft's rows in force and archives it.
THEOREM SoloMergeHolds == Spec => SoloMergeTakesEffect
<1>1. ASSUME Inv, Inv', [Next]_vars, NEW r \in Reqs, At(r, "copy"), clock' # clock, Mover(r),
             work[r].began = clock
      PROVE  LET v == work[r].v IN
             /\ \A s \in Skus : InForce(s)' = IF rows[v][s] # NoRow THEN rows[v][s].by
                                             ELSE InForce(s)
             /\ version'[v].status = "archived"
  <2> DEFINE v == work[r].v
             p == work[r].p
  <2>1. /\ v \in Versions /\ p \in Versions
        /\ version[v].status = "draft" /\ version[p].status = "published"
        /\ rows' = [rows EXCEPT ![p] = Merged(r)]
        /\ version' = [version EXCEPT ![v] = [status |-> "archived", at |-> clock + 1]]
    BY <1>1, SoloCopies
  <2>2. /\ WorkTyped /\ TablesTyped /\ TablesTyped' /\ ClockInv /\ ClockInv'
        /\ Aims(work[r], version, rows, clock) /\ clock \in Nat /\ clock' \in Nat
        /\ work[r] \in WorkType
    BY <1>1, InvParts, TypePartsNext DEF Inv, Fine, TablesTyped
  <2>3. /\ \A u \in Versions : version[u].status = "published" => version[u].at <= version[p].at
        /\ \A s \in Skus : work[r].seen[s] # NoRow => rows[v][s] # NoRow
    BY <1>1, <2>2 DEF Aims, At
  <2>4. /\ version'[v].status = "archived" /\ p # v
        /\ \A u \in Versions \ {v} : version'[u] = version[u]
    BY <2>1, <2>2 DEF TablesTyped
  <2>5. /\ rows'[p] = Merged(r)
        /\ \A u \in Versions \ {p} : rows'[u] = rows[u]
    BY <2>1, <2>2 DEF TablesTyped
  <2>6. ASSUME NEW s \in Skus
        PROVE  InForce(s)' = IF rows[v][s] # NoRow THEN rows[v][s].by ELSE InForce(s)
    <3> DEFINE V == Having(s, version, rows)
               W == Having(s, version', rows')
    <3>1. /\ \A u \in W : u \in Versions /\ version'[u].at \in Nat /\ version'[u].at <= clock'
                          /\ version'[u] = version[u] /\ version[u].status = "published"
                          /\ version[u].at \in Nat
          /\ \A u \in V : version[u].at \in Nat /\ version[u].at <= clock
                          /\ version[u].status = "published" /\ u \in Versions /\ u # v
      BY <2>1, <2>2, <2>4 DEF Having, TablesTyped, ClockInv, VersionType
    <3>2. \A u, w \in Versions : /\ version[u].status = "published"
                                 /\ version[w].status = "published"
                                 /\ version[u].at = version[w].at
                                 => u = w
      BY <2>2 DEF ClockInv
    <3>3. CASE rows[v][s] # NoRow
      <4> DEFINE t == TopOf(W, version')
      <4>1. Merged(r)[s] = [id |-> r, by |-> rows[v][s].by]
        BY <3>3 DEF Merged
      <4>2. rows[v][s].by \in Reqs \cup Versions
        BY <2>1, <2>2, <3>3, RowsOfType, RowHas
      <4>3. rows'[p][s] # NoRow /\ rows'[p][s].by = rows[v][s].by
        BY <2>5, <4>1, <4>2, RowIs
      <4>4. p \in W
        BY <2>1, <2>4, <4>3 DEF Having
      <4>5. t \in W /\ \A u \in W : version'[u].at <= version'[t].at
        <5> HIDE DEF W
        <5> QED
          BY <2>2, <3>1, <4>4, TopIs
      <4>6. t = p
        <5> HIDE DEF W, t
        <5>1. version[p].at <= version[t].at /\ version[t].at <= version[p].at
          BY <2>3, <3>1, <4>4, <4>5
        <5>2. version[p].at = version[t].at
          BY <3>1, <4>4, <4>5, <5>1
        <5> QED
          BY <2>1, <3>1, <3>2, <4>5, <5>2
      <4>7. InForce(s)' = rows'[t][s].by
        BY <4>4, InForceNext
      <4> QED
        BY <3>3, <4>3, <4>6, <4>7
    <3>4. CASE rows[v][s] = NoRow
      <4>1. Merged(r)[s] = rows[p][s]
        BY <2>3, <3>4 DEF Merged
      <4>2. \A u \in Versions : rows'[u][s] = rows[u][s]
        BY <2>5, <4>1
      <4>3. W = V
        BY <2>1, <2>4, <4>2 DEF Having
      <4>4. CASE V = {}
        BY <3>4, <4>3, <4>4, InForceIs, InForceNext
      <4>5. CASE V # {}
        <5> DEFINE t == TopOf(V, version')
                   u == TopOf(V, version)
        <5>1. t \in V /\ \A w \in V : version'[w].at <= version'[t].at
          <6> HIDE DEF V, W
          <6> QED
            BY <2>2, <3>1, <4>3, <4>5, TopIs
        <5>2. u \in V /\ \A w \in V : version[w].at <= version[u].at
          <6> HIDE DEF V
          <6> QED
            BY <2>2, <3>1, <4>5, TopIs
        <5>3. t = u
          <6> HIDE DEF V, W, t, u
          <6>1. version[t].at <= version[u].at /\ version[u].at <= version[t].at
            BY <3>1, <4>3, <5>1, <5>2
          <6>2. version[t].at = version[u].at
            BY <3>1, <5>1, <5>2, <6>1
          <6> QED
            BY <3>1, <3>2, <5>1, <5>2, <6>2
        <5>4. InForce(s)' = rows'[t][s].by /\ InForce(s) = rows[u][s].by
          BY <4>3, <4>5, InForceIs, InForceNext
        <5>5. u \in Versions
          BY <3>1, <5>2
        <5> QED
          BY <3>4, <4>2, <5>3, <5>4, <5>5
      <4> QED
        BY <4>4, <4>5
    <3> QED
      BY <3>3, <3>4
  <2> QED
    BY <2>4, <2>6
<1>2. Inv /\ Inv' /\ [Next]_vars =>
        \A r \in Reqs :
          LET v == work[r].v IN
          /\ At(r, "copy") /\ clock' # clock /\ Mover(r) /\ work[r].began = clock
          => /\ \A s \in Skus : InForce(s)' = IF rows[v][s] # NoRow THEN rows[v][s].by
                                             ELSE InForce(s)
             /\ version'[v].status = "archived"
  BY <1>1
<1> QED
  BY <1>2, InvHolds, PTL DEF Spec, SoloMergeTakesEffect
=============================================================================
