------------------------- MODULE ForecastVersions -------------------------
(***************************************************************************)
(* The sales-forecast versions and their rows: the requests that publish,   *)
(* merge, archive, delete, edit and generate them, and the reset of all     *)
(* forecast data.  A request is a sequence of database statements; any      *)
(* other request may run between two of them.  The forecast in force for a  *)
(* SKU is the row of the latest published version that has one.             *)
(***************************************************************************)
EXTENDS Naturals, FiniteSets

CONSTANTS Reqs,        \* HTTP requests and background runs, one operation each
          Versions,    \* ids of versions: a deleted id is never used again
          Skus,        \* SKUs; the months and platforms of one are one row
          NoRow, NoVersion

ASSUME NoRowIsNew == NoRow \notin Reqs \cup Versions \cup
                                [id: Reqs \cup Versions, by: Reqs \cup Versions]
ASSUME NoVersionIsNew == NoVersion \notin Versions
ASSUME VersionsFinite == IsFiniteSet(Versions)

VARIABLES version,     \* sales_forecast_versions: status, clock of its last change
          rows,        \* sales_forecast_monthly: row id and who wrote its content
          work,        \* where each request is and what it has read
          task,        \* task_runs of the background baseline runs
          flag,        \* forecastResetInProgress of the process
          fresh,       \* a row was inserted since the reset's transaction began
          late,        \* rows a baseline run wrote while the flag was up
          clock        \* decisions committed so far

vars == <<version, rows, work, task, flag, fresh, late, clock>>

Row == [id: Reqs \cup Versions, by: Reqs \cup Versions]
Status == {"new", "draft", "published", "archived", "gone"}
Exists == {v \in Versions : version[v].status \in {"draft", "published", "archived"}}
Published == {v \in Versions : version[v].status = "published"}

\* The published version of V that was published last (V is not empty).
Latest(V) == CHOOSE v \in V : \A w \in V : version[w].at <= version[v].at

\* The request or version whose content is in force for a SKU.
InForce(s) ==
  LET having == {v \in Published : rows[v][s] # NoRow}
  IN  IF having = {} THEN NoRow ELSE rows[Latest(having)][s].by

NoRows == [s \in Skus |-> NoRow]
SkusOf(v) == {s \in Skus : rows[v][s] # NoRow}

Idle == [op |-> "none", pc |-> "idle", v |-> NoVersion, p |-> NoVersion,
         seen |-> NoRows, todo |-> {}, began |-> 0]

At(r, pc) == work[r].pc = pc
Go(r, pc) == work' = [work EXCEPT ![r] = [@ EXCEPT !.pc = pc]]
Busy(r) == work[r].pc \notin {"idle", "over"}

Wiping == \E q \in Reqs : At(q, "wipe")

\* A row another open transaction has deleted: whoever writes it waits.
Locked(v, s) ==
  /\ rows[v][s] # NoRow
  /\ \/ Wiping
     \/ \E q \in Reqs : At(q, "copy") /\ work[q].p = v /\ work[q].seen[s] # NoRow

(***************************************************************************)
(* The versions and rows that earlier requests left.                       *)
(***************************************************************************)
Init ==
  /\ version \in [Versions -> [status: {"new", "draft", "published", "archived"},
                               at: 0..Cardinality(Versions) - 1]]
  /\ \A v, w \in Versions : version[v].at = version[w].at => v = w
  /\ \E has \in [Versions -> SUBSET Skus] :
       /\ \A v \in Versions : version[v].status = "new" => has[v] = {}
       /\ rows = [v \in Versions |-> [s \in Skus |->
                    IF s \in has[v] THEN [id |-> v, by |-> v] ELSE NoRow]]
  /\ work = [r \in Reqs |-> Idle]
  /\ task = [r \in Reqs |-> "none"]
  /\ flag = FALSE /\ fresh = FALSE
  /\ late = [r \in Reqs |-> 0]
  /\ clock = Cardinality(Versions)

First == [publish |-> "read", merge |-> "read", delete |-> "read", edit |-> "row",
          calibrate |-> "read", archive |-> "archive", generate |-> "check",
          regenerate |-> "read", reset |-> "fail"]
Ops == DOMAIN First

\* A request arrives.  A background baseline run is recorded before it starts.
Begin(r, op, v) ==
  /\ At(r, "idle")
  /\ op \notin {"generate", "reset"} => v \in Exists
  /\ work' = [work EXCEPT ![r] =
       [Idle EXCEPT !.op = op, !.pc = First[op], !.v = v, !.began = clock]]
  /\ task' = IF op = "generate" THEN [task EXCEPT ![r] = "running"] ELSE task
  /\ UNCHANGED <<version, rows, flag, fresh, late, clock>>

\* Every operation on a draft first reads the version and goes on only if it is one.
AfterRead == [publish |-> "set", merge |-> "find", delete |-> "drop",
              edit |-> "write", calibrate |-> "row", regenerate |-> "check"]

\* Mutant: the status that was read is not compared.
ReadAny(r) ==
  /\ At(r, "read")
  /\ Go(r, AfterRead[work[r].op])
  /\ UNCHANGED <<version, rows, task, flag, fresh, late, clock>>

ReadDraft(r) ==
  /\ At(r, "read")
  /\ Go(r, IF version[work[r].v].status = "draft" THEN AfterRead[work[r].op] ELSE "over")
  /\ UNCHANGED <<version, rows, task, flag, fresh, late, clock>>

\* The UPDATE of a publication names the id only.
Publish(r) ==
  LET v == work[r].v
  IN  /\ At(r, "set")
      /\ IF v \in Exists
           THEN /\ version' = [version EXCEPT ![v] = [status |-> "published", at |-> clock + 1]]
                /\ clock' = clock + 1
           ELSE UNCHANGED <<version, clock>>
      /\ Go(r, "over")
      /\ UNCHANGED <<rows, task, flag, fresh, late>>

Archive(r) ==
  LET v == work[r].v
  IN  /\ At(r, "archive")
      /\ IF v \in Exists
           THEN /\ version' = [version EXCEPT ![v] = [status |-> "archived", at |-> clock + 1]]
                /\ clock' = clock + 1
           ELSE UNCHANGED <<version, clock>>
      /\ Go(r, "over")
      /\ UNCHANGED <<rows, task, flag, fresh, late>>

\* The transaction that deletes a draft: nothing is deleted unless it still is one.
DeleteDraft(r) ==
  LET v == work[r].v
  IN  /\ At(r, "drop")
      /\ \A s \in Skus : ~Locked(v, s)
      /\ IF version[v].status = "draft"
           THEN /\ version' = [version EXCEPT ![v] = [status |-> "gone", at |-> clock + 1]]
                /\ rows' = [rows EXCEPT ![v] = NoRows]
                /\ clock' = clock + 1
           ELSE UNCHANGED <<version, rows, clock>>
      /\ Go(r, "over")
      /\ UNCHANGED <<task, flag, fresh, late>>

(***************************************************************************)
(* Merging a draft into the version published last.  The target is chosen   *)
(* and read before the transaction; without one the draft is published.     *)
(***************************************************************************)
ByPublishing(r) == work' = [work EXCEPT ![r] = [@ EXCEPT !.op = "publish", !.pc = "read"]]
\* Mutant: the published versions come in ascending order of publication.
FindOldest(r) ==
  /\ At(r, "find")
  /\ IF Published = {}
       THEN ByPublishing(r)
       ELSE \E v \in Published :
              /\ \A w \in Published : version[v].at <= version[w].at
              /\ work' = [work EXCEPT ![r] = [@ EXCEPT !.p = v, !.pc = "target"]]
  /\ UNCHANGED <<version, rows, task, flag, fresh, late, clock>>

FindPrimary(r) ==
  /\ At(r, "find")
  /\ IF Published = {}
       THEN ByPublishing(r)
       ELSE work' = [work EXCEPT ![r] = [@ EXCEPT !.p = Latest(Published), !.pc = "target"]]
  /\ UNCHANGED <<version, rows, task, flag, fresh, late, clock>>

ReadPrimary(r) ==
  /\ At(r, "target")
  /\ IF work[r].p \in Published /\ work[r].p # work[r].v
       THEN Go(r, "open") ELSE ByPublishing(r)
  /\ UNCHANGED <<version, rows, task, flag, fresh, late, clock>>

\* Mutant: the delete is not limited to the draft's SKUs.
OpenMergeAll(r) ==
  LET skus == SkusOf(work[r].v) IN
  /\ At(r, "open")
  /\ \A s \in Skus : ~Locked(work[r].p, s)
  /\ IF skus = {}
       THEN Go(r, "over")
       ELSE work' = [work EXCEPT ![r] = [@ EXCEPT !.pc = "copy", !.seen = rows[work[r].p]]]
  /\ UNCHANGED <<version, rows, task, flag, fresh, late, clock>>

\* The transaction reads the draft's SKUs and deletes the target's rows of them.
OpenMerge(r) ==
  LET skus == SkusOf(work[r].v) IN
  /\ At(r, "open")
  /\ \A s \in skus : ~Locked(work[r].p, s)
  /\ IF skus = {}
       THEN Go(r, "over")
       ELSE work' = [work EXCEPT ![r] = [@ EXCEPT !.pc = "copy",
              !.seen = [s \in Skus |-> IF s \in skus THEN rows[work[r].p][s] ELSE NoRow]]]
  /\ UNCHANGED <<version, rows, task, flag, fresh, late, clock>>

\* What the target holds once the deleted rows are gone and the draft's are in.
Merged(r) == [s \in Skus |->
  IF rows[work[r].v][s] # NoRow THEN [id |-> r, by |-> rows[work[r].v][s].by]
  ELSE IF work[r].seen[s] # NoRow THEN NoRow ELSE rows[work[r].p][s]]

\* A row that appeared in the target after the delete: the insert is refused.
Clashes(r) == \E s \in SkusOf(work[r].v) :
                 rows[work[r].p][s] # NoRow /\ work[r].seen[s] = NoRow

\* It then reads the draft's rows, inserts them, archives the draft and commits.
CopyDraft(r) ==
  LET v == work[r].v  p == work[r].p IN
  /\ At(r, "copy")
  /\ IF Clashes(r) \/ (SkusOf(v) # {} /\ p \notin Exists)
       THEN UNCHANGED <<version, rows, fresh, clock>>
       ELSE /\ rows' = [rows EXCEPT ![p] = Merged(r)]
            /\ fresh' = (fresh \/ (Wiping /\ SkusOf(v) # {}))
            /\ version' = IF v \in Exists
                 THEN [version EXCEPT ![v] = [status |-> "archived", at |-> clock + 1]]
                 ELSE version
            /\ clock' = clock + 1
  /\ Go(r, "over")
  /\ UNCHANGED <<task, flag, late>>

(***************************************************************************)
(* Editing rows.  One row: it is read before its version.  A calibration    *)
(* file: the version is read before the rows.  Both write by row id.        *)
(***************************************************************************)
\* Mutant: a single row is written without looking at its version.
ReadRowsOnly(r) ==
  /\ At(r, "row")
  /\ \E skus \in IF work[r].op = "edit" THEN {{s} : s \in SkusOf(work[r].v)}
                                        ELSE {SkusOf(work[r].v)} :
       work' = [work EXCEPT ![r] = [@ EXCEPT
         !.seen = [s \in Skus |-> IF s \in skus THEN rows[work[r].v][s] ELSE NoRow],
         !.pc = "write"]]
  /\ UNCHANGED <<version, rows, task, flag, fresh, late, clock>>

ReadRows(r) ==
  /\ At(r, "row")
  /\ \E skus \in IF work[r].op = "edit" THEN {{s} : s \in SkusOf(work[r].v)}
                                        ELSE {SkusOf(work[r].v)} :
       work' = [work EXCEPT ![r] = [@ EXCEPT
         !.seen = [s \in Skus |-> IF s \in skus THEN rows[work[r].v][s] ELSE NoRow],
         !.pc = IF work[r].op = "edit" THEN "read" ELSE "write"]]
  /\ UNCHANGED <<version, rows, task, flag, fresh, late, clock>>

Same(row, seen) == row # NoRow /\ seen # NoRow /\ row.id = seen.id

WriteRows(r) ==
  LET v == work[r].v IN
  /\ At(r, "write")
  /\ \A s \in Skus : Same(rows[v][s], work[r].seen[s]) => ~Locked(v, s)
  /\ rows' = [rows EXCEPT ![v] = [s \in Skus |->
       IF Same(@[s], work[r].seen[s]) THEN [id |-> @[s].id, by |-> r] ELSE @[s]]]
  /\ Go(r, "over")
  /\ UNCHANGED <<version, task, flag, fresh, late, clock>>

\* The tables with one row put, changed or removed.
WithRow(v, s, row) == [rows EXCEPT ![v][s] = row]

(***************************************************************************)
(* Generating a baseline: into a new draft for every SKU, or into an        *)
(* existing one for one SKU, whose row is purged first.  Every row is       *)
(* written by a statement of its own, after a look at the reset's flag.     *)
(***************************************************************************)
Ended(r, outcome) == task' = IF task[r] = "none" THEN task ELSE [task EXCEPT ![r] = outcome]

CheckFlag(r) ==
  /\ At(r, "check")
  /\ IF flag
       THEN Go(r, "over") /\ Ended(r, "failed")
       ELSE /\ Go(r, IF work[r].op = "generate" THEN "create" ELSE "purge")
            /\ UNCHANGED task
  /\ UNCHANGED <<version, rows, flag, fresh, late, clock>>

CreateDraft(r, v) ==
  /\ At(r, "create")
  /\ version[v].status = "new"
  /\ version' = [version EXCEPT ![v] = [status |-> "draft", at |-> clock]]
  /\ work' = [work EXCEPT ![r] = [@ EXCEPT !.v = v, !.todo = Skus, !.pc = "next"]]
  /\ UNCHANGED <<rows, task, flag, fresh, late, clock>>

PurgeSku(r, s) ==
  LET v == work[r].v IN
  /\ At(r, "purge")
  /\ ~Locked(v, s)
  /\ IF v \in Exists
       THEN /\ rows' = WithRow(v, s, NoRow)
            /\ work' = [work EXCEPT ![r] = [@ EXCEPT !.todo = {s}, !.pc = "next"]]
            /\ clock' = clock + 1
       ELSE Go(r, "over") /\ UNCHANGED <<rows, clock>>
  /\ UNCHANGED <<version, task, flag, fresh, late>>

\* Mutant: the flag is looked at once, when the run starts.
NextRowBlind(r) ==
  /\ At(r, "next")
  /\ work[r].todo # {}
  /\ work' = [work EXCEPT ![r] = [@ EXCEPT !.pc = "put", !.seen = rows[work[r].v]]]
  /\ UNCHANGED <<version, rows, task, flag, fresh, late, clock>>

\* Mutant: a row that meets the flag is skipped, the run is not aborted.
NextRowSkips(r) ==
  /\ At(r, "next")
  /\ work[r].todo # {}
  /\ IF flag
       THEN \E s \in work[r].todo :
              work' = [work EXCEPT ![r] = [@ EXCEPT !.todo = @ \ {s}]]
       ELSE work' = [work EXCEPT ![r] = [@ EXCEPT !.pc = "put", !.seen = rows[work[r].v]]]
  /\ UNCHANGED <<version, rows, task, flag, fresh, late, clock>>

NextRow(r) ==
  /\ At(r, "next")
  /\ IF flag
       THEN Go(r, "over") /\ Ended(r, "failed")
       ELSE /\ work[r].todo # {}
            /\ work' = [work EXCEPT ![r] = [@ EXCEPT !.pc = "put", !.seen = rows[work[r].v]]]
            /\ UNCHANGED task
  /\ UNCHANGED <<version, rows, flag, fresh, late, clock>>

\* An insert into a version that is gone, or of a row that is there now, is refused.
Refused(r, s) == \/ work[r].v \notin Exists
                 \/ rows[work[r].v][s] # NoRow

PutRow(r, s) ==
  LET v == work[r].v  seen == work[r].seen[s] IN
  /\ At(r, "put") /\ s \in work[r].todo
  /\ \/ /\ seen = NoRow /\ Refused(r, s)
        /\ Go(r, "over") /\ Ended(r, "failed")
        /\ UNCHANGED <<rows, fresh, late>>
     \/ /\ seen = NoRow /\ ~Refused(r, s)
        /\ rows' = WithRow(v, s, [id |-> r, by |-> r])
        /\ fresh' = (fresh \/ Wiping)
        /\ late' = IF flag THEN [late EXCEPT ![r] = @ + 1] ELSE late
        /\ work' = [work EXCEPT ![r] = [@ EXCEPT !.pc = "next", !.todo = work[r].todo \ {s}]]
        /\ UNCHANGED task
     \/ /\ seen # NoRow /\ ~(Same(rows[v][s], seen) /\ Locked(v, s))
        /\ rows' = IF Same(rows[v][s], seen)
                     THEN WithRow(v, s, [id |-> seen.id, by |-> r])
                     ELSE rows
        /\ work' = [work EXCEPT ![r] = [@ EXCEPT !.pc = "next", !.todo = work[r].todo \ {s}]]
        /\ UNCHANGED <<task, fresh, late>>
  /\ UNCHANGED <<version, flag, clock>>

\* finishTaskRun writes its outcome whatever the run's record says by now.
Finish(r) ==
  /\ At(r, "next") /\ work[r].todo = {}
  /\ Go(r, "over") /\ Ended(r, "success")
  /\ UNCHANGED <<version, rows, flag, fresh, late, clock>>

(***************************************************************************)
(* Resetting all forecast data: the runs are marked failed, the flag goes   *)
(* up, one transaction deletes the rows and then the versions.              *)
(***************************************************************************)
FailRuns(r) ==
  /\ At(r, "fail")
  /\ task' = [q \in Reqs |-> IF task[q] = "running" THEN "failed" ELSE task[q]]
  /\ Go(r, "raise")
  /\ UNCHANGED <<version, rows, flag, fresh, late, clock>>

RaiseFlag(r) ==
  /\ At(r, "raise")
  /\ flag' = TRUE
  /\ late' = [q \in Reqs |-> 0]
  /\ Go(r, "rows")
  /\ UNCHANGED <<version, rows, task, fresh, clock>>

WipeRows(r) ==
  /\ At(r, "rows")
  /\ \A v \in Versions, s \in Skus : ~Locked(v, s)
  /\ ~Wiping
  /\ fresh' = FALSE
  /\ Go(r, "wipe")
  /\ UNCHANGED <<version, rows, task, flag, late, clock>>

\* Deleting the versions fails if a row came in meanwhile: nothing is deleted.
DropVersions(r) ==
  /\ At(r, "wipe")
  /\ IF fresh
       THEN UNCHANGED <<version, rows, clock>>
       ELSE /\ version' = [v \in Versions |->
                 IF v \in Exists THEN [status |-> "gone", at |-> clock + 1] ELSE version[v]]
            /\ rows' = [v \in Versions |-> NoRows]
            /\ clock' = clock + 1
  /\ flag' = FALSE
  /\ Go(r, "over")
  /\ UNCHANGED <<task, fresh, late>>

\* Any statement may fail: the request ends there, an open transaction is undone.
Fail(r) ==
  /\ Busy(r)
  /\ flag' = IF work[r].pc \in {"rows", "wipe"} THEN FALSE ELSE flag
  /\ Go(r, "over") /\ Ended(r, "failed")
  /\ UNCHANGED <<version, rows, fresh, late, clock>>

Step(r) ==
  \/ ReadDraft(r) \/ Publish(r) \/ Archive(r) \/ DeleteDraft(r)
  \/ FindPrimary(r) \/ ReadPrimary(r) \/ OpenMerge(r) \/ CopyDraft(r)
  \/ ReadRows(r) \/ WriteRows(r)
  \/ CheckFlag(r) \/ NextRow(r) \/ Finish(r)
  \/ \E v \in Versions : CreateDraft(r, v)
  \/ \E s \in Skus : PurgeSku(r, s) \/ PutRow(r, s)
  \/ FailRuns(r) \/ RaiseFlag(r) \/ WipeRows(r) \/ DropVersions(r)

Next ==
  \E r \in Reqs :
    \/ \E op \in Ops : \E v \in IF op \in {"generate", "reset"} THEN {NoVersion} ELSE Versions :
         Begin(r, op, v)
    \/ Step(r)
    \/ Fail(r)

Spec == Init /\ [][Next]_vars

-----------------------------------------------------------------------------
\* Every variable keeps the type its table or process variable has.
TypeOK ==
  /\ version \in [Versions -> [status: Status, at: Nat]]
  /\ rows \in [Versions -> [Skus -> Row \cup {NoRow}]]
  /\ work \in [Reqs -> [op: Ops \cup {"none"},
                        pc: {"idle", "read", "row", "set", "archive", "find", "target", "open",
                             "copy", "drop", "write", "check", "create", "purge", "next", "put",
                             "fail", "raise", "rows", "wipe", "over"},
                        v: Versions \cup {NoVersion}, p: Versions \cup {NoVersion},
                        seen: [Skus -> Row \cup {NoRow}], todo: SUBSET Skus, began: Nat]]
  /\ task \in [Reqs -> {"none", "running", "failed", "success"}]
  /\ flag \in BOOLEAN /\ fresh \in BOOLEAN
  /\ late \in [Reqs -> Nat] /\ clock \in Nat

Mover(r) == work'[r] # work[r]

\* Only the reset removes a version that is published (deleteDraftForecastVersion
\* reads a draft that may be published before its transaction commits).
PublishedNotDeleted ==
  [][\A v \in Published : version'[v].status = "gone" =>
       \E r \in Reqs : Mover(r) /\ work[r].op = "reset"]_vars

\* A version that is archived is published again only by a request that was
\* already running when it was archived (publishForecastVersion's UPDATE by id).
RevivedOnlyByRace ==
  [][\A v \in Versions : version[v].status = "archived" /\ version'[v].status = "published" =>
       \E r \in Reqs : Mover(r) /\ work[r].began < version[v].at]_vars

\* A row of a version that is no draft changes only by a merge into it, by the
\* reset, or by a request that was running when it stopped being a draft.
RowsFrozen ==
  [][\A v \in Versions : rows'[v] # rows[v] /\ version[v].status # "draft" =>
       \E r \in Reqs : /\ Mover(r)
                       /\ \/ work[r].op = "merge" /\ work[r].p = v
                          \/ work[r].op = "reset"
                          \/ work[r].began < version[v].at]_vars

\* A merge during which no other decision is committed puts exactly the draft's
\* rows in force, leaves every other SKU as it was and archives the draft.
SoloMergeTakesEffect ==
  [][\A r \in Reqs :
       LET v == work[r].v IN
       /\ At(r, "copy") /\ clock' # clock /\ Mover(r) /\ work[r].began = clock
       => /\ \A s \in Skus : InForce(s)' = IF rows[v][s] # NoRow THEN rows[v][s].by ELSE InForce(s)
          /\ version'[v].status = "archived"]_vars

\* A SKU loses its forecast in force only when a version is archived or all data
\* are reset, or by a request that another decision overtook.
CoverageKept ==
  [][\A s \in Skus : InForce(s) # NoRow /\ InForce(s)' = NoRow =>
       \E r \in Reqs : /\ Mover(r)
                       /\ \/ work[r].op \in {"archive", "reset"}
                          \/ work[r].began # clock]_vars

\* While the reset's flag is up a baseline run lands at most the row it had
\* already looked at the flag for.
OneLateRow == flag => \A r \in Reqs : late[r] <= 1

\* A baseline run that no other decision overtook reports success only when its
\* version has a row for every SKU, also after a reset that failed.
GeneratedIsComplete ==
  [][\A r \in Reqs :
       /\ At(r, "next") /\ task'[r] = "success" /\ Mover(r) /\ work[r].began = clock
       => SkusOf(work[r].v) = Skus]_vars
=============================================================================
