-------------------------- MODULE CostingExtract --------------------------
(***************************************************************************)
(* Reading the bill of materials of one costing project out of its design   *)
(* file: the extraction runs (lib/product-costing/extract-runner.ts), the   *)
(* analysis of the product facts, and the requests of the project's page    *)
(* (lib/product-costing/service.ts) that write the same lines and status.   *)
(* A step is one statement, one transaction or one call of the AI workflow. *)
(***************************************************************************)
EXTENDS Naturals, FiniteSets

CONSTANTS Runs,        \* rows of costing_extract_runs, each with its executor
          Pages,       \* numbers of the pages that are sent to the workflow
          Ranges,      \* ranges of pages that may be asked for instead of them all
          Names,       \* canonical material names
          Refs,        \* pages a source reference may name, besides the page that was sent
          Nobody,      \* no run
          MaxOthers    \* bound: requests, analyses of the facts and restarts together

ASSUME NobodyIsNew == Nobody \notin Runs
ASSUME PagesFinite == Pages \subseteq Nat /\ IsFiniteSet(Pages)
ASSUME RangesOfPages == Ranges \subseteq SUBSET Pages
ASSUME RefsOfPages == Refs \subseteq SUBSET Pages
ASSUME SomethingToRead == Pages # {} /\ {} \notin Ranges  \* else the executor throws
ASSUME BoundIsNat == MaxOthers \in Nat

VARIABLES status,    \* costing_projects.status
          run,       \* costing_extract_runs.status
          stale,     \* runs with no heartbeat for more than 15 minutes
          lines,     \* costing_bom_lines
          work,      \* the executor of each run; what is over leaves nothing behind
          analysis,  \* the analysis of the product facts
          visit,     \* the request of the project's page that is going on
          spent,     \* requests, analyses and restarts so far
          early,     \* history: runs marked failed before their executor booted
          disturbed  \* history: a pair of statements that belong together was torn

vars == <<status, run, stale, lines, work, analysis, visit, spent,
          early, disturbed>>
history == <<early, disturbed>>

Line == [name: Names, pages: SUBSET Pages, manual: BOOLEAN]
Point == {"none", "boot", "call", "recheck", "store",
          "lines", "last", "finish", "fail", "mark", "over"}

\* Mutant: a run that is still pending does not count.
ActiveOnceBooted == {r \in Runs : run[r] = "running"}
Active == {r \in Runs : run[r] \in {"pending", "running"}}
Manual == {l \in lines : l.manual}
Extracted == {l \in lines : ~l.manual}
NamesOf(L) == {l.name : l \in L}
Typed(S) == {[name |-> n, pages |-> {}, manual |-> TRUE] : n \in S}

At(r, pc) == work[r].pc = pc
Alive(r) == work[r].pc \notin {"none", "over"}

\* The executor of r goes on at pc.  History, kept with it: the run was marked
\* failed while it waited, somebody else changed the lines after its first answer,
\* the lines it has stored itself and no later answer of its own has replaced.
Rest(pc) == [pc |-> pc, todo |-> {}, whole |-> FALSE, found |-> FALSE, cleared |-> FALSE,
             late |-> FALSE, touched |-> FALSE, mine |-> {}]
Moved(w, pc) ==
  CASE pc = "over" -> Rest(pc)
    [] pc \in {"fail", "mark"} -> [Rest(pc) EXCEPT !.late = w.late]
    [] OTHER -> [w EXCEPT !.pc = pc]
Go(r, pc) == work' = [work EXCEPT ![r] = Moved(@, pc)]

\* A heartbeat, written by id with every progress.
Beat(r) == stale' = stale \ {r}

\* Somebody marks the runs R failed, wherever their executors are.
Doomed(w, r, R) ==
  [w EXCEPT !.late = @ \/ (r \in R /\ w.pc \in {"call", "recheck", "lines", "last"})]
GiveUp(R) ==
  /\ run' = [r \in Runs |-> IF r \in R THEN "failed" ELSE run[r]]
  /\ stale' = stale \ R
  /\ early' = early \cup {r \in R : At(r, "boot")}
  /\ work' = [r \in Runs |-> Doomed(work[r], r, R)]

\* Lines as a request, or the executor who, leaves them.
Touched(w) == IF w.cleared THEN [w EXCEPT !.touched = TRUE, !.mine = {}] ELSE w
LinesBecome(L) ==
  /\ lines' = L
  /\ work' = IF L = lines THEN work ELSE [r \in Runs |-> Touched(work[r])]

Idle == [pc |-> "idle", run |-> Nobody, seen |-> {}]

Init ==
  /\ status \in {"draft", "ready"}
  /\ run = [r \in Runs |-> "none"]
  /\ stale = {}
  /\ \E typed, old \in SUBSET Names :
       lines = Typed(typed) \cup
               {[name |-> n, pages |-> {}, manual |-> FALSE] : n \in old}
  /\ work = [r \in Runs |-> Rest("none")]
  /\ analysis = [pc |-> "idle", busy |-> FALSE]
  /\ visit = Idle
  /\ spent = 0
  /\ early = {} /\ disturbed = FALSE

(***************************************************************************)
(* startExtractRun: one transaction with the project row locked.  Refusing  *)
(* throws, and undoes the marking of stale runs with it.                    *)
(***************************************************************************)
Start(r, todo, whole) ==
  LET old == Active \cap stale
      current == Active \ stale
  IN  /\ run[r] = "none"
      /\ current = {}
      /\ old # {} \/ status # "extracting"
      /\ run' = [q \in Runs |-> IF q = r THEN "pending" ELSE IF q \in old THEN "failed" ELSE run[q]]
      /\ stale' = stale \ old
      /\ early' = early \cup {q \in old : At(q, "boot")}
      /\ status' = "extracting"
      /\ work' = [q \in Runs |-> IF q = r THEN [Rest("boot") EXCEPT !.todo = todo, !.whole = whole]
                                 ELSE Doomed(work[q], q, old)]
      /\ UNCHANGED <<lines, analysis, visit, spent, disturbed>>

(***************************************************************************)
(* executeExtractRun.  The heartbeat that follows a batch is taken with it:   *)
(* it only puts off the moment from which the run counts as stale.          *)
(***************************************************************************)
\* Mutant: the extracted lines are cleared when the run starts.
BootClears(r) ==
  /\ At(r, "boot")
  /\ run' = [run EXCEPT ![r] = "running"]
  /\ lines' = Manual
  /\ Beat(r) /\ Go(r, "call")
  /\ UNCHANGED <<status, analysis, visit, spent, history>>

Boot(r) ==
  /\ At(r, "boot")
  /\ run' = [run EXCEPT ![r] = "running"]
  /\ Beat(r) /\ Go(r, "call")
  /\ UNCHANGED <<status, lines, analysis, visit, spent, history>>

ThePage(r) == CHOOSE p \in work[r].todo : \A q \in work[r].todo : p <= q

\* A batch without an answer, and then any batch, is done: the next page, or the end.
NextPage(w, p) ==
  [w EXCEPT !.todo = @ \ {p}, !.found = FALSE,
            !.pc = IF w.todo = {p} THEN "lines" ELSE "call"]

\* ensureRunStillActive, then the workflow is called; it finds materials on the
\* page, or none.  A run that is not running just stops.
Call(r) ==
  /\ At(r, "call")
  /\ \E found \in BOOLEAN :
       work' = [work EXCEPT ![r] =
                  IF run[r] = "running" THEN [@ EXCEPT !.pc = "recheck", !.found = found]
                  ELSE Rest("over")]
  /\ UNCHANGED <<status, run, stale, lines, analysis, visit, spent, history>>

\* Mutant: the answer is stored without looking at the run again.
RecheckBlind(r) ==
  /\ At(r, "recheck")
  /\ IF work[r].found THEN Go(r, "store") /\ UNCHANGED stale
     ELSE /\ work' = [work EXCEPT ![r] = NextPage(@, ThePage(r))]
          /\ Beat(r)
  /\ UNCHANGED <<status, run, lines, analysis, visit, spent, history>>

Recheck(r) ==
  /\ At(r, "recheck")
  /\ IF run[r] # "running" THEN Go(r, "over") /\ UNCHANGED stale
     ELSE IF work[r].found THEN Go(r, "store") /\ UNCHANGED stale
     ELSE /\ work' = [work EXCEPT ![r] = NextPage(@, ThePage(r))]
          /\ Beat(r)
  /\ UNCHANGED <<status, run, lines, analysis, visit, spent, history>>

\* What the first answer of a whole extraction, or any other answer, leaves in place.
\* Mutants: the whole list is replaced; every answer clears the extracted lines.
KeptNothing(r) ==
  IF work[r].whole /\ ~work[r].cleared THEN {} ELSE {l \in lines : ThePage(r) \notin l.pages}
KeptManual(r) == Manual
Kept(r) ==
  IF work[r].whole /\ ~work[r].cleared
    THEN Manual
    ELSE {l \in lines : l.manual \/ ThePage(r) \notin l.pages}

\* The batch of page p stored the lines A.
Stored(w, p, A) ==
  [w EXCEPT !.cleared = TRUE,
            !.mine = IF w.touched THEN {} ELSE {l \in @ : p \notin l.pages} \cup A]

\* The lines A of the answer are stored, each with the pages it says it is from.
Store(r, A) ==
  /\ At(r, "store")
  /\ lines' = Kept(r) \cup A
  /\ work' = [q \in Runs |-> IF q # r THEN Touched(work[q])
                 ELSE Stored(NextPage(work[r], ThePage(r)), ThePage(r), A)]
  /\ Beat(r)
  /\ UNCHANGED <<status, run, analysis, visit, spent, history>>

Answer(r, n) ==
  {[name |-> n, pages |-> ref, manual |-> FALSE] : ref \in Refs \cup {{ThePage(r)}}}

LookAtLines(r) ==
  /\ At(r, "lines")
  /\ Go(r, IF Extracted = {} THEN "fail" ELSE "last")
  /\ UNCHANGED <<status, run, stale, lines, analysis, visit, spent, history>>

LastCheck(r) ==
  /\ At(r, "last")
  /\ Go(r, IF run[r] = "running" THEN "finish" ELSE "over")
  /\ UNCHANGED <<status, run, stale, lines, analysis, visit, spent, history>>

(***************************************************************************)
(* Merging, renaming and completing the extracted lines (finalizeExtracted-  *)
(* Lines, applyFactsToLines) leaves one draft for each of some names, from   *)
(* the pages pages[n].  replaceProjectBomDrafts keeps one row of a name, an   *)
(* extracted one before a typed one, and deletes the others of that name.   *)
(***************************************************************************)
Rows(n) == {l \in lines : l.name = n}
AllTyped(n) == Rows(n) # {} /\ Rows(n) \subseteq Manual
Draft(n, ref, manual) == [name |-> n, pages |-> ref, manual |-> manual]

\* With onlyReplaceNonManual: kept[n] is the row that stays where all are typed.
Finished(pages, kept) ==
  {l \in Manual : l.name \notin DOMAIN pages} \cup
  {IF AllTyped(n) THEN kept[n] ELSE Draft(n, pages[n], FALSE) : n \in DOMAIN pages}

\* The pages a draft merged from some of the lines L, or from none, may name.
Merged(L) == {UNION {l.pages : l \in M} : M \in SUBSET L}

Finish(r) ==
  /\ At(r, "finish")
  /\ \E K \in SUBSET Names \ {{}} :
       \E pages \in [K -> Merged(Extracted)], kept \in [{n \in K : AllTyped(n)} -> lines] :
         /\ \A n \in DOMAIN kept : kept[n] \in Rows(n)
         /\ lines' = Finished(pages, kept)
  /\ run' = [run EXCEPT ![r] = "succeeded"]
  /\ stale' = stale \ {r}
  /\ status' = "draft"
  /\ work' = [q \in Runs |-> IF q = r THEN Rest("over") ELSE Touched(work[q])]
  /\ UNCHANGED <<analysis, visit, spent, history>>

\* Mutant: a failed run leaves the project alone.
FailRunOnly(r) ==
  /\ At(r, "fail")
  /\ run' = [run EXCEPT ![r] = "failed"]
  /\ stale' = stale \ {r}
  /\ Go(r, "over")
  /\ UNCHANGED <<status, lines, analysis, visit, spent, history>>

FailRun(r) ==
  /\ At(r, "fail")
  /\ run' = [run EXCEPT ![r] = "failed"]
  /\ stale' = stale \ {r}
  /\ Go(r, "mark")
  /\ UNCHANGED <<status, lines, analysis, visit, spent, history>>

MarkProject(r) ==
  /\ At(r, "mark")
  /\ status' = "extract_failed"
  /\ Go(r, "over")
  /\ UNCHANGED <<run, stale, lines, analysis, visit, spent, history>>

\* Any statement or call may throw.  Before the try block, or in the handler of
\* the error itself, nobody catches.
Throw(r) ==
  /\ Alive(r)
  /\ Go(r, IF work[r].pc \in {"boot", "fail", "mark"} THEN "over" ELSE "fail")
  /\ disturbed' = (disturbed \/ At(r, "mark"))
  /\ UNCHANGED <<status, run, stale, lines, analysis, visit, spent, early>>

Execute(r) ==
  \/ Boot(r) \/ Call(r) \/ Recheck(r)
  \/ At(r, "store") /\ \E n \in Names : \E l \in Answer(r, n) : Store(r, {l})
  \/ LookAtLines(r) \/ LastCheck(r) \/ Finish(r) \/ FailRun(r) \/ MarkProject(r)

(***************************************************************************)
(* The analysis of the product facts: it marks the project, reads the file, *)
(* looks for active runs and writes the status it had derived from them.    *)
(***************************************************************************)
Analyze ==
  /\ analysis.pc = "idle" /\ spent < MaxOthers
  /\ spent' = spent + 1
  /\ status' = "extracting"
  /\ analysis' = [pc |-> "read", busy |-> FALSE]
  /\ UNCHANGED <<run, stale, lines, work, visit, history>>

AnalysisReads ==
  /\ analysis.pc = "read"
  /\ analysis' = [pc |-> "write", busy |-> Active # {}]
  /\ UNCHANGED <<status, run, stale, lines, work, visit, spent, history>>

AnalysisWrites ==
  /\ analysis.pc = "write"
  /\ status' = IF analysis.busy THEN "extracting" ELSE "draft"
  /\ disturbed' = (disturbed \/ (analysis.busy /\ Active = {}))
  /\ analysis' = [pc |-> "idle", busy |-> FALSE]
  /\ UNCHANGED <<run, stale, lines, work, visit, spent, early>>

AnalysisFails ==
  /\ analysis.pc # "idle"
  /\ status' = "extract_failed"
  /\ analysis' = [pc |-> "idle", busy |-> FALSE]
  /\ UNCHANGED <<run, stale, lines, work, visit, spent, history>>

(***************************************************************************)
(* Reading the page: a run is polled, the project is looked at.            *)
(***************************************************************************)
Visits == /\ visit = Idle /\ spent < MaxOthers
          /\ spent' = spent + 1

Poll(r) ==
  /\ Visits
  /\ r \in Active \cap stale
  /\ visit' = [Idle EXCEPT !.pc = "fail", !.run = r]
  /\ UNCHANGED <<status, run, stale, lines, work, analysis, history>>

PollFails ==
  /\ visit.pc = "fail"
  /\ GiveUp({visit.run})
  /\ visit' = [visit EXCEPT !.pc = "project"]
  /\ UNCHANGED <<status, lines, analysis, spent, disturbed>>

PollMarks ==
  /\ visit.pc = "project"
  /\ status' = "extract_failed"
  /\ visit' = Idle
  /\ UNCHANGED <<run, stale, lines, work, analysis, spent, history>>

Look ==
  /\ Visits /\ status = "ready"
  /\ visit' = [Idle EXCEPT !.pc = "reconcile"]
  /\ UNCHANGED <<status, run, stale, lines, work, analysis, history>>

\* reconcileOrphanExtractRuns, with the project's status as it was read before.
Reconcile ==
  /\ visit.pc = "reconcile"
  /\ GiveUp(Active)
  /\ disturbed' = (disturbed \/ (Active # {} /\ status = "extracting"))
  /\ visit' = Idle
  /\ UNCHANGED <<status, lines, analysis, spent>>

(***************************************************************************)
(* Changing the list from the page                                         *)
(***************************************************************************)
AddLine(n) ==
  /\ Visits
  /\ LinesBecome(lines \cup Typed({n}))
  /\ status' = "ready"
  /\ UNCHANGED <<run, stale, analysis, visit, early, disturbed>>

\* Changing any field of a line, its name too, or locking it, makes it a typed line.
EditLine(l, n) ==
  /\ Visits
  /\ LinesBecome((lines \ {l}) \cup {[l EXCEPT !.name = n, !.manual = TRUE]})
  /\ status' = "ready"
  /\ UNCHANGED <<run, stale, analysis, visit, early, disturbed>>

DeleteLine(l) ==
  /\ Visits
  /\ LinesBecome(lines \ {l})
  /\ UNCHANGED <<status, run, stale, analysis, visit, early, disturbed>>

ReplaceLines(S) ==
  /\ Visits
  /\ LinesBecome(Typed(S))
  /\ status' = IF S = {} THEN status ELSE "ready"
  /\ UNCHANGED <<run, stale, analysis, visit, early, disturbed>>

\* Confirming the design drops the extracted lines; runs that go on are left alone.
Confirm ==
  /\ Visits
  /\ LinesBecome(Manual)
  /\ status' = "draft"
  /\ UNCHANGED <<run, stale, analysis, visit, early, disturbed>>

\* Changing the facts sends a ready project back to draft.
PatchFacts ==
  /\ Visits
  /\ visit' = IF status = "ready" THEN [Idle EXCEPT !.pc = "draft"] ELSE Idle
  /\ UNCHANGED <<status, run, stale, lines, work, analysis, history>>

PatchWrites ==
  /\ visit.pc = "draft"
  /\ status' = "draft"
  /\ visit' = Idle
  /\ UNCHANGED <<run, stale, lines, work, analysis, spent, history>>

\* Applying the facts: the lines are read, completed from the facts, and written
\* over by name: whatever is not among the drafts goes, typed lines too.
Apply ==
  /\ Visits
  /\ visit' = [Idle EXCEPT !.pc = "apply", !.seen = Merged(lines)]
  /\ UNCHANGED <<status, run, stale, lines, work, analysis, history>>

Applied(pages) == {Draft(n, pages[n], AllTyped(n)) : n \in DOMAIN pages}

ApplyWrites ==
  /\ visit.pc = "apply"
  /\ \E K \in SUBSET Names : \E pages \in [K -> visit.seen] :
       LinesBecome(Applied(pages))
  /\ status' = "ready"
  /\ visit' = [Idle EXCEPT !.pc = "reconcile"]
  /\ UNCHANGED <<run, stale, analysis, spent, early, disturbed>>

Visit ==
  \/ \E r \in Runs : Poll(r)
  \/ PollFails \/ PollMarks \/ Look \/ Reconcile
  \/ \E n \in Names : AddLine(n)
  \/ \E l \in lines : DeleteLine(l) \/ \E n \in Names : EditLine(l, n)
  \/ \E S \in SUBSET Names : ReplaceLines(S)
  \/ Confirm \/ PatchFacts \/ PatchWrites \/ Apply \/ ApplyWrites

\* Fifteen minutes without a heartbeat: the workflow is slow or the executor is gone.
Age(r) ==
  /\ r \in Active \ stale
  /\ stale' = stale \cup {r}
  /\ UNCHANGED <<status, run, lines, work, analysis, visit, spent, history>>

\* The process restarts.  Nothing looks for what it left half done.
Crash ==
  /\ spent < MaxOthers
  /\ spent' = spent + 1
  /\ disturbed' = (disturbed \/ analysis.pc # "idle" \/ visit.pc = "project"
                             \/ \E r \in Runs : At(r, "mark"))
  /\ work' = [r \in Runs |-> IF Alive(r) THEN Rest("over") ELSE work[r]]
  /\ analysis' = [pc |-> "idle", busy |-> FALSE]
  /\ visit' = Idle
  /\ UNCHANGED <<status, run, stale, lines, early>>

Next ==
  \/ \E r \in Runs : \/ Start(r, Pages, TRUE)
                     \/ \E todo \in Ranges : Start(r, todo, FALSE)
                     \/ Execute(r) \/ Throw(r) \/ Age(r)
  \/ Analyze \/ AnalysisReads \/ AnalysisWrites \/ AnalysisFails
  \/ Visit
  \/ Crash

Spec == Init /\ [][Next]_vars

-----------------------------------------------------------------------------
\* Every variable keeps its type.
TypeOK ==
  /\ status \in {"draft", "extracting", "extract_failed", "ready"}
  /\ run \in [Runs -> {"none", "pending", "running", "succeeded", "failed"}]
  /\ stale \subseteq Runs
  /\ lines \subseteq Line
  /\ work \in [Runs -> [pc: Point, todo: SUBSET Pages, whole: BOOLEAN,
                        found: BOOLEAN, cleared: BOOLEAN,
                        late: BOOLEAN, touched: BOOLEAN, mine: SUBSET Line]]
  /\ \A r \in Runs : work[r].pc \in {"boot", "call", "recheck", "store"} => work[r].todo # {}
  /\ analysis \in [pc: {"idle", "read", "write"}, busy: BOOLEAN]
  /\ visit \in [pc: {"idle", "fail", "project", "reconcile", "draft", "apply"},
                run: Runs \cup {Nobody}, seen: SUBSET SUBSET Pages]
  /\ visit.pc = "fail" => visit.run \in Runs
  /\ spent \in 0..MaxOthers
  /\ early \subseteq Runs /\ disturbed \in BOOLEAN

\* Two runs are active at a time only if one of them had been given up before
\* its executor booted, and the boot, an update by id, brought it back.
OneActiveRun == \A r, q \in Active : r # q => r \in early \/ q \in early

Stepped(r) == work'[r].pc # work[r].pc

\* A run that is marked failed while its executor waits for the workflow writes
\* no lines any more, whatever the workflow answers later.
LateAnswerDropped ==
  [][\A r \in Runs : work[r].late /\ Stepped(r) => lines' = lines]_vars

\* An executor drops an extracted material only with an answer of the workflow, or
\* when its run succeeds: a re-extraction that fails before its first answer leaves
\* the list as it was.
ListUntilFirstAnswer ==
  [][\A r \in Runs : Stepped(r) /\ ~(NamesOf(Extracted) \subseteq NamesOf(lines'))
       => work[r].found \/ work[r].cleared \/ At(r, "finish")]_vars

\* An executor removes a typed line only when its run finishes, only for another line
\* of the same name, and a line of that name stays.
TypedLinesStay ==
  [][\A r \in Runs : Stepped(r) =>
       \A l \in Manual \ lines' :
         /\ At(r, "finish")
         /\ Rows(l.name) # {l}
         /\ l.name \in NamesOf(lines')]_vars

\* What a run merges when it finishes, if nobody else changed the list after its first
\* answer, is what it was answered: every line it stored, but for those that name the
\* page of a later answer, and from an extraction of the whole file nothing else.
FinishMergesAnswers ==
  \A r \in Runs : (At(r, "finish") /\ work[r].cleared /\ ~work[r].touched) =>
    /\ work[r].mine \subseteq Extracted
    /\ work[r].whole => Extracted \subseteq work[r].mine

\* A project that says it is being extracted has a run or an analysis that will
\* say otherwise, unless two statements that belong together were torn apart.
ExtractingIsHandled ==
  status = "extracting" /\ ~disturbed =>
    \/ Active # {} \/ analysis.pc # "idle" \/ visit.pc = "project"
    \/ \E r \in Runs : At(r, "mark")
=============================================================================
