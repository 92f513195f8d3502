----------------------- MODULE CostingExtractProofs -----------------------
(***************************************************************************)
(* Proofs about CostingExtract for any runs, pages, ranges, materials and    *)
(* bounds.                                                                  *)
(***************************************************************************)
EXTENDS CostingExtract, WellFoundedInduction, TLAPS

\* A nonempty set of naturals has a least element: the next page exists.
LEMMA Least ==
  ASSUME NEW T \in SUBSET Nat, T # {}
  PROVE  \E x \in T : \A y \in T : x <= y
<1>1. IsWellFoundedOn(OpToRel(<, Nat), Nat)
  BY NatLessThanWellFounded
<1>2. PICK x \in T : \A y \in T : ~(<<y, x>> \in OpToRel(<, Nat))
  BY <1>1, WFMin
<1>3. \A y \in T : ~(y < x)
  BY <1>2 DEF OpToRel
<1>4. ASSUME NEW y \in T
      PROVE  x <= y
  <2>1. x \in Nat /\ y \in Nat /\ ~(y < x)
    BY <1>3
  <2> QED
    BY <2>1
<1> QED
  BY <1>4

-----------------------------------------------------------------------------
(* Types *)

WorkType == [pc: Point, todo: SUBSET Pages, whole: BOOLEAN, found: BOOLEAN,
             cleared: BOOLEAN, late: BOOLEAN, touched: BOOLEAN, mine: SUBSET Line]
\* Whoever is at a page has one to be at.
LiveType == {w \in WorkType : w.pc \in {"boot", "call", "recheck", "store"} => w.todo # {}}
RunType == {"none", "pending", "running", "succeeded", "failed"}
StatusType == {"draft", "extracting", "extract_failed", "ready"}
VisitType == [pc: {"idle", "fail", "project", "reconcile", "draft", "apply"},
              run: Runs \cup {Nobody}, seen: SUBSET SUBSET Pages]
AnalysisType == [pc: {"idle", "read", "write"}, busy: BOOLEAN]

\* The parts of the type: what the executors do, the lines, and the rest.
RunsTyped ==
  /\ run \in [Runs -> RunType]
  /\ stale \subseteq Runs
  /\ work \in [Runs -> LiveType]
  /\ early \subseteq Runs
PageTyped ==
  /\ analysis \in AnalysisType
  /\ visit \in VisitType /\ (visit.pc = "fail" => visit.run \in Runs)
  /\ spent \in 0..MaxOthers
LEMMA TypeParts ==
  TypeOK <=> /\ RunsTyped /\ PageTyped /\ status \in StatusType /\ lines \subseteq Line
             /\ disturbed \in BOOLEAN
  BY DEF TypeOK, RunsTyped, PageTyped, RunType, StatusType, WorkType, LiveType, VisitType,
     AnalysisType
LEMMA TypePartsNext ==
  TypeOK' <=> /\ RunsTyped' /\ PageTyped' /\ status' \in StatusType /\ lines' \subseteq Line
              /\ disturbed' \in BOOLEAN
  BY DEF TypeOK, RunsTyped, PageTyped, RunType, StatusType, WorkType, LiveType,
         VisitType, AnalysisType, Line, Point

\* Two executors know the same of the list.
Alike(v, w) == /\ v.whole = w.whole /\ v.cleared = w.cleared
               /\ v.touched = w.touched /\ v.mine = w.mine

LEMMA RestTyped ==
  ASSUME NEW pc \in Point
  PROVE  /\ Rest(pc) \in WorkType /\ Rest(pc).pc = pc /\ ~Rest(pc).late
         /\ ~Rest(pc).cleared /\ ~Rest(pc).touched /\ Rest(pc).mine = {}
  BY DEF Rest, WorkType

\* An executor that only goes on keeps what it has, one that fails or is over does not.
LEMMA MovedTyped ==
  ASSUME NEW w \in WorkType, NEW pc \in Point
  PROVE  /\ Moved(w, pc) \in WorkType /\ Moved(w, pc).pc = pc
         /\ pc # "over" => Moved(w, pc).late = w.late
         /\ pc \notin {"over", "fail", "mark"} =>
              /\ Moved(w, pc).found = w.found /\ Moved(w, pc).todo = w.todo
              /\ Alike(Moved(w, pc), w)
         /\ pc \in {"over", "fail", "mark"} =>
              ~Moved(w, pc).cleared /\ ~Moved(w, pc).touched /\ Moved(w, pc).mine = {}
         /\ pc = "over" => Moved(w, pc) = Rest("over")
         /\ (w \in LiveType /\ (pc \in {"call", "store"} => w.todo # {})
              /\ pc \notin {"boot", "recheck"}) => Moved(w, pc) \in LiveType
<1>1. CASE pc = "over"
  BY <1>1, RestTyped DEF Moved, LiveType
<1>2. CASE pc \in {"fail", "mark"}
  <2> DEFINE v == [Rest(pc) EXCEPT !.late = w.late]
  <2>1. Moved(w, pc) = v
    BY <1>2 DEF Moved
  <2>2. /\ v \in WorkType /\ v.pc = pc /\ v.late = w.late
        /\ ~v.cleared /\ ~v.touched /\ v.mine = {}
    BY RestTyped DEF Rest, WorkType
  <2> HIDE DEF v
  <2> QED
    BY <1>2, <2>1, <2>2 DEF LiveType
<1>3. CASE pc \notin {"over", "fail", "mark"}
  <2> DEFINE v == [w EXCEPT !.pc = pc]
  <2>1. Moved(w, pc) = v
    BY <1>3 DEF Moved
  <2>2. /\ v \in WorkType /\ v.pc = pc /\ v.late = w.late
        /\ v.found = w.found /\ v.todo = w.todo /\ Alike(v, w)
    BY DEF WorkType, Alike
  <2> HIDE DEF v
  <2> QED
    BY <1>3, <2>1, <2>2 DEF LiveType
<1> QED
  BY <1>1, <1>2, <1>3

LEMMA DoomedTyped ==
  ASSUME NEW w \in WorkType, NEW r, NEW R
  PROVE  /\ Doomed(w, r, R) \in WorkType
         /\ Doomed(w, r, R).pc = w.pc /\ Doomed(w, r, R).found = w.found
         /\ Doomed(w, r, R).todo = w.todo /\ Alike(Doomed(w, r, R), w)
         /\ Doomed(w, r, R).late <=>
              (w.late \/ (r \in R /\ w.pc \in {"call", "recheck", "lines", "last"}))
<1> DEFINE b == w.late \/ (r \in R /\ w.pc \in {"call", "recheck", "lines", "last"})
<1>1. b \in BOOLEAN
  BY DEF WorkType
<1>2. Doomed(w, r, R) = [w EXCEPT !.late = b]
  BY DEF Doomed
<1> HIDE DEF b
<1>3. /\ [w EXCEPT !.late = b] \in WorkType /\ [w EXCEPT !.late = b].late = b
      /\ [w EXCEPT !.late = b].pc = w.pc /\ [w EXCEPT !.late = b].found = w.found
      /\ [w EXCEPT !.late = b].todo = w.todo /\ Alike([w EXCEPT !.late = b], w)
  BY <1>1 DEF WorkType, Alike
<1> QED
  BY <1>2, <1>3 DEF b

LEMMA TouchedTyped ==
  ASSUME NEW w \in WorkType
  PROVE  /\ Touched(w) \in WorkType
         /\ Touched(w).pc = w.pc /\ Touched(w).found = w.found
         /\ Touched(w).whole = w.whole /\ Touched(w).todo = w.todo
         /\ Touched(w).cleared = w.cleared /\ Touched(w).late = w.late
         /\ w.cleared => Touched(w).touched
         /\ ~w.cleared => Touched(w) = w
<1>1. CASE w.cleared
  <2>1. Touched(w) = [w EXCEPT !.touched = TRUE, !.mine = {}]
    BY <1>1 DEF Touched
  <2> QED
    BY <1>1, <2>1 DEF WorkType
<1>2. CASE ~w.cleared
  BY <1>2 DEF Touched
<1> QED
  BY <1>1, <1>2

LEMMA NextPageTyped ==
  ASSUME NEW w \in WorkType, NEW p
  PROVE  /\ NextPage(w, p) \in WorkType
         /\ NextPage(w, p).pc \in {"lines", "call"}
         /\ NextPage(w, p).late = w.late /\ Alike(NextPage(w, p), w)
         /\ p \in w.todo => NextPage(w, p) \in LiveType
<1> DEFINE pc == IF w.todo = {p} THEN "lines" ELSE "call"
           n == [w EXCEPT !.todo = w.todo \ {p}, !.found = FALSE, !.pc = pc]
<1>1. pc \in Point /\ pc \in {"lines", "call"}
  BY DEF Point
<1>2. NextPage(w, p) = n
  BY DEF NextPage
<1>4. p \in w.todo /\ pc # "lines" => w.todo \ {p} # {}
  OBVIOUS
<1> HIDE DEF pc
<1>5. /\ n \in WorkType /\ n.pc = pc /\ n.late = w.late
      /\ n.todo = w.todo \ {p} /\ Alike(n, w)
  BY <1>1 DEF WorkType, Alike
<1>6. p \in w.todo => n \in LiveType
  BY <1>1, <1>4, <1>5 DEF LiveType
<1> QED
  BY <1>1, <1>2, <1>5, <1>6

\* What an executor knows of the list after it stored the lines A of the page p.
LEMMA StoredTyped ==
  ASSUME NEW w \in WorkType, NEW p, NEW A \in SUBSET Line
  PROVE  /\ Stored(w, p, A) \in WorkType
         /\ Stored(w, p, A).pc = w.pc /\ Stored(w, p, A).todo = w.todo
         /\ Stored(w, p, A).late = w.late /\ Stored(w, p, A).whole = w.whole
         /\ Stored(w, p, A).cleared /\ Stored(w, p, A).touched = w.touched
         /\ ~w.touched => Stored(w, p, A).mine = {l \in w.mine : p \notin l.pages} \cup A
<1> DEFINE m == IF w.touched THEN {} ELSE {l \in w.mine : p \notin l.pages} \cup A
           n == [w EXCEPT !.cleared = TRUE, !.mine = m]
<1>1. m \in SUBSET Line /\ (~w.touched => m = {l \in w.mine : p \notin l.pages} \cup A)
  BY DEF WorkType
<1>2. Stored(w, p, A) = n
  BY DEF Stored
<1> HIDE DEF m
<1>3. /\ n \in WorkType /\ n.pc = w.pc /\ n.todo = w.todo /\ n.late = w.late
      /\ n.whole = w.whole /\ n.cleared /\ n.touched = w.touched /\ n.mine = m
  BY <1>1 DEF WorkType
<1> QED
  BY <1>1, <1>2, <1>3

\* The page an executor is at is one of those it was asked for.
LEMMA ThePageTyped ==
  ASSUME NEW r, work[r] \in WorkType, work[r].todo # {}
  PROVE  ThePage(r) \in work[r].todo /\ ThePage(r) \in Pages
<1>1. work[r].todo \in SUBSET Nat /\ work[r].todo \in SUBSET Pages
  BY PagesFinite DEF WorkType
<1>2. \E x \in work[r].todo : \A y \in work[r].todo : x <= y
  BY <1>1, Least
<1> QED
  BY <1>1, <1>2 DEF ThePage

-----------------------------------------------------------------------------
(* The inductive invariant *)

\* The extracted lines of the list L.
ExtractedOf(L) == {l \in L : ~l.manual}

\* What an executor has stored, unless the list was touched, is what the list L has.
Merges(w, L) ==
  /\ ~w.cleared => ~w.touched /\ w.mine = {}
  /\ (w.cleared /\ ~w.touched) => /\ w.mine \subseteq ExtractedOf(L)
                                  /\ w.whole => ExtractedOf(L) \subseteq w.mine

\* The executor of a run with status st, given up at boot or not (e), with the lines L:
\* it boots a pending run unless that was given up; once marked failed while it waits it
\* never gets to store or finish; it stores what it found; and what it remembers to have
\* stored is there.
Fit(w, st, e, L) ==
  /\ w.pc = "boot" => st = "pending" \/ e
  /\ w.late => st = "failed" /\ w.pc \notin {"boot", "store", "finish"}
  /\ w.pc = "store" => w.found
  /\ Merges(w, L)

FitInv == \A r \in Runs : Fit(work[r], run[r], r \in early, lines)

Inv == TypeOK /\ FitInv /\ OneActiveRun /\ ExtractingIsHandled

\* An executor at rest fits anything.
LEMMA RestFits ==
  ASSUME NEW pc \in Point \ {"boot", "call", "recheck", "store"}
  PROVE  /\ Rest(pc) \in LiveType /\ Rest(pc).pc = pc
         /\ \A st, e, L : Fit(Rest(pc), st, e, L)
<1>1. /\ Rest(pc).pc = pc /\ Rest(pc).late = FALSE /\ Rest(pc).cleared = FALSE
      /\ Rest(pc).touched = FALSE /\ Rest(pc).mine = {}
  BY DEF Rest
<1>2. Rest(pc) \in LiveType
  BY <1>1, RestTyped DEF LiveType
<1> QED
  BY <1>1, <1>2 DEF Fit, Merges

\* What an executor knows fits the list as long as both stay.
LEMMA AlikeMerges ==
  ASSUME NEW v, NEW w, NEW L, Alike(v, w), Merges(w, L)
  PROVE  Merges(v, L)
  BY DEF Alike, Merges

\* A step of one executor that leaves the lines alone.
LEMMA ExecutorStep ==
  ASSUME RunsTyped, FitInv, NEW r \in Runs,
         work' \in [Runs -> LiveType], \A q \in Runs \ {r} : work'[q] = work[q],
         run' \in [Runs -> RunType], \A q \in Runs \ {r} : run'[q] = run[q],
         stale' \subseteq Runs, early' = early, lines' = lines,
         Fit(work'[r], run'[r], r \in early, lines)
  PROVE  RunsTyped' /\ FitInv'
<1>1. RunsTyped'
  BY DEF RunsTyped, LiveType, WorkType, RunType, Point
<1>2. \A q \in Runs : Fit(work'[q], run'[q], q \in early', lines')
  BY DEF FitInv
<1> QED
  BY <1>1, <1>2 DEF FitInv

\* Marking runs failed, by a reader of the page or by the next start.
LEMMA DoomedFits ==
  ASSUME NEW w \in LiveType, NEW r, NEW R, NEW st, NEW e, NEW L, Fit(w, st, e, L)
  PROVE  /\ Doomed(w, r, R) \in LiveType
         /\ Fit(Doomed(w, r, R), IF r \in R THEN "failed" ELSE st,
                e \/ (r \in R /\ w.pc = "boot"), L)
<1> DEFINE d == Doomed(w, r, R)
<1>0. w \in WorkType
  BY DEF LiveType
<1>1. /\ d \in WorkType /\ d.pc = w.pc /\ d.found = w.found
      /\ d.todo = w.todo /\ Alike(d, w)
      /\ d.late <=> (w.late \/ (r \in R /\ w.pc \in {"call", "recheck", "lines", "last"}))
  BY <1>0, DoomedTyped
<1> HIDE DEF d
<1>2. d \in LiveType
  BY <1>1 DEF LiveType
<1>4. Merges(d, L)
  BY <1>1, AlikeMerges DEF Fit
<1>3. Fit(d, IF r \in R THEN "failed" ELSE st, e \/ (r \in R /\ w.pc = "boot"), L)
  <2>1. CASE r \in R
    BY <1>1, <1>4, <2>1 DEF Fit
  <2>2. CASE r \notin R
    BY <1>1, <1>4, <2>2 DEF Fit
  <2> QED
    BY <2>1, <2>2
<1> QED
  BY <1>2, <1>3 DEF d

LEMMA GiveUpStep ==
  ASSUME RunsTyped, FitInv, NEW R \in SUBSET Runs, GiveUp(R), lines' = lines
  PROVE  /\ RunsTyped' /\ FitInv' /\ early \subseteq early'
         /\ Active' = Active \ R
         /\ \A r \in Runs : work'[r].pc = work[r].pc
<1>0. /\ run' = [r \in Runs |-> IF r \in R THEN "failed" ELSE run[r]]
      /\ stale' = stale \ R
      /\ early' = early \cup {r \in R : At(r, "boot")}
      /\ work' = [r \in Runs |-> Doomed(work[r], r, R)]
  BY DEF GiveUp
<1>1. ASSUME NEW r \in Runs
      PROVE  /\ work'[r] \in LiveType
             /\ Fit(work'[r], run'[r], r \in early', lines')
             /\ work'[r].pc = work[r].pc
  <2>1. work[r] \in LiveType /\ Fit(work[r], run[r], r \in early, lines)
    BY DEF RunsTyped, FitInv
  <2>2. work'[r] = Doomed(work[r], r, R) /\ run'[r] = IF r \in R THEN "failed" ELSE run[r]
    BY <1>0
  <2>3. r \in early' <=> (r \in early \/ (r \in R /\ work[r].pc = "boot"))
    BY <1>0 DEF At
  <2>4. /\ Doomed(work[r], r, R) \in LiveType
        /\ Fit(Doomed(work[r], r, R), IF r \in R THEN "failed" ELSE run[r],
               r \in early \/ (r \in R /\ work[r].pc = "boot"), lines)
    BY <2>1, DoomedFits
  <2>5. Fit(work'[r], run'[r], r \in early', lines')
    BY <2>2, <2>3, <2>4 DEF Fit
  <2>6. work[r] \in WorkType
    BY <2>1 DEF LiveType
  <2> QED
    BY <2>2, <2>4, <2>5, <2>6, DoomedTyped
<1>2. run' \in [Runs -> RunType] /\ stale' \subseteq Runs /\ early' \subseteq Runs
  BY <1>0 DEF RunsTyped, RunType
<1>3. work' \in [Runs -> LiveType]
  BY <1>0, <1>1
<1>4. RunsTyped'
  BY <1>2, <1>3 DEF RunsTyped, LiveType, WorkType, RunType, Point
<1>5. Active' = Active \ R
  BY <1>0 DEF Active
<1>6. FitInv'
  BY <1>1 DEF FitInv
<1> QED
  BY <1>0, <1>1, <1>4, <1>5, <1>6

\* Lines that somebody else changes.
LEMMA TouchedFits ==
  ASSUME NEW w \in LiveType, NEW st, NEW e, NEW L, NEW M, Fit(w, st, e, L)
  PROVE  Touched(w) \in LiveType /\ Fit(Touched(w), st, e, M)
<1> DEFINE d == Touched(w)
<1>0. w \in WorkType
  BY DEF LiveType
<1>1. /\ d \in WorkType /\ d.pc = w.pc /\ d.found = w.found
      /\ d.todo = w.todo /\ d.cleared = w.cleared /\ d.late = w.late
      /\ w.cleared => d.touched
      /\ ~w.cleared => d = w
  BY <1>0, TouchedTyped
<1> HIDE DEF d
<1>2. Merges(d, M)
  BY <1>1 DEF Fit, Merges
<1>3. d \in LiveType /\ Fit(d, st, e, M)
  BY <1>1, <1>2 DEF LiveType, Fit
<1> QED
  BY <1>3 DEF d

LEMMA LinesStep ==
  ASSUME RunsTyped, FitInv, NEW L, LinesBecome(L), UNCHANGED <<run, stale, early>>
  PROVE  /\ RunsTyped' /\ FitInv' /\ lines' = L
         /\ \A r \in Runs : work'[r].pc = work[r].pc
<1>1. CASE L = lines
  <2>1. work' = work /\ lines' = lines
    BY <1>1 DEF LinesBecome
  <2> QED
    BY <1>1, <2>1 DEF RunsTyped, FitInv, LiveType, WorkType, RunType, Point
<1>2. CASE L # lines
  <2>1. work' = [r \in Runs |-> Touched(work[r])] /\ lines' = L
    BY <1>2 DEF LinesBecome
  <2>2. ASSUME NEW r \in Runs
        PROVE  /\ Touched(work[r]) \in LiveType
               /\ Fit(Touched(work[r]), run[r], r \in early, L)
               /\ Touched(work[r]).pc = work[r].pc
    <3>1. work[r] \in LiveType /\ Fit(work[r], run[r], r \in early, lines)
      BY DEF RunsTyped, FitInv
    <3>2. work[r] \in WorkType
      BY <3>1 DEF LiveType
    <3> QED
      BY <3>1, <3>2, TouchedFits, TouchedTyped
  <2>3. work' \in [Runs -> LiveType]
    BY <2>1, <2>2
  <2>4. \A r \in Runs : Fit(work'[r], run'[r], r \in early', lines')
    BY <2>1, <2>2
  <2>5. RunsTyped'
    BY <2>3 DEF RunsTyped, LiveType, WorkType, RunType, Point
  <2> QED
    BY <2>1, <2>2, <2>4, <2>5 DEF FitInv
<1> QED
  BY <1>1, <1>2

LEMMA InvParts ==
  ASSUME RunsTyped', PageTyped', status' \in StatusType, lines' \subseteq Line,
         disturbed' \in BOOLEAN, FitInv', OneActiveRun', ExtractingIsHandled'
  PROVE  Inv'
  BY TypePartsNext DEF Inv

LEMMA PageFrame ==
  ASSUME PageTyped, UNCHANGED <<analysis, visit, spent>>
  PROVE  PageTyped'
  BY DEF PageTyped, AnalysisType, VisitType, Line

\* No run becomes active but one that had been given up.
LEMMA OneActiveFrame ==
  ASSUME OneActiveRun, early \subseteq early',
         \A r \in Runs : r \in Active' => r \in Active \/ r \in early'
  PROVE  OneActiveRun'
<1>1. \A r \in Active' : r \in Runs
  BY DEF Active
<1> QED
  BY <1>1 DEF OneActiveRun

\* Nobody who would say otherwise is lost.
LEMMA HandledFrame ==
  ASSUME ExtractingIsHandled, status' = "extracting" => status = "extracting",
         disturbed => disturbed',
         Active # {} => Active' # {} \/ disturbed' \/ visit'.pc = "project",
         analysis.pc # "idle" => analysis'.pc # "idle" \/ disturbed',
         visit.pc = "project" => visit'.pc = "project" \/ disturbed',
         \A r \in Runs : work[r].pc = "mark" => work'[r].pc = "mark" \/ disturbed'
  PROVE  ExtractingIsHandled'
  BY DEF ExtractingIsHandled, At

\* Steps of an executor that change neither its run nor the lines.
LEMMA QuietExecutor ==
  ASSUME Inv, NEW r \in Runs, NEW n \in LiveType, work' = [work EXCEPT ![r] = n],
         stale' \subseteq Runs, UNCHANGED <<run, lines, status, analysis, visit, spent, early>>,
         Fit(n, run[r], r \in early, lines),
         disturbed' \in BOOLEAN, disturbed => disturbed',
         work[r].pc = "mark" => disturbed'
  PROVE  Inv'
<1>0. /\ RunsTyped /\ PageTyped /\ status \in StatusType /\ lines \subseteq Line
      /\ FitInv /\ OneActiveRun /\ ExtractingIsHandled
  BY TypeParts DEF Inv
<1>1. /\ work' \in [Runs -> LiveType] /\ \A q \in Runs \ {r} : work'[q] = work[q]
      /\ work'[r] = n /\ run' \in [Runs -> RunType] /\ run' = run
  BY <1>0 DEF RunsTyped
<1>2. RunsTyped' /\ FitInv'
  BY <1>0, <1>1, ExecutorStep
<1>3. PageTyped'
  BY <1>0, PageFrame
<1>4. Active' = Active
  BY DEF Active
<1>5. OneActiveRun'
  BY <1>0, <1>4, OneActiveFrame
<1>6. ExtractingIsHandled'
  <2>1. \A q \in Runs : work[q].pc = "mark" => work'[q].pc = "mark" \/ disturbed'
    BY <1>1
  <2>2. analysis' = analysis /\ visit' = visit /\ status' = status
    OBVIOUS
  <2> QED
    BY <1>0, <1>4, <2>1, <2>2, HandledFrame
<1> QED
  BY <1>0, <1>2, <1>3, <1>5, <1>6, InvParts

LEMMA CallInv ==
  ASSUME Inv, NEW r \in Runs, Call(r)
  PROVE  Inv'
<1>0. work[r] \in LiveType /\ Fit(work[r], run[r], r \in early, lines) /\ stale \subseteq Runs
      /\ disturbed \in BOOLEAN
  BY TypeParts DEF Inv, RunsTyped, FitInv
<1>1. work[r].pc = "call"
  BY DEF Call, At
<1>2. CASE run[r] = "running"
  <2>0. PICK b \in BOOLEAN :
          work' = [work EXCEPT ![r] = [work[r] EXCEPT !.pc = "recheck", !.found = b]]
    BY <1>2 DEF Call
  <2> DEFINE n == [work[r] EXCEPT !.pc = "recheck", !.found = b]
  <2>1. /\ n \in WorkType /\ n.pc = "recheck" /\ n.todo = work[r].todo
        /\ n.late = work[r].late /\ Alike(n, work[r])
    BY <1>0 DEF LiveType, WorkType, Point, Alike
  <2>2. work' = [work EXCEPT ![r] = n]
    BY <2>0
  <2> HIDE DEF n
  <2>3. Merges(n, lines)
    BY <1>0, <2>1, AlikeMerges DEF Fit
  <2>4. n \in LiveType /\ Fit(n, run[r], r \in early, lines)
    BY <1>0, <1>1, <2>1, <2>3 DEF LiveType, Fit
  <2> QED
    BY <1>0, <1>1, <2>2, <2>4, QuietExecutor DEF Call, history
<1>3. CASE run[r] # "running"
  <2>1. work' = [work EXCEPT ![r] = Rest("over")]
    BY <1>3 DEF Call
  <2> QED
    BY <1>0, <1>1, <2>1, RestFits, QuietExecutor DEF Call, history, Point
<1> QED
  BY <1>2, <1>3

\* The step of an executor that only goes on fits where its run does.
LEMMA MovedFits ==
  ASSUME NEW w \in LiveType, NEW st, NEW e, NEW L, Fit(w, st, e, L),
         NEW pc \in Point \ {"boot", "recheck"},
         pc \in {"call", "store"} => w.todo # {},
         pc = "store" => w.found,
         pc \in {"store", "finish"} => st # "failed"
  PROVE  Moved(w, pc) \in LiveType /\ Fit(Moved(w, pc), st, e, L)
<1>0. w \in WorkType
  BY DEF LiveType
<1>1. CASE pc = "over"
  BY <1>0, <1>1, MovedTyped, RestFits
<1>2. CASE pc \in {"fail", "mark"}
  <2> DEFINE n == Moved(w, pc)
  <2>1. /\ n.pc = pc /\ n.late = w.late /\ n \in LiveType
        /\ ~n.cleared /\ ~n.touched /\ n.mine = {}
    BY <1>0, <1>2, MovedTyped
  <2> HIDE DEF n
  <2>2. Fit(n, st, e, L)
    BY <1>2, <2>1 DEF Fit, Merges
  <2> QED
    BY <2>1, <2>2 DEF n
<1>3. CASE pc \notin {"over", "fail", "mark"}
  <2> DEFINE n == Moved(w, pc)
  <2>1. /\ n.pc = pc /\ n.late = w.late /\ n.found = w.found /\ n \in LiveType
        /\ Alike(n, w)
    BY <1>0, <1>3, MovedTyped
  <2> HIDE DEF n
  <2>2. Merges(n, L)
    BY <2>1, AlikeMerges DEF Fit
  <2>3. Fit(n, st, e, L)
    BY <2>1, <2>2 DEF Fit
  <2> QED
    BY <2>1, <2>3 DEF n
<1> QED
  BY <1>1, <1>2, <1>3

LEMMA RecheckInv ==
  ASSUME Inv, NEW r \in Runs, Recheck(r)
  PROVE  Inv'
<1>0. /\ work[r] \in LiveType /\ Fit(work[r], run[r], r \in early, lines)
      /\ stale \subseteq Runs /\ disturbed \in BOOLEAN
  BY TypeParts DEF Inv, RunsTyped, FitInv
<1>1. work[r].pc = "recheck" /\ work[r].todo # {} /\ work[r] \in WorkType
  BY <1>0 DEF Recheck, At, LiveType
<1>2. CASE run[r] # "running"
  BY <1>0, <1>1, <1>2, MovedFits, QuietExecutor DEF Recheck, Go, history, Point
<1>3. CASE run[r] = "running" /\ work[r].found
  BY <1>0, <1>1, <1>3, MovedFits, QuietExecutor DEF Recheck, Go, history, Point
<1>4. CASE run[r] = "running" /\ ~work[r].found
  <2> DEFINE n == NextPage(work[r], ThePage(r))
  <2>1. ThePage(r) \in work[r].todo
    BY <1>1, ThePageTyped
  <2>2. /\ n \in LiveType /\ n.pc \in {"lines", "call"} /\ n.late = work[r].late
        /\ Alike(n, work[r])
    BY <1>1, <2>1, NextPageTyped
  <2>3. work' = [work EXCEPT ![r] = n] /\ stale' = stale \ {r}
    BY <1>4 DEF Recheck, Beat
  <2> HIDE DEF n
  <2>5. Merges(n, lines)
    BY <1>0, <2>2, AlikeMerges DEF Fit
  <2>4. Fit(n, run[r], r \in early, lines)
    BY <1>0, <1>1, <1>4, <2>2, <2>5 DEF Fit
  <2> QED
    BY <1>0, <1>1, <2>2, <2>3, <2>4, QuietExecutor DEF Recheck, history
<1> QED
  BY <1>2, <1>3, <1>4

LEMMA LooksInv ==
  ASSUME Inv, NEW r \in Runs, LookAtLines(r) \/ LastCheck(r) \/ Throw(r)
  PROVE  Inv'
<1>0. /\ work[r] \in LiveType /\ Fit(work[r], run[r], r \in early, lines)
      /\ stale \subseteq Runs /\ disturbed \in BOOLEAN
  BY TypeParts DEF Inv, RunsTyped, FitInv
<1>1. CASE LookAtLines(r)
  BY <1>0, <1>1, MovedFits, QuietExecutor DEF LookAtLines, At, Go, history, Point
<1>2. CASE LastCheck(r)
  BY <1>0, <1>2, MovedFits, QuietExecutor DEF LastCheck, At, Go, history, Point
<1>3. CASE Throw(r)
  <2>1. disturbed' \in BOOLEAN /\ (disturbed => disturbed') /\ (work[r].pc = "mark" => disturbed')
    BY <1>0, <1>3 DEF Throw, At
  <2>2. UNCHANGED <<status, run, stale, lines, analysis, visit, spent, early>>
    BY <1>3 DEF Throw
  <2>3. PICK pc \in {"over", "fail"} : work' = [work EXCEPT ![r] = Moved(work[r], pc)]
    BY <1>3 DEF Throw, Go
  <2>4. /\ Moved(work[r], pc) \in LiveType
        /\ Fit(Moved(work[r], pc), run[r], r \in early, lines)
    BY <1>0, <2>3, MovedFits DEF Point
  <2> QED
    BY <1>0, <2>1, <2>2, <2>3, <2>4, QuietExecutor
<1> QED
  BY <1>1, <1>2, <1>3

LEMMA BootInv ==
  ASSUME Inv, NEW r \in Runs, Boot(r)
  PROVE  Inv'
<1>0. /\ RunsTyped /\ PageTyped /\ status \in StatusType /\ lines \subseteq Line
      /\ FitInv /\ OneActiveRun /\ ExtractingIsHandled /\ disturbed \in BOOLEAN
  BY TypeParts DEF Inv
<1>1. /\ work[r] \in LiveType /\ Fit(work[r], run[r], r \in early, lines)
      /\ work[r].pc = "boot" /\ work[r].todo # {} /\ work[r] \in WorkType
  BY <1>0 DEF RunsTyped, FitInv, Boot, At, LiveType
<1> DEFINE n == Moved(work[r], "call")
<1>2. n \in LiveType /\ n.pc = "call" /\ n.late = work[r].late /\ Alike(n, work[r])
  BY <1>1, MovedTyped DEF Point
<1>3. /\ work' = [work EXCEPT ![r] = n] /\ run' = [run EXCEPT ![r] = "running"]
      /\ stale' = stale \ {r}
      /\ UNCHANGED <<status, lines, analysis, visit, spent, early, disturbed>>
  BY DEF Boot, Go, Beat, history
<1> HIDE DEF n
<1>4. /\ work' \in [Runs -> LiveType] /\ \A q \in Runs \ {r} : work'[q] = work[q]
      /\ work'[r] = n
      /\ run' \in [Runs -> RunType] /\ \A q \in Runs \ {r} : run'[q] = run[q]
      /\ run'[r] = "running"
  BY <1>0, <1>2, <1>3 DEF RunsTyped, RunType
<1>5. Fit(n, "running", r \in early, lines)
  <2>1. Merges(n, lines)
    BY <1>1, <1>2, AlikeMerges DEF Fit
  <2> QED
    BY <1>1, <1>2, <2>1 DEF Fit
<1>6. RunsTyped' /\ FitInv'
  <2>1. stale' \subseteq Runs
    BY <1>0, <1>3 DEF RunsTyped
  <2> QED
    BY <1>0, <1>3, <1>4, <1>5, <2>1, ExecutorStep
<1>7. OneActiveRun'
  <2>1. \A q \in Runs : q \in Active' => q \in Active \/ q \in early'
    BY <1>1, <1>3, <1>4 DEF Active, Fit
  <2> QED
    BY <1>0, <1>3, <2>1, OneActiveFrame
<1>8. ExtractingIsHandled'
  <2>1. r \in Active'
    BY <1>4 DEF Active
  <2> QED
    BY <2>1 DEF ExtractingIsHandled
<1>9. PageTyped'
  BY <1>0, <1>3, PageFrame
<1> QED
  BY <1>0, <1>3, <1>6, <1>7, <1>8, <1>9, InvParts

\* A step of one executor that changes the lines, and so touches those of the others.
LEMMA TouchingStep ==
  ASSUME RunsTyped, FitInv, NEW r \in Runs, NEW n \in LiveType, NEW st \in RunType,
         work' = [q \in Runs |-> IF q = r THEN n ELSE Touched(work[q])],
         \A q \in Runs : run'[q] = IF q = r THEN st ELSE run[q],
         run' \in [Runs -> RunType], stale' \subseteq Runs, early' = early,
         Fit(n, st, r \in early, lines')
  PROVE  /\ RunsTyped' /\ FitInv'
         /\ \A q \in Runs \ {r} : work'[q].pc = work[q].pc
<1>1. ASSUME NEW q \in Runs
      PROVE  /\ work'[q] \in LiveType
             /\ Fit(work'[q], run'[q], q \in early', lines')
             /\ q # r => work'[q].pc = work[q].pc
  <2>1. CASE q = r
    BY <2>1
  <2>2. CASE q # r
    <3>1. work[q] \in LiveType /\ work[q] \in WorkType /\ Fit(work[q], run[q], q \in early, lines)
      BY DEF RunsTyped, FitInv, LiveType
    <3>2. work'[q] = Touched(work[q]) /\ run'[q] = run[q]
      BY <2>2
    <3>3. Touched(work[q]) \in LiveType /\ Fit(Touched(work[q]), run[q], q \in early, lines')
      BY <3>1, TouchedFits
    <3> QED
      BY <3>1, <3>2, <3>3, TouchedTyped
  <2> QED
    BY <2>1, <2>2
<1>2. work' \in [Runs -> LiveType]
  BY <1>1
<1>3. RunsTyped'
  BY <1>2 DEF RunsTyped, LiveType, WorkType, RunType, Point
<1> QED
  BY <1>1, <1>3 DEF FitInv

LEMMA StoreInv ==
  ASSUME Inv, NEW r \in Runs, NEW A \in SUBSET Line, \A l \in A : ~l.manual, Store(r, A)
  PROVE  Inv'
<1>0. /\ RunsTyped /\ PageTyped /\ status \in StatusType /\ lines \subseteq Line
      /\ FitInv /\ OneActiveRun /\ ExtractingIsHandled /\ disturbed \in BOOLEAN
  BY TypeParts DEF Inv
<1>1. /\ work[r] \in LiveType /\ Fit(work[r], run[r], r \in early, lines)
      /\ work[r].pc = "store" /\ work[r].todo # {} /\ work[r] \in WorkType
  BY <1>0 DEF RunsTyped, FitInv, Store, At, LiveType
<1> DEFINE p == ThePage(r)
           v == NextPage(work[r], p)
           n == Stored(v, p, A)
<1>2. p \in work[r].todo /\ p \in Pages
  BY <1>1, ThePageTyped
<1>4. /\ lines' = Kept(r) \cup A
      /\ work' = [q \in Runs |-> IF q = r THEN n ELSE Touched(work[q])]
      /\ stale' = stale \ {r}
      /\ UNCHANGED <<status, run, analysis, visit, spent, early, disturbed>>
  BY DEF Store, Beat, history
<1>5. lines' \subseteq Line
  <2>1. Kept(r) \subseteq lines
    BY DEF Kept, Manual
  <2> QED
    BY <1>0, <1>4, <2>1
<1>6. /\ work[r].whole /\ ~work[r].cleared => Kept(r) = {l \in lines : l.manual}
      /\ ~(work[r].whole /\ ~work[r].cleared) =>
           Kept(r) = {l \in lines : l.manual \/ p \notin l.pages}
  BY DEF Kept, Manual
<1> HIDE DEF p
<1>v. /\ v \in LiveType /\ v \in WorkType /\ v.pc \in {"lines", "call"}
      /\ v.late = work[r].late /\ Alike(v, work[r])
  BY <1>1, <1>2, NextPageTyped
<1> HIDE DEF v
<1>7. /\ n \in WorkType /\ n.pc = v.pc /\ n.todo = v.todo /\ n.late = v.late
      /\ n.whole = v.whole /\ n.cleared /\ n.touched = v.touched
      /\ ~v.touched => n.mine = {l \in v.mine : p \notin l.pages} \cup A
  BY <1>v, StoredTyped
<1> HIDE DEF n
<1>m. Merges(n, lines')
  <2> SUFFICES ASSUME ~work[r].touched
               PROVE  /\ n.mine \subseteq ExtractedOf(lines')
                      /\ work[r].whole => ExtractedOf(lines') \subseteq n.mine
    BY <1>7, <1>v DEF Merges, Alike
  <2>1. n.mine = {l \in work[r].mine : p \notin l.pages} \cup A
    BY <1>7, <1>v DEF Alike
  <2>2. Merges(work[r], lines)
    BY <1>1 DEF Fit
  <2>3. CASE ~work[r].cleared
    <3>1. n.mine = A
      BY <2>1, <2>2, <2>3 DEF Merges
    <3>2. work[r].whole => ExtractedOf(lines') = A
      BY <1>4, <1>6, <2>3 DEF ExtractedOf
    <3>3. A \subseteq ExtractedOf(lines')
      BY <1>4 DEF ExtractedOf
    <3> QED
      BY <3>1, <3>2, <3>3
  <2>4. CASE work[r].cleared
    <3>1. ExtractedOf(lines') = {l \in ExtractedOf(lines) : p \notin l.pages} \cup A
      BY <1>4, <1>6, <2>4 DEF ExtractedOf
    <3>2. /\ work[r].mine \subseteq ExtractedOf(lines)
          /\ work[r].whole => ExtractedOf(lines) \subseteq work[r].mine
      BY <2>2, <2>4 DEF Merges
    <3> QED
      BY <2>1, <3>1, <3>2
  <2> QED
    BY <2>3, <2>4
<1>l. n \in LiveType
  BY <1>v, <1>7 DEF LiveType
<1>8. Fit(n, run[r], r \in early, lines')
  BY <1>1, <1>7, <1>v, <1>m DEF Fit
<1>9. /\ RunsTyped' /\ FitInv'
      /\ \A q \in Runs \ {r} : work'[q].pc = work[q].pc
  <2>1. /\ stale' \subseteq Runs /\ run' \in [Runs -> RunType] /\ run[r] \in RunType
        /\ \A q \in Runs : run'[q] = IF q = r THEN run[r] ELSE run[q]
    BY <1>0, <1>4 DEF RunsTyped
  <2> QED
    BY <1>0, <1>4, <1>l, <1>8, <2>1, TouchingStep
<1>10. Active' = Active
  BY <1>4 DEF Active
<1>11. OneActiveRun'
  BY <1>0, <1>4, <1>10, OneActiveFrame
<1>12. ExtractingIsHandled'
  BY <1>0, <1>1, <1>4, <1>9, <1>10, HandledFrame
<1>13. PageTyped'
  BY <1>0, <1>4, PageFrame
<1> QED
  BY <1>0, <1>4, <1>5, <1>9, <1>11, <1>12, <1>13, InvParts

\* An answer is extracted lines.
LEMMA AnswerTyped ==
  ASSUME Inv, NEW r \in Runs, NEW n \in Names, NEW l \in Answer(r, n),
         Store(r, {l})
  PROVE  l \in Line /\ ~l.manual
<1>1. work[r].todo # {} /\ work[r] \in WorkType
  BY TypeParts DEF Inv, RunsTyped, Store, At, LiveType
<1>2. {ThePage(r)} \in SUBSET Pages
  BY <1>1, ThePageTyped
<1>3. PICK ref \in SUBSET Pages : l = [name |-> n, pages |-> ref, manual |-> FALSE]
  BY <1>2, RefsOfPages DEF Answer
<1> QED
  BY <1>3 DEF Line

LEMMA FinishInv ==
  ASSUME Inv, NEW r \in Runs, Finish(r)
  PROVE  Inv'
<1>0. /\ RunsTyped /\ PageTyped /\ status \in StatusType /\ lines \subseteq Line
      /\ FitInv /\ OneActiveRun /\ ExtractingIsHandled /\ disturbed \in BOOLEAN
  BY TypeParts DEF Inv
<1> DEFINE n == Rest("over")
<1>1. n \in LiveType /\ Fit(n, "succeeded", r \in early, lines')
  BY RestFits DEF Point
<1>2. /\ status' = "draft"
      /\ run' = [run EXCEPT ![r] = "succeeded"]
      /\ work' = [q \in Runs |-> IF q = r THEN n ELSE Touched(work[q])]
      /\ stale' = stale \ {r}
      /\ UNCHANGED <<analysis, visit, spent, early, disturbed>>
  BY DEF Finish, history
<1> HIDE DEF n
<1>3. lines' \subseteq Line
  <2>1. PICK K \in SUBSET Names \ {{}} :
          \E pages \in [K -> Merged(Extracted)], kept \in [{m \in K : AllTyped(m)} -> lines] :
            lines' = Finished(pages, kept)
    BY DEF Finish
  <2>2. PICK pages \in [K -> Merged(Extracted)], kept \in [{m \in K : AllTyped(m)} -> lines] :
          lines' = Finished(pages, kept)
    BY <2>1
  <2>3. \A P \in Merged(Extracted) : P \in SUBSET Pages
    BY <1>0 DEF Merged, Extracted, Line
  <2>4. ASSUME NEW m \in K
        PROVE  (IF AllTyped(m) THEN kept[m] ELSE Draft(m, pages[m], FALSE)) \in Line
    <3>1. CASE AllTyped(m)
      <4>1. m \in {k \in K : AllTyped(k)}
        BY <3>1
      <4>2. kept[m] \in lines
        BY <4>1
      <4> QED
        BY <1>0, <3>1, <4>2
    <3>2. CASE ~AllTyped(m)
      <4>1. pages[m] \in SUBSET Pages /\ m \in Names
        BY <2>1, <2>2, <2>3
      <4>2. Draft(m, pages[m], FALSE) \in Line
        BY <4>1 DEF Draft, Line
      <4> QED
        BY <3>2, <4>2
    <3> QED
      BY <3>1, <3>2
  <2>5. Manual \subseteq Line
    BY <1>0 DEF Manual
  <2> QED
    BY <2>2, <2>4, <2>5 DEF Finished
<1>4. /\ run' \in [Runs -> RunType]
      /\ \A q \in Runs : run'[q] = IF q = r THEN "succeeded" ELSE run[q]
  BY <1>0, <1>2 DEF RunsTyped, RunType
<1>5. RunsTyped' /\ FitInv'
  <2>1. stale' \subseteq Runs /\ "succeeded" \in RunType
    BY <1>0, <1>2 DEF RunsTyped, RunType
  <2> QED
    BY <1>0, <1>1, <1>2, <1>4, <2>1, TouchingStep
<1>6. OneActiveRun'
  <2>1. \A q \in Runs : q \in Active' => q \in Active
    BY <1>4 DEF Active
  <2> QED
    BY <1>0, <1>2, <2>1, OneActiveFrame
<1>7. ExtractingIsHandled'
  BY <1>2 DEF ExtractingIsHandled
<1>8. PageTyped'
  BY <1>0, <1>2, PageFrame
<1>9. status' \in StatusType /\ disturbed' \in BOOLEAN
  BY <1>0, <1>2 DEF StatusType
<1> QED
  BY <1>3, <1>5, <1>6, <1>7, <1>8, <1>9, InvParts

LEMMA FailInv ==
  ASSUME Inv, NEW r \in Runs, FailRun(r) \/ MarkProject(r)
  PROVE  Inv'
<1>0. /\ RunsTyped /\ PageTyped /\ status \in StatusType /\ lines \subseteq Line
      /\ FitInv /\ OneActiveRun /\ ExtractingIsHandled /\ disturbed \in BOOLEAN
  BY TypeParts DEF Inv
<1>1. /\ work[r] \in LiveType /\ Fit(work[r], run[r], r \in early, lines)
      /\ work[r] \in WorkType
  BY <1>0 DEF RunsTyped, FitInv, LiveType
<1>2. CASE FailRun(r)
  <2> DEFINE n == Moved(work[r], "mark")
  <2>1. /\ n \in LiveType /\ n.pc = "mark" /\ n.late = work[r].late
        /\ ~n.cleared /\ ~n.touched /\ n.mine = {}
    BY <1>1, MovedTyped DEF Point
  <2>2. /\ work' = [work EXCEPT ![r] = n] /\ run' = [run EXCEPT ![r] = "failed"]
        /\ stale' = stale \ {r}
        /\ UNCHANGED <<status, lines, analysis, visit, spent, early, disturbed>>
    BY <1>2 DEF FailRun, Go, history
  <2> HIDE DEF n
  <2>3. /\ work' \in [Runs -> LiveType] /\ \A q \in Runs \ {r} : work'[q] = work[q]
        /\ work'[r] = n
        /\ run' \in [Runs -> RunType] /\ \A q \in Runs \ {r} : run'[q] = run[q]
        /\ run'[r] = "failed"
    BY <1>0, <2>1, <2>2 DEF RunsTyped, RunType
  <2>4. Fit(n, "failed", r \in early, lines)
    BY <1>1, <2>1 DEF Fit, Merges
  <2>5. RunsTyped' /\ FitInv'
    <3>1. stale' \subseteq Runs
      BY <1>0, <2>2 DEF RunsTyped
    <3> QED
      BY <1>0, <2>2, <2>3, <2>4, <3>1, ExecutorStep
  <2>6. OneActiveRun'
    <3>1. \A q \in Runs : q \in Active' => q \in Active
      BY <2>3 DEF Active
    <3> QED
      BY <1>0, <2>2, <3>1, OneActiveFrame
  <2>7. ExtractingIsHandled'
    BY <2>1, <2>3 DEF ExtractingIsHandled, At
  <2>8. PageTyped'
    BY <1>0, <2>2, PageFrame
  <2> QED
    BY <1>0, <2>2, <2>5, <2>6, <2>7, <2>8, InvParts
<1>3. CASE MarkProject(r)
  <2> DEFINE n == Moved(work[r], "over")
  <2>1. n \in LiveType /\ Fit(n, run[r], r \in early, lines)
    BY <1>1, MovedFits DEF Point
  <2>2. /\ work' = [work EXCEPT ![r] = n] /\ status' = "extract_failed"
        /\ UNCHANGED <<run, stale, lines, analysis, visit, spent, early, disturbed>>
    BY <1>3 DEF MarkProject, Go, history
  <2> HIDE DEF n
  <2>3. /\ work' \in [Runs -> LiveType] /\ \A q \in Runs \ {r} : work'[q] = work[q]
        /\ work'[r] = n /\ run' \in [Runs -> RunType] /\ stale' \subseteq Runs
    BY <1>0, <2>1, <2>2 DEF RunsTyped
  <2>4. RunsTyped' /\ FitInv'
    BY <1>0, <2>1, <2>2, <2>3, ExecutorStep
  <2>5. OneActiveRun'
    <3>1. Active' = Active
      BY <2>2 DEF Active
    <3> QED
      BY <1>0, <2>2, <3>1, OneActiveFrame
  <2>6. ExtractingIsHandled'
    BY <2>2 DEF ExtractingIsHandled
  <2>7. PageTyped'
    BY <1>0, <2>2, PageFrame
  <2>8. status' \in StatusType
    BY <2>2 DEF StatusType
  <2> QED
    BY <1>0, <2>2, <2>4, <2>5, <2>6, <2>7, <2>8, InvParts
<1> QED
  BY <1>2, <1>3

LEMMA StartInv ==
  ASSUME Inv, NEW r \in Runs, NEW todo \in SUBSET Pages, todo # {}, NEW whole \in BOOLEAN,
         Start(r, todo, whole)
  PROVE  Inv'
<1>0. /\ RunsTyped /\ PageTyped /\ status \in StatusType /\ lines \subseteq Line
      /\ FitInv /\ OneActiveRun /\ ExtractingIsHandled /\ disturbed \in BOOLEAN
  BY TypeParts DEF Inv
<1> DEFINE old == Active \cap stale
           n == [Rest("boot") EXCEPT !.todo = todo, !.whole = whole]
<1>1. /\ run[r] = "none" /\ Active \ stale = {}
      /\ run' = [q \in Runs |-> IF q = r THEN "pending" ELSE IF q \in old THEN "failed" ELSE run[q]]
      /\ stale' = stale \ old
      /\ early' = early \cup {q \in old : At(q, "boot")}
      /\ status' = "extracting"
      /\ work' = [q \in Runs |-> IF q = r THEN n ELSE Doomed(work[q], q, old)]
      /\ UNCHANGED <<lines, analysis, visit, spent, disturbed>>
  BY DEF Start
<1>2. /\ n \in WorkType /\ n.pc = "boot" /\ n.todo = todo /\ n.late = FALSE
      /\ ~n.cleared /\ ~n.touched /\ n.mine = {}
  BY DEF Rest, WorkType, Point
<1>3. n \in LiveType /\ \A e : Fit(n, "pending", e, lines)
  BY <1>2 DEF LiveType, Fit, Merges
<1>4. old = Active /\ old \subseteq Runs /\ r \notin old
  BY <1>1 DEF Active
<1> HIDE DEF n, old
<1>5. ASSUME NEW q \in Runs
      PROVE  work'[q] \in LiveType /\ Fit(work'[q], run'[q], q \in early', lines')
  <2>1. CASE q = r
    BY <1>1, <1>3, <2>1
  <2>2. CASE q # r
    <3>1. work[q] \in LiveType /\ Fit(work[q], run[q], q \in early, lines)
      BY <1>0 DEF RunsTyped, FitInv
    <3>2. /\ Doomed(work[q], q, old) \in LiveType
          /\ Fit(Doomed(work[q], q, old), IF q \in old THEN "failed" ELSE run[q],
                 q \in early \/ (q \in old /\ work[q].pc = "boot"), lines)
      BY <3>1, DoomedFits
    <3>3. /\ work'[q] = Doomed(work[q], q, old)
          /\ run'[q] = IF q \in old THEN "failed" ELSE run[q]
          /\ lines' = lines
          /\ q \in early' <=> (q \in early \/ (q \in old /\ work[q].pc = "boot"))
      BY <1>1, <2>2 DEF At
    <3> QED
      BY <3>2, <3>3 DEF Fit
  <2> QED
    BY <2>1, <2>2
<1>6. RunsTyped'
  <2>1. work' \in [Runs -> LiveType]
    BY <1>1, <1>5
  <2>2. run' \in [Runs -> RunType] /\ stale' \subseteq Runs /\ early' \subseteq Runs
    BY <1>0, <1>1, <1>4 DEF RunsTyped, RunType
  <2> QED
    BY <2>1, <2>2 DEF RunsTyped, LiveType, WorkType, RunType, Point
<1>7. FitInv'
  BY <1>5 DEF FitInv
<1>8. Active' = {r}
  BY <1>1, <1>4 DEF Active
<1>9. OneActiveRun' /\ ExtractingIsHandled'
  BY <1>8 DEF OneActiveRun, ExtractingIsHandled
<1>10. PageTyped'
  BY <1>0, <1>1, PageFrame
<1>11. status' \in StatusType
  BY <1>1 DEF StatusType
<1> QED
  BY <1>0, <1>1, <1>6, <1>7, <1>9, <1>10, <1>11, InvParts

\* The analysis, and requests that only read and note what to do next.
LEMMA QuietPage ==
  ASSUME Inv, UNCHANGED <<run, stale, lines, work, early>>, PageTyped',
         status' \in StatusType, disturbed' \in BOOLEAN, ExtractingIsHandled'
  PROVE  Inv'
<1>0. RunsTyped /\ FitInv /\ OneActiveRun /\ lines \subseteq Line
  BY TypeParts DEF Inv
<1>1. RunsTyped' /\ FitInv'
  BY <1>0 DEF RunsTyped, FitInv, LiveType, WorkType, RunType, Point
<1>2. OneActiveRun'
  BY <1>0 DEF OneActiveRun, Active
<1> QED
  BY <1>0, <1>1, <1>2, InvParts

LEMMA AnalysisInv ==
  ASSUME Inv, Analyze \/ AnalysisReads \/ AnalysisWrites \/ AnalysisFails
  PROVE  Inv'
<1>0. /\ PageTyped /\ status \in StatusType /\ ExtractingIsHandled /\ disturbed \in BOOLEAN
      /\ analysis \in AnalysisType /\ analysis.pc \in {"idle", "read", "write"}
  BY TypeParts DEF Inv, PageTyped, AnalysisType
<1>1. /\ [pc |-> "read", busy |-> FALSE] \in AnalysisType
      /\ [pc |-> "idle", busy |-> FALSE] \in AnalysisType
      /\ [pc |-> "write", busy |-> Active # {}] \in AnalysisType
  BY DEF AnalysisType
<1>p. ASSUME analysis' \in AnalysisType, visit' = visit, spent' \in 0..MaxOthers
      PROVE  PageTyped'
  BY <1>0, <1>p DEF PageTyped, AnalysisType, VisitType, Line
<1>2. CASE Analyze
  <2>1. spent' \in 0..MaxOthers /\ analysis' = [pc |-> "read", busy |-> FALSE] /\ visit' = visit
    BY <1>0, <1>2, BoundIsNat DEF Analyze, PageTyped
  <2>2. PageTyped' /\ analysis'.pc = "read"
    BY <1>1, <1>p, <2>1
  <2>3. ExtractingIsHandled'
    BY <2>2 DEF ExtractingIsHandled
  <2> QED
    BY <1>0, <1>2, <2>2, <2>3, QuietPage DEF Analyze, StatusType, history
<1>3. CASE AnalysisReads
  <2>1. /\ spent' \in 0..MaxOthers /\ visit' = visit
        /\ analysis' = [pc |-> "write", busy |-> Active # {}]
    BY <1>0, <1>3 DEF AnalysisReads, PageTyped
  <2>2. PageTyped' /\ analysis'.pc = "write"
    BY <1>1, <1>p, <2>1
  <2>3. ExtractingIsHandled'
    BY <2>2 DEF ExtractingIsHandled
  <2> QED
    BY <1>0, <1>3, <2>2, <2>3, QuietPage DEF AnalysisReads, history
<1>4. CASE AnalysisWrites
  <2>1. /\ spent' \in 0..MaxOthers /\ visit' = visit
        /\ analysis' = [pc |-> "idle", busy |-> FALSE]
    BY <1>0, <1>4 DEF AnalysisWrites, PageTyped
  <2>2. PageTyped'
    BY <1>1, <1>p, <2>1
  <2>3. disturbed' \in BOOLEAN /\ ((status' = "extracting" /\ Active = {}) => disturbed')
        /\ status' \in {"extracting", "draft"}
    BY <1>0, <1>4 DEF AnalysisWrites
  <2>4. Active' = Active
    BY <1>4 DEF AnalysisWrites, Active
  <2>5. ExtractingIsHandled'
    BY <2>3, <2>4 DEF ExtractingIsHandled
  <2> QED
    BY <1>0, <1>4, <2>2, <2>3, <2>5, QuietPage DEF AnalysisWrites, StatusType
<1>5. CASE AnalysisFails
  <2>1. /\ spent' \in 0..MaxOthers /\ visit' = visit
        /\ analysis' = [pc |-> "idle", busy |-> FALSE]
    BY <1>0, <1>5 DEF AnalysisFails, PageTyped
  <2>2. PageTyped'
    BY <1>1, <1>p, <2>1
  <2>3. ExtractingIsHandled'
    BY <1>5 DEF ExtractingIsHandled, AnalysisFails
  <2> QED
    BY <1>0, <1>5, <2>2, <2>3, QuietPage DEF AnalysisFails, StatusType, history
<1> QED
  BY <1>2, <1>3, <1>4, <1>5

\* A request that rewrites the lines, and at most makes the project ready or a draft.
LEMMA LinesPage ==
  ASSUME Inv, NEW L \in SUBSET Line, LinesBecome(L), UNCHANGED <<run, stale, early>>,
         PageTyped', analysis' = analysis, visit.pc # "project", disturbed' = disturbed,
         status' \in {status, "ready", "draft"}
  PROVE  Inv'
<1>0. /\ RunsTyped /\ status \in StatusType /\ FitInv /\ OneActiveRun /\ ExtractingIsHandled
      /\ disturbed \in BOOLEAN
  BY TypeParts DEF Inv
<1>1. RunsTyped' /\ FitInv' /\ lines' = L /\ \A r \in Runs : work'[r].pc = work[r].pc
  BY <1>0, LinesStep
<1>2. Active' = Active
  BY DEF Active
<1>3. OneActiveRun'
  BY <1>0, <1>2, OneActiveFrame
<1>4. ExtractingIsHandled'
  BY <1>0, <1>1, <1>2, HandledFrame
<1>5. status' \in StatusType
  BY <1>0 DEF StatusType
<1> QED
  BY <1>0, <1>1, <1>3, <1>4, <1>5, InvParts

LEMMA IdleTyped ==
  /\ Idle \in VisitType /\ Idle.pc = "idle"
  /\ \A pc \in {"reconcile", "draft", "project"} :
       [Idle EXCEPT !.pc = pc] \in VisitType /\ [Idle EXCEPT !.pc = pc].pc = pc
  /\ \A r \in Runs : /\ [Idle EXCEPT !.pc = "fail", !.run = r] \in VisitType
                     /\ [Idle EXCEPT !.pc = "fail", !.run = r].run = r
  /\ \A S \in SUBSET SUBSET Pages : /\ [Idle EXCEPT !.pc = "apply", !.seen = S] \in VisitType
                                      /\ [Idle EXCEPT !.pc = "apply", !.seen = S].pc = "apply"
<1>1. Idle \in VisitType /\ Idle.pc = "idle"
  BY DEF Idle, VisitType
<1>2. \A pc \in {"reconcile", "draft", "project"} :
        [Idle EXCEPT !.pc = pc] \in VisitType /\ [Idle EXCEPT !.pc = pc].pc = pc
  BY <1>1 DEF VisitType
<1>3. \A r \in Runs : /\ [Idle EXCEPT !.pc = "fail", !.run = r] \in VisitType
                      /\ [Idle EXCEPT !.pc = "fail", !.run = r].run = r
  BY <1>1 DEF VisitType
<1>4. \A S \in SUBSET SUBSET Pages : /\ [Idle EXCEPT !.pc = "apply", !.seen = S] \in VisitType
                                                 /\ [Idle EXCEPT !.pc = "apply", !.seen = S].pc = "apply"
  BY <1>1 DEF VisitType
<1> QED
  BY <1>1, <1>2, <1>3, <1>4

\* The page's variables after a step of its request.
LEMMA VisitTyped ==
  ASSUME PageTyped, analysis' = analysis, visit' \in VisitType,
         visit'.pc = "fail" => visit'.run \in Runs, spent' \in 0..MaxOthers
  PROVE  PageTyped'
  BY DEF PageTyped, AnalysisType, VisitType, Line

LEMMA ReadsInv ==
  ASSUME Inv, \/ \E r \in Runs : Poll(r)
              \/ Look \/ PatchFacts \/ Apply \/ PollMarks \/ PatchWrites
  PROVE  Inv'
<1>0. /\ PageTyped /\ status \in StatusType /\ ExtractingIsHandled /\ disturbed \in BOOLEAN
      /\ lines \subseteq Line /\ visit \in VisitType /\ spent \in 0..MaxOthers
  BY TypeParts DEF Inv, PageTyped
<1>1. CASE PollMarks \/ PatchWrites
  <2>1. /\ visit' = Idle /\ status' \in {"extract_failed", "draft"}
        /\ UNCHANGED <<run, stale, lines, work, early, analysis, spent, disturbed>>
    BY <1>1 DEF PollMarks, PatchWrites, history
  <2>2. PageTyped'
    BY <1>0, <2>1, IdleTyped, VisitTyped
  <2>3. ExtractingIsHandled' /\ status' \in StatusType
    BY <2>1 DEF ExtractingIsHandled, StatusType
  <2> QED
    BY <1>0, <2>1, <2>2, <2>3, QuietPage
<1>2. ASSUME visit = Idle, visit' \in VisitType, visit'.pc = "fail" => visit'.run \in Runs,
             spent < MaxOthers, spent' = spent + 1,
             UNCHANGED <<status, run, stale, lines, work, analysis, history>>
      PROVE  Inv'
  <2>1. PageTyped'
    BY <1>0, <1>2, BoundIsNat, VisitTyped
  <2>2. Active' = Active /\ visit.pc = "idle"
    BY <1>2, IdleTyped DEF Active
  <2>3. ExtractingIsHandled'
    BY <1>0, <1>2, <2>2, HandledFrame DEF history
  <2> QED
    BY <1>0, <1>2, <2>1, <2>3, QuietPage DEF history
<1>3. ASSUME NEW r \in Runs, Poll(r)
      PROVE  Inv'
  BY <1>2, <1>3, IdleTyped DEF Poll, Visits
<1>4. CASE Look
  BY <1>2, <1>4, IdleTyped DEF Look, Visits
<1>5. CASE PatchFacts
  <2>1. visit' \in {Idle, [Idle EXCEPT !.pc = "draft"]}
    BY <1>5 DEF PatchFacts
  <2> QED
    BY <1>2, <1>5, <2>1, IdleTyped DEF PatchFacts, Visits
<1>6. CASE Apply
  <2>1. Merged(lines) \in SUBSET SUBSET Pages
    BY <1>0 DEF Merged, Line
  <2> QED
    BY <1>2, <1>6, <2>1, IdleTyped DEF Apply, Visits
<1> QED
  BY <1>1, <1>3, <1>4, <1>5, <1>6

LEMMA GiveUpInv ==
  ASSUME Inv, PollFails \/ Reconcile
  PROVE  Inv'
<1>0. /\ RunsTyped /\ PageTyped /\ status \in StatusType /\ ExtractingIsHandled
      /\ disturbed \in BOOLEAN /\ lines \subseteq Line /\ visit \in VisitType
      /\ spent \in 0..MaxOthers /\ FitInv /\ OneActiveRun
      /\ (visit.pc = "fail" => visit.run \in Runs)
  BY TypeParts DEF Inv, PageTyped
<1>1. PICK R \in SUBSET Runs : GiveUp(R) /\ (Reconcile => R = Active)
  BY <1>0 DEF PollFails, Reconcile, Active
<1>2. UNCHANGED <<lines, analysis, spent, status>>
  BY DEF PollFails, Reconcile
<1>3. /\ RunsTyped' /\ FitInv' /\ early \subseteq early' /\ Active' = Active \ R
      /\ \A r \in Runs : work'[r].pc = work[r].pc
  BY <1>0, <1>1, <1>2, GiveUpStep
<1>4. OneActiveRun'
  BY <1>0, <1>3, OneActiveFrame
<1>5. CASE PollFails
  <2>1. visit' = [visit EXCEPT !.pc = "project"] /\ disturbed' = disturbed
    BY <1>5 DEF PollFails
  <2>2. visit' \in VisitType /\ visit'.pc = "project"
    BY <1>0, <2>1 DEF VisitType
  <2>3. PageTyped'
    BY <1>0, <1>2, <2>2, VisitTyped
  <2>4. ExtractingIsHandled'
    BY <2>2 DEF ExtractingIsHandled
  <2> QED
    BY <1>0, <1>2, <1>3, <1>4, <2>1, <2>3, <2>4, InvParts
<1>6. CASE Reconcile
  <2>1. /\ visit' = Idle /\ visit.pc = "reconcile"
        /\ disturbed' = (disturbed \/ (Active # {} /\ status = "extracting"))
    BY <1>6 DEF Reconcile
  <2>2. disturbed' \in BOOLEAN /\ (disturbed => disturbed')
    BY <1>0, <2>1
  <2>3. PageTyped'
    BY <1>0, <1>2, <2>1, IdleTyped, VisitTyped
  <2>4. ExtractingIsHandled'
    <3>1. status' = "extracting" /\ Active # {} => disturbed'
      BY <1>2, <2>1
    <3> QED
      BY <1>0, <1>2, <1>3, <2>1, <2>2, <3>1 DEF ExtractingIsHandled, At
  <2> QED
    BY <1>0, <1>2, <1>3, <1>4, <2>2, <2>3, <2>4, InvParts
<1> QED
  BY <1>5, <1>6

LEMMA AppliedLines ==
  ASSUME NEW K \in SUBSET Names, NEW S \in SUBSET SUBSET Pages, NEW pages \in [K -> S]
  PROVE  Applied(pages) \subseteq Line
<1>1. ASSUME NEW n \in K
      PROVE  Draft(n, pages[n], AllTyped(n)) \in Line
  <2>1. AllTyped(n) \in BOOLEAN /\ n \in Names /\ pages[n] \in SUBSET Pages
    BY DEF AllTyped
  <2>2. \A b \in BOOLEAN : Draft(n, pages[n], b) \in Line
    BY <2>1 DEF Draft, Line
  <2> QED
    BY <2>1, <2>2
<1> QED
  BY <1>1 DEF Applied

LEMMA EditsInv ==
  ASSUME Inv, \/ \E n \in Names : AddLine(n)
              \/ \E l \in lines : DeleteLine(l) \/ \E n \in Names : EditLine(l, n)
              \/ \E S \in SUBSET Names : ReplaceLines(S)
              \/ Confirm \/ ApplyWrites
  PROVE  Inv'
<1>0. /\ PageTyped /\ lines \subseteq Line /\ visit \in VisitType /\ spent \in 0..MaxOthers
  BY TypeParts DEF Inv, PageTyped
<1>1. ASSUME NEW L \in SUBSET Line, LinesBecome(L), Visits,
             UNCHANGED <<run, stale, analysis, visit, early, disturbed>>,
             status' \in {status, "ready", "draft"}
      PROVE  Inv'
  <2>0. visit = Idle /\ spent' \in 0..MaxOthers
    BY <1>0, <1>1, BoundIsNat DEF Visits
  <2>1. PageTyped'
    <3>1. visit' = visit /\ visit'.pc # "fail" /\ analysis' = analysis
      BY <1>1, <2>0, IdleTyped
    <3> QED
      BY <1>0, <2>0, <3>1, VisitTyped
  <2>2. visit.pc # "project"
    BY <2>0, IdleTyped
  <2> QED
    BY <1>1, <2>1, <2>2, LinesPage
<1>t. \A S \in SUBSET Names : Typed(S) \in SUBSET Line
  <2>1. \A n \in Names : [name |-> n, pages |-> {}, manual |-> TRUE] \in Line
    BY DEF Line
  <2> QED
    BY <2>1 DEF Typed
<1>2. ASSUME NEW n \in Names, AddLine(n)
      PROVE  Inv'
  <2>1. lines \cup Typed({n}) \in SUBSET Line
    BY <1>0, <1>t
  <2> QED
    BY <1>1, <1>2, <2>1 DEF AddLine
<1>3. ASSUME NEW l \in lines, NEW n \in Names, EditLine(l, n)
      PROVE  Inv'
  <2>1. [l EXCEPT !.name = n, !.manual = TRUE] \in Line
    BY <1>0 DEF Line
  <2>2. (lines \ {l}) \cup {[l EXCEPT !.name = n, !.manual = TRUE]} \in SUBSET Line
    BY <1>0, <2>1
  <2> QED
    BY <1>1, <1>3, <2>2 DEF EditLine
<1>4. ASSUME NEW l \in lines, DeleteLine(l)
      PROVE  Inv'
  <2>1. lines \ {l} \in SUBSET Line
    BY <1>0
  <2> QED
    BY <1>1, <1>4, <2>1 DEF DeleteLine
<1>5. ASSUME NEW S \in SUBSET Names, ReplaceLines(S)
      PROVE  Inv'
  <2>1. status' \in {status, "ready", "draft"}
    BY <1>5 DEF ReplaceLines
  <2> QED
    BY <1>1, <1>5, <1>t, <2>1 DEF ReplaceLines
<1>6. CASE Confirm
  <2>1. Manual \in SUBSET Line
    BY <1>0 DEF Manual
  <2> QED
    BY <1>1, <1>6, <2>1 DEF Confirm
<1>7. CASE ApplyWrites
  <2>1. visit.seen \in SUBSET SUBSET Pages
    BY <1>0 DEF VisitType
  <2>2. PICK K \in SUBSET Names : \E pages \in [K -> visit.seen] : LinesBecome(Applied(pages))
    BY <1>7 DEF ApplyWrites
  <2>3. PICK pages \in [K -> visit.seen] : LinesBecome(Applied(pages))
    BY <2>2
  <2>4. Applied(pages) \in SUBSET Line
    BY <2>1, AppliedLines
  <2>5. PageTyped'
    BY <1>0, <1>7, IdleTyped, VisitTyped DEF ApplyWrites
  <2> QED
    BY <1>7, <2>3, <2>4, <2>5, LinesPage DEF ApplyWrites
<1> QED
  BY <1>2, <1>3, <1>4, <1>5, <1>6, <1>7

LEMMA CrashInv ==
  ASSUME Inv, Crash
  PROVE  Inv'
<1>0. /\ RunsTyped /\ PageTyped /\ status \in StatusType /\ ExtractingIsHandled
      /\ disturbed \in BOOLEAN /\ lines \subseteq Line /\ spent \in 0..MaxOthers /\ FitInv
      /\ OneActiveRun
  BY TypeParts DEF Inv, PageTyped
<1>1. /\ work' = [r \in Runs |-> IF Alive(r) THEN Rest("over") ELSE work[r]]
      /\ analysis' = [pc |-> "idle", busy |-> FALSE] /\ visit' = Idle
      /\ spent' \in 0..MaxOthers
      /\ UNCHANGED <<status, run, stale, lines, early>>
  BY <1>0, BoundIsNat DEF Crash
<1>2. /\ disturbed' \in BOOLEAN /\ (disturbed => disturbed')
      /\ analysis.pc # "idle" => disturbed'
      /\ visit.pc = "project" => disturbed'
      /\ \A r \in Runs : work[r].pc = "mark" => disturbed'
  BY <1>0 DEF Crash, At
<1>3. ASSUME NEW r \in Runs
      PROVE  work'[r] \in LiveType /\ Fit(work'[r], run'[r], r \in early', lines')
  <2>1. work[r] \in LiveType /\ Fit(work[r], run[r], r \in early, lines)
    BY <1>0 DEF RunsTyped, FitInv
  <2>2. Rest("over") \in LiveType /\ Fit(Rest("over"), run[r], r \in early, lines)
    BY RestFits DEF Point
  <2>3. work'[r] \in {Rest("over"), work[r]}
    BY <1>1
  <2> QED
    BY <1>1, <2>1, <2>2, <2>3
<1>4. RunsTyped'
  <2>1. work' \in [Runs -> LiveType]
    BY <1>1, <1>3
  <2> QED
    BY <1>0, <1>1, <2>1 DEF RunsTyped, LiveType, WorkType, RunType, Point
<1>5. FitInv'
  BY <1>3 DEF FitInv
<1>6. PageTyped'
  BY <1>0, <1>1, IdleTyped DEF PageTyped, AnalysisType, VisitType, Line
<1>7. Active' = Active
  BY <1>1 DEF Active
<1>8. OneActiveRun'
  BY <1>0, <1>1, <1>7, OneActiveFrame
<1>9. ExtractingIsHandled'
  BY <1>0, <1>1, <1>2, <1>7, HandledFrame
<1> QED
  BY <1>0, <1>1, <1>2, <1>4, <1>5, <1>6, <1>8, <1>9, InvParts

LEMMA AgeInv ==
  ASSUME Inv, NEW r \in Runs, Age(r)
  PROVE  Inv'
<1>0. /\ RunsTyped /\ PageTyped /\ status \in StatusType /\ ExtractingIsHandled
      /\ disturbed \in BOOLEAN /\ lines \subseteq Line /\ FitInv /\ OneActiveRun
  BY TypeParts DEF Inv
<1>1. /\ UNCHANGED <<status, run, lines, work, analysis, visit, spent, early, disturbed>>
      /\ stale' = stale \cup {r}
  BY DEF Age, history
<1>2. RunsTyped'
  BY <1>0, <1>1 DEF RunsTyped, LiveType, WorkType, RunType, Point
<1>3. FitInv' /\ Active' = Active
  BY <1>0, <1>1 DEF FitInv, Active
<1>4. OneActiveRun'
  BY <1>0, <1>1, <1>3, OneActiveFrame
<1>5. ExtractingIsHandled'
  BY <1>0, <1>1, <1>3, HandledFrame
<1>6. PageTyped'
  BY <1>0, <1>1, PageFrame
<1> QED
  BY <1>0, <1>1, <1>2, <1>3, <1>4, <1>5, <1>6, InvParts

LEMMA InitInv == Init => Inv
<1> SUFFICES ASSUME Init
             PROVE  Inv
  OBVIOUS
<1>1. Rest("none") \in LiveType /\ \A st, e, L : Fit(Rest("none"), st, e, L)
  BY RestFits DEF Point
<1>2. RunsTyped /\ FitInv
  BY <1>1 DEF Init, RunsTyped, FitInv, RunType
<1>3. PageTyped
  <2>1. [pc |-> "idle", busy |-> FALSE] \in AnalysisType /\ 0 \in 0..MaxOthers
    BY BoundIsNat DEF AnalysisType
  <2>2. /\ analysis = [pc |-> "idle", busy |-> FALSE] /\ visit = Idle /\ spent = 0
    BY DEF Init
  <2>3. visit \in VisitType /\ visit.pc # "fail"
    BY <2>2, IdleTyped
  <2> QED
    BY <2>1, <2>2, <2>3 DEF PageTyped
<1>4. lines \subseteq Line
  <2>1. \A n \in Names, b \in BOOLEAN : [name |-> n, pages |-> {}, manual |-> b] \in Line
    BY DEF Line
  <2> QED
    BY <2>1 DEF Init, Typed
<1>5. status \in StatusType /\ disturbed \in BOOLEAN /\ status # "extracting"
  BY DEF Init, StatusType
<1>6. Active = {}
  BY DEF Init, Active
<1> QED
  BY <1>2, <1>3, <1>4, <1>5, <1>6, TypeParts DEF Inv, OneActiveRun, ExtractingIsHandled

LEMMA NextInv == Inv /\ [Next]_vars => Inv'
<1> SUFFICES ASSUME Inv, [Next]_vars
             PROVE  Inv'
  OBVIOUS
<1>1. ASSUME NEW r \in Runs, NEW todo \in Ranges, Start(r, todo, FALSE)
      PROVE  Inv'
  BY <1>1, RangesOfPages, SomethingToRead, StartInv
<1>2. ASSUME NEW r \in Runs, Start(r, Pages, TRUE)
      PROVE  Inv'
  BY <1>2, SomethingToRead, StartInv
<1>3. ASSUME NEW r \in Runs, Execute(r)
      PROVE  Inv'
  <2>1. ASSUME NEW n \in Names, NEW l \in Answer(r, n), Store(r, {l})
        PROVE  Inv'
    <3>1. l \in Line /\ ~l.manual
      BY <2>1, AnswerTyped
    <3> QED
      BY <2>1, <3>1, StoreInv
  <2> QED
    BY <1>3, <2>1, BootInv, RecheckInv, LooksInv, FinishInv, FailInv, CallInv DEF Execute
<1>4. CASE Visit
  BY <1>4, ReadsInv, GiveUpInv, EditsInv DEF Visit
<1>5. CASE UNCHANGED vars
  <2>1. PageTyped
    BY TypeParts DEF Inv
  <2>2. PageTyped'
    BY <1>5, <2>1, PageFrame DEF vars
  <2>3. status \in StatusType /\ disturbed \in BOOLEAN /\ ExtractingIsHandled
    BY TypeParts DEF Inv
  <2>4. ExtractingIsHandled'
    BY <1>5, <2>3 DEF vars, ExtractingIsHandled, Active, At
  <2> QED
    BY <1>5, <2>2, <2>3, <2>4, QuietPage DEF vars
<1> QED
  BY <1>1, <1>2, <1>3, <1>4, <1>5, LooksInv, AgeInv, AnalysisInv, CrashInv DEF Next

LEMMA InvHolds == Spec => []Inv
  BY InitInv, NextInv, PTL DEF Spec

-----------------------------------------------------------------------------
(* The theorems *)

\* The project, its runs and lines keep their types; an executor at a page has one.
THEOREM TypeCorrect == Spec => []TypeOK
<1>1. Inv => TypeOK
  BY DEF Inv
<1> QED
  BY <1>1, InvHolds, PTL

\* Two runs are active only if one was given up before its executor booted.
THEOREM OneActive == Spec => []OneActiveRun
<1>1. Inv => OneActiveRun
  BY DEF Inv
<1> QED
  BY <1>1, InvHolds, PTL

\* A project that says it is being extracted has somebody who will say otherwise.
THEOREM Handled == Spec => []ExtractingIsHandled
<1>1. Inv => ExtractingIsHandled
  BY DEF Inv
<1> QED
  BY <1>1, InvHolds, PTL

\* The only steps of an executor that change the lines.
LEMMA Writers ==
  ASSUME Inv, [Next]_vars, NEW r \in Runs, Stepped(r), lines' # lines
  PROVE  (\E A : Store(r, A)) \/ Finish(r)
<1>0. RunsTyped /\ \A q \in Runs : work[q] \in WorkType
  BY TypeParts DEF Inv, RunsTyped, LiveType
<1>1. \A L : LinesBecome(L) => work'[r].pc = work[r].pc
  BY <1>0, TouchedTyped DEF LinesBecome
<1>2. ASSUME NEW q \in Runs, (\E A : Store(q, A)) \/ Finish(q)
      PROVE  q = r
  <2>1. q # r => work'[r] = Touched(work[r])
    BY <1>2 DEF Store, Finish
  <2> QED
    BY <1>0, <2>1, TouchedTyped DEF Stepped
<1>3. ~Visit
  BY <1>1 DEF Visit, Poll, PollFails, PollMarks, Look, Reconcile, AddLine, EditLine,
              DeleteLine, ReplaceLines, Confirm, PatchFacts, PatchWrites, Apply, ApplyWrites,
              Stepped
<1> QED
  BY <1>2, <1>3 DEF Next, Execute, Start, Boot, Call, Recheck, LookAtLines, LastCheck,
     FailRun, MarkProject, Throw, Age, Analyze, AnalysisReads, AnalysisWrites, AnalysisFails,
     Crash, vars

\* Once a run is marked failed while its executor waits, that executor writes no lines.
THEOREM LateDropped == Spec => LateAnswerDropped
<1>1. Inv /\ [Next]_vars => [\A r \in Runs : work[r].late /\ Stepped(r) => lines' = lines]_vars
  <2> SUFFICES ASSUME Inv, [Next]_vars, NEW r \in Runs, work[r].late, Stepped(r), lines' # lines
               PROVE  FALSE
    OBVIOUS
  <2>1. work[r].pc \in {"store", "finish"}
    BY Writers DEF Store, Finish, At
  <2> QED
    BY <2>1 DEF Inv, FitInv, Fit
<1> QED
  BY <1>1, InvHolds, PTL DEF Spec, LateAnswerDropped

\* A re-extraction that fails before its first answer leaves the list as it was.
THEOREM ListHolds == Spec => ListUntilFirstAnswer
<1>1. Inv /\ [Next]_vars =>
        [\A r \in Runs : Stepped(r) /\ ~(NamesOf(Extracted) \subseteq NamesOf(lines'))
           => work[r].found \/ work[r].cleared \/ At(r, "finish")]_vars
  <2> SUFFICES ASSUME Inv, [Next]_vars, NEW r \in Runs, Stepped(r),
                      ~(NamesOf(Extracted) \subseteq NamesOf(lines'))
               PROVE  work[r].found \/ At(r, "finish")
    OBVIOUS
  <2>1. NamesOf(Extracted) \subseteq NamesOf(lines)
    BY DEF NamesOf, Extracted
  <2>2. lines' # lines
    BY <2>1
  <2>3. At(r, "store") \/ At(r, "finish")
    BY <2>2, Writers DEF Store, Finish
  <2> QED
    BY <2>3 DEF Inv, FitInv, Fit, At
<1> QED
  BY <1>1, InvHolds, PTL DEF Spec, ListUntilFirstAnswer

\* An executor removes a typed line only when it finishes, and for one of its name.
THEOREM TypedStay == Spec => TypedLinesStay
<1>1. Inv /\ [Next]_vars =>
        [\A r \in Runs : Stepped(r) =>
           \A l \in Manual \ lines' :
             /\ At(r, "finish")
             /\ Rows(l.name) # {l}
             /\ l.name \in NamesOf(lines')]_vars
  <2> SUFFICES ASSUME Inv, [Next]_vars, NEW r \in Runs, Stepped(r), NEW l \in Manual \ lines'
               PROVE  /\ At(r, "finish")
                      /\ Rows(l.name) # {l}
                      /\ l.name \in NamesOf(lines')
    OBVIOUS
  <2>1. lines' # lines /\ l \in Rows(l.name) /\ l.manual
    BY DEF Manual, Rows
  <2>2. \A A : ~Store(r, A)
    BY DEF Store, Kept, Manual
  <2>3. Finish(r)
    BY <2>1, <2>2, Writers
  <2>4. PICK K \in SUBSET Names \ {{}} :
          \E pages \in [K -> Merged(Extracted)], kept \in [{n \in K : AllTyped(n)} -> lines] :
            /\ \A n \in DOMAIN kept : kept[n] \in Rows(n)
            /\ lines' = Finished(pages, kept)
    BY <2>3 DEF Finish
  <2>5. PICK pages \in [K -> Merged(Extracted)], kept \in [{n \in K : AllTyped(n)} -> lines] :
          /\ \A n \in DOMAIN kept : kept[n] \in Rows(n)
          /\ lines' = Finished(pages, kept)
    BY <2>4
  <2> DEFINE new == IF AllTyped(l.name) THEN kept[l.name] ELSE Draft(l.name, pages[l.name], FALSE)
  <2>6. l.name \in K
    BY <2>5 DEF Finished
  <2>7. new \in lines'
    BY <2>5, <2>6 DEF Finished
  <2>8. new.name = l.name /\ Rows(l.name) # {l}
    <3>1. CASE AllTyped(l.name)
      <4>1. new \in Rows(l.name)
        BY <2>5, <2>6, <3>1
      <4>2. new # l
        BY <2>7
      <4> HIDE DEF new
      <4> QED
        BY <4>1, <4>2 DEF Rows
    <3>2. CASE ~AllTyped(l.name)
      <4>1. new.name = l.name
        BY <3>2 DEF Draft
      <4>2. Rows(l.name) # {l}
        BY <2>1, <3>2 DEF AllTyped
      <4> QED
        BY <4>1, <4>2
    <3> QED
      BY <3>1, <3>2
  <2> HIDE DEF new
  <2> QED
    BY <2>3, <2>7, <2>8 DEF Finish, NamesOf
<1> QED
  BY <1>1, InvHolds, PTL DEF Spec, TypedLinesStay

\* What an undisturbed run merges is what it was answered.
THEOREM MergesAnswers == Spec => []FinishMergesAnswers
<1>1. Inv => FinishMergesAnswers
  BY DEF Inv, FitInv, Fit, Merges, ExtractedOf, Extracted, FinishMergesAnswers
<1> QED
  BY <1>1, InvHolds, PTL
=============================================================================
