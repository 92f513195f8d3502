------------------------- MODULE StockAlertsProofs -------------------------
(***************************************************************************)
(* Proofs about StockAlerts for any alerts, posts, pipeline runs and bounds. *)
(***************************************************************************)
EXTENDS StockAlerts, TLAPS

-----------------------------------------------------------------------------
(* Types *)

Point == {"none", "count", "refused", "start", "read", "resolve", "write", "finish", "fail",
          "over"}
JobType == [pc : Point, snap : SUBSET Keys, todo : SUBSET Keys, known : SUBSET Posts,
            old : SUBSET Posts, aged : BOOLEAN, torn : BOOLEAN]
TaskType == {"none", "running", "success", "failed"}

LEMMA RestTyped == \A pc \in Point : Rest(pc) \in JobType /\ Rest(pc).pc = pc
  BY DEF Rest, JobType

\* A job whose alerts were written by somebody else stays the job it was.
LEMMA TearsTyped ==
  ASSUME NEW w \in JobType
  PROVE  /\ Tears(w) \in JobType
         /\ Tears(w).pc = w.pc /\ Tears(w).known = w.known /\ Tears(w).aged = w.aged
         /\ Tears(w).old = w.old
         /\ Tears(w).pc = "write" => Tears(w).torn
  BY DEF Tears, JobType

\* The step an executor takes keeps its record.
LEMMA GoTyped ==
  ASSUME NEW w \in JobType, NEW pc \in Point
  PROVE  /\ [w EXCEPT !.pc = pc] \in JobType
         /\ [w EXCEPT !.pc = pc].pc = pc
         /\ [w EXCEPT !.pc = pc].known = w.known
         /\ [w EXCEPT !.pc = pc].aged = w.aged
  BY DEF JobType

\* A post that has closed what is stale keeps its record, but for those rows.
LEMMA PostedTyped ==
  ASSUME NEW w \in JobType, NEW S \in SUBSET Posts
  PROVE  /\ [w EXCEPT !.pc = "count", !.old = S] \in JobType
         /\ [w EXCEPT !.pc = "count", !.old = S].pc = "count"
         /\ [w EXCEPT !.pc = "count", !.old = S].known = w.known
         /\ [w EXCEPT !.pc = "count", !.old = S].aged = w.aged
         /\ [w EXCEPT !.pc = "count", !.old = S].old = S
  BY DEF JobType, Point

TaskOK ==
  /\ task \in [Posts -> TaskType]
  /\ stale \in SUBSET Posts
  /\ \A p \in stale : task[p] = "running"

LEMMA TypeParts ==
  TypeOK <=> /\ open \in [Keys -> Nat] /\ short \in SUBSET Keys /\ TaskOK
             /\ exec \in [Jobs -> JobType] /\ moves \in 0..MaxMoves
  BY DEF TypeOK, TaskOK, JobType, Point, TaskType

LEMMA FailStaleTyped ==
  ASSUME TaskOK, FailStale
  PROVE  TaskOK'
  BY DEF TaskOK, FailStale, TaskType

\* A row of the task records that gets another status is not stale any more.
LEMMA TaskTyped ==
  ASSUME TaskOK, NEW p \in Posts, NEW st \in TaskType, task' = [task EXCEPT ![p] = st],
         stale' = stale \ {p} \/ (stale' = stale /\ st = "running")
  PROVE  TaskOK'
  BY DEF TaskOK, TaskType

LEMMA PostTyped ==
  ASSUME TypeOK, NEW p \in Posts, Post(p) \/ Count(p) \/ StartRun(p) \/ Finish(p) \/ FailRun(p)
  PROVE  TypeOK'
<1>0. /\ exec \in [Jobs -> JobType] /\ TaskOK /\ p \in Jobs
      /\ open \in [Keys -> Nat] /\ short \in SUBSET Keys /\ moves \in 0..MaxMoves
  BY TypeParts DEF Jobs
<1>1. ASSUME exec' \in [Jobs -> JobType], TaskOK', UNCHANGED <<open, short, moves>>
      PROVE  TypeOK'
  BY <1>0, <1>1, TypeParts DEF TypeOK, TaskOK, JobType, Point, TaskType, Jobs
<1>2. CASE Post(p)
  <2>1. exec' \in [Jobs -> JobType]
    BY <1>0, <1>2, PostedTyped DEF Post, TaskOK
  <2>2. TaskOK'
    BY <1>0, <1>2, FailStaleTyped DEF Post
  <2> QED
    BY <1>1, <1>2, <2>1, <2>2 DEF Post
<1>3. CASE Count(p)
  <2>1. [Rest("start") EXCEPT !.known = {q \in Posts : task[q] # "none"}] \in JobType
    BY DEF Rest, JobType, Point
  <2>2. Rest("refused") \in JobType
    BY RestTyped DEF Point
  <2>3. exec' \in [Jobs -> JobType]
    BY <1>0, <1>3, <2>1, <2>2 DEF Count
  <2>4. TaskOK'
    BY <1>0, <1>3 DEF Count, TaskOK
  <2> QED
    BY <1>1, <1>3, <2>3, <2>4 DEF Count
<1>4. CASE StartRun(p)
  <2>1. exec' \in [Jobs -> JobType]
    BY <1>0, <1>4, GoTyped DEF StartRun, Go, Point
  <2>2. TaskOK'
    BY <1>0, <1>4, TaskTyped DEF StartRun, TaskType
  <2> QED
    BY <1>1, <1>4, <2>1, <2>2 DEF StartRun
<1>5. CASE Finish(p)
  <2>1. exec' \in [Jobs -> JobType]
    BY <1>0, <1>5, RestTyped DEF Finish, Point
  <2>2. TaskOK'
    BY <1>0, <1>5, TaskTyped DEF Finish, TaskType
  <2> QED
    BY <1>1, <1>5, <2>1, <2>2 DEF Finish
<1>6. CASE FailRun(p)
  <2>1. exec' \in [Jobs -> JobType]
    BY <1>0, <1>6, RestTyped DEF FailRun, Point
  <2>2. TaskOK'
    BY <1>0, <1>6, TaskTyped DEF FailRun, TaskType
  <2> QED
    BY <1>1, <1>6, <2>1, <2>2 DEF FailRun
<1> QED
  BY <1>2, <1>3, <1>4, <1>5, <1>6

LEMMA WorkTyped ==
  ASSUME TypeOK, NEW e \in Jobs,
         BeginStep(e) \/ ReadStock(e) \/ ResolveAll(e) \/ WriteChunk(e) \/ Written(e) \/ Throw(e)
  PROVE  TypeOK'
<1>0. /\ exec \in [Jobs -> JobType] /\ TaskOK
      /\ open \in [Keys -> Nat] /\ short \in SUBSET Keys /\ moves \in 0..MaxMoves
  BY TypeParts
<1>1. ASSUME exec' \in [Jobs -> JobType], open' \in [Keys -> Nat],
             UNCHANGED <<short, task, stale, moves>>
      PROVE  TypeOK'
  BY <1>0, <1>1, TypeParts DEF TypeOK, TaskOK, JobType, Point, TaskType, Jobs
<1>2. CASE BeginStep(e)
  BY <1>0, <1>1, <1>2, GoTyped DEF BeginStep, Go, Point
<1>3. CASE ReadStock(e)
  <2>1. [exec[e] EXCEPT !.snap = short, !.pc = "resolve"] \in JobType
    BY <1>0 DEF JobType, Point
  <2> QED
    BY <1>0, <1>1, <1>3, <2>1 DEF ReadStock
<1>4. CASE ResolveAll(e)
  <2>1. [exec[e] EXCEPT !.pc = "write", !.todo = exec[e].snap, !.torn = FALSE] \in JobType
    BY <1>0 DEF JobType, Point
  <2>2. exec' \in [Jobs -> JobType]
    BY <1>0, <1>4, <2>1, TearsTyped DEF ResolveAll
  <2>3. open' \in [Keys -> Nat]
    BY <1>4 DEF ResolveAll
  <2> QED
    BY <1>1, <1>4, <2>2, <2>3 DEF ResolveAll
<1>5. CASE WriteChunk(e)
  <2>1. PICK K \in SUBSET exec[e].todo :
          /\ Inserted(K)
          /\ exec' = [f \in Jobs |-> IF f = e THEN [exec[e] EXCEPT !.todo = @ \ K]
                                     ELSE Tears(exec[f])]
    BY <1>5 DEF WriteChunk
  <2>2. [exec[e] EXCEPT !.todo = @ \ K] \in JobType
    BY <1>0 DEF JobType
  <2>3. exec' \in [Jobs -> JobType]
    BY <1>0, <2>1, <2>2, TearsTyped
  <2>4. open' \in [Keys -> Nat]
    BY <1>0, <2>1 DEF Inserted
  <2> QED
    BY <1>1, <1>5, <2>3, <2>4 DEF WriteChunk
<1>6. CASE Written(e)
  BY <1>0, <1>1, <1>6, RestTyped DEF Written, Point
<1>7. CASE Throw(e)
  BY <1>0, <1>1, <1>7, RestTyped DEF Throw, Point
<1> QED
  BY <1>2, <1>3, <1>4, <1>5, <1>6, <1>7

LEMMA SurroundingsTyped ==
  ASSUME TypeOK, \/ \E p \in Posts : Age(p)
                 \/ Reconcile
                 \/ \E k \in Keys : ResolveByHand(k) \/ StockChanges(k)
                 \/ Crash
  PROVE  TypeOK'
<1>0. /\ exec \in [Jobs -> JobType] /\ TaskOK
      /\ open \in [Keys -> Nat] /\ short \in SUBSET Keys /\ moves \in 0..MaxMoves
  BY TypeParts
<1>1. ASSUME exec' \in [Jobs -> JobType], TaskOK', open' \in [Keys -> Nat],
             short' \in SUBSET Keys, moves' \in 0..MaxMoves
      PROVE  TypeOK'
  BY <1>1 DEF TypeOK, TaskOK, JobType, Point, TaskType, Jobs
<1>2. ASSUME NEW p \in Posts, Age(p)
      PROVE  TypeOK'
  <2>1. [exec[p] EXCEPT !.aged = Working(p)] \in JobType
    <3>1. Working(p) \in BOOLEAN /\ exec[p] \in JobType
      BY <1>0 DEF Working, Jobs
    <3>2. \A b \in BOOLEAN : [exec[p] EXCEPT !.aged = b] \in JobType
      BY <3>1 DEF JobType
    <3> QED
      BY <3>1, <3>2
  <2>2. exec' \in [Jobs -> JobType]
    BY <1>0, <1>2, <2>1 DEF Age
  <2>3. TaskOK'
    BY <1>0, <1>2 DEF Age, TaskOK
  <2> QED
    BY <1>0, <1>1, <1>2, <2>2, <2>3 DEF Age
<1>3. CASE Reconcile
  <2>1. TaskOK'
    BY <1>0, <1>3, FailStaleTyped DEF Reconcile
  <2> QED
    BY <1>0, <1>1, <1>3, <2>1 DEF Reconcile
<1>4. ASSUME NEW k \in Keys, ResolveByHand(k)
      PROVE  TypeOK'
  <2>1. exec' \in [Jobs -> JobType]
    BY <1>0, <1>4, TearsTyped DEF ResolveByHand
  <2>2. open' \in [Keys -> Nat]
    BY <1>0, <1>4 DEF ResolveByHand
  <2>3. TaskOK' /\ moves' \in 0..MaxMoves
    BY <1>0, <1>4, MovesIsNat DEF ResolveByHand, TaskOK
  <2> QED
    BY <1>0, <1>1, <1>4, <2>1, <2>2, <2>3 DEF ResolveByHand
<1>5. ASSUME NEW k \in Keys, StockChanges(k)
      PROVE  TypeOK'
  <2>1. TaskOK' /\ moves' \in 0..MaxMoves /\ short' \in SUBSET Keys
    BY <1>0, <1>5, MovesIsNat DEF StockChanges, TaskOK
  <2> QED
    BY <1>0, <1>1, <1>5, <2>1 DEF StockChanges
<1>6. CASE Crash
  <2>1. exec' \in [Jobs -> JobType]
    BY <1>0, <1>6, RestTyped DEF Crash, Point
  <2>2. TaskOK' /\ moves' \in 0..MaxMoves
    BY <1>0, <1>6, MovesIsNat DEF Crash, TaskOK
  <2> QED
    BY <1>0, <1>1, <1>6, <2>1, <2>2 DEF Crash
<1> QED
  BY <1>2, <1>3, <1>4, <1>5, <1>6

LEMMA InitTyped == Init => TypeOK
  BY RestTyped, TypeParts, MovesIsNat DEF Init, TaskOK, TaskType, Point

LEMMA NextTyped == TypeOK /\ [Next]_vars => TypeOK'
<1> SUFFICES ASSUME TypeOK, [Next]_vars
             PROVE  TypeOK'
  OBVIOUS
<1>1. CASE UNCHANGED vars
  BY <1>1 DEF vars, TypeOK, Jobs
<1>2. ASSUME NEW e \in Jobs, Job(e)
      PROVE  TypeOK'
  BY <1>2, PostTyped, WorkTyped DEF Job
<1> QED
  BY <1>1, <1>2, SurroundingsTyped DEF Next

\* The alerts, the task records and the jobs have their types; what is stale is running.
THEOREM TypeCorrect == Spec => []TypeOK
  BY InitTyped, NextTyped, PTL DEF Spec

-----------------------------------------------------------------------------
(* Two posted runs at once *)

\* A row is inserted after the count and stays running while the run works on, unless
\* the run has been given up.
RowFollows(w, st, isStale) ==
  /\ w.pc \in {"none", "count", "refused", "start"} => st = "none"
  /\ w.pc \in {"read", "resolve", "write"} => (st = "running" /\ ~isStale) \/ w.aged

\* A run that another one knew of when it started is over or was given up.
KnownGivenUp(w) ==
  \A q \in w.known : task[q] # "none" /\ (Working(q) => exec[q].aged)

RunInv ==
  /\ TypeOK
  /\ \A p \in Posts : RowFollows(exec[p], task[p], p \in stale)
  /\ \A p \in Posts : KnownGivenUp(exec[p])

\* What a step has to do for RunInv: whoever works on has worked and was not given up
\* only now, and no row goes back to "none".
LEMMA RunFrame ==
  ASSUME RunInv, TypeOK',
         \A p \in Posts : RowFollows(exec'[p], task'[p], p \in stale'),
         \A p \in Posts : task[p] # "none" => task'[p] # "none",
         \A p \in Posts : exec'[p].known = exec[p].known \/ exec'[p].known = {},
         \A p \in Posts : (task[p] # "none" /\ Working(p)') =>
                            Working(p) /\ (exec[p].aged => exec'[p].aged)
  PROVE  RunInv'
<1>1. ASSUME NEW p \in Posts, NEW q \in exec'[p].known
      PROVE  task'[q] # "none" /\ (Working(q)' => exec'[q].aged)
  <2>1. q \in exec[p].known /\ q \in Posts
    BY <1>1 DEF RunInv, TypeOK, Jobs
  <2>2. task[q] # "none" /\ (Working(q) => exec[q].aged)
    BY <2>1 DEF RunInv, KnownGivenUp
  <2> QED
    BY <2>1, <2>2
<1> QED
  BY <1>1 DEF RunInv, KnownGivenUp

\* Steps that leave the task records and what is stale alone, and after which a post
\* that works has worked before and remembers as much.
LEMMA QuietFrame ==
  ASSUME RunInv, TypeOK', UNCHANGED <<task, stale>>,
         \A p \in Posts : exec'[p].known = exec[p].known \/ exec'[p].known = {},
         \A p \in Posts : \/ exec'[p].pc \in {"finish", "fail", "over"}
                          \/ Working(p) /\ Working(p)' /\ exec'[p].aged = exec[p].aged
                          \/ exec'[p].pc = exec[p].pc /\ exec'[p].aged = exec[p].aged
  PROVE  RunInv'
<1>1. \A p \in Posts : RowFollows(exec'[p], task'[p], p \in stale')
  BY DEF RunInv, RowFollows, Working
<1>2. \A p \in Posts : (task[p] # "none" /\ Working(p)') =>
                         Working(p) /\ (exec[p].aged => exec'[p].aged)
  BY DEF Working
<1> QED
  BY <1>1, <1>2, RunFrame

LEMMA WorkRuns ==
  ASSUME RunInv, NEW e \in Jobs,
         ReadStock(e) \/ ResolveAll(e) \/ WriteChunk(e) \/ Written(e) \/ Throw(e)
  PROVE  RunInv'
<1>0. exec \in [Jobs -> JobType] /\ TypeOK /\ TypeOK' /\ Posts \subseteq Jobs
  BY TypeParts, WorkTyped DEF RunInv, Jobs
<1>1. CASE ReadStock(e)
  <2> DEFINE w == [exec[e] EXCEPT !.snap = short, !.pc = "resolve"]
  <2>1. w.pc = "resolve" /\ w.known = exec[e].known /\ w.aged = exec[e].aged
    BY <1>0 DEF JobType
  <2>2. exec' = [exec EXCEPT ![e] = w] /\ exec[e].pc = "read" /\ UNCHANGED <<task, stale>>
    BY <1>1 DEF ReadStock, At
  <2> HIDE DEF w
  <2> QED
    BY <1>0, <2>1, <2>2, QuietFrame DEF Working
<1>2. CASE ResolveAll(e)
  <2> DEFINE w == [exec[e] EXCEPT !.pc = "write", !.todo = exec[e].snap, !.torn = FALSE]
  <2>1. w.pc = "write" /\ w.known = exec[e].known /\ w.aged = exec[e].aged
    BY <1>0 DEF JobType
  <2>2. /\ exec' = [f \in Jobs |-> IF f = e THEN w ELSE Tears(exec[f])]
        /\ exec[e].pc = "resolve" /\ UNCHANGED <<task, stale>>
    BY <1>2 DEF ResolveAll, At
  <2> HIDE DEF w
  <2>3. \A p \in Posts \ {e} : /\ exec'[p].pc = exec[p].pc /\ exec'[p].aged = exec[p].aged
                               /\ exec'[p].known = exec[p].known
    BY <1>0, <2>2, TearsTyped
  <2> QED
    BY <1>0, <2>1, <2>2, <2>3, QuietFrame DEF Working
<1>3. CASE WriteChunk(e)
  <2>1. PICK K \in SUBSET exec[e].todo :
          exec' = [f \in Jobs |-> IF f = e THEN [exec[e] EXCEPT !.todo = @ \ K]
                                  ELSE Tears(exec[f])]
    BY <1>3 DEF WriteChunk
  <2> DEFINE w == [exec[e] EXCEPT !.todo = @ \ K]
  <2>2. w.pc = exec[e].pc /\ w.known = exec[e].known /\ w.aged = exec[e].aged
    BY <1>0 DEF JobType
  <2>3. exec' = [f \in Jobs |-> IF f = e THEN w ELSE Tears(exec[f])]
    BY <2>1
  <2> HIDE DEF w
  <2>4. \A p \in Posts : /\ exec'[p].pc = exec[p].pc /\ exec'[p].aged = exec[p].aged
                         /\ exec'[p].known = exec[p].known
    BY <1>0, <2>2, <2>3, TearsTyped
  <2> QED
    BY <1>0, <1>3, <2>4, QuietFrame DEF WriteChunk
<1>4. CASE Written(e) \/ Throw(e)
  <2>1. PICK w \in {Rest(pc) : pc \in {"finish", "fail", "over"}} :
          exec' = [exec EXCEPT ![e] = w] /\ UNCHANGED <<task, stale>>
    BY <1>4 DEF Written, Throw
  <2>2. w.pc \in {"finish", "fail", "over"} /\ w.known = {}
    BY <2>1 DEF Rest
  <2> QED
    BY <1>0, <2>1, <2>2, QuietFrame
<1> QED
  BY <1>1, <1>2, <1>3, <1>4

LEMMA PostRuns ==
  ASSUME RunInv, NEW p \in Posts,
         Post(p) \/ Count(p) \/ StartRun(p) \/ Finish(p) \/ FailRun(p)
  PROVE  RunInv'
<1>0. /\ exec \in [Jobs -> JobType] /\ TaskOK /\ TypeOK /\ TypeOK' /\ Posts \subseteq Jobs
      /\ p \in Jobs
  BY TypeParts, PostTyped DEF RunInv, Jobs
<1>1. CASE Post(p)
  <2> DEFINE w == [exec[p] EXCEPT !.pc = "count", !.old = stale]
  <2>1. w.pc = "count" /\ w.known = exec[p].known /\ w.aged = exec[p].aged
    BY <1>0, PostedTyped DEF TaskOK
  <2>2. /\ exec' = [exec EXCEPT ![p] = w] /\ exec[p].pc = "none" /\ stale' = {}
        /\ task' = [q \in Posts |-> IF q \in stale THEN "failed" ELSE task[q]]
    BY <1>1 DEF Post, At, FailStale
  <2> HIDE DEF w
  <2>3. \A q \in Posts : RowFollows(exec'[q], task'[q], q \in stale')
    BY <1>0, <2>1, <2>2 DEF RunInv, RowFollows, TaskOK
  <2>4. \A q \in Posts : task[q] # "none" => task'[q] # "none"
    BY <2>2
  <2>5. \A q \in Posts : exec'[q].known = exec[q].known
    BY <1>0, <2>1, <2>2
  <2>6. \A q \in Posts : Working(q)' => Working(q) /\ (exec[q].aged => exec'[q].aged)
    BY <1>0, <2>1, <2>2 DEF Working
  <2> QED
    BY <1>0, <2>3, <2>4, <2>5, <2>6, RunFrame
<1>2. CASE Count(p)
  <2>0. UNCHANGED <<task, stale>> /\ exec[p].pc = "count" /\ task[p] = "none"
    BY <1>2 DEF Count, At, RunInv, RowFollows
  <2>1. CASE Running = {}
    <3> DEFINE K == {q \in Posts : task[q] # "none"}
               w == [Rest("start") EXCEPT !.known = K]
    <3>1. w.pc = "start" /\ w.known = K
      BY DEF Rest
    <3>2. exec' = [exec EXCEPT ![p] = w]
      BY <1>2, <2>1 DEF Count
    <3>3. \A q \in K : task[q] # "none" /\ task[q] # "running" /\ q \in Posts
      BY <2>1 DEF Running
    <3> HIDE DEF w, K
    <3>4. \A q \in Posts : RowFollows(exec'[q], task'[q], q \in stale')
      BY <1>0, <2>0, <3>1, <3>2 DEF RunInv, RowFollows
    <3>5. \A q \in Posts : Working(q)' => Working(q) /\ exec'[q].aged = exec[q].aged
      BY <1>0, <3>1, <3>2 DEF Working
    <3>6. \A q \in Posts : task[q] # "none" /\ task[q] # "running" /\ Working(q)
                             => exec[q].aged
      BY DEF RunInv, RowFollows, Working
    <3>7. ASSUME NEW q \in Posts
          PROVE  KnownGivenUp(exec[q])'
      <4>1. exec'[q].known \in {exec[q].known, K}
        BY <1>0, <3>1, <3>2
      <4>2. ASSUME NEW r \in exec'[q].known
            PROVE  r \in Posts /\ task[r] # "none" /\ (Working(r) => exec[r].aged)
        <5>1. CASE r \in exec[q].known
          <6>1. r \in Posts
            BY <1>0, <5>1 DEF JobType
          <6> QED
            BY <5>1, <6>1 DEF RunInv, KnownGivenUp
        <5>2. CASE r \in K
          BY <5>2, <3>3, <3>6
        <5> QED
          BY <4>1, <4>2, <5>1, <5>2
      <4> QED
        BY <2>0, <3>5, <4>2 DEF KnownGivenUp
    <3> QED
      BY <1>0, <3>4, <3>7 DEF RunInv
  <2>2. CASE Running # {}
    <3>1. exec' = [exec EXCEPT ![p] = Rest("refused")]
      BY <1>2, <2>2 DEF Count
    <3>2. Rest("refused").pc = "refused" /\ Rest("refused").known = {}
      BY DEF Rest
    <3>3. \A q \in Posts : RowFollows(exec'[q], task'[q], q \in stale')
      BY <1>0, <2>0, <3>1, <3>2 DEF RunInv, RowFollows
    <3>4. \A q \in Posts : exec'[q].known = exec[q].known \/ exec'[q].known = {}
      BY <1>0, <3>1, <3>2
    <3>5. \A q \in Posts : Working(q)' => Working(q) /\ (exec[q].aged => exec'[q].aged)
      BY <1>0, <3>1, <3>2 DEF Working
    <3> QED
      BY <1>0, <2>0, <3>3, <3>4, <3>5, RunFrame
  <2> QED
    BY <2>1, <2>2
<1>3. CASE StartRun(p)
  <2> DEFINE w == [exec[p] EXCEPT !.pc = "read"]
  <2>1. w.pc = "read" /\ w.known = exec[p].known /\ w.aged = exec[p].aged
    BY <1>0, GoTyped DEF Point
  <2>2. /\ exec' = [exec EXCEPT ![p] = w] /\ exec[p].pc = "start" /\ stale' = stale
        /\ task' = [task EXCEPT ![p] = "running"]
    BY <1>3 DEF StartRun, At, Go
  <2>3. task[p] = "none" /\ p \notin stale
    BY <1>0, <2>2 DEF RunInv, RowFollows, TaskOK
  <2> HIDE DEF w
  <2>4. \A q \in Posts : task'[q] = IF q = p THEN "running" ELSE task[q]
    BY <1>0, <2>2 DEF TaskOK
  <2>5. \A q \in Posts : exec'[q] = IF q = p THEN w ELSE exec[q]
    BY <1>0, <2>2
  <2>6. \A q \in Posts : RowFollows(exec'[q], task'[q], q \in stale')
    BY <2>1, <2>2, <2>3, <2>4, <2>5 DEF RunInv, RowFollows
  <2>7. \A q \in Posts : task[q] # "none" => task'[q] # "none"
    BY <2>4
  <2>8. \A q \in Posts : exec'[q].known = exec[q].known
    BY <2>1, <2>5
  <2>9. \A q \in Posts : (task[q] # "none" /\ Working(q)') =>
                           Working(q) /\ (exec[q].aged => exec'[q].aged)
    BY <2>3, <2>5 DEF Working
  <2> QED
    BY <1>0, <2>6, <2>7, <2>8, <2>9, RunFrame
<1>4. CASE Finish(p) \/ FailRun(p)
  <2>1. PICK st \in {"success", "failed"} :
          /\ task' = [task EXCEPT ![p] = st] /\ stale' = stale \ {p}
          /\ exec' = [exec EXCEPT ![p] = Rest("over")]
    BY <1>4 DEF Finish, FailRun
  <2>2. Rest("over").pc = "over" /\ Rest("over").known = {}
    BY DEF Rest
  <2>3. \A q \in Posts : task'[q] = IF q = p THEN st ELSE task[q]
    BY <1>0, <2>1 DEF TaskOK
  <2>4. \A q \in Posts : exec'[q] = IF q = p THEN Rest("over") ELSE exec[q]
    BY <1>0, <2>1
  <2>5. \A q \in Posts : RowFollows(exec'[q], task'[q], q \in stale')
    BY <2>1, <2>2, <2>3, <2>4 DEF RunInv, RowFollows
  <2>6. \A q \in Posts : task[q] # "none" => task'[q] # "none"
    BY <2>3
  <2>7. \A q \in Posts : exec'[q].known = exec[q].known \/ exec'[q].known = {}
    BY <2>2, <2>4
  <2>8. \A q \in Posts : Working(q)' => Working(q) /\ (exec[q].aged => exec'[q].aged)
    BY <2>2, <2>4 DEF Working
  <2> QED
    BY <1>0, <2>5, <2>6, <2>7, <2>8, RunFrame
<1> QED
  BY <1>1, <1>2, <1>3, <1>4

LEMMA SurroundingsRun ==
  ASSUME RunInv, \/ \E e \in Pipes : BeginStep(e)
                 \/ \E p \in Posts : Age(p)
                 \/ Reconcile
                 \/ \E k \in Keys : ResolveByHand(k) \/ StockChanges(k)
                 \/ Crash
  PROVE  RunInv'
<1>0. exec \in [Jobs -> JobType] /\ TaskOK /\ TypeOK /\ Posts \subseteq Jobs /\ Pipes \subseteq Jobs
  BY TypeParts DEF RunInv, Jobs
<1>1. ASSUME NEW e \in Pipes, BeginStep(e)
      PROVE  RunInv'
  <2>1. TypeOK'
    BY <1>0, <1>1, WorkTyped
  <2>2. \A p \in Posts : exec'[p] = exec[p]
    BY <1>0, <1>1, PostsApart DEF BeginStep, Go
  <2> QED
    BY <1>1, <2>1, <2>2, QuietFrame DEF BeginStep
<1>2. ASSUME NEW p \in Posts, Age(p)
      PROVE  RunInv'
  <2>1. TypeOK'
    BY <1>0, <1>2, SurroundingsTyped
  <2> DEFINE w == [exec[p] EXCEPT !.aged = Working(p)]
  <2>2. w.pc = exec[p].pc /\ w.known = exec[p].known /\ w.aged = Working(p)
    BY <1>0 DEF JobType
  <2>3. /\ exec' = [exec EXCEPT ![p] = w] /\ stale' = stale \cup {p} /\ task' = task
        /\ task[p] = "running"
    BY <1>2 DEF Age
  <2> HIDE DEF w
  <2>4. \A q \in Posts : exec'[q] = IF q = p THEN w ELSE exec[q]
    BY <1>0, <2>3
  <2>5. RowFollows(w, task[p], TRUE)
    BY <2>2, <2>3 DEF RunInv, RowFollows, Working
  <2>6. \A q \in Posts : RowFollows(exec'[q], task'[q], q \in stale')
    BY <2>3, <2>4, <2>5 DEF RunInv, RowFollows
  <2>7. \A q \in Posts : exec'[q].known = exec[q].known
    BY <2>2, <2>4
  <2>8. \A q \in Posts : Working(q)' => Working(q) /\ (exec[q].aged => exec'[q].aged)
    BY <2>2, <2>4 DEF Working
  <2> QED
    BY <2>1, <2>3, <2>6, <2>7, <2>8, RunFrame
<1>3. CASE Reconcile
  <2>1. TypeOK'
    BY <1>0, <1>3, SurroundingsTyped
  <2>2. \A q \in Posts : task'[q] = IF q \in stale THEN "failed" ELSE task[q]
    BY <1>3 DEF Reconcile, FailStale
  <2>3. exec' = exec /\ stale' = {}
    BY <1>3 DEF Reconcile, FailStale
  <2>4. \A q \in Posts : RowFollows(exec'[q], task'[q], q \in stale')
    BY <1>0, <2>2, <2>3 DEF RunInv, RowFollows, TaskOK
  <2> QED
    BY <2>1, <2>2, <2>3, <2>4, RunFrame DEF Working
<1>4. ASSUME NEW k \in Keys, ResolveByHand(k)
      PROVE  RunInv'
  <2>1. TypeOK'
    BY <1>0, <1>4, SurroundingsTyped
  <2>2. \A p \in Posts : /\ exec'[p].pc = exec[p].pc /\ exec'[p].aged = exec[p].aged
                         /\ exec'[p].known = exec[p].known
    BY <1>0, <1>4, TearsTyped DEF ResolveByHand
  <2> QED
    BY <1>4, <2>1, <2>2, QuietFrame DEF ResolveByHand
<1>5. ASSUME NEW k \in Keys, StockChanges(k)
      PROVE  RunInv'
  <2>1. TypeOK'
    BY <1>0, <1>5, SurroundingsTyped
  <2> QED
    BY <1>5, <2>1, QuietFrame DEF StockChanges
<1>6. CASE Crash
  <2>1. TypeOK'
    BY <1>0, <1>6, SurroundingsTyped
  <2>2. Rest("over").pc = "over" /\ Rest("over").known = {}
    BY DEF Rest
  <2>3. \A p \in Posts : exec'[p] = exec[p] \/ exec'[p] = Rest("over")
    BY <1>0, <1>6 DEF Crash
  <2> QED
    BY <1>6, <2>1, <2>2, <2>3, QuietFrame DEF Crash
<1> QED
  BY <1>1, <1>2, <1>3, <1>4, <1>5, <1>6

LEMMA RunInit == Init => RunInv
<1> SUFFICES ASSUME Init
             PROVE  RunInv
  OBVIOUS
<1>1. Rest("none").pc = "none" /\ Rest("none").known = {}
  BY DEF Rest
<1>2. \A p \in Posts : exec[p] = Rest("none") /\ task[p] = "none"
  BY DEF Init, Jobs
<1> QED
  BY <1>1, <1>2, InitTyped DEF RunInv, RowFollows, KnownGivenUp

LEMMA RunNext == RunInv /\ [Next]_vars => RunInv'
<1> SUFFICES ASSUME RunInv, [Next]_vars
             PROVE  RunInv'
  OBVIOUS
<1>1. CASE UNCHANGED vars
  <2>1. TypeOK'
    BY NextTyped DEF RunInv
  <2> QED
    BY <1>1, <2>1, QuietFrame DEF vars
<1>2. ASSUME NEW e \in Jobs, Job(e)
      PROVE  RunInv'
  BY <1>2, PostRuns, WorkRuns, SurroundingsRun DEF Job
<1> QED
  BY <1>1, <1>2, SurroundingsRun DEF Next

\* Two posted runs meet only by the race of the count, or after the first was given up.
THEOREM RunsMeet == Spec => []RunsMeetOnlyByRace
<1>1. RunInv => RunsMeetOnlyByRace
  BY DEF RunInv, KnownGivenUp, RunsMeetOnlyByRace
<1> QED
  BY <1>1, RunInit, RunNext, PTL DEF Spec

-----------------------------------------------------------------------------
(* The replacement of the alerts *)

\* What a run nobody interfered with has inserted so far is all that is open.
Exact(w, now) ==
  (w.pc = "write" /\ ~w.torn) =>
    /\ w.todo \subseteq w.snap
    /\ now = [k \in Keys |-> IF k \in w.snap \ w.todo THEN 1 ELSE 0]

ExactInv == TypeOK /\ \A e \in Jobs : Exact(exec[e], open)

\* Whoever is told that the alerts were written claims nothing any more.
LEMMA TornExact ==
  ASSUME NEW w \in JobType
  PROVE  \A now : Exact(Tears(w), now)
  BY TearsTyped DEF Exact

\* A step that leaves the alerts alone and enters no replacement.
LEMMA ExactFrame ==
  ASSUME ExactInv, TypeOK', open' = open,
         \A e \in Jobs : exec'[e].pc # "write" \/ (/\ exec[e].pc = "write"
                                                   /\ exec'[e].torn = exec[e].torn
                                                   /\ exec'[e].todo = exec[e].todo
                                                   /\ exec'[e].snap = exec[e].snap)
  PROVE  ExactInv'
  BY DEF ExactInv, Exact

LEMMA ExactNext == ExactInv /\ [Next]_vars => ExactInv'
<1> SUFFICES ASSUME ExactInv, [Next]_vars
             PROVE  ExactInv'
  OBVIOUS
<1>0. /\ exec \in [Jobs -> JobType] /\ TypeOK /\ TypeOK' /\ open \in [Keys -> Nat]
      /\ Posts \subseteq Jobs
  BY NextTyped, TypeParts DEF ExactInv, Jobs
<1>r. \A pc : Rest(pc).pc = pc /\ [Rest(pc) EXCEPT !.known = {q \in Posts : task[q] # "none"}].pc = pc
  BY DEF Rest
<1>1. ASSUME NEW e \in Jobs, ResolveAll(e)
      PROVE  ExactInv'
  <2> DEFINE w == [exec[e] EXCEPT !.pc = "write", !.todo = exec[e].snap, !.torn = FALSE]
  <2>1. w.todo = w.snap
    BY <1>0 DEF JobType
  <2>2. /\ open' = [k \in Keys |-> 0]
        /\ exec' = [f \in Jobs |-> IF f = e THEN w ELSE Tears(exec[f])]
    BY <1>1 DEF ResolveAll
  <2> HIDE DEF w
  <2>3. Exact(w, open')
    BY <2>1, <2>2 DEF Exact
  <2>4. \A f \in Jobs : Exact(Tears(exec[f]), open')
    BY <1>0, TornExact
  <2>5. \A f \in Jobs : Exact(exec'[f], open')
    BY <2>2, <2>3, <2>4
  <2> QED
    BY <1>0, <2>5 DEF ExactInv
<1>2. ASSUME NEW e \in Jobs, WriteChunk(e)
      PROVE  ExactInv'
  <2>1. PICK K \in SUBSET exec[e].todo :
          /\ Inserted(K)
          /\ exec' = [f \in Jobs |-> IF f = e THEN [exec[e] EXCEPT !.todo = @ \ K]
                                     ELSE Tears(exec[f])]
    BY <1>2 DEF WriteChunk
  <2> DEFINE w == [exec[e] EXCEPT !.todo = @ \ K]
  <2>2. /\ w.pc = exec[e].pc /\ w.torn = exec[e].torn /\ w.snap = exec[e].snap
        /\ w.todo = exec[e].todo \ K
    BY <1>0 DEF JobType
  <2>3. /\ open' = [k \in Keys |-> IF k \in K THEN open[k] + 1 ELSE open[k]]
        /\ exec' = [f \in Jobs |-> IF f = e THEN w ELSE Tears(exec[f])]
    BY <2>1 DEF Inserted
  <2> HIDE DEF w
  <2>4. Exact(w, open')
    <3> SUFFICES ASSUME w.pc = "write", ~w.torn
                 PROVE  /\ w.todo \subseteq w.snap
                        /\ open' = [k \in Keys |-> IF k \in w.snap \ w.todo THEN 1 ELSE 0]
      BY DEF Exact
    <3>1. /\ exec[e].todo \subseteq exec[e].snap
          /\ open = [k \in Keys |-> IF k \in exec[e].snap \ exec[e].todo THEN 1 ELSE 0]
      BY <2>2 DEF ExactInv, Exact
    <3>2. \A k \in Keys : (IF k \in K THEN open[k] + 1 ELSE open[k])
                            = IF k \in w.snap \ w.todo THEN 1 ELSE 0
      BY <2>2, <3>1
    <3> QED
      BY <2>2, <2>3, <3>1, <3>2
  <2>5. \A f \in Jobs : Exact(Tears(exec[f]), open')
    BY <1>0, TornExact
  <2>6. \A f \in Jobs : Exact(exec'[f], open')
    BY <2>3, <2>4, <2>5
  <2> QED
    BY <1>0, <2>6 DEF ExactInv
<1>3. ASSUME NEW k \in Keys, ResolveByHand(k)
      PROVE  ExactInv'
  <2>1. \A f \in Jobs : Exact(Tears(exec[f]), open')
    BY <1>0, TornExact
  <2>2. exec' = [f \in Jobs |-> Tears(exec[f])]
    BY <1>3 DEF ResolveByHand
  <2>3. \A f \in Jobs : Exact(exec'[f], open')
    BY <2>1, <2>2
  <2> QED
    BY <1>0, <2>3 DEF ExactInv
<1>4. ASSUME NEW e \in Jobs, BeginStep(e) \/ ReadStock(e)
      PROVE  ExactInv'
  <2>1. PICK w : exec' = [exec EXCEPT ![e] = w] /\ w.pc # "write" /\ open' = open
    <3>1. CASE BeginStep(e)
      BY <1>0, <3>1, GoTyped DEF BeginStep, Go, Point
    <3>2. CASE ReadStock(e)
      <4>1. [exec[e] EXCEPT !.snap = short, !.pc = "resolve"].pc = "resolve"
        BY <1>0 DEF JobType
      <4> QED
        BY <3>2, <4>1 DEF ReadStock
    <3> QED
      BY <1>4, <3>1, <3>2
  <2> QED
    BY <1>0, <2>1, ExactFrame
<1>5. ASSUME NEW e \in Jobs, Written(e) \/ Throw(e)
      PROVE  ExactInv'
  <2>1. PICK w \in {Rest(pc) : pc \in {"finish", "fail", "over"}} :
          exec' = [exec EXCEPT ![e] = w] /\ open' = open
    BY <1>5 DEF Written, Throw
  <2>2. w.pc # "write"
    BY <1>r, <2>1
  <2> QED
    BY <1>0, <2>1, <2>2, ExactFrame
<1>6. ASSUME NEW p \in Posts,
             Post(p) \/ Count(p) \/ StartRun(p) \/ Finish(p) \/ FailRun(p)
      PROVE  ExactInv'
  <2>1. PICK w : exec' = [exec EXCEPT ![p] = w] /\ w.pc # "write" /\ open' = open
    <3>1. CASE Post(p)
      <4> DEFINE w == [exec[p] EXCEPT !.pc = "count", !.old = stale]
      <4>1. w.pc # "write"
        BY <1>0, PostedTyped DEF TypeOK
      <4>2. exec' = [exec EXCEPT ![p] = w] /\ open' = open
        BY <3>1 DEF Post
      <4> HIDE DEF w
      <4> QED
        BY <4>1, <4>2
    <3>4. CASE StartRun(p)
      BY <1>0, <3>4, GoTyped DEF StartRun, Go, Point
    <3>2. CASE Count(p)
      <4> DEFINE w == [Rest("start") EXCEPT !.known = {q \in Posts : task[q] # "none"}]
                 v == IF Running = {} THEN w ELSE Rest("refused")
      <4>1. v.pc # "write"
        BY <1>r
      <4>2. exec' = [exec EXCEPT ![p] = v] /\ open' = open
        BY <3>2 DEF Count
      <4> HIDE DEF v
      <4> QED
        BY <4>1, <4>2
    <3>3. CASE Finish(p) \/ FailRun(p)
      BY <1>r, <3>3 DEF Finish, FailRun
    <3> QED
      BY <1>6, <3>1, <3>2, <3>3, <3>4
  <2> QED
    BY <1>0, <2>1, ExactFrame
<1>7. ASSUME NEW p \in Posts, Age(p)
      PROVE  ExactInv'
  <2> DEFINE w == [exec[p] EXCEPT !.aged = Working(p)]
  <2>1. w.pc = exec[p].pc /\ w.torn = exec[p].torn /\ w.snap = exec[p].snap
        /\ w.todo = exec[p].todo
    BY <1>0 DEF JobType
  <2>2. exec' = [exec EXCEPT ![p] = w] /\ open' = open
    BY <1>7 DEF Age
  <2> HIDE DEF w
  <2> QED
    BY <1>0, <2>1, <2>2, ExactFrame
<1>8. CASE Crash
  <2>1. \A e \in Jobs : exec'[e] = exec[e] \/ exec'[e] = Rest("over")
    BY <1>8 DEF Crash
  <2> QED
    BY <1>0, <1>8, <1>r, <2>1, ExactFrame DEF Crash
<1>9. CASE UNCHANGED <<open, exec>>
  BY <1>0, <1>9, ExactFrame
<1> QED
  BY <1>1, <1>2, <1>3, <1>4, <1>5, <1>6, <1>7, <1>8, <1>9
  DEF Next, Job, Reconcile, StockChanges, vars

LEMMA ExactInit == Init => ExactInv
<1> SUFFICES ASSUME Init
             PROVE  ExactInv
  OBVIOUS
<1>1. \A e \in Jobs : exec[e].pc # "write"
  BY DEF Init, Rest
<1> QED
  BY <1>1, InitTyped DEF ExactInv, Exact

\* A replacement nobody interfered with leaves exactly its snapshot open.
THEOREM ReplaceHolds == Spec => ReplaceIsExact
<1>1. ExactInv /\ [Next]_vars =>
        [\A e \in Jobs : (At(e, "write") /\ Written(e) /\ ~exec[e].torn) =>
           open = [k \in Keys |-> IF k \in exec[e].snap THEN 1 ELSE 0]]_vars
  BY DEF ExactInv, Exact, At, Written
<1> QED
  BY <1>1, ExactInit, ExactNext, PTL DEF Spec, ReplaceIsExact

-----------------------------------------------------------------------------
(* Rows left running *)

Closed(st) == st \notin {"none", "running"}

\* What was stale when a post came is closed before that post counts.
OldInv ==
  /\ RunInv
  /\ \A p \in Posts : At(p, "count") => \A q \in exec[p].old : Closed(task[q])

\* Steps after which a post that counts has counted before, and that open no closed row.
LEMMA OldFrame ==
  ASSUME OldInv, RunInv',
         \A p \in Posts : exec'[p].pc = "count" =>
                            exec[p].pc = "count" /\ exec'[p].old = exec[p].old,
         \A q \in Posts : Closed(task[q]) => Closed(task'[q])
  PROVE  OldInv'
<1>1. ASSUME NEW p \in Posts, exec'[p].pc = "count", NEW q \in exec'[p].old
      PROVE  Closed(task'[q])
  <2>1. exec[p].pc = "count" /\ q \in exec[p].old
    BY <1>1
  <2>2. q \in Posts
    BY <2>1 DEF OldInv, RunInv, TypeOK, Jobs
  <2> QED
    BY <2>1, <2>2 DEF OldInv, At
<1> QED
  BY <1>1 DEF OldInv, At

LEMMA PostOld ==
  ASSUME OldInv, NEW p \in Posts,
         Post(p) \/ Count(p) \/ StartRun(p) \/ Finish(p) \/ FailRun(p)
  PROVE  OldInv'
<1>0. /\ exec \in [Jobs -> JobType] /\ TaskOK /\ RunInv /\ RunInv' /\ Posts \subseteq Jobs
      /\ p \in Jobs
  BY TypeParts, PostRuns DEF OldInv, RunInv, Jobs
<1>1. CASE Post(p)
  <2> DEFINE w == [exec[p] EXCEPT !.pc = "count", !.old = stale]
  <2>1. w.old = stale
    BY <1>0, PostedTyped DEF TaskOK
  <2>2. exec' = [exec EXCEPT ![p] = w]
    BY <1>1 DEF Post
  <2>3. \A q \in Posts : task'[q] = IF q \in stale THEN "failed" ELSE task[q]
    BY <1>1 DEF Post, FailStale
  <2> HIDE DEF w
  <2>4. \A q \in Posts : (q \in stale \/ Closed(task[q])) => Closed(task'[q])
    BY <2>3 DEF Closed
  <2>5. ASSUME NEW r \in Posts, exec'[r].pc = "count", NEW q \in exec'[r].old
        PROVE  Closed(task'[q])
    <3>1. CASE r = p
      <4>1. q \in stale
        BY <1>0, <2>1, <2>2, <2>5, <3>1
      <4> QED
        BY <1>0, <2>4, <4>1 DEF TaskOK
    <3>2. CASE r # p
      <4>1. exec'[r] = exec[r]
        BY <1>0, <2>2, <3>2
      <4>2. q \in Posts
        BY <1>0, <2>5, <4>1 DEF JobType
      <4> QED
        BY <2>4, <2>5, <4>1, <4>2 DEF OldInv, At
    <3> QED
      BY <3>1, <3>2
  <2> QED
    BY <1>0, <2>5 DEF OldInv, At
<1>2. CASE Count(p)
  <2> DEFINE w == IF Running = {}
                  THEN [Rest("start") EXCEPT !.known = {q \in Posts : task[q] # "none"}]
                  ELSE Rest("refused")
  <2>1. w.pc # "count"
    BY DEF Rest
  <2>2. exec' = [exec EXCEPT ![p] = w] /\ task' = task
    BY <1>2 DEF Count
  <2> HIDE DEF w
  <2> QED
    BY <1>0, <2>1, <2>2, OldFrame
<1>3. CASE StartRun(p)
  <2>1. exec' = [exec EXCEPT ![p] = [exec[p] EXCEPT !.pc = "read"]] /\ exec[p].pc = "start"
        /\ task' = [task EXCEPT ![p] = "running"]
    BY <1>3 DEF StartRun, At, Go
  <2>2. ~Closed(task[p])
    BY <2>1 DEF OldInv, RunInv, RowFollows, Closed
  <2>3. \A q \in Posts : Closed(task[q]) => Closed(task'[q])
    BY <1>0, <2>1, <2>2 DEF TaskOK
  <2>4. [exec[p] EXCEPT !.pc = "read"].pc = "read"
    BY <1>0, GoTyped DEF Point
  <2> QED
    BY <1>0, <2>1, <2>3, <2>4, OldFrame
<1>4. CASE Finish(p) \/ FailRun(p)
  <2>1. PICK st \in {"success", "failed"} :
          task' = [task EXCEPT ![p] = st] /\ exec' = [exec EXCEPT ![p] = Rest("over")]
    BY <1>4 DEF Finish, FailRun
  <2>2. Rest("over").pc = "over"
    BY DEF Rest
  <2>3. \A q \in Posts : Closed(task[q]) => Closed(task'[q])
    BY <1>0, <2>1 DEF TaskOK, Closed
  <2> QED
    BY <1>0, <2>1, <2>2, <2>3, OldFrame
<1> QED
  BY <1>1, <1>2, <1>3, <1>4

\* The job and the surroundings leave the posts that count alone, and close rows at most.
LEMMA OtherOld ==
  ASSUME OldInv, RunInv',
         \/ \E e \in Jobs : ReadStock(e) \/ ResolveAll(e) \/ WriteChunk(e) \/ Written(e) \/ Throw(e)
         \/ \E e \in Pipes : BeginStep(e)
         \/ \E p \in Posts : Age(p)
         \/ Reconcile
         \/ \E k \in Keys : ResolveByHand(k) \/ StockChanges(k)
         \/ Crash
         \/ UNCHANGED vars
  PROVE  OldInv'
<1>0. /\ exec \in [Jobs -> JobType] /\ TaskOK /\ Posts \subseteq Jobs /\ Pipes \subseteq Jobs
  BY TypeParts DEF OldInv, RunInv, Jobs
<1>r. \A pc : Rest(pc).pc = pc
  BY DEF Rest
<1>1. \A q \in Posts : Closed(task[q]) => Closed(task'[q])
  BY DEF Closed, ReadStock, ResolveAll, WriteChunk, Written, Throw, BeginStep, Age, Reconcile,
         FailStale, ResolveByHand, StockChanges, Crash, vars
<1>2. ASSUME NEW e \in Jobs, ReadStock(e)
      PROVE  OldInv'
  <2>1. [exec[e] EXCEPT !.snap = short, !.pc = "resolve"].pc = "resolve"
    BY <1>0 DEF JobType
  <2> QED
    BY <1>0, <1>1, <1>2, <2>1, OldFrame DEF ReadStock
<1>3. ASSUME NEW e \in Jobs, ResolveAll(e)
      PROVE  OldInv'
  <2> DEFINE w == [exec[e] EXCEPT !.pc = "write", !.todo = exec[e].snap, !.torn = FALSE]
  <2>1. w.pc = "write"
    BY <1>0 DEF JobType
  <2>2. exec' = [f \in Jobs |-> IF f = e THEN w ELSE Tears(exec[f])]
    BY <1>3 DEF ResolveAll
  <2> HIDE DEF w
  <2>3. \A p \in Posts : /\ exec'[p].pc = "count" => exec'[p] = Tears(exec[p])
                         /\ Tears(exec[p]).pc = exec[p].pc /\ Tears(exec[p]).old = exec[p].old
    BY <1>0, <2>1, <2>2, TearsTyped
  <2> QED
    BY <1>1, <2>3, OldFrame
<1>4. ASSUME NEW e \in Jobs, WriteChunk(e)
      PROVE  OldInv'
  <2>1. PICK K \in SUBSET exec[e].todo :
          exec' = [f \in Jobs |-> IF f = e THEN [exec[e] EXCEPT !.todo = @ \ K]
                                  ELSE Tears(exec[f])]
    BY <1>4 DEF WriteChunk
  <2> DEFINE w == [exec[e] EXCEPT !.todo = @ \ K]
  <2>2. w.pc = "write"
    BY <1>0, <1>4 DEF JobType, WriteChunk, At
  <2>3. exec' = [f \in Jobs |-> IF f = e THEN w ELSE Tears(exec[f])]
    BY <2>1
  <2> HIDE DEF w
  <2>4. \A p \in Posts : /\ exec'[p].pc = "count" => exec'[p] = Tears(exec[p])
                         /\ Tears(exec[p]).pc = exec[p].pc /\ Tears(exec[p]).old = exec[p].old
    BY <1>0, <2>2, <2>3, TearsTyped
  <2> QED
    BY <1>1, <2>4, OldFrame
<1>5. ASSUME NEW e \in Jobs, Written(e) \/ Throw(e)
      PROVE  OldInv'
  <2>1. PICK pc \in {"finish", "fail", "over"} : exec' = [exec EXCEPT ![e] = Rest(pc)]
    BY <1>5 DEF Written, Throw
  <2> QED
    BY <1>0, <1>1, <1>r, <2>1, OldFrame
<1>6. ASSUME NEW e \in Pipes, BeginStep(e)
      PROVE  OldInv'
  <2>1. \A p \in Posts : exec'[p] = exec[p]
    BY <1>0, <1>6, PostsApart DEF BeginStep, Go
  <2> QED
    BY <1>1, <2>1, OldFrame
<1>7. ASSUME NEW p \in Posts, Age(p)
      PROVE  OldInv'
  <2> DEFINE w == [exec[p] EXCEPT !.aged = Working(p)]
  <2>1. w.pc = exec[p].pc /\ w.old = exec[p].old
    BY <1>0 DEF JobType
  <2>2. exec' = [exec EXCEPT ![p] = w]
    BY <1>7 DEF Age
  <2> HIDE DEF w
  <2> QED
    BY <1>0, <1>1, <2>1, <2>2, OldFrame
<1>8. ASSUME NEW k \in Keys, ResolveByHand(k)
      PROVE  OldInv'
  <2>1. \A p \in Posts : exec'[p].pc = exec[p].pc /\ exec'[p].old = exec[p].old
    BY <1>0, <1>8, TearsTyped DEF ResolveByHand
  <2> QED
    BY <1>1, <2>1, OldFrame
<1>9. CASE Crash
  <2>1. \A p \in Posts : exec'[p] = exec[p] \/ exec'[p] = Rest("over")
    BY <1>0, <1>9 DEF Crash
  <2> QED
    BY <1>1, <1>r, <2>1, OldFrame
<1>10. CASE exec' = exec
  BY <1>1, <1>10, OldFrame
<1> QED
  BY <1>2, <1>3, <1>4, <1>5, <1>6, <1>7, <1>8, <1>9, <1>10 DEF Reconcile, StockChanges, vars

LEMMA OldInit == Init => OldInv
<1> SUFFICES ASSUME Init
             PROVE  OldInv
  OBVIOUS
<1>1. \A p \in Posts : exec[p].pc = "none"
  BY DEF Init, Rest, Jobs
<1> QED
  BY <1>1, RunInit DEF OldInv, At

LEMMA OldNext == OldInv /\ [Next]_vars => OldInv'
<1> SUFFICES ASSUME OldInv, [Next]_vars
             PROVE  OldInv'
  OBVIOUS
<1>0. RunInv'
  BY RunNext DEF OldInv
<1>1. ASSUME NEW e \in Jobs, Job(e)
      PROVE  OldInv'
  BY <1>0, <1>1, PostOld, OtherOld DEF Job
<1> QED
  BY <1>0, <1>1, OtherOld DEF Next

\* A row left running refuses no post that comes after it was stale.
THEOREM StaleRefusesNone == Spec => StaleNeverRefuses
<1>1. ASSUME OldInv, NEW p \in Posts, Count(p), exec'[p].pc = "refused"
      PROVE  \E q \in Running : q \notin exec[p].old
  <2>1. p \in Jobs /\ exec \in [Jobs -> JobType]
    BY <1>1, TypeParts DEF OldInv, RunInv, Jobs
  <2> DEFINE w == [Rest("start") EXCEPT !.known = {q \in Posts : task[q] # "none"}]
  <2>2. w.pc = "start"
    BY DEF Rest
  <2>3. exec' = [exec EXCEPT ![p] = IF Running = {} THEN w ELSE Rest("refused")]
    BY <1>1 DEF Count
  <2> HIDE DEF w
  <2>4. Running # {}
    BY <1>1, <2>1, <2>2, <2>3
  <2>5. PICK q \in Running : TRUE
    BY <2>4
  <2>6. ~Closed(task[q])
    BY <2>5 DEF Running, Closed
  <2>7. At(p, "count")
    BY <1>1 DEF Count
  <2> QED
    BY <1>1, <2>5, <2>6, <2>7 DEF OldInv
<1>2. OldInv /\ [Next]_vars =>
        [\A p \in Posts : (Count(p) /\ exec'[p].pc = "refused") =>
           \E q \in Running : q \notin exec[p].old]_vars
  BY <1>1
<1> QED
  BY <1>2, OldInit, OldNext, PTL DEF Spec, StaleNeverRefuses
=============================================================================
