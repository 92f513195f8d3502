---- MODULE FeishuPullProofs ----
(***************************************************************************)
(* Proofs about FeishuPull for any number of pulls, changes and restarts.   *)
(***************************************************************************)
EXTENDS FeishuPull, FiniteSetTheorems, TLAPS

----
(* Types *)

LEMMA InitTyped == Init => TypeOK
<1> SUFFICES ASSUME Init PROVE TypeOK
  OBVIOUS
<1>1. 0 \in 0..MaxVersion /\ 0 \in 0..MaxCrashes
  BY BoundsAssumption
<1>2. got \in [Pulls -> 0..MaxVersion] /\ pc \in [Pulls -> Point]
  BY <1>1 DEF Init, Point
<1> QED
  BY <1>1, <1>2 DEF Init, TypeOK

LEMMA HandleTyped ==
    ASSUME TypeOK, NEW p \in Pulls, Handle(p)
    PROVE  TypeOK'
<1> USE DEF TypeOK, Goto, data, tables
<1>1. CASE AssertNoneRunning(p)
  BY <1>1 DEF AssertNoneRunning, Point
<1>2. CASE ManualStart(p)
  BY <1>2 DEF ManualStart, StartRun, GoWork, Point
<1>3. CASE CronStart(p)
  BY <1>3 DEF CronStart, StartRun, Point
<1>4. CASE CronCount(p)
  BY <1>4 DEF CronCount, GoWork, Point
<1>5. CASE Fetch(p)
  BY <1>5 DEF Fetch, Point
<1>6. CASE DeleteBegin(p)
  BY <1>6 DEF DeleteBegin, Point
<1>7. CASE DeleteRows(p)
  BY <1>7 DEF DeleteRows, Point
<1>8. CASE WriteMeta(p)
  BY <1>8 DEF WriteMeta, Point
<1>9. CASE Commit(p)
  BY <1>9 DEF Commit, Point
<1>10. CASE Throws(p)
  BY <1>10 DEF Throws, Caught, Point
<1>11. CASE Succeed(p)
  BY <1>11 DEF Succeed, FinishRun, Point
<1>12. CASE Fail(p)
  BY <1>12 DEF Fail, FinishRun, Point
<1> QED
  BY <1>1, <1>2, <1>3, <1>4, <1>5, <1>6, <1>7, <1>8, <1>9, <1>10, <1>11, <1>12 DEF Handle

LEMMA TypeStep == TypeOK /\ [Next]_vars => TypeOK'
<1> SUFFICES ASSUME TypeOK, [Next]_vars PROVE TypeOK'
  OBVIOUS
<1>1. CASE UNCHANGED vars
  BY <1>1 DEF vars, handler, data, tables, TypeOK
<1>2. ASSUME NEW p \in Pulls, Request(p) PROVE TypeOK'
  BY <1>2 DEF Request, Goto, data, tables, TypeOK, Point
<1>3. ASSUME NEW p \in Pulls, Age(p) PROVE TypeOK'
  BY <1>3 DEF Age, handler, data, tables, TypeOK
<1>4. CASE Edit
  BY <1>4, BoundsAssumption DEF Edit, handler, data, tables, TypeOK
<1>5. CASE Reap
  BY <1>5 DEF Reap, handler, data, TypeOK
<1>6. CASE Crash
  BY <1>6, BoundsAssumption DEF Crash, tables, TypeOK, Point
<1> QED
  BY <1>1, <1>2, <1>3, <1>4, <1>5, <1>6, HandleTyped DEF Next

\* Every variable keeps its type; statuses are those of task_runs.
THEOREM TypeCorrect == Spec => []TypeOK
BY InitTyped, TypeStep, PTL DEF Spec

----
(* Who works on the list *)

\* A handler past its insert has its run marked running, unless it was given up.
Marked ==
    \A p \in Pulls : pc[p] = "count" \/ Working(p) \/ pc[p] \in {"succeed", "fail"} =>
        run[p] = "running" \/ p \in reaped

\* A pull that has not inserted its row, or has finished it, has none running.
Unmarked == \A p \in Pulls : pc[p] \in {"idle", "assert", "start", "over"} => run[p] # "running"

\* Without overlap one pull works on the list.
Alone == ~overlapped => \A p, q \in Pulls : Working(p) /\ Working(q) => p = q

\* So nobody takes rows away between its DELETE and its commit, and what it
\* has read is not older than what the list shows.
Undisturbed ==
    ~overlapped => \A p \in Pulls :
        /\ pc[p] = "lock" => seen[p] = list
        /\ pc[p] \in {"meta", "commit"} => dead[p] = list
        /\ pc[p] \in {"delete", "lock", "meta", "commit"} /\ meta # Nobody =>
             got[meta] <= got[p]

\* No pull has read the future.
Past == \A p \in Pulls : got[p] <= feishu

IInv == TypeOK /\ Marked /\ Unmarked /\ CronPullsExclude /\ Alone /\ Undisturbed /\ Past
              /\ ListMatchesMeta

\* A pull that counts one running run, its own, finds no other.
LEMMA CountsOne ==
    ASSUME TypeOK, NEW p \in Pulls, NEW q \in Pulls, run[p] = "running", run[q] = "running",
           ~(Cardinality(Running) > 1)
    PROVE  p = q
<1>1. IsFiniteSet(Pulls)
  BY PullsAssumption, FS_Union DEF Pulls
<1>2. Running \in SUBSET Pulls /\ IsFiniteSet(Running) /\ Cardinality(Running) \in Nat
  BY <1>1, FS_Subset, FS_CardinalityType DEF Running
<1>3. p \in Running /\ q \in Running
  BY DEF Running
<1>4. Cardinality(Running \ {p}) = Cardinality(Running) - 1 /\ IsFiniteSet(Running \ {p})
  BY <1>2, <1>3, FS_RemoveElement
<1>5. Cardinality(Running \ {p}) \in Nat
  BY <1>4, FS_CardinalityType
<1>6. Cardinality(Running \ {p}) = 0
  BY <1>2, <1>4, <1>5
<1>7. Running \ {p} = {}
  BY <1>4, <1>6, FS_EmptySet
<1> QED
  BY <1>3, <1>7

----
(* The steps *)

\* A step of one handler changes nobody else's place and takes no run away.
LEMMA Own ==
    ASSUME TypeOK, NEW p \in Pulls, Handle(p) \/ Request(p)
    PROVE  /\ \A q \in Pulls : q # p => /\ pc'[q] = pc[q] /\ run'[q] = run[q]
                                        /\ got'[q] = got[q] /\ seen'[q] = seen[q]
                                        /\ dead'[q] = dead[q]
           /\ UNCHANGED <<feishu, crashes, reaped>>
<1> USE DEF TypeOK, Goto, data, tables
<1>1. CASE Request(p)
  BY <1>1 DEF Request
<1>2. CASE AssertNoneRunning(p)
  BY <1>2 DEF AssertNoneRunning
<1>3. CASE ManualStart(p) \/ CronStart(p)
  BY <1>3 DEF ManualStart, CronStart, StartRun, GoWork
<1>4. CASE CronCount(p)
  BY <1>4 DEF CronCount, GoWork
<1>5. CASE Fetch(p) \/ DeleteBegin(p) \/ DeleteRows(p) \/ WriteMeta(p)
  BY <1>5 DEF Fetch, DeleteBegin, DeleteRows, WriteMeta
<1>6. CASE Commit(p) \/ Throws(p)
  BY <1>6 DEF Commit, Throws
<1>7. CASE Succeed(p) \/ Fail(p)
  BY <1>7 DEF Succeed, Fail, FinishRun
<1> QED
  BY <1>1, <1>2, <1>3, <1>4, <1>5, <1>6, <1>7 DEF Handle

\* Where an error leads.
LEMMA Thrown ==
    ASSUME TypeOK, NEW p \in Pulls, Throws(p)
    PROVE  /\ run' = run
           /\ pc'[p] \in {"over", "gone", "fail"}
           /\ pc'[p] = "over" => pc[p] \in {"assert", "start"}
           /\ pc'[p] = "fail" => pc[p] = "count" \/ Working(p) \/ pc[p] = "succeed"
<1>1. pc'[p] = Caught(pc[p]) /\ pc[p] \notin {"idle", "over", "gone"} /\ pc[p] \in Point
  BY DEF Throws, Goto, TypeOK
<1>2. CASE pc[p] \in {"assert", "start"}
  BY <1>1, <1>2 DEF Throws, Caught, tables
<1>3. CASE pc[p] = "fail"
  BY <1>1, <1>3 DEF Throws, Caught, tables
<1>4. CASE pc[p] = "count" \/ Working(p) \/ pc[p] = "succeed"
  BY <1>1, <1>4 DEF Throws, Caught, tables, Working
<1> QED
  BY <1>1, <1>2, <1>3, <1>4 DEF Point, Working

\* The runs of the handlers.
LEMMA RunsStep ==
    ASSUME TypeOK, Marked, Unmarked, [Next]_vars
    PROVE  Marked' /\ Unmarked'
<1>1. ASSUME NEW p \in Pulls, Handle(p) \/ Request(p) PROVE Marked' /\ Unmarked'
  <2>1. /\ pc'[p] = "count" \/ Working(p)' \/ pc'[p] \in {"succeed", "fail"} =>
             run'[p] = "running" \/ p \in reaped
        /\ pc'[p] \in {"idle", "assert", "start", "over"} => run'[p] # "running"
    <3> USE DEF TypeOK, Goto, data, tables, Working, Marked, Unmarked
    <3>1. CASE Request(p)
      BY <3>1 DEF Request
    <3>2. CASE AssertNoneRunning(p)
      BY <3>2 DEF AssertNoneRunning
    <3>3. CASE ManualStart(p) \/ CronStart(p)
      BY <3>3 DEF ManualStart, CronStart, StartRun, GoWork
    <3>4. CASE CronCount(p)
      BY <3>4 DEF CronCount, GoWork
    <3>5. CASE Fetch(p) \/ DeleteBegin(p) \/ DeleteRows(p) \/ WriteMeta(p)
      BY <3>5 DEF Fetch, DeleteBegin, DeleteRows, WriteMeta
    <3>6. CASE Commit(p)
      BY <3>6 DEF Commit
    <3>8. CASE Throws(p)
      BY <3>8, Thrown
    <3>7. CASE Succeed(p) \/ Fail(p)
      BY <3>7 DEF Succeed, Fail, FinishRun
    <3> QED
      BY <1>1, <3>1, <3>2, <3>3, <3>4, <3>5, <3>6, <3>7, <3>8 DEF Handle
  <2> QED
    BY <1>1, <2>1, Own DEF Marked, Unmarked, Working
<1>2. CASE UNCHANGED <<pc, run, reaped>>
  BY <1>2 DEF Marked, Unmarked, Working
<1>3. CASE Reap
  BY <1>3 DEF Reap, handler, Marked, Unmarked, Working, TypeOK
<1>4. CASE Crash
  BY <1>4 DEF Crash, tables, Marked, Unmarked, Working, TypeOK
<1>5. ASSUME NEW p \in Pulls, Age(p) PROVE Marked' /\ Unmarked'
  BY <1>2, <1>5 DEF Age, handler, tables
<1>6. CASE Edit
  BY <1>2, <1>6 DEF Edit, handler, tables
<1>7. CASE UNCHANGED vars
  BY <1>2, <1>7 DEF vars, handler, tables
<1> QED
  BY <1>1, <1>3, <1>4, <1>5, <1>6, <1>7 DEF Next

\* A pull enters its work from its insert (manual) or its count (cron).
LEMMA Entering ==
    ASSUME TypeOK, NEW p \in Pulls, Handle(p) \/ Request(p), Working(p)', ~Working(p)
    PROVE  /\ overlapped' = (overlapped \/ \E q \in Pulls : q # p /\ Working(q))
           /\ pc'[p] = "fetch"
           /\ p \in Manual \/ (pc[p] = "count" /\ ~(Cardinality(Running) > 1))
<1> USE DEF TypeOK, Goto, Working
<1>1. CASE Request(p) \/ AssertNoneRunning(p) \/ CronStart(p)
  BY <1>1 DEF Request, AssertNoneRunning, CronStart
<1>2. CASE ManualStart(p)
  BY <1>2 DEF ManualStart, GoWork
<1>3. CASE CronCount(p)
  BY <1>3 DEF CronCount, GoWork
<1>4. CASE Fetch(p) \/ DeleteBegin(p) \/ DeleteRows(p) \/ WriteMeta(p)
  BY <1>4 DEF Fetch, DeleteBegin, DeleteRows, WriteMeta
<1>5. CASE Commit(p) \/ Throws(p)
  BY <1>5 DEF Commit, Throws, Caught
<1>6. CASE Succeed(p) \/ Fail(p)
  BY <1>6 DEF Succeed, Fail
<1> QED
  BY <1>1, <1>2, <1>3, <1>4, <1>5, <1>6 DEF Handle

\* Overlaps are not forgotten.
LEMMA OverlapStays == ASSUME [Next]_vars PROVE overlapped => overlapped'
BY DEF Next, Request, Handle, AssertNoneRunning, ManualStart, CronStart, CronCount, GoWork,
       Fetch, DeleteBegin, DeleteRows, WriteMeta, Commit, Throws, Succeed, Fail, Age, Edit,
       Reap, Crash, vars

\* The steps of the surroundings send nobody to work and change neither what
\* has been read nor the list.
LEMMA Around ==
    ASSUME TypeOK, Edit \/ Reap \/ Crash \/ UNCHANGED vars \/ \E p \in Pulls : Age(p)
    PROVE  /\ UNCHANGED <<got, list, meta, overlapped>>
           /\ reaped \subseteq reaped'
           /\ feishu <= feishu'
           /\ \A p \in Pulls : Working(p)' => pc'[p] = pc[p] /\ seen'[p] = seen[p] /\ dead'[p] = dead[p]
<1>1. feishu \in Nat
  BY BoundsAssumption DEF TypeOK
<1>2. CASE UNCHANGED vars
  BY <1>1, <1>2 DEF vars, handler, data, tables, Working
<1>3. CASE Edit
  BY <1>1, <1>3 DEF Edit, handler, data, tables
<1>4. CASE Reap
  BY <1>1, <1>4 DEF Reap, handler, data
<1>5. CASE Crash
  BY <1>1, <1>5 DEF Crash, tables, Working, TypeOK
<1>6. ASSUME NEW p \in Pulls, Age(p)
      PROVE  UNCHANGED <<handler, tables, feishu, overlapped, reaped>>
  BY <1>6 DEF Age
<1> QED
  BY <1>1, <1>2, <1>3, <1>4, <1>5, <1>6 DEF handler, data, tables

LEMMA CronStep ==
    ASSUME TypeOK, Marked, CronPullsExclude, [Next]_vars
    PROVE  CronPullsExclude'
<1> SUFFICES ASSUME NEW p \in Cron, NEW q \in Cron, Working(p)', Working(q)',
                    {p, q} \cap reaped' = {}, p # q
             PROVE  FALSE
  BY DEF CronPullsExclude
<1>0. p \in Pulls /\ q \in Pulls /\ p \notin Manual /\ q \notin Manual
  BY PullsAssumption DEF Pulls
<1>1. ASSUME NEW x \in Pulls, Handle(x) \/ Request(x) PROVE FALSE
  <2>1. ASSUME NEW a \in Cron, NEW b \in Cron, a = x, a # b, Working(a)', Working(b)',
               {a, b} \cap reaped = {}
        PROVE  FALSE
    <3>0. a \in Pulls /\ b \in Pulls /\ a \notin Manual
      BY PullsAssumption DEF Pulls
    <3>1. Working(b)
      BY <1>1, <2>1, <3>0, Own DEF Working
    <3>2. ~Working(a)
      BY <2>1, <3>1 DEF CronPullsExclude
    <3>3. pc[a] = "count" /\ ~(Cardinality(Running) > 1)
      BY <1>1, <2>1, <3>0, <3>2, Entering
    <3>4. run[a] = "running" /\ run[b] = "running"
      BY <2>1, <3>0, <3>1, <3>3 DEF Marked
    <3> QED
      BY <2>1, <3>0, <3>3, <3>4, CountsOne
  <2>2. UNCHANGED reaped
    BY <1>1, Own
  <2>3. x = p \/ x = q
    <3>1. CASE x # p /\ x # q
      BY <1>0, <1>1, <2>2, <3>1, Own DEF CronPullsExclude, Working
    <3> QED
      BY <3>1
  <2> QED
    BY <2>1, <2>2, <2>3
<1>2. CASE Edit \/ Reap \/ Crash \/ UNCHANGED vars \/ \E x \in Pulls : Age(x)
  <2>1. Working(p) /\ Working(q) /\ {p, q} \cap reaped = {}
    BY <1>0, <1>2, Around DEF Working
  <2> QED
    BY <2>1 DEF CronPullsExclude
<1> QED
  BY <1>1, <1>2 DEF Next

LEMMA AloneStep ==
    ASSUME TypeOK, Alone, [Next]_vars
    PROVE  Alone'
<1> SUFFICES ASSUME ~overlapped', NEW p \in Pulls, NEW q \in Pulls, Working(p)', Working(q)', p # q
             PROVE  FALSE
  BY DEF Alone
<1>0. ~overlapped
  BY OverlapStays
<1>1. ASSUME NEW x \in Pulls, Handle(x) \/ Request(x) PROVE FALSE
  <2>1. ASSUME NEW b \in Pulls, x # b, Working(x)', Working(b)' PROVE FALSE
    <3>1. Working(b)
      BY <1>1, <2>1, Own DEF Working
    <3>2. ~Working(x)
      BY <1>0, <2>1, <3>1 DEF Alone
    <3> QED
      BY <1>1, <2>1, <3>1, <3>2, Entering
  <2>2. CASE x # p /\ x # q
    BY <1>0, <1>1, <2>2, Own DEF Alone, Working
  <2> QED
    BY <2>1, <2>2
<1>2. CASE Edit \/ Reap \/ Crash \/ UNCHANGED vars \/ \E x \in Pulls : Age(x)
  BY <1>0, <1>2, Around DEF Alone, Working
<1> QED
  BY <1>1, <1>2 DEF Next

LEMMA PastStep ==
    ASSUME TypeOK, Past, [Next]_vars
    PROVE  Past' /\ \A p \in Pulls : got[p] <= got'[p]
<1>0. got \in [Pulls -> Nat] /\ feishu \in Nat
  BY BoundsAssumption DEF TypeOK
<1>1. ASSUME NEW x \in Pulls, Handle(x) \/ Request(x)
      PROVE  Past' /\ \A p \in Pulls : got[p] <= got'[p]
  <2>1. got'[x] = got[x] \/ got'[x] = feishu
    BY <1>0, <1>1 DEF Handle, Request, AssertNoneRunning, ManualStart, CronStart, CronCount, Fetch,
       DeleteBegin, DeleteRows, WriteMeta, Commit, Throws, Succeed, Fail, data
  <2> QED
    BY <1>0, <1>1, <2>1, Own DEF Past
<1>2. CASE Edit \/ Reap \/ Crash \/ UNCHANGED vars \/ \E x \in Pulls : Age(x)
  <2>1. UNCHANGED got /\ feishu <= feishu' /\ feishu' \in Nat
    BY <1>2, Around, TypeStep, BoundsAssumption DEF TypeOK
  <2> QED
    BY <1>0, <2>1 DEF Past
<1> QED
  BY <1>1, <1>2 DEF Next

\* Only a commit changes the list, and a lone one leaves its own rows only.
LEMMA ListStep ==
    ASSUME TypeOK, Alone, Undisturbed, ListMatchesMeta, [Next]_vars
    PROVE  /\ ListMatchesMeta'
           /\ \/ UNCHANGED <<list, meta>>
              \/ \E p \in Pulls : Commit(p)
<1>1. ASSUME NEW p \in Pulls, Commit(p) PROVE ListMatchesMeta'
  <2>1. p # Nobody /\ meta' = p /\ list' = (list \ dead[p]) \cup {p}
    BY <1>1, PullsAssumption DEF Commit
  <2>2. ~overlapped' => dead[p] = list
    BY <1>1 DEF Commit, Undisturbed
  <2> QED
    BY <2>1, <2>2 DEF ListMatchesMeta
<1>2. CASE UNCHANGED <<list, meta>>
  BY <1>2, OverlapStays DEF ListMatchesMeta
<1>3. ASSUME NEW p \in Pulls, Handle(p) \/ Request(p) PROVE Commit(p) \/ UNCHANGED <<list, meta>>
  BY <1>3 DEF Handle, Request, AssertNoneRunning, ManualStart, CronStart, CronCount, Fetch,
     DeleteBegin, DeleteRows, WriteMeta, Throws, Succeed, Fail, tables
<1>4. CASE Edit \/ Reap \/ Crash \/ UNCHANGED vars \/ \E x \in Pulls : Age(x)
  BY <1>2, <1>4, Around
<1> QED
  BY <1>1, <1>2, <1>3, <1>4 DEF Next

LEMMA UndisturbedStep ==
    ASSUME TypeOK, Alone, Undisturbed, Past, ListMatchesMeta, [Next]_vars
    PROVE  Undisturbed'
<1> SUFFICES ASSUME ~overlapped', NEW p \in Pulls, Working(p)'
             PROVE  /\ pc'[p] = "lock" => seen'[p] = list'
                    /\ pc'[p] \in {"meta", "commit"} => dead'[p] = list'
                    /\ pc'[p] \in {"delete", "lock", "meta", "commit"} /\ meta' # Nobody =>
                         got'[meta'] <= got'[p]
  BY DEF Undisturbed, Working
<1>0. ~overlapped /\ got \in [Pulls -> Nat] /\ feishu \in Nat /\ meta \in Pulls \cup {Nobody}
  BY OverlapStays, BoundsAssumption DEF TypeOK
<1>1. CASE Handle(p) \/ Request(p)
  <2> USE DEF TypeOK, Goto, data, tables, Working
  <2>1. CASE Fetch(p)
    <3>1. got' = [got EXCEPT ![p] = feishu] /\ pc'[p] = "delete" /\ meta' = meta
      BY <2>1 DEF Fetch
    <3> QED
      BY <1>0, <3>1 DEF Past
  <2>2. CASE DeleteBegin(p)
    BY <1>0, <2>2 DEF DeleteBegin, Undisturbed
  <2>3. CASE DeleteRows(p)
    BY <1>0, <2>3 DEF DeleteRows, Undisturbed
  <2>4. CASE WriteMeta(p)
    BY <1>0, <2>4 DEF WriteMeta, Undisturbed
  <2>5. CASE \/ Request(p) \/ AssertNoneRunning(p) \/ ManualStart(p) \/ CronStart(p) \/ CronCount(p)
    BY <2>5 DEF Request, AssertNoneRunning, ManualStart, CronStart, CronCount, GoWork
  <2>6. CASE \/ Commit(p) \/ Throws(p) \/ Succeed(p) \/ Fail(p)
    BY <2>6 DEF Commit, Throws, Caught, Succeed, Fail
  <2> QED
    BY <1>1, <2>1, <2>2, <2>3, <2>4, <2>5, <2>6 DEF Handle
<1>2. ASSUME NEW x \in Pulls, x # p, Handle(x) \/ Request(x) PROVE Undisturbed'
  <2>1. Working(p)
    BY <1>2, Own DEF Working
  <2>2. ~Working(x) /\ ~Working(x)'
    BY <1>0, <1>2, <2>1, AloneStep DEF Alone
  <2>3. UNCHANGED <<list, meta, got>>
    BY <1>2, <2>2 DEF Working, Handle, Request, AssertNoneRunning, ManualStart, CronStart, CronCount,
       Fetch, DeleteBegin, DeleteRows, WriteMeta, Commit, Throws, Caught, Succeed, Fail, tables, data
  <2>4. \A q \in Pulls : Working(q)' => q # x
    BY <2>2
  <2> QED
    BY <1>0, <1>2, <2>3, <2>4, Own DEF Undisturbed, Working
<1>3. CASE Edit \/ Reap \/ Crash \/ UNCHANGED vars \/ \E x \in Pulls : Age(x)
  BY <1>0, <1>3, Around DEF Undisturbed, Working
<1> QED
  BY <1>1, <1>2, <1>3 DEF Next, Undisturbed

----
(* Theorems *)

LEMMA InvInit == Init => IInv
<1> SUFFICES ASSUME Init PROVE IInv
  OBVIOUS
<1>1. \A p \in Pulls : pc[p] = "idle" /\ run[p] = "none" /\ got[p] = 0
  BY DEF Init
<1>2. Marked /\ Unmarked /\ Alone /\ Undisturbed
  BY <1>1 DEF Marked, Unmarked, Alone, Undisturbed, Working
<1>3. CronPullsExclude
  BY <1>1 DEF CronPullsExclude, Working, Pulls
<1>4. ListMatchesMeta /\ Past
  BY <1>1 DEF ListMatchesMeta, Past, Init
<1> QED
  BY <1>2, <1>3, <1>4, InitTyped DEF IInv

LEMMA InvStep == IInv /\ [Next]_vars => IInv'
BY TypeStep, RunsStep, CronStep, AloneStep, PastStep, ListStep, UndisturbedStep DEF IInv

\* The inductive invariant: which runs are marked, who is alone with the list.
THEOREM Inductive == Spec => []IInv
BY InvInit, InvStep, PTL DEF Spec

\* Two cron pulls of a list do not work on it together (the count after the
\* insert in procurement-feishu-sync-lock.ts), for any number of pulls.
THEOREM PullsExclude == Spec => []CronPullsExclude
<1>1. IInv => CronPullsExclude
  BY DEF IInv
<1> QED
  BY <1>1, Inductive, PTL

\* The rows of the last pull that committed are in the list, alone if pulls did
\* not overlap (the transaction of replaceProcurementListData).
THEOREM ListMatches == Spec => []ListMatchesMeta
<1>1. IInv => ListMatchesMeta
  BY DEF IInv
<1> QED
  BY <1>1, Inductive, PTL

\* A running row of task_runs has a handler, or its process died or recording
\* its failure threw (the catch blocks of runProcurementFeishuPullTask and of the
\* manual route).
THEOREM RunsHandled == Spec => []RunningIsHandled
<1>1. IInv => RunningIsHandled
  BY DEF IInv, Unmarked, RunningIsHandled, Running
<1> QED
  BY <1>1, Inductive, PTL

\* Without overlap the list shows newer and newer states of the Feishu table.
THEOREM ForwardOnly == Spec => NeverBack
<1>1. IInv /\ [Next]_vars => [~overlapped' /\ meta # Nobody => got[meta] <= got'[meta']]_vars
  <2> SUFFICES ASSUME IInv, [Next]_vars, ~overlapped', meta # Nobody
               PROVE  got[meta] <= got'[meta']
    OBVIOUS
  <2>0. meta \in Pulls /\ got \in [Pulls -> Nat] /\ ~overlapped
    BY OverlapStays, BoundsAssumption DEF IInv, TypeOK
  <2>1. \A p \in Pulls : got[p] <= got'[p]
    BY PastStep DEF IInv
  <2>2. CASE UNCHANGED meta
    BY <2>0, <2>1, <2>2
  <2>3. ASSUME NEW p \in Pulls, Commit(p) PROVE got[meta] <= got'[meta']
    <3>1. meta' = p /\ got' = got /\ pc[p] = "commit"
      BY <2>3 DEF Commit
    <3> QED
      BY <2>0, <3>1 DEF IInv, Undisturbed
  <2> QED
    BY <2>2, <2>3, ListStep DEF IInv
<1> QED
  BY <1>1, Inductive, PTL DEF Spec, NeverBack

----
(***************************************************************************)
(* The pulls implement TableMirror.                                         *)
(***************************************************************************)

\* A pull whose rows are in the list has read the table for the last time.
Landed == \A p \in list : pc[p] \in {"succeed", "fail", "over", "gone"}

\* Where a pull that is past its commit, or at it, goes next.
LEMMA Landing ==
    ASSUME TypeOK, NEW p \in Pulls, Handle(p) \/ Request(p),
           pc[p] \in {"succeed", "fail", "over", "gone"} \/ Commit(p)
    PROVE  pc'[p] \in {"succeed", "fail", "over", "gone"} /\ got' = got
<1> USE DEF TypeOK, Goto, data
<1>1. CASE \/ Request(p) \/ AssertNoneRunning(p) \/ ManualStart(p) \/ CronStart(p) \/ CronCount(p)
  BY <1>1 DEF Request, AssertNoneRunning, ManualStart, CronStart, CronCount, Commit
<1>2. CASE \/ Fetch(p) \/ DeleteBegin(p) \/ DeleteRows(p) \/ WriteMeta(p)
  BY <1>2 DEF Fetch, DeleteBegin, DeleteRows, WriteMeta, Commit
<1>3. CASE Commit(p)
  BY <1>3 DEF Commit
<1>4. CASE Throws(p) /\ ~Commit(p)
  BY <1>4, Thrown DEF Throws
<1>5. CASE Succeed(p) \/ Fail(p)
  BY <1>5 DEF Succeed, Fail
<1> QED
  BY <1>1, <1>2, <1>3, <1>4, <1>5 DEF Handle

LEMMA LandedStep ==
    ASSUME TypeOK, Alone, Undisturbed, ListMatchesMeta, Landed, [Next]_vars
    PROVE  /\ Landed'
           /\ \A p \in list : got'[p] = got[p]
<1>0. list \subseteq Pulls
  BY DEF TypeOK
<1>1. ASSUME NEW x \in Pulls, Handle(x) \/ Request(x)
      PROVE  Landed' /\ \A p \in list : got'[p] = got[p]
  <2>1. ASSUME NEW p \in list
        PROVE  pc'[p] \in {"succeed", "fail", "over", "gone"} /\ got'[p] = got[p]
    <3>1. CASE p = x
      BY <1>1, <3>1, Landing DEF Landed
    <3>2. CASE p # x
      BY <1>0, <1>1, <3>2, Own DEF Landed
    <3> QED
      BY <3>1, <3>2
  <2>2. list' \subseteq list \cup {x} /\ (x \in list' \ list => Commit(x))
    BY <1>1 DEF Handle, Request, AssertNoneRunning, ManualStart, CronStart, CronCount, Fetch,
       DeleteBegin, DeleteRows, WriteMeta, Commit, Throws, Succeed, Fail, tables
  <2> QED
    BY <1>1, <2>1, <2>2, Landing DEF Landed
<1>2. CASE Edit \/ Reap \/ Crash \/ UNCHANGED vars \/ \E x \in Pulls : Age(x)
  <2>1. UNCHANGED <<list, got>>
    BY <1>2, Around
  <2>2. ASSUME NEW p \in list PROVE pc'[p] = pc[p] \/ pc'[p] = "gone"
    BY <1>0, <1>2, <2>2 DEF Edit, Reap, Crash, Age, vars, handler
  <2> QED
    BY <2>1, <2>2 DEF Landed
<1> QED
  BY <1>1, <1>2 DEF Next

MirrorInv == IInv /\ Landed

\* What the readers see stays when the list does.
LEMMA SameShown ==
    ASSUME UNCHANGED list, \A p \in list : got'[p] = got[p]
    PROVE  {got[p] : p \in list}' = {got[p] : p \in list}
OBVIOUS

\* A commit puts the version its pull has read in place of the others, or beside
\* what is left of them if pulls have overlapped.
LEMMA CommitShows ==
    ASSUME IInv, NEW p \in Pulls, Commit(p)
    PROVE  Mirror!Next
<1> DEFINE Shown == {got[q] : q \in list}
<1>0. /\ got \in [Pulls -> Nat] /\ feishu \in Nat /\ list \subseteq Pulls
      /\ meta \in Pulls \cup {Nobody} /\ p # Nobody
  BY BoundsAssumption, PullsAssumption DEF IInv, TypeOK
<1>1. /\ list' = (list \ dead[p]) \cup {p}
      /\ UNCHANGED <<got, feishu, overlapped>> /\ pc[p] = "commit"
  BY DEF Commit
<1>2. Shown' = {got[q] : q \in list'}
  BY <1>1
<1>3. PICK v \in 0..feishu : v = got[p]
  BY <1>0 DEF IInv, Past
<1>4. CASE ~overlapped
  <2>1. dead[p] = list
    BY <1>1, <1>4 DEF IInv, Undisturbed
  <2>2. Shown' = {got[p]}
    BY <1>1, <1>2, <2>1
  <2>3. ASSUME NEW u \in Shown PROVE u <= got[p]
    <3>1. PICK q \in list : u = got[q]
      OBVIOUS
    <3>2. q = meta /\ q # Nobody
      BY <1>0, <1>4, <3>1, PullsAssumption DEF IInv, ListMatchesMeta
    <3> QED
      BY <1>1, <1>4, <3>1, <3>2 DEF IInv, Undisturbed
  <2>4. Mirror!Replace(v)
    BY <1>1, <1>3, <1>4, <2>2, <2>3 DEF Mirror!Replace
  <2> QED
    BY <1>3, <2>4 DEF Mirror!Next
<1>5. CASE overlapped
  <2>1. PICK left \in SUBSET Shown : left = {got[q] : q \in list \ dead[p]}
    OBVIOUS
  <2>2. Shown' = left \cup {v}
    BY <1>1, <1>2, <1>3, <2>1
  <2>3. Mirror!Blend(v, left)
    BY <1>1, <1>5, <2>2 DEF Mirror!Blend
  <2> QED
    BY <1>3, <2>1, <2>3 DEF Mirror!Next
<1> QED
  BY <1>4, <1>5

\* A step that is no commit changes the table, or whether pulls have overlapped, or
\* nothing that the readers see.
LEMMA OthersShow ==
    ASSUME MirrorInv, [Next]_vars, UNCHANGED <<list, meta>>
    PROVE  [Mirror!Next]_(Mirror!vars)
<1>0. overlapped \in BOOLEAN /\ overlapped' \in BOOLEAN
  BY TypeStep DEF MirrorInv, IInv, TypeOK
<1>1. {got[p] : p \in list}' = {got[p] : p \in list}
  BY LandedStep, SameShown DEF MirrorInv, IInv
<1>2. CASE UNCHANGED <<feishu, overlapped>>
  BY <1>1, <1>2 DEF Mirror!vars
<1>3. CASE Edit
  BY <1>1, <1>3 DEF Edit, Mirror!Edit, Mirror!Next
<1>4. ASSUME NEW p \in Pulls, Handle(p) \/ Request(p), overlapped' # overlapped
      PROVE  [Mirror!Next]_(Mirror!vars)
  <2>1. UNCHANGED feishu
    BY <1>4, Own DEF MirrorInv, IInv
  <2>2. overlapped' = TRUE
    BY <1>0, <1>4, OverlapStays
  <2> QED
    BY <1>1, <2>1, <2>2 DEF Mirror!Mix, Mirror!Next
<1>5. ASSUME NEW p \in Pulls, Handle(p) \/ Request(p) PROVE UNCHANGED feishu
  BY <1>5, Own DEF MirrorInv, IInv
<1>6. CASE Reap \/ Crash \/ UNCHANGED vars \/ \E p \in Pulls : Age(p)
  BY <1>2, <1>6 DEF Reap, Crash, Age, vars
<1> QED
  BY <1>2, <1>3, <1>4, <1>5, <1>6 DEF Next

\* Every behaviour of the pulls, errors and restarts included, is one of the mirror
\* of the Feishu table that the readers of the list are promised
\* (replaceProcurementListData, read by the pages of the list).
THEOREM MirrorImplemented == Spec => ImplementsMirror
<1>1. Init => Mirror!Init
  BY DEF Init, Mirror!Init
<1>2. Init => MirrorInv
  BY InvInit DEF MirrorInv, Landed, Init
<1>3. MirrorInv /\ [Next]_vars => MirrorInv'
  BY InvStep, LandedStep DEF MirrorInv, IInv
<1>4. MirrorInv /\ [Next]_vars => [Mirror!Next]_(Mirror!vars)
  <2> SUFFICES ASSUME MirrorInv, [Next]_vars PROVE [Mirror!Next]_(Mirror!vars)
    OBVIOUS
  <2>1. CASE UNCHANGED <<list, meta>>
    BY <2>1, OthersShow
  <2>2. ASSUME NEW p \in Pulls, Commit(p) PROVE Mirror!Next
    BY <2>2, CommitShows DEF MirrorInv
  <2> QED
    BY <2>1, <2>2, ListStep DEF MirrorInv, IInv
<1> QED
  BY <1>1, <1>2, <1>3, <1>4, PTL DEF Spec, ImplementsMirror, Mirror!Spec

====
