---- MODULE RuleParamSetsProofs ----
(***************************************************************************)
(* Proofs about RuleParamSets for any number of sets, scopes and requests.  *)
(***************************************************************************)
EXTENDS RuleParamSets, TLAPS

\* The initial local state is well typed.
LEMMA IdleTyped == Idle \in Request /\ Idle.pc = "idle"
BY DEF Idle, Request, Point

\* The types of the fields of a local state.
LEMMA RequestFields ==
    ASSUME NEW q \in Request
    PROVE  /\ q.set \in Sets \cup {None} /\ q.scope \in Scopes \cup {None}
           /\ q.params \in Params \cup {None} /\ q.version \in Nat
           /\ q.stamp \in Nat /\ q.seen \in Nat /\ q.scan \subseteq Sets
BY DEF Request

\* The local states handlers move to are well typed and keep their row.
LEMMA RequestMoves ==
    ASSUME NEW q \in Request, NEW v \in Nat, NEW S \in SUBSET Sets
    PROVE  /\ [q EXCEPT !.pc = "locked"] \in Request
           /\ [q EXCEPT !.pc = "locked"].set = q.set
           /\ [q EXCEPT !.pc = "insert", !.version = v] \in Request
           /\ [q EXCEPT !.pc = "insert", !.version = v].set = q.set
           /\ [q EXCEPT !.pc = "archive", !.scan = S] \in Request
           /\ [q EXCEPT !.pc = "archive", !.scan = S].set = q.set
           /\ [q EXCEPT !.pc = "activate", !.scan = S] \in Request
           /\ [q EXCEPT !.pc = "activate", !.scan = S].set = q.set
<1>1. [q EXCEPT !.pc = "locked"] \in Request /\ [q EXCEPT !.pc = "locked"].set = q.set
  BY DEF Request, Point
<1>2. /\ [q EXCEPT !.pc = "insert", !.version = v] \in Request
      /\ [q EXCEPT !.pc = "insert", !.version = v].set = q.set
  BY DEF Request, Point
<1>3. /\ [q EXCEPT !.pc = "archive", !.scan = S] \in Request
      /\ [q EXCEPT !.pc = "archive", !.scan = S].set = q.set
  BY DEF Request, Point
<1>4. /\ [q EXCEPT !.pc = "activate", !.scan = S] \in Request
      /\ [q EXCEPT !.pc = "activate", !.scan = S].set = q.set
  BY DEF Request, Point
<1> QED
  BY <1>1, <1>2, <1>3, <1>4

\* The rows handlers write are well typed.
LEMMA RowFields ==
    ASSUME NEW x \in Row, NEW t \in Nat
    PROVE  /\ x.scope \in Scopes \cup {None} /\ x.params \in Params \cup {None}
           /\ x.version \in Nat /\ x.updatedAt \in Nat
           /\ [x EXCEPT !.simulated = TRUE] \in Row
           /\ [x EXCEPT !.status = "active", !.updatedAt = t] \in Row
           /\ [x EXCEPT !.status = "archived", !.updatedAt = t] \in Row
           /\ [x EXCEPT !.status = "pending_approval", !.updatedAt = t] \in Row
           /\ [x EXCEPT !.status = "draft", !.simulated = FALSE, !.updatedAt = t] \in Row
           /\ \A p \in Params \cup {None} :
                [x EXCEPT !.params = p, !.updatedAt = t, !.simulated = FALSE] \in Row
<1>1. /\ x.scope \in Scopes \cup {None} /\ x.params \in Params \cup {None}
      /\ x.version \in Nat /\ x.updatedAt \in Nat
  BY DEF Row
<1>2. [x EXCEPT !.simulated = TRUE] \in Row
  BY DEF Row
<1>3. /\ [x EXCEPT !.status = "active", !.updatedAt = t] \in Row
      /\ [x EXCEPT !.status = "archived", !.updatedAt = t] \in Row
      /\ [x EXCEPT !.status = "pending_approval", !.updatedAt = t] \in Row
  BY DEF Row, Status
<1>4. [x EXCEPT !.status = "draft", !.simulated = FALSE, !.updatedAt = t] \in Row
  BY DEF Row, Status
<1>5. ASSUME NEW p \in Params \cup {None}
      PROVE [x EXCEPT !.params = p, !.updatedAt = t, !.simulated = FALSE] \in Row
  BY DEF Row
<1> QED
  BY <1>1, <1>2, <1>3, <1>4, <1>5

\* A request that moves to a well-typed local state leaves req well typed.
LEMMA ReqTyped ==
    ASSUME TypeOK, NEW r \in Requests, NEW q \in Request,
           q.pc # "idle" => q.set \in Sets,
           req' = [req EXCEPT ![r] = q]
    PROVE  /\ req' \in [Requests -> Request]
           /\ \A x \in Requests : req'[x].pc # "idle" => req'[x].set \in Sets
BY DEF TypeOK

\* Writing a well-typed row leaves the table well typed.
LEMMA RowTyped ==
    ASSUME TypeOK, NEW s \in Sets, NEW x \in Row, row' = [row EXCEPT ![s] = x]
    PROVE  row' \in [Sets -> Row]
BY DEF TypeOK

\* Every handler keeps every variable in its type.
LEMMA TypeStep == TypeOK /\ [Next]_vars => TypeOK'
<1> SUFFICES ASSUME TypeOK, [Next]_vars PROVE TypeOK'
  OBVIOUS
<1> USE DEF history
<1>0. CASE UNCHANGED vars
  BY <1>0 DEF vars, TypeOK
<1>1. CASE Tick
  BY <1>1, ClockAssumption DEF Tick, TypeOK
<1>2. ASSUME NEW r \in Requests, Call(r) PROVE TypeOK'
  <2> USE DEF TypeOK, Goes, Request, Row, Idle, Point
  <2> PICK s \in Sets :
        \/ \E k \in Scopes, p \in Params : Create(r, s, k, p)
        \/ \E old \in Sets : Restore(r, s, old)
        \/ \E p \in Params \cup {None} : PatchRead(r, s, p)
        \/ SimulateRead(r, s)
        \/ SubmitRead(r, s)
        \/ ApproveRead(r, s)
        \/ RejectRead(r, s)
    BY <1>2 DEF Call
  <2> clock \in Nat
    BY ClockAssumption
  <2>1. ASSUME NEW k \in Scopes, NEW p \in Params, Create(r, s, k, p) PROVE TypeOK'
    BY <2>1 DEF Create
  <2>2. ASSUME NEW old \in Sets, Restore(r, s, old) PROVE TypeOK'
    BY <2>2 DEF Restore
  <2>3. ASSUME NEW p \in Params \cup {None}, PatchRead(r, s, p) PROVE TypeOK'
    BY <2>3 DEF PatchRead
  <2>4. CASE SimulateRead(r, s)
    BY <2>4 DEF SimulateRead
  <2>5. CASE SubmitRead(r, s)
    BY <2>5 DEF SubmitRead
  <2>6. CASE ApproveRead(r, s)
    BY <2>6 DEF ApproveRead
  <2>7. CASE RejectRead(r, s)
    BY <2>7 DEF RejectRead
  <2> QED
    BY <2>1, <2>2, <2>3, <2>4, <2>5, <2>6, <2>7
<1>3. ASSUME NEW r \in Requests, Continue(r) PROVE TypeOK'
  <2>0. /\ \A s \in Sets : row[s] \in Row
        /\ req[r] \in Request
        /\ req[r].pc # "idle" => req[r].set \in Sets
        /\ clock \in Nat
        /\ Idle \in Request /\ Idle.pc = "idle"
    <3>1. clock \in Nat
      BY ClockAssumption DEF TypeOK
    <3> QED
      BY <3>1, IdleTyped DEF TypeOK
  <2>1. CASE NextVersion(r)
    <3>1. PICK v \in {0} \cup Versions(req[r].scope) :
          req' = [req EXCEPT ![r] = [@ EXCEPT !.pc = "insert", !.version = v + 1]]
      BY <2>1 DEF NextVersion
    <3>2. v \in Nat /\ v + 1 \in Nat
      <4>1. \A s \in Sets : row[s].version \in Nat
        BY <2>0, RowFields
      <4>2. v \in {0} \cup {row[s].version : s \in RowsOf(req[r].scope)}
        BY <3>1 DEF Versions
      <4> QED
        BY <4>1, <4>2 DEF RowsOf
    <3> DEFINE q == [req[r] EXCEPT !.pc = "insert", !.version = v + 1]
    <3>3. q \in Request /\ q.set = req[r].set /\ req' = [req EXCEPT ![r] = q]
      BY <2>0, <3>1, <3>2, RequestMoves
    <3>4. req[r].set \in Sets
      BY <2>0, <2>1 DEF NextVersion
    <3> HIDE DEF q
    <3> QED
      BY <2>1, <3>3, <3>4, ReqTyped DEF NextVersion, TypeOK
  <2>2. CASE Insert(r)
    <3>1. req[r].pc = "insert" /\ req[r].set \in Sets
      BY <2>0, <2>2 DEF Insert
    <3> DEFINE x == [status |-> "draft", scope |-> req[r].scope, params |-> req[r].params,
                     version |-> req[r].version, updatedAt |-> clock, simulated |-> FALSE]
    <3>2. row' = [row EXCEPT ![req[r].set] = x]
      BY <2>2 DEF Insert
    <3>3. x \in Row
      BY <2>0, RequestFields DEF Row, Status
    <3> HIDE DEF x
    <3> QED
      BY <2>0, <2>2, <3>1, <3>2, <3>3, ReqTyped, RowTyped DEF Insert, Edited, Responds, TypeOK
  <2>3. CASE PatchWrite(r)
    <3> DEFINE x(t) == [row[req[r].set] EXCEPT !.params = Patched(r), !.updatedAt = t,
                                               !.simulated = FALSE]
    <3>1. PICK t \in req[r].stamp..clock :
            row' = [row EXCEPT ![req[r].set] = x(t)] /\ Edited(req[r].set, t)
      BY <2>3 DEF PatchWrite, TypeOK
    <3>2. req[r].set \in Sets /\ t \in Nat
      <4>1. req[r].stamp \in Nat
        BY <2>0, RequestFields
      <4> QED
        BY <2>0, <2>3, <3>1, <4>1 DEF PatchWrite
    <3>3. Patched(r) \in Params \cup {None}
      BY <2>0, <3>2, RequestFields, RowFields DEF Patched
    <3>4. x(t) \in Row
      BY <2>0, <3>2, <3>3, RowFields
    <3> HIDE DEF x
    <3> QED
      BY <2>0, <2>3, <3>1, <3>2, <3>4, ReqTyped, RowTyped
         DEF PatchWrite, Edited, Responds, TypeOK
  <2>4. CASE RejectWrite(r)
    <3> DEFINE x(t) == [row[req[r].set] EXCEPT !.status = "draft", !.simulated = FALSE,
                                               !.updatedAt = t]
    <3>1. PICK t \in req[r].stamp..clock :
            row' = [row EXCEPT ![req[r].set] = x(t)] /\ Edited(req[r].set, t)
      BY <2>4 DEF RejectWrite, TypeOK
    <3>2. req[r].set \in Sets /\ t \in Nat
      <4>1. req[r].stamp \in Nat
        BY <2>0, RequestFields
      <4> QED
        BY <2>0, <2>4, <3>1, <4>1 DEF RejectWrite
    <3>3. x(t) \in Row
      BY <2>0, <3>2, RowFields
    <3> HIDE DEF x
    <3> QED
      BY <2>0, <2>4, <3>1, <3>2, <3>3, ReqTyped, RowTyped
         DEF RejectWrite, Edited, Responds, TypeOK
  <2>5. CASE SimulateStamp(r)
    <3> DEFINE x == [row[req[r].set] EXCEPT !.simulated = TRUE]
    <3>1. req[r].set \in Sets /\ row' = [row EXCEPT ![req[r].set] = x]
      BY <2>0, <2>5 DEF SimulateStamp, TypeOK
    <3>2. x \in Row /\ req[r].params \in Params \cup {None}
      BY <2>0, <3>1, RowFields, RequestFields
    <3> HIDE DEF x
    <3> QED
      BY <2>0, <2>5, <3>1, <3>2, ReqTyped, RowTyped DEF SimulateStamp, Responds, TypeOK
  <2>6. CASE SubmitWrite(r)
    <3> DEFINE x(t) == [row[req[r].set] EXCEPT !.status = "pending_approval", !.updatedAt = t]
    <3>1. PICK t \in req[r].stamp..clock : row' = [row EXCEPT ![req[r].set] = x(t)]
      BY <2>6 DEF SubmitWrite, TypeOK
    <3>2. req[r].set \in Sets /\ t \in Nat
      <4>1. req[r].stamp \in Nat
        BY <2>0, RequestFields
      <4> QED
        BY <2>0, <2>6, <3>1, <4>1 DEF SubmitWrite
    <3>3. x(t) \in Row
      BY <2>0, <3>2, RowFields
    <3> HIDE DEF x
    <3> QED
      BY <2>0, <2>6, <3>1, <3>2, <3>3, ReqTyped, RowTyped DEF SubmitWrite, Responds, TypeOK
  <2>7. CASE ApproveLock(r)
    <3> DEFINE q == [req[r] EXCEPT !.pc = "locked"]
    <3>1. q \in Request /\ q.set = req[r].set /\ req' = [req EXCEPT ![r] = q]
      BY <2>0, <2>7, RequestMoves DEF ApproveLock
    <3>2. req[r].set \in Sets
      BY <2>0, <2>7 DEF ApproveLock
    <3> HIDE DEF q
    <3> QED
      BY <2>7, <3>1, <3>2, ReqTyped DEF ApproveLock, TypeOK
  <2>8. CASE ApproveScan(r)
    <3> DEFINE A == ActiveOf(req[r].scope)
               q == [req[r] EXCEPT !.pc = "archive", !.scan = A]
    <3>1. A \subseteq Sets
      BY DEF ActiveOf, RowsOf
    <3>2. req' = [req EXCEPT ![r] = q] /\ req[r].set \in Sets
      BY <2>0, <2>8 DEF ApproveScan, TypeOK
    <3> HIDE DEF A
    <3>3. q \in Request /\ q.set = req[r].set
      BY <2>0, <3>1, RequestMoves
    <3> HIDE DEF q
    <3> QED
      BY <2>8, <3>2, <3>3, ReqTyped DEF ApproveScan, TypeOK
  <2>9. CASE ApproveArchive(r)
    <3> DEFINE still == req[r].scan \cap ActiveOf(req[r].scope)
               q == [req[r] EXCEPT !.pc = "activate", !.scan = still]
    <3>1. still \subseteq Sets
      BY DEF ActiveOf, RowsOf
    <3>2. /\ req' = [req EXCEPT ![r] = q] /\ req[r].set \in Sets
          /\ lock' = [s \in Sets |-> IF s \in still THEN r ELSE lock[s]]
      BY <2>0, <2>9 DEF ApproveArchive, TypeOK
    <3> HIDE DEF still
    <3>3. q \in Request /\ q.set = req[r].set
      BY <2>0, <3>1, RequestMoves
    <3> HIDE DEF q
    <3> QED
      BY <2>9, <3>2, <3>3, ReqTyped DEF ApproveArchive, TypeOK
  <2>10. CASE ApproveCommit(r)
    <3>1. /\ \A s \in Sets : [row[s] EXCEPT !.status = "active", !.updatedAt = req[r].stamp] \in Row
          /\ \A s \in Sets : [row[s] EXCEPT !.status = "archived", !.updatedAt = req[r].stamp] \in Row
      BY <2>0, RowFields, RequestFields
    <3>2. row' \in [Sets -> Row]
      BY <2>0, <2>10, <3>1 DEF ApproveCommit
    <3> QED
      BY <2>0, <2>10, <3>2, ReqTyped DEF ApproveCommit, Unlocked, Responds, TypeOK
  <2>11. CASE ApproveConflict(r)
    BY <2>0, <2>11, ReqTyped DEF ApproveConflict, Unlocked, Responds, TypeOK
  <2>12. CASE InsertConflict(r) \/ SimulateStale(r) \/ SubmitStale(r) \/ ApproveGone(r)
    BY <2>0, <2>12, ReqTyped
       DEF InsertConflict, SimulateStale, SubmitStale, ApproveGone, Responds, TypeOK
  <2> QED
    BY <1>3, <2>1, <2>2, <2>3, <2>4, <2>5, <2>6, <2>7, <2>8, <2>9, <2>10, <2>11, <2>12
       DEF Continue
<1>4. ASSUME NEW r \in Requests, Abandon(r) PROVE TypeOK'
  BY <1>4, IdleTyped, ReqTyped DEF Abandon, Unlocked, Responds, TypeOK
<1> QED
  BY <1>0, <1>1, <1>2, <1>3, <1>4 DEF Next

\* Every reachable state of the workflow is well typed.
THEOREM TypeCorrect == Spec => []TypeOK
<1>1. Init => TypeOK
  BY ClockAssumption
     DEF Init, TypeOK, Row, NoRow, Request, Idle, Status, Point
<1> QED
  BY <1>1, TypeStep, PTL DEF Spec
----
(***************************************************************************)
(* Row locks and the rows in-flight handlers work on.                       *)
(***************************************************************************)

Inserting == {"version", "insert"}
Holding == {"locked", "archive", "activate"}

\* What the local state of handler x says about the table.
Attached(x) ==
    /\ req[x].pc \in Inserting => row[req[x].set].status = "none"
    /\ req[x].pc \notin Inserting \cup {"idle"} => row[req[x].set].status # "none"
    /\ req[x].pc \in Holding \cup {"approve"} => row[req[x].set].scope = req[x].scope
    /\ req[x].pc \in Holding => /\ lock[req[x].set] = x
                                /\ row[req[x].set].status = "pending_approval"
    /\ req[x].pc = "activate" =>
        \A s \in req[x].scan : /\ lock[s] = x
                               /\ row[s].status = "active"
                               /\ row[s].scope = req[x].scope

\* Two handlers never insert under the same id.
InsertsApart ==
    \A x, y \in Requests :
        x # y /\ req[x].pc \in Inserting /\ req[y].pc \in Inserting =>
            req[x].set # req[y].set

LockInv == InsertsApart /\ \A x \in Requests : Attached(x)

\* What a step of handler r may do to rows and locks that are not its own.
Frame(r) ==
    /\ \A x \in Requests \ {r} : req'[x] = req[x]
    /\ \A s \in Sets : row[s].status # "none" =>
        /\ row'[s].status # "none" /\ row'[s].scope = row[s].scope
        /\ lock[s] \notin {None, r} => row'[s] = row[s] /\ lock'[s] = lock[s]
    /\ \A s \in Sets : row[s].status = "none" /\ row'[s] # row[s] =>
        req[r].pc = "insert" /\ s = req[r].set

\* Every statement of a handler respects the frame.
LEMMA ContinueFrame ==
    ASSUME TypeOK, NEW r \in Requests, Attached(r), Continue(r)
    PROVE  Frame(r)
<1> USE DEF TypeOK, Frame
<1>0. ASSUME NEW q, req' = [req EXCEPT ![r] = q]
      PROVE \A x \in Requests \ {r} : req'[x] = req[x]
  BY <1>0
<1>1. CASE UNCHANGED <<row, lock>> /\ \E q : req' = [req EXCEPT ![r] = q]
  BY <1>1, <1>0
<1>2. CASE Insert(r)
  <2>1. req[r].set \in Sets /\ row[req[r].set].status = "none"
    BY <1>2 DEF Insert, Attached, Inserting
  <2>2. \A s \in Sets : s # req[r].set => row'[s] = row[s]
    BY <1>2 DEF Insert
  <2> QED
    BY <1>0, <1>2, <2>1, <2>2 DEF Insert, Responds
<1>3. CASE PatchWrite(r) \/ RejectWrite(r) \/ SubmitWrite(r) \/ SimulateStamp(r)
  <2>1. req[r].set \in Sets /\ lock[req[r].set] = None /\ lock' = lock
    BY <1>3 DEF PatchWrite, RejectWrite, SubmitWrite, SimulateStamp, Writable
  <2>2. row[req[r].set].status # "none"
    BY <1>3 DEF PatchWrite, RejectWrite, SubmitWrite, SimulateStamp, Attached, Inserting
  <2>3. \A s \in Sets : s # req[r].set => row'[s] = row[s]
    BY <1>3 DEF PatchWrite, RejectWrite, SubmitWrite, SimulateStamp
  <2>4. row[req[r].set] \in Row
    BY <2>1
  <2>5. /\ row'[req[r].set].scope = row[req[r].set].scope
        /\ row'[req[r].set].status # "none"
    <3>1. CASE PatchWrite(r)
      BY <2>1, <2>2, <2>4, <3>1 DEF PatchWrite, Row
    <3>2. CASE RejectWrite(r)
      BY <2>1, <2>2, <2>4, <3>2 DEF RejectWrite, Row
    <3>3. CASE SubmitWrite(r)
      BY <2>1, <2>2, <2>4, <3>3 DEF SubmitWrite, Row
    <3>4. CASE SimulateStamp(r)
      BY <2>1, <2>2, <2>4, <3>4 DEF SimulateStamp, Row
    <3> QED
      BY <1>3, <3>1, <3>2, <3>3, <3>4
  <2>6. \A x \in Requests \ {r} : req'[x] = req[x]
    BY <1>0, <1>3 DEF PatchWrite, RejectWrite, SubmitWrite, SimulateStamp, Responds
  <2> QED
    BY <2>1, <2>2, <2>3, <2>5, <2>6
<1>4. CASE ApproveLock(r)
  <2>1. req[r].set \in Sets /\ lock[req[r].set] = None
    BY <1>4 DEF ApproveLock, Writable
  <2> QED
    BY <1>0, <1>4, <2>1 DEF ApproveLock
<1>5. CASE ApproveArchive(r)
  <2>1. \A s \in Sets : lock[s] # None => lock'[s] = lock[s]
    BY <1>5 DEF ApproveArchive
  <2> QED
    BY <1>0, <1>5, <2>1 DEF ApproveArchive
<1>6. CASE ApproveCommit(r)
  <2>1. /\ req[r].set \in Sets /\ lock[req[r].set] = r
        /\ row[req[r].set].status = "pending_approval"
        /\ \A s \in req[r].scan : lock[s] = r /\ row[s].status = "active"
    BY <1>6 DEF ApproveCommit, Attached, Holding
  <2>2. \A s \in Sets : s # req[r].set /\ s \notin req[r].scan => row'[s] = row[s]
    BY <1>6 DEF ApproveCommit
  <2>3. \A s \in Sets : s = req[r].set \/ s \in req[r].scan =>
          row'[s].scope = row[s].scope /\ row'[s].status # "none"
    <3>1. \A s \in Sets : row[s] \in Row
      OBVIOUS
    <3> QED
      BY <1>6, <3>1 DEF ApproveCommit, Row
  <2>4. \A s \in Sets : lock[s] # r => lock'[s] = lock[s]
    BY <1>6 DEF ApproveCommit, Unlocked
  <2> QED
    BY <1>0, <1>6, <2>1, <2>2, <2>3, <2>4 DEF ApproveCommit, Responds
<1>7. CASE ApproveConflict(r)
  BY <1>0, <1>7 DEF ApproveConflict, Unlocked, Responds
<1>8. CASE \/ NextVersion(r) \/ InsertConflict(r) \/ SimulateStale(r) \/ SubmitStale(r)
           \/ ApproveGone(r) \/ ApproveScan(r)
  BY <1>1, <1>8 DEF NextVersion, InsertConflict, SimulateStale, SubmitStale, ApproveGone,
                    ApproveScan, Responds
<1> QED
  BY <1>2, <1>3, <1>4, <1>5, <1>6, <1>7, <1>8, Continue(r) DEF Continue

\* Starting or abandoning a handler changes no row and no lock of another.
LEMMA CallFrame ==
    ASSUME TypeOK, NEW r \in Requests, Call(r) \/ Abandon(r)
    PROVE  Frame(r)
<1>1. CASE Abandon(r)
  BY <1>1 DEF TypeOK, Frame, Abandon, Unlocked, Responds
<1>2. CASE Call(r)
  <2>1. row' = row /\ lock' = lock /\ \E q : req' = [req EXCEPT ![r] = q]
    BY <1>2 DEF Call, Create, Restore, PatchRead, SimulateRead, SubmitRead, ApproveRead,
                RejectRead, Goes
  <2> QED
    BY <2>1 DEF TypeOK, Frame
<1> QED
  BY <1>1, <1>2

\* What holds of the other handlers survives a step that respects the frame.
LEMMA FrameKeeps ==
    ASSUME TypeOK, LockInv, NEW r \in Requests, NEW x \in Requests \ {r}, Frame(r)
    PROVE  Attached(x)'
<1>1. Attached(x) /\ req'[x] = req[x] /\ req[x] \in Request
  BY DEF LockInv, Frame, TypeOK
<1>2. x # None
  BY NoneAssumption
<1>3. CASE req[x].pc \in Inserting
  <2>1. req[x].set \in Sets /\ row[req[x].set].status = "none"
    BY <1>1, <1>3 DEF Attached, TypeOK, Inserting
  <2>2. row'[req[x].set] = row[req[x].set]
    <3> SUFFICES ASSUME row'[req[x].set] # row[req[x].set] PROVE FALSE
      OBVIOUS
    <3>1. req[r].pc \in Inserting /\ req[r].set = req[x].set
      BY <2>1 DEF Frame, Inserting
    <3> QED
      BY <1>3, <3>1 DEF LockInv, InsertsApart
  <2> QED
    BY <1>1, <1>3, <2>1, <2>2 DEF Attached, Inserting, Holding
<1>4. CASE req[x].pc \notin Inserting \cup {"idle"}
  <2>1. req[x].set \in Sets /\ row[req[x].set].status # "none"
    BY <1>1, <1>4 DEF Attached, TypeOK
  <2>2. row'[req[x].set].status # "none" /\ row'[req[x].set].scope = row[req[x].set].scope
    BY <2>1 DEF Frame
  <2>3. req[x].pc \in Holding =>
          /\ lock'[req[x].set] = x
          /\ row'[req[x].set].status = "pending_approval"
    BY <1>1, <1>2, <2>1 DEF Attached, Frame
  <2>4. req[x].pc = "activate" =>
          \A s \in req[x].scan : /\ lock'[s] = x
                                 /\ row'[s].status = "active"
                                 /\ row'[s].scope = req[x].scope
    <3>1. req[x].scan \subseteq Sets
      BY <1>1, RequestFields
    <3> QED
      BY <1>1, <1>2, <3>1 DEF Attached, Frame
  <2> QED
    BY <1>1, <1>4, <2>2, <2>3, <2>4 DEF Attached, Inserting, Holding
<1>5. CASE req[x].pc = "idle"
  BY <1>1, <1>5 DEF Attached, Inserting, Holding
<1> QED
  BY <1>3, <1>4, <1>5

\* A handler that answers is attached to nothing.
LEMMA IdleAttached ==
    ASSUME NEW r \in Requests, req'[r] = Idle
    PROVE  Attached(r)'
BY DEF Attached, Idle, Inserting, Holding

\* The step itself leaves its handler attached to the rows it goes on with.
LEMMA StepAttaches ==
    ASSUME TypeOK, LockInv, NEW r \in Requests, Call(r) \/ Continue(r) \/ Abandon(r)
    PROVE  Attached(r)'
<1>0. Attached(r) /\ req[r] \in Request /\ req[r].scan \subseteq Sets
  BY RequestFields DEF LockInv, TypeOK
<1>1. CASE Call(r)
  <2> USE DEF Goes, Attached, Inserting, Holding, Idle, TypeOK
  <2>1. ASSUME NEW s \in Sets, NEW k \in Scopes, NEW p \in Params, Create(r, s, k, p)
        PROVE  Attached(r)'
    BY <2>1 DEF Create, Fresh
  <2>2. ASSUME NEW s \in Sets, NEW old \in Sets, Restore(r, s, old)
        PROVE  Attached(r)'
    BY <2>2 DEF Restore, Fresh
  <2>3. ASSUME NEW s \in Sets, NEW p \in Params \cup {None}, PatchRead(r, s, p)
        PROVE  Attached(r)'
    BY <2>3 DEF PatchRead
  <2>4. ASSUME NEW s \in Sets, SimulateRead(r, s) \/ SubmitRead(r, s) \/ RejectRead(r, s)
        PROVE  Attached(r)'
    <3>1. CASE SimulateRead(r, s)
      BY <3>1 DEF SimulateRead
    <3>2. CASE SubmitRead(r, s)
      BY <3>2 DEF SubmitRead
    <3>3. CASE RejectRead(r, s)
      BY <3>3 DEF RejectRead
    <3> QED
      BY <2>4, <3>1, <3>2, <3>3
  <2>5. ASSUME NEW s \in Sets, ApproveRead(r, s)
        PROVE  Attached(r)'
    BY <2>5 DEF ApproveRead
  <2> QED
    BY <1>1, <2>1, <2>2, <2>3, <2>4, <2>5 DEF Call
<1>2. CASE NextVersion(r)
  <2>1. PICK v \in {0} \cup Versions(req[r].scope) :
          req' = [req EXCEPT ![r] = [@ EXCEPT !.pc = "insert", !.version = v + 1]]
    BY <1>2 DEF NextVersion
  <2>2. req'[r].pc = "insert" /\ req'[r].set = req[r].set /\ row' = row
    BY <1>0, <1>2, <2>1 DEF NextVersion, TypeOK, Request
  <2> QED
    BY <1>0, <1>2, <2>2 DEF NextVersion, Attached, Inserting, Holding
<1>3. CASE ApproveLock(r)
  BY <1>0, <1>3 DEF ApproveLock, Attached, Inserting, Holding, TypeOK, Request
<1>4. CASE ApproveScan(r)
  BY <1>0, <1>4 DEF ApproveScan, Attached, Inserting, Holding, TypeOK, Request
<1>5. CASE ApproveArchive(r)
  <2> DEFINE still == req[r].scan \cap ActiveOf(req[r].scope)
  <2>1. /\ req'[r].pc = "activate" /\ req'[r].set = req[r].set
        /\ req'[r].scope = req[r].scope /\ req'[r].scan = still
        /\ row' = row /\ \A s \in Sets : lock'[s] = IF s \in still THEN r ELSE lock[s]
    BY <1>0, <1>5 DEF ApproveArchive, TypeOK, Request
  <2>2. /\ req[r].pc = "archive" /\ req[r].set \in Sets /\ lock[req[r].set] = r
        /\ row[req[r].set].status = "pending_approval"
        /\ row[req[r].set].scope = req[r].scope
    BY <1>0, <1>5 DEF ApproveArchive, Attached, Holding, TypeOK
  <2>3. \A s \in still : s \in Sets /\ row[s].status = "active" /\ row[s].scope = req[r].scope
    BY DEF ActiveOf, RowsOf
  <2> HIDE DEF still
  <2> QED
    BY <2>1, <2>2, <2>3 DEF Attached, Inserting, Holding
<1>6. CASE \/ Insert(r) \/ InsertConflict(r) \/ PatchWrite(r) \/ RejectWrite(r)
           \/ SimulateStamp(r) \/ SimulateStale(r) \/ SubmitWrite(r) \/ SubmitStale(r)
           \/ ApproveGone(r) \/ ApproveCommit(r) \/ ApproveConflict(r) \/ Abandon(r)
  <2>1. req'[r] = Idle
    BY <1>6 DEF Insert, InsertConflict, PatchWrite, RejectWrite, SimulateStamp, SimulateStale,
                SubmitWrite, SubmitStale, ApproveGone, ApproveCommit, ApproveConflict,
                Abandon, Responds, TypeOK
  <2> QED
    BY <2>1, IdleAttached
<1> QED
  BY <1>1, <1>2, <1>3, <1>4, <1>5, <1>6 DEF Continue

\* A handler enters the insertion only with an id no other handler works on.
LEMMA StepInsertsApart ==
    ASSUME TypeOK, LockInv, NEW r \in Requests, Call(r) \/ Continue(r) \/ Abandon(r),
           Frame(r)
    PROVE  InsertsApart'
<1>1. \A x \in Requests \ {r} : req'[x] = req[x]
  BY DEF Frame
<1>2. CASE req'[r].pc \notin Inserting
  BY <1>1, <1>2 DEF InsertsApart, LockInv
<1>3. CASE req[r].pc \in Inserting /\ req'[r].set = req[r].set
  BY <1>1, <1>3 DEF InsertsApart, LockInv
<1>4. CASE \A x \in Requests \ {r} : req[x].set # req'[r].set
  BY <1>1, <1>4 DEF InsertsApart, LockInv
<1>5. \/ req'[r].pc \notin Inserting
      \/ req[r].pc \in Inserting /\ req'[r].set = req[r].set
      \/ \A x \in Requests \ {r} : req[x].set # req'[r].set
  <2>1. req[r] \in Request
    BY DEF TypeOK
  <2>2. CASE Call(r)
    <3> USE DEF Goes, Inserting, Idle, TypeOK
    <3>1. ASSUME NEW s \in Sets, NEW k \in Scopes, NEW p \in Params, Create(r, s, k, p)
          PROVE  \A x \in Requests \ {r} : req[x].set # req'[r].set
      BY <3>1 DEF Create, Fresh
    <3>2. ASSUME NEW s \in Sets, NEW old \in Sets, Restore(r, s, old)
          PROVE  \A x \in Requests \ {r} : req[x].set # req'[r].set
      BY <3>2 DEF Restore, Fresh
    <3>3. ASSUME NEW s \in Sets,
                 \/ \E p \in Params \cup {None} : PatchRead(r, s, p)
                 \/ SimulateRead(r, s) \/ SubmitRead(r, s) \/ ApproveRead(r, s)
                 \/ RejectRead(r, s)
          PROVE  req'[r].pc \notin Inserting
      <4>1. CASE \E p \in Params \cup {None} : PatchRead(r, s, p)
        BY <4>1 DEF PatchRead
      <4>2. CASE SimulateRead(r, s)
        BY <4>2 DEF SimulateRead
      <4>3. CASE SubmitRead(r, s)
        BY <4>3 DEF SubmitRead
      <4>4. CASE ApproveRead(r, s)
        BY <4>4 DEF ApproveRead
      <4>5. CASE RejectRead(r, s)
        BY <4>5 DEF RejectRead
      <4> QED
        BY <3>3, <4>1, <4>2, <4>3, <4>4, <4>5
    <3> QED
      BY <2>2, <3>1, <3>2, <3>3 DEF Call
  <2>3. CASE NextVersion(r)
    <3>1. PICK v \in {0} \cup Versions(req[r].scope) :
            req' = [req EXCEPT ![r] = [@ EXCEPT !.pc = "insert", !.version = v + 1]]
      BY <2>3 DEF NextVersion
    <3>2. req'[r].set = req[r].set
      BY <2>1, <3>1 DEF TypeOK, Request
    <3> QED
      BY <2>3, <3>2 DEF NextVersion, Inserting
  <2>4. CASE (Continue(r) /\ ~NextVersion(r)) \/ Abandon(r)
    <3>1. CASE \/ Insert(r) \/ InsertConflict(r) \/ PatchWrite(r) \/ RejectWrite(r)
               \/ SimulateStamp(r) \/ SimulateStale(r) \/ SubmitWrite(r) \/ SubmitStale(r)
               \/ ApproveGone(r) \/ ApproveCommit(r) \/ ApproveConflict(r) \/ Abandon(r)
      BY <3>1, IdleTyped
         DEF Insert, InsertConflict, PatchWrite, RejectWrite, SimulateStamp, SimulateStale,
             SubmitWrite, SubmitStale, ApproveGone, ApproveCommit, ApproveConflict,
             Abandon, Responds, TypeOK, Inserting
    <3>2. CASE ApproveLock(r)
      BY <2>1, <3>2 DEF ApproveLock, TypeOK, Request, Inserting
    <3>3. CASE ApproveScan(r)
      BY <2>1, <3>3 DEF ApproveScan, TypeOK, Request, Inserting
    <3>4. CASE ApproveArchive(r)
      BY <2>1, <3>4 DEF ApproveArchive, TypeOK, Request, Inserting
    <3> QED
      BY <2>4, <3>1, <3>2, <3>3, <3>4 DEF Continue
  <2> QED
    BY <2>2, <2>3, <2>4
<1> QED
  BY <1>2, <1>3, <1>4, <1>5

\* Locks and in-flight handlers stay consistent.
LEMMA LockStep == TypeOK /\ LockInv /\ [Next]_vars => LockInv'
<1> SUFFICES ASSUME TypeOK, LockInv, [Next]_vars PROVE LockInv'
  OBVIOUS
<1>1. CASE UNCHANGED vars \/ Tick
  BY <1>1 DEF vars, Tick, LockInv, InsertsApart, Attached
<1>2. ASSUME NEW r \in Requests, Call(r) \/ Continue(r) \/ Abandon(r) PROVE LockInv'
  <2>1. Frame(r)
    BY <1>2, ContinueFrame, CallFrame DEF LockInv
  <2>2. \A x \in Requests \ {r} : Attached(x)'
    BY <2>1, FrameKeeps
  <2>3. Attached(r)'
    BY <1>2, StepAttaches
  <2>4. InsertsApart'
    BY <1>2, <2>1, StepInsertsApart
  <2> QED
    BY <2>2, <2>3, <2>4 DEF LockInv
<1> QED
  BY <1>1, <1>2 DEF Next

LEMMA LockInit == Init => LockInv
BY DEF Init, LockInv, InsertsApart, Attached, Inserting, Holding, Idle

\* Locks and in-flight handlers are consistent in every reachable state.
THEOREM LocksCorrect == Spec => [](TypeOK /\ LockInv)
<1>1. Init => TypeOK
  BY ClockAssumption
     DEF Init, TypeOK, Row, NoRow, Request, Idle, Status, Point
<1> QED
  BY <1>1, LockInit, TypeStep, LockStep, PTL DEF Spec

\* The row an approval has locked stays pending until the approval ends.
THEOREM LockedPending == Spec => []LockedStaysPending
<1>1. LockInv => LockedStaysPending
  BY DEF LockInv, Attached, LockedStaysPending, Holding
<1> QED
  BY <1>1, LocksCorrect, PTL

----
(***************************************************************************)
(* At most one active set, and no gap when one follows another.             *)
(***************************************************************************)

\* Which rows a step can make active: only the committing approval's own row.
LEMMA OnlyCommitActivates ==
    ASSUME TypeOK, LockInv, NEW r \in Requests, Call(r) \/ Continue(r) \/ Abandon(r),
           ~ApproveCommit(r), NEW s \in Sets
    PROVE  /\ row'[s].status = "active" => row[s].status = "active"
           /\ row'[s].status = "archived" => row[s].status = "archived"
<1> USE DEF TypeOK
<1>1. CASE UNCHANGED row
  BY <1>1
<1>2. CASE Insert(r)
  BY <1>2 DEF Insert
<1>3. CASE PatchWrite(r)
  BY <1>3 DEF PatchWrite, Row
<1>4. CASE RejectWrite(r)
  BY <1>4 DEF RejectWrite, Row
<1>5. CASE SubmitWrite(r)
  BY <1>5 DEF SubmitWrite, Row
<1>6. CASE SimulateStamp(r)
  BY <1>6 DEF SimulateStamp, Row
<1> QED
  BY <1>1, <1>2, <1>3, <1>4, <1>5, <1>6
     DEF Continue, Call, Abandon, Create, Restore, PatchRead, SimulateRead, SubmitRead,
         ApproveRead, RejectRead, NextVersion, InsertConflict, SimulateStale, SubmitStale,
         ApproveLock, ApproveGone, ApproveScan, ApproveArchive, ApproveConflict

\* The index check makes the committing set the only active one of its scope.
LEMMA CommitKeepsOne ==
    ASSUME TypeOK, LockInv, OneActivePerScope, NEW r \in Requests, ApproveCommit(r)
    PROVE  OneActivePerScope'
<1>1. /\ req[r].set \in Sets /\ row[req[r].set].status = "pending_approval"
      /\ row[req[r].set].scope = req[r].scope
      /\ \A s \in req[r].scan : row[s].status = "active"
      /\ ActiveOf(req[r].scope) \subseteq req[r].scan
  BY DEF ApproveCommit, Activatable, LockInv, Attached, Holding, TypeOK
<1>2. \A s \in Sets : row[s] \in Row
  BY DEF TypeOK
<1>3. ASSUME NEW s \in Sets, row'[s].status = "active", s # req[r].set
      PROVE  row'[s] = row[s] /\ s \notin ActiveOf(req[r].scope)
  BY <1>1, <1>2, <1>3 DEF ApproveCommit, Row
<1>4. row'[req[r].set].scope = req[r].scope
  BY <1>1, <1>2 DEF ApproveCommit, Row
<1>5. SUFFICES ASSUME NEW k \in Scopes, NEW s \in Sets, NEW u \in Sets,
                      row'[s].scope = k, row'[u].scope = k,
                      row'[s].status = "active", row'[u].status = "active", s # u
               PROVE  FALSE
  BY DEF OneActivePerScope, ActiveOf, RowsOf
<1>6. CASE s = req[r].set
  BY <1>3, <1>4, <1>5, <1>6 DEF ActiveOf, RowsOf
<1>7. CASE u = req[r].set
  BY <1>3, <1>4, <1>5, <1>7 DEF ActiveOf, RowsOf
<1>8. CASE s # req[r].set /\ u # req[r].set
  BY <1>3, <1>5, <1>8 DEF OneActivePerScope, ActiveOf, RowsOf
<1> QED
  BY <1>6, <1>7, <1>8

LEMMA OneActiveStep ==
    TypeOK /\ LockInv /\ OneActivePerScope /\ [Next]_vars => OneActivePerScope'
<1> SUFFICES ASSUME TypeOK, LockInv, OneActivePerScope, [Next]_vars
             PROVE  OneActivePerScope'
  OBVIOUS
<1>1. CASE UNCHANGED vars \/ Tick
  BY <1>1 DEF vars, Tick, OneActivePerScope, ActiveOf, RowsOf
<1>2. ASSUME NEW r \in Requests, Call(r) \/ Continue(r) \/ Abandon(r)
      PROVE  OneActivePerScope'
  <2>1. CASE ApproveCommit(r)
    BY <2>1, CommitKeepsOne
  <2>2. CASE ~ApproveCommit(r)
    <3>1. Frame(r)
      BY <1>2, ContinueFrame, CallFrame DEF LockInv
    <3>2. \A s \in Sets : row'[s].status = "active" =>
            row[s].status = "active" /\ row'[s].scope = row[s].scope
      BY <1>2, <2>2, <3>1, OnlyCommitActivates DEF Frame
    <3> QED
      BY <3>2 DEF OneActivePerScope, ActiveOf, RowsOf
  <2> QED
    BY <2>1, <2>2
<1> QED
  BY <1>1, <1>2 DEF Next

\* At most one set of a scope is in force, however many approvals run at once.
THEOREM OneActive == Spec => []OneActivePerScope
<1>1. Init => OneActivePerScope
  BY DEF Init, OneActivePerScope, ActiveOf, RowsOf, NoRow
<1> QED
  BY <1>1, OneActiveStep, LocksCorrect, PTL DEF Spec

\* An active set leaves only together with the arrival of its successor.
THEOREM NoGap == Spec => NoGapOnApproval
<1> DEFINE Handover == \A s \in Sets :
        row[s].status = "active" /\ row'[s].status = "archived" =>
            \E u \in Sets : /\ row[u].scope = row[s].scope
                            /\ row[u].status = "pending_approval"
                            /\ row'[u].status = "active"
<1>1. TypeOK /\ LockInv /\ [Next]_vars => [Handover]_vars
  <2> SUFFICES ASSUME TypeOK, LockInv, Next, NEW s \in Sets,
                      row[s].status = "active", row'[s].status = "archived"
               PROVE  \E u \in Sets : /\ row[u].scope = row[s].scope
                                      /\ row[u].status = "pending_approval"
                                      /\ row'[u].status = "active"
    OBVIOUS
  <2>1. ~Tick
    BY DEF Tick
  <2>2. PICK r \in Requests : Call(r) \/ Continue(r) \/ Abandon(r)
    BY <2>1 DEF Next
  <2>3. ApproveCommit(r)
    BY <2>2, OnlyCommitActivates
  <2>4. /\ req[r].set \in Sets /\ row[req[r].set].status = "pending_approval"
        /\ row[req[r].set].scope = req[r].scope
        /\ \A x \in req[r].scan : row[x].scope = req[r].scope
    BY <2>3 DEF ApproveCommit, Activatable, LockInv, Attached, Holding, TypeOK
  <2>5. s \in req[r].scan
    BY <2>3, <2>4 DEF ApproveCommit
  <2>6. row'[req[r].set].status = "active"
    BY <2>3, <2>4 DEF ApproveCommit, TypeOK, Row
  <2> QED
    BY <2>4, <2>5, <2>6
<1> QED
  BY <1>1, LocksCorrect, PTL DEF Spec, NoGapOnApproval

----
(***************************************************************************)
(* The handlers implement ActiveSetRegister.                                *)
(***************************************************************************)

\* A statement that is neither a commit nor a rejection leaves every scope alone.
LEMMA OthersLeaveInForce ==
    ASSUME TypeOK, LockInv, NEW r \in Requests, Call(r) \/ Continue(r) \/ Abandon(r),
           ~ApproveCommit(r), ~RejectWrite(r), NEW k \in Scopes
    PROVE  ActiveOf(k)' = ActiveOf(k)
<1>1. \A s \in Sets : row[s].status = "active" =>
        row'[s].status = "active" /\ row'[s].scope = row[s].scope
  <2> SUFFICES ASSUME NEW s \in Sets, row[s].status = "active"
               PROVE  row'[s].status = "active" /\ row'[s].scope = row[s].scope
    OBVIOUS
  <2> USE DEF TypeOK
  <2>1. CASE UNCHANGED row
    BY <2>1
  <2>2. CASE Insert(r)
    <3>1. row[req[r].set].status = "none"
      BY <2>2 DEF Insert, LockInv, Attached, Inserting
    <3> QED
      BY <2>2, <3>1 DEF Insert
  <2>3. CASE PatchWrite(r)
    BY <2>3 DEF PatchWrite, Row
  <2>4. CASE SubmitWrite(r)
    BY <2>4 DEF SubmitWrite, Submittable, Row
  <2>5. CASE SimulateStamp(r)
    BY <2>5 DEF SimulateStamp, Row
  <2> QED
    BY <2>1, <2>2, <2>3, <2>4, <2>5
       DEF Continue, Call, Abandon, Create, Restore, PatchRead, SimulateRead, SubmitRead,
           ApproveRead, RejectRead, NextVersion, InsertConflict, SimulateStale, SubmitStale,
           ApproveLock, ApproveGone, ApproveScan, ApproveArchive, ApproveConflict
<1>2. \A s \in Sets : row'[s].status = "active" => row[s].status = "active"
  BY OnlyCommitActivates
<1> QED
  BY <1>1, <1>2 DEF ActiveOf, RowsOf

\* Every row was made for a scope, and so is every row about to be inserted.
Scoped ==
    /\ \A s \in Sets : row[s].status # "none" => row[s].scope \in Scopes
    /\ \A r \in Requests : req[r].pc \in Inserting => req[r].scope \in Scopes

\* A call or a statement keeps that so.
LEMMA ScopedStep ==
    ASSUME TypeOK, LockInv, Scoped, NEW r \in Requests,
           Call(r) \/ Continue(r) \/ Abandon(r)
    PROVE  Scoped'
<1>1. Frame(r)
  BY ContinueFrame, CallFrame DEF LockInv
<1>2. \A x \in Requests \ {r} : req'[x] = req[x]
  BY <1>1 DEF Frame
<1>3. req'[r].pc \in Inserting => req'[r].scope \in Scopes
  <2>0. req \in [Requests -> Request] /\ req[r] \in Request
    BY DEF TypeOK
  <2>1. CASE req'[r].pc = "idle"
    BY <2>1 DEF Inserting
  <2>2. CASE Call(r) /\ req'[r].pc # "idle"
    <3>1. ASSUME NEW s \in Sets, NEW k \in Scopes, NEW p \in Params, Create(r, s, k, p)
          PROVE  req'[r].scope \in Scopes
      BY <2>0, <3>1 DEF Create, Goes, Idle
    <3>2. ASSUME NEW s \in Sets, NEW old \in Sets, Restore(r, s, old)
          PROVE  req'[r].scope \in Scopes
      BY <2>0, <3>2 DEF Restore, Goes, Idle, Scoped
    <3>3. ASSUME NEW s \in Sets, NEW p \in Params \cup {None},
                 PatchRead(r, s, p) \/ SimulateRead(r, s) \/ SubmitRead(r, s)
                 \/ ApproveRead(r, s) \/ RejectRead(r, s)
          PROVE  req'[r].pc \notin Inserting
      <4> USE <2>0 DEF Goes, Idle, Inserting
      <4>1. CASE PatchRead(r, s, p)
        BY <4>1 DEF PatchRead
      <4>2. CASE SimulateRead(r, s)
        BY <4>2 DEF SimulateRead
      <4>3. CASE SubmitRead(r, s)
        BY <4>3 DEF SubmitRead
      <4>4. CASE ApproveRead(r, s)
        BY <4>4 DEF ApproveRead
      <4>5. CASE RejectRead(r, s)
        BY <4>5 DEF RejectRead
      <4> QED
        BY <3>3, <4>1, <4>2, <4>3, <4>4, <4>5
    <3> QED
      BY <2>2, <3>1, <3>2, <3>3 DEF Call
  <2>3. CASE NextVersion(r)
    <3>1. req[r].pc \in Inserting
      BY <2>3 DEF NextVersion, Inserting
    <3>2. req'[r].scope = req[r].scope
      BY <2>0, <2>3 DEF NextVersion, Request
    <3> QED
      BY <3>1, <3>2 DEF Scoped
  <2>4. CASE ApproveLock(r) \/ ApproveScan(r) \/ ApproveArchive(r)
    <3>1. CASE ApproveLock(r)
      BY <2>0, <3>1 DEF ApproveLock, Request, Inserting
    <3>2. CASE ApproveScan(r)
      BY <2>0, <3>2 DEF ApproveScan, Request, Inserting
    <3>3. CASE ApproveArchive(r)
      BY <2>0, <3>3 DEF ApproveArchive, Request, Inserting
    <3> QED
      BY <2>4, <3>1, <3>2, <3>3
  <2>5. ASSUME Responds(r) PROVE req'[r].pc = "idle"
    BY <2>0, <2>5 DEF Responds, Idle
  <2>6. CASE Abandon(r)
    BY <2>5, <2>6, <2>1 DEF Abandon
  <2>7. CASE Continue(r)
    BY <2>1, <2>3, <2>4, <2>5, <2>7 DEF Continue, Insert, InsertConflict, PatchWrite,
       SimulateStamp, SimulateStale, SubmitWrite, SubmitStale, ApproveGone, ApproveCommit,
       ApproveConflict, RejectWrite
  <2> QED
    BY <2>1, <2>2, <2>6, <2>7
<1>4. ASSUME NEW s \in Sets, row'[s].status # "none"
      PROVE  row'[s].scope \in Scopes
  <2>1. CASE row[s].status # "none"
    BY <1>1, <2>1 DEF Frame, Scoped
  <2>2. CASE row[s].status = "none"
    <3>1. row'[s] # row[s]
      BY <1>4, <2>2
    <3>2. req[r].pc = "insert" /\ s = req[r].set
      BY <1>1, <2>2, <3>1 DEF Frame
    <3>3. Insert(r) \/ row' = row
      BY <3>2 DEF Call, Create, Restore, PatchRead, SimulateRead, SubmitRead, ApproveRead,
         RejectRead, Goes, Continue, Abandon, NextVersion, InsertConflict, PatchWrite,
         SimulateStamp, SimulateStale, SubmitWrite, SubmitStale, ApproveLock, ApproveGone,
         ApproveScan, ApproveArchive, ApproveCommit, ApproveConflict, RejectWrite
    <3>4. row'[s].scope = req[r].scope
      BY <3>1, <3>2, <3>3 DEF Insert, TypeOK
    <3> QED
      BY <3>2, <3>4 DEF Scoped, Inserting
  <2> QED
    BY <2>1, <2>2
<1> QED
  BY <1>2, <1>3, <1>4 DEF Scoped

\* Every row and every handler that inserts one has a scope.
THEOREM AlwaysScoped == Spec => []Scoped
<1>1. Init => Scoped
  BY DEF Init, Scoped, NoRow, Idle, Inserting
<1>2. TypeOK /\ LockInv /\ Scoped /\ [Next]_vars => Scoped'
  <2> SUFFICES ASSUME TypeOK, LockInv, Scoped, [Next]_vars PROVE Scoped'
    OBVIOUS
  <2>1. CASE UNCHANGED vars \/ Tick
    BY <2>1 DEF vars, Tick, Scoped
  <2> QED
    BY <2>1, ScopedStep DEF Next
<1> QED
  BY <1>1, <1>2, LocksCorrect, PTL DEF Spec

\* A rejection takes at most the row it names out of force.
LEMMA RejectWithdraws ==
    ASSUME TypeOK, OneActivePerScope, NEW r \in Requests, RejectWrite(r)
    PROVE  [Register!Next]_([k \in Scopes |-> ActiveOf(k)])
<1>1. PICK s : s = req[r].set
  OBVIOUS
<1>2. PICK c : c = row[s].scope
  OBVIOUS
<1>3. /\ s \in Sets /\ row'[s].status = "draft"
      /\ \A u \in Sets \ {s} : row'[u] = row[u]
  BY <1>1 DEF RejectWrite, TypeOK, Row
<1>4. CASE row[s].status = "active" /\ c \in Scopes
  <2>1. s \in ActiveOf(c)
    BY <1>2, <1>3, <1>4 DEF ActiveOf, RowsOf
  <2>2. ActiveOf(c)' = {}
    BY <1>3, <1>4, <2>1 DEF ActiveOf, RowsOf, OneActivePerScope
  <2>3. \A k \in Scopes : k # c => ActiveOf(k)' = ActiveOf(k)
    BY <1>2, <1>3, <1>4 DEF ActiveOf, RowsOf
  <2>4. Register!Withdraw(c)
    BY <1>4, <2>1, <2>2, <2>3 DEF Register!Withdraw
  <2> QED
    BY <1>4, <2>4 DEF Register!Next
<1>5. CASE ~(row[s].status = "active" /\ c \in Scopes)
  <2>1. \A k \in Scopes : ActiveOf(k)' = ActiveOf(k)
    BY <1>2, <1>3, <1>5 DEF ActiveOf, RowsOf
  <2> QED
    BY <2>1
<1> QED
  BY <1>4, <1>5

\* A commit puts its own row, which was pending, in force in place of any other.
LEMMA CommitReplaces ==
    ASSUME TypeOK, LockInv, Scoped, NEW r \in Requests, ApproveCommit(r)
    PROVE  Register!Next
<1>1. PICK s : s = req[r].set
  OBVIOUS
<1>2. PICK c : c = req[r].scope
  OBVIOUS
<1>3. /\ s \in Sets /\ row[s].status = "pending_approval" /\ row[s].scope = c
      /\ \A x \in req[r].scan : row[x].status = "active" /\ row[x].scope = c
      /\ ActiveOf(c) \subseteq req[r].scan /\ req[r].scan \subseteq Sets
  BY <1>1, <1>2 DEF ApproveCommit, Activatable, LockInv, Attached, Holding, TypeOK, Request
<1>4. \A u \in Sets : row[u] \in Row
  BY DEF TypeOK
<1>5. c \in Scopes
  BY <1>3 DEF Scoped
<1>6. /\ row'[s].status = "active" /\ row'[s].scope = c
      /\ \A u \in Sets \ {s} :
           IF u \in req[r].scan THEN row'[u].status = "archived" /\ row'[u].scope = c
                                ELSE row'[u] = row[u]
  <2>1. row' = [u \in Sets |->
                 IF u = s THEN [row[u] EXCEPT !.status = "active", !.updatedAt = req[r].stamp]
                 ELSE IF u \in req[r].scan
                 THEN [row[u] EXCEPT !.status = "archived", !.updatedAt = req[r].stamp]
                 ELSE row[u]]
    BY <1>1 DEF ApproveCommit
  <2>2. ASSUME NEW x \in Row, NEW a, NEW t
        PROVE  /\ [x EXCEPT !.status = a, !.updatedAt = t].status = a
               /\ [x EXCEPT !.status = a, !.updatedAt = t].scope = x.scope
    BY DEF Row
  <2>3. row'[s].status = "active" /\ row'[s].scope = c
    <3>1. row'[s] = [row[s] EXCEPT !.status = "active", !.updatedAt = req[r].stamp]
      BY <1>3, <2>1
    <3> QED
      BY <1>3, <1>4, <2>2, <3>1
  <2>4. ASSUME NEW u \in Sets \ {s}, u \in req[r].scan
        PROVE  row'[u].status = "archived" /\ row'[u].scope = c
    <3>1. row'[u] = [row[u] EXCEPT !.status = "archived", !.updatedAt = req[r].stamp]
      BY <2>1, <2>4
    <3> QED
      BY <1>3, <1>4, <2>2, <2>4, <3>1
  <2>5. ASSUME NEW u \in Sets \ {s}, u \notin req[r].scan
        PROVE  row'[u] = row[u]
    BY <2>1, <2>5
  <2> QED
    BY <2>3, <2>4, <2>5
<1>7. ActiveOf(c)' = {s}
  BY <1>3, <1>6 DEF ActiveOf, RowsOf
<1>8. \A k \in Scopes : k # c => ActiveOf(k)' = ActiveOf(k)
  BY <1>3, <1>6 DEF ActiveOf, RowsOf
<1>9. \A k \in Scopes : s \notin ActiveOf(k)
  BY <1>3 DEF ActiveOf, RowsOf
<1>10. Register!Replace(c, s)
  BY <1>5, <1>7, <1>8, <1>9 DEF Register!Replace
<1> QED
  BY <1>3, <1>5, <1>10 DEF Register!Next

\* Every behaviour of the handlers is one of the register.
THEOREM RegisterImplemented == Spec => ImplementsRegister
<1>1. Init => Register!Init
  BY DEF Init, Register!Init, ActiveOf, RowsOf, NoRow
<1>2. TypeOK /\ LockInv /\ Scoped /\ OneActivePerScope /\ [Next]_vars
        => [Register!Next]_([k \in Scopes |-> ActiveOf(k)])
  <2> SUFFICES ASSUME TypeOK, LockInv, Scoped, OneActivePerScope, [Next]_vars
               PROVE  [Register!Next]_([k \in Scopes |-> ActiveOf(k)])
    OBVIOUS
  <2>1. CASE UNCHANGED vars \/ Tick
    BY <2>1 DEF vars, Tick, ActiveOf, RowsOf
  <2>2. ASSUME NEW r \in Requests, Call(r) \/ Continue(r) \/ Abandon(r)
        PROVE  [Register!Next]_([k \in Scopes |-> ActiveOf(k)])
    <3>1. CASE ApproveCommit(r)
      BY <3>1, CommitReplaces
    <3>2. CASE RejectWrite(r)
      BY <3>2, RejectWithdraws
    <3>3. CASE ~ApproveCommit(r) /\ ~RejectWrite(r)
      <4>1. \A k \in Scopes : ActiveOf(k)' = ActiveOf(k)
        BY <2>2, <3>3, OthersLeaveInForce
      <4> QED
        BY <4>1
    <3> QED
      BY <3>1, <3>2, <3>3
  <2> QED
    BY <2>1, <2>2 DEF Next
<1> QED
  BY <1>1, <1>2, LocksCorrect, AlwaysScoped, OneActive, PTL DEF Spec, ImplementsRegister, Register!Spec

----
(***************************************************************************)
(* A simulation mark vouches for the parameters of its row.                 *)
(***************************************************************************)

\* The three things a step can do to one row and its history.
Kept(s) ==
    /\ row'[s].params = row[s].params /\ row'[s].simulated = row[s].simulated
    /\ row'[s].status = "draft" =>
        row[s].status = "draft" /\ row'[s].updatedAt = row[s].updatedAt
    /\ evaluated'[s] = evaluated[s] /\ stamps'[s] = stamps[s] /\ collided'[s] = collided[s]

EditedAt(s) ==
    \E t \in Nat :
        /\ row'[s].simulated = FALSE /\ row'[s].updatedAt = t
        /\ collided'[s] = (collided[s] \/ t \in stamps[s])
        /\ stamps'[s] = stamps[s] \cup {t}

StampedBy(r, s) ==
    /\ req[r].pc = "simulate" /\ s = req[r].set /\ Unchanged(r)
    /\ row'[s].params = row[s].params /\ row'[s].updatedAt = row[s].updatedAt
    /\ evaluated'[s] = req[r].params
    /\ stamps'[s] = stamps[s] /\ collided'[s] = collided[s]

\* Every row is kept, edited or stamped by a handler's step.
LEMMA RowEffect ==
    ASSUME TypeOK, NEW r \in Requests, Continue(r), NEW s \in Sets
    PROVE  Kept(s) \/ EditedAt(s) \/ StampedBy(r, s)
<1> USE DEF history
<1>1. /\ \A x \in Sets : row[x] \in Row
      /\ clock \in Nat /\ req[r].stamp \in Nat
      /\ req[r].pc # "idle" => req[r].set \in Sets
      /\ evaluated \in [Sets -> Params \cup {None}]
      /\ stamps \in [Sets -> SUBSET Nat] /\ collided \in [Sets -> BOOLEAN]
      /\ row \in [Sets -> Row]
  BY ClockAssumption, RequestFields DEF TypeOK
<1>2. CASE UNCHANGED <<row, evaluated, stamps, collided>>
  BY <1>2 DEF Kept
<1>3. CASE Insert(r)
  <2>1. req[r].set \in Sets
    BY <1>1, <1>3 DEF Insert
  <2>2. CASE s = req[r].set
    BY <1>1, <1>3, <2>1, <2>2 DEF Insert, Edited, EditedAt
  <2>3. CASE s # req[r].set
    BY <1>1, <1>3, <2>1, <2>3 DEF Insert, Edited, Kept
  <2> QED
    BY <2>2, <2>3
<1>4. CASE PatchWrite(r) \/ RejectWrite(r)
  <2>1. req[r].set \in Sets
    BY <1>1, <1>4 DEF PatchWrite, RejectWrite
  <2>2. PICK t \in req[r].stamp..clock : Edited(req[r].set, t) /\
          \/ row' = [row EXCEPT ![req[r].set] =
               [@ EXCEPT !.params = Patched(r), !.updatedAt = t, !.simulated = FALSE]]
          \/ row' = [row EXCEPT ![req[r].set] =
               [@ EXCEPT !.status = "draft", !.simulated = FALSE, !.updatedAt = t]]
    <3>1. CASE PatchWrite(r)
      BY <3>1 DEF PatchWrite
    <3>2. CASE RejectWrite(r)
      BY <3>2 DEF RejectWrite
    <3> QED
      BY <1>4, <3>1, <3>2
  <2>3. t \in Nat
    BY <1>1, <2>2
  <2>4. CASE s = req[r].set
    <3>1. row'[s].simulated = FALSE /\ row'[s].updatedAt = t
      <4>1. row[s] \in Row
        BY <1>1
      <4>2. \/ row'[s] = [row[s] EXCEPT !.params = Patched(r), !.updatedAt = t,
                                        !.simulated = FALSE]
            \/ row'[s] = [row[s] EXCEPT !.status = "draft", !.simulated = FALSE,
                                        !.updatedAt = t]
        BY <1>1, <2>1, <2>2, <2>4
      <4> QED
        BY <4>1, <4>2 DEF Row
    <3>2. collided'[s] = (collided[s] \/ t \in stamps[s]) /\ stamps'[s] = stamps[s] \cup {t}
      BY <1>1, <2>1, <2>2, <2>4 DEF Edited
    <3> QED
      BY <2>3, <3>1, <3>2 DEF EditedAt
  <2>5. CASE s # req[r].set
    BY <1>1, <2>1, <2>2, <2>5 DEF Edited, Kept
  <2> QED
    BY <2>4, <2>5
<1>5. CASE SimulateStamp(r)
  <2>1. req[r].set \in Sets
    BY <1>1, <1>5 DEF SimulateStamp
  <2>2. CASE s = req[r].set
    BY <1>1, <1>5, <2>1, <2>2 DEF SimulateStamp, StampedBy, Row
  <2>3. CASE s # req[r].set
    BY <1>1, <1>5, <2>1, <2>3 DEF SimulateStamp, Kept
  <2> QED
    BY <2>2, <2>3
<1>6. CASE SubmitWrite(r)
  BY <1>1, <1>6 DEF SubmitWrite, Kept, Row
<1>7. CASE ApproveCommit(r)
  BY <1>1, <1>7 DEF ApproveCommit, Kept, Row
<1> QED
  BY <1>2, <1>3, <1>4, <1>5, <1>6, <1>7
     DEF Continue, NextVersion, InsertConflict, SimulateStale, SubmitStale,
         ApproveLock, ApproveGone, ApproveScan, ApproveArchive, ApproveConflict

\* A running simulation knows one of the row's edits, and if the row still
\* carries that edit's millisecond it knows the row's parameters.
Informed(x) ==
    req[x].pc = "simulate" =>
        /\ req[x].seen \in stamps[req[x].set]
        /\ row[req[x].set].status = "draft" /\ row[req[x].set].updatedAt = req[x].seen =>
            req[x].params = row[req[x].set].params \/ collided[req[x].set]

DraftsStamped == \A s \in Sets : row[s].status = "draft" => row[s].updatedAt \in stamps[s]

EvidenceInv ==
    /\ SimulationVouches
    /\ DraftsStamped
    /\ \A x \in Requests : Informed(x)

LEMMA EvidenceContinue ==
    ASSUME TypeOK, LockInv, EvidenceInv, NEW r \in Requests, Continue(r)
    PROVE  EvidenceInv'
<1>1. \A s \in Sets : Kept(s) \/ EditedAt(s) \/ StampedBy(r, s)
  BY RowEffect
<1>2. \A s \in Sets : row[s] \in Row
  BY DEF TypeOK
<1>3. SimulationVouches'
  <2> SUFFICES ASSUME NEW s \in Sets, row'[s].simulated
               PROVE  evaluated'[s] = row'[s].params \/ collided'[s]
    BY DEF SimulationVouches
  <2>1. CASE Kept(s)
    BY <2>1 DEF Kept, EvidenceInv, SimulationVouches
  <2>2. CASE EditedAt(s)
    BY <2>2 DEF EditedAt
  <2>3. CASE StampedBy(r, s)
    BY <2>3 DEF StampedBy, EvidenceInv, Informed, Unchanged
  <2> QED
    BY <1>1, <2>1, <2>2, <2>3
<1>4. DraftsStamped'
  <2> SUFFICES ASSUME NEW s \in Sets, row'[s].status = "draft"
               PROVE  row'[s].updatedAt \in stamps'[s]
    BY DEF DraftsStamped
  <2>1. CASE Kept(s)
    BY <2>1 DEF Kept, EvidenceInv, DraftsStamped
  <2>2. CASE EditedAt(s)
    BY <2>2 DEF EditedAt
  <2>3. CASE StampedBy(r, s)
    BY <2>3 DEF StampedBy, EvidenceInv, DraftsStamped, Unchanged
  <2> QED
    BY <1>1, <2>1, <2>2, <2>3
<1>5. ASSUME NEW x \in Requests, req'[x].pc = "simulate"
      PROVE  Informed(x)'
  <2>1. Frame(r)
    BY ContinueFrame DEF LockInv
  <2>2. x # r
    <3>1. req'[r].pc # "simulate"
      <4>1. req[r] \in Request
        BY DEF TypeOK
      <4>2. CASE \/ Insert(r) \/ InsertConflict(r) \/ PatchWrite(r) \/ RejectWrite(r)
                 \/ SimulateStamp(r) \/ SimulateStale(r) \/ SubmitWrite(r) \/ SubmitStale(r)
                 \/ ApproveGone(r) \/ ApproveCommit(r) \/ ApproveConflict(r)
        BY <4>2, IdleTyped
           DEF Insert, InsertConflict, PatchWrite, RejectWrite, SimulateStamp, SimulateStale,
               SubmitWrite, SubmitStale, ApproveGone, ApproveCommit, ApproveConflict,
               Responds, TypeOK
      <4>3. CASE NextVersion(r)
        BY <4>1, <4>3 DEF NextVersion, TypeOK, Request
      <4>4. CASE ApproveLock(r)
        BY <4>1, <4>4 DEF ApproveLock, TypeOK, Request
      <4>5. CASE ApproveScan(r)
        BY <4>1, <4>5 DEF ApproveScan, TypeOK, Request
      <4>6. CASE ApproveArchive(r)
        BY <4>1, <4>6 DEF ApproveArchive, TypeOK, Request
      <4> QED
        BY <4>2, <4>3, <4>4, <4>5, <4>6 DEF Continue
    <3> QED
      BY <1>5, <3>1
  <2>3. req'[x] = req[x]
    BY <2>1, <2>2 DEF Frame
  <2> DEFINE s == req[x].set
  <2>4. s \in Sets /\ Informed(x) /\ req[x].pc = "simulate"
    BY <1>5, <2>3 DEF EvidenceInv, TypeOK
  <2>5. CASE Kept(s)
    BY <2>3, <2>4, <2>5 DEF Kept, Informed
  <2>6. CASE EditedAt(s)
    BY <2>3, <2>4, <2>6 DEF EditedAt, Informed
  <2>7. CASE StampedBy(r, s)
    BY <2>3, <2>4, <2>7 DEF StampedBy, Informed, Unchanged
  <2> QED
    BY <1>1, <2>4, <2>5, <2>6, <2>7
<1> QED
  BY <1>3, <1>4, <1>5 DEF EvidenceInv, Informed

LEMMA EvidenceStep ==
    TypeOK /\ LockInv /\ EvidenceInv /\ [Next]_vars => EvidenceInv'
<1> SUFFICES ASSUME TypeOK, LockInv, EvidenceInv, [Next]_vars PROVE EvidenceInv'
  OBVIOUS
<1> USE DEF EvidenceInv, SimulationVouches, DraftsStamped, Informed, history
<1>1. CASE UNCHANGED vars \/ Tick
  BY <1>1 DEF vars, Tick
<1>2. ASSUME NEW r \in Requests, Call(r) PROVE EvidenceInv'
  <2>1. UNCHANGED <<row, evaluated, stamps, collided>>
    BY <1>2 DEF Call, Create, Restore, PatchRead, SimulateRead, SubmitRead, ApproveRead,
                RejectRead
  <2>2. \A x \in Requests \ {r} : req'[x] = req[x]
    BY <1>2, CallFrame DEF Frame
  <2>3. req'[r].pc = "simulate" =>
          \E s \in Sets : /\ row[s].status = "draft" /\ req'[r].set = s
                          /\ req'[r].params = row[s].params
                          /\ req'[r].seen = row[s].updatedAt
    <3> USE DEF Goes, Idle, TypeOK
    <3>1. PICK s \in Sets :
            \/ \E k \in Scopes, p \in Params : Create(r, s, k, p)
            \/ \E old \in Sets : Restore(r, s, old)
            \/ \E p \in Params \cup {None} : PatchRead(r, s, p)
            \/ SimulateRead(r, s)
            \/ SubmitRead(r, s)
            \/ ApproveRead(r, s)
            \/ RejectRead(r, s)
      BY <1>2 DEF Call
    <3>2. CASE SimulateRead(r, s)
      BY <3>2 DEF SimulateRead
    <3>3. CASE ~SimulateRead(r, s)
      <4>1. CASE \E k \in Scopes, p \in Params : Create(r, s, k, p)
        BY <4>1 DEF Create
      <4>2. CASE \E old \in Sets : Restore(r, s, old)
        BY <4>2 DEF Restore
      <4>3. CASE \E p \in Params \cup {None} : PatchRead(r, s, p)
        BY <4>3 DEF PatchRead
      <4>4. CASE SubmitRead(r, s)
        BY <4>4 DEF SubmitRead
      <4>5. CASE ApproveRead(r, s)
        BY <4>5 DEF ApproveRead
      <4>6. CASE RejectRead(r, s)
        BY <4>6 DEF RejectRead
      <4> QED
        BY <3>1, <3>3, <4>1, <4>2, <4>3, <4>4, <4>5, <4>6
    <3> QED
      BY <3>2, <3>3
  <2> QED
    BY <2>1, <2>2, <2>3
<1>3. ASSUME NEW r \in Requests, Continue(r) PROVE EvidenceInv'
  BY <1>3, EvidenceContinue
<1>4. ASSUME NEW r \in Requests, Abandon(r) PROVE EvidenceInv'
  <2>1. UNCHANGED <<row, evaluated, stamps, collided>>
    BY <1>4 DEF Abandon
  <2>2. req'[r].pc = "idle" /\ \A x \in Requests \ {r} : req'[x] = req[x]
    BY <1>4, IdleTyped, CallFrame DEF Frame, Abandon, Responds, TypeOK
  <2> QED
    BY <2>1, <2>2
<1> QED
  BY <1>1, <1>2, <1>3, <1>4 DEF Next

\* A set that carries a simulation mark holds the simulated parameters, unless
\* two of its edits fell into one millisecond.
THEOREM SimulationsVouch == Spec => []SimulationVouches
<1>1. Init => EvidenceInv
  BY DEF Init, EvidenceInv, SimulationVouches, DraftsStamped, Informed, NoRow, Idle
<1>2. EvidenceInv => SimulationVouches
  BY DEF EvidenceInv
<1> QED
  BY <1>1, <1>2, EvidenceStep, LocksCorrect, PTL DEF Spec
----
(***************************************************************************)
(* The versions of a scope have no duplicate and no gap.                    *)
(***************************************************************************)

\* The versions of one scope.
Contiguous(k) ==
    \A s \in RowsOf(k) : /\ row[s].version >= 1
                         /\ \A u \in RowsOf(k) : row[u].version = row[s].version => u = s
                         /\ \A v \in 1..row[s].version : v \in Versions(k)

\* A handler about to insert has read the greatest version, and no version goes away.
Numbered(x) ==
    req[x].pc = "insert" =>
        req[x].version >= 1 /\ \A v \in 1..(req[x].version - 1) : v \in Versions(req[x].scope)

NumberInv == (\A k : Contiguous(k)) /\ \A x \in Requests : Numbered(x)

\* A row keeps its version.
LEMMA VersionKept ==
    ASSUME TypeOK, LockInv, NEW r \in Requests, Call(r) \/ Continue(r) \/ Abandon(r),
           NEW s \in Sets, row[s].status # "none"
    PROVE  row'[s].version = row[s].version
<1>1. row \in [Sets -> Row] /\ row[s] \in Row /\ (req[r].pc # "idle" => req[r].set \in Sets)
  BY DEF TypeOK
<1>2. CASE row' = row
  BY <1>2
<1>3. CASE Insert(r)
  <2>1. s # req[r].set
    BY <1>3 DEF Insert, LockInv, Attached, Inserting
  <2> QED
    BY <1>1, <1>3, <2>1 DEF Insert
<1>4. CASE PatchWrite(r)
  BY <1>1, <1>4 DEF PatchWrite, Row
<1>5. CASE RejectWrite(r)
  BY <1>1, <1>5 DEF RejectWrite, Row
<1>6. CASE SimulateStamp(r)
  BY <1>1, <1>6 DEF SimulateStamp, Row
<1>7. CASE SubmitWrite(r)
  BY <1>1, <1>7 DEF SubmitWrite, Row
<1>8. CASE ApproveCommit(r)
  BY <1>1, <1>8 DEF ApproveCommit, Row
<1> QED
  BY <1>2, <1>3, <1>4, <1>5, <1>6, <1>7, <1>8
     DEF Continue, Call, Abandon, NextVersion, InsertConflict, SimulateStale, SubmitStale,
         ApproveLock, ApproveGone, ApproveScan, ApproveArchive, ApproveConflict,
         Create, Restore, PatchRead, SimulateRead, SubmitRead, ApproveRead, RejectRead

\* The versions of a scope only grow, and by an insertion only.
LEMMA VersionsGrow ==
    ASSUME TypeOK, LockInv, NEW r \in Requests, Call(r) \/ Continue(r) \/ Abandon(r), NEW k
    PROVE  /\ Versions(k) \subseteq Versions(k)'
           /\ ~Insert(r) => RowsOf(k)' = RowsOf(k) /\ Versions(k)' = Versions(k)
<1>1. Frame(r)
  BY ContinueFrame, CallFrame DEF LockInv
<1>2. \A s \in RowsOf(k) : s \in RowsOf(k)' /\ row'[s].version = row[s].version
  BY <1>1, VersionKept DEF RowsOf, Frame
<1>3. ASSUME ~Insert(r), NEW s \in Sets, row[s].status = "none"
      PROVE  row'[s].status = "none"
  <2>1. SUFFICES ASSUME row'[s] # row[s]
                 PROVE  FALSE
    BY <1>3
  <2>2. req[r].pc = "insert" /\ s = req[r].set
    BY <1>1, <1>3, <2>1 DEF Frame
  <2>3. row' = row
    <3>1. CASE Call(r) \/ Abandon(r)
      BY <2>2, <3>1 DEF Call, Abandon, Create, Restore, PatchRead, SimulateRead, SubmitRead,
                        ApproveRead, RejectRead
    <3>2. CASE Continue(r)
      BY <1>3, <2>2, <3>2
         DEF Continue, NextVersion, InsertConflict, PatchWrite, SimulateStamp, SimulateStale,
             SubmitWrite, SubmitStale, ApproveLock, ApproveGone, ApproveScan, ApproveArchive,
             ApproveCommit, ApproveConflict, RejectWrite
    <3> QED
      BY <3>1, <3>2
  <2> QED
    BY <2>1, <2>3
<1>4. ~Insert(r) => RowsOf(k)' = RowsOf(k)
  BY <1>1, <1>2, <1>3 DEF RowsOf, Frame
<1> QED
  BY <1>2, <1>4 DEF Versions

\* An inserted row continues its scope's versions.
LEMMA InsertContinues ==
    ASSUME TypeOK, LockInv, NumberInv, NEW r \in Requests, Insert(r), NEW k
    PROVE  Contiguous(k)'
<1> DEFINE n == req[r].version
<1>1. PICK s \in Sets : s = req[r].set
  BY DEF Insert, TypeOK
<1>2. PICK h : h = req[r].scope
  OBVIOUS
<1>3. PICK m \in Nat : m = req[r].version
  BY RequestFields DEF TypeOK
<1>4. /\ row'[s].status = "draft" /\ row'[s].scope = h /\ row'[s].version = m
      /\ \A u \in Sets : u # s => row'[u] = row[u]
      /\ m \notin Versions(h) /\ row[s].status = "none"
  BY <1>1, <1>2, <1>3 DEF Insert, VersionFree, TypeOK, LockInv, Attached, Inserting
<1>5. m >= 1 /\ \A v \in 1..(m - 1) : v \in Versions(h)
  BY <1>2, <1>3 DEF Insert, NumberInv, Numbered
<1>6. Contiguous(k) /\ Versions(k) \subseteq Versions(k)'
  BY VersionsGrow DEF NumberInv, Continue
<1>7. \A u \in Sets : u \in RowsOf(k)' <=> (u = s /\ k = h) \/ u \in RowsOf(k)
  BY <1>4 DEF RowsOf
<1>8. s \notin RowsOf(k)
  BY <1>4 DEF RowsOf
<1>9. \A u \in RowsOf(k) : u \in Sets /\ row'[u].version = row[u].version
  BY <1>4, <1>8 DEF RowsOf
<1>10. k = h => \A u \in RowsOf(k) : row[u].version # m
  BY <1>4 DEF Versions
<1>11. ASSUME k = h, NEW v \in 1..m
       PROVE  v \in Versions(k)'
  <2>1. CASE v = m
    <3>1. s \in RowsOf(k)'
      BY <1>7, <1>11
    <3> QED
      BY <1>4, <2>1, <3>1 DEF Versions
  <2>2. CASE v # m
    BY <1>5, <1>6, <1>11, <2>2
  <2> QED
    BY <2>1, <2>2
<1>12. ASSUME NEW u \in RowsOf(k)'
       PROVE  /\ row'[u].version >= 1
              /\ \A w \in RowsOf(k)' : row'[w].version = row'[u].version => w = u
              /\ \A v \in 1..row'[u].version : v \in Versions(k)'
  <2>1. u \in Sets
    BY <1>12 DEF RowsOf
  <2>2. CASE u = s /\ k = h
    <3>1. \A w \in RowsOf(k)' : row'[w].version = m => w = s
      <4>1. RowsOf(k)' \subseteq Sets
        BY DEF RowsOf
      <4> QED
        BY <1>7, <1>9, <1>10, <2>2, <4>1
    <3> QED
      BY <1>4, <1>5, <1>11, <2>2, <3>1
  <2>3. CASE u \in RowsOf(k)
    <3>1. /\ row[u].version >= 1 /\ row'[u].version = row[u].version
          /\ \A w \in RowsOf(k) : row[w].version = row[u].version => w = u
          /\ \A v \in 1..row[u].version : v \in Versions(k)
      BY <1>6, <1>9, <2>3 DEF Contiguous
    <3>2. ASSUME NEW w \in RowsOf(k)', row'[w].version = row[u].version
          PROVE  w = u
      <4>1. w \in Sets
        BY DEF RowsOf
      <4>2. CASE w = s /\ k = h
        BY <1>4, <1>10, <2>3, <3>2, <4>2
      <4>3. CASE w \in RowsOf(k)
        BY <1>9, <3>1, <3>2, <4>3
      <4> QED
        BY <1>7, <4>1, <4>2, <4>3
    <3> QED
      BY <1>6, <3>1, <3>2
  <2> QED
    BY <1>7, <1>12, <2>1, <2>2, <2>3
<1> QED
  BY <1>12 DEF Contiguous

\* Reading the greatest version.
LEMMA ReadsGreatest ==
    ASSUME TypeOK, NumberInv, NEW r \in Requests, NextVersion(r)
    PROVE  Numbered(r)'
<1>1. PICK k : k = req[r].scope
  OBVIOUS
<1>2. PICK v \in {0} \cup Versions(k) :
        req' = [req EXCEPT ![r] = [@ EXCEPT !.pc = "insert", !.version = v + 1]]
  BY <1>1 DEF NextVersion
<1>3. req'[r].version = v + 1 /\ req'[r].scope = k /\ row' = row
  <2> DEFINE n == v + 1
             q == [req[r] EXCEPT !.pc = "insert", !.version = n]
  <2>1. req' = [req EXCEPT ![r] = q] /\ row' = row /\ req \in [Requests -> Request]
    BY <1>2 DEF NextVersion, TypeOK
  <2> HIDE DEF n
  <2>2. q.version = n /\ q.scope = k
    BY <1>1, <2>1 DEF Request
  <2> HIDE DEF q
  <2>3. req'[r] = q
    BY <2>1
  <2> QED
    BY <2>1, <2>2, <2>3 DEF n
<1>4. \A s \in Sets : row[s].version \in Nat
  BY RowFields DEF TypeOK
<1>5. v \in Nat
  BY <1>2, <1>4 DEF Versions, RowsOf
<1>6. \A u \in 1..v : u \in Versions(k)
  <2>1. CASE v = 0
    BY <2>1
  <2>2. CASE v \in Versions(k)
    <3>1. PICK s \in RowsOf(k) : row[s].version = v
      BY <2>2 DEF Versions
    <3> QED
      BY <3>1 DEF NumberInv, Contiguous
  <2> QED
    BY <1>2, <2>1, <2>2
<1>7. v + 1 >= 1 /\ (v + 1) - 1 = v
  BY <1>5
<1> DEFINE V == Versions(k)
<1>8. Versions(k)' = V
  BY <1>3 DEF Versions, RowsOf
<1> HIDE DEF V
<1>9. \A u \in 1..(req'[r].version - 1) : u \in Versions(k)'
  BY <1>3, <1>6, <1>7, <1>8 DEF V
<1> QED
  BY <1>3, <1>7, <1>9 DEF Numbered

\* No other step brings a handler to its insertion.
LEMMA OnlyReadNumbers ==
    ASSUME TypeOK, NEW r \in Requests, Call(r) \/ Continue(r) \/ Abandon(r), ~NextVersion(r)
    PROVE  req'[r].pc # "insert"
<1>0. req[r] \in Request /\ req \in [Requests -> Request]
  BY DEF TypeOK
<1>1. CASE Call(r)
  <2> USE DEF Goes, Idle
  <2>1. ASSUME NEW s \in Sets, NEW k \in Scopes, NEW p \in Params, Create(r, s, k, p)
        PROVE  req'[r].pc # "insert"
    BY <1>0, <2>1 DEF Create
  <2>2. ASSUME NEW s \in Sets, NEW old \in Sets, Restore(r, s, old)
        PROVE  req'[r].pc # "insert"
    BY <1>0, <2>2 DEF Restore
  <2>3. ASSUME NEW s \in Sets, NEW p \in Params \cup {None}, PatchRead(r, s, p)
        PROVE  req'[r].pc # "insert"
    BY <1>0, <2>3 DEF PatchRead
  <2>4. ASSUME NEW s \in Sets, SimulateRead(r, s)
        PROVE  req'[r].pc # "insert"
    BY <1>0, <2>4 DEF SimulateRead
  <2>5. ASSUME NEW s \in Sets, SubmitRead(r, s)
        PROVE  req'[r].pc # "insert"
    BY <1>0, <2>5 DEF SubmitRead
  <2>6. ASSUME NEW s \in Sets, ApproveRead(r, s)
        PROVE  req'[r].pc # "insert"
    BY <1>0, <2>6 DEF ApproveRead
  <2>7. ASSUME NEW s \in Sets, RejectRead(r, s)
        PROVE  req'[r].pc # "insert"
    BY <1>0, <2>7 DEF RejectRead
  <2> QED
    BY <1>1, <2>1, <2>2, <2>3, <2>4, <2>5, <2>6, <2>7 DEF Call
<1>2. CASE ApproveLock(r)
  BY <1>0, <1>2 DEF ApproveLock, Request
<1>3. CASE ApproveScan(r)
  BY <1>0, <1>3 DEF ApproveScan, Request
<1>4. CASE ApproveArchive(r)
  BY <1>0, <1>4 DEF ApproveArchive, Request
<1>5. CASE \/ Insert(r) \/ InsertConflict(r) \/ PatchWrite(r) \/ RejectWrite(r)
           \/ SimulateStamp(r) \/ SimulateStale(r) \/ SubmitWrite(r) \/ SubmitStale(r)
           \/ ApproveGone(r) \/ ApproveCommit(r) \/ ApproveConflict(r) \/ Abandon(r)
  BY <1>5, <1>0, IdleTyped
     DEF Insert, InsertConflict, PatchWrite, RejectWrite, SimulateStamp, SimulateStale,
         SubmitWrite, SubmitStale, ApproveGone, ApproveCommit, ApproveConflict, Abandon, Responds
<1> QED
  BY <1>1, <1>2, <1>3, <1>4, <1>5 DEF Continue

LEMMA NumberStep ==
    TypeOK /\ LockInv /\ NumberInv /\ [Next]_vars => NumberInv'
<1> SUFFICES ASSUME TypeOK, LockInv, NumberInv, [Next]_vars
             PROVE  NumberInv'
  OBVIOUS
<1>1. CASE UNCHANGED vars \/ Tick
  <2>1. row' = row /\ req' = req
    BY <1>1 DEF vars, Tick
  <2>2. ASSUME NEW k
        PROVE  Contiguous(k)' /\ Versions(k)' = Versions(k)
    <3>1. RowsOf(k)' = RowsOf(k)
      BY <2>1 DEF RowsOf
    <3>2. Versions(k)' = Versions(k)
      BY <2>1, <3>1 DEF Versions
    <3>3. Contiguous(k)
      BY DEF NumberInv
    <3> QED
      BY <2>1, <3>1, <3>2, <3>3 DEF Contiguous
  <2>3. ASSUME NEW x \in Requests
        PROVE  Numbered(x)'
    <3>1. PICK q : q = req[x]
      OBVIOUS
    <3>2. Versions(q.scope)' = Versions(q.scope)
      BY <2>2
    <3> QED
      BY <2>1, <3>1, <3>2 DEF NumberInv, Numbered
  <2> QED
    BY <2>2, <2>3 DEF NumberInv
<1>2. ASSUME NEW r \in Requests, Call(r) \/ Continue(r) \/ Abandon(r)
      PROVE  NumberInv'
  <2>1. ASSUME NEW x \in Requests \ {r}
        PROVE  Numbered(x)'
    <3>1. PICK q : q = req[x]
      OBVIOUS
    <3>2. req'[x] = q
      BY <1>2, <3>1, ContinueFrame, CallFrame DEF LockInv, Frame
    <3>3. Versions(q.scope) \subseteq Versions(q.scope)'
      BY <1>2, VersionsGrow
    <3> QED
      BY <3>1, <3>2, <3>3 DEF NumberInv, Numbered
  <2>2. Numbered(r)'
    <3>1. CASE NextVersion(r)
      BY <3>1, ReadsGreatest
    <3>2. CASE ~NextVersion(r)
      BY <1>2, <3>2, OnlyReadNumbers DEF Numbered
    <3> QED
      BY <3>1, <3>2
  <2>3. ASSUME NEW k
        PROVE  Contiguous(k)'
    <3>1. CASE Insert(r)
      BY <3>1, InsertContinues
    <3>2. CASE ~Insert(r)
      <4>1. RowsOf(k)' = RowsOf(k) /\ Versions(k)' = Versions(k)
        BY <1>2, <3>2, VersionsGrow
      <4>2. \A s \in RowsOf(k) : row'[s].version = row[s].version
        BY <1>2, VersionKept DEF RowsOf
      <4>3. Contiguous(k)
        BY DEF NumberInv
      <4> QED
        BY <4>1, <4>2, <4>3 DEF Contiguous
    <3> QED
      BY <3>1, <3>2
  <2> QED
    BY <2>1, <2>2, <2>3 DEF NumberInv
<1> QED
  BY <1>1, <1>2 DEF Next

\* The versions of a scope are 1, 2, 3, ... although create and restore read the greatest
\* one before they insert: the unique index refuses the second of two equal ones.
THEOREM VersionsHold == Spec => []VersionsContiguous
<1>1. Init => NumberInv
  BY DEF Init, NumberInv, Contiguous, RowsOf, Numbered, NoRow, Idle
<1>2. NumberInv => VersionsContiguous
  BY DEF NumberInv, Contiguous, VersionsContiguous, RowsOf
<1> QED
  BY <1>1, <1>2, NumberStep, LocksCorrect, PTL DEF Spec

----
(***************************************************************************)
(* Approvals do not wait in a circle: scans see only active rows, and the   *)
(* own row of an open approval is pending.                                  *)
(***************************************************************************)

\* A lock belongs to an open approval: it is on its own row, or on a row it
\* has archived.
Held ==
    \A s \in Sets, q \in Requests : lock[s] = q =>
        /\ req[q].pc \in Holding
        /\ s = req[q].set \/ (req[q].pc = "activate" /\ s \in req[q].scan)

\* Among approvals that have scanned, one has no other's pending row in its
\* scan: the one that scanned last.
LastScan ==
    \A W \in SUBSET {q \in Requests : req[q].pc = "archive"} : W # {} =>
        \E r \in W : \A q \in W : req[q].set \notin req[r].scan

\* A step of handler r takes locks only for r, and leaves with every lock of r
\* when the handler answers.
LEMMA HeldStep ==
    ASSUME TypeOK, LockInv, Held, NEW r \in Requests, Call(r) \/ Continue(r) \/ Abandon(r)
    PROVE  Held'
<1>0. /\ Frame(r) /\ req[r] \in Request
      /\ \A x \in Requests \ {r} : req'[x] = req[x]
  BY ContinueFrame, CallFrame DEF LockInv, Frame, TypeOK
<1>1. CASE lock' = lock /\ req[r].pc \notin Holding
  BY <1>0, <1>1 DEF Held
<1>2. CASE ApproveLock(r)
  <2>1. req'[r].pc = "locked" /\ req'[r].set = req[r].set /\ req[r].pc = "approve"
    BY <1>0, <1>2 DEF ApproveLock, TypeOK, Request
  <2>2. \A s \in Sets : lock'[s] = IF s = req[r].set THEN r ELSE lock[s]
    BY <1>2 DEF ApproveLock, TypeOK
  <2> QED
    BY <1>0, <2>1, <2>2 DEF Held, Holding
<1>3. CASE ApproveScan(r)
  <2>1. /\ req'[r].pc = "archive" /\ req'[r].set = req[r].set /\ req[r].pc = "locked"
        /\ lock' = lock
    BY <1>0, <1>3 DEF ApproveScan, TypeOK, Request
  <2> QED
    BY <1>0, <2>1 DEF Held, Holding
<1>4. CASE ApproveArchive(r)
  <2> DEFINE still == req[r].scan \cap ActiveOf(req[r].scope)
  <2>1. /\ req'[r].pc = "activate" /\ req'[r].set = req[r].set /\ req'[r].scan = still
        /\ req[r].pc = "archive"
        /\ \A s \in Sets : lock'[s] = IF s \in still THEN r ELSE lock[s]
    BY <1>0, <1>4 DEF ApproveArchive, TypeOK, Request
  <2> HIDE DEF still
  <2> QED
    BY <1>0, <2>1 DEF Held, Holding
<1>5. CASE ApproveCommit(r) \/ ApproveConflict(r) \/ Abandon(r)
  <2>1. \A s \in Sets : lock'[s] = IF lock[s] = r THEN None ELSE lock[s]
    BY <1>5 DEF ApproveCommit, ApproveConflict, Abandon, Unlocked
  <2> QED
    BY <1>0, <2>1, NoneAssumption DEF Held
<1> QED
  BY <1>1, <1>2, <1>3, <1>4, <1>5
     DEF Continue, Call, Holding, Goes, Create, Restore, PatchRead, SimulateRead, SubmitRead,
         ApproveRead, RejectRead, NextVersion, Insert, InsertConflict, PatchWrite,
         SimulateStamp, SimulateStale, SubmitWrite, SubmitStale, ApproveGone, RejectWrite

\* A handler comes to its archiving update only by scanning.
LEMMA OnlyScanArchives ==
    ASSUME TypeOK, NEW r \in Requests, Call(r) \/ Continue(r) \/ Abandon(r), ~ApproveScan(r)
    PROVE  req'[r].pc # "archive"
<1>0. req[r] \in Request
  BY DEF TypeOK
<1>1. CASE Call(r)
  <2> USE DEF Goes, Idle, TypeOK
  <2>1. ASSUME NEW s \in Sets, NEW k \in Scopes, NEW p \in Params, Create(r, s, k, p)
        PROVE  req'[r].pc # "archive"
    BY <2>1 DEF Create
  <2>2. ASSUME NEW s \in Sets, NEW old \in Sets, Restore(r, s, old)
        PROVE  req'[r].pc # "archive"
    BY <2>2 DEF Restore
  <2>3. ASSUME NEW s \in Sets, NEW p \in Params \cup {None}, PatchRead(r, s, p)
        PROVE  req'[r].pc # "archive"
    BY <2>3 DEF PatchRead
  <2>4. ASSUME NEW s \in Sets, SimulateRead(r, s)
        PROVE  req'[r].pc # "archive"
    BY <2>4 DEF SimulateRead
  <2>5. ASSUME NEW s \in Sets, SubmitRead(r, s)
        PROVE  req'[r].pc # "archive"
    BY <2>5 DEF SubmitRead
  <2>6. ASSUME NEW s \in Sets, ApproveRead(r, s)
        PROVE  req'[r].pc # "archive"
    BY <2>6 DEF ApproveRead
  <2>7. ASSUME NEW s \in Sets, RejectRead(r, s)
        PROVE  req'[r].pc # "archive"
    BY <2>7 DEF RejectRead
  <2> QED
    BY <1>1, <2>1, <2>2, <2>3, <2>4, <2>5, <2>6, <2>7 DEF Call
<1>2. CASE NextVersion(r)
  BY <1>0, <1>2 DEF NextVersion, TypeOK, Request
<1>3. CASE ApproveLock(r)
  BY <1>0, <1>3 DEF ApproveLock, TypeOK, Request
<1>4. CASE ApproveArchive(r)
  BY <1>0, <1>4 DEF ApproveArchive, TypeOK, Request
<1>5. CASE \/ Insert(r) \/ InsertConflict(r) \/ PatchWrite(r) \/ RejectWrite(r)
           \/ SimulateStamp(r) \/ SimulateStale(r) \/ SubmitWrite(r) \/ SubmitStale(r)
           \/ ApproveGone(r) \/ ApproveCommit(r) \/ ApproveConflict(r) \/ Abandon(r)
  BY <1>5, IdleTyped
     DEF Insert, InsertConflict, PatchWrite, RejectWrite, SimulateStamp, SimulateStale,
         SubmitWrite, SubmitStale, ApproveGone, ApproveCommit, ApproveConflict,
         Abandon, Responds, TypeOK
<1> QED
  BY <1>1, <1>2, <1>3, <1>4, <1>5 DEF Continue

\* A new scan holds only active rows, so no open approval's own row.
LEMMA LastScanStep ==
    ASSUME TypeOK, LockInv, LastScan, NEW r \in Requests, Call(r) \/ Continue(r) \/ Abandon(r)
    PROVE  LastScan'
<1>0. /\ req[r] \in Request
      /\ \A x \in Requests \ {r} : req'[x] = req[x]
  BY ContinueFrame, CallFrame DEF LockInv, Frame, TypeOK
<1> SUFFICES ASSUME NEW W \in SUBSET Requests, W # {}, \A q \in W : req'[q].pc = "archive"
             PROVE  \E x \in W : \A q \in W : req'[q].set \notin req'[x].scan
  BY DEF LastScan
<1>1. CASE r \notin W
  BY <1>0, <1>1 DEF LastScan
<1>2. CASE r \in W
  <2>1. ApproveScan(r)
    BY <1>2, OnlyScanArchives
  <2> DEFINE A == ActiveOf(req[r].scope)
  <2>2. /\ req[r].pc = "locked" /\ req'[r].set = req[r].set /\ req'[r].scan = A
    BY <1>0, <2>1 DEF ApproveScan, TypeOK, Request
  <2>3. \A s \in A : row[s].status = "active"
    BY DEF ActiveOf
  <2> HIDE DEF A
  <2>4. \A q \in W : req'[q].set = req[q].set /\ req[q].pc \in Holding
    BY <1>0, <2>2 DEF Holding
  <2>5. \A q \in W : row[req[q].set].status = "pending_approval"
    BY <2>4 DEF LockInv, Attached
  <2> QED
    BY <1>2, <2>2, <2>3, <2>4, <2>5
<1> QED
  BY <1>1, <1>2

\* In every group of handlers one waits for none of the group.
LEMMA SinkExists ==
    ASSUME TypeOK, Held, LastScan
    PROVE  NeverWaitInCircle
<1> SUFFICES ASSUME NEW W \in SUBSET Requests, W # {}
             PROVE  \E r \in W : \A q \in W : ~Waits(r, q)
  BY DEF NeverWaitInCircle
<1>1. \A r \in Requests, q \in Requests : Waits(r, q) => req[q].pc \in Holding
  <2> SUFFICES ASSUME NEW r \in Requests, NEW q \in Requests, Waits(r, q)
               PROVE  req[q].pc \in Holding
    OBVIOUS
  <2>1. PICK s \in Sets : lock[s] = q
    <3>1. req[r].pc # "idle" /\ req[r].set \in Sets /\ req[r].scan \subseteq Sets
      BY RequestFields DEF Waits, TypeOK
    <3> QED
      BY <3>1 DEF Waits
  <2> QED
    BY <2>1 DEF Held
<1>2. CASE \E q \in W : req[q].pc \in {"locked", "activate"}
  BY <1>2 DEF Waits
<1>3. CASE \A q \in W : req[q].pc \notin Holding
  BY <1>1, <1>3
<1>4. CASE /\ \A q \in W : req[q].pc \notin {"locked", "activate"}
           /\ \E q \in W : req[q].pc = "archive"
  <2> DEFINE A == {q \in W : req[q].pc = "archive"}
  <2>1. A \in SUBSET {q \in Requests : req[q].pc = "archive"} /\ A # {}
    BY <1>4
  <2>2. PICK r \in A : \A q \in A : req[q].set \notin req[r].scan
    BY <2>1 DEF LastScan
  <2>3. ASSUME NEW q \in W, Waits(r, q) PROVE FALSE
    <3>1. r \in Requests /\ req[r].pc = "archive" /\ req[r].scan \subseteq Sets
      BY <2>2, RequestFields DEF TypeOK
    <3>2. PICK s \in req[r].scan : lock[s] = q
      BY <2>3, <3>1 DEF Waits
    <3>3. req[q].pc \in Holding /\ (s = req[q].set \/ req[q].pc = "activate")
      BY <3>1, <3>2 DEF Held
    <3>4. q \in A /\ s = req[q].set
      BY <1>4, <3>3 DEF Holding
    <3> QED
      BY <2>2, <3>2, <3>4
  <2> QED
    BY <2>2, <2>3
<1> QED
  BY <1>2, <1>3, <1>4 DEF Holding

\* No handlers wait in a circle for each other's rows, for any number of
\* requests, sets and scopes: PostgreSQL never has a deadlock to break here.
THEOREM NoCircle == Spec => []NeverWaitInCircle
<1>1. Init => Held /\ LastScan
  BY NoneAssumption DEF Init, Held, LastScan, Idle
<1>2. TypeOK /\ LockInv /\ Held /\ LastScan /\ [Next]_vars => Held' /\ LastScan'
  <2> SUFFICES ASSUME TypeOK, LockInv, Held, LastScan, [Next]_vars
               PROVE  Held' /\ LastScan'
    OBVIOUS
  <2>1. CASE UNCHANGED vars \/ Tick
    BY <2>1 DEF vars, Tick, Held, LastScan
  <2>2. ASSUME NEW r \in Requests, Call(r) \/ Continue(r) \/ Abandon(r)
        PROVE  Held' /\ LastScan'
    BY <2>2, HeldStep, LastScanStep
  <2> QED
    BY <2>1, <2>2 DEF Next
<1>3. TypeOK /\ Held /\ LastScan => NeverWaitInCircle
  BY SinkExists
<1> QED
  BY <1>1, <1>2, <1>3, LocksCorrect, PTL DEF Spec
====
