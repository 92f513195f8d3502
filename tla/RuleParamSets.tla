---- MODULE RuleParamSets ----
(***************************************************************************)
(* The approval workflow of the rule center's parameter sets                *)
(* (apps/web/server/routes/rules.ts over table rule_param_sets).            *)
(*                                                                          *)
(* Every HTTP handler first loads the row and checks its status, then       *)
(* writes it with a separate statement.  Other requests run in between, so  *)
(* a request is a process with a local record: what it read, and where it   *)
(* is.  The approve handler is a read-committed transaction of three        *)
(* statements; its uncommitted writes live in the request's record and the  *)
(* rows it has locked make every other UPDATE of them wait.                 *)
(***************************************************************************)
EXTENDS Naturals

CONSTANTS
    Sets,       \* ids a row of rule_param_sets can have
    Scopes,     \* (module_code, scope_type, scope_value) triples
    Params,     \* values of the params column that validateParamPatch accepts
    Requests,   \* handlers that may run at the same time
    None,       \* no row, no scope, no value
    MaxClock    \* bound: last millisecond of the modelled clock

ASSUME NoneAssumption == None \notin Sets \cup Scopes \cup Params \cup Requests
ASSUME ClockAssumption == MaxClock \in Nat

VARIABLES
    row,        \* the table: one record per id, status "none" while unused
    lock,       \* the request whose open transaction has locked the row
    req,        \* the local state of each running handler
    clock,      \* new Date() in milliseconds
    evaluated,  \* history: the params the last successful simulation ran with
    stamps,     \* history: every updated_at an edit has given the row
    collided    \* history: two edits of the row carried the same millisecond

vars == <<row, lock, req, clock, evaluated, stamps, collided>>
history == <<evaluated, stamps, collided>>

Status == {"none", "draft", "pending_approval", "active", "archived"}

Row == [status: Status, scope: Scopes \cup {None}, params: Params \cup {None},
        version: Nat, updatedAt: Nat, simulated: BOOLEAN]

NoRow == [status |-> "none", scope |-> None, params |-> None,
          version |-> 0, updatedAt |-> 0, simulated |-> FALSE]

\* Where a handler is: the statement it will run next.
Point == {"idle", "version", "insert", "patch", "simulate", "submit",
          "approve", "locked", "archive", "activate", "reject"}

Request == [pc: Point, set: Sets \cup {None}, scope: Scopes \cup {None},
            params: Params \cup {None}, version: Nat, stamp: Nat,
            seen: Nat, scan: SUBSET Sets]

Idle == [pc |-> "idle", set |-> None, scope |-> None, params |-> None,
         version |-> 0, stamp |-> 0, seen |-> 0, scan |-> {}]

TypeOK ==
    /\ row \in [Sets -> Row]
    /\ lock \in [Sets -> Requests \cup {None}]
    /\ req \in [Requests -> Request]
    /\ \A r \in Requests : req[r].pc # "idle" => req[r].set \in Sets
    /\ clock \in 0..MaxClock
    /\ evaluated \in [Sets -> Params \cup {None}]
    /\ stamps \in [Sets -> SUBSET Nat]
    /\ collided \in [Sets -> BOOLEAN]

Init ==
    /\ row = [s \in Sets |-> NoRow]
    /\ lock = [s \in Sets |-> None]
    /\ req = [r \in Requests |-> Idle]
    /\ clock = 0
    /\ evaluated = [s \in Sets |-> None]
    /\ stamps = [s \in Sets |-> {}]
    /\ collided = [s \in Sets |-> FALSE]

----
(* Rows and requests *)

RowsOf(k) == {s \in Sets : row[s].status # "none" /\ row[s].scope = k}
ActiveOf(k) == {s \in RowsOf(k) : row[s].status = "active"}
Versions(k) == {row[s].version : s \in RowsOf(k)}

\* An id gen_random_uuid() may return: no row has it, no handler is about to.
Fresh(s) == row[s].status = "none" /\ \A q \in Requests : req[q].set # s

\* A handler past its checks, about to run the statement at q.pc on q.set.
Goes(r, q) == req[r].pc = "idle" /\ req' = [req EXCEPT ![r] = q]
Responds(r) == req' = [req EXCEPT ![r] = Idle]

\* The row handler r will update, once no other transaction holds it.
Writable(r) == lock[req[r].set] = None

\* What an edit at millisecond t leaves in the history of row s.
Edited(s, t) ==
    /\ collided' = [collided EXCEPT ![s] = @ \/ t \in stamps[s]]
    /\ stamps' = [stamps EXCEPT ![s] = @ \cup {t}]
    /\ UNCHANGED evaluated

----
(* POST param-sets, POST restore: read max(version), then insert a draft *)

Create(r, s, k, p) ==
    /\ Fresh(s)
    /\ Goes(r, [Idle EXCEPT !.pc = "version", !.set = s, !.scope = k, !.params = p])
    /\ UNCHANGED <<row, lock, clock, history>>

Restore(r, s, old) ==
    /\ Fresh(s)
    /\ row[old].status = "archived"
    /\ Goes(r, [Idle EXCEPT !.pc = "version", !.set = s, !.scope = row[old].scope,
                            !.params = row[old].params])
    /\ UNCHANGED <<row, lock, clock, history>>

NextVersion(r) ==
    /\ req[r].pc = "version"
    /\ \E v \in {0} \cup Versions(req[r].scope) :
        /\ \A u \in Versions(req[r].scope) : u <= v
        /\ req' = [req EXCEPT ![r] = [@ EXCEPT !.pc = "insert", !.version = v + 1]]
    /\ UNCHANGED <<row, lock, clock, history>>

\* Mutant: the version index is missing.
VersionAlwaysFree(r) == TRUE

\* The unique index on (module_code, scope_type, scope_value, version).
VersionFree(r) == req[r].version \notin Versions(req[r].scope)

Insert(r) ==
    LET s == req[r].set IN
    /\ req[r].pc = "insert"
    /\ VersionFree(r)
    /\ row' = [row EXCEPT ![s] =
                [status |-> "draft", scope |-> req[r].scope, params |-> req[r].params,
                 version |-> req[r].version, updatedAt |-> clock, simulated |-> FALSE]]
    /\ Edited(s, clock)
    /\ Responds(r)
    /\ UNCHANGED <<lock, clock>>

InsertConflict(r) ==
    /\ req[r].pc = "insert"
    /\ ~VersionFree(r)
    /\ Responds(r)
    /\ UNCHANGED <<row, lock, clock, history>>

----
(* PATCH param-sets/:id: the update names the row by id only *)

\* p = None: the body changes the note and leaves the params alone.
PatchRead(r, s, p) ==
    /\ row[s].status = "draft"
    /\ Goes(r, [Idle EXCEPT !.pc = "patch", !.set = s, !.params = p, !.stamp = clock])
    /\ UNCHANGED <<row, lock, clock, history>>

Patched(r) ==
    IF req[r].params = None THEN row[req[r].set].params ELSE req[r].params

PatchWrite(r) ==
    LET s == req[r].set IN
    /\ req[r].pc = "patch"
    /\ Writable(r)
    /\ \E t \in req[r].stamp..clock :
        /\ row' = [row EXCEPT ![s] =
                    [@ EXCEPT !.params = Patched(r), !.updatedAt = t, !.simulated = FALSE]]
        /\ Edited(s, t)
    /\ Responds(r)
    /\ UNCHANGED <<lock, clock>>

----
(* POST simulate: evaluate what was read, then stamp if nothing has changed *)

SimulateRead(r, s) ==
    /\ row[s].status = "draft"
    /\ Goes(r, [Idle EXCEPT !.pc = "simulate", !.set = s, !.params = row[s].params,
                            !.seen = row[s].updatedAt])
    /\ UNCHANGED <<row, lock, clock, history>>

\* Mutant: the stamp only asks whether the row is still a draft.
StillDraft(r) == row[req[r].set].status = "draft"

\* The WHERE clause: still a draft, updated_at equal to the captured millisecond.
Unchanged(r) ==
    /\ row[req[r].set].status = "draft"
    /\ row[req[r].set].updatedAt = req[r].seen

SimulateStamp(r) ==
    LET s == req[r].set IN
    /\ req[r].pc = "simulate"
    /\ Writable(r)
    /\ Unchanged(r)
    /\ row' = [row EXCEPT ![s] = [@ EXCEPT !.simulated = TRUE]]
    /\ evaluated' = [evaluated EXCEPT ![s] = req[r].params]
    /\ Responds(r)
    /\ UNCHANGED <<lock, clock, stamps, collided>>

SimulateStale(r) ==
    /\ req[r].pc = "simulate"
    /\ Writable(r)
    /\ ~Unchanged(r)
    /\ Responds(r)
    /\ UNCHANGED <<row, lock, clock, history>>

----
(* POST submit *)

SubmitRead(r, s) ==
    /\ row[s].status = "draft" /\ row[s].simulated
    /\ Goes(r, [Idle EXCEPT !.pc = "submit", !.set = s, !.stamp = clock])
    /\ UNCHANGED <<row, lock, clock, history>>

Submittable(r) == row[req[r].set].status = "draft" /\ row[req[r].set].simulated

SubmitWrite(r) ==
    LET s == req[r].set IN
    /\ req[r].pc = "submit"
    /\ Writable(r)
    /\ Submittable(r)
    /\ \E t \in req[r].stamp..clock :
        row' = [row EXCEPT ![s] =
                    [@ EXCEPT !.status = "pending_approval", !.updatedAt = t]]
    /\ Responds(r)
    /\ UNCHANGED <<lock, clock, history>>

SubmitStale(r) ==
    /\ req[r].pc = "submit"
    /\ Writable(r)
    /\ ~Submittable(r)
    /\ Responds(r)
    /\ UNCHANGED <<row, lock, clock, history>>

----
(* POST approve: lock the pending row, archive the active one, activate *)

ApproveRead(r, s) ==
    /\ row[s].status = "pending_approval"
    /\ Goes(r, [Idle EXCEPT !.pc = "approve", !.set = s, !.scope = row[s].scope,
                            !.stamp = clock])
    /\ UNCHANGED <<row, lock, clock, history>>

\* Mutant: the select in the transaction has no FOR UPDATE.
ApproveSelect(r) ==
    /\ req[r].pc = "approve"
    /\ Writable(r)
    /\ row[req[r].set].status = "pending_approval"
    /\ req' = [req EXCEPT ![r] = [@ EXCEPT !.pc = "locked"]]
    /\ UNCHANGED <<row, lock, clock, history>>

ApproveLock(r) ==
    /\ req[r].pc = "approve"
    /\ Writable(r)
    /\ row[req[r].set].status = "pending_approval"
    /\ lock' = [lock EXCEPT ![req[r].set] = r]
    /\ req' = [req EXCEPT ![r] = [@ EXCEPT !.pc = "locked"]]
    /\ UNCHANGED <<row, clock, history>>

ApproveGone(r) ==
    /\ req[r].pc = "approve"
    /\ Writable(r)
    /\ row[req[r].set].status # "pending_approval"
    /\ Responds(r)
    /\ UNCHANGED <<row, lock, clock, history>>

\* Mutant: the archiving update also takes the other pending sets of the scope.
ApproveScanPending(r) ==
    /\ req[r].pc = "locked"
    /\ req' = [req EXCEPT ![r] = [@ EXCEPT !.pc = "archive",
                !.scan = {s \in RowsOf(req[r].scope) \ {req[r].set} :
                            row[s].status \in {"active", "pending_approval"}}]]
    /\ UNCHANGED <<row, lock, clock, history>>

\* The archiving UPDATE starts: its snapshot is the committed active rows.
ApproveScan(r) ==
    /\ req[r].pc = "locked"
    /\ req' = [req EXCEPT ![r] =
                [@ EXCEPT !.pc = "archive", !.scan = ActiveOf(req[r].scope)]]
    /\ UNCHANGED <<row, lock, clock, history>>

\* Mutant: the archiving update runs outside the transaction.
ApproveArchiveCommitted(r) ==
    LET still == req[r].scan \cap ActiveOf(req[r].scope) IN
    /\ req[r].pc = "archive"
    /\ \A s \in req[r].scan : lock[s] = None
    /\ row' = [s \in Sets |-> IF s \in still
                              THEN [row[s] EXCEPT !.status = "archived"] ELSE row[s]]
    /\ req' = [req EXCEPT ![r] = [@ EXCEPT !.pc = "activate", !.scan = still]]
    /\ UNCHANGED <<lock, clock, history>>

\* It waits for the rows of its snapshot and rechecks them when it has them.
ApproveArchive(r) ==
    LET still == req[r].scan \cap ActiveOf(req[r].scope) IN
    /\ req[r].pc = "archive"
    /\ \A s \in req[r].scan : lock[s] = None
    /\ lock' = [s \in Sets |-> IF s \in still THEN r ELSE lock[s]]
    /\ req' = [req EXCEPT ![r] = [@ EXCEPT !.pc = "activate", !.scan = still]]
    /\ UNCHANGED <<row, clock, history>>

\* Mutant: the index over active rows is missing.
StillPending(r) == row[req[r].set].status = "pending_approval"

\* The second WHERE clause and the unique index over active rows.
Activatable(r) ==
    /\ row[req[r].set].status = "pending_approval"
    /\ ActiveOf(req[r].scope) \subseteq req[r].scan

Unlocked(r) == [s \in Sets |-> IF lock[s] = r THEN None ELSE lock[s]]

ApproveCommit(r) ==
    /\ req[r].pc = "activate"
    /\ Activatable(r)
    /\ row' = [s \in Sets |->
                IF s = req[r].set
                THEN [row[s] EXCEPT !.status = "active", !.updatedAt = req[r].stamp]
                ELSE IF s \in req[r].scan
                THEN [row[s] EXCEPT !.status = "archived", !.updatedAt = req[r].stamp]
                ELSE row[s]]
    /\ lock' = Unlocked(r)
    /\ Responds(r)
    /\ UNCHANGED <<clock, history>>

ApproveConflict(r) ==
    /\ req[r].pc = "activate"
    /\ ~Activatable(r)
    /\ lock' = Unlocked(r)
    /\ Responds(r)
    /\ UNCHANGED <<row, clock, history>>

----
(* POST reject: the update names the row by id only *)

RejectRead(r, s) ==
    /\ row[s].status = "pending_approval"
    /\ Goes(r, [Idle EXCEPT !.pc = "reject", !.set = s, !.stamp = clock])
    /\ UNCHANGED <<row, lock, clock, history>>

RejectWrite(r) ==
    LET s == req[r].set IN
    /\ req[r].pc = "reject"
    /\ Writable(r)
    /\ \E t \in req[r].stamp..clock :
        /\ row' = [row EXCEPT ![s] =
                    [@ EXCEPT !.status = "draft", !.simulated = FALSE, !.updatedAt = t]]
        /\ Edited(s, t)
    /\ Responds(r)
    /\ UNCHANGED <<lock, clock>>

----
(* The environment *)

\* The process dies, the connection drops or a call throws: the handler is
\* gone and Postgres rolls its open transaction back.
Abandon(r) ==
    /\ req[r].pc # "idle"
    /\ lock' = Unlocked(r)
    /\ Responds(r)
    /\ UNCHANGED <<row, clock, history>>

Tick ==
    /\ clock < MaxClock
    /\ clock' = clock + 1
    /\ UNCHANGED <<row, lock, req, history>>

\* A client calls an endpoint.
Call(r) ==
    \E s \in Sets :
        \/ \E k \in Scopes, p \in Params : Create(r, s, k, p)
        \/ \E old \in Sets : Restore(r, s, old)
        \/ \E p \in Params \cup {None} : PatchRead(r, s, p)
        \/ SimulateRead(r, s)
        \/ SubmitRead(r, s)
        \/ ApproveRead(r, s)
        \/ RejectRead(r, s)

\* A running handler goes on to its next statement.
Continue(r) ==
    \/ NextVersion(r) \/ Insert(r) \/ InsertConflict(r)
    \/ PatchWrite(r)
    \/ SimulateStamp(r) \/ SimulateStale(r)
    \/ SubmitWrite(r) \/ SubmitStale(r)
    \/ ApproveLock(r) \/ ApproveGone(r) \/ ApproveScan(r) \/ ApproveArchive(r)
    \/ ApproveCommit(r) \/ ApproveConflict(r)
    \/ RejectWrite(r)

Next ==
    \/ Tick
    \/ \E r \in Requests : Call(r) \/ Continue(r) \/ Abandon(r)

Spec == Init /\ [][Next]_vars

----
(* Properties *)

\* "At most one active set per scope" (0123_rule_param_sets.sql:23-25), with
\* approvals of two sets of one scope running at the same time.
OneActivePerScope ==
    \A k \in Scopes : \A s, u \in ActiveOf(k) : s = u

\* The versions of a scope are 1, 2, 3, ... with no duplicate and no gap,
\* although create and restore read max(version) before they insert.
VersionsContiguous ==
    \A s \in Sets : row[s].status # "none" =>
        /\ row[s].version >= 1
        /\ \A u \in RowsOf(row[s].scope) : row[u].version = row[s].version => u = s
        /\ \A v \in 1..row[s].version : v \in Versions(row[s].scope)

\* A simulation mark vouches for the parameters the row holds now, unless two
\* edits of that row carried the same millisecond: the optimistic check of the
\* simulate handler compares updated_at truncated to milliseconds.
SimulationVouches ==
    \A s \in Sets : row[s].simulated =>
        evaluated[s] = row[s].params \/ collided[s]

\* The row an approval has locked stays pending until it commits, whatever the
\* unguarded updates of patch and reject do: the throw of rules.ts:258 is dead.
LockedStaysPending ==
    \A r \in Requests : req[r].pc \in {"locked", "archive", "activate"} =>
        row[req[r].set].status = "pending_approval"

\* An active set is archived only in the step that puts its successor in
\* force: readers of the active sets never see the scope without a set because
\* of an approval.
NoGapOnApproval ==
    [][\A s \in Sets :
        row[s].status = "active" /\ row'[s].status = "archived" =>
            \E u \in Sets : /\ row[u].scope = row[s].scope
                            /\ row[u].status = "pending_approval"
                            /\ row'[u].status = "active"]_vars

\* The handlers implement the register their readers rely on: whatever requests
\* overlap, a step leaves every scope alone, puts one set in force in place of
\* the one that was, or takes the one that was back.
Register == INSTANCE ActiveSetRegister WITH inForce <- [k \in Scopes |-> ActiveOf(k)]
ImplementsRegister == Register!Spec

\* Handler r cannot run its next statement before the transaction of q ends.
Waits(r, q) ==
    \/ /\ req[r].pc \in {"patch", "simulate", "submit", "approve", "reject"}
       /\ lock[req[r].set] = q
    \/ req[r].pc = "archive" /\ \E s \in req[r].scan : lock[s] = q

\* No handlers wait for each other's rows, although an approval keeps its
\* pending row locked while it waits for the active rows of the scope, and an
\* active row may have been rejected, submitted again and locked meanwhile:
\* in every group of handlers one waits for none of the group.
NeverWaitInCircle ==
    \A W \in SUBSET Requests : W # {} =>
        \E r \in W : \A q \in W : ~Waits(r, q)

\* The documented lifecycle: an active set is archived by its successor and
\* never becomes a draft again.
ActiveOnlyLeavesByArchive ==
    [][\A s \in Sets :
        row[s].status = "active" => row'[s].status \in {"active", "archived"}]_vars
====
