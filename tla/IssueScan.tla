---------------------------- MODULE IssueScan ----------------------------
(***************************************************************************)
(* The work list of inventory data issues: the scan that compares it with   *)
(* what is wrong in the sources now (tasks/inventoryDataIssueScan.ts,        *)
(* lib/inventory-data-issue-store.ts), and the page that dismisses an issue *)
(* or writes a note on it (routes/inventory-data-issues.ts).  Nothing is in *)
(* a transaction: a step is one statement.  A unique index refuses a second *)
(* open row of a fingerprint (0095_inventory_data_issues.sql), other rows   *)
(* it leaves alone.  "open" stands for open and in_progress, read alike.     *)
(***************************************************************************)
EXTENDS Naturals, FiniteSets

CONSTANTS Prints,     \* fingerprints of issues
          Lots,       \* what may be wrong under one fingerprint: lots that differ in their pool
          MaxCopies,  \* bound: rows one fingerprint may come to have
          Scans,      \* executions of the scan: cron, a click, the daily pipeline
          Visitors,   \* people on the issues page
          Chunk,      \* rows of one INSERT (200 in the code)
          MaxMoves    \* bound: changes of the sources and requests together

ASSUME PrintsFinite == IsFiniteSet(Prints) /\ IsFiniteSet(Lots)
ASSUME CopiesIsPos == MaxCopies \in Nat \ {0}
ASSUME ChunkIsPos == Chunk \in Nat \ {0}
ASSUME MovesIsNat == MaxMoves \in Nat

VARIABLES status,  \* inventory_data_issues.status by row; a row is a fingerprint and a number
          wrong,   \* the candidates the sources now have: a fingerprint and a lot
          scan,    \* the scans; missed is history: what others wrote of what a scan had read
          visit,   \* the requests of the page
          moves    \* changes of the sources and requests so far

vars == <<status, wrong, scan, visit, moves>>

Copies == 1..MaxCopies
Rows == Prints \X Copies
Candidates == Prints \X Lots
RowsOf(p) == {p} \X Copies
With(st) == {r \in Rows : status[r] = st}
PrintsOf(R) == {r[1] : r \in R}
OpenOf(p) == {r \in RowsOf(p) : status[r] = "open"}

\* The row an INSERT makes: an unused number of the fingerprint.
Unused(p) == {i \in Copies : status[<<p, i>>] = "none"}
NewRow(p) == <<p, CHOOSE i \in Unused(p) : TRUE>>

Rest(pc) == [pc |-> pc, found |-> {}, seen |-> {}, todo |-> {}, clear |-> {}, missed |-> {}]
Away == [pc |-> "away", row |-> <<>>, to |-> "none"]

Init ==
  /\ status \in [Rows -> {"none", "open", "resolved", "dismissed"}]
  /\ \A r \in Rows : r[2] > 1 => status[r] = "none"
  /\ wrong \in SUBSET Candidates
  /\ scan = [s \in Scans |-> Rest("none")]
  /\ visit = [v \in Visitors |-> Away]
  /\ moves = 0

\* The rows R get the status st; whoever has read the list misses it.
Misses(P, w) ==
  IF w.pc \in {"dismissed", "insert"} THEN [w EXCEPT !.missed = @ \cup P] ELSE w
Becomes(R, st) == status' = [r \in Rows |-> IF r \in R THEN st ELSE status[r]]
Changed(R, st) == PrintsOf({r \in R : status[r] # st})

(***************************************************************************)
(* runInventoryDataIssueScan and applyDataIssueUpsert.  The reads of lots,  *)
(* stock and warehouse facts are one step; so is the refresh of the rows    *)
(* still wrong, which rewrites only what is shown of them.                  *)
(***************************************************************************)
Detect(s) ==
  /\ scan[s].pc = "none"
  /\ scan' = [scan EXCEPT ![s] = [Rest("open") EXCEPT !.found = wrong]]
  /\ UNCHANGED <<status, wrong, visit, moves>>

LoadOpen(s) ==
  /\ scan[s].pc = "open"
  /\ scan' = [scan EXCEPT ![s] = [@ EXCEPT !.seen = With("open"), !.pc = "dismissed"]]
  /\ UNCHANGED <<status, wrong, visit, moves>>

\* The candidates, and the rows, that have one of the fingerprints P.
Having(C, P) == {c \in C : c[1] \in P}

\* Mutant: what stands in the list is not looked for.
PlanAgain(found, seen, dismissed) ==
  [insert |-> found \ Having(found, PrintsOf(dismissed)),
   clear |-> seen \ Having(seen, PrintsOf(found))]

\* Mutant: what was dismissed is not looked for.
UnblockedPlan(found, seen, dismissed) ==
  [insert |-> found \ Having(found, PrintsOf(seen)),
   clear |-> seen \ Having(seen, PrintsOf(found))]

\* Mutant: rows that were dismissed are settled like open ones.
PlanWithDismissed(found, seen, dismissed) ==
  [insert |-> found \ Having(found, PrintsOf(seen \cup dismissed)),
   clear |-> (seen \ Having(seen, PrintsOf(found))) \cup dismissed]

\* Mutant: rows still wrong are not told from the others.
PlanKeepsAll(found, seen, dismissed) ==
  [insert |-> found \ Having(found, PrintsOf(seen \cup dismissed)), clear |-> {}]

\* Every candidate whose fingerprint is neither open nor dismissed is to be inserted: two of
\* one fingerprint are not told apart from two of different ones.
Plan(found, seen, dismissed) ==
  [insert |-> found \ Having(found, PrintsOf(seen \cup dismissed)),
   clear |-> seen \ Having(seen, PrintsOf(found))]

LoadDismissed(s) ==
  /\ scan[s].pc = "dismissed"
  /\ LET w == scan[s]
         plan == Plan(w.found, w.seen, Having(With("dismissed"), PrintsOf(w.found)))
     IN  scan' = [scan EXCEPT ![s] =
           [w EXCEPT !.pc = "insert", !.todo = plan.insert, !.clear = plan.clear]]
  /\ UNCHANGED <<status, wrong, visit, moves>>

\* The rows of one INSERT.
Chunks(T) == {P \in SUBSET T : /\ P # {}
                               /\ Cardinality(P) = Chunk \/ (Cardinality(P) < Chunk /\ P = T)}

\* Two candidates of one INSERT have the same fingerprint.
Twins(C, D) == \E c \in C, d \in D : c # d /\ c[1] = d[1]

\* One INSERT; the bound on rows stops it short.
InsertChunk(s) ==
  /\ scan[s].pc = "insert"
  /\ \E P \in Chunks(scan[s].todo) :
       /\ ~Twins(P, P)
       /\ \A p \in PrintsOf(P) : OpenOf(p) = {} /\ Unused(p) # {}
       /\ Becomes({NewRow(p) : p \in PrintsOf(P)}, "open")
       /\ scan' = [q \in Scans |-> IF q = s THEN [scan[s] EXCEPT !.todo = @ \ P]
                                   ELSE Misses(PrintsOf(P), scan[q])]
  /\ UNCHANGED <<wrong, visit, moves>>

\* The index refuses a row of the INSERT: none of it is stored, and the run ends there.
InsertRefused(s) ==
  /\ scan[s].pc = "insert"
  /\ \E P \in Chunks(scan[s].todo) : Twins(P, P) \/ \E p \in PrintsOf(P) : OpenOf(p) # {}
  /\ scan' = [scan EXCEPT ![s] = Rest("refused")]
  /\ UNCHANGED <<status, wrong, visit, moves>>

\* The rows no longer wrong are resolved by id, whatever they have become.
AutoResolve(s) ==
  /\ scan[s].pc = "insert"
  /\ scan[s].todo = {}
  /\ Becomes(scan[s].clear, "resolved")
  /\ scan' = [q \in Scans |-> IF q = s THEN Rest("over")
                              ELSE Misses(Changed(scan[s].clear, "resolved"), scan[q])]
  /\ UNCHANGED <<wrong, visit, moves>>

\* A statement fails: the run is closed as failed, what was written stays.
Throw(s) ==
  /\ scan[s].pc \in {"open", "dismissed", "insert"}
  /\ scan' = [scan EXCEPT ![s] = Rest("failed")]
  /\ UNCHANGED <<status, wrong, visit, moves>>

(***************************************************************************)
(* PATCH /inventory/data-issues/:id: the row is read, then written by id.    *)
(* A request without a status (an owner, a note) writes back what it read.  *)
(***************************************************************************)

ReadIssue(v, r, dismiss) ==
  /\ visit[v] = Away
  /\ moves < MaxMoves
  /\ status[r] # "none"
  /\ visit' = [visit EXCEPT ![v] =
       [pc |-> "write", row |-> r, to |-> IF dismiss THEN "dismissed" ELSE status[r]]]
  /\ moves' = moves + 1
  /\ UNCHANGED <<status, wrong, scan>>

\* The index refuses it when another row of the fingerprint is open by now.
Taken(r, st) == st = "open" /\ OpenOf(r[1]) \ {r} # {}

WriteIssue(v) ==
  /\ visit[v].pc = "write"
  /\ IF Taken(visit[v].row, visit[v].to)
       THEN UNCHANGED <<status, scan>>
       ELSE /\ Becomes({visit[v].row}, visit[v].to)
            /\ scan' = [q \in Scans |-> Misses(Changed({visit[v].row}, visit[v].to), scan[q])]
  /\ visit' = [visit EXCEPT ![v] = Away]
  /\ UNCHANGED <<wrong, moves>>

\* Lots, stock and facts are rewritten by their own jobs.
SourcesChange(c) ==
  /\ moves < MaxMoves
  /\ wrong' = IF c \in wrong THEN wrong \ {c} ELSE wrong \cup {c}
  /\ moves' = moves + 1
  /\ UNCHANGED <<status, scan, visit>>

\* The process stops: every scan and request ends where it is.
Crash ==
  /\ moves < MaxMoves
  /\ moves' = moves + 1
  /\ scan' = [s \in Scans |-> IF scan[s].pc \in {"open", "dismissed", "insert"}
                             THEN Rest("failed") ELSE scan[s]]
  /\ visit' = [v \in Visitors |-> Away]
  /\ UNCHANGED <<status, wrong>>

Scan(s) == Detect(s) \/ LoadOpen(s) \/ LoadDismissed(s) \/ InsertChunk(s)
           \/ InsertRefused(s) \/ AutoResolve(s) \/ Throw(s)
Patch(v) == (\E r \in Rows, dismiss \in BOOLEAN : ReadIssue(v, r, dismiss)) \/ WriteIssue(v)

Next ==
  \/ \E s \in Scans : Scan(s)
  \/ \E v \in Visitors : Patch(v)
  \/ \E c \in Candidates : SourcesChange(c)
  \/ Crash

Spec == Init /\ [][Next]_vars

-----------------------------------------------------------------------------
TypeOK ==
  /\ status \in [Rows -> {"none", "open", "resolved", "dismissed"}]
  /\ wrong \in SUBSET Candidates
  /\ scan \in [Scans -> [pc : {"none", "open", "dismissed", "insert", "over", "failed", "refused"},
                         found : SUBSET Candidates, seen : SUBSET Rows,
                         todo : SUBSET Candidates, clear : SUBSET Rows,
                         missed : SUBSET Prints]]
  /\ visit \in [Visitors -> {Away} \cup
                [pc : {"write"}, row : Rows, to : {"open", "resolved", "dismissed"}]]
  /\ moves \in 0..MaxMoves

\* The write of v puts back a status the row no longer has.
WritesBack(v, r) ==
  visit[v].pc = "write" /\ visit[v].row = r /\ visit'[v] = Away /\ visit[v].to # status[r]
Ends(s) == scan[s].pc = "insert" /\ scan'[s].pc = "over"
Inserts(s, p) == scan[s].pc = "insert" /\ p \in PrintsOf(scan[s].todo \ scan'[s].todo)

\* An issue comes back beside a dismissal only when a scan inserts what was dismissed
\* after it read the list, or a note puts an old status back: nothing in the table
\* forbids an open row next to a dismissed one.
BackOnlyByRace ==
  [][\A p \in Prints :
       (OpenOf(p)' \ OpenOf(p) # {} /\ \E r \in RowsOf(p) : status[r] = "dismissed")
         => \/ \E s \in Scans : Inserts(s, p) /\ p \in scan[s].missed
            \/ \E v \in Visitors, r \in RowsOf(p) : WritesBack(v, r)]_vars

\* A scan that the index cuts short ran beside another writer of that issue, or has found
\* two lots of one fingerprint, which nothing in the plan tells apart: no other scan that
\* is alone trips over its own list, whatever failed runs left in it.
RefusedOnlyByRace ==
  [][\A s \in Scans : (scan[s].pc = "insert" /\ scan'[s].pc = "refused") =>
       \/ \E p \in PrintsOf(scan[s].todo) \cap scan[s].missed : OpenOf(p) # {}
       \/ Twins(scan[s].todo, scan[s].found)]_vars

\* A dismissal is undone only by a scan that read the row before it was dismissed or
\* by a note that did: autoResolve and the PATCH write by id, not by status.
DismissalHolds ==
  [][\A r \in Rows :
       (status[r] = "dismissed" /\ status'[r] # "dismissed")
         => \/ \E s \in Scans : Ends(s) /\ r \in scan[s].clear /\ r[1] \in scan[s].missed
            \/ \E v \in Visitors : WritesBack(v, r)]_vars

\* A scan that ends has settled every issue nobody else wrote meanwhile: what it found
\* has an open row or was dismissed, what it did not find has no open row left, also
\* where an earlier scan was cut short.
ScanSettles ==
  [][\A s \in Scans : Ends(s) =>
       \A p \in Prints \ scan[s].missed :
         IF p \in PrintsOf(scan[s].found)
         THEN OpenOf(p)' # {} \/ \E r \in RowsOf(p) : status'[r] = "dismissed"
         ELSE OpenOf(p)' = {}]_vars
=============================================================================
