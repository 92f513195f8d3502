-------------------------- MODULE IssueScanProofs --------------------------
(***************************************************************************)
(* Proofs about IssueScan for any issues, scans, visitors and bounds.        *)
(***************************************************************************)
EXTENDS IssueScan, TLAPS

-----------------------------------------------------------------------------
(* Types *)

Point == {"none", "open", "dismissed", "insert", "over", "failed", "refused"}
ScanType == [pc : Point, found : SUBSET Candidates, seen : SUBSET Rows,
             todo : SUBSET Candidates, clear : SUBSET Rows, missed : SUBSET Prints]
StatusType == {"none", "open", "resolved", "dismissed"}

\* The values a scan can take are those the type allows.
LEMMA RestTyped == \A pc \in Point : Rest(pc) \in ScanType
  BY DEF Rest, ScanType

LEMMA MissesTyped ==
  ASSUME NEW w \in ScanType, NEW P \in SUBSET Prints
  PROVE  Misses(P, w) \in ScanType
  BY DEF Misses, ScanType

\* An UPDATE or INSERT of a status leaves a status in every row.
LEMMA BecomesTyped ==
  ASSUME status \in [Rows -> StatusType], NEW R, NEW st \in StatusType, Becomes(R, st)
  PROVE  status' \in [Rows -> StatusType]
  BY DEF Becomes

LEMMA ChangedTyped ==
  ASSUME NEW R \in SUBSET Rows, NEW st
  PROVE  Changed(R, st) \in SUBSET Prints
  BY DEF Changed, PrintsOf, Rows

\* The candidates and the rows have fingerprints.
LEMMA CandidatePrints ==
  ASSUME NEW C \in SUBSET Candidates
  PROVE  PrintsOf(C) \in SUBSET Prints
  BY DEF PrintsOf, Candidates

LEMMA PlanTyped ==
  ASSUME NEW F \in SUBSET Candidates, NEW S \in SUBSET Rows, NEW D
  PROVE  Plan(F, S, D).insert \in SUBSET Candidates /\ Plan(F, S, D).clear \in SUBSET Rows
  BY DEF Plan

\* Every variable keeps its type, whatever a scan does.
LEMMA ScanTyped ==
  ASSUME TypeOK, NEW s \in Scans, Scan(s)
  PROVE  TypeOK'
<1>0. /\ scan \in [Scans -> ScanType] /\ wrong \in SUBSET Candidates
      /\ status \in [Rows -> StatusType]
  BY DEF TypeOK, ScanType, StatusType, Point
<1> DEFINE Kept == UNCHANGED <<wrong, visit, moves>>
<1>1. ASSUME scan' \in [Scans -> ScanType], status' \in [Rows -> StatusType], Kept
      PROVE  TypeOK'
  BY <1>1 DEF TypeOK, ScanType, StatusType, Point, Rows, Copies
<1>2. CASE Detect(s)
  <2>1. [Rest("open") EXCEPT !.found = wrong] \in ScanType
    BY <1>0 DEF Rest, ScanType, Point
  <2> QED
    BY <1>0, <1>1, <1>2, <2>1 DEF Detect
<1>3. CASE LoadOpen(s)
  <2>1. [scan[s] EXCEPT !.seen = With("open"), !.pc = "dismissed"] \in ScanType
    BY <1>0 DEF ScanType, Point, With
  <2> QED
    BY <1>0, <1>1, <1>3, <2>1 DEF LoadOpen
<1>4. CASE LoadDismissed(s)
  <2> DEFINE D == Having(With("dismissed"), PrintsOf(scan[s].found))
             p == Plan(scan[s].found, scan[s].seen, D)
             w == [scan[s] EXCEPT !.pc = "insert", !.todo = p.insert, !.clear = p.clear]
  <2>1. scan[s] \in ScanType
    BY <1>0
  <2>2. scan[s].found \in SUBSET Candidates /\ scan[s].seen \in SUBSET Rows
    BY <2>1 DEF ScanType
  <2>3. p.insert \in SUBSET Candidates /\ p.clear \in SUBSET Rows
    BY <2>2, PlanTyped
  <2> HIDE DEF p
  <2>4. w \in ScanType
    BY <2>1, <2>3 DEF ScanType, Point
  <2>5. scan' = [scan EXCEPT ![s] = w] /\ status' = status /\ Kept
    BY <1>4 DEF LoadDismissed, p
  <2> HIDE DEF w
  <2> QED
    BY <1>0, <1>1, <2>4, <2>5
<1>5. CASE InsertChunk(s)
  <2>1. PICK P \in Chunks(scan[s].todo) :
          /\ Becomes({NewRow(p) : p \in PrintsOf(P)}, "open")
          /\ scan' = [q \in Scans |-> IF q = s THEN [scan[s] EXCEPT !.todo = @ \ P]
                                      ELSE Misses(PrintsOf(P), scan[q])]
    BY <1>5 DEF InsertChunk
  <2>2. PrintsOf(P) \in SUBSET Prints
    <3>1. P \in SUBSET Candidates
      BY <1>0 DEF Chunks, ScanType
    <3> QED
      BY <3>1, CandidatePrints
  <2>3. [scan[s] EXCEPT !.todo = @ \ P] \in ScanType
    BY <1>0 DEF ScanType
  <2>4. \A q \in Scans : Misses(PrintsOf(P), scan[q]) \in ScanType
    BY <1>0, <2>2, MissesTyped
  <2>5. scan' \in [Scans -> ScanType]
    BY <2>1, <2>3, <2>4
  <2>6. status' \in [Rows -> StatusType]
    BY <1>0, <2>1, BecomesTyped DEF StatusType
  <2> QED
    BY <1>1, <1>5, <2>5, <2>6 DEF InsertChunk
<1>6. CASE InsertRefused(s)
  BY <1>0, <1>1, <1>6, RestTyped DEF InsertRefused, Point
<1>7. CASE AutoResolve(s)
  <2>1. scan[s].clear \in SUBSET Rows
    BY <1>0 DEF ScanType
  <2>2. \A q \in Scans : Misses(Changed(scan[s].clear, "resolved"), scan[q]) \in ScanType
    BY <1>0, <2>1, ChangedTyped, MissesTyped
  <2>3. Rest("over") \in ScanType
    BY RestTyped DEF Point
  <2>4. scan' \in [Scans -> ScanType]
    BY <1>7, <2>2, <2>3 DEF AutoResolve
  <2>5. status' \in [Rows -> StatusType]
    BY <1>0, <1>7, BecomesTyped DEF StatusType, AutoResolve
  <2> QED
    BY <1>1, <1>7, <2>4, <2>5 DEF AutoResolve
<1>8. CASE Throw(s)
  BY <1>0, <1>1, <1>8, RestTyped DEF Throw, Point
<1> QED
  BY <1>2, <1>3, <1>4, <1>5, <1>6, <1>7, <1>8 DEF Scan

\* ... and whatever a visitor does.
LEMMA PatchTyped ==
  ASSUME TypeOK, NEW v \in Visitors, Patch(v)
  PROVE  TypeOK'
<1> DEFINE VisitType ==
      {Away} \cup [pc : {"write"}, row : Rows, to : {"open", "resolved", "dismissed"}]
<1>0. /\ scan \in [Scans -> ScanType] /\ status \in [Rows -> StatusType]
      /\ visit \in [Visitors -> VisitType] /\ moves \in 0..MaxMoves
  BY DEF TypeOK, ScanType, StatusType, Point
<1>1. ASSUME NEW r \in Rows, NEW dismiss \in BOOLEAN, ReadIssue(v, r, dismiss)
      PROVE  TypeOK'
  <2>1. status[r] \in {"open", "resolved", "dismissed"}
    BY <1>0, <1>1 DEF ReadIssue, StatusType
  <2> DEFINE w == [pc |-> "write", row |-> r, to |-> IF dismiss THEN "dismissed" ELSE status[r]]
  <2>2. w \in VisitType
    BY <2>1
  <2>3. visit' = [visit EXCEPT ![v] = w]
    BY <1>1 DEF ReadIssue
  <2> HIDE DEF w
  <2>4. visit' \in [Visitors -> VisitType]
    BY <1>0, <2>2, <2>3
  <2>5. moves' \in 0..MaxMoves
    BY <1>0, <1>1, MovesIsNat DEF ReadIssue
  <2> QED
    BY <1>1, <2>4, <2>5 DEF ReadIssue, TypeOK, Rows, Copies, Away
<1>2. CASE WriteIssue(v)
  <2>1. visit' \in [Visitors -> VisitType]
    BY <1>0, <1>2 DEF WriteIssue
  <2>2. CASE Taken(visit[v].row, visit[v].to)
    BY <1>2, <2>1, <2>2 DEF WriteIssue, TypeOK, Rows, Copies, Away
  <2>3. CASE ~Taken(visit[v].row, visit[v].to)
    <3>0. Away.pc # "write"
      BY DEF Away
    <3>1. visit[v].row \in Rows /\ visit[v].to \in StatusType
      BY <1>0, <1>2, <3>0 DEF WriteIssue, StatusType
    <3>2. status' \in [Rows -> StatusType]
      BY <1>0, <1>2, <2>3, <3>1, BecomesTyped DEF WriteIssue
    <3>3. Changed({visit[v].row}, visit[v].to) \in SUBSET Prints
      BY <3>1, ChangedTyped
    <3>4. \A q \in Scans :
            Misses(Changed({visit[v].row}, visit[v].to), scan[q]) \in ScanType
      BY <1>0, <3>3, MissesTyped
    <3>5. scan' \in [Scans -> ScanType]
      BY <1>2, <2>3, <3>4 DEF WriteIssue
    <3> QED
      BY <1>2, <2>1, <3>2, <3>5
      DEF WriteIssue, TypeOK, Rows, Copies, Away, ScanType, StatusType, Point
  <2> QED
    BY <2>2, <2>3
<1> QED
  BY <1>1, <1>2 DEF Patch

\* ... and whatever the sources or the process do.
LEMMA OthersTyped ==
  ASSUME TypeOK, Crash \/ \E c \in Candidates : SourcesChange(c)
  PROVE  TypeOK'
<1>0. scan \in [Scans -> ScanType] /\ moves \in 0..MaxMoves
  BY DEF TypeOK, ScanType, Point
<1>1. CASE Crash
  <2>1. scan' \in [Scans -> ScanType]
    BY <1>0, <1>1, RestTyped DEF Crash, Point
  <2>2. moves' \in 0..MaxMoves
    BY <1>0, <1>1, MovesIsNat DEF Crash
  <2> QED
    BY <1>1, <2>1, <2>2 DEF Crash, TypeOK, Rows, Copies, Away, ScanType, Point
<1>2. ASSUME NEW c \in Candidates, SourcesChange(c)
      PROVE  TypeOK'
  <2>1. moves' \in 0..MaxMoves
    BY <1>0, <1>2, MovesIsNat DEF SourcesChange
  <2>2. wrong' \in SUBSET Candidates
    BY <1>2 DEF SourcesChange, TypeOK
  <2> QED
    BY <1>2, <2>1, <2>2 DEF SourcesChange, TypeOK, Rows, Copies, Away
<1> QED
  BY <1>1, <1>2

LEMMA InitTyped == Init => TypeOK
  BY RestTyped, MovesIsNat DEF Init, TypeOK, ScanType, Point

LEMMA NextTyped == TypeOK /\ [Next]_vars => TypeOK'
<1> SUFFICES ASSUME TypeOK, [Next]_vars
             PROVE  TypeOK'
  OBVIOUS
<1>1. CASE UNCHANGED vars
  BY <1>1 DEF vars, TypeOK, Rows, Copies, Away
<1> QED
  BY <1>1, ScanTyped, PatchTyped, OthersTyped DEF Next

\* The state of the list, the scans and the requests has its type.
THEOREM TypeCorrect == Spec => []TypeOK
  BY InitTyped, NextTyped, PTL DEF Spec

-----------------------------------------------------------------------------
(* What a scan knows of the list, but for what was written since it read it. *)

\* The open rows it read are the open rows.
Loaded(w, st) ==
  \A r \in Rows : r[1] \notin w.missed => (r \in w.seen <=> st[r] = "open")

\* What it will insert was not dismissed, and is open only if it has inserted another lot
\* of it; what it will resolve is what is open of what it did not find; and what it found
\* and will not insert is open or was dismissed.
Planned(w, st) ==
  /\ w.todo \subseteq w.found
  /\ \A r \in w.clear : r[1] \notin PrintsOf(w.found)
  /\ \A r \in Rows : r[1] \notin w.missed =>
       /\ r[1] \in PrintsOf(w.todo) =>
            st[r] # "dismissed" /\ (st[r] = "open" => r[1] \in PrintsOf(w.found \ w.todo))
       /\ r[1] \notin PrintsOf(w.found) => (r \in w.clear <=> st[r] = "open")
  /\ \A p \in PrintsOf(w.found \ w.todo) \ w.missed :
       \E r \in RowsOf(p) : st[r] = "open" \/ st[r] = "dismissed"

Knows(w, st) ==
  /\ w.pc = "dismissed" => Loaded(w, st)
  /\ w.pc = "insert" => Planned(w, st)

KnowsInv == TypeOK /\ \A s \in Scans : Knows(scan[s], status)

LEMMA RowParts ==
  /\ \A r \in Rows : r[1] \in Prints /\ r \in RowsOf(r[1])
  /\ \A p \in Prints : \A r \in RowsOf(p) : r \in Rows /\ r[1] = p
  BY DEF Rows, RowsOf

\* A scan at rest claims nothing.
LEMMA RestKnows ==
  \A pc \in Point \ {"dismissed", "insert"} : \A st : Knows(Rest(pc), st)
  BY DEF Rest, Knows

\* What it knows survives the writes it is told of.
LEMMA Frame ==
  ASSUME NEW w \in ScanType, NEW P \in SUBSET Prints, NEW st, NEW new, Knows(w, st),
         \A r \in Rows : r[1] \notin P => new[r] = st[r]
  PROVE  Knows(Misses(P, w), new)
<1> DEFINE m == Misses(P, w)
<1>1. CASE w.pc = "dismissed"
  <2>1. m.pc = "dismissed" /\ m.seen = w.seen /\ m.missed = w.missed \cup P
    BY <1>1 DEF Misses, ScanType
  <2>2. Loaded(w, st)
    BY <1>1 DEF Knows
  <2> HIDE DEF m
  <2>3. Loaded(m, new)
    BY <2>1, <2>2 DEF Loaded
  <2>4. Knows(m, new)
    BY <2>1, <2>3 DEF Knows
  <2> QED
    BY <2>4 DEF m
<1>2. CASE w.pc = "insert"
  <2>1. /\ m.pc = "insert" /\ m.found = w.found /\ m.todo = w.todo /\ m.clear = w.clear
        /\ m.missed = w.missed \cup P
    BY <1>2 DEF Misses, ScanType
  <2>2. Planned(w, st)
    BY <1>2 DEF Knows
  <2>3. PrintsOf(w.found \ w.todo) \in SUBSET Prints
    <3>1. w.found \ w.todo \in SUBSET Candidates
      BY DEF ScanType
    <3> QED
      BY <3>1, CandidatePrints
  <2> HIDE DEF m
  <2>4. ASSUME NEW p \in PrintsOf(w.found \ w.todo) \ m.missed
        PROVE  \E r \in RowsOf(p) : new[r] = "open" \/ new[r] = "dismissed"
    <3>1. p \in Prints /\ p \notin P /\ p \in PrintsOf(w.found \ w.todo) \ w.missed
      BY <2>1, <2>3, <2>4
    <3>2. PICK r \in RowsOf(p) : st[r] = "open" \/ st[r] = "dismissed"
      BY <2>2, <3>1 DEF Planned
    <3>3. new[r] = st[r]
      BY <3>1, <3>2, RowParts
    <3> QED
      BY <3>2, <3>3
  <2>5. Planned(m, new)
    BY <2>1, <2>2, <2>4 DEF Planned
  <2>6. Knows(m, new)
    BY <2>1, <2>5 DEF Knows
  <2> QED
    BY <2>6 DEF m
<1>3. CASE w.pc \notin {"dismissed", "insert"}
  BY <1>3 DEF Misses, Knows
<1> QED
  BY <1>1, <1>2, <1>3

\* A write of the rows R tells of every row it changes.
LEMMA BecomesFrame ==
  ASSUME NEW R \in SUBSET Rows, NEW st, Becomes(R, st)
  PROVE  \A r \in Rows : r[1] \notin Changed(R, st) => status'[r] = status[r]
  BY DEF Becomes, Changed, PrintsOf

\* Each INSERT takes a free number, and so changes no row that stood in the table.
LEMMA InsertFrame ==
  ASSUME NEW P \in SUBSET Prints, \A p \in P : Unused(p) # {},
         Becomes({NewRow(p) : p \in P}, "open")
  PROVE  /\ \A r \in Rows : r[1] \notin P => status'[r] = status[r]
         /\ \A r \in Rows : status[r] # "none" => status'[r] = status[r]
         /\ \A p \in P : NewRow(p) \in RowsOf(p) /\ status'[NewRow(p)] = "open"
<1>1. \A p \in P : NewRow(p)[1] = p /\ NewRow(p) \in RowsOf(p) /\ status[NewRow(p)] = "none"
  BY DEF NewRow, RowsOf, Unused
<1>2. \A p \in P : NewRow(p) \in Rows
  BY <1>1, RowParts
<1> QED
  BY <1>1, <1>2 DEF Becomes

\* What a scan knows after its reads and its plan.
LEMMA PlanKnows ==
  ASSUME TypeOK, NEW s \in Scans, LoadDismissed(s), Knows(scan[s], status)
  PROVE  Knows(scan'[s], status)
<1> DEFINE w == scan[s]
           D == Having(With("dismissed"), PrintsOf(w.found))
           T == w.found \ Having(w.found, PrintsOf(w.seen \cup D))
           C == w.seen \ Having(w.seen, PrintsOf(w.found))
           n == scan'[s]
<1>1. w \in ScanType /\ w.pc = "dismissed" /\ scan \in [Scans -> ScanType]
  BY DEF TypeOK, ScanType, Point, LoadDismissed
<1>2. scan' = [scan EXCEPT ![s] = [w EXCEPT !.pc = "insert", !.todo = T, !.clear = C]]
  BY DEF LoadDismissed, Plan
<1>3. n = [w EXCEPT !.pc = "insert", !.todo = T, !.clear = C]
  BY <1>1, <1>2
<1>d. D \in SUBSET Rows /\ \A r \in Rows :
        r \in D <=> (status[r] = "dismissed" /\ r[1] \in PrintsOf(w.found))
  BY DEF With, Having
<1>6. w.seen \in SUBSET Rows /\ w.found \in SUBSET Candidates
  BY <1>1 DEF ScanType
<1>t. /\ T \subseteq w.found
      /\ \A c \in w.found : c \in T <=> c[1] \notin PrintsOf(w.seen \cup D)
      /\ C \subseteq w.seen
      /\ \A r \in w.seen : r \in C <=> r[1] \notin PrintsOf(w.found)
  BY DEF Having
<1> HIDE DEF D, T, C
<1>4. /\ n.pc = "insert" /\ n.found = w.found /\ n.missed = w.missed
      /\ n.todo = T /\ n.clear = C
  BY <1>1, <1>3 DEF ScanType
<1>5. Loaded(w, status)
  BY <1>1 DEF Knows
<1> HIDE DEF w, n
<1>8. \A r \in Rows : r[1] \notin n.missed =>
        /\ r[1] \in PrintsOf(n.todo) => status[r] # "open" /\ status[r] # "dismissed"
        /\ r[1] \notin PrintsOf(n.found) => (r \in n.clear <=> status[r] = "open")
  <2> SUFFICES ASSUME NEW r \in Rows, r[1] \notin n.missed
               PROVE  /\ r[1] \in PrintsOf(n.todo) => status[r] # "open" /\ status[r] # "dismissed"
                      /\ r[1] \notin PrintsOf(n.found) => (r \in n.clear <=> status[r] = "open")
    OBVIOUS
  <2>1. r \in w.seen <=> status[r] = "open"
    BY <1>4, <1>5 DEF Loaded
  <2>2. ASSUME r[1] \in PrintsOf(T)
        PROVE  r \notin w.seen \cup D /\ r[1] \in PrintsOf(w.found)
    BY <1>t, <2>2 DEF PrintsOf
  <2> QED
    BY <1>4, <1>d, <1>t, <2>1, <2>2
<1>9. ASSUME NEW p \in PrintsOf(n.found \ n.todo) \ n.missed
      PROVE  \E r \in RowsOf(p) : status[r] = "open" \/ status[r] = "dismissed"
  <2>1. p \in PrintsOf(w.seen \cup D)
    BY <1>4, <1>t, <1>9 DEF PrintsOf
  <2>2. PICK r \in w.seen \cup D : r[1] = p
    BY <2>1 DEF PrintsOf
  <2>3. r \in Rows /\ r \in RowsOf(p)
    BY <2>2, <1>6, <1>d, RowParts
  <2> QED
    BY <2>2, <2>3, <1>4, <1>5, <1>d, <1>9 DEF Loaded
<1>10. n.todo \subseteq n.found /\ \A r \in n.clear : r[1] \notin PrintsOf(n.found)
  BY <1>4, <1>t
<1>11. Planned(n, status)
  BY <1>8, <1>9, <1>10 DEF Planned
<1>12. Knows(n, status)
  BY <1>4, <1>11 DEF Knows
<1> QED
  BY <1>12 DEF n

\* What a scan knows after one of its own INSERTs.
LEMMA InsertKnows ==
  ASSUME NEW w \in ScanType, w.pc = "insert", Knows(w, status),
         NEW P \in SUBSET w.todo, \A p \in PrintsOf(P) : Unused(p) # {},
         Becomes({NewRow(p) : p \in PrintsOf(P)}, "open")
  PROVE  Knows([w EXCEPT !.todo = @ \ P], status')
<1> DEFINE n == [w EXCEPT !.todo = @ \ P]
           Q == PrintsOf(P)
<1>1. /\ n.pc = "insert" /\ n.found = w.found /\ n.missed = w.missed
      /\ n.todo = w.todo \ P /\ n.clear = w.clear
  BY DEF ScanType
<1>2. Planned(w, status)
  BY DEF Knows
<1>3. w.found \in SUBSET Candidates /\ w.todo \in SUBSET Candidates /\ P \in SUBSET Candidates
  BY DEF ScanType
<1>a. P \subseteq w.found /\ Q \in SUBSET Prints /\ w.found \ n.todo = (w.found \ w.todo) \cup P
  BY <1>1, <1>2, <1>3, CandidatePrints DEF Planned
<1>b. /\ PrintsOf(w.found \ n.todo) = PrintsOf(w.found \ w.todo) \cup Q
      /\ PrintsOf(n.todo) \subseteq PrintsOf(w.todo)
      /\ Q \subseteq PrintsOf(w.todo) /\ Q \subseteq PrintsOf(w.found)
      /\ PrintsOf(w.found \ w.todo) \in SUBSET Prints
  BY <1>1, <1>3, <1>a DEF PrintsOf, Candidates
<1> HIDE DEF Q
<1>4. /\ \A r \in Rows : r[1] \notin Q => status'[r] = status[r]
      /\ \A p \in Q : NewRow(p) \in RowsOf(p) /\ status'[NewRow(p)] = "open"
  BY <1>a, InsertFrame DEF Q
<1>c. \A r \in Rows : status'[r] = "open" \/ status'[r] = status[r]
  BY DEF Becomes
<1> HIDE DEF n
<1>5. ASSUME NEW r \in Rows, r[1] \notin n.missed
      PROVE  /\ r[1] \in PrintsOf(n.todo) =>
                  /\ status'[r] # "dismissed"
                  /\ status'[r] = "open" => r[1] \in PrintsOf(n.found \ n.todo)
             /\ r[1] \notin PrintsOf(n.found) => (r \in n.clear <=> status'[r] = "open")
  <2>1. /\ r[1] \in PrintsOf(w.todo) =>
             /\ status[r] # "dismissed"
             /\ status[r] = "open" => r[1] \in PrintsOf(w.found \ w.todo)
        /\ r[1] \notin PrintsOf(w.found) => (r \in w.clear <=> status[r] = "open")
    BY <1>1, <1>2, <1>5 DEF Planned
  <2>2. CASE r[1] \in Q
    BY <1>1, <1>b, <1>c, <2>1, <2>2
  <2>3. CASE r[1] \notin Q
    BY <1>1, <1>b, <1>4, <2>1, <2>3
  <2> QED
    BY <2>2, <2>3
<1>6. ASSUME NEW p \in PrintsOf(n.found \ n.todo) \ n.missed
      PROVE  \E r \in RowsOf(p) : status'[r] = "open" \/ status'[r] = "dismissed"
  <2>1. CASE p \in Q
    BY <2>1, <1>4
  <2>2. CASE p \notin Q
    <3>1. p \in PrintsOf(w.found \ w.todo) \ w.missed /\ p \in Prints
      BY <2>2, <1>1, <1>6, <1>b
    <3>2. PICK r \in RowsOf(p) : status[r] = "open" \/ status[r] = "dismissed"
      BY <3>1, <1>2 DEF Planned
    <3>3. r \in Rows /\ r[1] = p
      BY <3>1, RowParts
    <3> QED
      BY <2>2, <3>2, <3>3, <1>4
  <2> QED
    BY <2>1, <2>2
<1>e. n.todo \subseteq n.found /\ \A r \in n.clear : r[1] \notin PrintsOf(n.found)
  BY <1>1, <1>2 DEF Planned
<1>7. Planned(n, status')
  BY <1>5, <1>6, <1>e DEF Planned
<1>8. Knows(n, status')
  BY <1>1, <1>7 DEF Knows
<1> QED
  BY <1>8 DEF n

LEMMA KnowsInit == Init => KnowsInv
  BY InitTyped, RestKnows DEF Init, KnowsInv, Point

LEMMA KnowsNext == KnowsInv /\ [Next]_vars => KnowsInv'
<1> SUFFICES ASSUME TypeOK, \A q \in Scans : Knows(scan[q], status), [Next]_vars
             PROVE  \A q \in Scans : Knows(scan'[q], status')
  BY NextTyped DEF KnowsInv
<1>0. scan \in [Scans -> ScanType] /\ visit \in [Visitors -> [pc : {"away"}, row : {<<>>},
        to : {"none"}] \cup [pc : {"write"}, row : Rows, to : StatusType]]
  BY DEF TypeOK, ScanType, Point, Away, StatusType
<1>1. ASSUME NEW s \in Scans, Scan(s)
      PROVE  \A q \in Scans : Knows(scan'[q], status')
  <2>1. CASE Detect(s)
    <3>1. [Rest("open") EXCEPT !.found = wrong].pc = "open"
      BY DEF Rest
    <3> QED
      BY <1>0, <2>1, <3>1 DEF Detect, Knows
  <2>2. CASE LoadOpen(s)
    <3> DEFINE n == [scan[s] EXCEPT !.seen = With("open"), !.pc = "dismissed"]
    <3>1. n.pc = "dismissed" /\ n.seen = With("open")
      BY <1>0 DEF ScanType
    <3> HIDE DEF n
    <3>2. Knows(n, status)
      BY <3>1 DEF Knows, Loaded, With
    <3>3. scan' = [scan EXCEPT ![s] = n] /\ status' = status
      BY <2>2 DEF LoadOpen, n
    <3> QED
      BY <1>0, <3>2, <3>3
  <2>3. CASE LoadDismissed(s)
    <3>1. Knows(scan'[s], status)
      BY <2>3, PlanKnows
    <3>2. \A q \in Scans \ {s} : scan'[q] = scan[q]
      BY <1>0, <2>3 DEF LoadDismissed
    <3>3. status' = status
      BY <2>3 DEF LoadDismissed
    <3> QED
      BY <3>1, <3>2, <3>3
  <2>4. CASE InsertChunk(s)
    <3>1. PICK P \in Chunks(scan[s].todo) :
            /\ \A p \in PrintsOf(P) : Unused(p) # {}
            /\ Becomes({NewRow(p) : p \in PrintsOf(P)}, "open")
            /\ scan' = [q \in Scans |-> IF q = s THEN [scan[s] EXCEPT !.todo = @ \ P]
                                        ELSE Misses(PrintsOf(P), scan[q])]
      BY <2>4 DEF InsertChunk
    <3>2. P \in SUBSET scan[s].todo /\ P \in SUBSET Candidates
      BY <1>0 DEF Chunks, ScanType
    <3>7. PrintsOf(P) \in SUBSET Prints
      BY <3>2, CandidatePrints
    <3>3. \A r \in Rows : r[1] \notin PrintsOf(P) => status'[r] = status[r]
      BY <3>1, <3>7, InsertFrame
    <3>4. \A q \in Scans \ {s} : Knows(Misses(PrintsOf(P), scan[q]), status')
      BY <1>0, <3>3, <3>7, Frame
    <3>5. scan[s].pc = "insert" /\ scan[s] \in ScanType
      BY <1>0, <2>4 DEF InsertChunk
    <3>6. Knows([scan[s] EXCEPT !.todo = @ \ P], status')
      BY <3>1, <3>2, <3>5, InsertKnows
    <3> QED
      BY <3>1, <3>4, <3>6
  <2>5. CASE InsertRefused(s)
    BY <1>0, <2>5, RestKnows DEF InsertRefused, Point
  <2>6. CASE AutoResolve(s)
    <3> DEFINE P == Changed(scan[s].clear, "resolved")
    <3>1. scan[s].clear \in SUBSET Rows
      BY <1>0 DEF ScanType
    <3>2. P \in SUBSET Prints
      BY <3>1, ChangedTyped
    <3>3. \A r \in Rows : r[1] \notin P => status'[r] = status[r]
      BY <2>6, <3>1, BecomesFrame DEF AutoResolve
    <3>4. scan' = [q \in Scans |-> IF q = s THEN Rest("over") ELSE Misses(P, scan[q])]
      BY <2>6 DEF AutoResolve
    <3> HIDE DEF P
    <3>5. \A q \in Scans : Knows(Misses(P, scan[q]), status')
      BY <1>0, <3>2, <3>3, Frame
    <3> QED
      BY <3>4, <3>5, RestKnows DEF Point
  <2>7. CASE Throw(s)
    BY <1>0, <2>7, RestKnows DEF Throw, Point
  <2> QED
    BY <1>1, <2>1, <2>2, <2>3, <2>4, <2>5, <2>6, <2>7 DEF Scan
<1>2. ASSUME NEW v \in Visitors, WriteIssue(v)
      PROVE  \A q \in Scans : Knows(scan'[q], status')
  <2>1. CASE Taken(visit[v].row, visit[v].to)
    BY <1>2, <2>1 DEF WriteIssue
  <2>2. CASE ~Taken(visit[v].row, visit[v].to)
    <3> DEFINE P == Changed({visit[v].row}, visit[v].to)
    <3>1. visit[v].row \in Rows
      BY <1>0, <1>2 DEF WriteIssue
    <3>2. P \in SUBSET Prints
      BY <3>1, ChangedTyped
    <3>3. \A r \in Rows : r[1] \notin P => status'[r] = status[r]
      BY <1>2, <2>2, <3>1, BecomesFrame DEF WriteIssue
    <3>4. scan' = [q \in Scans |-> Misses(P, scan[q])]
      BY <1>2, <2>2 DEF WriteIssue
    <3> HIDE DEF P
    <3> QED
      BY <1>0, <3>2, <3>3, <3>4, Frame
  <2> QED
    BY <2>1, <2>2
<1>3. CASE Crash
  BY <1>0, <1>3, RestKnows DEF Crash, Point
<1>4. CASE UNCHANGED <<status, scan>>
  BY <1>4
<1> QED
  BY <1>1, <1>2, <1>3, <1>4 DEF Next, Patch, ReadIssue, SourcesChange, vars

\* What every scan has read and planned stays true of what nobody else wrote.
THEOREM KnowsHolds == Spec => []KnowsInv
  BY KnowsInit, KnowsNext, PTL DEF Spec

-----------------------------------------------------------------------------
(* What follows for the list. *)

\* The steps that write the list.
LEMMA Writers ==
  ASSUME [Next]_vars
  PROVE  \/ status' = status
         \/ \E s \in Scans : InsertChunk(s) \/ AutoResolve(s)
         \/ \E v \in Visitors : WriteIssue(v) /\ ~Taken(visit[v].row, visit[v].to)
  BY DEF Next, Scan, Patch, Detect, LoadOpen, LoadDismissed, InsertRefused, Throw,
         ReadIssue, WriteIssue, SourcesChange, Crash, vars

\* An INSERT by a scan, as the properties see it.
LEMMA InsertSeen ==
  ASSUME TypeOK, NEW s \in Scans, InsertChunk(s)
  PROVE  \E P \in SUBSET Prints :
           /\ \A r \in Rows : r[1] \notin P => status'[r] = status[r]
           /\ \A r \in Rows : status[r] # "none" => status'[r] = status[r]
           /\ \A p \in P : Inserts(s, p)
<1>0. scan \in [Scans -> ScanType]
  BY DEF TypeOK, ScanType, Point
<1>1. PICK P \in Chunks(scan[s].todo) :
        /\ \A p \in PrintsOf(P) : Unused(p) # {}
        /\ Becomes({NewRow(p) : p \in PrintsOf(P)}, "open")
        /\ scan' = [q \in Scans |-> IF q = s THEN [scan[s] EXCEPT !.todo = @ \ P]
                                    ELSE Misses(PrintsOf(P), scan[q])]
  BY DEF InsertChunk
<1>2. P \in SUBSET scan[s].todo /\ P \in SUBSET Candidates
  BY <1>0 DEF Chunks, ScanType
<1>5. PrintsOf(P) \in SUBSET Prints
  BY <1>2, CandidatePrints
<1>3. scan'[s].todo = scan[s].todo \ P
  BY <1>0, <1>1 DEF ScanType
<1>4. \A p \in PrintsOf(P) : Inserts(s, p)
  <2>1. scan[s].todo \ scan'[s].todo = P
    BY <1>2, <1>3
  <2> QED
    BY <2>1 DEF Inserts, InsertChunk
<1> QED
  BY <1>1, <1>4, <1>5, InsertFrame

\* How a scan leaves its inserts.
LEMMA Endings ==
  ASSUME TypeOK, [Next]_vars, NEW s \in Scans, scan[s].pc = "insert"
  PROVE  /\ scan'[s].pc = "over" => AutoResolve(s)
         /\ scan'[s].pc = "refused" => InsertRefused(s)
<1>0. scan \in [Scans -> ScanType]
  BY DEF TypeOK, ScanType, Point
<1>1. \A P : Misses(P, scan[s]).pc = "insert"
  BY <1>0 DEF Misses, ScanType
<1>2. \A pc : Rest(pc).pc = pc
  BY DEF Rest
<1>3. ASSUME NEW q \in Scans, Scan(q)
      PROVE  /\ scan'[s].pc = "over" => AutoResolve(s)
             /\ scan'[s].pc = "refused" => InsertRefused(s)
  <2>1. CASE Detect(q) \/ LoadOpen(q) \/ LoadDismissed(q)
    <3>1. q # s
      BY <2>1 DEF Detect, LoadOpen, LoadDismissed
    <3> QED
      BY <1>0, <2>1, <3>1 DEF Detect, LoadOpen, LoadDismissed
  <2>2. CASE InsertChunk(q)
    <3>1. PICK P :
            scan' = [o \in Scans |-> IF o = q THEN [scan[q] EXCEPT !.todo = @ \ P]
                                     ELSE Misses(PrintsOf(P), scan[o])]
      BY <2>2 DEF InsertChunk
    <3>2. [scan[q] EXCEPT !.todo = @ \ P].pc = scan[q].pc
      BY <1>0 DEF ScanType
    <3> QED
      BY <1>1, <3>1, <3>2
  <2>3. CASE InsertRefused(q)
    BY <1>0, <1>2, <2>3 DEF InsertRefused
  <2>4. CASE AutoResolve(q)
    <3>1. PICK P : scan' = [o \in Scans |-> IF o = q THEN Rest("over")
                                            ELSE Misses(P, scan[o])]
      BY <2>4 DEF AutoResolve
    <3>2. CASE q = s
      <4>1. scan'[s].pc = "over"
        BY <1>2, <3>1, <3>2
      <4> QED
        BY <2>4, <3>2, <4>1
    <3>3. CASE q # s
      BY <1>1, <3>1, <3>3
    <3> QED
      BY <3>2, <3>3
  <2>5. CASE Throw(q)
    BY <1>0, <1>2, <2>5 DEF Throw
  <2> QED
    BY <1>3, <2>1, <2>2, <2>3, <2>4, <2>5 DEF Scan
<1>4. ASSUME NEW v \in Visitors, WriteIssue(v)
      PROVE  scan'[s].pc = "insert"
  BY <1>1, <1>4 DEF WriteIssue
<1>5. CASE Crash
  BY <1>2, <1>5 DEF Crash
<1> QED
  BY <1>3, <1>4, <1>5 DEF Next, Patch, ReadIssue, SourcesChange, vars

\* No step brings an issue back beside its dismissal but an INSERT by a scan that
\* missed the dismissal, or a note that puts an old status back.
LEMMA BackStep ==
  ASSUME KnowsInv, [Next]_vars, NEW p \in Prints, OpenOf(p)' \ OpenOf(p) # {},
         NEW d \in RowsOf(p), status[d] = "dismissed"
  PROVE  \/ \E s \in Scans : Inserts(s, p) /\ p \in scan[s].missed
         \/ \E v \in Visitors, r \in RowsOf(p) : WritesBack(v, r)
<1>0. TypeOK /\ scan \in [Scans -> ScanType] /\ d \in Rows /\ d[1] = p
  BY RowParts DEF KnowsInv, TypeOK, ScanType, Point
<1>1. PICK o \in RowsOf(p) : status'[o] = "open" /\ status[o] # "open"
  BY DEF OpenOf
<1>2. o \in Rows /\ o[1] = p
  BY <1>1, RowParts
<1>3. ASSUME NEW s \in Scans, InsertChunk(s)
      PROVE  Inserts(s, p) /\ p \in scan[s].missed
  <2>1. Inserts(s, p)
    BY <1>0, <1>1, <1>2, <1>3, InsertSeen
  <2>2. Planned(scan[s], status) /\ p \in PrintsOf(scan[s].todo)
    BY <2>1 DEF KnowsInv, Knows, Inserts, PrintsOf
  <2> QED
    BY <1>0, <2>1, <2>2 DEF Planned
<1>4. ASSUME NEW s \in Scans, AutoResolve(s)
      PROVE  FALSE
  BY <1>1, <1>2, <1>4 DEF AutoResolve, Becomes
<1>5. ASSUME NEW v \in Visitors, WriteIssue(v), ~Taken(visit[v].row, visit[v].to)
      PROVE  WritesBack(v, o)
  <2>1. Becomes({visit[v].row}, visit[v].to) /\ visit'[v] = Away /\ visit[v].pc = "write"
    BY <1>0, <1>5 DEF WriteIssue, TypeOK
  <2> QED
    BY <1>1, <1>2, <2>1 DEF Becomes, WritesBack
<1> QED
  BY <1>1, <1>2, <1>3, <1>4, <1>5, Writers

\* An issue comes back beside a dismissal only by a race, whatever the scans and visitors.
THEOREM BackHolds == Spec => BackOnlyByRace
<1>1. KnowsInv /\ [Next]_vars =>
        [\A p \in Prints :
           (OpenOf(p)' \ OpenOf(p) # {} /\ \E r \in RowsOf(p) : status[r] = "dismissed")
             => \/ \E s \in Scans : Inserts(s, p) /\ p \in scan[s].missed
                \/ \E v \in Visitors, r \in RowsOf(p) : WritesBack(v, r)]_vars
  BY BackStep
<1> QED
  BY <1>1, KnowsHolds, PTL DEF Spec, BackOnlyByRace

\* The index refuses a scan only what another writer opened after the scan read the list, or
\* what the scan has found twice.
LEMMA RefusedStep ==
  ASSUME KnowsInv, [Next]_vars, NEW s \in Scans, scan[s].pc = "insert",
         scan'[s].pc = "refused"
  PROVE  \/ \E p \in PrintsOf(scan[s].todo) \cap scan[s].missed : OpenOf(p) # {}
         \/ Twins(scan[s].todo, scan[s].found)
<1> DEFINE w == scan[s]
<1>0. TypeOK /\ scan \in [Scans -> ScanType]
  BY DEF KnowsInv, TypeOK, ScanType, Point
<1>1. InsertRefused(s)
  BY <1>0, Endings
<1>2. PICK P \in Chunks(w.todo) : Twins(P, P) \/ \E p \in PrintsOf(P) : OpenOf(p) # {}
  BY <1>1 DEF InsertRefused
<1>3. P \subseteq w.todo /\ w.todo \in SUBSET Candidates
  BY <1>0, <1>2 DEF ScanType, Chunks
<1>4. Planned(w, status)
  BY DEF KnowsInv, Knows
<1> HIDE DEF w
<1>5. CASE Twins(P, P)
  <2>1. Twins(w.todo, w.found)
    BY <1>3, <1>4, <1>5 DEF Twins, Planned
  <2> QED
    BY <2>1 DEF w
<1>6. ASSUME NEW p \in PrintsOf(P), OpenOf(p) # {}, p \notin w.missed
      PROVE  Twins(w.todo, w.found)
  <2>1. PICK c \in P : c[1] = p
    BY <1>6 DEF PrintsOf
  <2>2. p \in Prints /\ p \in PrintsOf(w.todo)
    BY <1>3, <2>1 DEF Candidates, PrintsOf
  <2>3. PICK r \in RowsOf(p) : status[r] = "open"
    BY <1>6 DEF OpenOf
  <2>4. r \in Rows /\ r[1] = p
    BY <2>2, <2>3, RowParts
  <2>5. p \in PrintsOf(w.found \ w.todo)
    BY <1>4, <1>6, <2>2, <2>3, <2>4 DEF Planned
  <2>6. PICK d \in w.found \ w.todo : d[1] = p
    BY <2>5 DEF PrintsOf
  <2> QED
    BY <1>3, <2>1, <2>6 DEF Twins
<1>7. ASSUME NEW p \in PrintsOf(P), OpenOf(p) # {}
      PROVE  \/ \E q \in PrintsOf(w.todo) \cap w.missed : OpenOf(q) # {}
             \/ Twins(w.todo, w.found)
  BY <1>3, <1>6, <1>7 DEF PrintsOf
<1> QED
  BY <1>2, <1>5, <1>7 DEF w

\* A scan is cut short only by another writer of an issue, or by two lots of one fingerprint
\* that it has found itself.
THEOREM RefusedHolds == Spec => RefusedOnlyByRace
<1>1. KnowsInv /\ [Next]_vars =>
        [\A s \in Scans : (scan[s].pc = "insert" /\ scan'[s].pc = "refused") =>
           \/ \E p \in PrintsOf(scan[s].todo) \cap scan[s].missed : OpenOf(p) # {}
           \/ Twins(scan[s].todo, scan[s].found)]_vars
  BY RefusedStep
<1> QED
  BY <1>1, KnowsHolds, PTL DEF Spec, RefusedOnlyByRace

\* A dismissed row is written only by a scan that missed the dismissal, or by a note
\* that puts an old status back.
LEMMA DismissalStep ==
  ASSUME KnowsInv, [Next]_vars, NEW r \in Rows, status[r] = "dismissed",
         status'[r] # "dismissed"
  PROVE  \/ \E s \in Scans : Ends(s) /\ r \in scan[s].clear /\ r[1] \in scan[s].missed
         \/ \E v \in Visitors : WritesBack(v, r)
<1>0. TypeOK /\ scan \in [Scans -> ScanType]
  BY DEF KnowsInv, TypeOK, ScanType, Point
<1>1. ASSUME NEW s \in Scans, InsertChunk(s)
      PROVE  FALSE
  BY <1>0, <1>1, InsertSeen
<1>2. ASSUME NEW s \in Scans, AutoResolve(s)
      PROVE  Ends(s) /\ r \in scan[s].clear /\ r[1] \in scan[s].missed
  <2>1. scan'[s] = Rest("over") /\ scan[s].pc = "insert"
    BY <1>2 DEF AutoResolve
  <2>2. Ends(s)
    BY <2>1 DEF Ends, Rest
  <2>3. r \in scan[s].clear
    BY <1>2 DEF AutoResolve, Becomes
  <2>4. Planned(scan[s], status)
    BY <2>1 DEF KnowsInv, Knows
  <2> QED
    BY <2>2, <2>3, <2>4 DEF Planned
<1>3. ASSUME NEW v \in Visitors, WriteIssue(v), ~Taken(visit[v].row, visit[v].to)
      PROVE  WritesBack(v, r)
  <2>1. Becomes({visit[v].row}, visit[v].to) /\ visit'[v] = Away /\ visit[v].pc = "write"
    BY <1>0, <1>3 DEF WriteIssue, TypeOK
  <2> QED
    BY <2>1 DEF Becomes, WritesBack
<1> QED
  BY <1>1, <1>2, <1>3, Writers

\* A dismissal holds but for a race, whatever the scans and visitors.
THEOREM DismissalKept == Spec => DismissalHolds
<1>1. KnowsInv /\ [Next]_vars =>
        [\A r \in Rows :
           (status[r] = "dismissed" /\ status'[r] # "dismissed")
             => \/ \E s \in Scans : Ends(s) /\ r \in scan[s].clear /\ r[1] \in scan[s].missed
                \/ \E v \in Visitors : WritesBack(v, r)]_vars
  BY DismissalStep
<1> QED
  BY <1>1, KnowsHolds, PTL DEF Spec, DismissalHolds

\* A scan that ends leaves what it found standing, and nothing else, but for what
\* others wrote meanwhile.
LEMMA SettleStep ==
  ASSUME KnowsInv, [Next]_vars, NEW s \in Scans, Ends(s), NEW p \in Prints \ scan[s].missed
  PROVE  IF p \in PrintsOf(scan[s].found)
         THEN OpenOf(p)' # {} \/ \E r \in RowsOf(p) : status'[r] = "dismissed"
         ELSE OpenOf(p)' = {}
<1>0. TypeOK /\ AutoResolve(s)
  BY Endings DEF KnowsInv, Ends
<1>1. Planned(scan[s], status)
  BY DEF KnowsInv, Knows, Ends
<1>2. /\ scan[s].todo = {}
      /\ status' = [r \in Rows |-> IF r \in scan[s].clear THEN "resolved" ELSE status[r]]
  BY <1>0 DEF AutoResolve, Becomes
<1>3. \A r \in RowsOf(p) : r \in Rows /\ r[1] = p
  BY RowParts
<1>4. CASE p \in PrintsOf(scan[s].found)
  <2>3. scan[s].found \ scan[s].todo = scan[s].found
    BY <1>2
  <2>1. PICK r \in RowsOf(p) : status[r] = "open" \/ status[r] = "dismissed"
    BY <1>1, <1>4, <2>3 DEF Planned
  <2>2. status'[r] = status[r]
    BY <1>1, <1>2, <1>3, <1>4 DEF Planned
  <2> QED
    BY <1>4, <2>1, <2>2 DEF OpenOf
<1>5. CASE p \notin PrintsOf(scan[s].found)
  <2>1. \A r \in RowsOf(p) : status'[r] # "open"
    BY <1>1, <1>2, <1>3, <1>5 DEF Planned
  <2> QED
    BY <1>5, <2>1 DEF OpenOf
<1> QED
  BY <1>4, <1>5

\* Every scan that ends has settled the list, also after scans that were cut short.
THEOREM SettleHolds == Spec => ScanSettles
<1>1. KnowsInv /\ [Next]_vars =>
        [\A s \in Scans : Ends(s) =>
           \A p \in Prints \ scan[s].missed :
             IF p \in PrintsOf(scan[s].found)
             THEN OpenOf(p)' # {} \/ \E r \in RowsOf(p) : status'[r] = "dismissed"
             ELSE OpenOf(p)' = {}]_vars
  BY SettleStep
<1> QED
  BY <1>1, KnowsHolds, PTL DEF Spec, ScanSettles
=============================================================================
