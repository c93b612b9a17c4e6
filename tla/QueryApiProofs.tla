--------------------------- MODULE QueryApiProofs ---------------------------
(***************************************************************************)
(* Proofs about QueryApi, for every set of findings, every query, every    *)
(* page size and every order in which scans are stored.                    *)
(*                                                                         *)
(* That a walk misses nothing rests on ranks.  A row stored meanwhile can  *)
(* only push the others back (RankGrows), so what is still in front of the *)
(* next window was there when it was read (Reading); a window holds no     *)
(* more rows than the page size (WindowSize), so the last one reaches the  *)
(* end of what was counted.  What lies behind it is no more than the       *)
(* matches have outgrown the count by (BehindWindow).                      *)
(*                                                                         *)
(* That scores can be recounted rests on two facts: the rows of a scan are *)
(* those of one scoring (RecountInv), and the rows of a scope divide the   *)
(* findings of the scan among them (RowsPartition).                        *)
(***************************************************************************)
EXTENDS QueryApi, FiniteSetTheorems, WellFoundedInduction, TLAPS

Logicals == {f.logical : f \in Findings}

\* Rows that a sort key and the id put in one order.
Orderable(q, S) ==
    /\ IsFiniteSet(S)
    /\ \A r \in S : r.id \in Nat /\ SortKey(q, r) \in Int
    /\ \A r, s \in S : r.id = s.id => r = s

\* What SaveScores finds when it runs.
PendingReady ==
    \A p \in pending :
        /\ p.scan \in landed \ due /\ IsFiniteSet(p.rows)
        /\ \A r \in p.rows : /\ r.scan = p.scan.key
                             /\ r.computed \in 0..clock
                             /\ Slot(r) \in 0..(2 * Width)
        /\ \A r, s \in p.rows : Slot(r) = Slot(s) => r = s
        /\ \A row \in scores : row.scan # p.scan.key
        /\ \A other \in pending : other.scan = p.scan => other = p

\* Only stored scans have scores, and not before they are scored.
ScoredScans == \A row \in scores : \E s \in landed \ due : s.key = row.scan

\* A promised row is still there, and was shown if it lies before the window.
Reading ==
    phase \in {"count", "select"} /\ query.state = "any" =>
        \A r \in promised :
            /\ r \in Matches
            /\ Rank(query, Matches, r) < offset /\ r \in Shown(query, promised)
                => r \in got

\* A request that was counted is within bounds.
CountedInBounds == phase = "select" => query.limit \in 1..MaxLimit

IInv == /\ TypeOK /\ IsFiniteSet(scores) /\ PendingReady /\ ScoredScans
        /\ Reading /\ CountedInBounds /\ WalkMissesNothing
        /\ IsFiniteSet(promised)

-----------------------------------------------------------------------------
\* Ranks are naturals below the number of rows.
LEMMA RankBounded ==
    ASSUME NEW q, NEW S, Orderable(q, S), NEW row \in S
    PROVE  Rank(q, S, row) \in Nat /\ Rank(q, S, row) < Cardinality(S)
<1> DEFINE T == {r \in S : Before(q, r, row)}
<1>1. T \in SUBSET S /\ IsFiniteSet(S)
  BY DEF Orderable
<1>2. row \notin T
  BY DEF Before, Orderable
<1>3. /\ IsFiniteSet(T) /\ Cardinality(T) <= Cardinality(S)
      /\ Cardinality(S) = Cardinality(T) => S = T
  BY <1>1, FS_Subset
<1>4. Cardinality(T) \in Nat /\ Cardinality(S) \in Nat
  BY <1>1, <1>3, FS_CardinalityType
<1>5. Cardinality(T) # Cardinality(S)
  BY <1>2, <1>3
<1> QED
  BY <1>3, <1>4, <1>5 DEF Rank

\* A row that is stored never brings another one forward.
LEMMA RankGrows ==
    ASSUME NEW q, NEW S, NEW T, S \subseteq T, IsFiniteSet(T), NEW row
    PROVE  /\ Rank(q, S, row) \in Nat /\ Rank(q, T, row) \in Nat
           /\ Rank(q, S, row) <= Rank(q, T, row)
<1> DEFINE A == {r \in S : Before(q, r, row)}
           B == {r \in T : Before(q, r, row)}
<1>1. IsFiniteSet(B)
  BY FS_Subset
<1>2. A \in SUBSET B
  OBVIOUS
<1>3. IsFiniteSet(A) /\ Cardinality(A) <= Cardinality(B)
  BY <1>1, <1>2, FS_Subset
<1>4. Cardinality(A) \in Nat /\ Cardinality(B) \in Nat
  BY <1>1, <1>3, FS_CardinalityType
<1> QED
  BY <1>3, <1>4 DEF Rank

\* Two rows have two ranks.
LEMMA RankInjective ==
    ASSUME NEW q, NEW S, Orderable(q, S), NEW r \in S, NEW s \in S,
           Before(q, r, s)
    PROVE  Rank(q, S, r) < Rank(q, S, s)
<1> DEFINE A == {x \in S : Before(q, x, r)}
           B == {x \in S : Before(q, x, s)}
<1>1. \A x \in S : Before(q, x, r) => Before(q, x, s)
  BY DEF Before, Orderable
<1>2. r \in B /\ r \notin A
  BY DEF Before, Orderable
<1>3. IsFiniteSet(B) /\ A \in SUBSET B
  BY <1>1, FS_Subset DEF Orderable
<1>4. /\ IsFiniteSet(A) /\ Cardinality(A) <= Cardinality(B)
      /\ Cardinality(B) = Cardinality(A) => B = A
  BY <1>3, FS_Subset
<1>5. Cardinality(A) \in Nat /\ Cardinality(B) \in Nat
  BY <1>3, <1>4, FS_CardinalityType
<1> QED
  BY <1>2, <1>4, <1>5 DEF Rank

\* A window holds at most a page of rows.
LEMMA WindowSize ==
    ASSUME NEW q, NEW S, Orderable(q, S), NEW start \in Nat, q.limit \in Nat
    PROVE  /\ Cardinality(Window(q, S, start)) \in Nat
           /\ Cardinality(Window(q, S, start)) <= q.limit
<1> DEFINE W == Window(q, S, start)
           places == start..(start + q.limit - 1)
           place == [row \in W |-> Rank(q, S, row)]
<1>1. W \subseteq S /\ \A row \in W : Rank(q, S, row) \in places
  BY DEF Window
<1>2. \A r, s \in W : Rank(q, S, r) = Rank(q, S, s) => r = s
  <2> SUFFICES ASSUME NEW r \in W, NEW s \in W, r # s
               PROVE  Rank(q, S, r) # Rank(q, S, s)
    OBVIOUS
  <2>1. r \in S /\ s \in S
    BY <1>1
  <2>2. Rank(q, S, r) \in Nat /\ Rank(q, S, s) \in Nat
    BY <2>1, RankBounded
  <2>3. Before(q, r, s) \/ Before(q, s, r)
    BY <2>1 DEF Before, Orderable
  <2>4. CASE Before(q, r, s)
    <3>1. Rank(q, S, r) < Rank(q, S, s)
      BY <2>1, <2>4, RankInjective
    <3> QED  BY <2>2, <3>1
  <2>5. CASE Before(q, s, r)
    <3>1. Rank(q, S, s) < Rank(q, S, r)
      BY <2>1, <2>5, RankInjective
    <3> QED  BY <2>2, <3>1
  <2> QED  BY <2>3, <2>4, <2>5
<1>3. place \in Injection(W, places)
  BY <1>1, <1>2 DEF Injection, IsInjective
<1>4. IsFiniteSet(places) /\ Cardinality(places) = q.limit
  <2> DEFINE last == start + q.limit - 1
  <2>1. start \in Int /\ last \in Int
    OBVIOUS
  <2> HIDE DEF last
  <2>2. /\ IsFiniteSet(start..last)
        /\ Cardinality(start..last) =
            IF start > last THEN 0 ELSE last - start + 1
    BY <2>1, FS_Interval
  <2> QED
    BY <2>2 DEF last
<1>5. IsFiniteSet(W) /\ Cardinality(W) <= Cardinality(places)
  BY <1>3, <1>4, FS_Injection
<1> QED
  BY <1>4, <1>5, FS_CardinalityType

\* A set of naturals has a least one; induction takes this form.
LEMMA LeastNumber ==
    ASSUME NEW T, T \subseteq Nat, T # {}
    PROVE  \E x \in T : \A y \in T : x <= y
<1> DEFINE R == {ss \in Nat \X Nat : ss[1] < ss[2]}
<1>1. IsWellFoundedOn(R, Nat)
  BY NatLessThanWellFounded DEF OpToRel
<1> HIDE DEF R
<1>2. \E x \in T : \A y \in T : ~(<<y, x>> \in R)
  BY <1>1, WFMin
<1>3. \A x, y \in T : ~(<<y, x>> \in R) => x <= y
  BY DEF R
<1> QED  BY <1>2, <1>3

\* Ranks leave no gap: what lies behind the first edge rows leaves room for
\* them.
LEMMA BehindWindow ==
    ASSUME NEW q, NEW S, Orderable(q, S), NEW edge \in Nat,
           NEW behind, behind = {r \in S : ~(Rank(q, S, r) < edge)}
    PROVE  /\ IsFiniteSet(behind)
           /\ behind # {} => Cardinality(behind) + edge <= Cardinality(S)
<1>1. IsFiniteSet(S) /\ behind \in SUBSET S /\ IsFiniteSet(behind)
  BY FS_Subset DEF Orderable
<1> SUFFICES ASSUME behind # {}
             PROVE  Cardinality(behind) + edge <= Cardinality(S)
  BY <1>1
<1> DEFINE ranks == {Rank(q, S, r) : r \in behind}
<1>2. PICK first \in behind :
        \A r \in behind : Rank(q, S, first) <= Rank(q, S, r)
  <2>1. ranks \subseteq Nat /\ ranks # {}
    BY <1>1, RankBounded
  <2>2. \E x \in ranks : \A y \in ranks : x <= y
    <3> HIDE DEF ranks
    <3> QED  BY <2>1, LeastNumber
  <2> QED  BY <2>2
<1> DEFINE front == {r \in S : Before(q, r, first)}
<1>3. first \in S /\ Rank(q, S, first) \in Nat /\ edge <= Rank(q, S, first)
  BY <1>1, RankBounded
<1>4. front \intersect behind = {}
  <2> SUFFICES ASSUME NEW r \in S, Before(q, r, first), r \in behind
               PROVE  FALSE
    BY <1>1
  <2>1. Rank(q, S, r) < Rank(q, S, first) /\ Rank(q, S, r) \in Nat
    BY <1>3, RankInjective, RankBounded
  <2>2. Rank(q, S, first) <= Rank(q, S, r)
    BY <1>2
  <2> QED  BY <1>3, <2>1, <2>2
<1>5. Cardinality(front) = Rank(q, S, first)
  BY DEF Rank
<1>6. IsFiniteSet(front) /\ front \union behind \in SUBSET S
  BY <1>1, FS_Subset
<1> HIDE DEF front
<1>7. /\ IsFiniteSet(front \union behind)
      /\ Cardinality(front \union behind)
           = Cardinality(front) + Cardinality(behind) - Cardinality({})
  BY <1>1, <1>4, <1>6, FS_Union
<1>8. Cardinality(front \union behind) <= Cardinality(S)
  BY <1>1, <1>6, FS_Subset
<1>9. /\ Cardinality({}) = 0 /\ Cardinality(behind) \in Nat
      /\ Cardinality(front) \in Nat /\ Cardinality(S) \in Nat
  BY <1>1, <1>6, FS_EmptySet, FS_CardinalityType
<1> QED  BY <1>3, <1>5, <1>7, <1>8, <1>9

-----------------------------------------------------------------------------
\* What any query selects can be ordered.
LEMMA MatchingOrderable ==
    ASSUME TypeOK, IsFiniteSet(scores), NEW tenant, NEW q
    PROVE  Orderable(q, Matching(tenant, q))
<1> DEFINE S == Matching(tenant, q)
<1>1. CASE q.table = "findings"
  <2>1. S \subseteq Findings
    BY <1>1 DEF Matching
  <2>2. IsFiniteSet(S)
    BY <2>1, FS_Subset, QueryApiConstants
  <2>3. \A r \in S : r.id \in Nat
    BY <2>1, QueryApiConstants
  <2>4. \A r, s \in S : r.id = s.id => r = s
    BY <2>1, QueryApiConstants
  <2>5. ASSUME NEW r \in S PROVE SortKey(q, r) \in Int
    <3>1. r.scan.at \in Nat /\ r.logical.severity \in Severities
      BY <2>1, QueryApiConstants
    <3>2. SeverityOrder[r.logical.severity] \in Int
      BY <3>1 DEF SeverityOrder, Severities
    <3> QED
      BY <1>1, <3>1, <3>2 DEF SortKey
  <2> QED
    BY <2>2, <2>3, <2>4, <2>5 DEF Orderable
<1>2. CASE q.table # "findings"
  <2>1. S \subseteq scores
    BY <1>2 DEF Matching
  <2>2. IsFiniteSet(S)
    BY <2>1, FS_Subset
  <2>3. \A r \in S : r.id \in Nat /\ r.computed \in Int
    BY <2>1 DEF TypeOK
  <2>4. \A r, s \in S : r.id = s.id => r = s
    BY <2>1 DEF TypeOK
  <2>5. ASSUME NEW r \in S PROVE SortKey(q, r) \in Int
    BY <1>2, <2>3 DEF SortKey
  <2> QED
    BY <2>2, <2>3, <2>4, <2>5 DEF Orderable
<1> QED  BY <1>1, <1>2

LEMMA MatchesOrderable ==
    TypeOK /\ IsFiniteSet(scores) => Orderable(query, Matches)
BY MatchingOrderable DEF Matches

LEMMA MatchesRanked ==
    TypeOK /\ IsFiniteSet(scores) =>
        \A row \in Matches : Rank(query, Matches, row) \in Nat
BY MatchesOrderable, RankBounded

\* Storing results or scores only adds to what a query selects, unless it
\* filters on the state.
LEMMA MatchesGrow ==
    ASSUME query.state = "any", UNCHANGED <<status, token, query>>,
           landed \subseteq landed', scores \subseteq scores',
           \A l \in Logicals : lifecycle[l] # "none" => lifecycle'[l] # "none"
    PROVE  Matches \subseteq Matches'
<1> SUFFICES ASSUME NEW row \in Matches PROVE row \in Matches'
  OBVIOUS
<1>1. CASE query.table = "findings"
  <2>1. /\ row \in Findings /\ row.scan \in landed
        /\ SelectsFinding(token.tenant, query, row)
    BY <1>1 DEF Matches, Matching
  <2>2. row.logical \in Logicals
    BY <2>1 DEF Logicals
  <2>3. SelectsFinding(token.tenant, query, row)'
    BY <2>1, <2>2 DEF SelectsFinding, Passes, Joined
  <2> QED
    BY <1>1, <2>1, <2>3 DEF Matches, Matching
<1>2. CASE query.table # "findings"
  BY <1>2 DEF Matches, Matching, SelectsScore, Passes
<1> QED  BY <1>1, <1>2

\* A step of a worker that only adds keeps what the client knows.
LEMMA WorkerKeepsReading ==
    ASSUME IInv, TypeOK', IsFiniteSet(scores)',
           UNCHANGED <<status, token, walk>>,
           landed \subseteq landed', scores \subseteq scores',
           \A l \in Logicals : lifecycle[l] # "none" => lifecycle'[l] # "none"
    PROVE  /\ Reading' /\ CountedInBounds' /\ WalkMissesNothing'
           /\ IsFiniteSet(promised)'
<1>1. UNCHANGED <<phase, query, offset, total, got, promised, late>>
  BY DEF walk
<1>2. Shown(query, promised)' = Shown(query, promised)
  BY <1>1 DEF Shown, Translatable
<1>3. ASSUME NEW r PROVE Rank(query, Matches, r)' = Rank(query, Matches', r)
  BY <1>1 DEF Rank, Before, SortKey
<1>4. Reading'
  <2> SUFFICES ASSUME phase \in {"count", "select"}, query.state = "any",
                      NEW r \in promised
               PROVE  /\ r \in Matches'
                      /\ /\ Rank(query, Matches', r) < offset
                         /\ r \in Shown(query, promised)
                         => r \in got
    BY <1>1, <1>2, <1>3 DEF Reading
  <2>1. Matches \subseteq Matches'
    BY <1>1, MatchesGrow
  <2>2. r \in Matches
    BY DEF IInv, Reading
  <2>3. IsFiniteSet(Matches')
    <3>1. (TypeOK /\ IsFiniteSet(scores) => Orderable(query, Matches))'
      BY MatchesOrderable, PTL
    <3> QED
      BY <1>1, <3>1 DEF Orderable
  <2>4. /\ Rank(query, Matches, r) \in Nat /\ Rank(query, Matches', r) \in Nat
        /\ Rank(query, Matches, r) <= Rank(query, Matches', r)
    BY <2>1, <2>3, RankGrows
  <2>5. offset \in Nat
    BY DEF IInv, TypeOK
  <2>6. Rank(query, Matches, r) < offset /\ r \in Shown(query, promised)
            => r \in got
    BY DEF IInv, Reading
  <2> QED
    BY <2>1, <2>2, <2>4, <2>5, <2>6
<1>5. CountedInBounds'
  BY <1>1 DEF IInv, CountedInBounds
<1>6. WalkMissesNothing'
  BY <1>1, <1>2 DEF IInv, WalkMissesNothing
<1>7. IsFiniteSet(promised)'
  BY <1>1 DEF IInv
<1> QED  BY <1>4, <1>5, <1>6, <1>7

-----------------------------------------------------------------------------
(***************************************************************************)
(* The rows of one scoring.                                                *)
(***************************************************************************)
\* A score row is the scan's, or one framework's, or one domain's.
LEMMA ScoreKinds ==
    ASSUME NEW scan, NEW now, NEW r \in ScoresOf(scan, now)
    PROVE  /\ r.scan = scan.key /\ r.computed = now
           /\ \/ r = ScoreOf(scan, "scan", scan.key, OfScan(scan), now)
              \/ \E f \in OfScan(scan) :
                    r = ScoreOf(scan, "framework", f.logical.framework,
                                {g \in OfScan(scan) : g.logical.framework
                                                  = f.logical.framework}, now)
              \/ \E f \in OfScan(scan) :
                    r = ScoreOf(scan, "domain", f.logical.domain,
                                {g \in OfScan(scan) : g.logical.domain
                                                  = f.logical.domain}, now)
<1> DEFINE mine == OfScan(scan)
           framework(v) == {f \in mine : f.logical.framework = v}
           domain(v) == {f \in mine : f.logical.domain = v}
<1>1. \/ r = ScoreOf(scan, "scan", scan.key, OfScan(scan), now)
      \/ \E v \in {f.logical.framework : f \in mine} :
            r = ScoreOf(scan, "framework", v, framework(v), now)
      \/ \E v \in {f.logical.domain : f \in mine} :
            r = ScoreOf(scan, "domain", v, domain(v), now)
  BY DEF ScoresOf, ScoresByDimension
<1>2. \A scope, value, S :
        LET row == ScoreOf(scan, scope, value, S, now)
        IN row.scan = scan.key /\ row.computed = now
  BY DEF ScoreOf
<1> QED  BY <1>1, <1>2

\* Which of them it is can be read off its slot.
LEMMA ScoreSlots ==
    ASSUME NEW scan, NEW now
    PROVE  /\ \A r \in ScoresOf(scan, now) : Slot(r) \in 0..(2 * Width)
           /\ \A r, s \in ScoresOf(scan, now) : Slot(r) = Slot(s) => r = s
<1> DEFINE Framework(v) ==
               ScoreOf(scan, "framework", v,
                       {g \in OfScan(scan) : g.logical.framework = v}, now)
           Domain(v) ==
               ScoreOf(scan, "domain", v,
                       {g \in OfScan(scan) : g.logical.domain = v}, now)
           Whole == ScoreOf(scan, "scan", scan.key, OfScan(scan), now)
           Known(v) == v \in DOMAIN Alphabetical /\ Alphabetical[v] \in 1..Width
<1>1. Slot(Whole) = 0
  BY DEF Slot, ScoreOf
<1>2. ASSUME NEW v PROVE Slot(Framework(v)) = Alphabetical[v]
  BY DEF Slot, ScoreOf
<1>3. ASSUME NEW v PROVE Slot(Domain(v)) = Width + Alphabetical[v]
  BY DEF Slot, ScoreOf
<1>4. \A f \in OfScan(scan) :
        Known(f.logical.framework) /\ Known(f.logical.domain)
  BY QueryApiConstants DEF OfScan
<1>5. Width \in Nat
  BY QueryApiConstants
<1>6. \A v : Known(v) => Alphabetical[v] \in 1..Width
  OBVIOUS
<1>7. \A u, v : Known(u) /\ Known(v) /\ Alphabetical[u] = Alphabetical[v]
                => u = v
  BY QueryApiConstants
<1> HIDE DEF Known
<1>8. ASSUME NEW r \in ScoresOf(scan, now)
      PROVE  \/ r = Whole
             \/ \E v : Known(v) /\ r = Framework(v)
             \/ \E v : Known(v) /\ r = Domain(v)
  <2>1. CASE \E f \in OfScan(scan) : r = Framework(f.logical.framework)
    BY <1>4, <2>1
  <2>2. CASE \E f \in OfScan(scan) : r = Domain(f.logical.domain)
    BY <1>4, <2>2
  <2> QED  BY <2>1, <2>2, ScoreKinds
<1> HIDE DEF Framework, Domain, Whole
<1>9. ASSUME NEW v, Known(v)
      PROVE  /\ Slot(Framework(v)) \in 1..Width
             /\ Slot(Domain(v)) \in (Width + 1)..(2 * Width)
  BY <1>2, <1>3, <1>5, <1>6, <1>9
<1>10. ASSUME NEW r \in ScoresOf(scan, now)
       PROVE  /\ Slot(r) = 0 <=> r = Whole
              /\ Slot(r) \in 1..Width
                    <=> \E v : Known(v) /\ r = Framework(v)
              /\ Slot(r) \in (Width + 1)..(2 * Width)
                    <=> \E v : Known(v) /\ r = Domain(v)
              /\ Slot(r) \in 0..(2 * Width)
  <2>1. CASE r = Whole
    BY <2>1, <1>1, <1>5, <1>9
  <2>2. CASE \E v : Known(v) /\ r = Framework(v)
    <3>1. Slot(r) \in 1..Width
      BY <2>2, <1>9
    <3> QED  BY <2>2, <3>1, <1>1, <1>5, <1>9
  <2>3. CASE \E v : Known(v) /\ r = Domain(v)
    <3>1. Slot(r) \in (Width + 1)..(2 * Width)
      BY <2>3, <1>9
    <3> QED  BY <2>3, <3>1, <1>1, <1>5, <1>9
  <2> QED  BY <1>8, <2>1, <2>2, <2>3
<1>11. ASSUME NEW r \in ScoresOf(scan, now), NEW s \in ScoresOf(scan, now),
              Slot(r) = Slot(s)
       PROVE  r = s
  <2>1. CASE r = Whole
    BY <2>1, <1>10, <1>11
  <2>2. CASE \E v : Known(v) /\ r = Framework(v)
    <3>1. PICK v : Known(v) /\ r = Framework(v)
      BY <2>2
    <3>2. PICK u : Known(u) /\ s = Framework(u)
      BY <2>2, <1>10, <1>11
    <3> QED  BY <3>1, <3>2, <1>2, <1>7, <1>11
  <2>3. CASE \E v : Known(v) /\ r = Domain(v)
    <3>1. PICK v : Known(v) /\ r = Domain(v)
      BY <2>3
    <3>2. PICK u : Known(u) /\ s = Domain(u)
      BY <2>3, <1>10, <1>11
    <3>3. Alphabetical[u] = Alphabetical[v]
      BY <3>1, <3>2, <1>3, <1>5, <1>6, <1>11
    <3> QED  BY <3>1, <3>2, <3>3, <1>7
  <2> QED  BY <1>8, <2>1, <2>2, <2>3
<1> QED  BY <1>10, <1>11

\* There are finitely many.
LEMMA ScoresFinite ==
    ASSUME NEW scan, NEW now
    PROVE  IsFiniteSet(ScoresOf(scan, now))
<1> DEFINE rows == ScoresOf(scan, now)
           slot == [r \in rows |-> Slot(r)]
<1>1. slot \in Injection(rows, 0..(2 * Width))
  BY ScoreSlots DEF Injection, IsInjective
<1>2. 2 * Width \in Int /\ 0 \in Int
  BY QueryApiConstants
<1>3. IsFiniteSet(0..(2 * Width))
  BY <1>2, FS_Interval
<1> QED  BY <1>1, <1>3, FS_Injection

\* A lifecycle row is never taken away.
LEMMA NextStateKept ==
    ASSUME NEW state \in {"none", "open", "resolved", "reopened"}, NEW st
    PROVE  /\ NextState(state, st) \in {"none", "open", "resolved", "reopened"}
           /\ state # "none" => NextState(state, st) # "none"
BY DEF NextState

-----------------------------------------------------------------------------
(***************************************************************************)
(* The workers' steps.                                                     *)
(***************************************************************************)
\* Results that land are visible at once and take nothing away.
LEMMA LandKeeps ==
    ASSUME IInv, NEW scan \in Scans, Land(scan)
    PROVE  IInv'
<1>1. /\ UNCHANGED <<status, pending, scores, sequence, clock, token, walk>>
      /\ scan \notin landed /\ landed' = landed \union {scan}
      /\ due' = due \union {scan}
  BY DEF Land
<1>2. UNCHANGED <<phase, query, offset, total, got, promised, late>>
  BY <1>1 DEF walk
<1>3. lifecycle \in [Logicals -> {"none", "open", "resolved", "reopened"}]
  BY DEF IInv, TypeOK, Logicals
<1>4. \A l \in Logicals :
        /\ lifecycle'[l] \in {"none", "open", "resolved", "reopened"}
        /\ lifecycle[l] # "none" => lifecycle'[l] # "none"
  BY <1>3, NextStateKept DEF Land
<1>5. lifecycle' \in [Logicals -> {"none", "open", "resolved", "reopened"}]
  BY <1>3, <1>4 DEF Land
<1>6. TypeOK'
  BY <1>1, <1>2, <1>5 DEF IInv, TypeOK, Land, Logicals
<1>7. landed \subseteq landed' /\ landed \ due \subseteq landed' \ due'
  BY <1>1
<1>8. IsFiniteSet(scores)' /\ PendingReady' /\ ScoredScans'
  <2>1. IsFiniteSet(scores)' /\ PendingReady'
    BY <1>1, <1>7 DEF IInv, PendingReady, Slot
  <2>2. ScoredScans'
    BY <1>1, <1>7 DEF IInv, ScoredScans
  <2> QED  BY <2>1, <2>2
<1>9. /\ Reading' /\ CountedInBounds' /\ WalkMissesNothing'
      /\ IsFiniteSet(promised)'
  <2>1. scores \subseteq scores'
    BY <1>1
  <2> QED  BY <1>1, <1>4, <1>6, <1>7, <1>8, <2>1, WorkerKeepsReading
<1> QED  BY <1>6, <1>8, <1>9 DEF IInv

\* A worker computes the scores of a scan that has none.
LEMMA ComputeKeeps ==
    ASSUME IInv, NEW scan \in Scans, ComputeScores(scan)
    PROVE  IInv'
<1>1. /\ UNCHANGED <<status, landed, counts, lifecycle, scores, sequence,
                     token, walk>>
      /\ scan \in due /\ due' = due \ {scan}
  BY DEF ComputeScores
<1>2. UNCHANGED <<phase, query, offset, total, got, promised, late>>
  BY <1>1 DEF walk
<1>3. clock \in Nat /\ clock' = clock + 1
  BY DEF IInv, TypeOK, ComputeScores
<1>4. TypeOK'
  BY <1>1, <1>2, <1>3 DEF IInv, TypeOK
<1> DEFINE new == [scan |-> scan, rows |-> ScoresOf(scan, clock)]
<1>5. /\ new.scan = scan /\ new.rows = ScoresOf(scan, clock)
      /\ pending' = pending \union {new}
  BY DEF ComputeScores
<1> HIDE DEF new
<1>6. IsFiniteSet(ScoresOf(scan, clock))
  BY ScoresFinite
<1>7. \A r \in ScoresOf(scan, clock) :
        /\ r.scan = scan.key /\ r.computed = clock
        /\ Slot(r) \in 0..(2 * Width)
  BY ScoreKinds, ScoreSlots
<1>8. \A r, s \in ScoresOf(scan, clock) : Slot(r) = Slot(s) => r = s
  BY ScoreSlots
<1>9. /\ scan \in landed' \ due' /\ landed \ due \subseteq landed' \ due'
      /\ \A p \in pending : p.scan # scan
  BY <1>1 DEF IInv, TypeOK, PendingReady
<1>10. \A row \in scores : row.scan # scan.key
  <2> SUFFICES ASSUME NEW row \in scores, row.scan = scan.key PROVE FALSE
    OBVIOUS
  <2>1. PICK s \in landed \ due : s.key = row.scan
    BY DEF IInv, ScoredScans
  <2>2. s \in Scans /\ scan \in Scans /\ s.key = scan.key
    BY <2>1 DEF IInv, TypeOK
  <2>3. s = scan
    BY <2>2, QueryApiConstants
  <2> QED  BY <1>1, <2>1, <2>3
<1>11. ASSUME NEW p \in pending'
       PROVE  /\ p.scan \in landed' \ due' /\ IsFiniteSet(p.rows)
              /\ \A r \in p.rows : /\ r.scan = p.scan.key
                                   /\ r.computed \in 0..clock'
                                   /\ Slot(r) \in 0..(2 * Width)
              /\ \A r, s \in p.rows : Slot(r) = Slot(s) => r = s
              /\ \A row \in scores' : row.scan # p.scan.key
              /\ \A other \in pending' : other.scan = p.scan => other = p
  <2>1. CASE p = new
    BY <2>1, <1>1, <1>3, <1>5, <1>6, <1>7, <1>8, <1>9, <1>10
  <2>2. CASE p \in pending
    BY <2>2, <1>1, <1>3, <1>5, <1>9 DEF IInv, PendingReady
  <2> QED  BY <1>5, <2>1, <2>2
<1>12. PendingReady'
  BY <1>11 DEF PendingReady, Slot
<1>13. IsFiniteSet(scores)' /\ ScoredScans'
  BY <1>1, <1>9 DEF IInv, ScoredScans
<1>14. /\ Reading' /\ CountedInBounds' /\ WalkMissesNothing'
       /\ IsFiniteSet(promised)'
  BY <1>1, <1>4, <1>13, WorkerKeepsReading
<1> QED  BY <1>4, <1>12, <1>13, <1>14 DEF IInv

\* Numbering keeps what a row says.
LEMMA NumberedRows ==
    ASSUME NEW rows
    PROVE  /\ IsFiniteSet(rows) => IsFiniteSet(Numbered(rows))
           /\ \A n \in Numbered(rows) : \E r \in rows :
                /\ n.id = sequence + 1 + Slot(r)
                /\ n = [id |-> sequence + 1 + Slot(r), tenant |-> r.tenant,
                        scope |-> r.scope, value |-> r.value,
                        scan |-> r.scan, counts |-> r.counts,
                        computed |-> r.computed]
                /\ n.scan = r.scan /\ n.computed = r.computed
<1> DEFINE numbered(r) ==
        [id |-> sequence + 1 + Slot(r), tenant |-> r.tenant,
         scope |-> r.scope, value |-> r.value, scan |-> r.scan,
         counts |-> r.counts, computed |-> r.computed]
           number == [r \in rows |-> numbered(r)]
<1>1. Numbered(rows) = {numbered(r) : r \in rows}
  BY DEF Numbered
<1>2. \A r : /\ numbered(r).id = sequence + 1 + Slot(r)
             /\ numbered(r).scan = r.scan
             /\ numbered(r).computed = r.computed
  OBVIOUS
<1>3. \A n \in Numbered(rows) : \E r \in rows : n = numbered(r)
  BY <1>1
<1>4. ASSUME IsFiniteSet(rows) PROVE IsFiniteSet(Numbered(rows))
  <2> HIDE DEF numbered
  <2>1. number \in Surjection(rows, Numbered(rows))
    BY <1>1 DEF Surjection
  <2> QED  BY <2>1, <1>4, FS_Surjection
<1> QED  BY <1>2, <1>3, <1>4

\* The scores of a scan are added under ids of their own.
LEMMA SaveKeeps ==
    ASSUME IInv, NEW scan \in Scans, SaveScores(scan)
    PROVE  IInv'
<1>1. UNCHANGED <<status, landed, counts, lifecycle, due, clock, token, walk>>
  BY DEF SaveScores
<1>2. UNCHANGED <<phase, query, offset, total, got, promised, late>>
  BY <1>1 DEF walk
<1>3. PICK p \in pending :
        /\ pending' = pending \ {p}
        /\ scores' = {r \in scores :
                        ~\E s \in p.rows : Identity(s) = Identity(r)}
                     \union Numbered(p.rows)
        /\ sequence' = sequence + 2 * Width + 1
  BY DEF SaveScores
<1>4. /\ p.scan \in landed \ due /\ p.scan \in Scans /\ IsFiniteSet(p.rows)
      /\ \A r \in p.rows : /\ r.scan = p.scan.key
                           /\ r.computed \in 0..clock
                           /\ Slot(r) \in 0..(2 * Width)
      /\ \A r, s \in p.rows : Slot(r) = Slot(s) => r = s
      /\ \A row \in scores : row.scan # p.scan.key
      /\ \A other \in pending : other.scan = p.scan => other = p
  BY DEF IInv, TypeOK, PendingReady
<1>5. scores' = scores \union Numbered(p.rows)
  BY <1>3, <1>4 DEF Identity
<1>6. IsFiniteSet(scores)'
  BY <1>4, <1>5, NumberedRows, FS_Union DEF IInv
<1>7. Width \in Nat /\ sequence \in Nat /\ clock \in Nat
  BY QueryApiConstants DEF IInv, TypeOK
<1>8. ASSUME NEW n \in Numbered(p.rows)
      PROVE  /\ n.id \in (sequence + 1)..(sequence + 2 * Width + 1)
             /\ n.scan = p.scan.key /\ n.computed \in 0..clock
  BY <1>4, <1>7, NumberedRows
<1>9. ASSUME NEW n \in Numbered(p.rows), NEW m \in Numbered(p.rows),
             n.id = m.id
      PROVE  n = m
  <2>1. PICK r \in p.rows :
            /\ n.id = sequence + 1 + Slot(r)
            /\ n = [id |-> sequence + 1 + Slot(r), tenant |-> r.tenant,
                    scope |-> r.scope, value |-> r.value, scan |-> r.scan,
                    counts |-> r.counts, computed |-> r.computed]
    BY NumberedRows
  <2>2. PICK s \in p.rows :
            /\ m.id = sequence + 1 + Slot(s)
            /\ m = [id |-> sequence + 1 + Slot(s), tenant |-> s.tenant,
                    scope |-> s.scope, value |-> s.value, scan |-> s.scan,
                    counts |-> s.counts, computed |-> s.computed]
    BY NumberedRows
  <2>3. Slot(r) = Slot(s)
    <3>1. Slot(r) \in Int /\ Slot(s) \in Int
      BY <1>4, <1>7
    <3>2. sequence + 1 + Slot(r) = sequence + 1 + Slot(s)
      BY <2>1, <2>2, <1>9
    <3> QED  BY <3>1, <3>2, <1>7
  <2>4. r = s
    BY <2>3, <1>4
  <2> QED  BY <2>1, <2>2, <2>4
<1>10. /\ \A r \in scores : r.id \in 1..sequence /\ r.computed \in 0..clock
       /\ \A r, s \in scores : r.id = s.id => r = s
  BY DEF IInv, TypeOK
<1>11. /\ sequence' \in Nat /\ sequence' = sequence + 2 * Width + 1
       /\ clock' = clock
  BY <1>1, <1>3, <1>7
<1>12. \A r \in scores' : r.id \in 1..sequence' /\ r.computed \in 0..clock'
  BY <1>5, <1>7, <1>8, <1>10, <1>11
<1>13. ASSUME NEW r \in scores', NEW s \in scores', r.id = s.id
       PROVE  r = s
  <2>1. CASE r \in scores /\ s \in scores
    BY <2>1, <1>10, <1>13
  <2>2. CASE r \in Numbered(p.rows) /\ s \in Numbered(p.rows)
    BY <2>2, <1>9, <1>13
  <2>3. CASE r \in scores /\ s \in Numbered(p.rows)
    BY <2>3, <1>7, <1>8, <1>10, <1>13
  <2>4. CASE s \in scores /\ r \in Numbered(p.rows)
    BY <2>4, <1>7, <1>8, <1>10, <1>13
  <2> QED  BY <1>5, <2>1, <2>2, <2>3, <2>4
<1>14. TypeOK'
  BY <1>1, <1>2, <1>11, <1>12, <1>13 DEF IInv, TypeOK
<1>15. ASSUME NEW o \in pending'
       PROVE  /\ o.scan \in landed' \ due' /\ IsFiniteSet(o.rows)
              /\ \A r \in o.rows : /\ r.scan = o.scan.key
                                   /\ r.computed \in 0..clock'
                                   /\ Slot(r) \in 0..(2 * Width)
              /\ \A r, s \in o.rows : Slot(r) = Slot(s) => r = s
              /\ \A row \in scores' : row.scan # o.scan.key
              /\ \A other \in pending' : other.scan = o.scan => other = o
  <2>1. o \in pending /\ o # p /\ pending' \subseteq pending
    BY <1>3
  <2>2. o.scan \in Scans /\ o.scan # p.scan
    BY <2>1, <1>4 DEF IInv, TypeOK, PendingReady
  <2>3. o.scan.key # p.scan.key
    BY <2>2, <1>4, QueryApiConstants
  <2>4. \A row \in scores : row.scan # o.scan.key
    BY <2>1 DEF IInv, PendingReady
  <2>5. \A row \in scores' : row.scan # o.scan.key
    BY <1>5, <1>8, <2>3, <2>4
  <2> QED
    BY <1>1, <1>11, <2>1, <2>5 DEF IInv, PendingReady
<1>16. PendingReady' /\ ScoredScans'
  <2>1. PendingReady'
    BY <1>15 DEF PendingReady, Slot
  <2>2. ScoredScans'
    BY <1>1, <1>4, <1>5, <1>8 DEF IInv, ScoredScans
  <2> QED  BY <2>1, <2>2
<1>17. /\ Reading' /\ CountedInBounds' /\ WalkMissesNothing'
       /\ IsFiniteSet(promised)'
  <2>1. scores \subseteq scores' /\ landed \subseteq landed'
    BY <1>1, <1>5
  <2>2. \A l \in Logicals : lifecycle[l] # "none" => lifecycle'[l] # "none"
    BY <1>1
  <2> QED  BY <1>1, <1>6, <1>14, <2>1, <2>2, WorkerKeepsReading
<1> QED  BY <1>6, <1>14, <1>16, <1>17 DEF IInv

\* A restart takes away the scores, and with them what was promised of them.
LEMMA RestartKeeps ==
    ASSUME IInv, Restart
    PROVE  IInv'
<1>1. /\ UNCHANGED <<status, landed, counts, lifecycle, sequence, clock, token,
                     phase, query, offset, total, got, late>>
      /\ due' = {} /\ pending' = {} /\ scores' = {}
      /\ promised' = promised \ scores
  BY DEF Restart
<1>2. TypeOK'
  BY <1>1 DEF IInv, TypeOK
<1>3. IsFiniteSet(scores)' /\ PendingReady' /\ ScoredScans'
  BY <1>1, FS_EmptySet DEF PendingReady, ScoredScans
<1>4. CountedInBounds' /\ IsFiniteSet(promised)'
  BY <1>1, FS_Subset DEF IInv, CountedInBounds
<1>5. Shown(query, promised)' \subseteq Shown(query, promised)
  BY <1>1 DEF Shown, Translatable
<1>6. Reading'
  <2> SUFFICES ASSUME phase \in {"count", "select"}, query.state = "any",
                      NEW r \in promised, r \notin scores
               PROVE  /\ r \in Matches'
                      /\ /\ Rank(query, Matches, r)' < offset
                         /\ r \in Shown(query, promised)'
                         => r \in got
    BY <1>1 DEF Reading
  <2>1. r \in Matches
    BY DEF IInv, Reading
  <2>2. query.table = "findings"
    BY <2>1 DEF Matches, Matching
  <2>3. Matches' = Matches
    BY <1>1, <2>2 DEF Matches, Matching, SelectsFinding, Joined, Passes
  <2>4. Rank(query, Matches, r)' = Rank(query, Matches', r)
    BY <1>1 DEF Rank, Before, SortKey
  <2> QED  BY <1>1, <1>5, <2>1, <2>3, <2>4 DEF IInv, Reading
<1>7. WalkMissesNothing'
  <2> SUFFICES ASSUME phase = "done", query.state = "any"
               PROVE  Cardinality(Shown(query, promised)' \ got) <= late
    BY <1>1 DEF WalkMissesNothing
  <2> DEFINE old == Shown(query, promised) \ got
             new == Shown(query, promised)' \ got
  <2>1. IsFiniteSet(old) /\ Cardinality(old) <= late
    <3>1. old \subseteq promised /\ IsFiniteSet(promised)
      BY DEF Shown, IInv
    <3> QED  BY <3>1, FS_Subset DEF IInv, WalkMissesNothing
  <2>2. new \in SUBSET old
    BY <1>5
  <2> HIDE DEF old, new
  <2>3. /\ IsFiniteSet(new) /\ Cardinality(new) <= Cardinality(old)
        /\ Cardinality(new) \in Nat /\ Cardinality(old) \in Nat
    BY <2>1, <2>2, FS_Subset, FS_CardinalityType
  <2>4. late \in Nat
    BY DEF IInv, TypeOK
  <2> QED  BY <2>1, <2>3, <2>4 DEF new
<1> QED  BY <1>2, <1>3, <1>4, <1>6, <1>7 DEF IInv

-----------------------------------------------------------------------------
(***************************************************************************)
(* The client's steps.                                                     *)
(***************************************************************************)
\* None of them touches what the workers keep.
LEMMA ClientKeepsTables ==
    ASSUME IInv, UNCHANGED <<status, workers, token>>
    PROVE  IsFiniteSet(scores)' /\ PendingReady' /\ ScoredScans'
<1>1. UNCHANGED <<landed, due, scores, pending, clock>>
  BY DEF workers
<1> QED  BY <1>1 DEF IInv, PendingReady, ScoredScans, Slot

LEMMA BeginKeeps ==
    ASSUME IInv, Begin
    PROVE  IInv'
<1>1. /\ UNCHANGED <<status, workers, token>> /\ phase' = "count"
      /\ query' \in Queries /\ promised' = Matching(token.tenant, query')
      /\ offset' = 0 /\ total' = 0 /\ got' = {} /\ late' = 0
  BY DEF Begin
<1>2. UNCHANGED <<status, landed, counts, lifecycle, due, pending, scores,
                  sequence, clock, token>>
  BY <1>1 DEF workers
<1>3. TypeOK'
  BY <1>1, <1>2 DEF IInv, TypeOK
<1>4. IsFiniteSet(scores)' /\ PendingReady' /\ ScoredScans'
  BY <1>1, ClientKeepsTables
<1>5. promised' = Matches'
  BY <1>1, <1>2 DEF Matches, Matching, SelectsFinding, SelectsScore, Joined,
                    Passes
<1>6. ASSUME NEW r \in Matches' PROVE ~(Rank(query, Matches, r)' < offset')
  <2>1. (TypeOK /\ IsFiniteSet(scores) =>
            \A row \in Matches : Rank(query, Matches, row) \in Nat)'
    BY MatchesRanked, PTL
  <2>2. Rank(query, Matches, r)' \in Nat
    BY <1>3, <1>4, <2>1
  <2> QED  BY <1>1, <2>2
<1>7. Reading'
  BY <1>5, <1>6 DEF Reading
<1>8. CountedInBounds' /\ WalkMissesNothing'
  BY <1>1 DEF CountedInBounds, WalkMissesNothing
<1>9. IsFiniteSet(promised)'
  <2>1. (TypeOK /\ IsFiniteSet(scores) => Orderable(query, Matches))'
    BY MatchesOrderable, PTL
  <2> QED  BY <1>3, <1>4, <1>5, <2>1 DEF Orderable
<1> QED  BY <1>3, <1>4, <1>7, <1>8, <1>9 DEF IInv

LEMMA RefusedKeeps ==
    ASSUME IInv, Refused
    PROVE  IInv'
<1>1. /\ UNCHANGED <<status, workers, token>> /\ phase' = "idle"
      /\ offset' = 0 /\ total' = 0 /\ promised' = {} /\ late' = 0
  BY DEF Refused
<1>2. UNCHANGED <<status, landed, counts, lifecycle, due, pending, scores,
                  sequence, clock, token>>
  BY <1>1 DEF workers
<1>3. TypeOK'
  BY <1>1, <1>2 DEF IInv, TypeOK
<1>4. IsFiniteSet(scores)' /\ PendingReady' /\ ScoredScans'
  BY <1>1, ClientKeepsTables
<1>5. /\ Reading' /\ CountedInBounds' /\ WalkMissesNothing'
      /\ IsFiniteSet(promised)'
  BY <1>1, FS_EmptySet DEF Reading, CountedInBounds, WalkMissesNothing
<1> QED  BY <1>3, <1>4, <1>5 DEF IInv

\* The rows and their places are the same after a step that stores nothing.
LEMMA SameMatches ==
    ASSUME UNCHANGED <<status, landed, lifecycle, scores, token, query>>
    PROVE  /\ Matches' = Matches
           /\ \A r : Rank(query, Matches, r)' = Rank(query, Matches, r)
<1>1. Matches' = Matches
  BY DEF Matches, Matching, SelectsFinding, SelectsScore, Joined, Passes
<1>2. \A r : Rank(query, Matches, r)' = Rank(query, Matches', r)
  BY DEF Rank, Before, SortKey
<1> QED  BY <1>1, <1>2

LEMMA CountKeeps ==
    ASSUME IInv, Count
    PROVE  IInv'
<1>1. /\ UNCHANGED <<status, workers, token, query, offset, got, promised,
                     late>>
      /\ phase = "count" /\ phase' = "select"
      /\ total' = Cardinality(Matches) /\ 200 \in Refusals(query)
  BY DEF Count
<1>2. UNCHANGED <<status, landed, counts, lifecycle, due, pending, scores,
                  sequence, clock, token>>
  BY <1>1 DEF workers
<1>3. IsFiniteSet(Matches)
  BY MatchesOrderable DEF IInv, Orderable
<1>4. total' \in Nat
  BY <1>1, <1>3, FS_CardinalityType
<1>5. TypeOK'
  BY <1>1, <1>2, <1>4 DEF IInv, TypeOK
<1>6. IsFiniteSet(scores)' /\ PendingReady' /\ ScoredScans'
  BY <1>1, ClientKeepsTables
<1>7. Reading'
  <2>1. Shown(query, promised)' = Shown(query, promised)
    BY <1>1 DEF Shown, Translatable
  <2>2. /\ Matches' = Matches
        /\ \A r : Rank(query, Matches, r)' = Rank(query, Matches, r)
    BY <1>1, <1>2, SameMatches
  <2> QED  BY <1>1, <2>1, <2>2 DEF IInv, Reading
<1>8. CountedInBounds'
  BY <1>1 DEF CountedInBounds, Refusals
<1>9. WalkMissesNothing' /\ IsFiniteSet(promised)'
  BY <1>1 DEF IInv, WalkMissesNothing
<1> QED  BY <1>5, <1>6, <1>7, <1>8, <1>9 DEF IInv

\* The window that is read shows the promised rows in it; behind the last one
\* lie no more than were stored since the count.
LEMMA SelectKeeps ==
    ASSUME IInv, Select
    PROVE  IInv'
<1> DEFINE rows == Window(query, Matches, offset)
           more == HasMore(query, rows, offset, total)
<1>1. /\ UNCHANGED <<status, workers, token, query, total, promised>>
      /\ phase = "select" /\ got' = got \union Shown(query, rows)
      /\ IF more THEN phase' = "count" /\ offset' = offset + query.limit
                 ELSE phase' = "done" /\ offset' = offset
      /\ late' = IF Cardinality(Matches) > total
                 THEN Cardinality(Matches) - total ELSE 0
  BY DEF Select
<1>2. UNCHANGED <<status, landed, counts, lifecycle, due, pending, scores,
                  sequence, clock, token>>
  BY <1>1 DEF workers
<1>3. /\ query.limit \in Nat /\ query.limit >= 1
      /\ offset \in Nat /\ total \in Nat
  BY <1>1, QueryApiConstants DEF IInv, TypeOK, CountedInBounds
<1>4. TypeOK'
  <2>1. phase' \in {"count", "done"} /\ offset' \in Nat
    BY <1>1, <1>3
  <2>2. late' \in Nat
    <3>1. Cardinality(Matches) \in Nat
      BY MatchesOrderable, FS_CardinalityType DEF IInv, Orderable
    <3> QED  BY <1>1, <1>3, <3>1
  <2>3. query' \in Queries
    BY <1>1 DEF IInv, TypeOK
  <2> QED  BY <1>1, <1>2, <2>1, <2>2, <2>3 DEF IInv, TypeOK
<1>5. IsFiniteSet(scores)' /\ PendingReady' /\ ScoredScans'
  BY <1>1, ClientKeepsTables
<1>6. Orderable(query, Matches)
  BY MatchesOrderable DEF IInv
<1>7. ASSUME query.state = "any", NEW r \in promised,
             r \in Shown(query, promised),
             Rank(query, Matches, r) < offset + query.limit
      PROVE  r \in got'
  <2>1. r \in Matches
    BY <1>1, <1>7 DEF IInv, Reading
  <2>2. Rank(query, Matches, r) \in Nat
    BY <1>6, <2>1, RankBounded
  <2>3. CASE Rank(query, Matches, r) < offset
    BY <2>3, <1>1, <1>7 DEF IInv, Reading
  <2>4. CASE ~(Rank(query, Matches, r) < offset)
    <3>1. Rank(query, Matches, r) \in offset..(offset + query.limit - 1)
      BY <2>2, <2>4, <1>3, <1>7
    <3>2. r \in rows
      BY <2>1, <3>1 DEF Window
    <3>3. r \in Shown(query, rows)
      BY <3>2, <1>7 DEF Shown
    <3> QED  BY <3>3, <1>1
  <2> QED  BY <2>3, <2>4
<1>8. Shown(query, promised)' = Shown(query, promised)
  BY <1>1 DEF Shown, Translatable
<1>9. Reading'
  <2> SUFFICES ASSUME more, query.state = "any", NEW r \in promised
               PROVE  /\ r \in Matches
                      /\ /\ Rank(query, Matches, r) < offset + query.limit
                         /\ r \in Shown(query, promised)
                         => r \in got'
    <3>1. /\ Matches' = Matches
          /\ \A r : Rank(query, Matches, r)' = Rank(query, Matches, r)
      BY <1>1, <1>2, SameMatches
    <3> HIDE DEF more
    <3> QED  BY <1>1, <1>8, <3>1 DEF Reading
  <2> QED  BY <1>1, <1>7 DEF IInv, Reading
<1>10. WalkMissesNothing'
  <2> DEFINE edge == offset + query.limit
             behind == {r \in Matches : ~(Rank(query, Matches, r) < edge)}
             missed == Shown(query, promised) \ got'
             M == Cardinality(Matches)
  <2> SUFFICES ASSUME ~more, query.state = "any"
               PROVE  Cardinality(missed) <= late'
    <3> HIDE DEF more
    <3> QED  BY <1>1, <1>8 DEF WalkMissesNothing
  <2>1. Cardinality(rows) \in Nat /\ Cardinality(rows) <= query.limit
    BY <1>3, <1>6, WindowSize
  <2>2. ~(offset + Cardinality(rows) < total)
    BY DEF HasMore
  <2>3. total <= edge /\ edge \in Nat
    <3> HIDE DEF rows
    <3> QED  BY <1>3, <2>1, <2>2
  <2>4. missed \in SUBSET behind
    <3> SUFFICES ASSUME NEW r \in missed PROVE r \in behind
      OBVIOUS
    <3>1. r \in promised /\ r \in Shown(query, promised)
      BY DEF Shown
    <3>2. r \in Matches
      BY <1>1, <3>1 DEF IInv, Reading
    <3> QED  BY <1>7, <3>1, <3>2
  <2> HIDE DEF edge
  <2>5. /\ IsFiniteSet(behind)
        /\ behind # {} => Cardinality(behind) + edge <= M
    BY <1>6, <2>3, BehindWindow
  <2>6. M \in Nat
    BY <1>6, FS_CardinalityType DEF Orderable
  <2> HIDE DEF missed, behind
  <2>7. /\ IsFiniteSet(missed) /\ Cardinality(missed) <= Cardinality(behind)
        /\ Cardinality(missed) \in Nat /\ Cardinality(behind) \in Nat
    BY <2>4, <2>5, FS_Subset, FS_CardinalityType
  <2>8. behind = {} => Cardinality(behind) = 0
    BY FS_EmptySet
  <2>9. late' = IF M > total THEN M - total ELSE 0
    BY <1>1
  <2> HIDE DEF M, rows, more
  <2> QED  BY <1>3, <2>3, <2>5, <2>6, <2>7, <2>8, <2>9
<1>11. CountedInBounds' /\ IsFiniteSet(promised)'
  BY <1>1 DEF IInv, CountedInBounds
<1> QED  BY <1>4, <1>5, <1>9, <1>10, <1>11 DEF IInv

-----------------------------------------------------------------------------
LEMMA InitIInv == Init => IInv
<1> SUFFICES ASSUME Init PROVE IInv
  OBVIOUS
<1>1. TypeOK
  <2>1. status \in [Findings -> Statuses]
    BY QueryApiConstants DEF Init
  <2>2. DOMAIN counts = landed
    BY DEF Init
  <2>3. lifecycle \in [{f.logical : f \in Findings} ->
                         {"none", "open", "resolved", "reopened"}]
    BY DEF Init
  <2> QED  BY <2>1, <2>2, <2>3 DEF Init, TypeOK
<1>2. /\ IsFiniteSet(scores) /\ PendingReady /\ ScoredScans
      /\ IsFiniteSet(promised)
  BY FS_EmptySet DEF Init, PendingReady, ScoredScans
<1>3. Reading /\ CountedInBounds /\ WalkMissesNothing
  BY DEF Init, Reading, CountedInBounds, WalkMissesNothing
<1> QED  BY <1>1, <1>2, <1>3 DEF IInv

LEMMA StepKeeps == IInv /\ [Next]_vars => IInv'
<1> SUFFICES ASSUME IInv, [Next]_vars PROVE IInv'
  OBVIOUS
<1>1. CASE \E scan \in Scans :
            Land(scan) \/ ComputeScores(scan) \/ SaveScores(scan)
  BY <1>1, LandKeeps, ComputeKeeps, SaveKeeps
<1>2. CASE Restart \/ Begin \/ Refused \/ Count \/ Select
  BY <1>2, RestartKeeps, BeginKeeps, RefusedKeeps, CountKeeps, SelectKeeps
<1>3. CASE UNCHANGED vars
  <2>1. UNCHANGED <<status, landed, counts, lifecycle, due, pending, scores,
                    sequence, clock, token>>
    BY <1>3 DEF vars, workers
  <2>2. UNCHANGED <<phase, query, offset, total, got, promised, late>>
    BY <1>3 DEF vars, walk
  <2>3. TypeOK'
    BY <2>1, <2>2 DEF IInv, TypeOK
  <2>4. IsFiniteSet(scores)' /\ PendingReady' /\ ScoredScans'
    BY <2>1 DEF IInv, PendingReady, ScoredScans, Slot
  <2>5. /\ Reading' /\ CountedInBounds' /\ WalkMissesNothing'
        /\ IsFiniteSet(promised)'
    <3>1. UNCHANGED <<status, token, walk>>
      BY <1>3 DEF vars
    <3>2. landed \subseteq landed' /\ scores \subseteq scores'
      BY <2>1
    <3>3. \A l \in Logicals :
            lifecycle[l] # "none" => lifecycle'[l] # "none"
      BY <2>1
    <3> QED  BY <2>3, <2>4, <3>1, <3>2, <3>3, WorkerKeepsReading
  <2> QED  BY <2>3, <2>4, <2>5 DEF IInv
<1> QED  BY <1>1, <1>2, <1>3 DEF Next

LEMMA InvariantHolds == Spec => []IInv
BY InitIInv, StepKeeps, PTL DEF Spec

\* The tables and the traversal hold what they may hold, and one id names one
\* score, whatever order scans are stored and scored in.
THEOREM TypeCorrect == Spec => []TypeOK
<1>1. IInv => TypeOK
  BY DEF IInv
<1> QED  BY <1>1, InvariantHolds, PTL

\* Whatever is stored while a client pages, and whenever: when has_more is
\* false, the rows that matched when it began and still exist have been shown
\* to it, but for at most as many as were stored between the two statements
\* of the last page.
THEOREM WalkComplete == Spec => []WalkMissesNothing
<1>1. IInv => WalkMissesNothing
  BY DEF IInv
<1> QED  BY <1>1, InvariantHolds, PTL

\* A tenant's answers are a function of what it owns.
LEMMA OwnDecides ==
    ASSUME status' = status, NEW tenant, Own(tenant)' = Own(tenant)
    PROVE  Answers(tenant)' = Answers(tenant)
<1>1. /\ {s \in landed' : s.tenant = tenant} = {s \in landed : s.tenant = tenant}
      /\ {r \in scores' : r.tenant = tenant} = {r \in scores : r.tenant = tenant}
      /\ [f \in {f \in Findings : f.scan.tenant = tenant} |->
            lifecycle'[f.logical]]
         = [f \in {f \in Findings : f.scan.tenant = tenant} |->
            lifecycle[f.logical]]
  BY DEF Own
<1>2. \A s : s.tenant = tenant => (s \in landed' <=> s \in landed)
  BY <1>1
<1>3. \A r : r.tenant = tenant => (r \in scores' <=> r \in scores)
  BY <1>1
<1>4. \A f \in Findings :
        f.scan.tenant = tenant => lifecycle'[f.logical] = lifecycle[f.logical]
  BY <1>1
<1>5. ASSUME NEW q PROVE Matching(tenant, q)' = Matching(tenant, q)
  <2>1. CASE q.table = "findings"
    <3>1. \A f \in Findings :
            f.scan \in landed' /\ SelectsFinding(tenant, q, f)'
            <=> f.scan \in landed /\ SelectsFinding(tenant, q, f)
      BY <1>2, <1>4 DEF SelectsFinding, Joined, Passes
    <3> QED  BY <2>1, <3>1 DEF Matching
  <2>2. CASE q.table # "findings"
    <3>1. \A row : row \in scores' /\ SelectsScore(tenant, q, row)'
                   <=> row \in scores /\ SelectsScore(tenant, q, row)
      BY <1>3 DEF SelectsScore, Passes
    <3> QED  BY <2>2, <3>1 DEF Matching
  <2> QED  BY <2>1, <2>2
<1>6. \A q, S, row : Rank(q, S, row)' = Rank(q, S, row)
  BY DEF Rank, Before, SortKey
<1>7. ASSUME NEW id, NEW view
      PROVE  Fetch(tenant, id, view)' = Fetch(tenant, id, view)
  <2>1. {f \in Findings : /\ f.scan \in landed' /\ f.id = id
                          /\ f.scan.tenant = tenant}
        = {f \in Findings : /\ f.scan \in landed /\ f.id = id
                            /\ f.scan.tenant = tenant}
    BY <1>2
  <2>2. \A f : Translatable(f)' = Translatable(f)
    BY DEF Translatable
  <2> QED  BY <2>1, <2>2 DEF Fetch
<1>8. \A scope, value : Current(tenant, scope, value)'
                        = Current(tenant, scope, value)
  <2>1. \A scope, value :
            {r \in scores' :
                r.tenant = tenant /\ r.scope = scope /\ r.value = value}
          = {r \in scores :
                r.tenant = tenant /\ r.scope = scope /\ r.value = value}
    BY <1>3
  <2> QED  BY <2>1 DEF Current
<1>9. \A q : LET S == Matching(tenant, q) IN
        [row \in S |-> Rank(q, S, row)]' = [row \in S |-> Rank(q, S, row)]
  BY <1>5, <1>6
<1> QED  BY <1>7, <1>8, <1>9 DEF Answers

\* Storing and scoring another tenant's scan changes nothing that a tenant
\* can read.
THEOREM Isolation == Spec => OthersAreInvisible
<1>1. [Next]_vars => status' = status
  BY DEF Next, Land, ComputeScores, SaveScores, Restart, Begin, Refused, Count,
         Select, vars
<1>2. [Next]_vars => \A tenant \in {s.tenant : s \in Scans} :
        tables' # tables /\ Own(tenant)' = Own(tenant)
            => Answers(tenant)' = Answers(tenant)
  BY <1>1, OwnDecides
<1> QED  BY <1>2, PTL DEF Spec, OthersAreInvisible

-----------------------------------------------------------------------------
(***************************************************************************)
(* Scores can be recounted.  First, that a sum of the sizes of disjoint    *)
(* sets is the size of their union, by induction on how a sum is defined.  *)
(***************************************************************************)
LEMMA SmallestSet ==
    ASSUME NEW T, T # {}, \A s \in T : IsFiniteSet(s)
    PROVE  \E s \in T : \A u \in T : Cardinality(s) <= Cardinality(u)
<1> DEFINE sizes == {Cardinality(s) : s \in T}
<1>1. sizes \subseteq Nat /\ sizes # {}
  BY FS_CardinalityType
<1>2. \E x \in sizes : \A y \in sizes : x <= y
  <2> HIDE DEF sizes
  <2> QED  BY <1>1, LeastNumber
<1> QED  BY <1>2

Chosen(s) == CHOOSE x \in s : TRUE

\* How a sum over the values of a function is defined.
Sums(g, f, sets) ==
    g = [s \in sets |->
            IF s = {} THEN 0 ELSE f[Chosen(s)] + g[s \ {Chosen(s)}]]

\* Sizes within a finite set.
LEMMA Sizes ==
    ASSUME NEW D, IsFiniteSet(D), NEW s \in SUBSET D
    PROVE  /\ IsFiniteSet(s) /\ Cardinality(s) \in Nat
           /\ Cardinality(s) <= Cardinality(D)
           /\ s # {} => /\ Chosen(s) \in s
                        /\ s \ {Chosen(s)} \in SUBSET D
                        /\ Cardinality(s \ {Chosen(s)}) = Cardinality(s) - 1
<1>1. IsFiniteSet(s) /\ Cardinality(s) \in Nat /\ Cardinality(s) <= Cardinality(D)
  BY FS_Subset, FS_CardinalityType
<1>2. ASSUME s # {}
      PROVE  Chosen(s) \in s
  BY <1>2 DEF Chosen
<1> QED  BY <1>1, <1>2, FS_RemoveElement

\* It is defined for every subset of a finite domain.
LEMMA SumsExist ==
    ASSUME NEW f, IsFiniteSet(DOMAIN f)
    PROVE  \E g : Sums(g, f, SUBSET DOMAIN f)
<1> DEFINE D == DOMAIN f
           Upto(k) == {t \in SUBSET D : Cardinality(t) <= k}
           Bad == {k \in Nat : ~\E g : Sums(g, f, Upto(k))}
<1>0. Cardinality(D) \in Nat /\ Upto(Cardinality(D)) = SUBSET D
  BY Sizes, FS_CardinalityType
<1>1. SUFFICES ASSUME Bad # {} PROVE FALSE
  BY <1>0
<1>2. PICK k \in Bad : \A j \in Bad : k <= j
  <2> HIDE DEF Bad
  <2>1. Bad \subseteq Nat
    BY DEF Bad
  <2> QED  BY <1>1, <2>1, LeastNumber
<1>3. CASE k = 0
  <2> DEFINE g == [s \in Upto(0) |-> 0]
  <2>1. \A s \in Upto(0) : s = {}
    <3> TAKE s \in Upto(0)
    <3>1. s \in SUBSET D /\ Cardinality(s) <= 0
      OBVIOUS
    <3>2. Cardinality(s) \in Nat /\ IsFiniteSet(s)
      BY <3>1, Sizes
    <3>3. Cardinality(s) = 0
      BY <3>1, <3>2
    <3> QED  BY <3>2, <3>3, FS_EmptySet
  <2>2. Sums(g, f, Upto(0))
    BY <2>1 DEF Sums
  <2> QED  BY <1>2, <1>3, <2>2
<1>4. CASE k # 0
  <2>1. k \in Nat /\ k - 1 \in Nat /\ k - 1 \notin Bad
    BY <1>2, <1>4, SMTT(30)
  <2>2. PICK g : Sums(g, f, Upto(k - 1))
    BY <2>1
  <2> DEFINE step(s) == IF s = {} THEN 0 ELSE f[Chosen(s)] + g[s \ {Chosen(s)}]
             h == [s \in Upto(k) |-> step(s)]
  <2>3. \A s \in Upto(k - 1) : g[s] = step(s)
    BY <2>2 DEF Sums
  <2>4. \A s \in Upto(k) : s # {} => s \ {Chosen(s)} \in Upto(k - 1)
    BY <2>1, Sizes
  <2>5. Upto(k - 1) \subseteq Upto(k)
    <3> SUFFICES ASSUME NEW s \in SUBSET D, Cardinality(s) <= k - 1
                 PROVE  Cardinality(s) <= k
      OBVIOUS
    <3>1. Cardinality(s) \in Nat
      BY Sizes
    <3> QED  BY <2>1, <3>1
  <2>6. ASSUME NEW s \in Upto(k)
        PROVE  h[s] = IF s = {} THEN 0
                      ELSE f[Chosen(s)] + h[s \ {Chosen(s)}]
    <3>1. s # {} => /\ s \ {Chosen(s)} \in Upto(k - 1)
                    /\ s \ {Chosen(s)} \in Upto(k)
      BY <2>4, <2>5
    <3>2. \A t \in Upto(k - 1) : h[t] = g[t]
      BY <2>3, <2>5
    <3>3. h[s] = step(s)
      OBVIOUS
    <3> HIDE DEF h, Upto
    <3> QED  BY <3>1, <3>2, <3>3
  <2>7. h = [s \in Upto(k) |-> IF s = {} THEN 0
                              ELSE f[Chosen(s)] + h[s \ {Chosen(s)}]]
    <3> DEFINE w == [s \in Upto(k) |-> IF s = {} THEN 0
                              ELSE f[Chosen(s)] + h[s \ {Chosen(s)}]]
    <3>1. DOMAIN h = Upto(k) /\ DOMAIN w = Upto(k)
      OBVIOUS
    <3>2. \A s \in Upto(k) : h[s] = w[s]
      BY <2>6
    <3> QED  BY <3>2
  <2>8. Sums(h, f, Upto(k))
    BY <2>7 DEF Sums
  <2> QED  BY <1>2, <2>8
<1> QED  BY <1>3, <1>4

\* A sum of sizes of disjoint sets is the size of their union.
LEMMA SumOfParts ==
    ASSUME NEW part, IsFiniteSet(DOMAIN part),
           \A r \in DOMAIN part : IsFiniteSet(part[r]),
           \A r, s \in DOMAIN part : r # s => part[r] \intersect part[s] = {}
    PROVE  SumFunction([r \in DOMAIN part |-> Cardinality(part[r])])
               = Cardinality(UNION {part[r] : r \in DOMAIN part})
<1> DEFINE D == DOMAIN part
           f == [r \in D |-> Cardinality(part[r])]
           Total(s) == UNION {part[r] : r \in s}
           g == CHOOSE h : Sums(h, f, SUBSET DOMAIN f)
<1>1. DOMAIN f = D
  OBVIOUS
<1>2. Sums(g, f, SUBSET DOMAIN f)
  <2>1. \E h : Sums(h, f, SUBSET DOMAIN f)
    <3> HIDE DEF f
    <3> QED  BY <1>1, SumsExist
  <2> HIDE DEF f
  <2> QED  BY <2>1
<1>3. SumFunction(f) = g[DOMAIN f]
  <2> HIDE DEF f
  <2> QED  BY DEF SumFunction, SumFunctionOnSet, FoldFunctionOnSet,
                  MapThenFoldSet, Sums, Chosen
<1>5. \A s \in SUBSET D :
        g[s] = IF s = {} THEN 0 ELSE f[Chosen(s)] + g[s \ {Chosen(s)}]
  <2> HIDE DEF g, f
  <2> QED  BY <1>1, <1>2 DEF Sums
<1> HIDE DEF g
<1> DEFINE Right(s) == IsFiniteSet(Total(s)) /\ g[s] = Cardinality(Total(s))
           Bad == {s \in SUBSET D : ~Right(s)}
<1>6. Bad = {}
  <2> SUFFICES ASSUME Bad # {} PROVE FALSE
    OBVIOUS
  <2>1. PICK s \in Bad : \A u \in Bad : Cardinality(s) <= Cardinality(u)
    <3>1. \A u \in Bad : IsFiniteSet(u)
      BY Sizes
    <3> HIDE DEF Bad
    <3> QED  BY <3>1, SmallestSet
  <2>2. s \in SUBSET D /\ ~Right(s)
    BY <2>1
  <2>3. CASE s = {}
    <3>1. Total(s) = {} /\ g[s] = 0
      BY <2>2, <2>3, <1>5
    <3> QED  BY <2>2, <3>1, FS_EmptySet
  <2>4. CASE s # {}
    <3> DEFINE c == Chosen(s)
               rest == s \ {c}
    <3>1. /\ c \in s /\ rest \in SUBSET D /\ Cardinality(s) \in Nat
          /\ Cardinality(rest) = Cardinality(s) - 1
      BY <2>2, <2>4, Sizes
    <3>2. Right(rest)
      <4>1. ~(Cardinality(s) <= Cardinality(rest))
        <5> HIDE DEF rest
        <5> QED  BY <3>1
      <4>2. rest \notin Bad
        <5> HIDE DEF Bad, rest
        <5> QED  BY <2>1, <4>1
      <4> QED  BY <3>1, <4>2
    <3>3. Total(s) = part[c] \union Total(rest)
      BY <3>1
    <3>4. part[c] \intersect Total(rest) = {}
      BY <3>1
    <3>5. IsFiniteSet(part[c]) /\ f[c] = Cardinality(part[c])
      BY <2>2, <3>1
    <3>6. /\ IsFiniteSet(Total(s))
          /\ Cardinality(Total(s)) = f[c] + Cardinality(Total(rest))
      <4> DEFINE A == part[c]
                 B == Total(rest)
      <4>1. IsFiniteSet(A) /\ IsFiniteSet(B) /\ A \intersect B = {}
        BY <3>2, <3>4, <3>5
      <4> HIDE DEF A, B
      <4>2. /\ IsFiniteSet(A \union B)
            /\ Cardinality(A \union B)
                 = Cardinality(A) + Cardinality(B) - Cardinality(A \intersect B)
        BY <4>1, FS_Union
      <4>3. Cardinality(A \intersect B) = 0
        BY <4>1, FS_EmptySet
      <4>4. Cardinality(A) \in Nat /\ Cardinality(B) \in Nat
        BY <4>1, FS_CardinalityType
      <4>5. Cardinality(A \union B) = Cardinality(A) + Cardinality(B)
        BY <4>2, <4>3, <4>4
      <4> QED  BY <3>3, <3>5, <4>2, <4>5 DEF A, B
    <3>7. g[s] = f[c] + g[rest]
      BY <1>5, <2>2, <2>4
    <3> HIDE DEF c, rest, f
    <3>8. Right(s)
      <4> HIDE DEF Total
      <4> QED  BY <3>2, <3>6, <3>7
    <3> QED  BY <2>2, <3>8
  <2> QED  BY <2>3, <2>4
<1>7. D \in SUBSET D /\ D \notin Bad
  BY <1>6
<1>8. Right(D)
  BY <1>7
<1> QED  BY <1>1, <1>3, <1>8

-----------------------------------------------------------------------------
(***************************************************************************)
(* The stored scores of a scan are those of one scoring, all of them.      *)
(***************************************************************************)
Labelled(base, r) ==
    [id |-> base + 1 + Slot(r), tenant |-> r.tenant, scope |-> r.scope,
     value |-> r.value, scan |-> r.scan, counts |-> r.counts,
     computed |-> r.computed]

Scoring(scan, base, now) ==
    {Labelled(base, r) : r \in ScoresOf(scan, now)}

ScoredAtOnce(scan) ==
    \E base, now :
        {r \in scores : r.scan = scan.key} = Scoring(scan, base, now)

RecountInv ==
    /\ \A scan \in landed : counts[scan] = FromScanData(OfScan(scan))
    /\ \A p \in pending : \E now : p.rows = ScoresOf(p.scan, now)
    /\ \A scan \in Scans :
        (\E r \in scores : r.scan = scan.key) => ScoredAtOnce(scan)

\* The verdicts of findings do not change, nor does what is counted of them.
LEMMA SameScores ==
    ASSUME status' = status, NEW scan, NEW now
    PROVE  /\ FromScanData(OfScan(scan))' = FromScanData(OfScan(scan))
           /\ ScoresOf(scan, now)' = ScoresOf(scan, now)
<1>1. \A S, st : With(S, st)' = With(S, st)
  BY DEF With
<1>2. \A S : FromScanData(S)' = FromScanData(S)
  BY <1>1 DEF FromScanData, Of
<1>3. \A S : Tally(S)' = Tally(S)
  BY <1>1 DEF Tally, Of
<1>4. \A scope, value, S :
        ScoreOf(scan, scope, value, S, now)'
            = ScoreOf(scan, scope, value, S, now)
  BY <1>3 DEF ScoreOf
<1>5. ScoresByDimension(scan, now)' = ScoresByDimension(scan, now)
  BY <1>4 DEF ScoresByDimension, OfScan
<1> QED  BY <1>2, <1>4, <1>5 DEF ScoresOf, OfScan

LEMMA RecountInit == Init => RecountInv
BY DEF Init, RecountInv

LEMMA RecountStep == IInv /\ RecountInv /\ [Next]_vars => RecountInv'
<1> SUFFICES ASSUME IInv, RecountInv, [Next]_vars PROVE RecountInv'
  OBVIOUS
<1>1. status' = status
  BY DEF Next, Land, ComputeScores, SaveScores, Restart, Begin, Refused, Count,
         Select, vars
<1>2. ASSUME NEW scan
      PROVE  FromScanData(OfScan(scan))' = FromScanData(OfScan(scan))
  BY <1>1, SameScores
<1>3. ASSUME NEW scan, NEW now PROVE ScoresOf(scan, now)' = ScoresOf(scan, now)
  BY <1>1, SameScores
<1>4. ASSUME NEW scan, NEW base, NEW now
      PROVE  Scoring(scan, base, now)' = Scoring(scan, base, now)
  BY <1>3 DEF Scoring, Labelled, Slot
<1>5. ASSUME NEW scan \in Scans, ScoredAtOnce(scan),
             {r \in scores' : r.scan = scan.key}
                 = {r \in scores : r.scan = scan.key}
      PROVE  ScoredAtOnce(scan)'
  BY <1>4, <1>5 DEF ScoredAtOnce
<1>6. CASE \E scan \in Scans : Land(scan)
  <2>1. PICK scan \in Scans : Land(scan)
    BY <1>6
  <2>2. UNCHANGED <<pending, scores>>
    BY <2>1 DEF Land
  <2>3. \A s \in landed' : counts'[s] = FromScanData(OfScan(s))
    BY <2>1 DEF Land, RecountInv
  <2> QED  BY <1>2, <1>3, <1>5, <2>2, <2>3 DEF RecountInv
<1>7. CASE \E scan \in Scans : ComputeScores(scan)
  <2>1. PICK scan \in Scans : ComputeScores(scan)
    BY <1>7
  <2>2. /\ UNCHANGED <<landed, counts, scores>>
        /\ pending' = pending \union
             {[scan |-> scan, rows |-> ScoresOf(scan, clock)]}
    BY <2>1 DEF ComputeScores
  <2>3. \A p \in pending' : \E now : p.rows = ScoresOf(p.scan, now)
    BY <2>2 DEF RecountInv
  <2> QED  BY <1>2, <1>3, <1>5, <2>2, <2>3 DEF RecountInv
<1>8. CASE \E scan \in Scans : SaveScores(scan)
  <2>1. PICK scan \in Scans : SaveScores(scan)
    BY <1>8
  <2>2. PICK p \in pending :
          /\ pending' = pending \ {p}
          /\ scores' = {r \in scores :
                          ~\E s \in p.rows : Identity(s) = Identity(r)}
                       \union Numbered(p.rows)
    BY <2>1 DEF SaveScores
  <2>3. UNCHANGED <<landed, counts>>
    BY <2>1 DEF SaveScores
  <2>4. /\ p.scan \in Scans /\ \A r \in p.rows : r.scan = p.scan.key
        /\ \A row \in scores : row.scan # p.scan.key
    BY DEF IInv, TypeOK, PendingReady
  <2>5. scores' = scores \union Numbered(p.rows)
    BY <2>2, <2>4 DEF Identity
  <2>6. PICK now : p.rows = ScoresOf(p.scan, now)
    BY DEF RecountInv
  <2>7. Numbered(p.rows) = {Labelled(sequence, r) : r \in p.rows}
    BY DEF Numbered, Labelled
  <2>8. \A n \in Numbered(p.rows) : n.scan = p.scan.key
    BY <2>4, NumberedRows
  <2>9. ASSUME NEW told \in Scans, \E r \in scores' : r.scan = told.key
        PROVE  ScoredAtOnce(told)'
    <3>1. CASE told = p.scan
      <4>1. {r \in scores' : r.scan = told.key} = Numbered(p.rows)
        BY <2>4, <2>5, <2>8, <3>1
      <4>2. {r \in scores' : r.scan = told.key}
              = Scoring(told, sequence, now)
        BY <4>1, <2>6, <2>7, <3>1 DEF Scoring
      <4> QED  BY <1>4, <4>2 DEF ScoredAtOnce
    <3>2. CASE told # p.scan
      <4>1. told.key # p.scan.key
        BY <2>4, <3>2, QueryApiConstants
      <4>2. {r \in scores' : r.scan = told.key}
              = {r \in scores : r.scan = told.key}
        BY <2>5, <2>8, <4>1
      <4>3. ScoredAtOnce(told)
        BY <2>9, <4>2 DEF RecountInv
      <4> QED  BY <1>5, <4>2, <4>3
    <3> QED  BY <3>1, <3>2
  <2> QED  BY <1>2, <1>3, <2>2, <2>3, <2>9 DEF RecountInv
<1>9. CASE UNCHANGED workers
  BY <1>2, <1>3, <1>5, <1>9 DEF workers, RecountInv
<1>10. CASE Restart
  BY <1>2, <1>10 DEF Restart, RecountInv
<1> QED
  BY <1>6, <1>7, <1>8, <1>9, <1>10 DEF Next, Begin, Refused, Count, Select, vars

-----------------------------------------------------------------------------
\* The findings that a row is about.
Group(scan, r) ==
    {f \in OfScan(scan) :
        /\ r.scope = "framework" => f.logical.framework = r.value
        /\ r.scope = "domain" => f.logical.domain = r.value}

\* Each finding belongs to one row of each scope.
LEMMA RowsPartition ==
    ASSUME NEW scan, NEW base, NEW now,
           NEW scope \in {"scan", "framework", "domain"}
    PROVE  /\ \A r \in Scoring(scan, base, now) :
                r.counts = Tally(Group(scan, r))
           /\ \A f \in OfScan(scan) : \E r \in Scoring(scan, base, now) :
                r.scope = scope /\ f \in Group(scan, r)
           /\ \A r, s \in Scoring(scan, base, now) :
                r.scope = scope /\ s.scope = scope /\ r # s =>
                    Group(scan, r) \intersect Group(scan, s) = {}
<1> DEFINE mine == OfScan(scan)
           R == Scoring(scan, base, now)
           framework(v) == {f \in mine : f.logical.framework = v}
           domain(v) == {f \in mine : f.logical.domain = v}
           Row(kind, v, S) == Labelled(base, ScoreOf(scan, kind, v, S, now))
           Whole == Row("scan", scan.key, mine)
           Framework(v) == Row("framework", v, framework(v))
           Domain(v) == Row("domain", v, domain(v))
<1>1. /\ Whole.scope = "scan" /\ Whole.counts = Tally(mine)
      /\ \A v : /\ Framework(v).scope = "framework" /\ Framework(v).value = v
                /\ Framework(v).counts = Tally(framework(v))
                /\ Domain(v).scope = "domain" /\ Domain(v).value = v
                /\ Domain(v).counts = Tally(domain(v))
  BY DEF Labelled, ScoreOf
<1>2. ASSUME NEW r \in R
      PROVE  \/ r = Whole
             \/ \E v : r = Framework(v)
             \/ \E v : r = Domain(v)
  <2>1. PICK q \in ScoresOf(scan, now) : r = Labelled(base, q)
    BY DEF Scoring
  <2>2. CASE q = ScoreOf(scan, "scan", scan.key, mine, now)
    BY <2>1, <2>2
  <2>3. CASE \E f \in mine :
               q = ScoreOf(scan, "framework", f.logical.framework,
                           framework(f.logical.framework), now)
    BY <2>1, <2>3
  <2>4. CASE \E f \in mine :
               q = ScoreOf(scan, "domain", f.logical.domain,
                           domain(f.logical.domain), now)
    BY <2>1, <2>4
  <2> QED  BY <2>2, <2>3, <2>4, ScoreKinds
<1>3. /\ Whole \in R
      /\ \A f \in mine : /\ Framework(f.logical.framework) \in R
                          /\ Domain(f.logical.domain) \in R
  BY DEF Scoring, ScoresOf, ScoresByDimension
<1> HIDE DEF Whole, Framework, Domain
<1>4. ASSUME NEW r \in R
      PROVE  \/ r.scope = "scan" /\ r = Whole
             \/ r.scope = "framework" /\ r = Framework(r.value)
             \/ r.scope = "domain" /\ r = Domain(r.value)
  BY <1>1, <1>2
<1>5. ASSUME NEW r \in R
      PROVE  r.counts = Tally(Group(scan, r))
  <2>1. CASE r.scope = "scan" /\ r = Whole
    <3>1. Group(scan, r) = mine
      BY <2>1 DEF Group
    <3> QED  BY <1>1, <2>1, <3>1
  <2>2. CASE r.scope = "framework" /\ r = Framework(r.value)
    <3>1. Group(scan, r) = framework(r.value)
      BY <2>2 DEF Group
    <3> QED  BY <1>1, <2>2, <3>1
  <2>3. CASE r.scope = "domain" /\ r = Domain(r.value)
    <3>1. Group(scan, r) = domain(r.value)
      BY <2>3 DEF Group
    <3> QED  BY <1>1, <2>3, <3>1
  <2> QED  BY <1>4, <2>1, <2>2, <2>3
<1>6. ASSUME NEW f \in OfScan(scan)
      PROVE  \E r \in R : r.scope = scope /\ f \in Group(scan, r)
  <2>1. CASE scope = "scan"
    BY <1>1, <1>3, <2>1 DEF Group
  <2>2. CASE scope = "framework"
    <3> DEFINE r == Framework(f.logical.framework)
    <3>1. /\ r \in R /\ r.scope = "framework"
          /\ r.value = f.logical.framework
      BY <1>1, <1>3
    <3> QED  BY <2>2, <3>1 DEF Group
  <2>3. CASE scope = "domain"
    <3> DEFINE r == Domain(f.logical.domain)
    <3>1. r \in R /\ r.scope = "domain" /\ r.value = f.logical.domain
      BY <1>1, <1>3
    <3> QED  BY <2>3, <3>1 DEF Group
  <2> QED  BY <2>1, <2>2, <2>3
<1>7. ASSUME NEW r \in R, NEW s \in R, r.scope = scope, s.scope = scope,
             NEW f \in Group(scan, r), f \in Group(scan, s)
      PROVE  r = s
  <2>1. scope # "scan" => r.value = s.value
    BY <1>7 DEF Group
  <2> QED  BY <1>4, <1>7, <2>1
<1> QED  BY <1>5, <1>6, <1>7

\* What a tally counts of a set, part by part of the findings of a scan.
LEMMA TallyParts ==
    ASSUME TypeOK, NEW S, S \subseteq Findings, NEW G, G \subseteq S
    PROVE  /\ Tally(G).passed = Cardinality(G \intersect With(S, "pass"))
           /\ Tally(G).failed = Cardinality(G \intersect With(S, "fail"))
           /\ Tally(G).indeterminate
                = Cardinality(G \intersect With(S, "indeterminate"))
           /\ Tally(G).passed + Tally(G).failed + Tally(G).indeterminate
                = Cardinality(G \intersect S)
           /\ \A v \in Severities :
                Tally(G).severity[v]
                  = Cardinality(G \intersect Of(With(S, "fail"), v))
<1> DEFINE pass == With(G, "pass")
           fail == With(G, "fail")
           rest == With(G, "indeterminate")
<1>1. \A f \in G : status[f] \in Statuses
  BY DEF TypeOK
<1>2. G \ (pass \union fail) = rest
  BY <1>1 DEF With, Statuses
<1>3. /\ Tally(G).passed = Cardinality(pass)
      /\ Tally(G).failed = Cardinality(fail)
      /\ Tally(G).indeterminate = Cardinality(rest)
      /\ \A v \in Severities : Tally(G).severity[v] = Cardinality(Of(fail, v))
  BY <1>2 DEF Tally
<1>4. /\ pass = G \intersect With(S, "pass")
      /\ fail = G \intersect With(S, "fail")
      /\ rest = G \intersect With(S, "indeterminate")
      /\ \A v : Of(fail, v) = G \intersect Of(With(S, "fail"), v)
      /\ G \intersect S = G
  BY DEF With, Of
<1>5. Cardinality(pass) + Cardinality(fail) + Cardinality(rest)
        = Cardinality(G)
  <2>1. /\ (pass \union fail) \union rest = G
        /\ pass \intersect fail = {}
        /\ (pass \union fail) \intersect rest = {}
    BY <1>1 DEF With, Statuses
  <2>2. IsFiniteSet(pass) /\ IsFiniteSet(fail) /\ IsFiniteSet(rest)
    <3>1. IsFiniteSet(G)
      BY FS_Subset, QueryApiConstants
    <3>2. pass \subseteq G /\ fail \subseteq G /\ rest \subseteq G
      BY DEF With
    <3> QED  BY <3>1, <3>2, FS_Subset
  <2> HIDE DEF pass, fail, rest
  <2>3. /\ IsFiniteSet(pass \union fail)
        /\ Cardinality(pass \union fail)
             = Cardinality(pass) + Cardinality(fail) - Cardinality({})
    BY <2>1, <2>2, FS_Union
  <2>4. Cardinality(G) = Cardinality(pass \union fail) + Cardinality(rest)
                             - Cardinality({})
    BY <2>1, <2>2, <2>3, FS_Union
  <2>5. /\ Cardinality({}) = 0 /\ Cardinality(pass) \in Nat
        /\ Cardinality(fail) \in Nat /\ Cardinality(rest) \in Nat
    BY <2>2, FS_EmptySet, FS_CardinalityType
  <2> QED  BY <2>3, <2>4, <2>5
<1> QED  BY <1>3, <1>4, <1>5

\* A count that each row takes of its own findings adds up.
LEMMA Recount ==
    ASSUME NEW scan, NEW rows, IsFiniteSet(rows),
           NEW X, X \subseteq OfScan(scan), IsFiniteSet(X), NEW field,
           DOMAIN field = rows, field = [r \in rows |-> field[r]],
           \A r \in rows :
               field[r] = Cardinality(Group(scan, r) \intersect X),
           \A f \in OfScan(scan) : \E r \in rows : f \in Group(scan, r),
           \A r, s \in rows :
               r # s => Group(scan, r) \intersect Group(scan, s) = {}
    PROVE  SumFunction(field) = Cardinality(X)
<1> DEFINE part == [r \in rows |-> Group(scan, r) \intersect X]
<1>1. \A r \in rows : IsFiniteSet(part[r])
  BY FS_Subset
<1>2. \A r, s \in rows : r # s => part[r] \intersect part[s] = {}
  OBVIOUS
<1>3. UNION {part[r] : r \in rows} = X
  OBVIOUS
<1>4. field = [r \in rows |-> Cardinality(part[r])]
  OBVIOUS
<1>5. DOMAIN part = rows
  OBVIOUS
<1> HIDE DEF part
<1>6. SumFunction([r \in DOMAIN part |-> Cardinality(part[r])])
        = Cardinality(UNION {part[r] : r \in DOMAIN part})
  BY <1>1, <1>2, <1>5, SumOfParts
<1> QED  BY <1>3, <1>4, <1>5, <1>6

\* The scores that are stored of a scan, of its frameworks and of its domains
\* each add up to the tallies on the row of the scan (tally, from_scan_data).
THEOREM ScoresAddUp == Spec => []ScoresRecountable
<1>1. IInv /\ RecountInv => ScoresRecountable
  <2> SUFFICES ASSUME IInv, RecountInv PROVE ScoresRecountable
    OBVIOUS
  <2> DEFINE rows(scan, scope) ==
                 {r \in scores : r.scan = scan.key /\ r.scope = scope}
  <2>1. ASSUME NEW scan \in landed, rows(scan, "scan") # {},
               NEW scope \in {"scan", "framework", "domain"}
        PROVE  /\ SumFunction([r \in rows(scan, scope) |-> r.counts.passed])
                     = counts[scan].pass
               /\ SumFunction([r \in rows(scan, scope) |-> r.counts.failed])
                     = counts[scan].fail
               /\ SumFunction([r \in rows(scan, scope) |->
                                   r.counts.indeterminate])
                     = counts[scan].indeterminate
               /\ SumFunction([r \in rows(scan, scope) |->
                                   r.counts.passed + r.counts.failed
                                       + r.counts.indeterminate])
                     = counts[scan].finding
               /\ \A v \in Severities :
                     SumFunction([r \in rows(scan, scope) |->
                                     r.counts.severity[v]])
                         = counts[scan].severity[v]
    <3> DEFINE S == OfScan(scan)
               R == {r \in scores : r.scan = scan.key}
               mine == rows(scan, scope)
    <3>1. /\ scan \in Scans /\ S \subseteq Findings /\ TypeOK
          /\ counts[scan] = FromScanData(S)
      BY <2>1 DEF IInv, RecountInv, TypeOK, OfScan
    <3>2. PICK base, now : R = Scoring(scan, base, now)
      BY <2>1, <3>1 DEF RecountInv, ScoredAtOnce
    <3>3. /\ \A r \in R : r.counts = Tally(Group(scan, r))
          /\ \A f \in S : \E r \in R : r.scope = scope /\ f \in Group(scan, r)
          /\ \A r, s \in R :
               r.scope = scope /\ s.scope = scope /\ r # s =>
                   Group(scan, r) \intersect Group(scan, s) = {}
      <4> HIDE DEF R, rows
      <4> QED  BY <3>2, RowsPartition
    <3>4. /\ \A r \in mine : r.counts = Tally(Group(scan, r))
          /\ \A f \in S : \E r \in mine : f \in Group(scan, r)
          /\ \A r, s \in mine :
               r # s => Group(scan, r) \intersect Group(scan, s) = {}
      <4>1. mine = {r \in R : r.scope = scope}
        OBVIOUS
      <4> HIDE DEF R, mine, S
      <4> QED  BY <3>3, <4>1
    <3>5. IsFiniteSet(mine) /\ IsFiniteSet(S)
      <4>1. mine \subseteq scores
        OBVIOUS
      <4> HIDE DEF mine, S
      <4> QED  BY <3>1, <4>1, FS_Subset, QueryApiConstants DEF IInv
    <3> HIDE DEF mine
    <3>6. ASSUME NEW X, X \subseteq S, NEW field,
                 field = [r \in mine |-> field[r]],
                 \A r \in mine :
                     field[r] = Cardinality(Group(scan, r) \intersect X)
          PROVE  SumFunction(field) = Cardinality(X)
      <4>1. IsFiniteSet(X)
        BY <3>5, <3>6, FS_Subset
      <4> QED  BY <3>4, <3>5, <3>6, <4>1, Recount
    <3>7. ASSUME NEW r \in mine
          PROVE  LET G == Group(scan, r) IN
                 /\ r.counts.passed = Cardinality(G \intersect With(S, "pass"))
                 /\ r.counts.failed = Cardinality(G \intersect With(S, "fail"))
                 /\ r.counts.indeterminate
                      = Cardinality(G \intersect With(S, "indeterminate"))
                 /\ r.counts.passed + r.counts.failed + r.counts.indeterminate
                      = Cardinality(G \intersect S)
                 /\ \A v \in Severities :
                      r.counts.severity[v]
                        = Cardinality(G \intersect Of(With(S, "fail"), v))
      <4>1. Group(scan, r) \subseteq S /\ r.counts = Tally(Group(scan, r))
        BY <3>4 DEF Group
      <4> DEFINE G == Group(scan, r)
      <4> HIDE DEF S, G, mine, rows
      <4>2. /\ Tally(G).passed = Cardinality(G \intersect With(S, "pass"))
            /\ Tally(G).failed = Cardinality(G \intersect With(S, "fail"))
            /\ Tally(G).indeterminate
                 = Cardinality(G \intersect With(S, "indeterminate"))
            /\ Tally(G).passed + Tally(G).failed + Tally(G).indeterminate
                 = Cardinality(G \intersect S)
            /\ \A v \in Severities :
                 Tally(G).severity[v]
                   = Cardinality(G \intersect Of(With(S, "fail"), v))
        <5>1. G \subseteq S /\ S \subseteq Findings /\ TypeOK
          BY <3>1, <4>1 DEF G
        <5> QED  BY <5>1, TallyParts
      <4>3. r.counts = Tally(G)
        BY <4>1 DEF G
      <4> QED  BY <4>2, <4>3 DEF G
    <3>8. SumFunction([r \in mine |-> r.counts.passed])
             = counts[scan].pass
      <4> DEFINE X == With(S, "pass")
                 field == [r \in mine |-> r.counts.passed]
      <4>1. X \subseteq S
        BY DEF With
      <4>2. field = [r \in mine |-> field[r]]
        OBVIOUS
      <4>3. \A r \in mine :
              field[r] = Cardinality(Group(scan, r) \intersect X)
        BY <3>7
      <4> HIDE DEF X, field
      <4>4. SumFunction(field) = Cardinality(X)
        BY <3>6, <4>1, <4>2, <4>3
      <4> QED  BY <3>1, <4>4 DEF FromScanData, X, field
    <3>9. SumFunction([r \in mine |-> r.counts.failed])
             = counts[scan].fail
      <4> DEFINE X == With(S, "fail")
                 field == [r \in mine |-> r.counts.failed]
      <4>1. X \subseteq S
        BY DEF With
      <4>2. field = [r \in mine |-> field[r]]
        OBVIOUS
      <4>3. \A r \in mine :
              field[r] = Cardinality(Group(scan, r) \intersect X)
        BY <3>7
      <4> HIDE DEF X, field
      <4>4. SumFunction(field) = Cardinality(X)
        BY <3>6, <4>1, <4>2, <4>3
      <4> QED  BY <3>1, <4>4 DEF FromScanData, X, field
    <3>10. SumFunction([r \in mine |-> r.counts.indeterminate])
             = counts[scan].indeterminate
      <4> DEFINE X == With(S, "indeterminate")
                 field == [r \in mine |-> r.counts.indeterminate]
      <4>1. X \subseteq S
        BY DEF With
      <4>2. field = [r \in mine |-> field[r]]
        OBVIOUS
      <4>3. \A r \in mine :
              field[r] = Cardinality(Group(scan, r) \intersect X)
        BY <3>7
      <4> HIDE DEF X, field
      <4>4. SumFunction(field) = Cardinality(X)
        BY <3>6, <4>1, <4>2, <4>3
      <4> QED  BY <3>1, <4>4 DEF FromScanData, X, field
    <3>11. SumFunction([r \in mine |-> r.counts.passed + r.counts.failed
                                          + r.counts.indeterminate])
             = counts[scan].finding
      <4> DEFINE X == S
                 field == [r \in mine |-> r.counts.passed + r.counts.failed
                                          + r.counts.indeterminate]
      <4>1. X \subseteq S
        BY DEF With
      <4>2. field = [r \in mine |-> field[r]]
        OBVIOUS
      <4>3. \A r \in mine :
              field[r] = Cardinality(Group(scan, r) \intersect X)
        BY <3>7
      <4> HIDE DEF X, field
      <4>4. SumFunction(field) = Cardinality(X)
        BY <3>6, <4>1, <4>2, <4>3
      <4> QED  BY <3>1, <4>4 DEF FromScanData, X, field
    <3>12. ASSUME NEW v \in Severities
           PROVE  SumFunction([r \in mine |-> r.counts.severity[v]])
                      = counts[scan].severity[v]
      <4> DEFINE X == Of(With(S, "fail"), v)
                 field == [r \in mine |-> r.counts.severity[v]]
      <4>1. X \subseteq S
        BY DEF With, Of
      <4>2. field = [r \in mine |-> field[r]]
        OBVIOUS
      <4>3. \A r \in mine :
              field[r] = Cardinality(Group(scan, r) \intersect X)
        BY <3>7
      <4> HIDE DEF X, field
      <4>4. SumFunction(field) = Cardinality(X)
        BY <3>6, <4>1, <4>2, <4>3
      <4> QED  BY <3>1, <4>4 DEF FromScanData, X, field
    <3> QED  BY <3>8, <3>9, <3>10, <3>11, <3>12 DEF mine
  <2> HIDE DEF rows
  <2> QED  BY <2>1, ZenonT(40) DEF ScoresRecountable, rows
<1> QED  BY <1>1, InvariantHolds, RecountInit, RecountStep, PTL DEF Spec
=============================================================================
