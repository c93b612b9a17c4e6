------------------------------ MODULE QueryApi ------------------------------
(***************************************************************************)
(* What a client of the HTTP interface reads, page by page, while scans    *)
(* are being stored and scored: findings, their projection for the AI      *)
(* service, single findings, and compliance scores.                        *)
(*                                                                         *)
(* A page is two statements, a count and a window, each with a snapshot of *)
(* its own (PostgreSQL's default is READ COMMITTED).  A client asks for    *)
(* the next window while has_more.                                         *)
(*                                                                         *)
(* Results are committed by the scan's transaction.  Scores are not: they  *)
(* are executed on the one session that the process also reads with        *)
(* (composition.py), which nobody commits.  The readers see them, since    *)
(* they share that session, until the process ends and they are gone.      *)
(***************************************************************************)
EXTENDS Integers, FiniteSets, Functions

CONSTANTS
    Scans,        \* [key, tenant, at]: the scans that may be stored
    Findings,     \* [id, scan, logical]; logical is what stays across scans:
                  \* [name, framework, domain, severity]
    Outcomes,     \* functions from Findings to Statuses
    Tokens,       \* [tenant, roles]: what a client may present
    Queries,      \* what it may ask for
    Vocabulary,   \* the frameworks and domains of the AI contract
    Alphabetical, \* the place of a framework or domain in the order of names
    Width,        \* how many places there are
    MaxLimit

Statuses   == {"pass", "fail", "indeterminate"}
Severities == {"critical", "high", "medium", "low"}
SeverityOrder == [critical |-> 0, high |-> 1, medium |-> 2, low |-> 3]

ASSUME QueryApiConstants ==
    /\ IsFiniteSet(Findings)
    /\ \A s \in Scans : s.at \in Nat
    /\ \A s, t \in Scans : s.key = t.key => s = t
    /\ \A f \in Findings :
        f.id \in Nat /\ f.scan \in Scans /\ f.logical.severity \in Severities
    /\ \A f, g \in Findings : f.id = g.id => f = g
    /\ \A o \in Outcomes : o \in [Findings -> Statuses]
    /\ \A q \in Queries : q.limit \in Int
    /\ Width \in Nat
    /\ \A f \in Findings : \A name \in {f.logical.framework, f.logical.domain} :
        name \in DOMAIN Alphabetical /\ Alphabetical[name] \in 1..Width
    /\ \A n, m \in DOMAIN Alphabetical :
        Alphabetical[n] = Alphabetical[m] => n = m
    /\ MaxLimit \in Nat

VARIABLES
    status,    \* what each finding's scan concludes
    landed,    \* the scans whose results are stored
    counts,    \* the tallies on the row of each of them
    lifecycle, \* state of the logical findings, "none" without a row
    due,       \* stored scans whose worker has still to score them
    pending,   \* scans whose scores are computed and not yet written
    scores,    \* rows of compliance_scores that the shared session shows
    sequence,  \* the last id given to a score, gaps not counted
    clock,
    token,
    phase,     \* of the client's traversal: idle, count, select or done
    query, offset,
    total,     \* as the last page counted
    got,       \* the rows it was shown
    promised,  \* the rows that matched when it began and still exist
    late       \* by how many rows the window's snapshot outgrew the total

tables  == <<landed, counts, lifecycle, scores>>
workers == <<landed, counts, lifecycle, due, pending, scores, sequence, clock>>
walk    == <<phase, query, offset, total, got, promised, late>>
vars    == <<status, workers, token, walk>>

OfScan(scan) == {f \in Findings : f.scan = scan}
With(S, st)  == {f \in S : status[f] = st}
Of(S, severity) == {f \in S : f.logical.severity = severity}

-----------------------------------------------------------------------------
(***************************************************************************)
(* Tallies and scores.                                                     *)
(***************************************************************************)
\* Variant: severity of every check, not of the failing ones.
TallyAllSeverities(S) ==
    [passed |-> Cardinality(With(S, "pass")),
     failed |-> Cardinality(With(S, "fail")),
     indeterminate |-> Cardinality(With(S, "indeterminate")),
     severity |-> [v \in Severities |-> Cardinality(Of(S, v))]]

Tally(S) ==
    LET pass == With(S, "pass")
        fail == With(S, "fail")
    IN [passed |-> Cardinality(pass), failed |-> Cardinality(fail),
        indeterminate |-> Cardinality(S \ (pass \union fail)),
        severity |-> [v \in Severities |-> Cardinality(Of(fail, v))]]

\* ScanCounts.from_scan_data counts on its own, for the row of the scan.
FromScanData(S) ==
    [finding |-> Cardinality(S),
     pass |-> Cardinality(With(S, "pass")),
     fail |-> Cardinality(With(S, "fail")),
     indeterminate |-> Cardinality(With(S, "indeterminate")),
     severity |-> [v \in Severities |->
                      Cardinality(Of(With(S, "fail"), v))]]

\* score_for_scope and scores_by_dimension; one row per value that occurs.
ScoreOf(scan, scope, value, S, now) ==
    [tenant |-> scan.tenant, scope |-> scope, value |-> value,
     scan |-> scan.key, counts |-> Tally(S), computed |-> now]

ScoresByDimension(scan, now) ==
    LET mine == OfScan(scan)
        framework(v) == {f \in mine : f.logical.framework = v}
        domain(v)    == {f \in mine : f.logical.domain = v}
    IN {ScoreOf(scan, "framework", v, framework(v), now) :
            v \in {f.logical.framework : f \in mine}}
       \union {ScoreOf(scan, "domain", v, domain(v), now) :
            v \in {f.logical.domain : f \in mine}}

ScoresOf(scan, now) ==
    {ScoreOf(scan, "scan", scan.key, OfScan(scan), now)}
    \union ScoresByDimension(scan, now)

-----------------------------------------------------------------------------
(***************************************************************************)
(* What a query selects.                                                   *)
(***************************************************************************)
Passes(value, filter) == filter = "any" \/ value = filter

\* The lifecycle table is joined only when it is filtered on: a finding that
\* never failed has no row there, whatever the provider.
Joined(q) == q.provider # "any" \/ q.state # "any"

SelectsFinding(tenant, q, f) ==
    /\ f.scan.tenant = tenant
    /\ Passes(f.logical.framework, q.framework)
    /\ Passes(status[f], q.status)
    /\ Joined(q) => lifecycle[f.logical] # "none"
    /\ Passes(lifecycle[f.logical], q.state)

\* Variant: the tenant is one more optional predicate.
SelectsScoreOfAnyone(tenant, q, row) == Passes(row.scope, q.scope)

SelectsScore(tenant, q, row) ==
    row.tenant = tenant /\ Passes(row.scope, q.scope)

Matching(tenant, q) ==
    IF q.table = "findings"
    THEN {f \in Findings : f.scan \in landed /\ SelectsFinding(tenant, q, f)}
    ELSE {row \in scores : SelectsScore(tenant, q, row)}

\* Ascending; equal keys are told apart by the id.
SortKey(q, row) ==
    CASE q.table # "findings" -> -row.computed
      [] q.table = "findings" /\ q.sort = "severity_desc" ->
            SeverityOrder[row.logical.severity]
      [] q.table = "findings" /\ q.sort = "detected_at_asc" -> row.scan.at
      [] OTHER -> -row.scan.at

Before(q, r, s) ==
    \/ SortKey(q, r) < SortKey(q, s)
    \/ SortKey(q, r) = SortKey(q, s) /\ r.id < s.id

Rank(q, S, row) == Cardinality({r \in S : Before(q, r, row)})

Window(q, S, start) ==
    {row \in S : Rank(q, S, row) \in start..(start + q.limit - 1)}

\* finding_to_contract has no INDETERMINATE and a closed vocabulary.
Translatable(f) ==
    /\ status[f] \in {"pass", "fail"}
    /\ f.logical.framework \in Vocabulary
    /\ f.logical.domain \in Vocabulary

\* Items the projection refuses are left out of the page.
Shown(q, S) == {row \in S : q.view = "ai" => Translatable(row)}

\* Variant: a page that is not full is taken for the last one.
MoreIfFull(q, rows, start, matches) == Cardinality(Shown(q, rows)) = q.limit

\* PageResponse.of takes has_more from the page before the projection.
HasMore(q, rows, start, matches) == start + Cardinality(rows) < matches

\* get: a foreign finding is as absent as one that does not exist.
Fetch(tenant, id, view) ==
    LET found == {f \in Findings : /\ f.scan \in landed /\ f.id = id
                                   /\ f.scan.tenant = tenant}
    IN IF found = {} THEN 404
       ELSE IF view = "ai" /\ ~\E f \in found : Translatable(f) THEN 409
       ELSE 200

\* latest: newest first, then the largest id.
Current(tenant, scope, value) ==
    LET rows == {r \in scores :
                    r.tenant = tenant /\ r.scope = scope /\ r.value = value}
    IN {r \in rows : \A s \in rows :
            \/ s.computed < r.computed
            \/ s.computed = r.computed /\ s.id <= r.id}

-----------------------------------------------------------------------------
NoQuery == [table |-> "none"]

Init ==
    /\ status \in Outcomes
    /\ landed = {} /\ counts = [s \in {} |-> 0]
    /\ lifecycle = [l \in {f.logical : f \in Findings} |-> "none"]
    /\ due = {} /\ pending = {} /\ scores = {} /\ sequence = 0 /\ clock = 0
    /\ token \in Tokens
    /\ phase = "idle" /\ query = NoQuery /\ offset = 0 /\ total = 0
    /\ got = {} /\ promised = {} /\ late = 0

(***************************************************************************)
(* The workers.  PersistScanResult is one transaction: findings, counts    *)
(* and lifecycle become visible together.                                  *)
(***************************************************************************)
NextState(state, st) ==
    IF st = "fail"
    THEN CASE state = "none"     -> "open"
           [] state = "resolved" -> "reopened"
           [] OTHER              -> state
    ELSE IF state \in {"open", "reopened"} THEN "resolved" ELSE state

Land(scan) ==
    /\ scan \notin landed
    /\ landed' = landed \union {scan}
    /\ counts' = [s \in landed' |->
                    IF s = scan THEN FromScanData(OfScan(s)) ELSE counts[s]]
    /\ lifecycle' = [l \in DOMAIN lifecycle |->
            IF \E f \in OfScan(scan) : f.logical = l
            THEN NextState(lifecycle[l],
                           status[CHOOSE f \in OfScan(scan) : f.logical = l])
            ELSE lifecycle[l]]
    /\ due' = due \union {scan}
    /\ UNCHANGED <<status, pending, scores, sequence, clock, token, walk>>

\* The worker that stored the scan scores it once; computed_at is read from
\* the clock before the statement that writes it.
ComputeScores(scan) ==
    /\ scan \in due /\ due' = due \ {scan}
    /\ clock' = clock + 1
    /\ pending' = pending \union
            {[scan |-> scan, rows |-> ScoresOf(scan, clock)]}
    /\ UNCHANGED <<status, landed, counts, lifecycle, scores, sequence, token,
                   walk>>

Identity(row) == <<row.tenant, row.scope, row.value, row.scan>>

\* The order of the rows in the statement: the scan's, then each framework's
\* and each domain's by name.
Slot(row) ==
    CASE row.scope = "scan"      -> 0
      [] row.scope = "framework" -> Alphabetical[row.value]
      [] row.scope = "domain"    -> Width + Alphabetical[row.value]

\* Variant: a number per statement, not per row.
NumberedOnce(rows) ==
    {[id |-> sequence + 1, tenant |-> r.tenant, scope |-> r.scope,
      value |-> r.value, scan |-> r.scan, counts |-> r.counts,
      computed |-> r.computed] : r \in rows}

Numbered(rows) ==
    {[id |-> sequence + 1 + Slot(r), tenant |-> r.tenant, scope |-> r.scope,
      value |-> r.value, scan |-> r.scan, counts |-> r.counts,
      computed |-> r.computed] : r \in rows}

\* save_all: one statement, an upsert by identity, executed on the session
\* that the readers share.
SaveScores(scan) ==
    /\ \E p \in pending :
        /\ p.scan = scan
        /\ pending' = pending \ {p}
        /\ scores' = {r \in scores :
                        ~\E s \in p.rows : Identity(s) = Identity(r)}
                     \union Numbered(p.rows)
        /\ sequence' = sequence + 2 * Width + 1
    /\ UNCHANGED <<status, landed, counts, lifecycle, due, clock, token, walk>>

\* The process ends and starts again: what was executed and not committed is
\* gone, and no worker comes back to it.  Numbers that were drawn stay drawn.
Restart ==
    /\ due' = {} /\ pending' = {} /\ scores' = {}
    /\ promised' = promised \ scores
    /\ UNCHANGED <<status, landed, counts, lifecycle, sequence, clock, token,
                   phase, query, offset, total, got, late>>

(***************************************************************************)
(* The client.                                                             *)
(***************************************************************************)
\* current_identity, then the bounds of the request, then require_role.  A
\* token may have expired since the last page; the client may get another.
\* A session left aborted by an earlier statement answers 500, which ends the
\* walk like a refusal.
Refusals(q) ==
    IF token.tenant = "none" THEN {401}
    ELSE {401} \union IF q.limit \notin 1..MaxLimit THEN {422}
                      ELSE IF "reader" \notin token.roles THEN {403} ELSE {200}

Begin ==
    /\ phase \in {"idle", "done"} /\ phase' = "count"
    /\ \E q \in Queries :
        query' = q /\ promised' = Matching(token.tenant, q)
    /\ offset' = 0 /\ total' = 0 /\ got' = {} /\ late' = 0
    /\ UNCHANGED <<status, workers, token>>

Refused ==
    /\ phase = "count" /\ Refusals(query) \ {200} # {}
    /\ phase' = "idle" /\ query' = NoQuery /\ offset' = 0 /\ total' = 0
    /\ got' = {} /\ promised' = {} /\ late' = 0
    /\ UNCHANGED <<status, workers, token>>

Matches == Matching(token.tenant, query)

Count ==
    /\ phase = "count" /\ 200 \in Refusals(query)
    /\ phase' = "select" /\ total' = Cardinality(Matches)
    /\ UNCHANGED <<status, workers, token, query, offset, got, promised, late>>

Select ==
    /\ phase = "select"
    /\ LET rows == Window(query, Matches, offset) IN
        /\ got' = got \union Shown(query, rows)
        /\ IF HasMore(query, rows, offset, total)
           THEN phase' = "count" /\ offset' = offset + query.limit
           ELSE phase' = "done" /\ UNCHANGED offset
    /\ late' = IF Cardinality(Matches) > total
               THEN Cardinality(Matches) - total ELSE 0
    /\ UNCHANGED <<status, workers, token, query, total, promised>>

Next ==
    \/ \E scan \in Scans : Land(scan) \/ ComputeScores(scan) \/ SaveScores(scan)
    \/ Restart
    \/ Begin \/ Refused \/ Count \/ Select

Spec == Init /\ [][Next]_vars

-----------------------------------------------------------------------------
\* What the tables and the traversal can hold; an id names one score.
TypeOK ==
    /\ status \in [Findings -> Statuses]
    /\ landed \subseteq Scans
    /\ DOMAIN counts = landed
    /\ lifecycle \in [{f.logical : f \in Findings} ->
                        {"none", "open", "resolved", "reopened"}]
    /\ due \subseteq landed
    /\ clock \in Nat /\ sequence \in Nat
    /\ \A r \in scores : r.id \in 1..sequence /\ r.computed \in 0..clock
    /\ \A r, s \in scores : r.id = s.id => r = s
    /\ phase \in {"idle", "count", "select", "done"}
    /\ phase # "idle" => query \in Queries
    /\ offset \in Nat /\ total \in Nat /\ late \in Nat

\* A client that paged until has_more was false has been shown every row
\* that matched when it began and still exists, however many scans were
\* stored meanwhile and wherever their rows fell in the order, except for at
\* most as many as were stored between the total and the window of the last
\* page.  (A filter on the lifecycle state promises nothing: the state of a
\* row may change under the client.)
WalkMissesNothing ==
    phase = "done" /\ query.state = "any" =>
        Cardinality(Shown(query, promised) \ got) <= late

\* The scores that are read can be recounted: the scan's score agrees with the
\* tallies on the scan's own row, and the frameworks, and the domains, each
\* add up to it.
ScoresRecountable ==
    \A scan \in landed :
        LET rows(scope) == {r \in scores : r.scan = scan.key /\ r.scope = scope}
            sum(Field(_), scope) ==
                SumFunction([r \in rows(scope) |-> Field(r.counts)])
            agrees(Field(_), value) ==
                \A scope \in {"scan", "framework", "domain"} :
                    sum(Field, scope) = value
        IN rows("scan") # {} =>
            /\ agrees(LAMBDA c : c.passed, counts[scan].pass)
            /\ agrees(LAMBDA c : c.failed, counts[scan].fail)
            /\ agrees(LAMBDA c : c.indeterminate, counts[scan].indeterminate)
            /\ agrees(LAMBDA c : c.passed + c.failed + c.indeterminate,
                      counts[scan].finding)
            /\ \A v \in Severities :
                agrees(LAMBDA c : c.severity[v], counts[scan].severity[v])

Own(tenant) ==
    <<{s \in landed : s.tenant = tenant}, {r \in scores : r.tenant = tenant},
      [f \in {f \in Findings : f.scan.tenant = tenant} |->
            lifecycle[f.logical]]>>

\* A page of a query is a window on its rows in their places.
Answers(tenant) ==
    [pages |-> [q \in Queries |->
        LET S == Matching(tenant, q) IN [row \in S |-> Rank(q, S, row)]],
     single |-> [f \in Findings |-> Fetch(tenant, f.id, "full")],
     current |-> [f \in Findings |->
        Current(tenant, "framework", f.logical.framework)]]

\* No answer that a tenant can get, no total and no single lookup, changes
\* when somebody else's scan is stored or scored.
OthersAreInvisible ==
    [][\A tenant \in {s.tenant : s \in Scans} :
        tables' # tables /\ Own(tenant)' = Own(tenant)
            => Answers(tenant)' = Answers(tenant)]_vars

\* "Provider and lifecycle live on logical_findings": a filter on the provider
\* (every scan here is of the one that queries name) drops no finding.  It
\* drops those that never failed, which have no row there.
ProviderIsRecorded ==
    \A q \in Queries, f \in Findings :
      /\ q.table = "findings" /\ q.provider # "any" /\ q.state = "any"
      /\ f.scan \in landed
      /\ Passes(f.logical.framework, q.framework) /\ Passes(status[f], q.status)
      => SelectsFinding(f.scan.tenant, q, f)
=============================================================================
