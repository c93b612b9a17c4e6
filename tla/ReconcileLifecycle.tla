------------------------- MODULE ReconcileLifecycle -------------------------
(***************************************************************************)
(* PersistScanResult._reconcile_lifecycle and the logical_findings table:  *)
(* a scan reads the lifecycle rows it may change with two statements,      *)
(* computes their successors in memory and upserts them in one statement.  *)
(* The transactions run at READ COMMITTED: each statement sees what was    *)
(* committed when it started, and the upsert writes absolute values.       *)
(* One tenant and one provider are modelled.                               *)
(***************************************************************************)
EXTENDS Integers

CONSTANTS Accounts, Resources, Rules,
          Workers,          \* threads that persist a scan result
          MaxTime,          \* bound of the clock
          MaxScans,         \* bound on the scans that are run
          MaxSuppressions   \* bound on the calls of suppress

ASSUME BoundsAssumption ==
    /\ MaxTime \in Nat /\ MaxScans \in Nat /\ MaxSuppressions \in Nat
    /\ Accounts # {}

Instants == 0 .. MaxTime
NoTime   == -1

\* A logical finding: a resource id is unique within its account only.
Issues   == Accounts \X Resources \X Rules
Active   == {"open", "reopened"}
States   == {"absent", "resolved", "suppressed"} \union Active
Verdicts == {"fail", "pass", "indeterminate", "none"}

Row == [state : States,
        first_seen_at : Instants \union {NoTime},
        last_seen_at  : Instants \union {NoTime},
        resolved_at   : Instants \union {NoTime},
        reopen_count : Nat, occurrence_count : Nat]

Absent == [state |-> "absent", first_seen_at |-> NoTime,
           last_seen_at |-> NoTime, resolved_at |-> NoTime,
           reopen_count |-> 0, occurrence_count |-> 0]

VARIABLES now,
          rows,          \* the logical_findings table
          worker,        \* each thread: its scan and what it has read
          scans,         \* scans begun
          suppressions,  \* calls of suppress
          latest,        \* history: the last stored verdict on each issue
          disturbed      \* history: issues that two have worked on at once

limits == <<scans, suppressions>>
vars   == <<now, rows, worker, limits, latest, disturbed>>

Idle == [step |-> "idle", account |-> CHOOSE a \in Accounts : TRUE, at |-> 0,
         verdict |-> [i \in Issues |-> "none"], read |-> [i \in Issues |-> Absent]]

Init ==
    /\ now = 0
    /\ rows = [i \in Issues |-> Absent]
    /\ worker = [w \in Workers |-> Idle]
    /\ scans = 0
    /\ suppressions = 0
    /\ latest = [i \in Issues |-> "none"]
    /\ disturbed = {}

Tick ==
    /\ now < MaxTime /\ now' = now + 1
    /\ UNCHANGED <<rows, worker, limits, latest, disturbed>>

(***************************************************************************)
(* LogicalFinding: the successors of one row.                              *)
(***************************************************************************)

first_observation(at) ==
    [state |-> "open", first_seen_at |-> at, last_seen_at |-> at,
     resolved_at |-> NoTime, reopen_count |-> 0, occurrence_count |-> 1]

\* Variant: a regression keeps the time it was last fixed.
observed_uncleared(row, at) ==
    LET seen == [row EXCEPT !.last_seen_at = at, !.occurrence_count = @ + 1]
    IN  IF row.state # "resolved" THEN seen
        ELSE [seen EXCEPT !.state = "reopened", !.reopen_count = @ + 1]

observed_again(row, at) ==
    LET seen == [row EXCEPT !.last_seen_at = at, !.occurrence_count = @ + 1]
    IN  IF row.state # "resolved" THEN seen
        ELSE [seen EXCEPT !.state = "reopened", !.resolved_at = NoTime,
                          !.reopen_count = @ + 1]

\* Variant: a state the column does not know.
resolve_closed(row, at) == [row EXCEPT !.state = "closed", !.resolved_at = at]

resolve(row, at) == [row EXCEPT !.state = "resolved", !.resolved_at = at]

suppress(row) == [row EXCEPT !.state = "suppressed"]

unsuppress(row) ==
    [row EXCEPT !.state = IF row.reopen_count > 0 THEN "reopened" ELSE "open"]

\* What LogicalFinding.__post_init__ and the CHECKs of the table both demand.
Valid(row) ==
    /\ row.first_seen_at <= row.last_seen_at
    /\ row.state = "resolved" => row.resolved_at # NoTime

(***************************************************************************)
(* One scan, on a thread.                                                  *)
(***************************************************************************)

Failing(w) == {i \in Issues : worker[w].verdict[i] = "fail"}
Covered(w) == {i \in Issues : worker[w].verdict[i] # "none"}

\* Variant: coverage is matched on the bare resource id.
ClosingByResource(w) ==
    {i \in Issues \ Failing(w) : /\ worker[w].read[i].state \in Active
                                 /\ \E j \in Covered(w) : j[2] = i[2]}

\* Tracked and active, re-examined in this account, and not failing any more.
Closing(w) == {i \in Covered(w) \ Failing(w) : worker[w].read[i].state \in Active}

\* Nothing keeps two threads out of one account: SubmitScan's conflict check
\* looks for one key, which holds the instant of the request.
Elsewhere(w, account) ==
    \A v \in Workers \ {w} :
      worker[v].step # "idle" => worker[v].account # account

\* The scan fixes its instant and then what it observed: the resources it
\* could collect, and a verdict of every rule on each of them.
Collect(w) ==
    /\ worker[w].step = "idle" /\ scans < MaxScans /\ scans' = scans + 1
    /\ \E account \in Accounts, covered \in SUBSET Resources :
         \E verdict \in [Issues -> Verdicts] :
           /\ \A i \in Issues :
                verdict[i] # "none" <=> (i[1] = account /\ i[2] \in covered)
           /\ worker' = [worker EXCEPT ![w] =
                [Idle EXCEPT !.step = "read_known", !.account = account,
                             !.at = now, !.verdict = verdict]]
           /\ disturbed' = IF Elsewhere(w, account) THEN disturbed
                           ELSE disturbed \union {i \in Issues : i[1] = account}
    /\ UNCHANGED <<now, rows, suppressions, latest>>

\* get_by_logical_ids, for the findings that fail now.
ReadKnown(w) ==
    /\ worker[w].step = "read_known"
    /\ worker' = [worker EXCEPT
         ![w].step = "read_active",
         ![w].read = [i \in Issues |-> IF i \in Failing(w) THEN rows[i] ELSE @[i]]]
    /\ UNCHANGED <<now, rows, limits, latest, disturbed>>

\* Variant: the query is limited to one row.
ReadActiveLimited(w) ==
    /\ worker[w].step = "read_active"
    /\ LET active == {i \in Issues \ Failing(w) : rows[i].state \in Active}
       IN  \E one \in SUBSET active :
             /\ active # {} => \E i \in active : one = {i}
             /\ worker' = [worker EXCEPT
                  ![w].step = "upsert",
                  ![w].read = [i \in Issues |-> IF i \in one THEN rows[i] ELSE @[i]]]
    /\ UNCHANGED <<now, rows, limits, latest, disturbed>>

\* get_active, for the whole tenant: the rows not looked up already.
ReadActive(w) ==
    /\ worker[w].step = "read_active"
    /\ worker' = [worker EXCEPT
         ![w].step = "upsert",
         ![w].read = [i \in Issues |->
                        IF i \notin Failing(w) /\ rows[i].state \in Active
                        THEN rows[i] ELSE @[i]]]
    /\ UNCHANGED <<now, rows, limits, latest, disturbed>>

Reconciled(w, i) ==
    CASE i \in Closing(w) -> resolve(worker[w].read[i], worker[w].at)
      [] i \in Failing(w) /\ worker[w].read[i].state = "absent" ->
           first_observation(worker[w].at)
      [] OTHER -> observed_again(worker[w].read[i], worker[w].at)

\* Variant: the conflict clause updates every column.
UpsertedWhole(i, new) == new

\* Variant: the conflict clause is DO NOTHING.
UpsertedOnce(i, new) == IF rows[i].state = "absent" THEN new ELSE rows[i]

\* INSERT ... ON CONFLICT DO UPDATE keeps the stored first_seen_at.
Upserted(i, new) ==
    IF rows[i].state = "absent" THEN new
    ELSE [new EXCEPT !.first_seen_at = rows[i].first_seen_at]

Touched(w) == Failing(w) \union Closing(w)

\* The domain object and the table accept every row of the batch.
Accepted(w) ==
    \A i \in Touched(w) :
      Valid(Reconciled(w, i)) /\ Valid(Upserted(i, Reconciled(w, i)))

\* The whole transaction commits, or is rolled back: a row is refused, or the
\* database refuses the transaction (a deadlock, a lost connection).
Commit(w) ==
    /\ worker[w].step = "upsert"
    /\ \/ /\ Accepted(w)
          /\ rows' = [i \in Issues |-> IF i \in Touched(w)
                                       THEN Upserted(i, Reconciled(w, i))
                                       ELSE rows[i]]
          /\ latest' = [i \in Issues |-> IF i \in Covered(w)
                                         THEN worker[w].verdict[i] ELSE latest[i]]
       \/ UNCHANGED <<rows, latest>>
    /\ worker' = [worker EXCEPT ![w] = Idle]
    /\ UNCHANGED <<now, limits, disturbed>>

(***************************************************************************)
(* Suppression: operations of LogicalFinding that no use case calls yet; a *)
(* caller is taken to read and write the row in one transaction.           *)
(***************************************************************************)

\* _guard(SUPPRESSED) lets every tracked state through.
Suppress(i) ==
    /\ suppressions < MaxSuppressions /\ suppressions' = suppressions + 1
    /\ rows[i].state # "absent"
    /\ rows' = [rows EXCEPT ![i] = suppress(@)]
    /\ disturbed' = disturbed \union {i}
    /\ UNCHANGED <<now, worker, scans, latest>>

Unsuppress(i) ==
    /\ rows[i].state = "suppressed"
    /\ rows' = [rows EXCEPT ![i] = unsuppress(@)]
    /\ UNCHANGED <<now, worker, limits, latest, disturbed>>

ScanNext(w) == Collect(w) \/ ReadKnown(w) \/ ReadActive(w) \/ Commit(w)

Next ==
    \/ Tick
    \/ \E w \in Workers : ScanNext(w)
    \/ \E i \in Issues : Suppress(i) \/ Unsuppress(i)

Spec == Init /\ [][Next]_vars

(***************************************************************************)
(* Properties.                                                             *)
(***************************************************************************)

TypeOK ==
    /\ now \in Instants
    /\ rows \in [Issues -> Row]
    /\ worker \in [Workers ->
                     [step : {"idle", "read_known", "read_active", "upsert"},
                      account : Accounts, at : Instants,
                      verdict : [Issues -> Verdicts], read : [Issues -> Row]]]
    /\ scans \in 0 .. MaxScans
    /\ suppressions \in 0 .. MaxSuppressions
    /\ latest \in [Issues -> Verdicts]
    /\ disturbed \subseteq Issues

\* What every consumer of one row relies on: it was seen in order, its state
\* agrees with its regression counter, each regression was an occurrence, and
\* a resolved one says when.
WellFormed(row) ==
    row.state # "absent" =>
      /\ row.first_seen_at # NoTime /\ row.first_seen_at <= row.last_seen_at
      /\ row.reopen_count < row.occurrence_count
      /\ row.state = "open" => row.reopen_count = 0
      /\ row.state = "reopened" => row.reopen_count > 0
      /\ row.state = "resolved" => row.resolved_at # NoTime

\* Rows stay well formed however scans overlap, although each is written from
\* a stale read and on top of a first_seen_at it did not read.
RowsWellFormed == \A i \in Issues : WellFormed(rows[i])

\* Nothing is ever deleted and first_seen_at never moves, not even when two
\* scans insert the same finding.
DiscoveryIsPermanent ==
    [][\A i \in Issues :
         rows[i].state # "absent" =>
           /\ rows'[i].state # "absent"
           /\ rows'[i].first_seen_at = rows[i].first_seen_at]_vars

\* A scan changes the lifecycle of what it re-examined and of nothing else:
\* no resource it missed, no other account's resource of the same name.
OnlyExaminedChange ==
    [][\A w \in Workers :
         (worker[w].step = "upsert" /\ worker'[w].step = "idle") =>
           \A i \in Issues : rows'[i] # rows[i] =>
             i[1] = worker[w].account /\ worker[w].verdict[i] # "none"]_vars

\* As long as no two scans of its account have overlapped and nobody has
\* suppressed it, the times of a row tell a possible story: discovered, last
\* seen, then fixed, and not fixed while live.
TimelineInOrder ==
    \A i \in Issues \ disturbed :
      /\ rows[i].state \in Active => rows[i].resolved_at = NoTime
      /\ rows[i].state = "resolved" =>
           rows[i].last_seen_at <= rows[i].resolved_at /\ rows[i].resolved_at <= now

Ledger == INSTANCE FindingLedger
            WITH state    <- [i \in Issues |-> IF i \in disturbed THEN "forfeit"
                                              ELSE rows[i].state],
                 reopened <- [i \in Issues |-> IF i \in disturbed THEN 0
                                              ELSE rows[i].reopen_count]

\* A scan that reads and writes in three statements is a scan that happens in
\* one step, or not at all, for every finding but those whose account another
\* scan entered meanwhile: the ledger gives these up, and no other.
ImplementsLedger == Ledger!Spec

\* A finding the ledger still vouches for is live exactly when the last stored
\* scan of its resource saw it fail.
LiveIffLatestFailed == Ledger!LiveIffLatestFailed

(***************************************************************************)
(* What the documents say and the code does not keep.                      *)
(***************************************************************************)

\* The closed transition table of the states.
Allowed == [open       |-> {"open", "resolved", "suppressed"},
            resolved   |-> {"reopened", "suppressed"},
            reopened   |-> {"reopened", "resolved", "suppressed"},
            suppressed |-> {"open", "reopened", "resolved", "suppressed"}]

\* Every stored row moves along the closed transition table. Two overlapping
\* scans break it: one resolves what the other, from an older read, writes
\* back as open, and the regression is neither marked nor counted.
ClosedTransitions ==
    [][\A i \in Issues :
         rows[i].state \notin {"absent", rows'[i].state} =>
           rows'[i].state \in Allowed[rows[i].state]]_vars

\* A finding is resolved only by a scan that examined it, one whose rule came
\* to a decision. The code resolves what did not fail, the undecided included.
ResolvedWasExamined ==
    [][\A i \in Issues :
         (rows'[i].state = "resolved" /\ rows[i].state # "resolved") =>
           latest'[i] = "pass"]_vars

\* What was seen again was seen in a later scan. A scan that started earlier
\* and commits later takes the time of the last sighting back.
SightingsMoveForward ==
    [][\A i \in Issues : rows[i].last_seen_at <= rows'[i].last_seen_at]_vars
=============================================================================
