---------------------------- MODULE ScanPipeline ----------------------------
(***************************************************************************)
(* The asynchronous scan pipeline: SubmitScan.execute accepts a request    *)
(* and records it, ThreadScanJobRunner queues it in memory, ScanWorker.run *)
(* executes it, PersistScanResult and ComputeScoresForScan write what it   *)
(* produced.  Every action ends at a commit, at a rollback, at a statement *)
(* or at a call that another thread can overtake, so an interleaving of    *)
(* actions is one of transactions, statements and clock readings.          *)
(*                                                                         *)
(* The scans table is `rows'; a write that breaks the CHECK constraint     *)
(* ck_scans_terminal_has_completed_at raises instead of committing.  The   *)
(* database may also refuse the transaction of a step in Faults.  One      *)
(* tenant is modelled: every statement filters on the tenant id.           *)
(*                                                                         *)
(* The scans table and the results are written by units of work, which     *)
(* commit.  The repositories of scores and of audit events are not: the    *)
(* composition root builds both on one session of the process, on which    *)
(* they execute statements and which nobody commits or rolls back.         *)
(***************************************************************************)
EXTENDS Integers, Sequences

CONSTANTS Requests,    \* one POST /api/v1/scans each
          Targets,     \* scan targets (provider, account, directory)
          Workers,     \* the threads of the executor
          Faults,      \* the steps whose transaction the database may refuse
          MaxTime,     \* bound of the clock
          MaxCrashes   \* bound on process restarts

ASSUME BoundsAssumption ==
    /\ MaxTime \in Nat /\ MaxCrashes \in Nat
    /\ Requests # {} /\ Targets # {}

Instants == 0 .. MaxTime
NoTime   == -1

\* derive_scan_key: a digest of the target and the instant the scan started.
Keys == Targets \X Instants
scan_key(target, started_at) == <<target, started_at>>

Terminal  == {"completed", "partial", "failed", "cancelled"}
Statuses  == {"absent", "queued", "running"} \union Terminal
Row       == [status : Statuses, completed_at : Instants \union {NoTime}]

\* CHECK ck_scans_terminal_has_completed_at ("absent" is no row at all).
CheckHolds(row) == (row.status \in Terminal) <=> (row.completed_at # NoTime)

VARIABLES now,      \* the clock every component reads
          rows,     \* the scans table
          results,  \* keys with persisted snapshots of resources and findings
          session,  \* the transaction of the shared session: open or aborted
          scores,   \* keys whose scores that transaction has written
          audit,    \* <<action, key>> of the audit events it has written
          request,  \* the state of each request thread
          queue,    \* jobs the executor has not started
          worker,   \* the state of each executor thread
          exit,     \* how the job of each request ended
          crashes

shared == <<session, scores, audit>>
stored == <<rows, results, shared>>
memory == <<request, queue, worker, exit>>
vars   == <<now, rows, results, session, scores, audit, request, queue,
            worker, exit, crashes>>

RequestSteps == {"new", "lookup", "create", "audit", "enqueue",
                 "accepted", "refused", "error"}
WorkerSteps  == {"idle", "mark_running", "scan", "persist", "score",
                 "audit_completed", "mark_failed", "audit_failed"}
Exits == {"none", "completed", "failed", "raised", "lost"}

NoKey == CHOOSE k \in Keys : TRUE
Idle  == [step |-> "idle", job |-> CHOOSE r \in Requests : TRUE,
          started_at |-> 0, completed_at |-> 0]

Init ==
    /\ now = 0
    /\ rows = [k \in Keys |-> [status |-> "absent", completed_at |-> NoTime]]
    /\ results = {}
    /\ session = "open"
    /\ scores = {}
    /\ audit = {}
    /\ request = [r \in Requests |-> [step |-> "new", key |-> NoKey]]
    /\ queue = <<>>
    /\ worker = [w \in Workers |-> Idle]
    /\ exit = [r \in Requests |-> "none"]
    /\ crashes = 0

Tick ==
    /\ now < MaxTime
    /\ now' = now + 1
    /\ UNCHANGED <<stored, memory, crashes>>

(***************************************************************************)
(* The scans table.                                                        *)
(***************************************************************************)

\* ScanRepository.create: INSERT ... ON CONFLICT DO NOTHING.
CreateRow(key) ==
    IF rows[key].status = "absent"
    THEN [rows EXCEPT ![key].status = "queued"]
    ELSE rows

\* Variant for the runs that must fail: the update keeps both columns in step.
WithStatusAndTime(key, status) ==
    IF rows[key].status = "absent" THEN rows
    ELSE [rows EXCEPT ![key] =
            [status |-> status,
             completed_at |-> IF status \in Terminal THEN now ELSE NoTime]]

\* ScanRepository.update_status writes the status column and no other.
WithStatus(key, status) ==
    IF rows[key].status = "absent" THEN rows
    ELSE [rows EXCEPT ![key].status = status]

\* The CHECK constraint decides whether update_status commits.
CanUpdateStatus(key, status) == CheckHolds(WithStatus(key, status)[key])

\* Variant: a status the column does not know.
SaveSucceeded(key, completed_at) ==
    [rows EXCEPT ![key] = [status |-> "succeeded", completed_at |-> completed_at]]

\* PersistScanResult commits create and save (an upsert) in one transaction.
\* The worker passes no errors, so the aggregate always completes.
SaveCompleted(key, completed_at) ==
    [rows EXCEPT ![key] = [status |-> "completed", completed_at |-> completed_at]]

(***************************************************************************)
(* The shared session.  A statement that the server refuses aborts the     *)
(* transaction: what it wrote is gone, and every later statement of the    *)
(* process is refused.  One that the driver refuses is never sent.         *)
(***************************************************************************)
StatementRefused(step) ==
    \/ /\ session = "aborted" \/ step \in Faults
       /\ UNCHANGED shared
    \/ /\ session = "open" /\ step \in Faults
       /\ session' = "aborted" /\ scores' = {} /\ audit' = {}

\* The audit recorder never raises: an event it cannot write is dropped.
RecordAudit(event) ==
    \/ /\ session = "open"
       /\ audit' = audit \union {event}
       /\ UNCHANGED <<session, scores>>
    \/ StatementRefused("audit")

(***************************************************************************)
(* SubmitScan.execute, on a request thread.                                *)
(***************************************************************************)

Goto(r, step) == request' = [request EXCEPT ![r].step = step]

\* The clock is read once and the key derived from it.
Submit(r) ==
    /\ request[r].step = "new"
    /\ \E target \in Targets :
          request' = [request EXCEPT ![r] =
                        [step |-> "lookup", key |-> scan_key(target, now)]]
    /\ UNCHANGED <<now, stored, queue, worker, exit, crashes>>

\* uow.scans.get: a scan under this key that has not ended is a conflict.
Lookup(r) ==
    /\ request[r].step = "lookup"
    /\ Goto(r, IF rows[request[r].key].status \in {"queued", "running"}
               THEN "refused" ELSE "create")
    /\ UNCHANGED <<now, stored, queue, worker, exit, crashes>>

\* Variant: the refused transaction goes unnoticed.
CreateUnchecked(r) ==
    /\ request[r].step = "create"
    /\ rows' \in {rows, CreateRow(request[r].key)} /\ Goto(r, "audit")
    /\ UNCHANGED <<now, results, shared, queue, worker, exit, crashes>>

\* uow.scans.create and commit, or a database error the client sees.
CreateAndCommit(r) ==
    /\ request[r].step = "create"
    /\ \/ rows' = CreateRow(request[r].key) /\ Goto(r, "audit")
       \/ "create" \in Faults /\ UNCHANGED rows /\ Goto(r, "error")
    /\ UNCHANGED <<now, results, shared, queue, worker, exit, crashes>>

AuditStarted(r) ==
    /\ request[r].step = "audit"
    /\ RecordAudit(<<"scan_started", request[r].key>>)
    /\ Goto(r, "enqueue")
    /\ UNCHANGED <<now, rows, results, queue, worker, exit, crashes>>

Enqueue(r) ==
    /\ request[r].step = "enqueue"
    /\ queue' = Append(queue, r)
    /\ Goto(r, "accepted")
    /\ UNCHANGED <<now, stored, worker, exit, crashes>>

(***************************************************************************)
(* ScanWorker.run, on an executor thread.                                  *)
(***************************************************************************)

SubmittedKey(w) == request[worker[w].job].key

\* The key PersistScanResult derives: the same target, the worker's instant.
ResultKey(w) == scan_key(SubmittedKey(w)[1], worker[w].started_at)

At(w, step)   == worker[w].step = step
Then(w, step) == worker' = [worker EXCEPT ![w].step = step] /\ UNCHANGED exit

\* Variant: instead of raising, the job tries to mark the scan failed again.
LeaveOrRetry(w, how) ==
    IF how = "raised" THEN Then(w, "mark_failed")
    ELSE /\ worker' = [worker EXCEPT ![w] = Idle]
         /\ exit' = [exit EXCEPT ![worker[w].job] = how]

\* run() is over; the executor's guard logs and drops what it raised.
Leave(w, how) ==
    /\ worker' = [worker EXCEPT ![w] = Idle]
    /\ exit' = [exit EXCEPT ![worker[w].job] = how]

\* Variant: the job is read from the queue and left in it.
BeginPeeking(w) ==
    /\ At(w, "idle") /\ queue # <<>>
    /\ worker' = [worker EXCEPT ![w] =
                    [step |-> "mark_running", job |-> Head(queue),
                     started_at |-> now, completed_at |-> 0]]
    /\ UNCHANGED <<now, stored, request, queue, exit, crashes>>

Begin(w) ==
    /\ At(w, "idle") /\ queue # <<>>
    /\ worker' = [worker EXCEPT ![w] =
                    [step |-> "mark_running", job |-> Head(queue),
                     started_at |-> now, completed_at |-> 0]]
    /\ queue' = Tail(queue)
    /\ UNCHANGED <<now, stored, request, exit, crashes>>

\* _mark raises when the constraint or the database refuses the update.
Refused(w, status) ==
    ~CanUpdateStatus(SubmittedKey(w), status) \/ "mark" \in Faults

\* _mark(RUNNING) stands outside the try block: what it raises ends the job.
MarkRunning(w) ==
    /\ At(w, "mark_running")
    /\ \/ /\ CanUpdateStatus(SubmittedKey(w), "running")
          /\ rows' = WithStatus(SubmittedKey(w), "running")
          /\ Then(w, "scan")
       \/ /\ Refused(w, "running")
          /\ UNCHANGED rows /\ Leave(w, "raised")
    /\ UNCHANGED <<now, results, shared, request, queue, crashes>>

\* ScanCloudAccount.run raises, or returns a result.  The completion time is
\* read from the clock before the results are persisted.
RunScan(w) ==
    /\ At(w, "scan")
    /\ \/ worker' = [worker EXCEPT ![w].step = "persist",
                                   ![w].completed_at = now]
       \/ worker' = [worker EXCEPT ![w].step = "mark_failed"]
    /\ UNCHANGED <<now, stored, request, queue, exit, crashes>>

\* Variant: scores are computed whether or not the results were stored.
PersistUnchecked(w) ==
    /\ At(w, "persist") /\ Then(w, "score")
    /\ \/ /\ rows' = SaveCompleted(ResultKey(w), worker[w].completed_at)
          /\ results' = results \union {ResultKey(w)}
       \/ UNCHANGED <<rows, results>>
    /\ UNCHANGED <<now, shared, request, queue, crashes>>

\* PersistScanResult.execute: snapshots, lifecycle and scan row together.
Persist(w) ==
    /\ At(w, "persist")
    /\ \/ /\ rows' = SaveCompleted(ResultKey(w), worker[w].completed_at)
          /\ results' = results \union {ResultKey(w)}
          /\ Then(w, "score")
       \/ /\ "persist" \in Faults
          /\ UNCHANGED <<rows, results>> /\ Then(w, "mark_failed")
    /\ UNCHANGED <<now, shared, request, queue, crashes>>

\* ComputeScoresForScan.execute: save_all executes on the shared session.
WriteScores(w) ==
    /\ session = "open"
    /\ scores' = scores \union {ResultKey(w)}
    /\ UNCHANGED <<session, audit>>

\* Variant: a failure to score is swallowed.
ScoreUnchecked(w) ==
    /\ At(w, "score") /\ Then(w, "audit_completed")
    /\ WriteScores(w) \/ StatementRefused("score")
    /\ UNCHANGED <<now, rows, results, request, queue, crashes>>

Score(w) ==
    /\ At(w, "score")
    /\ \/ WriteScores(w) /\ Then(w, "audit_completed")
       \/ StatementRefused("score") /\ Then(w, "mark_failed")
    /\ UNCHANGED <<now, rows, results, request, queue, crashes>>

AuditCompleted(w) ==
    /\ At(w, "audit_completed")
    /\ RecordAudit(<<"scan_completed", ResultKey(w)>>)
    /\ Leave(w, "completed")
    /\ UNCHANGED <<now, rows, results, request, queue, crashes>>

\* _mark(FAILED) inside the except block: what it raises escapes run().
MarkFailed(w) ==
    /\ At(w, "mark_failed")
    /\ \/ /\ CanUpdateStatus(SubmittedKey(w), "failed")
          /\ rows' = WithStatus(SubmittedKey(w), "failed")
          /\ Then(w, "audit_failed")
       \/ /\ Refused(w, "failed")
          /\ UNCHANGED rows /\ Leave(w, "raised")
    /\ UNCHANGED <<now, results, shared, request, queue, crashes>>

AuditFailed(w) ==
    /\ At(w, "audit_failed")
    /\ RecordAudit(<<"scan_failed", SubmittedKey(w)>>)
    /\ Leave(w, "failed")
    /\ UNCHANGED <<now, rows, results, request, queue, crashes>>

(***************************************************************************)
(* A restart keeps what was committed and loses everything else: requests  *)
(* in flight are answered with an error, queued and running jobs are gone, *)
(* and so is what the shared session had written.                          *)
(***************************************************************************)
InFlight(r)  == request[r].step \in {"lookup", "create", "audit", "enqueue"}
Unfinished(r) == request[r].step = "accepted" /\ exit[r] = "none"

Crash ==
    /\ crashes < MaxCrashes
    /\ crashes' = crashes + 1
    /\ request' = [r \in Requests |->
                     IF InFlight(r) THEN [request[r] EXCEPT !.step = "error"]
                                    ELSE request[r]]
    /\ exit' = [r \in Requests |-> IF Unfinished(r) THEN "lost" ELSE exit[r]]
    /\ queue' = <<>>
    /\ worker' = [w \in Workers |-> Idle]
    /\ session' = "open" /\ scores' = {} /\ audit' = {}
    /\ UNCHANGED <<now, rows, results>>

RequestNext(r) ==
    \/ Submit(r) \/ Lookup(r) \/ CreateAndCommit(r) \/ AuditStarted(r)
    \/ Enqueue(r)

WorkerNext(w) ==
    \/ Begin(w) \/ MarkRunning(w) \/ RunScan(w) \/ Persist(w) \/ Score(w)
    \/ AuditCompleted(w) \/ MarkFailed(w) \/ AuditFailed(w)

Next ==
    \/ Tick
    \/ \E r \in Requests : RequestNext(r)
    \/ \E w \in Workers : WorkerNext(w)
    \/ Crash

Spec == Init /\ [][Next]_vars

\* The executor runs its threads: a job that can move is eventually moved.
\* Nothing obliges a client to submit, the clock to advance or a crash.
Fairness == \A w \in Workers : WF_vars(WorkerNext(w))
FairSpec == Spec /\ Fairness

(***************************************************************************)
(* Properties.                                                             *)
(***************************************************************************)

TypeOK ==
    /\ now \in Instants
    /\ rows \in [Keys -> Row]
    /\ results \subseteq Keys
    /\ session \in {"open", "aborted"}
    /\ scores \subseteq Keys
    /\ audit \subseteq
         {"scan_started", "scan_completed", "scan_failed"} \X Keys
    /\ request \in [Requests -> [step : RequestSteps, key : Keys]]
    /\ queue \in Seq(Requests)
    /\ worker \in [Workers -> [step : WorkerSteps, job : Requests,
                               started_at : Instants, completed_at : Instants]]
    /\ exit \in [Requests -> Exits]
    /\ crashes \in 0 .. MaxCrashes

Running(w) == worker[w].step # "idle"
Queued(r)  == \E i \in 1 .. Len(queue) : queue[i] = r

\* A row carries a completion time exactly when its status is terminal,
\* although update_status writes the one column without the other.
CompletionTimeIffTerminal == \A k \in Keys : CheckHolds(rows[k])

\* A scan never runs, nor waits to, without a committed record of it.
JobsAreDurable ==
    /\ \A r \in Requests : Queued(r) => rows[request[r].key].status # "absent"
    /\ \A w \in Workers :
          Running(w) => rows[SubmittedKey(w)].status # "absent"

\* Scores are written in another transaction than the findings they count,
\* and only for findings that landed.  A scan that is said to be completed has
\* its findings, and findings belong to a scan that has ended.
ScoresDescribeLandedResults ==
    /\ scores \subseteq results
    /\ \A k \in Keys : rows[k].status = "completed" => k \in results
    /\ \A k \in results : rows[k].status \in Terminal

\* What the audit log shows did happen, whatever was refused or lost on the
\* way: a started scan has a row, a completed one has its scores beside the
\* event, a failed one is terminal.
AuditIsTruthful ==
    \A k \in Keys :
      /\ <<"scan_started", k>> \in audit => rows[k].status # "absent"
      /\ <<"scan_completed", k>> \in audit => k \in scores
      /\ <<"scan_failed", k>> \in audit => rows[k].status \in Terminal

\* Until a restart loses it, an accepted request is in exactly one place:
\* once in the queue, on one thread, or finished.  No job is dropped by the
\* executor and none runs twice.
AcceptedOnce ==
    \A r \in Requests :
      LET slots   == {i \in 1 .. Len(queue) : queue[i] = r}
          threads == {w \in Workers : Running(w) /\ worker[w].job = r}
      IN  /\ \A i, j \in slots : i = j
          /\ \A v, w \in threads : v = w
          /\ slots = {} \/ threads = {}
          /\ (slots # {} \/ threads # {}) <=> Unfinished(r)

\* A finished scan is never turned back into a live one, neither by a job
\* that starts late nor by one that fails after another finished its row.
TerminalNeverRevived ==
    [][\A k \in Keys :
         rows[k].status \in Terminal => rows'[k].status \in Terminal]_vars

\* Every accepted job is eventually run to some end or lost to a restart: an
\* exception in one job never takes its thread away from the others.
AcceptedJobEnds ==
    \A r \in Requests :
      (request[r].step = "accepted") ~> (exit[r] # "none")

(***************************************************************************)
(* What the documentation says and the code does not do.                   *)
(***************************************************************************)

\* "Every exit path leaves the scan in a terminal state": however a job ended,
\* the row under the key that the client was given to poll has ended too.
ExitsAreTerminal ==
    \A r \in Requests :
      exit[r] \in {"completed", "failed", "raised"} =>
        rows[request[r].key].status \in Terminal

\* "The whole point of marking a scan FAILED is that the main transaction did
\* not commit": a failed scan has stored no findings.
FailedMeansNothingLanded ==
    \A k \in Keys : rows[k].status = "failed" => k \notin results

\* "Audit events are immutable and append-only": an event that was recorded
\* is never missing later.
AuditOnlyGrows == [][audit \subseteq audit']_vars

\* "It makes a duplicate submission detectable instead of silently producing
\* two concurrent scans": no two jobs are accepted and unfinished under one
\* key.
DuplicatesDetected ==
    \A q, r \in Requests :
      Unfinished(q) /\ Unfinished(r) /\ request[q].key = request[r].key
        => q = r
=============================================================================
