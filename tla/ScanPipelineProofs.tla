------------------------ MODULE ScanPipelineProofs ------------------------
(***************************************************************************)
(* Proofs about ScanPipeline for any sets of requests, targets and         *)
(* threads, any fault set and any bounds.                                  *)
(***************************************************************************)
EXTENDS ScanPipeline, TLAPS

\* CHOOSE in the initial values names a member of a set that has one.
LEMMA DefaultsTyped ==
    /\ NoKey \in Keys
    /\ Idle \in [step : WorkerSteps, job : Requests, started_at : Instants,
                 completed_at : Instants]
    /\ Idle.step = "idle" /\ 0 \in Instants
PROOF
<1>1. 0 \in Instants
  BY BoundsAssumption DEF Instants
<1>2. Keys # {}
  <2>1. PICK t \in Targets : TRUE
    BY BoundsAssumption
  <2>2. <<t, 0>> \in Keys
    BY <1>1, <2>1 DEF Keys
  <2> QED
    BY <2>2
<1>3. NoKey \in Keys
  BY <1>2 DEF NoKey
<1>4. (CHOOSE r \in Requests : TRUE) \in Requests
  BY BoundsAssumption
<1> QED
  BY <1>1, <1>3, <1>4 DEF Idle, WorkerSteps

\* A key built from a target and an instant is a key, and its target is one.
LEMMA KeysTyped ==
    /\ \A t \in Targets, i \in Instants : scan_key(t, i) \in Keys
    /\ \A k \in Keys : k[1] \in Targets
PROOF
  BY DEF Keys, scan_key

\* The initial state is well typed.
LEMMA InitTyped == Init => TypeOK
PROOF
<1> SUFFICES ASSUME Init PROVE TypeOK
  OBVIOUS
<1>1. now \in Instants /\ crashes \in 0 .. MaxCrashes
  BY BoundsAssumption DEF Init, Instants
<1>2. rows \in [Keys -> Row]
  BY DEF Init, Row, Statuses
<1>3. worker \in [Workers -> [step : WorkerSteps, job : Requests,
                              started_at : Instants, completed_at : Instants]]
  BY DefaultsTyped DEF Init
<1>4. request \in [Requests -> [step : RequestSteps, key : Keys]]
  BY DefaultsTyped DEF Init, RequestSteps
<1>5. queue \in Seq(Requests) /\ exit \in [Requests -> Exits]
  BY DEF Init, Exits
<1> QED
  BY <1>1, <1>2, <1>3, <1>4, <1>5 DEF Init, TypeOK

\* Every write to the scans table leaves a well-typed table.
LEMMA RowsTyped ==
    ASSUME TypeOK
    PROVE  /\ \A k \in Keys : CreateRow(k) \in [Keys -> Row]
           /\ \A k \in Keys, at \in Instants : SaveCompleted(k, at) \in [Keys -> Row]
           /\ \A k \in Keys, s \in {"running", "failed"} :
                WithStatus(k, s) \in [Keys -> Row]
PROOF
<1> rows \in [Keys -> Row]
  BY DEF TypeOK
<1>1. ASSUME NEW k \in Keys, NEW at \in Instants
      PROVE  SaveCompleted(k, at) \in [Keys -> Row]
  <2>1. [status |-> "completed", completed_at |-> at] \in Row
    BY DEF Row, Statuses, Terminal
  <2> QED
    BY <2>1 DEF SaveCompleted
<1>2. ASSUME NEW k \in Keys PROVE CreateRow(k) \in [Keys -> Row]
  BY DEF CreateRow, Row, Statuses
<1>3. ASSUME NEW k \in Keys, NEW s \in {"running", "failed"}
      PROVE  WithStatus(k, s) \in [Keys -> Row]
  BY DEF WithStatus, Row, Statuses, Terminal
<1> QED
  BY <1>1, <1>2, <1>3

\* The shapes of the two program-counter functions.
RequestType == [Requests -> [step : RequestSteps, key : Keys]]
WorkerType  == [Workers -> [step : WorkerSteps, job : Requests,
                            started_at : Instants, completed_at : Instants]]

\* Moving a thread to another step keeps the functions typed.
LEMMA MovesTyped ==
    ASSUME TypeOK
    PROVE  /\ \A r \in Requests, step \in RequestSteps :
                Goto(r, step) => request' \in RequestType
           /\ \A w \in Workers, step \in WorkerSteps :
                Then(w, step) => worker' \in WorkerType /\ exit' \in [Requests -> Exits]
           /\ \A w \in Workers, how \in Exits :
                Leave(w, how) => worker' \in WorkerType /\ exit' \in [Requests -> Exits]
PROOF
<1>1. request \in RequestType /\ worker \in WorkerType
  BY DEF TypeOK, RequestType, WorkerType
<1>2. ASSUME NEW r \in Requests, NEW step \in RequestSteps, Goto(r, step)
      PROVE  request' \in RequestType
  BY <1>1, <1>2 DEF Goto, RequestType
<1>3. ASSUME NEW w \in Workers, NEW step \in WorkerSteps, Then(w, step)
      PROVE  worker' \in WorkerType /\ exit' \in [Requests -> Exits]
  BY <1>1, <1>3 DEF Then, WorkerType, TypeOK
<1>4. ASSUME NEW w \in Workers, NEW how \in Exits, Leave(w, how)
      PROVE  worker' \in WorkerType /\ exit' \in [Requests -> Exits]
  <2>1. worker' = [worker EXCEPT ![w] = Idle]
    BY <1>4 DEF Leave
  <2>2. worker' \in WorkerType
    BY <1>1, <2>1, DefaultsTyped DEF WorkerType
  <2>3. exit' \in [Requests -> Exits]
    BY <1>4 DEF Leave, TypeOK
  <2> QED
    BY <2>2, <2>3
<1> QED
  BY <1>2, <1>3, <1>4

\* What the shared session may hold, and that statements keep it so.
SharedType ==
    /\ session \in {"open", "aborted"}
    /\ scores \subseteq Keys
    /\ audit \subseteq
         {"scan_started", "scan_completed", "scan_failed"} \X Keys

LEMMA SharedTyped ==
    ASSUME TypeOK
    PROVE  /\ UNCHANGED shared => SharedType'
           /\ \A step : StatementRefused(step) => SharedType'
           /\ \A action \in {"scan_started", "scan_completed", "scan_failed"},
                k \in Keys : RecordAudit(<<action, k>>) => SharedType'
           /\ \A w \in Workers : WriteScores(w) => SharedType'
PROOF
<1> USE DEF SharedType
<1>1. SharedType
  BY DEF TypeOK
<1>2. UNCHANGED shared => SharedType'
  BY <1>1 DEF shared
<1>3. ASSUME NEW step, StatementRefused(step) PROVE SharedType'
  BY <1>2, <1>3 DEF StatementRefused
<1>4. ASSUME NEW action \in {"scan_started", "scan_completed", "scan_failed"},
             NEW k \in Keys, RecordAudit(<<action, k>>)
      PROVE  SharedType'
  BY <1>1, <1>3, <1>4 DEF RecordAudit
<1>5. ASSUME NEW w \in Workers, WriteScores(w) PROVE SharedType'
  <2>1. ResultKey(w) \in Keys
    BY KeysTyped DEF SubmittedKey, ResultKey, TypeOK
  <2> QED
    BY <1>1, <1>5, <2>1 DEF WriteScores
<1> QED
  BY <1>2, <1>3, <1>4, <1>5

\* Every step leaves a well-typed state.
LEMMA StepTyped == TypeOK /\ [Next]_vars => TypeOK'
PROOF
<1> SUFFICES ASSUME TypeOK, [Next]_vars PROVE TypeOK'
  OBVIOUS
<1> USE DEF TypeOK
<1>1. CASE Tick
  <2>1. now' \in Instants
    BY <1>1, BoundsAssumption DEF Tick, Instants
  <2> QED
    BY <1>1, <2>1 DEF Tick, stored, shared, memory
<1>2. ASSUME NEW r \in Requests, RequestNext(r) PROVE TypeOK'
  <2>1. CASE Submit(r)
    BY <2>1, KeysTyped DEF Submit, stored, shared, RequestSteps
  <2>2. CASE Lookup(r)
    BY <2>2 DEF Lookup, Goto, stored, shared, RequestSteps
  <2>3. CASE CreateAndCommit(r)
    <3>1. rows' \in [Keys -> Row]
      BY <2>3, RowsTyped DEF CreateAndCommit
    <3>2. request' \in RequestType
      BY <2>3, MovesTyped DEF CreateAndCommit, RequestSteps
    <3>3. SharedType'
      BY <2>3, SharedTyped DEF CreateAndCommit
    <3> QED
      BY <2>3, <3>1, <3>2, <3>3 DEF CreateAndCommit, RequestType, SharedType
  <2>4. CASE AuditStarted(r)
    <3>1. SharedType'
      BY <2>4, SharedTyped DEF AuditStarted
    <3> QED
      BY <2>4, <3>1, SMTT(30) DEF AuditStarted, Goto, RequestSteps, SharedType
  <2>5. CASE Enqueue(r)
    <3>1. queue' \in Seq(Requests)
      BY <2>5 DEF Enqueue
    <3>2. request' \in RequestType
      BY <2>5, MovesTyped DEF Enqueue, RequestSteps
    <3> QED
      BY <2>5, <3>1, <3>2 DEF Enqueue, stored, shared, RequestType
  <2> QED
    BY <1>2, <2>1, <2>2, <2>3, <2>4, <2>5 DEF RequestNext
<1>3. ASSUME NEW w \in Workers, WorkerNext(w) PROVE TypeOK'
  <2> SubmittedKey(w) \in Keys /\ ResultKey(w) \in Keys
    BY KeysTyped DEF SubmittedKey, ResultKey
  <2>1. CASE Begin(w)
    <3>1. Head(queue) \in Requests /\ Tail(queue) \in Seq(Requests)
      BY <2>1 DEF Begin
    <3> QED
      BY <2>1, <3>1, DefaultsTyped DEF Begin, stored, shared, WorkerSteps
  <2>2. CASE MarkRunning(w)
    <3>1. rows' \in [Keys -> Row]
      BY <2>2, RowsTyped DEF MarkRunning
    <3>2. worker' \in WorkerType /\ exit' \in [Requests -> Exits]
      BY <2>2, MovesTyped DEF MarkRunning, WorkerSteps, Exits
    <3>3. SharedType'
      BY <2>2, SharedTyped DEF MarkRunning
    <3> QED
      BY <2>2, <3>1, <3>2, <3>3 DEF MarkRunning, WorkerType, SharedType
  <2>3. CASE RunScan(w)
    <3>1. [worker EXCEPT ![w].step = "persist", ![w].completed_at = now]
            \in WorkerType
      BY DEF WorkerType, WorkerSteps
    <3>2. [worker EXCEPT ![w].step = "mark_failed"] \in WorkerType
      BY DEF WorkerType, WorkerSteps
    <3>3. worker' \in WorkerType
      BY <2>3, <3>1, <3>2 DEF RunScan
    <3> QED
      BY <2>3, <3>3 DEF RunScan, stored, shared, WorkerType
  <2>4. CASE Persist(w)
    <3>1. rows' \in [Keys -> Row]
      BY <2>4, RowsTyped DEF Persist
    <3>2. worker' \in WorkerType /\ exit' \in [Requests -> Exits]
      BY <2>4, MovesTyped DEF Persist, WorkerSteps
    <3>3. results' \subseteq Keys
      BY <2>4 DEF Persist
    <3>4. SharedType'
      BY <2>4, SharedTyped DEF Persist
    <3> QED
      BY <2>4, <3>1, <3>2, <3>3, <3>4 DEF Persist, WorkerType, SharedType
  <2>5. CASE Score(w)
    <3>1. worker' \in WorkerType /\ exit' \in [Requests -> Exits]
      BY <2>5, MovesTyped DEF Score, WorkerSteps
    <3>2. SharedType'
      BY <2>5, SharedTyped DEF Score
    <3> QED
      BY <2>5, <3>1, <3>2 DEF Score, WorkerType, SharedType
  <2>6. CASE AuditCompleted(w)
    <3>1. SharedType'
      BY <2>6, SharedTyped DEF AuditCompleted
    <3> QED
      BY <2>6, <3>1, DefaultsTyped DEF AuditCompleted, Leave, Exits, SharedType
  <2>7. CASE MarkFailed(w)
    <3>1. rows' \in [Keys -> Row]
      BY <2>7, RowsTyped DEF MarkFailed
    <3>2. worker' \in WorkerType /\ exit' \in [Requests -> Exits]
      BY <2>7, MovesTyped DEF MarkFailed, WorkerSteps, Exits
    <3>3. SharedType'
      BY <2>7, SharedTyped DEF MarkFailed
    <3> QED
      BY <2>7, <3>1, <3>2, <3>3 DEF MarkFailed, WorkerType, SharedType
  <2>8. CASE AuditFailed(w)
    <3>1. SharedType'
      BY <2>8, SharedTyped DEF AuditFailed
    <3> QED
      BY <2>8, <3>1, DefaultsTyped DEF AuditFailed, Leave, Exits, SharedType
  <2> QED
    BY <1>3, <2>1, <2>2, <2>3, <2>4, <2>5, <2>6, <2>7, <2>8 DEF WorkerNext
<1>4. CASE Crash
  <2>1. crashes' \in 0 .. MaxCrashes
    BY <1>4, BoundsAssumption DEF Crash
  <2>2. worker' \in [Workers -> [step : WorkerSteps, job : Requests,
                                 started_at : Instants, completed_at : Instants]]
    BY <1>4, DefaultsTyped DEF Crash
  <2>3. request' \in [Requests -> [step : RequestSteps, key : Keys]]
    BY <1>4 DEF Crash, RequestSteps
  <2>4. exit' \in [Requests -> Exits] /\ queue' \in Seq(Requests)
    BY <1>4 DEF Crash, Exits
  <2> QED
    BY <1>4, <2>1, <2>2, <2>3, <2>4 DEF Crash, stored, shared
<1>5. CASE UNCHANGED vars
  BY <1>5 DEF vars
<1> QED
  BY <1>1, <1>2, <1>3, <1>4, <1>5 DEF Next

\* Every reachable state of the pipeline is well typed.
THEOREM TypeCorrect == Spec => []TypeOK
PROOF
  BY InitTyped, StepTyped, PTL DEF Spec

-----------------------------------------------------------------------------
(***************************************************************************)
(* The scans table: what one step can do to one row.                       *)
(***************************************************************************)

\* One step leaves the table alone or performs exactly one of the repository's
\* three writes, and an update only where the constraint admits it.
LEMMA RowsWritten ==
    ASSUME TypeOK, [Next]_vars
    PROVE  \/ rows' = rows
           \/ \E k \in Keys : rows' = CreateRow(k)
           \/ \E k \in Keys, at \in Instants : rows' = SaveCompleted(k, at)
           \/ \E k \in Keys, s \in {"running", "failed"} :
                CanUpdateStatus(k, s) /\ rows' = WithStatus(k, s)
PROOF
<1>1. ASSUME NEW r \in Requests, RequestNext(r)
      PROVE  rows' = rows \/ \E k \in Keys : rows' = CreateRow(k)
  <2>1. request[r].key \in Keys
    BY DEF TypeOK
  <2> QED
    BY <1>1, <2>1 DEF RequestNext, Submit, Lookup, CreateAndCommit,
                      AuditStarted, Enqueue, stored, shared
<1>2. ASSUME NEW w \in Workers, WorkerNext(w)
      PROVE  \/ rows' = rows
             \/ \E k \in Keys, at \in Instants : rows' = SaveCompleted(k, at)
             \/ \E k \in Keys, s \in {"running", "failed"} :
                  CanUpdateStatus(k, s) /\ rows' = WithStatus(k, s)
  <2>1. /\ SubmittedKey(w) \in Keys /\ ResultKey(w) \in Keys
        /\ worker[w].completed_at \in Instants
    BY KeysTyped DEF SubmittedKey, ResultKey, TypeOK
  <2>2. CASE MarkRunning(w)
    BY <2>1, <2>2 DEF MarkRunning
  <2>3. CASE Persist(w)
    BY <2>1, <2>3 DEF Persist
  <2>4. CASE MarkFailed(w)
    BY <2>1, <2>4 DEF MarkFailed
  <2>5. CASE Begin(w) \/ RunScan(w) \/ Score(w) \/ AuditCompleted(w)
             \/ AuditFailed(w)
    BY <2>5 DEF Begin, RunScan, Score, AuditCompleted, AuditFailed, stored, shared
  <2> QED
    BY <1>2, <2>2, <2>3, <2>4, <2>5 DEF WorkerNext
<1>3. CASE Tick \/ Crash \/ UNCHANGED vars
  BY <1>3 DEF Tick, Crash, stored, shared, vars
<1>4. CASE \E r \in Requests : RequestNext(r)
  BY <1>1, <1>4
<1>5. CASE \E w \in Workers : WorkerNext(w)
  BY <1>2, <1>5
<1> QED
  BY <1>3, <1>4, <1>5 DEF Next

\* What a step may do to a row: never delete it, never revive it.
RowEvolves(k) ==
    /\ rows[k].status # "absent" => rows'[k].status # "absent"
    /\ rows[k].status \in Terminal => rows'[k].status \in Terminal

LEMMA RowStep ==
    ASSUME TypeOK, CompletionTimeIffTerminal, [Next]_vars, NEW k \in Keys
    PROVE  RowEvolves(k) /\ CheckHolds(rows'[k])
PROOF
<1> USE DEF RowEvolves, CheckHolds, Terminal
<1>1. /\ rows \in [Keys -> Row] /\ rows[k] \in Row /\ CheckHolds(rows[k])
      /\ NoTime \notin Instants
  BY DEF TypeOK, CompletionTimeIffTerminal, Instants, NoTime
<1>2. ASSUME NEW j \in Keys, rows' = CreateRow(j)
      PROVE  rows'[k] = rows[k] \/
             (rows[k].status = "absent" /\ rows'[k] = [rows[k] EXCEPT !.status = "queued"])
  <2>1. CASE rows[j].status # "absent" \/ j # k
    BY <1>1, <1>2, <2>1 DEF CreateRow
  <2>2. CASE rows[j].status = "absent" /\ j = k
    BY <1>1, <1>2, <2>2 DEF CreateRow
  <2> QED
    BY <2>1, <2>2
<1>3. ASSUME NEW j \in Keys, NEW at \in Instants, rows' = SaveCompleted(j, at)
      PROVE  rows'[k] = rows[k] \/
             rows'[k] = [status |-> "completed", completed_at |-> at]
  BY <1>1, <1>3 DEF SaveCompleted
<1>4. ASSUME NEW j \in Keys, NEW s \in {"running", "failed"},
             CanUpdateStatus(j, s), rows' = WithStatus(j, s)
      PROVE  rows'[k] = rows[k] \/
             ( /\ rows[k].status # "absent" /\ CheckHolds(rows'[k])
               /\ rows'[k] = [rows[k] EXCEPT !.status = s] )
  BY <1>1, <1>4 DEF WithStatus, CanUpdateStatus
<1>5. ASSUME rows[k].status = "absent",
             rows'[k] = [rows[k] EXCEPT !.status = "queued"]
      PROVE  RowEvolves(k) /\ CheckHolds(rows'[k])
  BY <1>1, <1>5 DEF Row
<1>6. ASSUME NEW at \in Instants,
             rows'[k] = [status |-> "completed", completed_at |-> at]
      PROVE  RowEvolves(k) /\ CheckHolds(rows'[k])
  BY <1>1, <1>6
<1>7. ASSUME NEW s \in {"running", "failed"}, rows[k].status # "absent",
             CheckHolds(rows'[k]), rows'[k] = [rows[k] EXCEPT !.status = s]
      PROVE  RowEvolves(k)
  BY <1>1, <1>7 DEF Row
<1>8. CASE rows'[k] = rows[k]
  BY <1>1, <1>8
<1> QED
  BY <1>2, <1>3, <1>4, <1>5, <1>6, <1>7, <1>8, RowsWritten

LEMMA TableInductive ==
    /\ Init => CompletionTimeIffTerminal
    /\ TypeOK /\ CompletionTimeIffTerminal /\ [Next]_vars
       => CompletionTimeIffTerminal'
PROOF
<1>1. Init => CompletionTimeIffTerminal
  BY DEF Init, CompletionTimeIffTerminal, CheckHolds, Terminal, NoTime
<1>2. ASSUME TypeOK, CompletionTimeIffTerminal, [Next]_vars
      PROVE  CompletionTimeIffTerminal'
  BY <1>2, RowStep DEF CompletionTimeIffTerminal, CheckHolds
<1> QED
  BY <1>1, <1>2

\* The CHECK constraint of the scans table holds in every reachable state,
\* whatever interleaving of update_status and save produced the row.
THEOREM TableConsistent == Spec => []CompletionTimeIffTerminal
PROOF
  BY InitTyped, StepTyped, TableInductive, PTL DEF Spec

\* No step of any thread turns a finished scan back into a live one.
THEOREM NoRevival == Spec => TerminalNeverRevived
PROOF
<1>1. TypeOK /\ CompletionTimeIffTerminal /\ [Next]_vars =>
        [\A k \in Keys :
           rows[k].status \in Terminal => rows'[k].status \in Terminal]_vars
  BY RowStep DEF RowEvolves
<1> QED
  BY <1>1, InitTyped, StepTyped, TableInductive,
     PTL DEF Spec, TerminalNeverRevived

-----------------------------------------------------------------------------
(***************************************************************************)
(* Durability of jobs, and what the scores and the audit log claim.        *)
(***************************************************************************)

\* A request that committed its row keeps it; only accepted requests have jobs.
DurableInv ==
    /\ \A r \in Requests :
         request[r].step \in {"audit", "enqueue", "accepted"} =>
           rows[request[r].key].status # "absent"
    /\ \A r \in Requests : Queued(r) => request[r].step = "accepted"
    /\ \A w \in Workers :
         Running(w) => request[worker[w].job].step = "accepted"

\* What the steps of a thread after the persist have behind them.
LandedInv ==
    /\ ScoresDescribeLandedResults
    /\ \A w \in Workers :
         /\ worker[w].step \in {"score", "audit_completed"} =>
              ResultKey(w) \in results
         /\ worker[w].step = "audit_completed" =>
              ResultKey(w) \in scores \/ session = "aborted"

AuditInv ==
    /\ AuditIsTruthful
    /\ \A w \in Workers :
         worker[w].step = "audit_failed" =>
           rows[SubmittedKey(w)].status \in Terminal

IInv == TypeOK /\ CompletionTimeIffTerminal /\ DurableInv /\ LandedInv /\ AuditInv

\* How one step moves a request: its key is fixed once chosen, acceptance is
\* final, and it gets past "create" only with its row in the table.
LEMMA RequestStep ==
    ASSUME TypeOK, [Next]_vars, NEW r \in Requests
    PROVE  /\ request[r].step # "new" => request'[r].key = request[r].key
           /\ request[r].step = "accepted" => request'[r].step = "accepted"
           /\ request'[r].step \in {"audit", "enqueue", "accepted"} =>
                \/ request[r].step \in {"audit", "enqueue", "accepted"}
                \/ rows'[request'[r].key].status # "absent"
PROOF
<1> DEFINE Goal ==
      /\ request[r].step # "new" => request'[r].key = request[r].key
      /\ request[r].step = "accepted" => request'[r].step = "accepted"
      /\ request'[r].step \in {"audit", "enqueue", "accepted"} =>
           \/ request[r].step \in {"audit", "enqueue", "accepted"}
           \/ rows'[request'[r].key].status # "absent"
<1>1. request \in RequestType /\ rows \in [Keys -> Row] /\ request[r].key \in Keys
  BY DEF TypeOK, RequestType
<1>2. CASE UNCHANGED request
  BY <1>2
<1>3. ASSUME NEW q \in Requests, RequestNext(q) PROVE Goal
  <2>1. CASE q # r
    BY <1>1, <1>3, <2>1 DEF RequestNext, Submit, Lookup, CreateAndCommit,
       AuditStarted, Enqueue, Goto, RequestType
  <2>2. CASE q = r /\ CreateAndCommit(q)
    <3>1. CASE rows' = CreateRow(request[r].key) /\ Goto(r, "audit")
      <4>1. rows'[request[r].key].status # "absent"
        BY <1>1, <3>1 DEF CreateRow
      <4>2. request'[r] = [request[r] EXCEPT !.step = "audit"]
        BY <1>1, <3>1 DEF Goto, RequestType
      <4> QED
        BY <1>1, <2>2, <4>1, <4>2 DEF CreateAndCommit, RequestType
    <3>2. CASE Goto(r, "error")
      BY <1>1, <2>2, <3>2 DEF CreateAndCommit, Goto, RequestType
    <3> QED
      BY <2>2, <3>1, <3>2 DEF CreateAndCommit
  <2>3. CASE q = r /\ (Submit(q) \/ Lookup(q) \/ AuditStarted(q) \/ Enqueue(q))
    BY <1>1, <2>3 DEF Submit, Lookup, AuditStarted, Enqueue, Goto, RequestType
  <2> QED
    BY <1>3, <2>1, <2>2, <2>3 DEF RequestNext
<1>4. ASSUME NEW w \in Workers, WorkerNext(w) PROVE UNCHANGED request
  BY <1>4 DEF WorkerNext, Begin, MarkRunning, RunScan, Persist, Score,
              AuditCompleted, MarkFailed, AuditFailed
<1>5. CASE Crash
  BY <1>1, <1>5 DEF Crash, InFlight, RequestType
<1>6. CASE Tick \/ UNCHANGED vars
  BY <1>2, <1>6 DEF Tick, memory, vars
<1>7. CASE \E q \in Requests : RequestNext(q)
  BY <1>3, <1>7
<1>8. CASE \E w \in Workers : WorkerNext(w)
  BY <1>2, <1>4, <1>8
<1> QED
  BY <1>5, <1>6, <1>7, <1>8 DEF Next

\* A job enters the queue when its request is accepted and a thread from the
\* queue; while it runs, its thread keeps it and the instant it started at.
LEMMA JobStep ==
    ASSUME TypeOK, [Next]_vars
    PROVE  /\ \A r \in Requests :
                Queued(r)' => Queued(r) \/ request'[r].step = "accepted"
           /\ \A w \in Workers : Running(w)' =>
                \/ /\ Running(w)
                   /\ worker'[w].job = worker[w].job
                   /\ worker'[w].started_at = worker[w].started_at
                \/ /\ Queued(worker'[w].job)
                   /\ worker'[w].step = "mark_running"
PROOF
<1> DEFINE Goal ==
      /\ \A r \in Requests :
           Queued(r)' => Queued(r) \/ request'[r].step = "accepted"
      /\ \A w \in Workers : Running(w)' =>
           \/ /\ Running(w)
              /\ worker'[w].job = worker[w].job
              /\ worker'[w].started_at = worker[w].started_at
           \/ /\ Queued(worker'[w].job)
              /\ worker'[w].step = "mark_running"
<1>1. worker \in WorkerType /\ queue \in Seq(Requests) /\ request \in RequestType
  BY DEF TypeOK, WorkerType, RequestType
<1>2. CASE UNCHANGED <<queue, worker>>
  BY <1>2 DEF Queued, Running
<1>3. ASSUME NEW q \in Requests, RequestNext(q) PROVE Goal
  <2>1. CASE Enqueue(q)
    <3>1. UNCHANGED worker /\ queue' = Append(queue, q)
      BY <2>1 DEF Enqueue
    <3>2. request'[q].step = "accepted"
      BY <1>1, <2>1 DEF Enqueue, Goto, RequestType
    <3>3. ASSUME NEW r \in Requests, Queued(r)' PROVE Queued(r) \/ r = q
      <4>1. PICK i \in 1 .. Len(queue') : queue'[i] = r
        BY <3>3 DEF Queued
      <4>2. Len(queue') = Len(queue) + 1 /\ Len(queue) \in Nat
        BY <1>1, <3>1
      <4>3. CASE i = Len(queue) + 1
        BY <1>1, <3>1, <4>1, <4>2, <4>3
      <4>4. CASE i # Len(queue) + 1
        <5>1. i \in 1 .. Len(queue)
          BY <4>1, <4>2, <4>4
        <5>2. queue'[i] = queue[i]
          BY <1>1, <3>1, <5>1
        <5> QED
          BY <4>1, <5>1, <5>2 DEF Queued
      <4> QED
        BY <4>3, <4>4
    <3> QED
      BY <3>1, <3>2, <3>3 DEF Running
  <2>2. CASE Submit(q) \/ Lookup(q) \/ CreateAndCommit(q) \/ AuditStarted(q)
    BY <1>2, <2>2 DEF Submit, Lookup, CreateAndCommit, AuditStarted
  <2> QED
    BY <1>3, <2>1, <2>2 DEF RequestNext
<1>4. ASSUME NEW v \in Workers, WorkerNext(v) PROVE Goal
  <2>1. CASE Begin(v)
    <3>1. queue # <<>> /\ queue' = Tail(queue)
      BY <2>1 DEF Begin
    <3>2. Len(queue) \in Nat /\ Len(queue) > 0 /\ Len(queue') = Len(queue) - 1
      BY <1>1, <3>1
    <3>3. ASSUME NEW r \in Requests, Queued(r)' PROVE Queued(r)
      <4>1. PICK i \in 1 .. Len(queue') : queue'[i] = r
        BY <3>3 DEF Queued
      <4>2. queue'[i] = queue[i + 1] /\ i + 1 \in 1 .. Len(queue)
        BY <1>1, <3>1, <3>2, <4>1
      <4> QED
        BY <4>1, <4>2 DEF Queued
    <3>4. Queued(Head(queue))
      <4>1. Head(queue) = queue[1] /\ 1 \in 1 .. Len(queue)
        BY <1>1, <3>2
      <4> QED
        BY <4>1 DEF Queued
    <3>5. /\ worker'[v].job = Head(queue) /\ worker'[v].step = "mark_running"
          /\ \A w \in Workers \ {v} : worker'[w] = worker[w]
      BY <1>1, <2>1 DEF Begin, WorkerType
    <3> QED
      BY <3>3, <3>4, <3>5 DEF Running
  <2>2. CASE ~Begin(v)
    <3>1. queue' = queue
      BY <1>4, <2>2 DEF WorkerNext, MarkRunning, RunScan, Persist, Score,
                        AuditCompleted, MarkFailed, AuditFailed
    <3>2. \A w \in Workers \ {v} : worker'[w] = worker[w]
      BY <1>1, <1>4, <2>2 DEF WorkerNext, MarkRunning, RunScan, Persist, Score,
         AuditCompleted, MarkFailed, AuditFailed, Then, Leave, WorkerType
    <3>3. Running(v)
      BY <1>4, <2>2 DEF WorkerNext, MarkRunning, RunScan, Persist, Score,
         AuditCompleted, MarkFailed, AuditFailed, At, Running
    <3>4. worker'[v] = Idle \/
          (worker'[v].job = worker[v].job /\ worker'[v].started_at = worker[v].started_at)
      BY <1>1, <1>4, <2>2 DEF WorkerNext, MarkRunning, RunScan, Persist, Score,
         AuditCompleted, MarkFailed, AuditFailed, Then, Leave, WorkerType
    <3> QED
      BY <3>1, <3>2, <3>3, <3>4, DefaultsTyped DEF Running, Queued
  <2> QED
    BY <2>1, <2>2
<1>5. CASE Crash
  <2>1. queue' = <<>> /\ \A w \in Workers : worker'[w] = Idle
    BY <1>5 DEF Crash
  <2>2. \A r \in Requests : ~Queued(r)'
    BY <2>1 DEF Queued
  <2> QED
    BY <2>1, <2>2, DefaultsTyped DEF Running
<1>6. CASE Tick \/ UNCHANGED vars
  BY <1>2, <1>6 DEF Tick, memory, vars
<1>7. CASE \E q \in Requests : RequestNext(q)
  BY <1>3, <1>7
<1>8. CASE \E w \in Workers : WorkerNext(w)
  BY <1>4, <1>8
<1> QED
  BY <1>5, <1>6, <1>7, <1>8 DEF Next

LEMMA DurableInductive ==
    /\ Init => DurableInv
    /\ TypeOK /\ CompletionTimeIffTerminal /\ DurableInv /\ [Next]_vars => DurableInv'
PROOF
<1>1. Init => DurableInv
  BY DefaultsTyped DEF Init, DurableInv, Queued, Running
<1>2. ASSUME TypeOK, CompletionTimeIffTerminal, DurableInv, [Next]_vars PROVE DurableInv'
  <2>0. \A r \in Requests : request[r].key \in Keys
    BY <1>2 DEF TypeOK
  <2>1. ASSUME NEW r \in Requests,
               request'[r].step \in {"audit", "enqueue", "accepted"}
        PROVE  rows'[request'[r].key].status # "absent"
    <3>1. CASE rows'[request'[r].key].status # "absent"
      BY <3>1
    <3>2. CASE request[r].step \in {"audit", "enqueue", "accepted"}
      <4>1. request'[r].key = request[r].key
        BY <1>2, <3>2, RequestStep
      <4>2. rows[request[r].key].status # "absent"
        BY <1>2, <3>2 DEF DurableInv
      <4> QED
        BY <1>2, <2>0, <4>1, <4>2, RowStep DEF RowEvolves
    <3> QED
      BY <1>2, <2>1, <3>1, <3>2, RequestStep
  <2>2. ASSUME NEW r \in Requests, Queued(r)'
        PROVE  request'[r].step = "accepted"
    BY <1>2, <2>2, JobStep, RequestStep DEF DurableInv
  <2>3. ASSUME NEW w \in Workers, Running(w)'
        PROVE  request'[worker'[w].job].step = "accepted"
    <3>1. TypeOK'
      BY <1>2, StepTyped
    <3>2. worker'[w].job \in Requests
      BY <3>1 DEF TypeOK
    <3>3. request[worker'[w].job].step = "accepted"
      BY <1>2, <2>3, <3>2, JobStep DEF DurableInv
    <3> QED
      BY <1>2, <3>2, <3>3, RequestStep
  <2> QED
    BY <2>1, <2>2, <2>3 DEF DurableInv
<1> QED
  BY <1>1, <1>2

\* A running thread keeps its two keys: its request was accepted.
LEMMA KeysFrozen ==
    ASSUME TypeOK, DurableInv, [Next]_vars, NEW w \in Workers, Running(w),
           worker'[w].job = worker[w].job,
           worker'[w].started_at = worker[w].started_at
    PROVE  SubmittedKey(w)' = SubmittedKey(w) /\ ResultKey(w)' = ResultKey(w)
PROOF
<1>1. worker[w].job \in Requests /\ request[worker[w].job].step # "new"
  BY DEF TypeOK, DurableInv
<1> QED
  BY <1>1, RequestStep DEF SubmittedKey, ResultKey

\* What the shared session has written stays together: a step adds to it, or
\* all of it is gone, with the session aborted or every thread idle.
LEMMA SessionStep ==
    ASSUME TypeOK, [Next]_vars
    PROVE  \/ scores \subseteq scores' /\ audit \subseteq audit' /\ session' = session
           \/ /\ scores' = {} /\ audit' = {}
              /\ session' = "aborted" \/ \A w \in Workers : worker'[w] = Idle
PROOF
<1> DEFINE Goal ==
      \/ scores \subseteq scores' /\ audit \subseteq audit' /\ session' = session
      \/ /\ scores' = {} /\ audit' = {}
         /\ session' = "aborted" \/ \A w \in Workers : worker'[w] = Idle
<1>1. CASE UNCHANGED shared
  BY <1>1 DEF shared
<1>2. ASSUME NEW step, StatementRefused(step) PROVE Goal
  BY <1>2 DEF StatementRefused, shared
<1>3. ASSUME NEW event, RecordAudit(event) PROVE Goal
  BY <1>2, <1>3 DEF RecordAudit
<1>4. ASSUME NEW r \in Requests, RequestNext(r) PROVE Goal
  <2>1. CASE AuditStarted(r)
    BY <1>3, <2>1 DEF AuditStarted
  <2>2. CASE Submit(r) \/ Lookup(r) \/ CreateAndCommit(r) \/ Enqueue(r)
    BY <1>1, <2>2 DEF Submit, Lookup, CreateAndCommit, Enqueue, stored
  <2> QED
    BY <1>4, <2>1, <2>2 DEF RequestNext
<1>5. ASSUME NEW w \in Workers, WorkerNext(w) PROVE Goal
  <2>1. CASE AuditCompleted(w) \/ AuditFailed(w)
    BY <1>3, <2>1 DEF AuditCompleted, AuditFailed
  <2>2. CASE Score(w)
    BY <1>2, <2>2 DEF Score, WriteScores
  <2>3. CASE Begin(w) \/ MarkRunning(w) \/ RunScan(w) \/ Persist(w) \/ MarkFailed(w)
    BY <1>1, <2>3 DEF Begin, MarkRunning, RunScan, Persist, MarkFailed, stored
  <2> QED
    BY <1>5, <2>1, <2>2, <2>3 DEF WorkerNext
<1>6. CASE Crash
  BY <1>6 DEF Crash
<1>7. CASE Tick \/ UNCHANGED vars
  BY <1>1, <1>7 DEF Tick, stored, shared, vars
<1> QED
  BY <1>4, <1>5, <1>6, <1>7 DEF Next

\* A row is completed by the transaction that stores its findings.
LEMMA CompletedStep ==
    ASSUME TypeOK, [Next]_vars, NEW k \in Keys, rows'[k].status = "completed"
    PROVE  rows[k].status = "completed" \/ k \in results'
PROOF
<1>1. rows \in [Keys -> Row]
  BY DEF TypeOK
<1>2. CASE rows' = rows
  BY <1>2
<1>3. ASSUME NEW j \in Keys, rows' = CreateRow(j)
      PROVE  rows[k].status = "completed"
  BY <1>1, <1>3 DEF CreateRow
<1>4. ASSUME NEW j \in Keys, NEW s \in {"running", "failed"},
             rows' = WithStatus(j, s)
      PROVE  rows[k].status = "completed"
  BY <1>1, <1>4 DEF WithStatus
<1>5. ASSUME NEW w \in Workers, Persist(w)
      PROVE  rows' = rows \/ rows[k].status = "completed" \/ k \in results'
  BY <1>1, <1>5 DEF Persist, SaveCompleted
<1>6. ASSUME NEW w \in Workers, WorkerNext(w)
      PROVE  \/ rows' = rows
             \/ \E j \in Keys, s \in {"running", "failed"} : rows' = WithStatus(j, s)
             \/ Persist(w)
  <2>1. SubmittedKey(w) \in Keys
    BY DEF SubmittedKey, TypeOK
  <2> QED
    BY <1>6, <2>1 DEF WorkerNext, Begin, MarkRunning, RunScan, Score,
       AuditCompleted, MarkFailed, AuditFailed, stored
<1>7. ASSUME NEW r \in Requests, RequestNext(r)
      PROVE  rows' = rows \/ \E j \in Keys : rows' = CreateRow(j)
  <2>1. request[r].key \in Keys
    BY DEF TypeOK
  <2> QED
    BY <1>7, <2>1 DEF RequestNext, Submit, Lookup, CreateAndCommit,
                      AuditStarted, Enqueue, stored
<1>8. CASE Tick \/ Crash \/ UNCHANGED vars
  BY <1>2, <1>8 DEF Tick, Crash, stored, vars
<1>9. CASE \E r \in Requests : RequestNext(r)
  BY <1>2, <1>3, <1>7, <1>9
<1>10. CASE \E w \in Workers : WorkerNext(w)
  BY <1>2, <1>4, <1>5, <1>6, <1>10
<1> QED
  BY <1>8, <1>9, <1>10 DEF Next

\* Snapshots are only ever added, scores only by the step that holds what they
\* rest on.
LEMMA LandedStep ==
    ASSUME TypeOK, [Next]_vars
    PROVE  /\ results \subseteq results'
           /\ \A k \in results' \ results : rows'[k].status = "completed"
           /\ \A k \in scores' \ scores :
                \E w \in Workers : worker[w].step = "score" /\ k = ResultKey(w)
           /\ \A w \in Workers :
                /\ worker'[w].step = "score" =>
                     \/ worker'[w] = worker[w]
                     \/ /\ worker'[w] = [worker[w] EXCEPT !.step = "score"]
                        /\ worker[w].step = "persist"
                        /\ ResultKey(w) \in results'
                /\ worker'[w].step = "audit_completed" =>
                     \/ worker'[w] = worker[w]
                     \/ /\ worker'[w] = [worker[w] EXCEPT !.step = "audit_completed"]
                        /\ worker[w].step = "score"
                        /\ ResultKey(w) \in scores'
PROOF
<1> DEFINE Moves(w) ==
      /\ worker'[w].step = "score" =>
           \/ worker'[w] = worker[w]
           \/ /\ worker'[w] = [worker[w] EXCEPT !.step = "score"]
              /\ worker[w].step = "persist"
              /\ ResultKey(w) \in results'
      /\ worker'[w].step = "audit_completed" =>
           \/ worker'[w] = worker[w]
           \/ /\ worker'[w] = [worker[w] EXCEPT !.step = "audit_completed"]
              /\ worker[w].step = "score"
              /\ ResultKey(w) \in scores'
      Goal ==
        /\ results \subseteq results'
        /\ \A k \in results' \ results : rows'[k].status = "completed"
        /\ \A k \in scores' \ scores :
             \E w \in Workers : worker[w].step = "score" /\ k = ResultKey(w)
        /\ \A w \in Workers : Moves(w)
<1>1. worker \in WorkerType /\ rows \in [Keys -> Row]
  BY DEF TypeOK, WorkerType
<1>2. CASE UNCHANGED <<results, worker>> /\ scores' \subseteq scores
  BY <1>2
<1>3. ASSUME NEW v \in Workers, WorkerNext(v) PROVE Goal
  <2>1. \A w \in Workers \ {v} : worker'[w] = worker[w]
    BY <1>1, <1>3 DEF WorkerNext, Begin, MarkRunning, RunScan, Persist, Score,
       AuditCompleted, MarkFailed, AuditFailed, Then, Leave, WorkerType
  <2>2. CASE Persist(v)
    <3>1. CASE /\ rows' = SaveCompleted(ResultKey(v), worker[v].completed_at)
               /\ results' = results \union {ResultKey(v)}
               /\ Then(v, "score")
      <4>1. ResultKey(v) \in Keys
        BY KeysTyped DEF SubmittedKey, ResultKey, TypeOK
      <4>2. rows'[ResultKey(v)].status = "completed"
        BY <1>1, <3>1, <4>1 DEF SaveCompleted
      <4>3. worker'[v] = [worker[v] EXCEPT !.step = "score"]
        BY <1>1, <3>1 DEF Then, WorkerType
      <4> QED
        BY <1>1, <2>1, <2>2, <3>1, <4>2, <4>3 DEF Persist, At, WorkerType, shared
    <3>2. CASE UNCHANGED results /\ Then(v, "mark_failed")
      BY <1>1, <2>1, <2>2, <3>2 DEF Persist, Then, WorkerType, shared
    <3> QED
      BY <2>2, <3>1, <3>2 DEF Persist
  <2>3. CASE Score(v)
    <3>1. CASE WriteScores(v) /\ Then(v, "audit_completed")
      <4>1. worker'[v] = [worker[v] EXCEPT !.step = "audit_completed"]
        BY <1>1, <3>1 DEF Then, WorkerType
      <4> QED
        BY <1>1, <2>1, <2>3, <3>1, <4>1 DEF Score, WriteScores, At, WorkerType
    <3>2. CASE StatementRefused("score") /\ Then(v, "mark_failed")
      <4>1. scores' \subseteq scores /\ UNCHANGED results
        BY <2>3, <3>2 DEF StatementRefused, shared, Score
      <4>2. worker'[v] = [worker[v] EXCEPT !.step = "mark_failed"]
        BY <1>1, <3>2 DEF Then, WorkerType
      <4>3. worker'[v].step = "mark_failed"
        BY <1>1, <4>2 DEF WorkerType
      <4> QED
        BY <2>1, <4>1, <4>3
    <3> QED
      BY <2>3, <3>1, <3>2 DEF Score
  <2>4. CASE ~Persist(v) /\ ~Score(v)
    <3>1. UNCHANGED results /\ scores' \subseteq scores
      BY <1>3, <2>4 DEF WorkerNext, Begin, MarkRunning, RunScan, RecordAudit,
         StatementRefused, AuditCompleted, MarkFailed, AuditFailed, stored, shared
    <3>2. \/ worker'[v] = Idle
          \/ worker'[v].step \in {"mark_running", "scan", "persist",
                                   "mark_failed", "audit_failed"}
      <4>1. CASE Begin(v) \/ RunScan(v)
        BY <1>1, <4>1 DEF Begin, RunScan, WorkerType
      <4>2. CASE MarkRunning(v) \/ MarkFailed(v)
        BY <1>1, <4>2 DEF MarkRunning, MarkFailed, Then, Leave, WorkerType
      <4>3. CASE AuditCompleted(v) \/ AuditFailed(v)
        BY <1>1, <4>3 DEF AuditCompleted, AuditFailed, Leave, WorkerType
      <4> QED
        BY <1>3, <2>4, <4>1, <4>2, <4>3 DEF WorkerNext
    <3> QED
      BY <2>1, <3>1, <3>2, DefaultsTyped
  <2> QED
    BY <2>2, <2>3, <2>4
<1>4. ASSUME NEW q \in Requests, RequestNext(q)
      PROVE  UNCHANGED <<results, worker>> /\ scores' \subseteq scores
  BY <1>4 DEF RequestNext, Submit, Lookup, CreateAndCommit, AuditStarted,
              RecordAudit, StatementRefused, Enqueue, stored, shared
<1>5. CASE Crash
  <2>1. UNCHANGED results /\ scores' = {} /\ \A w \in Workers : worker'[w] = Idle
    BY <1>5 DEF Crash, stored, shared
  <2> QED
    BY <2>1, DefaultsTyped
<1>6. CASE Tick \/ UNCHANGED vars
  BY <1>2, <1>6 DEF Tick, stored, shared, memory, vars
<1>7. CASE \E q \in Requests : RequestNext(q)
  BY <1>2, <1>4, <1>7
<1>8. CASE \E w \in Workers : WorkerNext(w)
  BY <1>3, <1>8
<1> QED
  BY <1>5, <1>6, <1>7, <1>8 DEF Next

LEMMA LandedInductive ==
    /\ Init => LandedInv
    /\ TypeOK /\ CompletionTimeIffTerminal /\ DurableInv /\ LandedInv /\ [Next]_vars => LandedInv'
PROOF
<1>1. Init => LandedInv
  BY DefaultsTyped DEF Init, LandedInv, ScoresDescribeLandedResults
<1>2. ASSUME TypeOK, CompletionTimeIffTerminal, DurableInv, LandedInv, [Next]_vars
      PROVE  LandedInv'
  <2>1. ASSUME NEW k \in scores' PROVE k \in results'
    <3>1. CASE k \in scores
      BY <1>2, <3>1, LandedStep DEF LandedInv, ScoresDescribeLandedResults
    <3>2. CASE k \notin scores
      <4>1. PICK w \in Workers : worker[w].step = "score" /\ k = ResultKey(w)
        BY <1>2, <2>1, <3>2, LandedStep
      <4>2. k \in results
        BY <1>2, <4>1 DEF LandedInv
      <4> QED
        BY <1>2, <4>2, LandedStep
    <3> QED
      BY <3>1, <3>2
  <2>2. ASSUME NEW k \in results'
        PROVE  rows'[k].status \in Terminal
    <3>1. CASE k \in results
      <4>1. rows[k].status \in Terminal /\ k \in Keys
        BY <1>2, <3>1 DEF LandedInv, ScoresDescribeLandedResults, TypeOK
      <4> QED
        BY <1>2, <4>1, RowStep DEF RowEvolves
    <3>2. CASE k \notin results
      BY <1>2, <2>2, <3>2, LandedStep DEF Terminal
    <3> QED
      BY <3>1, <3>2
  <2>4. ASSUME NEW k \in Keys, rows'[k].status = "completed"
        PROVE  k \in results'
    <3>1. CASE rows[k].status = "completed"
      BY <1>2, <3>1, LandedStep DEF LandedInv, ScoresDescribeLandedResults
    <3> QED
      BY <1>2, <2>4, <3>1, CompletedStep
  <2>3. ASSUME NEW w \in Workers, worker'[w].step \in {"score", "audit_completed"}
        PROVE  /\ ResultKey(w)' \in results'
               /\ worker'[w].step = "audit_completed" =>
                    ResultKey(w)' \in scores' \/ session' = "aborted"
    <3>1. worker[w] \in [step : WorkerSteps, job : Requests,
                         started_at : Instants, completed_at : Instants]
      BY <1>2 DEF TypeOK
    <3>2. /\ worker[w].step \in {"persist", "score", "audit_completed"}
          /\ worker'[w].job = worker[w].job
          /\ worker'[w].started_at = worker[w].started_at
      BY <1>2, <2>3, <3>1, LandedStep
    <3>3. ResultKey(w)' = ResultKey(w)
      BY <1>2, <3>2, KeysFrozen DEF Running
    <3>4. worker'[w] # Idle
      BY <2>3, DefaultsTyped
    <3>5. ResultKey(w)' \in results'
      BY <1>2, <2>3, <3>1, <3>2, <3>3, LandedStep DEF LandedInv
    <3>6. CASE /\ worker[w].step = "audit_completed"
               /\ worker'[w].step = "audit_completed"
      <4>1. ResultKey(w) \in scores \/ session = "aborted"
        BY <1>2, <3>6 DEF LandedInv
      <4> QED
        BY <1>2, <3>3, <3>4, <3>5, <4>1, SessionStep
    <3>7. CASE /\ worker[w].step # "audit_completed"
               /\ worker'[w].step = "audit_completed"
      BY <1>2, <3>3, <3>5, <3>7, LandedStep
    <3> QED
      BY <3>5, <3>6, <3>7
  <2> QED
    BY <2>1, <2>2, <2>3, <2>4 DEF LandedInv, ScoresDescribeLandedResults
<1> QED
  BY <1>1, <1>2

\* Which step records which event, and how a thread gets to "audit_failed".
LEMMA AuditStep ==
    ASSUME TypeOK, [Next]_vars
    PROVE  /\ audit' \subseteq audit \/ session = "open"
           /\ \A e \in audit' \ audit :
                \/ \E r \in Requests : /\ request[r].step = "audit"
                                       /\ e = <<"scan_started", request[r].key>>
                \/ \E w \in Workers : /\ worker[w].step = "audit_completed"
                                      /\ e = <<"scan_completed", ResultKey(w)>>
                \/ \E w \in Workers : /\ worker[w].step = "audit_failed"
                                      /\ e = <<"scan_failed", SubmittedKey(w)>>
           /\ \A w \in Workers : worker'[w].step = "audit_failed" =>
                \/ worker'[w] = worker[w]
                \/ /\ worker[w].step = "mark_failed"
                   /\ worker'[w] = [worker[w] EXCEPT !.step = "audit_failed"]
                   /\ rows' = WithStatus(SubmittedKey(w), "failed")
PROOF
<1> DEFINE Recorded(e) ==
             \/ \E r \in Requests : /\ request[r].step = "audit"
                                    /\ e = <<"scan_started", request[r].key>>
             \/ \E w \in Workers : /\ worker[w].step = "audit_completed"
                                   /\ e = <<"scan_completed", ResultKey(w)>>
             \/ \E w \in Workers : /\ worker[w].step = "audit_failed"
                                   /\ e = <<"scan_failed", SubmittedKey(w)>>
           Moves(w) == worker'[w].step = "audit_failed" =>
             \/ worker'[w] = worker[w]
             \/ /\ worker[w].step = "mark_failed"
                /\ worker'[w] = [worker[w] EXCEPT !.step = "audit_failed"]
                /\ rows' = WithStatus(SubmittedKey(w), "failed")
           Goal == /\ audit' \subseteq audit \/ session = "open"
                   /\ \A e \in audit' \ audit : Recorded(e)
                   /\ \A w \in Workers : Moves(w)
<1>1. worker \in WorkerType
  BY DEF TypeOK, WorkerType
<1>2. CASE audit' \subseteq audit /\ UNCHANGED worker
  BY <1>2
<1>3. ASSUME NEW q \in Requests, RequestNext(q) PROVE Goal
  <2>1. UNCHANGED worker
    BY <1>3 DEF RequestNext, Submit, Lookup, CreateAndCommit, AuditStarted, Enqueue
  <2>2. CASE AuditStarted(q)
    BY <2>1, <2>2 DEF AuditStarted, RecordAudit, StatementRefused, shared
  <2>3. CASE ~AuditStarted(q)
    BY <1>3, <2>1, <2>3 DEF RequestNext, Submit, Lookup, CreateAndCommit,
                            Enqueue, stored, shared
  <2> QED
    BY <2>2, <2>3
<1>4. ASSUME NEW v \in Workers, WorkerNext(v) PROVE Goal
  <2>1. \A w \in Workers \ {v} : worker'[w] = worker[w]
    BY <1>1, <1>4 DEF WorkerNext, Begin, MarkRunning, RunScan, Persist, Score,
       AuditCompleted, MarkFailed, AuditFailed, Then, Leave, WorkerType
  <2>2. CASE AuditCompleted(v) \/ AuditFailed(v)
    <3>1. worker'[v] = Idle
      BY <1>1, <2>2 DEF AuditCompleted, AuditFailed, Leave, WorkerType
    <3> QED
      BY <2>1, <2>2, <3>1, DefaultsTyped
         DEF AuditCompleted, AuditFailed, RecordAudit, StatementRefused, shared, At
  <2>3. CASE MarkFailed(v)
    <3>1. UNCHANGED audit /\ worker[v].step = "mark_failed"
      BY <2>3 DEF MarkFailed, At, shared
    <3>2. CASE /\ rows' = WithStatus(SubmittedKey(v), "failed")
               /\ Then(v, "audit_failed")
      <4>1. worker'[v] = [worker[v] EXCEPT !.step = "audit_failed"]
        BY <1>1, <3>2 DEF Then, WorkerType
      <4> QED
        BY <2>1, <3>1, <3>2, <4>1
    <3>3. CASE Leave(v, "raised")
      <4>1. worker'[v] = Idle
        BY <1>1, <3>3 DEF Leave, WorkerType
      <4> QED
        BY <2>1, <3>1, <4>1, DefaultsTyped
    <3> QED
      BY <2>3, <3>2, <3>3 DEF MarkFailed
  <2>4. CASE Begin(v) \/ MarkRunning(v) \/ RunScan(v) \/ Persist(v) \/ Score(v)
    <3>1. audit' \subseteq audit
      BY <2>4 DEF Begin, MarkRunning, RunScan, Persist, Score, WriteScores,
                  StatementRefused, stored, shared
    <3>2. worker'[v].step # "audit_failed"
      <4>1. CASE Begin(v) \/ RunScan(v)
        BY <1>1, <4>1 DEF Begin, RunScan, WorkerType
      <4>2. CASE MarkRunning(v)
        BY <1>1, <4>2, DefaultsTyped DEF MarkRunning, Then, Leave, WorkerType
      <4>3. CASE Persist(v) \/ Score(v)
        BY <1>1, <4>3 DEF Persist, Score, Then, WorkerType
      <4> QED
        BY <2>4, <4>1, <4>2, <4>3
    <3> QED
      BY <2>1, <3>1, <3>2
  <2> QED
    BY <1>4, <2>2, <2>3, <2>4 DEF WorkerNext
<1>5. CASE Crash
  <2>1. audit' = {} /\ \A w \in Workers : worker'[w] = Idle
    BY <1>5 DEF Crash, stored, shared
  <2> QED
    BY <2>1, DefaultsTyped
<1>6. CASE Tick \/ UNCHANGED vars
  BY <1>2, <1>6 DEF Tick, stored, shared, memory, vars
<1>7. CASE \E q \in Requests : RequestNext(q)
  BY <1>3, <1>7
<1>8. CASE \E w \in Workers : WorkerNext(w)
  BY <1>4, <1>8
<1> QED
  BY <1>5, <1>6, <1>7, <1>8 DEF Next

LEMMA AuditInductive ==
    /\ Init => AuditInv
    /\ /\ TypeOK /\ CompletionTimeIffTerminal /\ DurableInv /\ LandedInv /\ AuditInv
       /\ [Next]_vars
       => AuditInv'
PROOF
<1>1. Init => AuditInv
  BY DefaultsTyped DEF Init, AuditInv, AuditIsTruthful
<1>2. ASSUME TypeOK, CompletionTimeIffTerminal, DurableInv, LandedInv, AuditInv, [Next]_vars
      PROVE  AuditInv'
  <2>1. ASSUME NEW k \in Keys, <<"scan_started", k>> \in audit'
        PROVE  rows'[k].status # "absent"
    <3>1. rows[k].status # "absent"
      <4>1. CASE <<"scan_started", k>> \in audit
        BY <1>2, <4>1 DEF AuditInv, AuditIsTruthful
      <4>2. CASE <<"scan_started", k>> \notin audit
        <5>1. PICK r \in Requests :
                request[r].step = "audit" /\ k = request[r].key
          BY <1>2, <2>1, <4>2, AuditStep
        <5> QED
          BY <1>2, <5>1 DEF DurableInv
      <4> QED
        BY <4>1, <4>2
    <3> QED
      BY <1>2, <3>1, RowStep DEF RowEvolves
  <2>2. ASSUME NEW k \in Keys, <<"scan_completed", k>> \in audit'
        PROVE  k \in scores'
    <3>1. k \in scores
      <4>1. CASE <<"scan_completed", k>> \in audit
        BY <1>2, <4>1 DEF AuditInv, AuditIsTruthful
      <4>2. CASE <<"scan_completed", k>> \notin audit
        <5>1. PICK w \in Workers :
                worker[w].step = "audit_completed" /\ k = ResultKey(w)
          BY <1>2, <2>2, <4>2, AuditStep
        <5>2. session = "open"
          BY <1>2, <2>2, <4>2, AuditStep
        <5> QED
          BY <1>2, <5>1, <5>2 DEF LandedInv
      <4> QED
        BY <4>1, <4>2
    <3> QED
      BY <1>2, <2>2, <3>1, SessionStep
  <2>3. ASSUME NEW k \in Keys, <<"scan_failed", k>> \in audit'
        PROVE  rows'[k].status \in Terminal
    <3>1. rows[k].status \in Terminal
      <4>1. CASE <<"scan_failed", k>> \in audit
        BY <1>2, <4>1 DEF AuditInv, AuditIsTruthful
      <4>2. CASE <<"scan_failed", k>> \notin audit
        <5>1. PICK w \in Workers :
                worker[w].step = "audit_failed" /\ k = SubmittedKey(w)
          BY <1>2, <2>3, <4>2, AuditStep
        <5> QED
          BY <1>2, <5>1 DEF AuditInv
      <4> QED
        BY <4>1, <4>2
    <3> QED
      BY <1>2, <3>1, RowStep DEF RowEvolves
  <2>4. ASSUME NEW w \in Workers, worker'[w].step = "audit_failed"
        PROVE  rows'[SubmittedKey(w)'].status \in Terminal
    <3>1. /\ worker[w] \in [step : WorkerSteps, job : Requests,
                            started_at : Instants, completed_at : Instants]
          /\ SubmittedKey(w) \in Keys
      BY <1>2 DEF TypeOK, SubmittedKey
    <3>2. /\ worker[w].step \in {"mark_failed", "audit_failed"}
          /\ worker'[w].job = worker[w].job
          /\ worker'[w].started_at = worker[w].started_at
      BY <1>2, <2>4, <3>1, AuditStep
    <3>3. SubmittedKey(w)' = SubmittedKey(w)
      BY <1>2, <3>2, KeysFrozen DEF Running
    <3>4. CASE worker[w].step = "audit_failed"
      <4>1. rows[SubmittedKey(w)].status \in Terminal
        BY <1>2, <3>4 DEF AuditInv
      <4>2. rows'[SubmittedKey(w)].status \in Terminal
        BY <1>2, <3>1, <4>1, RowStep DEF RowEvolves
      <4> QED
        BY <3>3, <4>2
    <3>5. CASE worker[w].step = "mark_failed"
      <4>1. rows' = WithStatus(SubmittedKey(w), "failed")
        BY <1>2, <2>4, <3>5, AuditStep
      <4>2. rows[SubmittedKey(w)].status # "absent"
        BY <1>2, <3>1, <3>5 DEF DurableInv, Running, SubmittedKey
      <4>3. rows'[SubmittedKey(w)].status = "failed"
        BY <1>2, <3>1, <4>1, <4>2 DEF WithStatus, TypeOK, Row
      <4> QED
        BY <3>3, <4>3 DEF Terminal
    <3> QED
      BY <3>2, <3>4, <3>5
  <2> QED
    BY <2>1, <2>2, <2>3, <2>4 DEF AuditInv, AuditIsTruthful
<1> QED
  BY <1>1, <1>2

\* The whole invariant holds in every reachable state.
LEMMA Inductive ==
    /\ Init => IInv
    /\ IInv /\ [Next]_vars => IInv'
PROOF
  BY InitTyped, StepTyped, TableInductive, DurableInductive, LandedInductive,
     AuditInductive DEF IInv

\* No job waits or runs without its scan in the table, across restarts.
THEOREM JobsDurable == Spec => []JobsAreDurable
PROOF
<1>1. IInv => JobsAreDurable
  BY DEF IInv, DurableInv, JobsAreDurable, SubmittedKey, TypeOK
<1> QED
  BY <1>1, Inductive, PTL DEF Spec

\* Scores never describe findings that did not land, although another
\* transaction writes them, and a completed scan has its findings.
THEOREM ResultsLanded == Spec => []ScoresDescribeLandedResults
PROOF
<1>1. IInv => ScoresDescribeLandedResults
  BY DEF IInv, LandedInv
<1> QED
  BY <1>1, Inductive, PTL DEF Spec

\* The audit log never claims what did not happen, although it is written
\* outside the transactions it reports on and may lose any of its events.
THEOREM AuditTruthful == Spec => []AuditIsTruthful
PROOF
<1>1. IInv => AuditIsTruthful
  BY DEF IInv, AuditInv
<1> QED
  BY <1>1, Inductive, PTL DEF Spec

-----------------------------------------------------------------------------
(***************************************************************************)
(* A job is in one place.                                                  *)
(***************************************************************************)
Holds(w, r) == Running(w) /\ worker[w].job = r
Placed(r)   == Queued(r) \/ \E w \in Workers : Holds(w, r)

\* AcceptedOnce without its sets of slots and threads; an exit is recorded
\* for accepted requests only.
PlaceInv ==
    /\ \A i, j \in 1 .. Len(queue) : queue[i] = queue[j] => i = j
    /\ \A r \in Requests :
         /\ \A v, w \in Workers : Holds(v, r) /\ Holds(w, r) => v = w
         /\ \A w \in Workers : ~(Queued(r) /\ Holds(w, r))
         /\ Placed(r) <=> Unfinished(r)
         /\ exit[r] # "none" => request[r].step = "accepted"

\* A step that moves no job.
LEMMA QuietKeepsPlace ==
    ASSUME PlaceInv, queue' = queue, exit' = exit,
           \A r \in Requests : /\ request'[r].step = "accepted" <=>
                                    request[r].step = "accepted"
                               /\ \A w \in Workers : Holds(w, r)' <=> Holds(w, r)
    PROVE  PlaceInv'
PROOF
  BY DEF PlaceInv, Queued, Placed, Unfinished

LEMMA EnqueuePlaces ==
    ASSUME TypeOK, PlaceInv, NEW q \in Requests, Enqueue(q)
    PROVE  PlaceInv'
PROOF
<1>1. /\ queue \in Seq(Requests) /\ queue' = Append(queue, q)
      /\ worker' = worker /\ exit' = exit /\ request \in RequestType
  BY DEF TypeOK, Enqueue, RequestType
<1>2. /\ request[q].step # "accepted" /\ request'[q].step = "accepted"
      /\ \A r \in Requests \ {q} : request'[r] = request[r]
  BY <1>1 DEF Enqueue, Goto, RequestType
<1>3. ~Queued(q) /\ exit[q] = "none" /\ \A w \in Workers : ~Holds(w, q)
  BY <1>2 DEF PlaceInv, Placed, Unfinished
<1>4. /\ Len(queue) \in Nat /\ Len(queue') = Len(queue) + 1
      /\ queue'[Len(queue) + 1] = q
      /\ \A i \in 1 .. Len(queue) : queue'[i] = queue[i] /\ queue[i] # q
  BY <1>1, <1>3 DEF Queued
<1>5. \A i \in 1 .. Len(queue') : i = Len(queue) + 1 \/ i \in 1 .. Len(queue)
  BY <1>4
<1>6. \A r \in Requests : Queued(r)' <=> Queued(r) \/ r = q
  <2>1. \A r \in Requests : Queued(r)' => Queued(r) \/ r = q
    BY <1>4, <1>5 DEF Queued
  <2>2. \A r \in Requests : Queued(r) => Queued(r)'
    BY <1>4 DEF Queued
  <2>3. Queued(q)'
    BY <1>4 DEF Queued
  <2> QED
    BY <2>1, <2>2, <2>3
<1>7. \A r \in Requests, w \in Workers : Holds(w, r)' <=> Holds(w, r)
  BY <1>1 DEF Holds, Running
<1>8. \A i, j \in 1 .. Len(queue') : queue'[i] = queue'[j] => i = j
  BY <1>4, <1>5 DEF PlaceInv
<1>9. \A r \in Requests : Unfinished(r)' <=> Unfinished(r) \/ r = q
  BY <1>1, <1>2, <1>3 DEF Unfinished
<1>10. \A r \in Requests : Placed(r)' <=> Placed(r) \/ r = q
  BY <1>6, <1>7 DEF Placed
<1> QED
  BY <1>1, <1>2, <1>3, <1>6, <1>7, <1>8, <1>9, <1>10 DEF PlaceInv

LEMMA BeginPlaces ==
    ASSUME TypeOK, PlaceInv, NEW v \in Workers, Begin(v)
    PROVE  PlaceInv'
PROOF
<1> DEFINE q == Head(queue)
<1>1. /\ queue \in Seq(Requests) /\ queue # <<>> /\ queue' = Tail(queue)
      /\ request' = request /\ exit' = exit /\ worker \in WorkerType
      /\ worker[v].step = "idle"
  BY DEF TypeOK, Begin, At, WorkerType
<1>2. /\ Len(queue) \in Nat \ {0} /\ Len(queue') = Len(queue) - 1
      /\ q = queue[1] /\ q \in Requests
      /\ \A i \in 1 .. Len(queue') :
           queue'[i] = queue[i + 1] /\ i + 1 \in 1 .. Len(queue)
  BY <1>1
<1>3. \A i \in 1 .. Len(queue) : i = 1 \/ i - 1 \in 1 .. Len(queue')
  BY <1>2
<1>4. Queued(q)
  BY <1>2 DEF Queued
<1>5. \A i, j \in 1 .. Len(queue') : queue'[i] = queue'[j] => i = j
  BY <1>2 DEF PlaceInv
<1>6. \A r \in Requests : Queued(r)' <=> Queued(r) /\ r # q
  <2>1. ASSUME NEW i \in 1 .. Len(queue') PROVE queue'[i] # q
    BY <1>2 DEF PlaceInv
  <2>2. \A r \in Requests : Queued(r)' => Queued(r) /\ r # q
    BY <1>2, <2>1 DEF Queued
  <2>3. ASSUME NEW r \in Requests, Queued(r), r # q PROVE Queued(r)'
    <3>1. PICK i \in 1 .. Len(queue) : queue[i] = r
      BY <2>3 DEF Queued
    <3>2. i - 1 \in 1 .. Len(queue') /\ (i - 1) + 1 = i
      BY <1>2, <1>3, <2>3, <3>1
    <3>3. queue'[i - 1] = r
      BY <1>2, <3>1, <3>2
    <3> QED
      BY <3>2, <3>3 DEF Queued
  <2> QED
    BY <2>2, <2>3
<1>7. /\ worker'[v].step = "mark_running" /\ worker'[v].job = q
      /\ \A w \in Workers \ {v} : worker'[w] = worker[w]
  BY <1>1 DEF Begin, WorkerType
<1>8. \A r \in Requests, w \in Workers :
        Holds(w, r)' <=> Holds(w, r) \/ (w = v /\ r = q)
  BY <1>1, <1>7 DEF Holds, Running
<1>9. \A w \in Workers : ~Holds(w, q)
  BY <1>2, <1>4 DEF PlaceInv
<1>10. \A r \in Requests : Placed(r)' <=> Placed(r)
  BY <1>4, <1>6, <1>8 DEF Placed
<1>11. \A r \in Requests : Unfinished(r)' <=> Unfinished(r)
  BY <1>1 DEF Unfinished
<1> HIDE DEF q
<1> QED
  BY <1>1, <1>5, <1>6, <1>8, <1>9, <1>10, <1>11 DEF PlaceInv

\* A job that ends leaves its thread and is finished.
LEMMA LeavePlaces ==
    ASSUME TypeOK, PlaceInv, NEW v \in Workers, Running(v), NEW how,
           how # "none", Leave(v, how), queue' = queue, request' = request
    PROVE  PlaceInv'
PROOF
<1> DEFINE q == worker[v].job
<1>1. /\ worker \in WorkerType /\ q \in Requests
      /\ exit \in [Requests -> Exits]
  BY DEF TypeOK, WorkerType
<1>2. /\ worker'[v].step = "idle"
      /\ \A w \in Workers \ {v} : worker'[w] = worker[w]
      /\ exit'[q] = how /\ \A r \in Requests \ {q} : exit'[r] = exit[r]
  BY <1>1, DefaultsTyped DEF Leave, WorkerType
<1>3. Holds(v, q)
  BY DEF Holds
<1>4. /\ ~Queued(q) /\ request[q].step = "accepted"
      /\ \A w \in Workers : Holds(w, q) => w = v
  BY <1>1, <1>3 DEF PlaceInv, Placed, Unfinished
<1>5. \A r \in Requests, w \in Workers :
        Holds(w, r)' <=> Holds(w, r) /\ w # v
  BY <1>2 DEF Holds, Running
<1>6. \A r \in Requests : Queued(r)' <=> Queued(r)
  BY DEF Queued
<1>7. \A r \in Requests : Placed(r)' <=> Placed(r) /\ r # q
  <2>1. \A r \in Requests : Holds(v, r) => r = q
    BY DEF Holds
  <2> QED
    BY <1>4, <1>5, <1>6, <2>1 DEF Placed
<1>8. \A r \in Requests : Unfinished(r)' <=> Unfinished(r) /\ r # q
  BY <1>2 DEF Unfinished
<1> HIDE DEF q
<1> QED
  BY <1>2, <1>4, <1>5, <1>6, <1>7, <1>8 DEF PlaceInv

LEMMA PlaceInductive ==
    /\ Init => PlaceInv
    /\ TypeOK /\ PlaceInv /\ [Next]_vars => PlaceInv'
PROOF
<1>1. Init => PlaceInv
  BY DefaultsTyped DEF Init, PlaceInv, Queued, Holds, Placed, Running, Unfinished
<1>2. ASSUME TypeOK, PlaceInv, [Next]_vars PROVE PlaceInv'
  <2>1. /\ request \in RequestType /\ worker \in WorkerType
        /\ exit \in [Requests -> Exits]
    BY <1>2 DEF TypeOK, RequestType, WorkerType
  <2>2. ASSUME NEW q \in Requests, RequestNext(q) PROVE PlaceInv'
    <3>1. CASE Enqueue(q)
      BY <1>2, <3>1, EnqueuePlaces
    <3>2. CASE Submit(q) \/ Lookup(q) \/ CreateAndCommit(q) \/ AuditStarted(q)
      <4>1. UNCHANGED <<queue, worker, exit>>
        BY <3>2 DEF Submit, Lookup, CreateAndCommit, AuditStarted
      <4>2. \A r \in Requests : request'[r].step = "accepted" <=>
                                  request[r].step = "accepted"
        BY <2>1, <3>2 DEF Submit, Lookup, CreateAndCommit, AuditStarted, Goto,
                          RequestType
      <4> QED
        BY <1>2, <4>1, <4>2, QuietKeepsPlace DEF Holds, Running
    <3> QED
      BY <2>2, <3>1, <3>2 DEF RequestNext
  <2>3. ASSUME NEW v \in Workers, WorkerNext(v) PROVE PlaceInv'
    <3>1. CASE Begin(v)
      BY <1>2, <3>1, BeginPlaces
    <3>2. CASE ~Begin(v)
      <4>1. queue' = queue /\ request' = request /\ Running(v)
        BY <2>3, <3>2 DEF WorkerNext, MarkRunning, RunScan, Persist, Score,
           AuditCompleted, MarkFailed, AuditFailed, At, Running
      <4>2. CASE \E how \in {"completed", "failed", "raised"} : Leave(v, how)
        BY <1>2, <4>1, <4>2, LeavePlaces
      <4>3. CASE ~\E how \in {"completed", "failed", "raised"} : Leave(v, how)
        <5>1. exit' = exit
          BY <2>3, <3>2, <4>3 DEF WorkerNext, MarkRunning, RunScan, Persist,
             Score, AuditCompleted, MarkFailed, AuditFailed, Then
        <5>2. /\ worker'[v].step # "idle" /\ worker'[v].job = worker[v].job
              /\ \A w \in Workers \ {v} : worker'[w] = worker[w]
          BY <2>1, <2>3, <3>2, <4>3 DEF WorkerNext, MarkRunning, RunScan,
             Persist, Score, AuditCompleted, MarkFailed, AuditFailed, Then,
             WorkerType
        <5>3. \A r \in Requests, w \in Workers : Holds(w, r)' <=> Holds(w, r)
          BY <4>1, <5>2 DEF Holds, Running
        <5> QED
          BY <1>2, <4>1, <5>1, <5>3, QuietKeepsPlace
      <4> QED
        BY <4>2, <4>3
    <3> QED
      BY <3>1, <3>2
  <2>4. CASE Crash
    <3>1. /\ queue' = <<>> /\ \A w \in Workers : worker'[w] = Idle
          /\ exit' = [r \in Requests |->
                        IF Unfinished(r) THEN "lost" ELSE exit[r]]
      BY <2>4 DEF Crash
    <3>2. \A r \in Requests : request'[r].step = "accepted" <=>
                                request[r].step = "accepted"
      BY <2>1, <2>4 DEF Crash, InFlight, RequestType
    <3>3. \A r \in Requests : ~Placed(r)' /\ ~Queued(r)'
                              /\ \A w \in Workers : ~Holds(w, r)'
      BY <3>1, DefaultsTyped DEF Placed, Queued, Holds, Running
    <3>4. \A r \in Requests : ~Unfinished(r)'
      BY <3>1, <3>2 DEF Unfinished
    <3>5. \A r \in Requests : exit'[r] # "none" => request'[r].step = "accepted"
      BY <1>2, <3>1, <3>2 DEF PlaceInv, Unfinished
    <3>6. \A i, j \in 1 .. Len(queue') : queue'[i] = queue'[j] => i = j
      BY <3>1
    <3> QED
      BY <3>3, <3>4, <3>5, <3>6 DEF PlaceInv
  <2>5. CASE Tick \/ UNCHANGED vars
    <3>1. UNCHANGED <<request, queue, worker, exit>>
      BY <2>5 DEF Tick, memory, vars
    <3> QED
      BY <1>2, <3>1, QuietKeepsPlace DEF Holds, Running
  <2> QED
    BY <1>2, <2>2, <2>3, <2>4, <2>5 DEF Next
<1> QED
  BY <1>1, <1>2

\* Until a restart loses it, an accepted request is once in the queue, on one
\* thread, or finished: the executor drops no job and runs none twice.
THEOREM OnePlace == Spec => []AcceptedOnce
PROOF
<1>1. PlaceInv => AcceptedOnce
  <2> SUFFICES ASSUME PlaceInv PROVE AcceptedOnce
    OBVIOUS
  <2> DEFINE slots(r)   == {i \in 1 .. Len(queue) : queue[i] = r}
             threads(r) == {w \in Workers : Running(w) /\ worker[w].job = r}
  <2>1. \A r \in Requests :
          /\ slots(r) # {} <=> Queued(r)
          /\ \A w \in Workers : w \in threads(r) <=> Holds(w, r)
    BY DEF Queued, Holds
  <2> QED
    BY <2>1 DEF AcceptedOnce, PlaceInv, Placed
<1> QED
  BY <1>1, PlaceInductive, Inductive, StepTyped, InitTyped, PTL DEF Spec
=============================================================================
