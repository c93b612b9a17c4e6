---------------------- MODULE ReconcileLifecycleProofs ----------------------
(***************************************************************************)
(* Proofs about ReconcileLifecycle for any number of threads, accounts,    *)
(* resources and rules; scans overlap and users suppress as they like.     *)
(***************************************************************************)
EXTENDS ReconcileLifecycle, TLAPS

WorkerType == [Workers ->
                 [step : {"idle", "read_known", "read_active", "upsert"},
                  account : Accounts, at : Instants,
                  verdict : [Issues -> Verdicts], read : [Issues -> Row]]]

\* The instants are numbers and the missing time is none of them.
LEMMA TimesAreNumbers ==
    /\ Instants \subseteq Nat /\ 0 \in Instants
    /\ Instants \union {NoTime} \subseteq Int /\ NoTime \notin Instants
PROOF
  BY BoundsAssumption DEF Instants, NoTime

LEMMA DefaultsTyped ==
    /\ Absent \in Row
    /\ WellFormed(Absent)
    /\ Idle \in [step : {"idle", "read_known", "read_active", "upsert"},
                 account : Accounts, at : Instants,
                 verdict : [Issues -> Verdicts], read : [Issues -> Row]]
    /\ Idle.step = "idle" /\ Idle.read = [i \in Issues |-> Absent]
PROOF
<1>1. Absent \in Row /\ WellFormed(Absent)
  BY DEF Absent, Row, States, WellFormed
<1>2. (CHOOSE a \in Accounts : TRUE) \in Accounts
  BY BoundsAssumption
<1> QED
  BY <1>1, <1>2, TimesAreNumbers DEF Idle, Verdicts

\* The successors of a row are rows, and well formed if the row was.
LEMMA SuccessorsWellFormed ==
    ASSUME NEW row \in Row, NEW at \in Instants, WellFormed(row)
    PROVE  /\ first_observation(at) \in Row /\ WellFormed(first_observation(at))
           /\ observed_again(row, at) \in Row
           /\ (row.state # "absent" /\ Valid(observed_again(row, at))) =>
                WellFormed(observed_again(row, at))
           /\ resolve(row, at) \in Row
           /\ row.state # "absent" => WellFormed(resolve(row, at))
           /\ suppress(row) \in Row
           /\ row.state # "absent" => WellFormed(suppress(row))
           /\ unsuppress(row) \in Row
           /\ row.state # "absent" => WellFormed(unsuppress(row))
PROOF
<1> USE TimesAreNumbers
<1>1. first_observation(at) \in Row /\ WellFormed(first_observation(at))
  <2>1. first_observation(at) \in Row
    BY DEF first_observation, Row, States, Active
  <2>2. at # NoTime /\ at <= at
    OBVIOUS
  <2>3. WellFormed(first_observation(at))
    BY <2>2 DEF first_observation, WellFormed
  <2> QED
    BY <2>1, <2>3
<1>2. observed_again(row, at) \in Row
  <2>1. row.occurrence_count + 1 \in Nat /\ row.reopen_count + 1 \in Nat
    BY DEF Row
  <2>2. CASE row.state = "resolved"
    BY <2>1, <2>2 DEF observed_again, Row, States, Active
  <2>3. CASE row.state # "resolved"
    BY <2>1, <2>3 DEF observed_again, Row, States, Active
  <2> QED
    BY <2>2, <2>3
<1>3. ASSUME row.state # "absent", Valid(observed_again(row, at))
      PROVE  WellFormed(observed_again(row, at))
  <2>1. CASE row.state = "resolved"
    BY <1>3, <2>1 DEF observed_again, WellFormed, Valid, Row
  <2>2. CASE row.state # "resolved"
    BY <1>3, <2>2 DEF observed_again, WellFormed, Valid, Row
  <2> QED
    BY <2>1, <2>2
<1>4. resolve(row, at) \in Row
  BY DEF resolve, Row, States
<1>5. ASSUME row.state # "absent" PROVE WellFormed(resolve(row, at))
  <2> DEFINE new == resolve(row, at)
  <2>1. /\ new.state = "resolved" /\ new.resolved_at = at
        /\ new.first_seen_at = row.first_seen_at
        /\ new.last_seen_at = row.last_seen_at
        /\ new.reopen_count = row.reopen_count
        /\ new.occurrence_count = row.occurrence_count
    BY DEF resolve, Row
  <2>2. at # NoTime
    OBVIOUS
  <2> HIDE DEF new
  <2> QED
    BY <1>5, <2>1, <2>2 DEF WellFormed, new
<1>6. suppress(row) \in Row /\ (row.state # "absent" => WellFormed(suppress(row)))
  BY DEF suppress, Row, States, WellFormed
<1>7. unsuppress(row) \in Row /\ (row.state # "absent" => WellFormed(unsuppress(row)))
  BY DEF unsuppress, Row, States, Active, WellFormed
<1> QED
  BY <1>1, <1>2, <1>3, <1>4, <1>5, <1>6, <1>7

\* The table and every copy a thread holds of it are well formed.
RowsInv ==
    /\ RowsWellFormed
    /\ \A w \in Workers, i \in Issues : WellFormed(worker[w].read[i])

\* What a thread is about to write.
LEMMA ReconciledTyped ==
    ASSUME TypeOK, RowsInv, NEW w \in Workers, NEW i \in Touched(w)
    PROVE  /\ Reconciled(w, i) \in Row
           /\ Valid(Reconciled(w, i)) => WellFormed(Reconciled(w, i))
           /\ Reconciled(w, i).state # "absent"
           /\ i \in Issues /\ i[1] \in Accounts
PROOF
<1> DEFINE row == worker[w].read[i]
           at == worker[w].at
<1>1. i \in Issues /\ row \in Row /\ at \in Instants /\ WellFormed(row)
  BY DEF TypeOK, RowsInv, Touched, Failing, Closing, Covered
<1>2. CASE i \in Closing(w)
  <2>1. row.state # "absent" /\ Reconciled(w, i) = resolve(row, at)
    BY <1>2 DEF Closing, Active, Reconciled
  <2>2. resolve(row, at).state # "absent"
    BY <1>1 DEF resolve, Row
  <2> QED
    BY <1>1, <2>1, <2>2, SuccessorsWellFormed DEF Issues
<1>3. CASE i \notin Closing(w) /\ row.state = "absent"
  <2>1. Reconciled(w, i) = first_observation(at)
    BY <1>3 DEF Reconciled, Touched
  <2> QED
    BY <1>1, <2>1, SuccessorsWellFormed DEF Issues, first_observation
<1>4. CASE i \notin Closing(w) /\ row.state # "absent"
  <2>1. Reconciled(w, i) = observed_again(row, at)
    BY <1>4 DEF Reconciled, Touched
  <2>2. observed_again(row, at).state # "absent"
    BY <1>1, <1>4 DEF observed_again, Row
  <2> QED
    BY <1>1, <1>4, <2>1, <2>2, SuccessorsWellFormed DEF Issues
<1> QED
  BY <1>2, <1>3, <1>4

\* What the upsert leaves in the table.
LEMMA UpsertedTyped ==
    ASSUME TypeOK, RowsInv, NEW w \in Workers, Accepted(w), NEW i \in Touched(w)
    PROVE  /\ Upserted(i, Reconciled(w, i)) \in Row
           /\ WellFormed(Upserted(i, Reconciled(w, i)))
           /\ Upserted(i, Reconciled(w, i)).state # "absent"
           /\ rows[i].state # "absent" =>
                Upserted(i, Reconciled(w, i)).first_seen_at = rows[i].first_seen_at
PROOF
<1> DEFINE new == Reconciled(w, i)
<1>1. new \in Row /\ WellFormed(new) /\ new.state # "absent" /\ i \in Issues
  BY ReconciledTyped DEF Accepted
<1>2. Valid(Upserted(i, new))
  BY DEF Accepted
<1>3. rows[i] \in Row /\ WellFormed(rows[i])
  BY <1>1 DEF TypeOK, RowsInv, RowsWellFormed
<1> HIDE DEF new
<1>4. CASE rows[i].state = "absent"
  BY <1>1, <1>4 DEF Upserted, new
<1>5. CASE rows[i].state # "absent"
  <2>1. Upserted(i, new) = [new EXCEPT !.first_seen_at = rows[i].first_seen_at]
    BY <1>5 DEF Upserted
  <2> QED
    <3> DEFINE up == Upserted(i, new)
    <3>1. /\ up \in Row /\ up.state = new.state
          /\ up.first_seen_at = rows[i].first_seen_at
          /\ up.last_seen_at = new.last_seen_at
          /\ up.resolved_at = new.resolved_at
          /\ up.reopen_count = new.reopen_count
          /\ up.occurrence_count = new.occurrence_count
      BY <1>1, <1>3, <2>1 DEF Row
    <3>2. up.first_seen_at <= up.last_seen_at /\ up.first_seen_at # NoTime
      BY <1>2, <1>3, <1>5, <3>1 DEF Valid, WellFormed
    <3>3. up.state # "absent"
      BY <1>1, <3>1
    <3> HIDE DEF up
    <3>4. WellFormed(up)
      BY <1>1, <3>1, <3>2 DEF WellFormed
    <3> QED
      BY <1>1, <3>1, <3>3, <3>4 DEF up, new
<1> QED
  BY <1>4, <1>5 DEF new

-----------------------------------------------------------------------------
\* How the statements of a scan change a thread and the table.
LEMMA ThreadStep ==
    ASSUME TypeOK, RowsInv, NEW w \in Workers, ScanNext(w)
    PROVE  /\ worker' \in WorkerType
           /\ \A v \in Workers \ {w} : worker'[v] = worker[v]
           /\ \A i \in Issues : \/ worker'[w].read[i] = worker[w].read[i]
                                \/ worker'[w].read[i] = rows[i]
                                \/ worker'[w].read[i] = Absent
PROOF
<1> DEFINE Goal ==
      /\ worker' \in WorkerType
      /\ \A v \in Workers \ {w} : worker'[v] = worker[v]
      /\ \A i \in Issues : \/ worker'[w].read[i] = worker[w].read[i]
                           \/ worker'[w].read[i] = rows[i]
                           \/ worker'[w].read[i] = Absent
<1>1. worker \in WorkerType /\ rows \in [Issues -> Row] /\ now \in Instants
  BY DEF TypeOK, WorkerType
<1>2. CASE Collect(w)
  <2>1. PICK account \in Accounts, verdict \in [Issues -> Verdicts] :
          worker' = [worker EXCEPT ![w] =
            [Idle EXCEPT !.step = "read_known", !.account = account,
                         !.at = now, !.verdict = verdict]]
    BY <1>2 DEF Collect
  <2> DEFINE scan == [Idle EXCEPT !.step = "read_known", !.account = account,
                                  !.at = now, !.verdict = verdict]
  <2>2. /\ scan \in [step : {"idle", "read_known", "read_active", "upsert"},
                     account : Accounts, at : Instants,
                     verdict : [Issues -> Verdicts], read : [Issues -> Row]]
        /\ \A i \in Issues : scan.read[i] = Absent
    BY <1>1, DefaultsTyped
  <2> HIDE DEF scan
  <2> QED
    BY <1>1, <2>1, <2>2 DEF WorkerType, scan
<1>3. CASE ReadKnown(w)
  <2> DEFINE seen == [i \in Issues |->
                        IF i \in Failing(w) THEN rows[i] ELSE worker[w].read[i]]
             scan == [worker[w] EXCEPT !.step = "read_active", !.read = seen]
  <2>1. worker' = [worker EXCEPT ![w] = scan]
    BY <1>1, <1>3 DEF ReadKnown, WorkerType
  <2>2. seen \in [Issues -> Row]
    BY <1>1 DEF WorkerType
  <2>3. /\ scan \in [step : {"idle", "read_known", "read_active", "upsert"},
                     account : Accounts, at : Instants,
                     verdict : [Issues -> Verdicts], read : [Issues -> Row]]
        /\ scan.read = seen
    BY <1>1, <2>2 DEF WorkerType
  <2> HIDE DEF scan
  <2> QED
    BY <1>1, <2>1, <2>3 DEF WorkerType
<1>4. CASE ReadActive(w)
  <2> DEFINE seen == [i \in Issues |->
                        IF i \notin Failing(w) /\ rows[i].state \in Active
                        THEN rows[i] ELSE worker[w].read[i]]
             scan == [worker[w] EXCEPT !.step = "upsert", !.read = seen]
  <2>1. worker' = [worker EXCEPT ![w] = scan]
    BY <1>1, <1>4 DEF ReadActive, WorkerType
  <2>2. seen \in [Issues -> Row]
    BY <1>1 DEF WorkerType
  <2>3. /\ scan \in [step : {"idle", "read_known", "read_active", "upsert"},
                     account : Accounts, at : Instants,
                     verdict : [Issues -> Verdicts], read : [Issues -> Row]]
        /\ scan.read = seen
    BY <1>1, <2>2 DEF WorkerType
  <2> HIDE DEF scan
  <2> QED
    BY <1>1, <2>1, <2>3 DEF WorkerType
<1>5. CASE Commit(w)
  BY <1>1, <1>5, DefaultsTyped DEF Commit, WorkerType
<1> QED
  BY <1>2, <1>3, <1>4, <1>5 DEF ScanNext

\* What any step may do to the table.
RowMoves(i) ==
    \/ rows'[i] = rows[i]
    \/ /\ rows'[i] \in Row /\ WellFormed(rows'[i]) /\ rows'[i].state # "absent"
       /\ rows[i].state # "absent" =>
            rows'[i].first_seen_at = rows[i].first_seen_at

LEMMA TableStep ==
    ASSUME TypeOK, RowsInv, [Next]_vars
    PROVE  rows' \in [Issues -> Row] /\ \A i \in Issues : RowMoves(i)
PROOF
<1> DEFINE Goal == rows' \in [Issues -> Row] /\ \A i \in Issues : RowMoves(i)
<1>1. /\ rows \in [Issues -> Row]
      /\ \A i \in Issues : rows[i] \in Row /\ WellFormed(rows[i])
  BY DEF TypeOK, RowsInv, RowsWellFormed
<1>2. CASE UNCHANGED rows
  BY <1>1, <1>2 DEF RowMoves
<1>3. ASSUME NEW w \in Workers, Commit(w) PROVE Goal
  <2>1. CASE /\ Accepted(w)
             /\ rows' = [i \in Issues |-> IF i \in Touched(w)
                                          THEN Upserted(i, Reconciled(w, i))
                                          ELSE rows[i]]
    <3>1. ASSUME NEW i \in Issues PROVE rows'[i] \in Row /\ RowMoves(i)
      <4>1. CASE i \in Touched(w)
        <5>1. rows'[i] = Upserted(i, Reconciled(w, i))
          BY <2>1, <4>1
        <5> QED
          BY <2>1, <4>1, <5>1, UpsertedTyped DEF RowMoves
      <4>2. CASE i \notin Touched(w)
        BY <1>1, <2>1, <4>2 DEF RowMoves
      <4> QED
        BY <4>1, <4>2
    <3>2. rows' \in [Issues -> Row]
      BY <2>1, <3>1
    <3> QED
      BY <3>1, <3>2
  <2> QED
    BY <1>2, <1>3, <2>1 DEF Commit
<1>4. ASSUME NEW j \in Issues, NEW new,
             rows' = [rows EXCEPT ![j] = new], new \in Row, WellFormed(new),
             new.state # "absent", new.first_seen_at = rows[j].first_seen_at
      PROVE  Goal
  BY <1>1, <1>4 DEF RowMoves
<1>5. ASSUME NEW j \in Issues, Suppress(j) PROVE Goal
  <2>1. /\ rows' = [rows EXCEPT ![j] = suppress(rows[j])]
        /\ rows[j].state # "absent"
    BY <1>5 DEF Suppress
  <2>2. /\ suppress(rows[j]).state # "absent"
        /\ suppress(rows[j]).first_seen_at = rows[j].first_seen_at
    BY <1>1 DEF suppress, Row
  <2>3. suppress(rows[j]) \in Row /\ WellFormed(suppress(rows[j]))
    BY <1>1, <2>1, TimesAreNumbers, SuccessorsWellFormed
  <2> QED
    BY <1>4, <2>1, <2>2, <2>3
<1>6. ASSUME NEW j \in Issues, Unsuppress(j) PROVE Goal
  <2>1. /\ rows' = [rows EXCEPT ![j] = unsuppress(rows[j])]
        /\ rows[j].state # "absent"
    BY <1>6 DEF Unsuppress
  <2>2. /\ unsuppress(rows[j]).state # "absent"
        /\ unsuppress(rows[j]).first_seen_at = rows[j].first_seen_at
    BY <1>1 DEF unsuppress, Row
  <2>3. unsuppress(rows[j]) \in Row /\ WellFormed(unsuppress(rows[j]))
    BY <1>1, <2>1, TimesAreNumbers, SuccessorsWellFormed
  <2> QED
    BY <1>4, <2>1, <2>2, <2>3
<1>7. ASSUME NEW w \in Workers, ScanNext(w) PROVE Goal
  BY <1>2, <1>3, <1>7 DEF ScanNext, Collect, ReadKnown, ReadActive
<1>8. CASE Tick \/ UNCHANGED vars
  BY <1>2, <1>8 DEF Tick, vars
<1> QED
  BY <1>5, <1>6, <1>7, <1>8 DEF Next

\* Type correctness, with what the table's rows look like.
LEMMA Inductive ==
    /\ Init => TypeOK /\ RowsInv
    /\ TypeOK /\ RowsInv /\ [Next]_vars => (TypeOK /\ RowsInv)'
PROOF
<1>1. Init => TypeOK /\ RowsInv
  <2> SUFFICES ASSUME Init PROVE TypeOK /\ RowsInv
    OBVIOUS
  <2>1. rows \in [Issues -> Row] /\ worker \in WorkerType
    BY DefaultsTyped DEF Init, WorkerType
  <2>2. \A w \in Workers, i \in Issues : worker[w].read[i] = Absent
    BY DefaultsTyped DEF Init
  <2> QED
    BY <2>1, <2>2, DefaultsTyped, TimesAreNumbers, BoundsAssumption
       DEF Init, TypeOK, WorkerType, RowsInv, RowsWellFormed, Verdicts, States
<1>2. ASSUME TypeOK, RowsInv, [Next]_vars PROVE (TypeOK /\ RowsInv)'
  <2>1. rows' \in [Issues -> Row] /\ \A i \in Issues : RowMoves(i)
    BY <1>2, TableStep
  <2>2. RowsWellFormed'
    BY <1>2, <2>1 DEF RowMoves, RowsInv, RowsWellFormed, WellFormed
  <2>3. /\ worker' \in WorkerType
        /\ \A w \in Workers, i \in Issues : WellFormed(worker'[w].read[i])
    <3>1. CASE UNCHANGED worker
      BY <1>2, <3>1 DEF TypeOK, WorkerType, RowsInv
    <3>2. ASSUME NEW w \in Workers, ScanNext(w)
          PROVE  /\ worker' \in WorkerType
                 /\ \A v \in Workers, i \in Issues :
                      WellFormed(worker'[v].read[i])
      <4>1. ASSUME NEW v \in Workers, NEW i \in Issues
            PROVE  WellFormed(worker'[v].read[i])
        <5>1. CASE v # w
          BY <1>2, <3>2, <5>1, ThreadStep DEF RowsInv
        <5>2. CASE v = w
          BY <1>2, <3>2, <5>2, ThreadStep, DefaultsTyped
             DEF RowsInv, RowsWellFormed
        <5> QED
          BY <5>1, <5>2
      <4> QED
        BY <1>2, <3>2, <4>1, ThreadStep
    <3> QED
      BY <1>2, <3>1, <3>2 DEF Next, Tick, Suppress, Unsuppress, vars
  <2>4. now' = now \/ (now < MaxTime /\ now' = now + 1)
    BY <1>2 DEF Next, Tick, ScanNext, Collect, ReadKnown, ReadActive, Commit,
                Suppress, Unsuppress, vars
  <2>5. /\ scans' = scans \/ (scans < MaxScans /\ scans' = scans + 1)
        /\ \/ suppressions' = suppressions
           \/ /\ suppressions < MaxSuppressions
              /\ suppressions' = suppressions + 1
    BY <1>2 DEF Next, Tick, ScanNext, Collect, ReadKnown, ReadActive, Commit,
                Suppress, Unsuppress, vars, limits
  <2>6. /\ now' \in Instants /\ scans' \in 0 .. MaxScans
        /\ suppressions' \in 0 .. MaxSuppressions
    BY <1>2, <2>4, <2>5, BoundsAssumption DEF TypeOK, Instants
  <2>7. latest' \in [Issues -> Verdicts]
    <3>1. CASE UNCHANGED latest
      BY <1>2, <3>1 DEF TypeOK
    <3>2. ASSUME NEW w \in Workers, Commit(w) PROVE latest' \in [Issues -> Verdicts]
      BY <1>2, <3>1, <3>2 DEF Commit, TypeOK
    <3> QED
      BY <1>2, <3>1, <3>2 DEF Next, Tick, ScanNext, Collect, ReadKnown,
         ReadActive, Suppress, Unsuppress, vars
  <2>8. disturbed' \subseteq Issues
    BY <1>2 DEF TypeOK, Next, Tick, ScanNext, Collect, ReadKnown, ReadActive,
                Commit, Suppress, Unsuppress, vars
  <2> QED
    BY <2>1, <2>2, <2>3, <2>6, <2>7, <2>8 DEF TypeOK, WorkerType, RowsInv
<1> QED
  BY <1>1, <1>2

\* Type correctness of the lifecycle store.
THEOREM TypeCorrect == Spec => []TypeOK
PROOF
  BY Inductive, PTL DEF Spec

\* Rows stay well formed for any number of overlapping scans.
THEOREM AlwaysWellFormed == Spec => []RowsWellFormed
PROOF
<1>1. TypeOK /\ RowsInv => RowsWellFormed
  BY DEF RowsInv
<1> QED
  BY <1>1, Inductive, PTL DEF Spec

\* No step deletes a finding or moves the date it was discovered.
THEOREM DiscoveryPermanent == Spec => DiscoveryIsPermanent
PROOF
<1>1. TypeOK /\ RowsInv /\ [Next]_vars =>
        [\A i \in Issues :
           rows[i].state # "absent" =>
             /\ rows'[i].state # "absent"
             /\ rows'[i].first_seen_at = rows[i].first_seen_at]_vars
  BY TableStep DEF RowMoves
<1> QED
  BY <1>1, Inductive, PTL DEF Spec, DiscoveryIsPermanent

-----------------------------------------------------------------------------
\* A thread has verdicts only on the account it scans.
VerdictInv ==
    \A w \in Workers, i \in Issues :
      worker[w].verdict[i] # "none" => i[1] = worker[w].account

LEMMA VerdictInductive ==
    /\ Init => VerdictInv
    /\ TypeOK /\ RowsInv /\ VerdictInv /\ [Next]_vars => VerdictInv'
PROOF
<1>1. Init => VerdictInv
  BY DEF Init, Idle, VerdictInv
<1>2. ASSUME TypeOK, RowsInv, VerdictInv, [Next]_vars PROVE VerdictInv'
  <2>1. CASE UNCHANGED worker
    BY <1>2, <2>1 DEF VerdictInv
  <2>2. ASSUME NEW w \in Workers, ScanNext(w) PROVE VerdictInv'
    <3>1. worker \in WorkerType
      BY <1>2 DEF TypeOK, WorkerType
    <3>2. ASSUME NEW i \in Issues, worker'[w].verdict[i] # "none"
          PROVE  i[1] = worker'[w].account
      <4>1. CASE Collect(w)
        <5>1. PICK account \in Accounts, covered \in SUBSET Resources,
                   verdict \in [Issues -> Verdicts] :
                /\ \A j \in Issues :
                     verdict[j] # "none" <=> (j[1] = account /\ j[2] \in covered)
                /\ worker' = [worker EXCEPT ![w] =
                     [Idle EXCEPT !.step = "read_known", !.account = account,
                                  !.at = now, !.verdict = verdict]]
          BY <4>1 DEF Collect
        <5>2. worker'[w].account = account /\ worker'[w].verdict = verdict
          BY <3>1, <5>1 DEF WorkerType, Idle
        <5> QED
          BY <3>2, <5>1, <5>2
      <4>2. CASE ReadKnown(w) \/ ReadActive(w)
        BY <1>2, <3>1, <3>2, <4>2 DEF ReadKnown, ReadActive, WorkerType, VerdictInv
      <4>3. CASE Commit(w)
        BY <3>1, <3>2, <4>3 DEF Commit, WorkerType, Idle
      <4> QED
        BY <2>2, <4>1, <4>2, <4>3 DEF ScanNext
    <3> QED
      BY <1>2, <2>2, <3>2, ThreadStep DEF VerdictInv
  <2> QED
    BY <1>2, <2>1, <2>2 DEF Next, Tick, Suppress, Unsuppress, vars
<1> QED
  BY <1>1, <1>2

\* No scan changes a finding of another account, or of a resource it missed.
THEOREM OnlyExamined == Spec => OnlyExaminedChange
PROOF
<1> DEFINE Examined ==
      \A w \in Workers :
        (worker[w].step = "upsert" /\ worker'[w].step = "idle") =>
          \A i \in Issues : rows'[i] # rows[i] =>
            i[1] = worker[w].account /\ worker[w].verdict[i] # "none"
<1>1. ASSUME TypeOK, RowsInv, VerdictInv, [Next]_vars PROVE Examined
  <2> SUFFICES ASSUME NEW w \in Workers, worker[w].step = "upsert",
                      worker'[w].step = "idle", NEW i \in Issues,
                      rows'[i] # rows[i]
               PROVE  i[1] = worker[w].account /\ worker[w].verdict[i] # "none"
    OBVIOUS
  <2>1. PICK v \in Workers : ScanNext(v)
    BY <1>1 DEF Next, Tick, Suppress, Unsuppress, vars
  <2>2. v = w
    BY <1>1, <2>1, ThreadStep
  <2>3. Commit(w)
    BY <2>1, <2>2 DEF ScanNext, Collect, ReadKnown, ReadActive
  <2>4. i \in Touched(w)
    BY <1>1, <2>3 DEF Commit, TypeOK
  <2>5. worker[w].verdict[i] # "none"
    BY <2>4 DEF Touched, Failing, Closing, Covered
  <2> QED
    BY <1>1, <2>5 DEF VerdictInv
<1>2. TypeOK /\ RowsInv /\ VerdictInv /\ [Next]_vars => [Examined]_vars
  BY <1>1
<1> QED
  BY <1>2, Inductive, VerdictInductive, PTL DEF Spec, OnlyExaminedChange

-----------------------------------------------------------------------------
(***************************************************************************)
(* What a thread has read of an account that it has had to itself is what  *)
(* the table still holds, but for what users suppressed meanwhile.         *)
(***************************************************************************)
Alone ==
    \A v, w \in Workers :
      v # w /\ worker[v].step # "idle" /\ worker[w].step # "idle"
        /\ worker[v].account = worker[w].account =>
          \A i \in Issues : i[1] = worker[w].account => i \in disturbed

\* The part of its account's table that a thread has read at each step.
HasRead(w, i) ==
    CASE worker[w].step = "read_known"  -> FALSE
      [] worker[w].step = "read_active" -> worker[w].verdict[i] = "fail"
      [] OTHER -> worker[w].verdict[i] = "fail" \/ rows[i].state \in Active

Current(w, i) ==
    /\ rows[i].last_seen_at <= worker[w].at
    /\ worker[w].read[i] = IF HasRead(w, i) THEN rows[i] ELSE Absent

ReadsCurrent ==
    \A w \in Workers :
      worker[w].step # "idle" =>
        /\ worker[w].at <= now
        /\ \A i \in Issues \ disturbed :
             i[1] = worker[w].account => Current(w, i)

RowInOrder(row, time) ==
    /\ row.state # "suppressed"
    /\ row.state = "absent" => row.reopen_count = 0
    /\ row.last_seen_at <= time
    /\ row.state \in Active => row.resolved_at = NoTime
    /\ row.state = "resolved" =>
         row.last_seen_at <= row.resolved_at /\ row.resolved_at <= time

RowsInOrder == \A i \in Issues \ disturbed : RowInOrder(rows[i], now)

BaseInv   == TypeOK /\ RowsInv /\ VerdictInv
QuietInv == Alone /\ ReadsCurrent /\ RowsInOrder /\ LiveIffLatestFailed

LEMMA BaseInductive ==
    /\ Init => BaseInv
    /\ BaseInv /\ [Next]_vars => BaseInv'
PROOF
  BY Inductive, VerdictInductive DEF BaseInv

\* What a stored verdict makes of a row, as the ledger tells it.
Successor(row, verdict, at, new) ==
    CASE verdict = "fail" ->
           /\ new.state = Ledger!Seen(row.state)
           /\ new.last_seen_at = at /\ new.resolved_at = NoTime
           /\ new.reopen_count = IF row.state = "resolved"
                                 THEN row.reopen_count + 1
                                 ELSE row.reopen_count
      [] verdict \notin {"fail", "none"} /\ row.state \in Active ->
           /\ new.state = "resolved" /\ new.resolved_at = at
           /\ new.last_seen_at = row.last_seen_at
           /\ new.reopen_count = row.reopen_count
      [] OTHER -> new = row

\* A commit that is accepted.
Stores(w) ==
    /\ Accepted(w)
    /\ rows' = [i \in Issues |-> IF i \in Touched(w)
                                 THEN Upserted(i, Reconciled(w, i))
                                 ELSE rows[i]]
    /\ latest' = [i \in Issues |-> IF i \in Covered(w)
                                   THEN worker[w].verdict[i] ELSE latest[i]]

LEMMA StoredRow ==
    ASSUME BaseInv, QuietInv, NEW w \in Workers, worker[w].step = "upsert",
           Stores(w), NEW i \in Issues \ disturbed
    PROVE  Successor(rows[i], worker[w].verdict[i], worker[w].at, rows'[i])
PROOF
<1> DEFINE row     == rows[i]
           read    == worker[w].read[i]
           verdict == worker[w].verdict[i]
           at      == worker[w].at
<1>1. /\ row \in Row /\ read \in Row /\ at \in Instants
      /\ verdict \in Verdicts /\ RowInOrder(row, now)
  BY DEF BaseInv, TypeOK, QuietInv, RowsInOrder
<1>2. rows'[i] = IF i \in Touched(w) THEN Upserted(i, Reconciled(w, i)) ELSE row
  BY DEF Stores
<1>3. verdict # "none" =>
        read = IF verdict = "fail" \/ row.state \in Active THEN row ELSE Absent
  BY DEF BaseInv, VerdictInv, QuietInv, ReadsCurrent, Current, HasRead
<1>4. i \in Failing(w) <=> verdict = "fail"
  BY DEF Failing
<1>5. i \in Closing(w) <=>
        verdict \notin {"fail", "none"} /\ row.state \in Active
  BY <1>3, <1>4 DEF Closing, Covered, Absent, Active
<1>6. CASE verdict = "fail" /\ row.state = "absent"
  <2>1. rows'[i] = first_observation(at)
    BY <1>2, <1>3, <1>4, <1>5, <1>6 DEF Touched, Reconciled, Upserted
  <2> QED
    BY <1>1, <1>6, <2>1
       DEF Successor, first_observation, RowInOrder, Ledger!Seen
<1>7. CASE verdict = "fail" /\ row.state # "absent"
  <2>1. rows'[i] = [observed_again(row, at) EXCEPT
                      !.first_seen_at = row.first_seen_at]
    BY <1>2, <1>3, <1>4, <1>5, <1>7 DEF Touched, Reconciled, Upserted
  <2>2. CASE row.state = "resolved"
    BY <1>1, <1>7, <2>1, <2>2 DEF Successor, observed_again, Ledger!Seen, Row
  <2>3. CASE row.state # "resolved"
    <3>1. row.state \in Active
      BY <1>1, <1>7, <2>3 DEF Row, States, RowInOrder
    <3>2. row.resolved_at = NoTime
      BY <1>1, <3>1 DEF RowInOrder
    <3> QED
      BY <1>1, <1>7, <2>1, <2>3, <3>2
         DEF Successor, observed_again, Ledger!Seen, Row
  <2> QED
    BY <2>2, <2>3
<1>8. CASE verdict \notin {"fail", "none"} /\ row.state \in Active
  <2>1. rows'[i] = [resolve(row, at) EXCEPT
                      !.first_seen_at = row.first_seen_at]
    BY <1>2, <1>3, <1>4, <1>5, <1>8
       DEF Touched, Reconciled, Upserted, Active
  <2> QED
    BY <1>1, <1>8, <2>1 DEF Successor, resolve, Row
<1>9. CASE verdict # "fail" /\ ~(verdict # "none" /\ row.state \in Active)
  BY <1>2, <1>4, <1>5, <1>9 DEF Touched, Successor
<1> QED
  BY <1>6, <1>7, <1>8, <1>9

\* A row that follows another one in the ledger is still in order.
LEMMA SuccessorInOrder ==
    ASSUME NEW row \in Row, NEW new \in Row, NEW at \in Instants,
           NEW time \in Instants, NEW verdict \in Verdicts,
           at <= time, row.last_seen_at <= at, RowInOrder(row, time),
           Successor(row, verdict, at, new)
    PROVE  /\ RowInOrder(new, time)
           /\ verdict # "none" =>
                (new.state \in Active <=> verdict = "fail")
PROOF
<1> USE TimesAreNumbers DEF Row
<1>1. CASE verdict = "fail"
  <2>1. new.state \in Active
    BY <1>1 DEF Successor, Ledger!Seen, RowInOrder, States, Active
  <2> QED
    BY <1>1, <2>1 DEF Successor, RowInOrder, Active
<1>2. CASE verdict \notin {"fail", "none"} /\ row.state \in Active
  BY <1>2 DEF Successor, RowInOrder, Active
<1>3. CASE verdict # "fail" /\ ~(verdict # "none" /\ row.state \in Active)
  BY <1>3 DEF Successor
<1> QED
  BY <1>1, <1>2, <1>3

LEMMA QuietInit == Init => QuietInv
PROOF
<1> SUFFICES ASSUME Init PROVE QuietInv
  OBVIOUS
<1>1. Alone /\ ReadsCurrent
  BY DefaultsTyped DEF Init, Alone, ReadsCurrent
<1>2. RowsInOrder
  BY TimesAreNumbers DEF Init, RowsInOrder, RowInOrder, Absent, Active, NoTime
<1>3. LiveIffLatestFailed
  BY DEF Init, LiveIffLatestFailed, Ledger!LiveIffLatestFailed, Ledger!Active,
         Absent
<1> QED
  BY <1>1, <1>2, <1>3 DEF QuietInv

\* A scan begins alone in its account, and a thread that does not begin one
\* keeps the account it is in or leaves it.
LEMMA StaysAlone ==
    ASSUME BaseInv, QuietInv, NEW w \in Workers, ScanNext(w)
    PROVE  Alone'
PROOF
<1>1. worker \in WorkerType /\ worker' \in WorkerType
      /\ \A v \in Workers \ {w} : worker'[v] = worker[v]
  BY ThreadStep DEF BaseInv, TypeOK, WorkerType
<1>2. CASE Collect(w)
  <2>1. PICK account \in Accounts, verdict \in [Issues -> Verdicts] :
          /\ disturbed' = IF Elsewhere(w, account) THEN disturbed
                          ELSE disturbed \union {i \in Issues : i[1] = account}
          /\ worker' = [worker EXCEPT ![w] =
               [Idle EXCEPT !.step = "read_known", !.account = account,
                            !.at = now, !.verdict = verdict]]
    BY <1>2 DEF Collect
  <2>2. worker'[w].account = account
    BY <1>1, <2>1 DEF WorkerType, Idle
  <2>3. CASE Elsewhere(w, account)
    BY <1>1, <2>1, <2>2, <2>3 DEF QuietInv, Alone, Elsewhere
  <2>4. CASE ~Elsewhere(w, account)
    BY <1>1, <2>1, <2>2, <2>4 DEF QuietInv, Alone
  <2> QED
    BY <2>3, <2>4
<1>3. CASE ReadKnown(w) \/ ReadActive(w)
  <2>1. /\ worker'[w].account = worker[w].account /\ worker[w].step # "idle"
        /\ disturbed' = disturbed
    BY <1>1, <1>3 DEF ReadKnown, ReadActive, WorkerType
  <2> QED
    BY <1>1, <2>1 DEF QuietInv, Alone
<1>4. CASE Commit(w)
  <2>1. worker'[w].step = "idle" /\ disturbed' = disturbed
    BY <1>1, <1>4, DefaultsTyped DEF Commit, WorkerType
  <2> QED
    BY <1>1, <2>1 DEF QuietInv, Alone
<1> QED
  BY <1>2, <1>3, <1>4 DEF ScanNext

\* A thread that stores something changes no row of another one's account.
LEMMA StoresWithinAccount ==
    ASSUME BaseInv, NEW w \in Workers, Stores(w), NEW i \in Issues,
           i[1] # worker[w].account
    PROVE  rows'[i] = rows[i] /\ latest'[i] = latest[i]
PROOF
<1>1. worker[w].verdict[i] = "none"
  BY DEF BaseInv, VerdictInv
<1> QED
  BY <1>1 DEF Stores, Touched, Failing, Closing, Covered

\* What a thread has read stays current until it commits.
LEMMA StaysCurrent ==
    ASSUME BaseInv, QuietInv, NEW w \in Workers, ScanNext(w)
    PROVE  ReadsCurrent'
PROOF
<1>1. /\ worker \in WorkerType /\ worker' \in WorkerType
      /\ rows \in [Issues -> Row] /\ now \in Instants
      /\ \A v \in Workers \ {w} : worker'[v] = worker[v]
  BY ThreadStep DEF BaseInv, TypeOK, WorkerType
<1> SUFFICES ASSUME NEW v \in Workers, worker'[v].step # "idle"
             PROVE  /\ worker'[v].at <= now'
                    /\ \A i \in Issues \ disturbed' :
                         i[1] = worker'[v].account => Current(v, i)'
  BY DEF ReadsCurrent
<1>2. now' = now /\ disturbed \subseteq disturbed'
  BY DEF ScanNext, Collect, ReadKnown, ReadActive, Commit
<1>3. CASE v # w
  <2>1. worker'[v] = worker[v] /\ worker[v].step # "idle"
    BY <1>1, <1>3
  <2>2. worker[v].at <= now'
    BY <1>2, <2>1 DEF QuietInv, ReadsCurrent
  <2>3. ASSUME NEW i \in Issues \ disturbed, i[1] = worker[v].account
        PROVE  rows'[i] = rows[i]
    <3>1. CASE UNCHANGED rows
      BY <3>1
    <3>2. CASE Commit(w) /\ Stores(w)
      <4>1. worker[w].account # worker[v].account
        BY <1>3, <2>1, <2>3, <3>2 DEF QuietInv, Alone, Commit
      <4> QED
        BY <2>3, <3>2, <4>1, StoresWithinAccount
    <3> QED
      BY <3>1, <3>2 DEF ScanNext, Collect, ReadKnown, ReadActive, Commit, Stores
  <2> QED
    BY <1>2, <2>1, <2>2, <2>3 DEF QuietInv, ReadsCurrent, Current, HasRead
<1>4. CASE v = w /\ Collect(w)
  <2>1. /\ worker'[w].step = "read_known" /\ worker'[w].at = now
        /\ worker'[w].read = [i \in Issues |-> Absent] /\ rows' = rows
    BY <1>1, <1>4, DefaultsTyped DEF Collect, WorkerType
  <2> SUFFICES ASSUME NEW i \in Issues \ disturbed PROVE Current(w, i)'
    BY <1>1, <1>2, <1>4, <2>1, TimesAreNumbers
  <2>2. rows[i].last_seen_at <= now
    BY DEF QuietInv, RowsInOrder, RowInOrder
  <2>3. ~HasRead(w, i)'
    BY <2>1 DEF HasRead
  <2> QED
    BY <2>1, <2>2, <2>3 DEF Current
<1>5. CASE v = w /\ (ReadKnown(w) \/ ReadActive(w))
  <2>1. /\ rows' = rows /\ worker[w].step # "idle"
        /\ worker'[w].at = worker[w].at
        /\ worker'[w].account = worker[w].account
        /\ worker'[w].verdict = worker[w].verdict
    BY <1>1, <1>5 DEF ReadKnown, ReadActive, WorkerType
  <2>2. ASSUME NEW i \in Issues \ disturbed, i[1] = worker[w].account
        PROVE  Current(w, i)'
    <3>1. Current(w, i)
      BY <2>1, <2>2 DEF QuietInv, ReadsCurrent
    <3>2. CASE ReadKnown(w)
      <4>1. /\ worker[w].step = "read_known"
            /\ worker'[w].step = "read_active"
            /\ worker'[w].read[i] = IF worker[w].verdict[i] = "fail"
                                    THEN rows[i] ELSE worker[w].read[i]
        <5> DEFINE seen == [j \in Issues |-> IF j \in Failing(w) THEN rows[j]
                                             ELSE worker[w].read[j]]
                   scan == [worker[w] EXCEPT !.step = "read_active",
                                             !.read = seen]
        <5>1. /\ worker[w].step = "read_known"
              /\ worker' = [worker EXCEPT ![w] = scan]
          BY <1>1, <3>2 DEF ReadKnown, WorkerType
        <5>2. scan.step = "read_active" /\ scan.read = seen
          BY <1>1 DEF WorkerType
        <5> HIDE DEF scan
        <5> QED
          BY <1>1, <5>1, <5>2 DEF WorkerType, Failing
      <4> QED
        BY <2>1, <3>1, <4>1 DEF Current, HasRead
    <3>3. CASE ReadActive(w)
      <4>1. /\ worker[w].step = "read_active"
            /\ worker'[w].step = "upsert"
            /\ worker'[w].read[i] =
                 IF worker[w].verdict[i] # "fail" /\ rows[i].state \in Active
                 THEN rows[i] ELSE worker[w].read[i]
        <5> DEFINE seen == [j \in Issues |->
                              IF j \notin Failing(w) /\ rows[j].state \in Active
                              THEN rows[j] ELSE worker[w].read[j]]
                   scan == [worker[w] EXCEPT !.step = "upsert", !.read = seen]
        <5>1. /\ worker[w].step = "read_active"
              /\ worker' = [worker EXCEPT ![w] = scan]
          BY <1>1, <3>3 DEF ReadActive, WorkerType
        <5>2. scan.step = "upsert" /\ scan.read = seen
          BY <1>1 DEF WorkerType
        <5> HIDE DEF scan
        <5> QED
          BY <1>1, <5>1, <5>2 DEF WorkerType, Failing
      <4> QED
        BY <2>1, <3>1, <4>1 DEF Current, HasRead
    <3> QED
      BY <1>5, <3>2, <3>3
  <2> QED
    BY <1>2, <1>5, <2>1, <2>2 DEF QuietInv, ReadsCurrent
<1>6. CASE v = w /\ Commit(w)
  BY <1>1, <1>6, DefaultsTyped DEF Commit, WorkerType
<1> QED
  BY <1>3, <1>4, <1>5, <1>6 DEF ScanNext

\* The rows of one scan: each follows its predecessor, none is out of order,
\* and the live ones are the failing ones.
LEMMA StoredInOrder ==
    ASSUME BaseInv, BaseInv', QuietInv, NEW w \in Workers, Commit(w), Stores(w)
    PROVE  RowsInOrder' /\ LiveIffLatestFailed'
PROOF
<1> SUFFICES ASSUME NEW i \in Issues \ disturbed
             PROVE  /\ RowInOrder(rows'[i], now)
                    /\ rows'[i].state \in Active <=> latest'[i] = "fail"
  BY DEF RowsInOrder, LiveIffLatestFailed, Ledger!LiveIffLatestFailed,
         Ledger!Active, Active, Commit
<1>1. /\ rows[i] \in Row /\ rows'[i] \in Row /\ now \in Instants
      /\ worker[w].at \in Instants /\ worker[w].verdict[i] \in Verdicts
  BY DEF BaseInv, TypeOK
<1>2. RowInOrder(rows[i], now)
  BY DEF QuietInv, RowsInOrder
<1>3. rows[i].state \in Active <=> latest[i] = "fail"
  <2>1. rows[i].state # "forfeit"
    BY <1>1 DEF Row, States, Active
  <2> QED
    BY <2>1 DEF QuietInv, LiveIffLatestFailed, Ledger!LiveIffLatestFailed,
                Ledger!Active, Active
<1>4. latest'[i] = IF worker[w].verdict[i] = "none" THEN latest[i]
                   ELSE worker[w].verdict[i]
  BY DEF Stores, Covered, BaseInv, TypeOK
<1>5. CASE i[1] = worker[w].account
  <2>1. worker[w].at <= now /\ rows[i].last_seen_at <= worker[w].at
    BY <1>5 DEF QuietInv, ReadsCurrent, Current, Commit
  <2>2. Successor(rows[i], worker[w].verdict[i], worker[w].at, rows'[i])
    BY StoredRow DEF Commit
  <2>3. CASE worker[w].verdict[i] # "none"
    BY <1>1, <1>2, <1>4, <2>1, <2>2, <2>3, SuccessorInOrder
  <2>4. CASE worker[w].verdict[i] = "none"
    <3>1. rows'[i] = rows[i]
      BY <2>2, <2>4 DEF Successor
    <3> QED
      BY <1>2, <1>3, <1>4, <2>4, <3>1
  <2> QED
    BY <2>3, <2>4
<1>6. CASE i[1] # worker[w].account
  BY <1>2, <1>3, <1>6, StoresWithinAccount
<1> QED
  BY <1>5, <1>6

\* A user's step changes only rows that are, or become, disturbed.
LEMMA UserStep ==
    ASSUME BaseInv, QuietInv, NEW j \in Issues, Suppress(j) \/ Unsuppress(j)
    PROVE  /\ UNCHANGED <<now, worker, latest>>
           /\ disturbed \subseteq disturbed' /\ disturbed' \subseteq Issues
           /\ \A i \in Issues \ disturbed' : rows'[i] = rows[i]
PROOF
<1>1. rows \in [Issues -> Row] /\ disturbed \subseteq Issues
  BY DEF BaseInv, TypeOK
<1>2. CASE Suppress(j)
  BY <1>1, <1>2 DEF Suppress
<1>3. CASE Unsuppress(j)
  <2>1. j \in disturbed
    BY <1>3 DEF Unsuppress, QuietInv, RowsInOrder, RowInOrder
  <2> QED
    BY <1>1, <1>3, <2>1 DEF Unsuppress
<1> QED
  BY <1>2, <1>3

LEMMA QuietInductive ==
    BaseInv /\ QuietInv /\ [Next]_vars => QuietInv'
PROOF
<1> SUFFICES ASSUME BaseInv, QuietInv, [Next]_vars PROVE QuietInv'
  OBVIOUS
<1>1. BaseInv'
  BY BaseInductive
<1>2. CASE Tick
  <2>1. RowsInOrder'
    <3>1. now \in Instants /\ now' = now + 1 /\ rows' = rows
      BY <1>2 DEF Tick, BaseInv, TypeOK
    <3> SUFFICES ASSUME NEW i \in Issues \ disturbed
                 PROVE  RowInOrder(rows[i], now')
      BY <1>2, <3>1 DEF RowsInOrder, Tick
    <3>2. rows[i] \in Row /\ RowInOrder(rows[i], now)
      BY DEF BaseInv, TypeOK, QuietInv, RowsInOrder
    <3>3. /\ rows[i].last_seen_at \in Int /\ rows[i].resolved_at \in Int
          /\ now \in Int
      BY <3>1, <3>2, TimesAreNumbers DEF Row
    <3> QED
      BY <3>1, <3>2, <3>3 DEF RowInOrder
  <2>2. ReadsCurrent'
    <3>1. \A w \in Workers : worker[w].at \in Int
      BY TimesAreNumbers DEF BaseInv, TypeOK
    <3>2. now \in Int
      BY TimesAreNumbers DEF BaseInv, TypeOK
    <3> QED
      BY <1>2, <3>1, <3>2
         DEF Tick, QuietInv, ReadsCurrent, Current, HasRead
  <2>3. Alone' /\ LiveIffLatestFailed'
    BY <1>2 DEF Tick, QuietInv, Alone, LiveIffLatestFailed,
                Ledger!LiveIffLatestFailed
  <2> QED
    BY <2>1, <2>2, <2>3 DEF QuietInv
<1>3. ASSUME NEW w \in Workers, ScanNext(w) PROVE QuietInv'
  <2>1. Alone' /\ ReadsCurrent'
    BY <1>3, StaysAlone, StaysCurrent
  <2>2. CASE UNCHANGED <<rows, latest, now>> /\ disturbed \subseteq disturbed'
    BY <2>1, <2>2 DEF QuietInv, RowsInOrder, LiveIffLatestFailed,
                      Ledger!LiveIffLatestFailed, Ledger!Active
  <2>3. CASE Commit(w) /\ Stores(w)
    BY <1>1, <2>1, <2>3, StoredInOrder DEF QuietInv
  <2> QED
    BY <1>3, <2>2, <2>3
       DEF ScanNext, Collect, ReadKnown, ReadActive, Commit, Stores
<1>4. CASE UNCHANGED vars
  BY <1>4 DEF vars, QuietInv, Alone, ReadsCurrent, Current, HasRead,
              RowsInOrder, LiveIffLatestFailed, Ledger!LiveIffLatestFailed
<1>5. ASSUME NEW j \in Issues, Suppress(j) \/ Unsuppress(j) PROVE QuietInv'
  <2>1. /\ UNCHANGED <<now, worker, latest>>
        /\ disturbed \subseteq disturbed' /\ disturbed' \subseteq Issues
        /\ \A i \in Issues \ disturbed' : rows'[i] = rows[i]
    BY <1>5, UserStep
  <2>2. Alone'
    BY <2>1 DEF QuietInv, Alone
  <2>3. ReadsCurrent'
    BY <2>1 DEF QuietInv, ReadsCurrent, Current, HasRead
  <2>4. RowsInOrder'
    BY <2>1 DEF QuietInv, RowsInOrder
  <2>5. LiveIffLatestFailed'
    BY <2>1 DEF QuietInv, LiveIffLatestFailed, Ledger!LiveIffLatestFailed,
                Ledger!Active
  <2> QED
    BY <2>2, <2>3, <2>4, <2>5 DEF QuietInv
<1> QED
  BY <1>2, <1>3, <1>4, <1>5 DEF Next

LEMMA QuietInvariant ==
    Spec => [](BaseInv /\ QuietInv)
PROOF
<1>1. Init => BaseInv /\ QuietInv
  BY BaseInductive, QuietInit
<1>2. BaseInv /\ QuietInv /\ [Next]_vars => (BaseInv /\ QuietInv)'
  BY BaseInductive, QuietInductive
<1> QED
  BY <1>1, <1>2, PTL DEF Spec

\* The times of a row that no two have worked on at once tell a possible story:
\* discovered, last seen, then fixed, and no time of a fix while it is live.
THEOREM TimelineKept == Spec => []TimelineInOrder
PROOF
<1>1. BaseInv /\ QuietInv => TimelineInOrder
  BY DEF QuietInv, RowsInOrder, RowInOrder, TimelineInOrder
<1> QED
  BY <1>1, QuietInvariant, PTL

\* A finding that no two have worked on at once is live exactly when the last
\* stored scan that looked at it saw it fail.
THEOREM LiveFollowsLatest == Spec => []LiveIffLatestFailed
PROOF
<1>1. BaseInv /\ QuietInv => LiveIffLatestFailed
  BY DEF QuietInv
<1> QED
  BY <1>1, QuietInvariant, PTL

-----------------------------------------------------------------------------
\* A commit that is accepted is one step of the ledger, with the verdicts the
\* scan collected three statements ago.
LEMMA StoresIsScan ==
    ASSUME BaseInv, BaseInv', QuietInv, NEW w \in Workers, Commit(w), Stores(w)
    PROVE  Ledger!Next
PROOF
<1> DEFINE states   == [i \in Issues |-> IF i \in disturbed THEN "forfeit"
                                        ELSE rows[i].state]
           reopened == [i \in Issues |-> IF i \in disturbed THEN 0
                                        ELSE rows[i].reopen_count]
<1>1. PICK verdict \in [Issues -> Verdicts] : verdict = worker[w].verdict
  BY DEF BaseInv, TypeOK
<1>2. disturbed' = disturbed
  BY DEF Commit
<1>3. ASSUME NEW i \in Issues
      PROVE  /\ states'[i] =
                  CASE verdict[i] = "fail" -> Ledger!Seen(states[i])
                    [] /\ verdict[i] \notin {"fail", "none"}
                       /\ states[i] \in Ledger!Active -> "resolved"
                    [] OTHER -> states[i]
             /\ reopened'[i] =
                  IF verdict[i] = "fail" /\ states[i] = "resolved"
                  THEN reopened[i] + 1 ELSE reopened[i]
  <2>1. CASE i \in disturbed
    BY <1>2, <2>1 DEF Ledger!Seen, Ledger!Active
  <2>2. CASE i \notin disturbed
    <3>1. Successor(rows[i], verdict[i], worker[w].at, rows'[i])
      BY <1>1, <2>2, StoredRow DEF Commit
    <3>2. /\ states[i] = rows[i].state /\ states'[i] = rows'[i].state
          /\ reopened[i] = rows[i].reopen_count
          /\ reopened'[i] = rows'[i].reopen_count
      BY <1>2, <2>2
    <3>3. rows[i].state \in Ledger!Active <=> rows[i].state \in Active
      BY DEF Ledger!Active, Active
    <3>4. rows[i].state \in Active => rows[i].state # "resolved"
      BY DEF Active
    <3> HIDE DEF states, reopened
    <3>5. CASE verdict[i] = "fail"
      BY <3>1, <3>2, <3>5 DEF Successor
    <3>6. CASE verdict[i] \notin {"fail", "none"} /\ rows[i].state \in Active
      BY <3>1, <3>2, <3>3, <3>6 DEF Successor
    <3>7. CASE /\ verdict[i] # "fail"
               /\ ~(verdict[i] # "none" /\ rows[i].state \in Active)
      BY <3>1, <3>2, <3>3, <3>7 DEF Successor
    <3> QED
      BY <3>5, <3>6, <3>7
  <2> QED
    BY <2>1, <2>2
<1>4. latest' = [i \in Issues |-> IF verdict[i] = "none" THEN latest[i]
                                  ELSE verdict[i]]
  BY <1>1 DEF Stores, Covered
<1>5. Ledger!Scan(verdict)
  BY <1>3, <1>4 DEF Ledger!Scan
<1> QED
  BY <1>1, <1>5 DEF Ledger!Next

\* Any other step leaves the ledger alone, but for what it gives up.
LEMMA OtherwiseForfeits ==
    ASSUME latest' = latest, disturbed \subseteq disturbed',
           disturbed' \subseteq Issues,
           \A i \in Issues \ disturbed' : rows'[i] = rows[i]
    PROVE  Ledger!Next
PROOF
<1>1. PICK lost \in SUBSET Issues : lost = disturbed'
  OBVIOUS
<1>2. Ledger!Forfeit(lost)
  BY <1>1 DEF Ledger!Forfeit
<1> QED
  BY <1>1, <1>2 DEF Ledger!Next

\* A scan that reads and writes in three statements, with other scans between
\* them, is a scan that happens in one step, or not at all, for every finding
\* but those that another thread or a user works on meanwhile.
THEOREM Refinement == Spec => ImplementsLedger
PROOF
<1> DEFINE states   == [i \in Issues |-> IF i \in disturbed THEN "forfeit"
                                        ELSE rows[i].state]
           reopened == [i \in Issues |-> IF i \in disturbed THEN 0
                                        ELSE rows[i].reopen_count]
<1>1. Init => Ledger!Init
  BY DEF Init, Ledger!Init, Absent
<1>2. BaseInv /\ BaseInv' /\ QuietInv /\ [Next]_vars
        => [Ledger!Next]_<<states, reopened, latest>>
  <2> SUFFICES ASSUME BaseInv, BaseInv', QuietInv, [Next]_vars
               PROVE  Ledger!Next
    OBVIOUS
  <2>1. disturbed' \subseteq Issues
    BY DEF BaseInv, TypeOK
  <2>2. ASSUME NEW w \in Workers, ScanNext(w) PROVE Ledger!Next
    <3>1. CASE Commit(w) /\ Stores(w)
      BY <3>1, StoresIsScan
    <3>2. CASE UNCHANGED <<rows, latest>> /\ disturbed \subseteq disturbed'
      BY <2>1, <3>2, OtherwiseForfeits
    <3> QED
      BY <2>2, <3>1, <3>2
         DEF ScanNext, Collect, ReadKnown, ReadActive, Commit, Stores
  <2>3. ASSUME NEW j \in Issues, Suppress(j) \/ Unsuppress(j) PROVE Ledger!Next
    BY <2>1, <2>3, UserStep, OtherwiseForfeits
  <2>4. CASE Tick \/ UNCHANGED vars
    BY <2>1, <2>4, OtherwiseForfeits DEF Tick, vars
  <2> QED
    BY <2>2, <2>3, <2>4 DEF Next
<1>3. BaseInv /\ QuietInv => BaseInv
  OBVIOUS
<1> QED
  BY <1>1, <1>2, QuietInvariant, PTL DEF Spec, ImplementsLedger, Ledger!Spec
=============================================================================
