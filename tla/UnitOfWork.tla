----------------------------- MODULE UnitOfWork -----------------------------
(***************************************************************************)
(* PostgresUnitOfWork: a with block opens a database session, hands the    *)
(* repositories bound to it to the block, and on exit rolls back unless    *)
(* the block called commit.  The session lives in a field of the object,   *)
(* so what a block does goes to whatever session the object holds then.    *)
(*                                                                         *)
(* Use cases keep one object for all their calls, and one worker serves    *)
(* all threads of the job runner: blocks of one unit run one after the     *)
(* other, as its documentation has it, or at the same time.                *)
(***************************************************************************)
CONSTANTS Blocks, Units, UnitOf,   \* each block uses one unit
          Parts,                   \* what each block writes, part by part
          NoSession

\* A session is named after the block that opened it.
ASSUME UnitAssumption ==
    /\ UnitOf \in [Blocks -> Units] /\ NoSession \notin Blocks

VARIABLES session,    \* _session of each unit
          scans,      \* the session the unit's repositories write to
          pending,    \* the uncommitted writes of each session
          written,    \* the parts each block has written
          step,       \* of each block
          db,         \* the writes that are durable
          overlapped  \* the blocks that another one got in the way of

unit == <<session, scans>>
vars == <<unit, pending, written, step, db, overlapped>>

Steps == {"outside", "opened", "inside", "leaving", "raising",
          "done", "failed"}
Using == {"opened", "inside", "leaving", "raising"}

Init ==
    /\ session = [u \in Units |-> NoSession]
    /\ scans = [u \in Units |-> NoSession]
    /\ pending = [b \in Blocks |-> {}]
    /\ written = [b \in Blocks |-> {}]
    /\ step = [b \in Blocks |-> "outside"]
    /\ db = {} /\ overlapped = {}

Goto(b, s) == step' = [step EXCEPT ![b] = s]

\* The blocks that use the unit of b when b enters it.
Sharing(b) == {c \in Blocks \ {b} : UnitOf[c] = UnitOf[b] /\ step[c] \in Using}

\* A block that enters a unit in use is exposed to the others, and they to
\* it, unless all that is left to them is to leave.
Exposed(b) ==
    IF Sharing(b) = {} THEN {}
    ELSE {b} \union {c \in Sharing(b) : step[c] # "leaving"}

\* Variant: one session for the life of a unit.
EnterCached(b) ==
    /\ step[b] = "outside" /\ Goto(b, "opened")
    /\ session' = [session EXCEPT ![UnitOf[b]] = UnitOf[b]]
    /\ overlapped' = overlapped \union Exposed(b)
    /\ UNCHANGED <<scans, pending, written, db>>

\* __enter__, first half: a fresh session, whoever uses the unit.
Enter(b) ==
    /\ step[b] = "outside" /\ Goto(b, "opened")
    /\ session' = [session EXCEPT ![UnitOf[b]] = b]
    /\ overlapped' = overlapped \union Exposed(b)
    /\ UNCHANGED <<scans, pending, written, db>>

\* Variant: repositories are made only once.
BindOnce(b) ==
    /\ step[b] = "opened" /\ Goto(b, "inside")
    /\ scans' = [scans EXCEPT ![UnitOf[b]] =
                   IF @ = NoSession THEN session[UnitOf[b]] ELSE @]
    /\ UNCHANGED <<session, pending, written, db, overlapped>>

\* __enter__, second half: every repository is built on self._session.
Bind(b) ==
    /\ step[b] = "opened" /\ Goto(b, "inside")
    /\ scans' = [scans EXCEPT ![UnitOf[b]] = session[UnitOf[b]]]
    /\ UNCHANGED <<session, pending, written, db, overlapped>>

\* A repository statement; a session that was closed begins anew.
Write(b, part) ==
    /\ step[b] = "inside" /\ part \in Parts \ written[b]
    /\ scans[UnitOf[b]] # NoSession
    /\ pending' = [pending EXCEPT ![scans[UnitOf[b]]] = @ \union {<<b, part>>}]
    /\ written' = [written EXCEPT ![b] = @ \union {part}]
    /\ UNCHANGED <<unit, step, db, overlapped>>

\* commit() raises when the unit has no session.
Commit(b) ==
    /\ step[b] = "inside" /\ written[b] = Parts
    /\ LET s == session[UnitOf[b]]
       IN  IF s # NoSession
           THEN /\ db' = db \union pending[s]
                /\ pending' = [pending EXCEPT ![s] = {}]
                /\ Goto(b, "leaving")
           ELSE /\ Goto(b, "raising")
                /\ UNCHANGED <<db, pending>>
    /\ UNCHANGED <<session, scans, written, overlapped>>

\* An exception, a commit the database refuses, or an early return.
Abandon(b) ==
    /\ step[b] = "inside" /\ Goto(b, "raising")
    /\ UNCHANGED <<unit, pending, written, db, overlapped>>

\* Variant: a clean exit commits what the block forgot to commit.
LeaveCommitting(b) ==
    /\ step[b] \in {"leaving", "raising"}
    /\ Goto(b, IF step[b] = "leaving" THEN "done" ELSE "failed")
    /\ LET s == session[UnitOf[b]]
       IN  IF s = NoSession THEN UNCHANGED <<db, pending>>
           ELSE /\ db' = db \union pending[s]
                /\ pending' = [pending EXCEPT ![s] = {}]
    /\ session' = [session EXCEPT ![UnitOf[b]] = NoSession]
    /\ UNCHANGED <<scans, written, overlapped>>

\* Variant: the session is dropped without being rolled back or closed.
LeaveOpen(b) ==
    /\ step[b] \in {"leaving", "raising"}
    /\ Goto(b, IF step[b] = "leaving" THEN "done" ELSE "failed")
    /\ session' = [session EXCEPT ![UnitOf[b]] = NoSession]
    /\ UNCHANGED <<scans, pending, written, db, overlapped>>

\* __exit__: roll back unless committed, then close; closing a session rolls
\* back too, so that the flag _committed decides nothing and is left out.
Leave(b) ==
    /\ step[b] \in {"leaving", "raising"}
    /\ Goto(b, IF step[b] = "leaving" THEN "done" ELSE "failed")
    /\ pending' = [c \in Blocks |-> IF c = session[UnitOf[b]] THEN {}
                                    ELSE pending[c]]
    /\ session' = [session EXCEPT ![UnitOf[b]] = NoSession]
    /\ UNCHANGED <<scans, written, db, overlapped>>

\* A restart: the database rolls back what was not committed.
Crash ==
    /\ step' = [b \in Blocks |->
                  CASE step[b] = "leaving"          -> "done"
                    [] step[b] \in Using \ {"leaving"} -> "failed"
                    [] OTHER                        -> step[b]]
    /\ session' = [u \in Units |-> NoSession]
    /\ scans' = [u \in Units |-> NoSession]
    /\ pending' = [b \in Blocks |-> {}]
    /\ UNCHANGED <<written, db, overlapped>>

BlockNext(b) ==
    \/ Enter(b) \/ Bind(b) \/ (\E part \in Parts : Write(b, part))
    \/ Commit(b) \/ Abandon(b) \/ Leave(b)

Next == (\E b \in Blocks : BlockNext(b)) \/ Crash

Spec == Init /\ [][Next]_vars

(***************************************************************************)
(* Properties.                                                             *)
(***************************************************************************)

TypeOK ==
    /\ session \in [Units -> Blocks \union {NoSession}]
    /\ scans \in [Units -> Blocks \union {NoSession}]
    /\ pending \in [Blocks -> SUBSET (Blocks \X Parts)]
    /\ written \in [Blocks -> SUBSET Parts]
    /\ step \in [Blocks -> Steps]
    /\ db \subseteq Blocks \X Parts
    /\ overlapped \subseteq Blocks

Alone == Blocks \ overlapped

\* A block that had its unit to itself and has ended left nothing
\* uncommitted behind, in any session, whatever other blocks did to each
\* other before and after it.
NothingLeftPending ==
    \A b \in Alone : step[b] \notin Using =>
      \A c \in Blocks : pending[c] \intersect ({b} \X Parts) = {}

\* Of a block that had its unit to itself no part is in the database if it
\* raised or was cut short, and all of them are if it ended normally.
AllOrNothing ==
    \A b \in Alone, part \in Parts :
      <<b, part>> \in db <=> step[b] \in {"leaving", "done"}

\* "a scan's resources, findings, lifecycle rows and summary either all land
\* or none do" (application/ports/persistence/unit_of_work.py): so much is
\* said of every block, with nothing about threads.
EveryBlockAllOrNothing ==
    \A b \in Blocks :
      \/ \A part \in Parts : <<b, part>> \in db
      \/ \A part \in Parts : <<b, part>> \notin db

Outcome ==
    [b \in Blocks |->
        CASE b \in overlapped                -> "forfeit"
          [] b \in Alone /\ step[b] \in {"leaving", "done"} -> "committed"
          [] b \in Alone /\ step[b] = "failed" -> "abandoned"
          [] OTHER -> "open"]

Kept == {w \in db : w[1] \notin overlapped}

Atomic == INSTANCE AtomicBlocks WITH outcome <- Outcome, db <- Kept

\* A block with its session, repositories and exit is a single step; one
\* that overlaps another forfeits the promise, and costs no other block its
\* own.
ImplementsAtomic == Atomic!Spec
=============================================================================
