-------------------------- MODULE UnitOfWorkProofs --------------------------
(***************************************************************************)
(* Proofs about UnitOfWork for any blocks, units and writes, and for any   *)
(* interleaving of the blocks of a unit.                                   *)
(*                                                                         *)
(* That a block is atomic when it has its unit to itself rests on who      *)
(* holds the unit: while the block is in it the unit's session is the      *)
(* block's own and its repositories write to no other (Owned), and no      *)
(* other block, of the same unit or not, ever holds or writes to that      *)
(* session (Held, Foreign).  So what is pending in it is exactly what its  *)
(* block wrote (PendingIsWritten, Separate), and a commit makes durable    *)
(* the whole block and nothing of another one that has a promise.          *)
(***************************************************************************)
EXTENDS UnitOfWork, TLAPS

Owned ==
    \A b \in Alone :
      /\ step[b] \in {"opened", "inside", "raising"} => session[UnitOf[b]] = b
      /\ step[b] \in {"inside", "raising"} => scans[UnitOf[b]] = b

\* A unit that holds the session of a block is in use by this block only.
Held ==
    \A b \in Alone, u \in Units :
      session[u] = b =>
        /\ UnitOf[b] = u /\ step[b] \in Using
        /\ \A c \in Blocks : c # b /\ UnitOf[c] = u => step[c] \notin Using

Foreign ==
    \A b \in Alone, c \in Blocks :
      c # b /\ step[c] = "inside" => scans[UnitOf[c]] # b

PendingIsWritten ==
    \A b \in Alone :
      /\ step[b] = "inside" => pending[b] = {b} \X written[b]
      /\ step[b] = "raising" => pending[b] \subseteq {b} \X Parts
      /\ step[b] \notin {"inside", "raising"} => pending[b] = {}
      /\ step[b] \in {"outside", "opened"} => written[b] = {}

Separate ==
    \A b \in Alone, c \in Blocks :
      c # b => pending[c] \intersect ({b} \X Parts) = {}

IInv == /\ TypeOK /\ Owned /\ Held /\ Foreign /\ PendingIsWritten /\ Separate
        /\ AllOrNothing

LEMMA InitIInv == Init => IInv
BY UnitAssumption
   DEF Init, IInv, TypeOK, Steps, Using, Alone, Owned, Held, Foreign,
       PendingIsWritten, Separate, AllOrNothing

\* The session of a unit, when the unit is in use by one block, is no other
\* block's that has its unit to itself.
LEMMA NotAnothers ==
    ASSUME IInv, NEW c \in Blocks, step[c] \in Using
    PROVE  \A b \in Alone : b # c => session[UnitOf[c]] # b
BY UnitAssumption DEF IInv, Held

LEMMA EnterIInv == ASSUME IInv, NEW c \in Blocks, Enter(c) PROVE IInv'
<1> USE UnitAssumption
<1>1. /\ step[c] = "outside" /\ step' = [step EXCEPT ![c] = "opened"]
      /\ session' = [session EXCEPT ![UnitOf[c]] = c]
      /\ overlapped' = overlapped \union Exposed(c)
      /\ scans' = scans /\ pending' = pending /\ written' = written /\ db' = db
  BY DEF Enter, Goto
<1>2. Exposed(c) \subseteq Blocks /\ Alone' \subseteq Alone
  BY <1>1 DEF Exposed, Sharing, Alone
<1>3. TypeOK'
  BY <1>1, <1>2 DEF IInv, TypeOK, Steps
<1>4. \A b \in Alone' : b # c /\ UnitOf[b] = UnitOf[c] =>
          step[b] \notin {"opened", "inside", "raising"}
  BY <1>1 DEF Alone, Exposed, Sharing, Using
<1>5. c \in Alone' =>
        \A b \in Blocks : b # c /\ UnitOf[b] = UnitOf[c] => step[b] \notin Using
  BY <1>1 DEF Alone, Exposed, Sharing
<1>6. Owned'
  BY <1>1, <1>2, <1>4 DEF IInv, TypeOK, Owned, Alone
<1>7. Held'
  <2> SUFFICES ASSUME NEW b \in Alone', NEW u \in Units, session'[u] = b
               PROVE  /\ UnitOf[b] = u /\ step'[b] \in Using
                      /\ \A d \in Blocks :
                           d # b /\ UnitOf[d] = u => step'[d] \notin Using
    BY DEF Held
  <2>1. CASE u = UnitOf[c]
    <3>1. b = c
      BY <2>1, <1>1 DEF IInv, TypeOK
    <3> QED  BY <2>1, <3>1, <1>1, <1>5 DEF IInv, TypeOK, Using
  <2>2. CASE u # UnitOf[c]
    <3>1. session[u] = b /\ b \in Alone
      BY <2>2, <1>1, <1>2 DEF IInv, TypeOK
    <3>2. /\ UnitOf[b] = u /\ step[b] \in Using
          /\ \A d \in Blocks : d # b /\ UnitOf[d] = u => step[d] \notin Using
      BY <3>1 DEF IInv, Held
    <3> QED  BY <2>2, <3>2, <1>1 DEF IInv, TypeOK, Alone
  <2> QED  BY <2>1, <2>2
<1>8. Foreign'
  BY <1>1, <1>2 DEF IInv, TypeOK, Foreign
<1>9. PendingIsWritten'
  BY <1>1, <1>2 DEF IInv, TypeOK, PendingIsWritten
<1>10. Separate'
  BY <1>1, <1>2 DEF IInv, Separate
<1>11. AllOrNothing'
  <2>1. \A b \in Alone' : b \in Alone /\ b \in Blocks
    BY <1>2 DEF Alone
  <2>2. \A b \in Blocks : step'[b] \in {"leaving", "done"}
                            <=> step[b] \in {"leaving", "done"}
    BY <1>1 DEF IInv, TypeOK
  <2> QED  BY <1>1, <2>1, <2>2 DEF IInv, AllOrNothing
<1> QED  BY <1>3, <1>6, <1>7, <1>8, <1>9, <1>10, <1>11 DEF IInv

LEMMA BindIInv == ASSUME IInv, NEW c \in Blocks, Bind(c) PROVE IInv'
<1> USE UnitAssumption
<1>1. /\ step[c] = "opened" /\ step' = [step EXCEPT ![c] = "inside"]
      /\ scans' = [scans EXCEPT ![UnitOf[c]] = session[UnitOf[c]]]
      /\ session' = session /\ pending' = pending /\ written' = written
      /\ db' = db /\ overlapped' = overlapped /\ Alone' = Alone
  BY DEF Bind, Goto, Alone
<1>2. \A b \in Alone : b # c => session[UnitOf[c]] # b
  BY <1>1, NotAnothers DEF Using
<1>3. TypeOK'
  BY <1>1 DEF IInv, TypeOK, Steps
<1>4. Owned'
  BY <1>1, <1>2 DEF IInv, TypeOK, Owned, Alone
<1>5. Held'
  BY <1>1 DEF IInv, TypeOK, Held, Using
<1>6. Foreign'
  <2> SUFFICES ASSUME NEW b \in Alone, NEW d \in Blocks, d # b,
                      step'[d] = "inside"
               PROVE  scans'[UnitOf[d]] # b
    BY <1>1 DEF Foreign
  <2>1. CASE UnitOf[d] # UnitOf[c]
    <3>1. d # c /\ step[d] = "inside"
      BY <2>1, <1>1 DEF IInv, TypeOK
    <3> QED  BY <2>1, <3>1, <1>1 DEF IInv, TypeOK, Foreign
  <2>2. CASE UnitOf[d] = UnitOf[c]
    <3>1. scans'[UnitOf[d]] = session[UnitOf[c]]
      BY <2>2, <1>1 DEF IInv, TypeOK
    <3>2. CASE d = c
      BY <3>1, <3>2, <1>2
    <3>3. CASE d # c
      <4>1. step[d] \in Using /\ step[c] \in Using
        BY <3>3, <1>1 DEF IInv, TypeOK, Using
      <4> QED  BY <2>2, <3>1, <4>1 DEF IInv, Held
    <3> QED  BY <3>2, <3>3
  <2> QED  BY <2>1, <2>2
<1>7. PendingIsWritten'
  <2>1. c \in Alone => pending[c] = {} /\ {c} \X written[c] = {}
    BY <1>1 DEF IInv, PendingIsWritten
  <2> QED  BY <1>1, <2>1 DEF IInv, TypeOK, PendingIsWritten, Alone
<1>8. Separate' /\ AllOrNothing'
  BY <1>1 DEF IInv, TypeOK, Separate, AllOrNothing
<1> QED  BY <1>3, <1>4, <1>5, <1>6, <1>7, <1>8 DEF IInv

LEMMA WriteIInv ==
    ASSUME IInv, NEW c \in Blocks, NEW part \in Parts, Write(c, part) PROVE IInv'
<1> USE UnitAssumption
<1> DEFINE s == scans[UnitOf[c]]
<1>1. /\ step[c] = "inside" /\ s # NoSession
      /\ pending' = [pending EXCEPT ![s] = @ \union {<<c, part>>}]
      /\ written' = [written EXCEPT ![c] = @ \union {part}]
      /\ step' = step /\ session' = session /\ scans' = scans /\ db' = db
      /\ overlapped' = overlapped /\ Alone' = Alone
  BY DEF Write, unit, Alone
<1>2. s \in Blocks
  BY <1>1 DEF IInv, TypeOK
<1>3. \A b \in Alone : b # c => s # b
  BY <1>1 DEF IInv, Foreign
<1>4. c \in Alone => s = c
  BY <1>1 DEF IInv, Owned
<1> HIDE DEF s
<1>5. TypeOK'
  BY <1>1, <1>2 DEF IInv, TypeOK
<1>6. Owned' /\ Held' /\ Foreign' /\ AllOrNothing'
  BY <1>1 DEF IInv, Owned, Held, Foreign, AllOrNothing
<1>7. PendingIsWritten'
  <2> SUFFICES ASSUME NEW b \in Alone
               PROVE  /\ step[b] = "inside" => pending'[b] = {b} \X written'[b]
                      /\ step[b] = "raising" => pending'[b] \subseteq {b} \X Parts
                      /\ step[b] \notin {"inside", "raising"} => pending'[b] = {}
                      /\ step[b] \in {"outside", "opened"} => written'[b] = {}
    BY <1>1 DEF PendingIsWritten
  <2>1. CASE b = c
    <3>1. /\ pending'[c] = pending[c] \union {<<c, part>>}
          /\ written'[c] = written[c] \union {part}
      BY <2>1, <1>1, <1>4 DEF IInv, TypeOK
    <3>2. pending[c] = {c} \X written[c]
      BY <2>1, <1>1 DEF IInv, PendingIsWritten
    <3>3. pending'[c] = {c} \X written'[c]
      BY <3>1, <3>2
    <3> QED  BY <2>1, <3>3, <1>1
  <2>2. CASE b # c
    <3>1. b \in Blocks /\ pending'[b] = pending[b] /\ written'[b] = written[b]
      BY <2>2, <1>1, <1>2, <1>3 DEF IInv, TypeOK, Alone
    <3> QED  BY <3>1 DEF IInv, PendingIsWritten
  <2> QED  BY <2>1, <2>2
<1>8. Separate'
  <2> SUFFICES ASSUME NEW b \in Alone, NEW d \in Blocks, d # b
               PROVE  pending'[d] \intersect ({b} \X Parts) = {}
    BY <1>1 DEF Separate
  <2>1. pending[d] \intersect ({b} \X Parts) = {}
    BY DEF IInv, Separate
  <2>2. CASE c = b
    BY <2>1, <2>2, <1>1, <1>4 DEF IInv, TypeOK
  <2>3. CASE c # b
    <3>1. pending'[d] \subseteq pending[d] \union {<<c, part>>}
      BY <1>1 DEF IInv, TypeOK
    <3> QED  BY <2>1, <2>3, <3>1
  <2> QED  BY <2>2, <2>3
<1> QED  BY <1>5, <1>6, <1>7, <1>8 DEF IInv

\* What a commit makes durable: all of its block when that is alone, and in
\* no case anything of another block that is.
LEMMA CommitOwn ==
    ASSUME IInv, NEW c \in Blocks, Commit(c)
    PROVE  /\ c \in Alone =>
                /\ step' = [step EXCEPT ![c] = "leaving"]
                /\ db' = db \union ({c} \X Parts)
           /\ \A b \in Alone, part \in Parts :
                b # c => (<<b, part>> \in db' <=> <<b, part>> \in db)
<1> USE UnitAssumption
<1> DEFINE s == session[UnitOf[c]]
<1>1. /\ step[c] = "inside" /\ written[c] = Parts
      /\ \/ s # NoSession /\ db' = db \union pending[s] /\ Goto(c, "leaving")
         \/ s = NoSession /\ db' = db
  BY DEF Commit
<1>2. \A b \in Alone : b # c => s # b
  BY <1>1, NotAnothers DEF Using
<1>3. c \in Alone => s = c /\ c # NoSession /\ pending[c] = {c} \X Parts
  BY <1>1 DEF IInv, Owned, PendingIsWritten
<1>4. s # NoSession => s \in Blocks
  BY DEF IInv, TypeOK
<1> HIDE DEF s
<1>5. ASSUME NEW b \in Alone, NEW part \in Parts, b # c, s # NoSession
      PROVE  <<b, part>> \notin pending[s]
  BY <1>2, <1>4, <1>5 DEF IInv, Separate
<1> QED  BY <1>1, <1>3, <1>5 DEF Goto

LEMMA CommitIInv == ASSUME IInv, NEW c \in Blocks, Commit(c) PROVE IInv'
<1> USE UnitAssumption
<1> DEFINE s == session[UnitOf[c]]
<1>1. /\ step[c] = "inside"
      /\ \/ /\ s # NoSession /\ db' = db \union pending[s]
            /\ pending' = [pending EXCEPT ![s] = {}]
            /\ step' = [step EXCEPT ![c] = "leaving"]
         \/ /\ s = NoSession /\ db' = db /\ pending' = pending
            /\ step' = [step EXCEPT ![c] = "raising"]
      /\ session' = session /\ scans' = scans /\ written' = written
      /\ overlapped' = overlapped /\ Alone' = Alone
  BY DEF Commit, Goto, Alone
<1>2. \A b \in Alone : b # c => s # b
  BY <1>1, NotAnothers DEF Using
<1>3. c \in Alone => s = c /\ s # NoSession
  BY <1>1 DEF IInv, Owned
<1>4. s # NoSession => s \in Blocks
  BY DEF IInv, TypeOK
<1> HIDE DEF s
<1>5. TypeOK'
  BY <1>1, <1>4 DEF IInv, TypeOK, Steps
<1>6. Owned'
  BY <1>1, <1>3 DEF IInv, TypeOK, Owned, Alone
<1>7. Held' /\ Foreign'
  <2>1. \A b \in Blocks : /\ step'[b] \in Using <=> step[b] \in Using
                          /\ step'[b] = "inside" => step[b] = "inside"
    BY <1>1 DEF IInv, TypeOK, Using
  <2>2. Held'
    BY <1>1, <2>1 DEF IInv, Held, Alone
  <2> QED  BY <1>1, <2>1, <2>2 DEF IInv, Foreign
<1>8. PendingIsWritten'
  <2>1. \A b \in Alone : b # c => pending'[b] = pending[b] /\ step'[b] = step[b]
    BY <1>1, <1>2, <1>4 DEF IInv, TypeOK, Alone
  <2>2. c \in Alone => pending'[c] = {} /\ step'[c] = "leaving"
    BY <1>1, <1>3 DEF IInv, TypeOK
  <2> QED  BY <1>1, <2>1, <2>2 DEF IInv, PendingIsWritten
<1>9. Separate'
  <2>1. \A d \in Blocks : pending'[d] \subseteq pending[d]
    BY <1>1, <1>4 DEF IInv, TypeOK
  <2> QED  BY <1>1, <2>1 DEF IInv, Separate
<1>10. AllOrNothing'
  <2> SUFFICES ASSUME NEW b \in Alone, NEW part \in Parts
               PROVE  <<b, part>> \in db' <=> step'[b] \in {"leaving", "done"}
    BY <1>1 DEF AllOrNothing
  <2>1. CASE b = c
    BY <2>1, CommitOwn DEF IInv, TypeOK
  <2>2. CASE b # c
    <3>1. step'[b] = step[b]
      BY <2>2, <1>1 DEF IInv, TypeOK, Alone
    <3> QED  BY <2>2, <3>1, CommitOwn DEF IInv, AllOrNothing
  <2> QED  BY <2>1, <2>2
<1> QED  BY <1>5, <1>6, <1>7, <1>8, <1>9, <1>10 DEF IInv

LEMMA AbandonIInv == ASSUME IInv, NEW c \in Blocks, Abandon(c) PROVE IInv'
<1> USE UnitAssumption
<1>1. /\ step[c] = "inside" /\ step' = [step EXCEPT ![c] = "raising"]
      /\ db' = db /\ pending' = pending /\ written' = written
      /\ session' = session /\ scans' = scans
      /\ overlapped' = overlapped /\ Alone' = Alone
  BY DEF Abandon, Goto, unit, Alone
<1>2. TypeOK' /\ Owned'
  BY <1>1 DEF IInv, TypeOK, Steps, Owned, Alone
<1>3. Held' /\ Foreign'
  BY <1>1 DEF IInv, TypeOK, Held, Foreign, Using
<1>4. PendingIsWritten'
  <2>1. c \in Alone => pending[c] \subseteq {c} \X Parts
    BY <1>1 DEF IInv, TypeOK, PendingIsWritten
  <2> QED  BY <1>1, <2>1 DEF IInv, TypeOK, PendingIsWritten, Alone
<1>5. Separate' /\ AllOrNothing'
  BY <1>1 DEF IInv, TypeOK, Separate, AllOrNothing, Alone
<1> QED  BY <1>2, <1>3, <1>4, <1>5 DEF IInv

LEMMA LeaveIInv == ASSUME IInv, NEW c \in Blocks, Leave(c) PROVE IInv'
<1> USE UnitAssumption
<1> DEFINE s == session[UnitOf[c]]
<1>1. /\ step[c] \in {"leaving", "raising"}
      /\ step' = [step EXCEPT ![c] = IF step[c] = "leaving" THEN "done"
                                                            ELSE "failed"]
      /\ pending' = [d \in Blocks |-> IF d = s THEN {} ELSE pending[d]]
      /\ session' = [session EXCEPT ![UnitOf[c]] = NoSession]
      /\ scans' = scans /\ written' = written /\ db' = db
      /\ overlapped' = overlapped /\ Alone' = Alone
  BY DEF Leave, Goto, Alone
<1>2. \A b \in Alone : b # c => s # b
  BY <1>1, NotAnothers DEF Using
<1>3. TypeOK'
  BY <1>1 DEF IInv, TypeOK, Steps
<1>4. Owned'
  <2> SUFFICES ASSUME NEW b \in Alone
               PROVE  /\ step'[b] \in {"opened", "inside", "raising"}
                           => session'[UnitOf[b]] = b
                      /\ step'[b] \in {"inside", "raising"}
                           => scans'[UnitOf[b]] = b
    BY <1>1 DEF Owned
  <2>1. CASE b = c
    BY <2>1, <1>1 DEF IInv, TypeOK
  <2>2. CASE b # c
    <3>1. b \in Blocks /\ step'[b] = step[b]
      BY <2>2, <1>1 DEF IInv, TypeOK, Alone
    <3>2. step[b] \in {"opened", "inside", "raising"} => UnitOf[b] # UnitOf[c]
      BY <2>2, <1>2 DEF IInv, Owned
    <3> QED  BY <1>1, <3>1, <3>2 DEF IInv, TypeOK, Owned
  <2> QED  BY <2>1, <2>2
<1>5. Held'
  <2> SUFFICES ASSUME NEW b \in Alone, NEW u \in Units, session'[u] = b
               PROVE  /\ UnitOf[b] = u /\ step'[b] \in Using
                      /\ \A d \in Blocks :
                           d # b /\ UnitOf[d] = u => step'[d] \notin Using
    BY <1>1 DEF Held
  <2>1. b \in Blocks /\ u # UnitOf[c] /\ session[u] = b
    BY <1>1 DEF IInv, TypeOK, Alone
  <2>2. /\ UnitOf[b] = u /\ step[b] \in Using
        /\ \A d \in Blocks : d # b /\ UnitOf[d] = u => step[d] \notin Using
    BY <2>1 DEF IInv, Held
  <2> QED  BY <2>1, <2>2, <1>1 DEF IInv, TypeOK
<1>6. Foreign'
  BY <1>1 DEF IInv, TypeOK, Foreign
<1>7. c \in Alone => pending'[c] = {}
  <2>1. CASE step[c] = "leaving"
    BY <2>1, <1>1 DEF IInv, PendingIsWritten
  <2>2. CASE step[c] = "raising"
    BY <2>2, <1>1 DEF IInv, Owned
  <2> QED  BY <1>1, <2>1, <2>2
<1> HIDE DEF s
<1>8. PendingIsWritten'
  <2>1. \A b \in Alone : b # c => pending'[b] = pending[b] /\ step'[b] = step[b]
    BY <1>1, <1>2 DEF IInv, TypeOK, Alone
  <2>2. c \in Alone => step'[c] \in {"done", "failed"}
    BY <1>1 DEF IInv, TypeOK
  <2> QED  BY <1>1, <1>7, <2>1, <2>2 DEF IInv, PendingIsWritten
<1>9. Separate'
  BY <1>1 DEF IInv, Separate
<1>10. AllOrNothing'
  BY <1>1 DEF IInv, TypeOK, AllOrNothing, Alone
<1> QED  BY <1>3, <1>4, <1>5, <1>6, <1>8, <1>9, <1>10 DEF IInv

LEMMA CrashIInv == IInv /\ Crash => IInv'
<1> SUFFICES ASSUME IInv, Crash PROVE IInv'
  OBVIOUS
<1> USE UnitAssumption
<1>0. overlapped' = overlapped /\ Alone' = Alone
  BY DEF Crash, Alone
<1>1. TypeOK'
  BY DEF IInv, TypeOK, Crash, Steps, Using
<1>2. \A b \in Blocks : step'[b] \notin Using
  BY DEF IInv, TypeOK, Crash, Steps, Using
<1>3. Owned' /\ Held' /\ Foreign'
  BY <1>0, <1>2 DEF Owned, Held, Foreign, Crash, Using, Alone
<1>4. PendingIsWritten' /\ Separate'
  BY <1>0, <1>2 DEF IInv, TypeOK, PendingIsWritten, Separate, Crash, Using, Alone
<1>5. AllOrNothing'
  BY <1>0 DEF IInv, TypeOK, AllOrNothing, Crash, Using, Alone
<1> QED  BY <1>1, <1>3, <1>4, <1>5 DEF IInv

LEMMA Inductive == IInv /\ [Next]_vars => IInv'
<1> SUFFICES ASSUME IInv, [Next]_vars PROVE IInv'
  OBVIOUS
<1>1. ASSUME NEW b \in Blocks, BlockNext(b) PROVE IInv'
  BY <1>1, EnterIInv, BindIInv, WriteIInv, CommitIInv, AbandonIInv, LeaveIInv
     DEF BlockNext
<1>2. CASE Crash
  BY <1>2, CrashIInv
<1>3. CASE UNCHANGED vars
  BY <1>3 DEF IInv, TypeOK, Alone, Owned, Held, Foreign, PendingIsWritten,
              Separate, AllOrNothing, vars, unit
<1> QED  BY <1>1, <1>2, <1>3 DEF Next

LEMMA Invariant == Spec => []IInv
<1>1. Init => IInv                  BY InitIInv
<1>2. IInv /\ [Next]_vars => IInv'  BY Inductive
<1> QED  BY <1>1, <1>2, PTL DEF Spec

\* The state of units, sessions and blocks keeps its types, however blocks
\* use the units.
THEOREM TypeCorrect == Spec => []TypeOK
<1>1. IInv => TypeOK  BY DEF IInv
<1> QED  BY <1>1, Invariant, PTL

\* A with block that has its unit to itself leaves all of its writes in the
\* database or none of them, whatever the other blocks do, overlapping ones
\* included.
THEOREM BlocksAtomic == Spec => []AllOrNothing
<1>1. IInv => AllOrNothing  BY DEF IInv
<1> QED  BY <1>1, Invariant, PTL

\* Such a block leaves nothing of itself uncommitted in any session.
THEOREM NothingLeft == Spec => []NothingLeftPending
<1>1. IInv => NothingLeftPending
  <2> SUFFICES ASSUME IInv, NEW b \in Alone, step[b] \notin Using,
                      NEW c \in Blocks
               PROVE  pending[c] \intersect ({b} \X Parts) = {}
    BY DEF NothingLeftPending
  <2>1. CASE c = b
    BY <2>1 DEF IInv, PendingIsWritten, Using
  <2>2. CASE c # b
    BY <2>2 DEF IInv, Separate
  <2> QED  BY <2>1, <2>2
<1> QED  BY <1>1, Invariant, PTL

-----------------------------------------------------------------------------
\* The durable writes AtomicBlocks speaks of change only by a commit.
LEMMA SameKept == UNCHANGED <<db, overlapped>> => Kept' = Kept
BY DEF Kept

LEMMA SameOutcome ==
    ASSUME TypeOK, NEW b \in Blocks, NEW s, step' = [step EXCEPT ![b] = s],
           overlapped' = overlapped,
           \/ b \in overlapped
           \/ /\ step[b] \in {"outside", "opened", "inside", "raising"}
              /\ s \in {"opened", "inside", "raising"}
           \/ step[b] = "leaving" /\ s = "done"
    PROVE  Outcome' = Outcome
BY DEF TypeOK, Outcome, Alone

\* A block that enters a unit in use forfeits the promise, and so do those
\* that use it; nothing of them is durable.
LEMMA EnterStep ==
    ASSUME IInv, NEW b \in Blocks, Enter(b)
    PROVE  Atomic!Next
<1>1. /\ step[b] = "outside" /\ step' = [step EXCEPT ![b] = "opened"]
      /\ overlapped' = overlapped \union Exposed(b) /\ db' = db
  BY DEF Enter, Goto
<1>2. PICK lost \in SUBSET Blocks : lost = Exposed(b) \ overlapped
  BY DEF Exposed, Sharing
<1>3. \A c \in lost : /\ c \in Alone
                      /\ step[c] \in {"outside", "opened", "inside", "raising"}
  BY <1>1, <1>2 DEF Exposed, Sharing, Using, Alone
<1>4. \A c \in lost : Outcome[c] = "open"
  BY <1>3 DEF Outcome, Alone
<1>5. Outcome' = [c \in Blocks |-> IF c \in lost THEN "forfeit" ELSE Outcome[c]]
  BY <1>1, <1>2 DEF IInv, TypeOK, Outcome, Alone
<1>6. Kept' = Kept
  <2>1. \A w \in db : w[1] \notin lost
    BY <1>3 DEF IInv, TypeOK, AllOrNothing
  <2> QED  BY <1>1, <1>2, <2>1 DEF Kept
<1>7. Atomic!Forfeit(lost)
  BY <1>4, <1>5, <1>6 DEF Atomic!Forfeit
<1> QED  BY <1>7 DEF Atomic!Next

LEMMA CommitStep ==
    ASSUME IInv, IInv', NEW b \in Blocks, Commit(b)
    PROVE  Atomic!Next \/ (Outcome' = Outcome /\ Kept' = Kept)
<1>1. /\ step[b] = "inside" /\ overlapped' = overlapped
      /\ \E s : step' = [step EXCEPT ![b] = s]
  BY DEF Commit, Goto
<1>2. \A w \in Blocks \X Parts :
        w[1] \in Alone /\ w[1] # b => (w \in db' <=> w \in db)
  BY CommitOwn
<1>3. db \subseteq Blocks \X Parts /\ db' \subseteq Blocks \X Parts
  BY DEF IInv, TypeOK
<1>4. CASE b \in Alone
  <2>1. /\ step' = [step EXCEPT ![b] = "leaving"]
        /\ db' = db \union ({b} \X Parts)
    BY <1>4, CommitOwn
  <2>2. Outcome[b] = "open"
    BY <1>1, <1>4 DEF Outcome, Alone
  <2>3. Outcome' = [Outcome EXCEPT ![b] = "committed"]
    BY <1>1, <1>4, <2>1 DEF IInv, TypeOK, Outcome, Alone
  <2>4. Kept' = Kept \union ({b} \X Parts)
    BY <1>1, <1>4, <2>1 DEF Kept, Alone
  <2> QED  BY <2>2, <2>3, <2>4 DEF Atomic!Next, Atomic!Commit
<1>5. CASE b \in overlapped
  <2>1. Kept' = Kept
    BY <1>1, <1>2, <1>3, <1>5 DEF Kept, Alone
  <2> QED  BY <1>1, <1>5, <2>1, SameOutcome DEF IInv
<1> QED  BY <1>4, <1>5 DEF Alone

\* Every step of a block is a step of the atomic block, or none.
LEMMA BlockStep ==
    ASSUME IInv, IInv', NEW b \in Blocks, BlockNext(b)
    PROVE  Atomic!Next \/ (Outcome' = Outcome /\ Kept' = Kept)
<1>0. TypeOK
  BY DEF IInv
<1>1. CASE Enter(b)
  BY <1>1, EnterStep
<1>2. CASE Bind(b)
  BY <1>0, <1>2, SameOutcome, SameKept DEF Bind, Goto
<1>3. CASE \E part \in Parts : Write(b, part)
  BY <1>3, SameKept DEF Write, Outcome, Alone
<1>4. CASE Commit(b)
  BY <1>4, CommitStep
<1>5. CASE Abandon(b)
  BY <1>0, <1>5, SameOutcome, SameKept DEF Abandon, Goto
<1>6. CASE Leave(b) /\ (step[b] = "leaving" \/ b \in overlapped)
  BY <1>0, <1>6, SameOutcome, SameKept DEF Leave, Goto
<1>7. CASE Leave(b) /\ step[b] # "leaving" /\ b \in Alone
  <2>1. /\ step[b] = "raising" /\ step' = [step EXCEPT ![b] = "failed"]
        /\ db' = db /\ overlapped' = overlapped
    BY <1>7 DEF Leave, Goto
  <2>2. Outcome[b] = "open"
    BY <1>7, <2>1 DEF Outcome, Alone
  <2>3. Outcome' = [c \in Blocks |-> IF c \in {b} THEN "abandoned"
                                     ELSE Outcome[c]]
    BY <1>0, <1>7, <2>1 DEF TypeOK, Outcome, Alone
  <2>4. Atomic!Abandon({b})
    BY <2>1, <2>2, <2>3, SameKept DEF Atomic!Abandon
  <2> QED  BY <2>4 DEF Atomic!Next
<1> QED  BY <1>1, <1>2, <1>3, <1>4, <1>5, <1>6, <1>7 DEF BlockNext, Alone

LEMMA CrashStep == ASSUME IInv, Crash PROVE Atomic!Next
<1>1. PICK lost \in SUBSET Blocks :
        \A b \in Blocks :
          b \in lost <=> b \in Alone /\ step[b] \in Using \ {"leaving"}
  <2> DEFINE cut == {b \in Alone : step[b] \in Using \ {"leaving"}}
  <2>1. cut \in SUBSET Blocks
    BY DEF Alone
  <2>2. \A b \in Blocks :
          b \in cut <=> b \in Alone /\ step[b] \in Using \ {"leaving"}
    OBVIOUS
  <2> QED  BY <2>1, <2>2
<1>2. \A b \in lost : Outcome[b] = "open"
  BY <1>1 DEF Outcome, Using, Alone
<1>3. Outcome' = [b \in Blocks |-> IF b \in lost THEN "abandoned" ELSE Outcome[b]]
  BY <1>1 DEF IInv, TypeOK, Steps, Outcome, Crash, Using, Alone
<1>4. Atomic!Abandon(lost)
  BY <1>2, <1>3, SameKept DEF Atomic!Abandon, Crash
<1> QED  BY <1>4 DEF Atomic!Next

\* A unit implements atomic blocks, those that overlap another one excepted
\* and only those: each forfeits the promise when it does.
THEOREM Refinement == Spec => ImplementsAtomic
<1>1. Init => Atomic!Init
  BY DEF Init, Atomic!Init, Outcome, Kept, Alone
<1>2. IInv /\ IInv' /\ [Next]_vars => [Atomic!Next]_<<Kept, Outcome>>
  <2> SUFFICES ASSUME IInv, IInv', [Next]_vars
               PROVE  Atomic!Next \/ (Outcome' = Outcome /\ Kept' = Kept)
    OBVIOUS
  <2>1. ASSUME NEW b \in Blocks, BlockNext(b)
        PROVE  Atomic!Next \/ (Outcome' = Outcome /\ Kept' = Kept)
    BY <2>1, BlockStep
  <2>2. CASE Crash
    BY <2>2, CrashStep
  <2>3. CASE UNCHANGED vars
    BY <2>3 DEF vars, unit, Outcome, Kept, Alone
  <2> QED  BY <2>1, <2>2, <2>3 DEF Next
<1> QED  BY <1>1, <1>2, Invariant, PTL DEF Spec, ImplementsAtomic, Atomic!Spec
=============================================================================
