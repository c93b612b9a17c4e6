---------------------------- MODULE AtomicBlocks ----------------------------
(***************************************************************************)
(* What UnitOfWork promises: a with block commits everything it wrote in   *)
(* one step, or leaves nothing behind.  A block that shares its unit with  *)
(* another one while it is open is promised nothing.                       *)
(***************************************************************************)
CONSTANTS Blocks, Parts   \* what each block writes

VARIABLES db,       \* the durable writes of the blocks the promise is kept to
          outcome   \* how each block ended

Init == db = {} /\ outcome = [b \in Blocks |-> "open"]

Commit(b) == /\ outcome[b] = "open"
             /\ outcome' = [outcome EXCEPT ![b] = "committed"]
             /\ db' = db \union ({b} \X Parts)

\* Any number of blocks: a restart abandons all that are open.
Abandon(lost) == /\ \A b \in lost : outcome[b] = "open"
                 /\ outcome' = [b \in Blocks |-> IF b \in lost THEN "abandoned"
                                                 ELSE outcome[b]]
                 /\ UNCHANGED db

Forfeit(lost) == /\ \A b \in lost : outcome[b] = "open"
                 /\ outcome' = [b \in Blocks |-> IF b \in lost THEN "forfeit"
                                                 ELSE outcome[b]]
                 /\ UNCHANGED db

Next == \/ \E b \in Blocks : Commit(b)
        \/ \E lost \in SUBSET Blocks : Abandon(lost) \/ Forfeit(lost)

Spec == Init /\ [][Next]_<<db, outcome>>
=============================================================================
