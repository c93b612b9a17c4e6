--------------------------- MODULE FindingLedger ---------------------------
(***************************************************************************)
(* What the finding lifecycle promises, with no database and no threads:   *)
(* a scan is compared with the ledger in a single step, and every issue    *)
(* moves along the closed transition table of LogicalFinding.              *)
(***************************************************************************)
EXTENDS Integers

CONSTANTS Issues,
          Verdicts   \* of a scan on an issue; "none" where it did not look

VARIABLES state,     \* LifecycleState of each issue, "absent" before the first,
                     \* "forfeit" once the ledger no longer vouches for it
          reopened,  \* how often the issue regressed
          latest     \* the verdict of the last scan that looked

Active == {"open", "reopened"}

\* observed_again, and first_observation for an issue not tracked yet.
Seen(s) == CASE s = "absent"   -> "open"
             [] s = "resolved" -> "reopened"
             [] OTHER          -> s

Init == /\ state = [i \in Issues |-> "absent"]
        /\ reopened = [i \in Issues |-> 0]
        /\ latest = [i \in Issues |-> "none"]

Scan(verdict) ==
    /\ state' = [i \in Issues |->
                   CASE verdict[i] = "fail" -> Seen(state[i])
                     [] verdict[i] \notin {"fail", "none"} /\ state[i] \in Active
                          -> "resolved"
                     [] OTHER -> state[i]]
    /\ reopened' = [i \in Issues |->
                      IF verdict[i] = "fail" /\ state[i] = "resolved"
                      THEN reopened[i] + 1 ELSE reopened[i]]
    /\ latest' = [i \in Issues |->
                    IF verdict[i] = "none" THEN latest[i] ELSE verdict[i]]

\* Two have worked on these issues at once: nothing is promised about them.
Forfeit(lost) ==
    /\ state' = [i \in Issues |-> IF i \in lost THEN "forfeit" ELSE state[i]]
    /\ reopened' = [i \in Issues |-> IF i \in lost THEN 0 ELSE reopened[i]]
    /\ UNCHANGED latest

Next == \/ \E verdict \in [Issues -> Verdicts] : Scan(verdict)
        \/ \E lost \in SUBSET Issues : Forfeit(lost)
Spec == Init /\ [][Next]_<<state, reopened, latest>>

\* What the dashboard shows as live is what the last look found failing.
LiveIffLatestFailed ==
    \A i \in Issues :
      state[i] # "forfeit" => (state[i] \in Active <=> latest[i] = "fail")
=============================================================================
