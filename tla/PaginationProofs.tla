-------------------------- MODULE PaginationProofs --------------------------
(***************************************************************************)
(* Proofs about Pagination, for every number of pages, retry policy,       *)
(* latency and server hint.                                                *)
(*                                                                         *)
(* That a listing is never truncated silently is not inductive: it needs   *)
(* to be known that a source which died did so at the page that is being   *)
(* drawn (DeathRemembered), so that its end is told from the end of pages. *)
(***************************************************************************)
EXTENDS Pagination, TLAPS

\* A dead source that is still being drawn from left its trace at this page.
DeathRemembered == step = "advance" /\ dead => saw_error

\* An error is only remembered at a page that has not arrived.
ErrorIsCurrent == saw_error => yielded < Pages

IInv == /\ TypeOK /\ DeathRemembered /\ ErrorIsCurrent
        /\ NoSilentTruncation /\ OnlyLossInterrupts

\* compute_backoff and the hint both end in a natural waiting time.
LEMMA DelayType ==
    ASSUME NEW hint \in Hints \union {NoHint}, NEW delay \in Delays(hint)
    PROVE  delay \in Nat
<1>1. CASE hint = NoHint
  BY <1>1, PolicyAssumption DEF Delays, Backoffs
<1>2. CASE hint # NoHint
  BY <1>2, PolicyAssumption DEF Delays
<1> QED  BY <1>1, <1>2

\* Counting a call keeps the counters natural numbers.
LEMMA CountedType ==
    ASSUME TypeOK, NEW retries \in Nat, NEW errors \in Nat,
           Counted(retries, errors)
    PROVE  stats' \in [api_calls : Nat, retries : Nat, errors : Nat]
BY DEF TypeOK, Counted

\* The first state satisfies everything.
LEMMA InitIInv == Init => IInv
<1> SUFFICES ASSUME Init PROVE IInv
  OBVIOUS
<1>1. 0 \in 0 .. Pages /\ 0 \in 0 .. MaxAttempts - 1
  BY PolicyAssumption
<1>2. TypeOK
  BY <1>1 DEF Init, TypeOK
<1> QED
  BY <1>2 DEF Init, IInv, DeathRemembered, ErrorIsCurrent,
              NoSilentTruncation, OnlyLossInterrupts

LEMMA PageArrivesIInv == IInv /\ PageArrives => IInv'
<1> SUFFICES ASSUME IInv, PageArrives PROVE IInv'
  OBVIOUS
<1>1. stats' \in [api_calls : Nat, retries : Nat, errors : Nat]
  BY CountedType DEF IInv, PageArrives
<1>2. /\ yielded' \in 0 .. Pages
      /\ attempt' \in 0 .. MaxAttempts - 1
      /\ elapsed' \in Nat
  BY PolicyAssumption DEF IInv, TypeOK, PageArrives
<1>3. TypeOK'
  BY <1>1, <1>2 DEF IInv, TypeOK, PageArrives, source
<1> QED
  BY <1>3 DEF IInv, PageArrives, source, DeathRemembered, ErrorIsCurrent,
              NoSilentTruncation, OnlyLossInterrupts

LEMMA RetryableErrorIInv == IInv /\ RetryableError => IInv'
<1> SUFFICES ASSUME IInv, RetryableError PROVE IInv'
  OBVIOUS
<1>1. PICK latency \in Latencies, hint \in Hints \union {NoHint} :
        \E delay \in Delays(hint) :
          IF AttemptsLeft /\ WithinBudget(latency, delay)
          THEN /\ step' = "advance"
               /\ attempt' = attempt + 1
               /\ elapsed' = elapsed + latency + delay
               /\ Counted(1, 1)
          ELSE /\ step' = "exhausted"
               /\ Counted(0, 1)
               /\ UNCHANGED <<attempt, elapsed>>
  BY DEF RetryableError
<1>2. PICK delay \in Delays(hint) :
          IF AttemptsLeft /\ WithinBudget(latency, delay)
          THEN /\ step' = "advance"
               /\ attempt' = attempt + 1
               /\ elapsed' = elapsed + latency + delay
               /\ Counted(1, 1)
          ELSE /\ step' = "exhausted"
               /\ Counted(0, 1)
               /\ UNCHANGED <<attempt, elapsed>>
  BY <1>1
<1>3. stats' \in [api_calls : Nat, retries : Nat, errors : Nat]
  BY <1>2, CountedType DEF IInv
<1>4. /\ kind' \in Sources /\ dead' \in BOOLEAN /\ failures' \in Nat
      /\ yielded' = yielded /\ yielded < Pages
      /\ saw_error' = TRUE
  BY DEF IInv, TypeOK, RetryableError, Fail
<1>5. /\ step' \in {"advance", "exhausted"}
      /\ attempt' \in 0 .. MaxAttempts - 1
      /\ elapsed' \in Nat
  <2>1. latency \in Nat /\ delay \in Nat
    BY DelayType, PolicyAssumption
  <2>2. CASE AttemptsLeft /\ WithinBudget(latency, delay)
    BY <1>2, <2>1, <2>2, PolicyAssumption DEF IInv, TypeOK, AttemptsLeft
  <2>3. CASE ~(AttemptsLeft /\ WithinBudget(latency, delay))
    BY <1>2, <2>3 DEF IInv, TypeOK
  <2> QED  BY <2>2, <2>3
<1>6. TypeOK'
  BY <1>3, <1>4, <1>5 DEF IInv, TypeOK, Ends
<1> QED
  BY <1>4, <1>5, <1>6 DEF IInv, DeathRemembered, ErrorIsCurrent,
                          NoSilentTruncation, OnlyLossInterrupts

LEMMA TerminalErrorIInv == IInv /\ TerminalError => IInv'
<1> SUFFICES ASSUME IInv, TerminalError PROVE IInv'
  OBVIOUS
<1>1. stats' \in [api_calls : Nat, retries : Nat, errors : Nat]
  BY CountedType DEF IInv, TerminalError
<1>2. TypeOK'
  BY <1>1 DEF IInv, TypeOK, TerminalError, Fail, Ends
<1> QED
  BY <1>2 DEF IInv, TerminalError, Fail, DeathRemembered, ErrorIsCurrent,
              NoSilentTruncation, OnlyLossInterrupts

LEMMA SourceEndsIInv == IInv /\ SourceEnds => IInv'
<1> SUFFICES ASSUME IInv, SourceEnds PROVE IInv'
  OBVIOUS
<1>1. stats' \in [api_calls : Nat, retries : Nat, errors : Nat]
  BY CountedType DEF IInv, SourceEnds
<1>2. TypeOK'
  BY <1>1 DEF IInv, TypeOK, SourceEnds, EndOrInterruption, source, call, Ends
<1>3. NoSilentTruncation'
  BY DEF IInv, DeathRemembered, SourceEnds, EndOrInterruption, source, call,
         NoSilentTruncation
<1>4. OnlyLossInterrupts'
  BY DEF IInv, ErrorIsCurrent, SourceEnds, EndOrInterruption, source, call,
         OnlyLossInterrupts
<1> QED
  BY <1>2, <1>3, <1>4 DEF IInv, SourceEnds, EndOrInterruption, source, call,
                          DeathRemembered, ErrorIsCurrent

\* Every step of a listing preserves the invariant.
LEMMA Inductive == IInv /\ [Next]_vars => IInv'
<1> SUFFICES ASSUME IInv, [Next]_vars PROVE IInv'
  OBVIOUS
<1>1. CASE PageArrives      BY <1>1, PageArrivesIInv
<1>2. CASE RetryableError   BY <1>2, RetryableErrorIInv
<1>3. CASE TerminalError    BY <1>3, TerminalErrorIInv
<1>4. CASE SourceEnds       BY <1>4, SourceEndsIInv
<1>5. CASE UNCHANGED vars
  BY <1>5 DEF IInv, TypeOK, vars, source, call, DeathRemembered,
              ErrorIsCurrent, NoSilentTruncation, OnlyLossInterrupts
<1> QED
  BY <1>1, <1>2, <1>3, <1>4, <1>5 DEF Next

LEMMA Invariant == Spec => []IInv
<1>1. Init => IInv                 BY InitIInv
<1>2. IInv /\ [Next]_vars => IInv' BY Inductive
<1> QED  BY <1>1, <1>2, PTL DEF Spec

\* The variables of a listing keep their types: no attempt is made beyond
\* max_attempts.
THEOREM TypeCorrect == Spec => []TypeOK
<1>1. IInv => TypeOK  BY DEF IInv
<1> QED  BY <1>1, Invariant, PTL

\* paginate never returns a short list, for a source that dies at its first
\* failure as for one that can be called again.
THEOREM NeverTruncated == Spec => []NoSilentTruncation
<1>1. IInv => NoSilentTruncation  BY DEF IInv
<1> QED  BY <1>1, Invariant, PTL

\* paginate never refuses a list it drew completely.
THEOREM CompleteNeverRefused == Spec => []OnlyLossInterrupts
<1>1. IInv => OnlyLossInterrupts  BY DEF IInv
<1> QED  BY <1>1, Invariant, PTL

\* No attempt starts once the time budget of its page is spent.
THEOREM BudgetKept == Spec => []StaysInBudget
<1>1. Init => StaysInBudget
  BY PolicyAssumption DEF Init, StaysInBudget
<1>2. StaysInBudget /\ [Next]_vars => StaysInBudget'
  <2> SUFFICES ASSUME StaysInBudget, [Next]_vars PROVE StaysInBudget'
    OBVIOUS
  <2>1. CASE PageArrives
    BY <2>1, PolicyAssumption DEF PageArrives, StaysInBudget
  <2>2. CASE RetryableError
    BY <2>2 DEF RetryableError, WithinBudget, StaysInBudget
  <2>3. CASE TerminalError
    BY <2>3 DEF TerminalError, StaysInBudget
  <2>4. CASE SourceEnds
    BY <2>4 DEF SourceEnds, EndOrInterruption, StaysInBudget
  <2>5. CASE UNCHANGED vars
    BY <2>5 DEF vars, call, StaysInBudget
  <2> QED  BY <2>1, <2>2, <2>3, <2>4, <2>5 DEF Next
<1> QED  BY <1>1, <1>2, PTL DEF Spec

\* The statistics account for every call that was made and every failure.
THEOREM EveryCallCounted == Spec => []CallsAccountedFor
<1>1. Init => CallsAccountedFor
  BY DEF Init, CallsAccountedFor
<1>2. TypeOK /\ CallsAccountedFor /\ [Next]_vars => CallsAccountedFor'
  <2> SUFFICES ASSUME TypeOK, CallsAccountedFor, [Next]_vars
               PROVE  CallsAccountedFor'
    OBVIOUS
  <2>1. CASE PageArrives
    BY <2>1 DEF PageArrives, Counted, CallsAccountedFor, TypeOK, source
  <2>2. CASE RetryableError
    BY <2>2 DEF RetryableError, Fail, Counted, CallsAccountedFor, TypeOK
  <2>3. CASE TerminalError
    BY <2>3 DEF TerminalError, Fail, Counted, CallsAccountedFor, TypeOK
  <2>4. CASE SourceEnds
    BY <2>4 DEF SourceEnds, EndOrInterruption, Counted, CallsAccountedFor,
                TypeOK, source
  <2>5. CASE UNCHANGED vars
    BY <2>5 DEF vars, call, source, CallsAccountedFor
  <2> QED  BY <2>1, <2>2, <2>3, <2>4, <2>5 DEF Next
<1> QED  BY <1>1, <1>2, TypeCorrect, PTL DEF Spec
=============================================================================
