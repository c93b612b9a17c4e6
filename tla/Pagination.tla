----------------------------- MODULE Pagination -----------------------------
(***************************************************************************)
(* paginate and call_with_retry of infrastructure/cloud/resilience.py: the *)
(* pages of a cloud listing are drawn from an iterator, and each draw is   *)
(* retried on a throttle or a transient failure, within a number of        *)
(* attempts and an amount of time.  An action is one call of next() on the *)
(* source and what call_with_retry and paginate do with its outcome, the   *)
(* sleep before the next attempt included.                                 *)
(***************************************************************************)
EXTENDS Integers

CONSTANTS Sources,      \* kinds of iterator, see below
          Pages,        \* pages a complete listing has
          MaxAttempts, BaseDelay, MaxDelay, MaxElapsed,   \* RetryPolicy
          Hints,        \* waiting times a server may ask for
          Latencies     \* how long a call may take

\* A generator that raised is finalized: it only raises StopIteration from
\* then on.  A resumable iterator can be called again.
ASSUME SourcesAssumption == Sources \subseteq {"generator", "resumable"}

\* RetryPolicy.__post_init__ (max_elapsed is not checked there).
ASSUME PolicyAssumption ==
    /\ MaxAttempts \in Nat \ {0} /\ MaxElapsed \in Nat /\ Pages \in Nat
    /\ BaseDelay \in Nat \ {0} /\ MaxDelay \in Nat /\ BaseDelay <= MaxDelay
    /\ Hints \subseteq Nat /\ Latencies \subseteq Nat

NoHint == -1

VARIABLES kind,       \* the kind of the source
          dead,       \* whether it is a generator that raised
          yielded,    \* pages handed to the caller
          step,       \* "advance" while paginate draws, then how it ended
          attempt,    \* zero-based attempt at the current page
          elapsed,    \* time since the first attempt at the current page
          saw_error,  \* a retryable error was seen at the current page
          stats,      \* CollectionStats
          failures    \* history: the times the source failed

source == <<kind, dead, failures>>
call   == <<attempt, elapsed, saw_error>>
vars   == <<source, yielded, step, call, stats>>

Ends == {"returned", "interrupted", "exhausted", "raised"}

Init ==
    /\ kind \in Sources
    /\ dead = FALSE
    /\ failures = 0
    /\ yielded = 0
    /\ step = "advance"
    /\ attempt = 0
    /\ elapsed = 0
    /\ saw_error = FALSE
    /\ stats = [api_calls |-> 0, retries |-> 0, errors |-> 0]

(***************************************************************************)
(* call_with_retry                                                         *)
(***************************************************************************)

\* Every exception is recorded, the one that ends an iterator included.
Counted(retries, errors) ==
    stats' = [api_calls |-> stats.api_calls + 1,
              retries   |-> stats.retries + retries,
              errors    |-> stats.errors + errors]

\* compute_backoff: anything up to the doubled base, capped by max_delay.
Backoffs == {d \in 0 .. MaxDelay : d <= BaseDelay * 2^attempt}

\* What the server asks for comes before the formula, under the same cap.
Delays(hint) ==
    IF hint = NoHint THEN Backoffs
    ELSE {IF hint <= MaxDelay THEN hint ELSE MaxDelay}

\* Variant: the time budget forgets the sleep it is about to take.
LateBudget(latency, delay) == elapsed + latency <= MaxElapsed

WithinBudget(latency, delay) == elapsed + latency + delay <= MaxElapsed

\* Variant: one attempt more than max_attempts.
AttemptsLeftInclusive == attempt < MaxAttempts

AttemptsLeft == attempt < MaxAttempts - 1

\* A failure of the source itself: a generator does not survive it.
Fail ==
    /\ step = "advance" /\ ~dead /\ yielded < Pages
    /\ dead' = (kind = "generator")
    /\ failures' = failures + 1
    /\ UNCHANGED <<kind, yielded>>

\* A throttle or a transient failure: sleep and try again, or give up.
RetryableError ==
    /\ Fail
    /\ \E latency \in Latencies, hint \in Hints \union {NoHint} :
         \E delay \in Delays(hint) :
           IF AttemptsLeft /\ WithinBudget(latency, delay)
           THEN /\ step' = "advance"
                /\ attempt' = attempt + 1
                /\ elapsed' = elapsed + latency + delay
                /\ Counted(1, 1)
           ELSE /\ step' = "exhausted"
                /\ Counted(0, 1)
                /\ UNCHANGED <<attempt, elapsed>>
    /\ saw_error' = TRUE

\* Any other error is raised as it is, at once.
TerminalError ==
    /\ Fail
    /\ step' = "raised"
    /\ Counted(0, 1)
    /\ saw_error' = TRUE
    /\ UNCHANGED <<attempt, elapsed>>

(***************************************************************************)
(* paginate                                                                *)
(***************************************************************************)

\* The page is yielded and the next call starts afresh.
PageArrives ==
    /\ step = "advance" /\ ~dead /\ yielded < Pages
    /\ yielded' = yielded + 1
    /\ attempt' = 0 /\ elapsed' = 0 /\ saw_error' = FALSE
    /\ Counted(0, 0)
    /\ UNCHANGED <<source, step>>

\* Variant: the first version of paginate, for which the end is the end.
EndOfPages == step' = "returned"

\* StopIteration: the end of the pages, unless an error came before it.
EndOrInterruption == step' = IF saw_error THEN "interrupted" ELSE "returned"

\* Variant: the end of a source that died is waited for, for ever.
SourceAskedAgain ==
    /\ step = "advance" /\ (dead \/ yielded = Pages) /\ ~saw_error
    /\ EndOrInterruption
    /\ Counted(0, 1)
    /\ UNCHANGED <<source, yielded, call>>

SourceEnds ==
    /\ step = "advance" /\ (dead \/ yielded = Pages)
    /\ EndOrInterruption
    /\ Counted(0, 1)
    /\ UNCHANGED <<source, yielded, call>>

Next == PageArrives \/ RetryableError \/ TerminalError \/ SourceEnds

Spec == Init /\ [][Next]_vars

\* The callers draw every page in a for loop and every SDK call returns.
FairSpec == Spec /\ WF_vars(Next)

(***************************************************************************)
(* Properties.                                                             *)
(***************************************************************************)

TypeOK ==
    /\ kind \in Sources
    /\ dead \in BOOLEAN
    /\ failures \in Nat
    /\ yielded \in 0 .. Pages
    /\ step \in {"advance"} \union Ends
    /\ attempt \in 0 .. MaxAttempts - 1
    /\ elapsed \in Nat
    /\ saw_error \in BOOLEAN
    /\ stats \in [api_calls : Nat, retries : Nat, errors : Nat]

\* A listing that ends normally is complete, whatever was met on the way: a
\* throttle never turns into a short list.
NoSilentTruncation == step = "returned" => yielded = Pages

\* Only a listing that lost pages is refused as interrupted: an error that
\* was overcome is not held against the pages that follow it.
OnlyLossInterrupts == step = "interrupted" => yielded < Pages

\* No attempt at a page starts after the time allowed for that page.
StaysInBudget == step = "advance" => elapsed <= MaxElapsed

\* The counters account for every call, which gave a page, was retried or ended
\* the listing, and for every failure of the source.  The StopIteration that
\* ends a listing is counted as one error more.
CallsAccountedFor ==
    /\ stats.api_calls =
         yielded + stats.retries + (IF step = "advance" THEN 0 ELSE 1)
    /\ stats.errors =
         failures + (IF step \in {"returned", "interrupted"} THEN 1 ELSE 0)

\* A persistently failing endpoint does not hang a scan.
Terminates == <>(step \in Ends)
=============================================================================
