-------------------------------- MODULE Retry --------------------------------
(***************************************************************************)
(* withRetry as a function of its loop state and of what the last call of  *)
(* op returned.  The state says which attempt is in progress and whether   *)
(* it is the single call that follows a FLOOD_WAIT.                        *)
(***************************************************************************)
EXTENDS Naturals

CONSTANT MaxRetries         \* len(retryDelays); the code has 3

ASSUME RetriesAssumption == MaxRetries \in Nat

Errors == {"transient", "flood", "forbidden"}

RetryState == [attempt : 0..MaxRetries, flooded : BOOLEAN]

FreshRetry == [attempt |-> 0, flooded |-> FALSE]

\* Mutants of Verdict: one attempt too many, a FLOOD_WAIT that is always waited
\* for, and a refusal that is retried like any other error.
VerdictOneMore(s, e) ==
    IF s.flooded \/ (e # "flood" /\ s.attempt > MaxRetries) THEN "error"
    ELSE IF e = "forbidden" THEN "ErrChatForbidden" ELSE "again"

VerdictFloodsOn(s, e) ==
    IF e = "flood" THEN "again"
    ELSE IF e = "forbidden" /\ ~s.flooded THEN "ErrChatForbidden" ELSE "error"

VerdictRetriesForbidden(s, e) ==
    IF ~s.flooded /\ (e = "flood" \/ s.attempt < MaxRetries)
    THEN "again" ELSE "error"

\* What withRetry does when op fails with error e: call op again, or return
\* ErrChatForbidden or another error.  The call after a FLOOD_WAIT has its
\* error returned as it is, whatever it is.
Verdict(s, e) ==
    CASE s.flooded                                     -> "error"
      [] ~s.flooded /\ e = "forbidden"                 -> "ErrChatForbidden"
      [] ~s.flooded /\ e = "flood"                     -> "again"
      [] ~s.flooded /\ e \notin {"forbidden", "flood"} ->
             IF s.attempt < MaxRetries THEN "again" ELSE "error"

\* Mutant of NextTry: a FLOOD_WAIT uses up an attempt as well.
NextTryCountsFlood(s, e) ==
    [s EXCEPT !.flooded = (e = "flood"), !.attempt = @ + 1]

NextTry(s, e) == IF e = "flood" THEN [s EXCEPT !.flooded = TRUE]
                                ELSE [s EXCEPT !.attempt = @ + 1]
==============================================================================
