------------------------------ MODULE WithRetry ------------------------------
(***************************************************************************)
(* One run of withRetry: the calls of op, the sleeps between them and a    *)
(* context that may be cancelled at any moment.  Relay uses the same       *)
(* verdicts (module Retry) one attempt at a time; this module shows what   *)
(* they add up to.                                                         *)
(***************************************************************************)
EXTENDS Naturals, Sequences, Retry

VARIABLES
    pc,         \* "call", "backoff", "flood" or "done"
    state,      \* the loop state of Retry
    cancelled,  \* the context is cancelled
    outcomes,   \* history: how the calls of op ended
    result      \* what withRetry returned

vars == <<pc, state, cancelled, outcomes, result>>

\* A call is carried out, or it fails; "lost" is one that was carried out
\* although op returned a transient error.
Outcomes == {"ok", "lost"} \cup Errors

ErrorOf(o) == IF o = "lost" THEN "transient" ELSE o

Results == {"none", "nil", "error", "ErrChatForbidden", "ctx.Err"}

TypeOK ==
    /\ pc \in {"call", "backoff", "flood", "done"}
    /\ state \in RetryState
    /\ cancelled \in BOOLEAN
    /\ outcomes \in Seq(Outcomes)
    /\ result \in Results
------------------------------------------------------------------------------
Done(r) == pc' = "done" /\ result' = r /\ UNCHANGED state

Succeed ==
    /\ pc = "call"
    /\ outcomes' = Append(outcomes, "ok")
    /\ Done("nil")
    /\ UNCHANGED cancelled

Fail(o) ==
    LET e == ErrorOf(o)
        verdict == Verdict(state, e)
    IN  /\ pc = "call" /\ o # "ok"
        /\ outcomes' = Append(outcomes, o)
        /\ \/ /\ verdict = "again"
              /\ state' = NextTry(state, e)
              /\ pc' = IF e = "flood" THEN "flood" ELSE "backoff"
              /\ UNCHANGED result
           \/ verdict # "again" /\ Done(verdict)
        /\ UNCHANGED cancelled

Sleeping == pc \in {"backoff", "flood"}

\* Mutant of Wake: nobody wakes from a FLOOD_WAIT.
WakeFromBackoff ==
    pc = "backoff" /\ pc' = "call" /\ UNCHANGED <<state, cancelled, outcomes, result>>

Wake == Sleeping /\ pc' = "call" /\ UNCHANGED <<state, cancelled, outcomes, result>>

GiveUp == Sleeping /\ cancelled /\ Done("ctx.Err") /\ UNCHANGED <<cancelled, outcomes>>

Cancel ==
    /\ ~cancelled /\ cancelled' = TRUE
    /\ UNCHANGED <<pc, state, outcomes, result>>
------------------------------------------------------------------------------
Loop == Succeed \/ (\E o \in Outcomes : Fail(o)) \/ Wake \/ GiveUp

Next == Loop \/ Cancel

Init ==
    /\ pc = "call" /\ state = FreshRetry
    /\ cancelled \in BOOLEAN
    /\ outcomes = <<>> /\ result = "none"

Spec == Init /\ [][Next]_vars

\* Calls and timers end.
FairSpec == Spec /\ WF_vars(Loop)
------------------------------------------------------------------------------
(* Properties. *)

\* Whatever mix of errors Telegram answers with, op is called at most five
\* times: four attempts, and one call after a FLOOD_WAIT.
CallsBounded == Len(outcomes) <= MaxRetries + 2

\* A call follows another only if that one may be repeated: never one that
\* succeeded or was forbidden, and not the call that follows a FLOOD_WAIT.
OnlyRepeatable ==
    \A i \in 1..Len(outcomes) : i < Len(outcomes) =>
        /\ outcomes[i] \notin {"ok", "forbidden"}
        /\ i > 1 => outcomes[i - 1] # "flood"

\* withRetry returns.
Returns == <>(pc = "done")

\* A chat that refuses to be written to is reported as such, so that the caller
\* disables the pair (ErrChatForbidden) - unless it refuses the call that
\* follows a FLOOD_WAIT, whose error is returned as it is.  Nothing else is
\* reported that way.
ForbiddenReported ==
    LET n == Len(outcomes)
    IN  pc = "done" =>
            (result = "ErrChatForbidden" <=>
                /\ result # "ctx.Err" /\ outcomes[n] = "forbidden"
                /\ n = 1 \/ outcomes[n - 1] # "flood")
==============================================================================
