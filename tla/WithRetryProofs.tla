--------------------------- MODULE WithRetryProofs ---------------------------
(***************************************************************************)
(* What withRetry promises about the calls it makes, for any number of     *)
(* delays and any answers.                                                 *)
(***************************************************************************)
EXTENDS WithRetry, TLAPS

Flood == IF state.flooded THEN 1 ELSE 0

\* The loop state counts the calls, but for one that ended the loop.
Counted ==
    IF pc = "done" THEN Len(outcomes) <= state.attempt + Flood + 1
                   ELSE Len(outcomes) = state.attempt + Flood

\* While withRetry goes on, no call so far forbids another one, and the loop
\* state knows whether the last one was a FLOOD_WAIT.
GoesOn ==
    pc # "done" =>
        /\ \A i \in 1..Len(outcomes) : outcomes[i] \notin {"ok", "forbidden"}
        /\ \A i \in 1..Len(outcomes) : i < Len(outcomes) => outcomes[i] # "flood"
        /\ state.flooded <=> Len(outcomes) > 0 /\ outcomes[Len(outcomes)] = "flood"

IInv == TypeOK /\ Counted /\ GoesOn /\ OnlyRepeatable /\ ForbiddenReported

LEMMA StateSteps ==
    ASSUME NEW s \in RetryState
    PROVE  /\ s.attempt \in 0..MaxRetries /\ s.flooded \in BOOLEAN
           /\ ~s.flooded =>
                 /\ NextTry(s, "flood") \in RetryState
                 /\ NextTry(s, "flood").attempt = s.attempt
                 /\ NextTry(s, "flood").flooded
           /\ s.attempt < MaxRetries =>
                 \A e : e # "flood" =>
                     /\ NextTry(s, e) \in RetryState
                     /\ NextTry(s, e).attempt = s.attempt + 1
                     /\ NextTry(s, e).flooded = s.flooded
<1>1. s.attempt \in 0..MaxRetries /\ s.flooded \in BOOLEAN
  BY DEF RetryState
<1>2. /\ [s EXCEPT !.flooded = TRUE] \in RetryState
      /\ [s EXCEPT !.flooded = TRUE].attempt = s.attempt
      /\ [s EXCEPT !.flooded = TRUE].flooded = TRUE
  BY DEF RetryState
<1>3. ASSUME s.attempt < MaxRetries
      PROVE  /\ [s EXCEPT !.attempt = @ + 1] \in RetryState
             /\ [s EXCEPT !.attempt = @ + 1].attempt = s.attempt + 1
             /\ [s EXCEPT !.attempt = @ + 1].flooded = s.flooded
  <2>1. s.attempt + 1 \in 0..MaxRetries
    BY <1>1, <1>3, RetriesAssumption
  <2> QED
    BY <2>1 DEF RetryState
<1>4. /\ NextTry(s, "flood") = [s EXCEPT !.flooded = TRUE]
      /\ \A e : e # "flood" => NextTry(s, e) = [s EXCEPT !.attempt = @ + 1]
  BY DEF NextTry
<1> QED
  BY <1>1, <1>2, <1>3, <1>4

\* withRetry calls again after a FLOOD_WAIT or, while delays are left, after
\* an error that says nothing; never after the call that follows a FLOOD_WAIT.
LEMMA CallsAgain ==
    ASSUME NEW s \in RetryState, NEW e \in Errors
    PROVE  /\ Verdict(s, e) \in {"again", "error", "ErrChatForbidden"}
           /\ Verdict(s, e) = "again" =>
                 /\ ~s.flooded /\ e # "forbidden"
                 /\ e # "flood" => s.attempt < MaxRetries
           /\ Verdict(s, e) = "ErrChatForbidden" <=> ~s.flooded /\ e = "forbidden"
BY DEF RetryState, Errors, Verdict

LEMMA Appended ==
    ASSUME outcomes \in Seq(Outcomes), NEW o \in Outcomes,
           outcomes' = Append(outcomes, o)
    PROVE  /\ outcomes' \in Seq(Outcomes)
           /\ Len(outcomes) \in Nat /\ Len(outcomes') = Len(outcomes) + 1
           /\ \A i \in 1..Len(outcomes) : outcomes'[i] = outcomes[i]
           /\ outcomes'[Len(outcomes')] = o
OBVIOUS

\* A call that ends the loop.
LEMMA LastCall ==
    ASSUME IInv, pc = "call", NEW o \in Outcomes,
           outcomes' = Append(outcomes, o), Done(result'), UNCHANGED cancelled,
           result' \in {"nil", "error", "ErrChatForbidden"},
           result' = "ErrChatForbidden" <=> ~state.flooded /\ o = "forbidden"
    PROVE  IInv'
<1>1. /\ outcomes' \in Seq(Outcomes)
      /\ Len(outcomes) \in Nat /\ Len(outcomes') = Len(outcomes) + 1
      /\ \A i \in 1..Len(outcomes) : outcomes'[i] = outcomes[i]
      /\ outcomes'[Len(outcomes')] = o
  BY Appended DEF IInv, TypeOK
<1>2. pc' = "done" /\ state' = state /\ state \in RetryState
  BY DEF Done, IInv, TypeOK
<1>3. TypeOK'
  BY <1>1, <1>2 DEF IInv, TypeOK, Results
<1>4. Counted'
  BY <1>1, <1>2, StateSteps DEF IInv, Counted, Flood
<1>5. OnlyRepeatable'
  BY <1>1 DEF IInv, GoesOn, OnlyRepeatable
<1>6. ForbiddenReported'
  <2>1. Len(outcomes') = 1 \/ outcomes'[Len(outcomes') - 1] # "flood"
            <=> ~state.flooded
    BY <1>1, <1>2, StateSteps DEF IInv, GoesOn
  <2> QED
    BY <1>1, <2>1 DEF ForbiddenReported
<1> QED
  BY <1>2, <1>3, <1>4, <1>5, <1>6 DEF IInv, GoesOn

\* A call that is followed by another one.
LEMMA CallAgain ==
    ASSUME IInv, NEW o \in Outcomes \ {"ok"}, Fail(o),
           Verdict(state, ErrorOf(o)) = "again"
    PROVE  IInv'
<1> DEFINE e == ErrorOf(o)
<1>1. pc = "call" /\ outcomes' = Append(outcomes, o) /\ state' = NextTry(state, e)
      /\ pc' = (IF e = "flood" THEN "flood" ELSE "backoff")
      /\ UNCHANGED <<result, cancelled>>
  BY DEF Fail, Done
<1>2. state \in RetryState /\ e \in Errors /\ (e = "flood" <=> o = "flood")
  BY DEF IInv, TypeOK, Outcomes, Errors, ErrorOf
<1>3. ~state.flooded /\ o # "forbidden" /\ (e # "flood" => state.attempt < MaxRetries)
  BY <1>2, CallsAgain DEF ErrorOf
<1>4. /\ outcomes' \in Seq(Outcomes)
      /\ Len(outcomes) \in Nat /\ Len(outcomes') = Len(outcomes) + 1
      /\ \A i \in 1..Len(outcomes) : outcomes'[i] = outcomes[i]
      /\ outcomes'[Len(outcomes')] = o
  BY <1>1, Appended DEF IInv, TypeOK
<1>5. /\ state' \in RetryState
      /\ e = "flood" => state'.attempt = state.attempt /\ state'.flooded
      /\ e # "flood" => state'.attempt = state.attempt + 1 /\ ~state'.flooded
  BY <1>1, <1>2, <1>3, StateSteps
<1>6. TypeOK'
  BY <1>1, <1>4, <1>5 DEF IInv, TypeOK
<1>7. Counted'
  BY <1>1, <1>2, <1>3, <1>4, <1>5, StateSteps DEF IInv, Counted, Flood
<1>8. GoesOn'
  BY <1>1, <1>2, <1>3, <1>4, <1>5 DEF IInv, GoesOn
<1>9. OnlyRepeatable'
  BY <1>1, <1>4 DEF IInv, GoesOn, OnlyRepeatable
<1> QED
  BY <1>1, <1>6, <1>7, <1>8, <1>9 DEF IInv, ForbiddenReported

LEMMA Inductive ==
    ASSUME IInv, [Next]_vars
    PROVE  IInv'
<1>1. CASE Succeed
  BY <1>1, LastCall DEF Succeed, Done, Outcomes
<1>2. ASSUME NEW o \in Outcomes, Fail(o)
      PROVE  IInv'
  <2>1. /\ o # "ok" /\ pc = "call" /\ state \in RetryState
        /\ ErrorOf(o) \in Errors /\ (ErrorOf(o) = "forbidden" <=> o = "forbidden")
    BY <1>2 DEF Fail, IInv, TypeOK, Outcomes, Errors, ErrorOf
  <2>2. CASE Verdict(state, ErrorOf(o)) = "again"
    BY <1>2, <2>1, <2>2, CallAgain
  <2>3. CASE Verdict(state, ErrorOf(o)) # "again"
    <3>1. /\ outcomes' = Append(outcomes, o) /\ UNCHANGED cancelled
          /\ Done(result') /\ result' = Verdict(state, ErrorOf(o))
      BY <1>2, <2>3 DEF Fail, Done
    <3> QED
      BY <2>1, <2>3, <3>1, CallsAgain, LastCall
  <2> QED
    BY <2>2, <2>3
<1>3. CASE Wake
  BY <1>3 DEF Wake, Sleeping, IInv, TypeOK, Counted, Flood, GoesOn,
              OnlyRepeatable, ForbiddenReported
<1>4. CASE GiveUp
  <2>1. /\ pc # "done" /\ pc' = "done" /\ result' = "ctx.Err"
        /\ UNCHANGED <<state, cancelled, outcomes>>
    BY <1>4 DEF GiveUp, Sleeping, Done
  <2>2. TypeOK'
    BY <2>1 DEF IInv, TypeOK, Results
  <2>3. Counted'
    BY <2>1, StateSteps DEF IInv, TypeOK, Counted, Flood
  <2> QED
    BY <2>1, <2>2, <2>3 DEF IInv, GoesOn, OnlyRepeatable, ForbiddenReported
<1>5. CASE Cancel \/ UNCHANGED vars
  BY <1>5 DEF Cancel, vars, IInv, TypeOK, Counted, Flood, GoesOn,
              OnlyRepeatable, ForbiddenReported
<1> QED
  BY <1>1, <1>2, <1>3, <1>4, <1>5 DEF Next, Loop

LEMMA Initially ==
    ASSUME Init
    PROVE  IInv
<1>1. FreshRetry \in RetryState /\ FreshRetry.attempt = 0 /\ ~FreshRetry.flooded
  BY RetriesAssumption DEF FreshRetry, RetryState
<1> QED
  BY <1>1 DEF Init, IInv, TypeOK, Results, Counted, Flood, GoesOn,
              OnlyRepeatable, ForbiddenReported
------------------------------------------------------------------------------
\* The state of withRetry keeps its shape: attempts never pass the table of
\* delays (sender.go:28; checked with three delays by retry_calls).
THEOREM Typing == Spec => []TypeOK
<1>1. IInv => TypeOK
  BY DEF IInv
<1> QED
  BY Initially, Inductive, <1>1, PTL DEF Spec

\* However many delays there are and whatever Telegram answers, op is called
\* at most twice more often than there are delays (sender.go:24-63; checked
\* with three delays by retry_calls).
THEOREM BoundedCalls == Spec => []CallsBounded
<1>1. IInv => CallsBounded
  BY StateSteps, RetriesAssumption DEF IInv, TypeOK, Counted, Flood, CallsBounded
<1> QED
  BY Initially, Inductive, <1>1, PTL DEF Spec

\* No call is repeated that must not be: one that succeeded, one that was
\* refused, or the call after a FLOOD_WAIT (sender.go:37-60; checked with three
\* delays by retry_calls).
THEOREM RepeatsOnlyRepeatable == Spec => []OnlyRepeatable
<1>1. IInv => OnlyRepeatable
  BY DEF IInv
<1> QED
  BY Initially, Inductive, <1>1, PTL DEF Spec

\* A refusal is reported as ErrChatForbidden exactly when it does not follow a
\* FLOOD_WAIT (sender.go:41-60; checked with three delays by retry_calls).
THEOREM ReportsRefusals == Spec => []ForbiddenReported
<1>1. IInv => ForbiddenReported
  BY DEF IInv
<1> QED
  BY Initially, Inductive, <1>1, PTL DEF Spec
==============================================================================
