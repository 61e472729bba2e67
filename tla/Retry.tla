-------------------------------- MODULE Retry --------------------------------
(***************************************************************************)
(* One retried LLM call: pkg/workflow/engine/retry (policy, classifier,    *)
(* attempt loop) around the operation the agent loop passes to it          *)
(* (agent/loop.go), which forwards the events of each attempt's stream to  *)
(* the turn.  Time is counted in ticks; a timer fires on time.             *)
(***************************************************************************)
EXTENDS Integers, FiniteSets

CONSTANTS
  MaxAttempts, RetryOn, Backoff, InitialDelay, MaxDelay, Jitter,
  PerAttemptTimeout, TotalBudget,   \* the Policy, 0 where a limit is off
  MaxClock                          \* bound: ticks of the clock

Classes == {"transient", "timeout", "upstream", "validation", "permission",
            "stream-already-emitted"}

\* The policies ParsePolicy accepts; retryOn "all" is all classes but the last.
\* A policy of one attempt, or none at all, runs the operation once.
ParsePolicy ==
  [MaxAttempts : 1..10, RetryOn : SUBSET Classes, Backoff : {"fixed", "exponential"},
   InitialDelay : Nat, MaxDelay : Nat, Jitter : BOOLEAN,
   PerAttemptTimeout : Nat, TotalBudget : Nat]

Policy ==
  [MaxAttempts |-> MaxAttempts, RetryOn |-> RetryOn, Backoff |-> Backoff,
   InitialDelay |-> InitialDelay, MaxDelay |-> MaxDelay, Jitter |-> Jitter,
   PerAttemptTimeout |-> PerAttemptTimeout, TotalBudget |-> TotalBudget]

ASSUME PolicyBounds == Policy \in ParsePolicy /\ MaxAttempts > 1 /\ MaxClock \in Nat

VARIABLES
  pc,         \* "call" | "delay" | "done"
  attempt, elapsed,
  started,    \* when the current attempt began
  until,      \* when the delay timer fires
  ctxErr,     \* "none", or why the caller's context is done
  decision,   \* Result.Decision
  err,        \* Result.Err
  lastClass,
  forwarded   \* attempts that forwarded an event to the turn

vars == <<pc, attempt, elapsed, started, until, ctxErr, decision, err, lastClass, forwarded>>

\* A mid-stream ToolError keeps its cause, of which two are told apart later.
Errors == {"none", "http", "plain", "policy", "tool-retryable", "deadline", "canceled",
           "mid-stream", "mid-deadline", "mid-canceled"}
Decisions == {"none", "succeeded", "exhausted", "not-retryable", "budget-expired", "cancelled"}

(* The type invariant, with the code's own limits on its counters.          *)
TypeOK ==
  /\ pc \in {"call", "delay", "done"} /\ attempt \in 1..MaxAttempts
  /\ elapsed \in 0..MaxClock /\ started \in 0..MaxClock /\ until \in Nat
  /\ ctxErr \in {"none", "deadline", "canceled"} /\ decision \in Decisions
  /\ err \in Errors /\ lastClass \in Classes \cup {"none"}
  /\ forwarded \subseteq 1..MaxAttempts

Init ==
  /\ pc = "call" /\ attempt = 1 /\ elapsed = 0 /\ started = 0 /\ until = 0
  /\ ctxErr = "none" /\ decision = "none" /\ err = "none" /\ lastClass = "none"
  /\ forwarded = {}

-----------------------------------------------------------------------------
\* The classes of an error.  A ToolError says itself whether it can be retried,
\* and then of which class it is; the one the loop makes of a mid-stream failure
\* says no, which is the class validation.
Classify(e) ==
  CASE e = "tool-retryable" -> Classes
    [] e \in {"mid-stream", "mid-deadline", "mid-canceled"} -> {"validation"}
    [] e = "deadline" -> {"timeout"}
    [] e = "policy" -> {"permission"}
    [] e = "http" -> {"transient"}
    [] e \in {"canceled", "plain"} -> {"validation"}

BaseDelay == LET d == IF Backoff = "fixed" THEN InitialDelay ELSE InitialDelay * 2^(attempt - 1)
             IN  IF MaxDelay > 0 /\ d > MaxDelay THEN MaxDelay ELSE d

\* The delays nextDelay can return; jitter keeps between half and all of it.
nextDelay == IF Jitter /\ BaseDelay > 0 THEN {d \in 0..BaseDelay : 2 * d >= BaseDelay}
             ELSE {BaseDelay}

AttemptTimedOut == PerAttemptTimeout > 0 /\ elapsed - started >= PerAttemptTimeout

\* How rctx is done, if it is: the caller's context or the attempt's timeout.
RctxErr == IF ctxErr # "none" THEN {ctxErr} ELSE IF AttemptTimedOut THEN {"deadline"} ELSE {}

\* The stream yields an event, which goes to the turn at once.  (An event
\* that is there when rctx ends might as well have come just before.)
Forward ==
  /\ pc = "call" /\ RctxErr = {}
  /\ forwarded' = forwarded \cup {attempt}
  /\ UNCHANGED <<pc, attempt, elapsed, started, until, ctxErr, decision, err, lastClass>>

Done(d, e, c) == /\ pc' = "done" /\ decision' = d /\ err' = e /\ lastClass' = c
                 /\ UNCHANGED <<attempt, started, until>>

Succeeds ==
  /\ pc = "call"
  /\ Done("succeeded", "none", "none")
  /\ UNCHANGED <<elapsed, ctxErr, forwarded>>

midStream(e) == CASE e = "deadline" -> "mid-deadline" [] e = "canceled" -> "mid-canceled"
                  [] OTHER -> "mid-stream"

\* What the operation may return when the provider's stream ends with one of
\* causes or for a done context: that error, made terminal when an event was
\* forwarded, or at once the error of the context.
Returned(causes) ==
  LET own == causes \cup RctxErr IN
  (IF attempt \in forwarded THEN {midStream(e) : e \in own} ELSE own) \cup RctxErr

\* A provider may have deadlines of its own.
Failures == Returned({"http", "plain", "policy", "tool-retryable", "deadline"})

OverBudget(d) == TotalBudget > 0 /\ elapsed + d > TotalBudget

LastAttempt == attempt = MaxAttempts

\* An attempt failed: classify, then give up or set the timer.
FailsWith(e) == \E c \in Classify(e) :
  \/ c \notin RetryOn /\ Done("not-retryable", e, c)
  \/ c \in RetryOn /\ LastAttempt /\ Done("exhausted", e, c)
  \/ /\ c \in RetryOn /\ ~LastAttempt
     /\ \E d \in nextDelay :
          \/ OverBudget(d) /\ Done("budget-expired", e, c)
          \/ /\ ~OverBudget(d)
             /\ pc' = "delay" /\ until' = elapsed + d
             /\ err' = e /\ lastClass' = c
             /\ UNCHANGED <<attempt, started, decision>>

Fails ==
  /\ pc = "call"
  /\ \E e \in Failures : FailsWith(e)
  /\ UNCHANGED <<elapsed, ctxErr, forwarded>>

\* The timer fires: the next attempt.  Go's select may take this branch
\* if the context is done at that moment too.
TimerFires ==
  /\ pc = "delay" /\ elapsed >= until
  /\ pc' = "call" /\ attempt' = attempt + 1 /\ started' = elapsed
  /\ UNCHANGED <<elapsed, until, ctxErr, decision, err, lastClass, forwarded>>

WaitCancelled ==
  /\ pc = "delay" /\ ctxErr # "none"
  /\ Done("cancelled", ctxErr, lastClass)
  /\ UNCHANGED <<elapsed, ctxErr, forwarded>>

CtxEnds ==
  /\ pc # "done" /\ ctxErr = "none"
  /\ ctxErr' \in {"deadline", "canceled"}
  /\ UNCHANGED <<pc, attempt, elapsed, started, until, decision, err, lastClass, forwarded>>

\* Time passes, no further than the next timer; a select with a ready branch
\* does not wait.
Tick ==
  /\ pc # "done" /\ elapsed < MaxClock
  /\ pc = "delay" => elapsed < until /\ ctxErr = "none"
  /\ pc = "call" => ~AttemptTimedOut
  /\ elapsed' = elapsed + 1
  /\ UNCHANGED <<pc, attempt, started, until, ctxErr, decision, err, lastClass, forwarded>>

Operation == Forward \/ Succeeds \/ Fails
Backoffs == TimerFires \/ WaitCancelled

Next == Operation \/ Backoffs \/ CtxEnds \/ Tick

Spec == Init /\ [][Next]_vars

-----------------------------------------------------------------------------
(* The turn hears one attempt: once an event was forwarded, the call is not *)
(* retried ("Mid-stream: do NOT retry; force terminal", agent/loop.go).     *)
OneVoice == Cardinality(forwarded) <= 1
=============================================================================
