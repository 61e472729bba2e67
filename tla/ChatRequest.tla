----------------------------- MODULE ChatRequest ------------------------------
(***************************************************************************)
(* One chat request from the trigger's dispatch to its end, streamed       *)
(* (handleStreaming) or answered with a single reply (handleSingle,        *)
(* collectSink), around one LLM call with its retries (Gateway): the error *)
(* handed over from the LLM goroutine, the call of a client-side tool and  *)
(* the client's answer to it (ToolResultHost), and the terminators that    *)
(* the agent, the executor and the trigger write one after the other.      *)
(* Further rounds of the loop are in AgentLoop.                            *)
(***************************************************************************)
EXTENDS Gateway

CONSTANT MaxAnswers   \* bound: answers the client sends

VARIABLES
  mode,       \* "streaming" | "single"
  run,        \* "load" | "llm" | "tool" | "subscribed" | "select" | "answered" | "failing" | "emitted" | "over"
  asked,      \* the tool_call event is out
  sent,       \* answers the client has published
  msgs,       \* the wait's channel: at most one answer
  heard,      \* history: answers that arrived while the wait was subscribed
  toolOut,    \* how the wait ended: an answer, "timeout", "ctx", "error", "" before
  said,       \* history: terminators, in the order they were written
  cause,      \* history: the error that ended the agent's turn: Retry's, or "other"
  emitErr,    \* Emit returned an error
  reply       \* the NATS reply: "none", "302", "ok", "500" or "504"

chatVars == <<mode, run, asked, sent, msgs, heard, toolOut, said, cause, emitErr, reply>>
waitVars == <<asked, sent, msgs, heard, toolOut>>
callVars == <<vars, gwVars>>
allVars == <<callVars, chatVars>>

\* A streamed request has its session, its start event and its 302 already.
ChatInit ==
  /\ GatewayInit
  /\ mode \in {"streaming", "single"}
  /\ run = "load" /\ asked = FALSE /\ sent = 0 /\ msgs = << >> /\ heard = << >>
  /\ toolOut = "" /\ said = << >> /\ cause = "none" /\ emitErr = FALSE
  /\ reply = IF mode = "streaming" THEN "302" ELSE "none"

\* The deadline passes, or the client of a stream cancels.
CtxOver ==
  /\ run # "over" /\ ctxErr = "none"
  /\ ctxErr' \in {"deadline"} \cup (IF mode = "streaming" THEN {"canceled"} ELSE {})
  /\ UNCHANGED <<pc, attempt, elapsed, started, until, decision, err, lastClass, forwarded, gwVars, chatVars>>

-----------------------------------------------------------------------------
(* Terminators.                                                             *)

\* A bug: the second terminator is sent too, into a channel of one.
CloseAgain(t) == /\ mode = "single" => said = << >>
                 /\ said' = Append(said, t)

\* collectSink.Close and StreamSession.terminate: all but the first are no-ops.
Close(t) == said' = Append(said, t)
Terminator == Head(said)

\* The agent's own: a terminator for the error e, which Process returns.
failStream(code, e) ==
  /\ Close(code) /\ cause' = e /\ run' = "failing"
  /\ UNCHANGED <<callVars, mode, waitVars, emitErr, reply>>

\* Executor.fail, after an error of Process.
executorFail ==
  /\ run = "failing"
  /\ Close("executor-failed") /\ emitErr' = TRUE /\ run' = "emitted"
  /\ UNCHANGED <<callVars, mode, waitVars, cause, reply>>

\* handleStreaming's goroutine: Emit has returned.
StreamOver ==
  /\ run = "emitted" /\ mode = "streaming"
  /\ IF emitErr THEN Close("executor-failed") ELSE UNCHANGED said
  /\ run' = "over"
  /\ UNCHANGED <<callVars, mode, waitVars, cause, emitErr, reply>>

\* handleSingle and toReply: the terminator before Emit's own error.
ReplyTo ==
  IF Terminator = "complete" THEN "ok"
  ELSE IF Terminator = "timeout" \/ (Terminator = "cancelled" /\ ctxErr # "none") THEN "504"
  ELSE "500"

SingleOver ==
  /\ run = "emitted" /\ mode = "single"
  /\ reply' = ReplyTo /\ run' = "over"
  /\ UNCHANGED <<callVars, mode, waitVars, said, cause, emitErr>>

-----------------------------------------------------------------------------
(* The LLM call and its end.                                                *)

\* History, prompt and the head of the loop.
Load ==
  /\ run = "load"
  /\ \/ \E code \in {"memory-load", "render"} : failStream(code, "other")
     \/ ctxErr # "none" /\ failStream("cancelled", ctxErr)
     \/ /\ ctxErr = "none" /\ run' = "llm"
        /\ UNCHANGED <<callVars, mode, waitVars, said, cause, emitErr, reply>>

LLMCall ==
  /\ run = "llm" /\ Call
  /\ UNCHANGED chatVars

\* A tool_use among the events: the client hears of it while the LLM streams.
ToolCall ==
  /\ run = "llm" /\ attempt \in forwarded /\ ~asked
  /\ provider = "gateway" => ToolUsed
  /\ asked' = TRUE
  /\ UNCHANGED <<callVars, mode, run, sent, msgs, heard, toolOut, said, cause, emitErr, reply>>

\* The message goes to the client's tool; or the turn goes on without one, with
\* a tool of the service or, after end_turn, to its answer.
Proceed ==
  /\ run' \in {"answered"} \cup (IF asked THEN {"tool"} ELSE {})
  /\ UNCHANGED <<callVars, mode, waitVars, said, cause, emitErr, reply>>

\* errors.Is looks through the mid-stream ToolError.
Deadlines == {"deadline", "mid-deadline"}
errCode(e) == CASE e \in Deadlines -> "timeout"
                [] e \in {"canceled", "mid-canceled"} -> "cancelled"
                [] OTHER -> "llm-error"

\* All events of the call have been consumed.
Drained == pc = "done" /\ (provider = "gateway" /\ ToolUsed => asked)

\* A bug: the error is dropped whenever the channel is not ready.
LLMReturnsDropping ==
  /\ run = "llm" /\ Drained
  /\ \/ Proceed
     \/ err # "none" /\ failStream(errCode(err), err)

\* The error is handed over, or dropped when the context is done as well.
LLMReturns ==
  /\ run = "llm" /\ Drained
  /\ \/ err = "none" /\ Proceed
     \/ err # "none" /\ ctxErr # "none" /\ Proceed
     \/ err # "none" /\ failStream(errCode(err), err)

\* The rest of the turn: completeStream.  The terminator of a stream may fail to
\* be published, which is an error of Process.
Complete ==
  /\ run = "answered"
  /\ Close("complete")
  /\ \/ run' = "emitted" /\ UNCHANGED cause
     \/ mode = "streaming" /\ run' = "failing" /\ cause' = "other"
  /\ UNCHANGED <<callVars, mode, waitVars, emitErr, reply>>

\* Or the loop, a further LLM call, a tool or the memory fails it.
Breaks ==
  /\ run = "answered"
  /\ \/ \E code \in {"max-iterations", "memory-append", "tool-error"} : failStream(code, "other")
     \/ \E e \in {"plain", "deadline", "mid-deadline"} \cup ({ctxErr} \ {"none"}) :
          failStream(errCode(e), e)
     \/ ctxErr # "none" /\ failStream("cancelled", ctxErr)

-----------------------------------------------------------------------------
(* The client's answer.                                                     *)

\* A bug: the channel has no buffer, and the callback does not wait.
deliverUnbuffered(m) == msgs' = IF run = "select" /\ msgs = << >> THEN <<m>> ELSE msgs

\* The subscription's callback: only the first message matters.
deliver(m) == msgs' = IF msgs = << >> THEN <<m>> ELSE msgs

\* The client publishes; without a subscription the message goes nowhere.
ClientAnswers ==
  /\ mode = "streaming" /\ asked /\ sent < MaxAnswers
  /\ sent' = sent + 1
  /\ \E m \in {"answer", "skip"} :
       IF run \in {"subscribed", "select"}
       THEN deliver(m) /\ heard' = Append(heard, m)
       ELSE UNCHANGED <<msgs, heard>>
  /\ UNCHANGED <<callVars, mode, run, asked, toolOut, said, cause, emitErr, reply>>

WaitEnds(out) ==
  /\ toolOut' = out /\ run' = "answered"
  /\ UNCHANGED <<callVars, mode, asked, sent, msgs, heard, said, cause, emitErr, reply>>

\* A request without a stream has no host; subscribing may fail.
AwaitFails == run = "tool" /\ WaitEnds("error")

WaitForToolResult ==
  /\ run = "tool" /\ mode = "streaming"
  /\ run' = "subscribed"
  /\ UNCHANGED <<callVars, mode, waitVars, said, cause, emitErr, reply>>

StartTimer ==
  /\ run = "subscribed" /\ run' = "select"
  /\ UNCHANGED <<callVars, mode, waitVars, said, cause, emitErr, reply>>

\* The select: any ready branch; the timer, minutes away, when none is.
SelectMsg == run = "select" /\ msgs # << >> /\ WaitEnds(Head(msgs))
SelectCtx == run = "select" /\ ctxErr # "none" /\ WaitEnds("ctx")
SelectTimer == run = "select" /\ msgs = << >> /\ ctxErr = "none" /\ WaitEnds("timeout")

Await == AwaitFails \/ WaitForToolResult \/ StartTimer \/ SelectMsg \/ SelectCtx \/ SelectTimer

Request == Load \/ LLMCall \/ ToolCall \/ LLMReturns \/ Await \/ Complete \/ Breaks \/ executorFail \/ StreamOver \/ SingleOver

Environment == CtxOver \/ ClientAnswers \/ (GatewayPublishes /\ UNCHANGED chatVars)

ChatNext == Request \/ Environment

(* The goroutine of the request is scheduled, LLM calls end, timers fire.   *)
ChatSpec == ChatInit /\ [][ChatNext]_allVars /\ WF_allVars(Request)

-----------------------------------------------------------------------------
(* Properties                                                               *)

(* Of the several terminators a failing run writes, the agent's decides the *)
(* reply, and it tells what ended the run: 504 if and only if that was a    *)
(* deadline, the request's at the loop's head or in an LLM call, an         *)
(* attempt's or the provider's own; 200 if and only if nothing did.  (A     *)
(* memory or a tool that fails because the deadline has passed is a 500     *)
(* with its own code.)  A 200 carries an answer the LLM finished, with one  *)
(* exception: after the request's deadline LLMReturns may lose the error of *)
(* a call that was cut off, and what it had streamed goes out as the answer *)
(* although docs/CHAT-ENDPOINTS.md:79 says "`finalText` is the complete     *)
(* answer".                                                                 *)
ReplyTrue ==
  mode = "single" /\ run = "over" =>
    /\ reply = "504" <=> cause \in Deadlines
    /\ reply = "ok" <=> cause = "none"
    /\ reply = "ok" => /\ said = <<"complete">>
                       /\ decision = "succeeded" \/ (err # "none" /\ ctxErr = "deadline")
    /\ reply # "none"

(* A client's answer that arrives once WaitForToolResult has subscribed is  *)
(* kept until the select looks, and the first one is what the tool returns. *)
AnswerKept ==
  /\ toolOut \in {"answer", "skip"} => toolOut = Head(heard)
  /\ toolOut = "timeout" => heard = << >>

(* Every request ends: single ones with their reply, streamed ones with a   *)
(* terminator, whatever fails and however often terminators are written.    *)
RequestEnds == <>(run = "over" /\ said # << >>)
=============================================================================
