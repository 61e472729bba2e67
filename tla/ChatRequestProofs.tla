-------------------------- MODULE ChatRequestProofs --------------------------
(***************************************************************************)
(* Proofs about one chat request (ChatRequest, over Gateway and Retry), for *)
(* any retry policy ParsePolicy accepts, any number of answers and any     *)
(* length of the gateway's stream: a client's answer is kept, the reply is *)
(* true, the retries stay within their policy, and, under the policies     *)
(* that Careful names, the turn hears one attempt of the LLM call, whole.  *)
(***************************************************************************)
EXTENDS ChatRequest, FiniteSetTheorems, SequenceTheorems, TLAPS

-----------------------------------------------------------------------------
(* The client's answer.                                                     *)

Answers == {"answer", "skip"}

(* The channel holds the first of the answers heard.  Without this relation *)
(* AnswerKept is not inductive: the select reads the channel, the property  *)
(* speaks of what arrived.                                                  *)
AnswerInv ==
  /\ msgs \in Seq(Answers) /\ heard \in Seq(Answers)
  /\ msgs = << >> => heard = << >>
  /\ msgs # << >> => heard # << >> /\ Head(msgs) = Head(heard)
  /\ run \in {"load", "llm", "tool", "subscribed", "select"} => toolOut = ""
  /\ AnswerKept

-----------------------------------------------------------------------------
(* The reply.                                                               *)

Codes == {"memory-load", "render", "timeout", "cancelled", "llm-error", "max-iterations",
          "memory-append", "tool-error"}

(* What the first terminator of a failing run says of its cause.            *)
Blames(c, e) ==
  /\ e # "none" /\ (c \in {"timeout", "cancelled"} <=> e \in Deadlines)
  /\ c = "cancelled" => ctxErr # "none"

CallOK ==
  /\ ctxErr \in {"none", "deadline", "canceled"}
  /\ mode = "single" => ctxErr # "canceled"
  /\ err \in {"canceled", "mid-canceled"} => ctxErr = "canceled"
  /\ pc = "done" /\ err = "none" => decision = "succeeded"

(* The LLM call that the answer was read from, its error dropped if it had  *)
(* one.                                                                     *)
Succeeded == decision = "succeeded" \/ (err # "none" /\ ctxErr # "none")

SaidOK ==
  /\ run \in {"load", "llm", "tool", "subscribed", "select", "answered"} => said = << >> /\ cause = "none"
  /\ run \in {"tool", "subscribed", "select", "answered"} => pc = "done" /\ Succeeded
  /\ mode = "single" /\ run = "failing" => \E c \in Codes : said = <<c>> /\ Blames(c, cause)
  /\ mode = "single" /\ run \in {"emitted", "over"} =>
       \/ said = <<"complete">> /\ cause = "none" /\ pc = "done" /\ Succeeded
       \/ \E c \in Codes : said = <<c, "executor-failed">> /\ Blames(c, cause)
  /\ mode = "single" /\ run = "over" => reply = ReplyTo

ReplyInv == CallOK /\ SaidOK

-----------------------------------------------------------------------------
(* The voice of the LLM call.                                               *)

(* No policy retries a mid-stream error, and none retries a deadline after  *)
(* events were forwarded: not the attempt's own, and the request's only     *)
(* with a delay, in which the done context is noticed.                      *)
Careful ==
  /\ "validation" \notin RetryOn
  /\ "timeout" \notin RetryOn \/ (PerAttemptTimeout = 0 /\ InitialDelay > 0)

(* The attempt loop: an event was forwarded by this attempt only, and       *)
(* there is no going on after it.                                           *)
LoopOK ==
  /\ pc \in {"call", "delay", "done"}
  /\ attempt \in 1..MaxAttempts /\ (pc = "delay" => attempt < MaxAttempts)
  /\ elapsed \in Nat /\ until \in Nat
  /\ ctxErr \in {"none", "deadline", "canceled"}
  /\ forwarded \subseteq {attempt}
  /\ pc = "delay" => forwarded = {} \/ (ctxErr # "none" /\ until > elapsed)
  /\ decision = "succeeded" => pc = "done"

Events == {"text", "metadata", "toolUseStart", "toolInputDelta", "contentBlockStop", "done", "error"}

(* A tool use is open after the first n events.                             *)
OpenAt(n) == \E i \in 1..n : /\ script[i] = "toolUseStart"
                             /\ \A j \in i..n : script[j] # "contentBlockStop"

Grammar ==
  /\ script \in Seq(Events) /\ inbox \in Seq(1..Len(script))
  /\ \A n \in 1..Len(script) :
       /\ script[n] \in {"toolInputDelta", "contentBlockStop"} => OpenAt(n - 1)
       /\ script[n] \in {"text", "metadata", "toolUseStart", "done"} => ~OpenAt(n - 1)
       /\ script[n] \in {"done", "error"} => n = Len(script)

VoiceOK ==
  /\ voice \in Seq(Seq(Nat))
  /\ InTurn /\ \A k \in DOMAIN voice : Whole(voice[k])
  /\ Heard \subseteq Spoken
  /\ \A j \in Heard : \A i \in Spoken : i < j => i \in Heard

(* While consumeStream listens: all that was spoken up to want is heard or  *)
(* in the tool use being accumulated, which is the open one.                *)
AccumOK ==
  /\ accum \in Seq(Nat)
  /\ \A b \in 1..Len(accum) : accum[b] \in 1..want /\ accum[b] \in DOMAIN script
  /\ \A a, b \in 1..Len(accum) : a < b => accum[a] < accum[b]
  /\ accum # << >> => script[accum[1]] = "toolUseStart"
  /\ \A b \in 2..Len(accum) : script[accum[b]] = "toolInputDelta"
  /\ \A j \in Heard : \A b \in 1..Len(accum) : j < accum[b]

Listening ==
  /\ want \in 0..Len(script)
  /\ AccumOK
  /\ accum # << >> => OpenAt(want)
  /\ OpenAt(want) => accum # << >>
  /\ \A j \in Heard : j <= want
  /\ \A i \in Spoken : i <= want => i \in Heard \/ \E b \in 1..Len(accum) : accum[b] = i

GatewayOK ==
  /\ Grammar /\ VoiceOK
  /\ gpc \in {"idle", "request", "consume"}
  /\ gpc # "idle" => pc = "call" /\ Listening
  /\ gpc = "idle" /\ pc = "call" => forwarded = {}
  /\ forwarded = {} => voice = << >>
  /\ decision = "succeeded" => Spoken \subseteq Heard /\ script # << >> /\ Last(script) = "done"

VoiceInv == LoopOK /\ (provider = "gateway" => GatewayOK)

-----------------------------------------------------------------------------
(* Adding to a sequence.                                                    *)
LEMMA AppendFacts ==
  ASSUME NEW S, NEW h \in Seq(S), NEW m \in S
  PROVE  /\ Append(h, m) \in Seq(S) /\ Append(h, m) # << >>
         /\ h # << >> => Head(Append(h, m)) = Head(h)
<1>1. Append(h, m) \in Seq(S) /\ Len(Append(h, m)) = Len(h) + 1
  OBVIOUS
<1>2. Append(h, m) # << >>
  BY <1>1
<1>3. ASSUME h # << >> PROVE Head(Append(h, m)) = Head(h)
  BY <1>3
<1> QED BY <1>1, <1>2, <1>3

(* The head of a sequence.                                                  *)
LEMMA HeadIn ==
  ASSUME NEW S, NEW h \in Seq(S), h # << >>
  PROVE  Head(h) \in S
OBVIOUS

(* Adding a second element.                                                 *)
LEMMA AppendPair == ASSUME NEW c, NEW d PROVE Append(<<c>>, d) = <<c, d>>
<1> DEFINE S == {c, d}
           q == Append(<<c>>, d)
<1>1. <<c>> \in Seq(S) /\ <<c, d>> \in Seq(S) /\ d \in S
  OBVIOUS
<1>2. q \in Seq(S) /\ Len(q) = 2 /\ q[1] = c /\ q[2] = d
  BY <1>1
<1>3. Len(<<c, d>>) = 2 /\ <<c, d>>[1] = c /\ <<c, d>>[2] = d
  OBVIOUS
<1>4. \A i \in 1..Len(q) : q[i] = <<c, d>>[i]
  BY <1>2, <1>3
<1> QED BY <1>1, <1>2, <1>3, <1>4, SeqEqual

(* Steps that leave the wait for the client's answer alone.                 *)
LEMMA WaitUntouched ==
  ASSUME AnswerInv, UNCHANGED <<msgs, heard, toolOut>>,
         run \in {"load", "llm", "tool", "subscribed", "select"}
           \/ run' \notin {"load", "llm", "tool", "subscribed", "select"}
  PROVE  AnswerInv'
BY DEF AnswerInv, AnswerKept

(* The first of the answers that the subscription of WaitForToolResult has  *)
(* received is the one its select takes, however many follow and whenever   *)
(* the timer starts; the wait times out only if none has come (AnswerKept). *)
THEOREM AnswersKept == ChatSpec => []AnswerKept
<1>1. ChatInit => AnswerInv
  <2> SUFFICES ASSUME ChatInit PROVE AnswerInv
    OBVIOUS
  <2>1. msgs = << >> /\ heard = << >> /\ toolOut = "" /\ run = "load"
    BY DEF ChatInit
  <2>2. << >> \in Seq(Answers)
    OBVIOUS
  <2> QED BY <2>1, <2>2, Zenon DEF AnswerInv, AnswerKept
<1>2. AnswerInv /\ [ChatNext]_allVars => AnswerInv'
  <2> SUFFICES ASSUME AnswerInv, [ChatNext]_allVars PROVE AnswerInv'
    OBVIOUS
  <2>1. CASE LLMCall \/ ToolCall \/ CtxOver \/ (GatewayPublishes /\ UNCHANGED chatVars) \/ UNCHANGED allVars
    BY <2>1, WaitUntouched DEF LLMCall, ToolCall, CtxOver, allVars, chatVars
  <2>2. CASE Load \/ LLMReturns
    BY <2>2, WaitUntouched DEF Load, LLMReturns, Proceed, failStream, waitVars
  <2>3. CASE Complete \/ Breaks \/ executorFail \/ StreamOver \/ SingleOver
    BY <2>3, WaitUntouched DEF Complete, Breaks, failStream, executorFail, StreamOver, SingleOver, waitVars
  <2>4. CASE WaitForToolResult \/ StartTimer
    BY <2>4, WaitUntouched DEF WaitForToolResult, StartTimer, waitVars
  <2>5. CASE AwaitFails \/ SelectCtx
    BY <2>5 DEF AwaitFails, SelectCtx, WaitEnds, AnswerInv, AnswerKept
  <2>6. CASE SelectMsg
    <3>1. /\ msgs # << >> /\ toolOut' = Head(msgs) /\ run' = "answered" /\ UNCHANGED <<msgs, heard>>
      BY <2>6 DEF SelectMsg, WaitEnds
    <3>2. toolOut' = Head(heard) /\ toolOut' # "timeout"
      <4>1. Head(msgs) \in Answers
        BY <3>1, HeadIn DEF AnswerInv
      <4> QED BY <3>1, <4>1 DEF AnswerInv, Answers
    <3> QED BY <3>1, <3>2, Zenon DEF AnswerInv, AnswerKept
  <2>7. CASE SelectTimer
    BY <2>7 DEF SelectTimer, WaitEnds, AnswerInv, AnswerKept
  <2>8. CASE ClientAnswers
    <3>1. UNCHANGED <<run, toolOut>>
      BY <2>8 DEF ClientAnswers
    <3>2. CASE run \notin {"subscribed", "select"}
      BY <2>8, <3>1, <3>2, WaitUntouched DEF ClientAnswers
    <3>3. CASE run \in {"subscribed", "select"}
      <4>1. PICK m \in Answers : deliver(m) /\ heard' = Append(heard, m)
        BY <2>8, <3>3 DEF ClientAnswers, Answers
      <4>2. toolOut = ""
        BY <3>3 DEF AnswerInv
      <4>3. CASE msgs = << >>
        <5>1. msgs' = <<m>>
          BY <4>1, <4>3 DEF deliver
        <5>2. heard = << >>
          BY <4>3 DEF AnswerInv
        <5>3. heard' = <<m>>
          BY <4>1, <5>2
        <5>4. <<m>> \in Seq(Answers) /\ <<m>> # << >>
          OBVIOUS
        <5> QED BY <3>1, <3>3, <4>2, <5>1, <5>3, <5>4, Zenon DEF AnswerInv, AnswerKept
      <4>4. CASE msgs # << >>
        <5>1. msgs' = msgs /\ heard' \in Seq(Answers) /\ heard' # << >> /\ Head(heard') = Head(heard)
          <6>1. heard \in Seq(Answers) /\ heard # << >>
            BY <4>4 DEF AnswerInv
          <6>2. /\ Append(heard, m) \in Seq(Answers) /\ Append(heard, m) # << >>
                /\ Head(Append(heard, m)) = Head(heard)
            BY <6>1, AppendFacts
          <6> QED BY <4>1, <4>4, <6>2 DEF deliver
        <5> QED BY <3>1, <4>2, <4>4, <5>1, Zenon DEF AnswerInv, AnswerKept
      <4> QED BY <4>3, <4>4
    <3> QED BY <3>2, <3>3
  <2> QED BY <2>1, <2>2, <2>3, <2>4, <2>5, <2>6, <2>7, <2>8 DEF ChatNext, Request, Environment, Await
<1>3. AnswerInv => AnswerKept
  BY DEF AnswerInv
<1> QED BY <1>1, <1>2, <1>3, PTL DEF ChatSpec

-----------------------------------------------------------------------------
(* What an operation returns when it fails: an error, and a cancellation    *)
(* only of a cancelled context.                                             *)
LEMMA ReturnedIsError ==
  ASSUME CallOK, NEW causes, causes \cap {"none", "canceled", "mid-canceled"} = {},
         NEW e \in Returned(causes)
  PROVE  e # "none" /\ (e \in {"canceled", "mid-canceled"} => ctxErr = "canceled")
<1>1. ASSUME NEW x \in RctxErr PROVE x \in {ctxErr, "deadline"} /\ x \notin {"none", "mid-canceled"}
  BY <1>1 DEF RctxErr, CallOK
<1>2. ASSUME NEW x \in causes \cup RctxErr
      PROVE  x \notin {"none", "mid-canceled"} /\ (x = "canceled" => ctxErr = "canceled")
  BY <1>1, <1>2
<1>3. CASE e \in causes \cup RctxErr
  BY <1>2, <1>3
<1>4. CASE \E x \in causes \cup RctxErr : e = midStream(x)
  BY <1>2, <1>4 DEF midStream
<1> QED BY <1>3, <1>4 DEF Returned

(* Steps of the retried call, of either provider.                           *)
LEMMA CallKeepsErrors ==
  ASSUME CallOK, Call, UNCHANGED mode
  PROVE  CallOK' /\ UNCHANGED ctxErr /\ pc # "done"
<1>1. ASSUME NEW causes, causes \cap {"none", "canceled", "mid-canceled"} = {}, UNCHANGED ctxErr,
             pc = "call", NEW e \in Returned(causes), FailsWith(e)
      PROVE  CallOK'
  <2>1. err' = e
    BY <1>1 DEF FailsWith, Done
  <2>2. e # "none" /\ (e \in {"canceled", "mid-canceled"} => ctxErr = "canceled")
    BY <1>1, ReturnedIsError
  <2> QED BY <1>1, <2>1, <2>2 DEF CallOK
<1>2. CASE Fails
  <2>1. PICK e \in Returned({"http", "plain", "policy", "tool-retryable", "deadline"}) : FailsWith(e)
    BY <1>2 DEF Fails, Failures
  <2> QED BY <1>1, <1>2, <2>1 DEF Fails
<1>3. CASE StreamFails
  <2>1. PICK e \in Returned({"plain", "http", "deadline"}) : FailsWith(e)
    BY <1>3 DEF StreamFails, StreamErrors
  <2> QED BY <1>1, <1>3, <2>1 DEF StreamFails
<1>4. CASE Succeeds \/ StreamOverWell
  BY <1>4 DEF StreamOverWell, Succeeds, Done, CallOK
<1>5. CASE Forward \/ Tick \/ TimerFires
  BY <1>5 DEF Forward, Tick, TimerFires, CallOK
<1>6. CASE StreamBegins \/ Accepted
  BY <1>6 DEF StreamBegins, Accepted, CallOK, vars
<1>7. CASE consumeStream
  BY <1>7 DEF consumeStream, Consume, CallOK
<1>8. CASE WaitCancelled
  BY <1>8 DEF WaitCancelled, Done, CallOK
<1> QED BY <1>2, <1>3, <1>4, <1>5, <1>6, <1>7, <1>8 DEF Call, Stream, Operation, Backoffs

(* A failure of the run is blamed on what the terminator names.             *)
LEMMA FailingSaid ==
  ASSUME NEW c \in Codes, NEW e, mode = "single" => Blames(c, e), said = << >>, failStream(c, e), CallOK
  PROVE  ReplyInv'
<1>1. /\ said' = <<c>> /\ cause' = e /\ run' = "failing"
      /\ UNCHANGED <<pc, ctxErr, decision, err, mode>>
  BY DEF failStream, Close, callVars, vars
<1>2. mode' = "single" => Blames(c, cause)'
  BY <1>1 DEF Blames
<1>3. CallOK'
  BY <1>1 DEF CallOK
<1> QED BY <1>1, <1>2, <1>3 DEF ReplyInv, SaidOK

(* The reply of a single-answer request (ReplyTrue) tells what ended the    *)
(* run, whichever of agent, executor and trigger closes the sink after it:  *)
(* 504 if and only if that was a deadline, "ok" if and only if nothing did, *)
(* and then the LLM call succeeded or its error was dropped after the       *)
(* request's deadline.                                                      *)
THEOREM RepliesTrue == ChatSpec => []ReplyTrue
<1>1. ChatInit => ReplyInv
  BY DEF ChatInit, GatewayInit, Init, ReplyInv, CallOK, SaidOK
<1>2. ReplyInv /\ [ChatNext]_allVars => ReplyInv'
  <2> SUFFICES ASSUME ReplyInv, [ChatNext]_allVars PROVE ReplyInv'
    OBVIOUS
  <2> USE DEF ReplyInv
  <2>1. CASE LLMCall
    <3>1. run = "llm" /\ UNCHANGED chatVars
      BY <2>1 DEF LLMCall
    <3>2. CallOK'
      BY <2>1, <3>1, CallKeepsErrors DEF LLMCall, chatVars
    <3> QED BY <3>1, <3>2 DEF SaidOK, chatVars
  <2>2. ASSUME UNCHANGED <<pc, ctxErr, decision, err, mode, said, cause, run, reply>>
        PROVE  ReplyInv'
    BY <2>2 DEF CallOK, SaidOK, Succeeded, Blames, ReplyTo, Terminator
  <2>3. CASE ToolCall \/ ClientAnswers \/ (GatewayPublishes /\ UNCHANGED chatVars) \/ UNCHANGED allVars
    BY <2>2, <2>3 DEF ToolCall, ClientAnswers, GatewayPublishes, allVars, callVars, chatVars, vars
  <2>4. CASE CtxOver
    <3>1. /\ run # "over" /\ ctxErr = "none" /\ ctxErr' \in {"deadline", "canceled"}
          /\ mode = "single" => ctxErr' = "deadline"
          /\ UNCHANGED <<pc, decision, err, mode, said, cause, run, reply>>
      BY <2>4 DEF CtxOver, chatVars
    <3>2. CallOK'
      BY <3>1 DEF CallOK
    <3>3. \A c \in Codes : Blames(c, cause) => Blames(c, cause)'
      BY <3>1 DEF Blames
    <3> QED BY <3>1, <3>2, <3>3 DEF SaidOK, Succeeded
  <2>5. CASE Load
    <3>1. run = "load" /\ said = << >>
      BY <2>5 DEF Load, SaidOK
    <3>2. ASSUME NEW code \in {"memory-load", "render"}, failStream(code, "other") PROVE ReplyInv'
      <4>1. code \in Codes /\ Blames(code, "other")
        BY DEF Codes, Blames, Deadlines
      <4> QED BY <3>1, <3>2, <4>1, FailingSaid
    <3>3. CASE ctxErr # "none" /\ failStream("cancelled", ctxErr)
      <4>1. "cancelled" \in Codes /\ (mode = "single" => Blames("cancelled", ctxErr))
        BY <3>3 DEF Codes, Blames, Deadlines, CallOK
      <4> QED BY <3>1, <3>3, <4>1, FailingSaid
    <3>4. ASSUME run' = "llm", UNCHANGED <<callVars, mode, waitVars, said, cause, emitErr, reply>>
          PROVE  ReplyInv'
      BY <3>1, <3>4 DEF callVars, vars, CallOK, SaidOK
    <3> QED BY <2>5, <3>2, <3>3, <3>4 DEF Load
  <2>6. CASE LLMReturns
    <3>1. run = "llm" /\ pc = "done" /\ said = << >>
      BY <2>6 DEF LLMReturns, Drained, SaidOK
    <3>2. CASE Proceed /\ (err = "none" \/ ctxErr # "none")
      <4>1. run' \in {"tool", "answered"} /\ UNCHANGED <<pc, ctxErr, decision, err, mode, said, cause, reply>>
        BY <3>2 DEF Proceed, callVars, vars
      <4> QED BY <3>1, <3>2, <4>1 DEF CallOK, SaidOK, Succeeded
    <3>3. CASE failStream(errCode(err), err) /\ err # "none"
      <4>1. errCode(err) \in Codes /\ (mode = "single" => Blames(errCode(err), err))
        BY <3>3 DEF errCode, Codes, Blames, CallOK, Deadlines
      <4> QED BY <3>1, <3>3, <4>1, FailingSaid
    <3> QED BY <2>6, <3>2, <3>3 DEF LLMReturns
  <2>7. CASE Breaks
    <3>1. run = "answered" /\ said = << >>
      BY <2>7 DEF Breaks, SaidOK
    <3>2. ASSUME NEW code \in {"max-iterations", "memory-append", "tool-error"}, failStream(code, "other")
          PROVE  ReplyInv'
      <4>1. code \in Codes /\ Blames(code, "other")
        BY DEF Codes, Blames, Deadlines
      <4> QED BY <3>1, <3>2, <4>1, FailingSaid
    <3>3. ASSUME NEW e \in {"plain", "deadline", "mid-deadline"} \cup ({ctxErr} \ {"none"}),
                 failStream(errCode(e), e)
          PROVE  ReplyInv'
      <4>1. errCode(e) \in Codes /\ (mode = "single" => Blames(errCode(e), e))
        BY <3>3 DEF errCode, Codes, Blames, CallOK, Deadlines
      <4> QED BY <3>1, <3>3, <4>1, FailingSaid
    <3>4. CASE ctxErr # "none" /\ failStream("cancelled", ctxErr)
      <4>1. "cancelled" \in Codes /\ (mode = "single" => Blames("cancelled", ctxErr))
        BY <3>4 DEF Codes, Blames, Deadlines, CallOK
      <4> QED BY <3>1, <3>4, <4>1, FailingSaid
    <3> QED BY <2>7, <3>2, <3>3, <3>4 DEF Breaks
  <2>8. CASE Complete
    <3>1. /\ run = "answered" /\ said' = Append(<<>>, "complete")
          /\ run' \in {"emitted", "failing"}
          /\ mode = "single" => run' = "emitted" /\ UNCHANGED cause
          /\ UNCHANGED <<pc, ctxErr, decision, err, mode>>
      BY <2>8 DEF Complete, Close, callVars, vars, SaidOK
    <3>2. said' = <<"complete">>
      BY <3>1
    <3>3. CallOK'
      BY <3>1 DEF CallOK
    <3> QED BY <3>1, <3>2, <3>3 DEF SaidOK, Succeeded
  <2>9. CASE Await
    <3>1. /\ run \in {"tool", "subscribed", "select"} /\ run' \in {"subscribed", "select", "answered"}
          /\ UNCHANGED <<pc, ctxErr, decision, err, mode, said, cause, reply>>
      BY <2>9 DEF Await, AwaitFails, WaitForToolResult, StartTimer, SelectMsg, SelectCtx, SelectTimer,
                  WaitEnds, callVars, vars
    <3> QED BY <3>1 DEF CallOK, SaidOK, Succeeded
  <2>10. CASE executorFail
    <3>1. /\ run = "failing" /\ run' = "emitted" /\ said' = Append(said, "executor-failed")
          /\ UNCHANGED <<pc, ctxErr, decision, err, mode, cause>>
      BY <2>10 DEF executorFail, Close, callVars, vars
    <3>2. CallOK'
      BY <3>1 DEF CallOK
    <3>3. CASE mode # "single"
      BY <3>1, <3>2, <3>3 DEF SaidOK
    <3>4. CASE mode = "single"
      <4>1. PICK c \in Codes : said = <<c>> /\ Blames(c, cause)
        BY <3>1, <3>4 DEF SaidOK
      <4>2. said' = <<c, "executor-failed">>
        BY <3>1, <4>1, AppendPair, Zenon
      <4>3. Blames(c, cause)'
        BY <3>1, <4>1 DEF Blames
      <4> QED BY <3>1, <3>2, <4>2, <4>3 DEF SaidOK
    <3> QED BY <3>3, <3>4
  <2>11. CASE StreamOver
    <3>1. /\ mode = "streaming" /\ run' = "over" /\ UNCHANGED <<pc, ctxErr, decision, err, mode>>
      BY <2>11 DEF StreamOver, callVars, vars
    <3> QED BY <3>1 DEF CallOK, SaidOK
  <2>12. CASE SingleOver
    <3>1. /\ run = "emitted" /\ run' = "over" /\ reply' = ReplyTo
          /\ UNCHANGED <<pc, ctxErr, decision, err, mode, said, cause>>
      BY <2>12 DEF SingleOver, callVars, vars
    <3>2. ReplyTo' = ReplyTo
      BY <3>1 DEF ReplyTo, Terminator
    <3>3. \A c \in Codes : Blames(c, cause) => Blames(c, cause)'
      BY <3>1 DEF Blames
    <3>4. CallOK'
      BY <3>1 DEF CallOK
    <3> QED BY <3>1, <3>2, <3>3, <3>4 DEF SaidOK, Succeeded
  <2> QED BY <2>1, <2>3, <2>4, <2>5, <2>6, <2>7, <2>8, <2>9, <2>10, <2>11, <2>12
          DEF ChatNext, Request, Environment
<1>3. ReplyInv => ReplyTrue
  <2> SUFFICES ASSUME ReplyInv, mode = "single", run = "over"
               PROVE  /\ reply = "504" <=> cause \in Deadlines
                      /\ reply = "ok" <=> cause = "none"
                      /\ reply = "ok" => /\ said = <<"complete">>
                                         /\ decision = "succeeded" \/ (err # "none" /\ ctxErr = "deadline")
                      /\ reply # "none"
    BY DEF ReplyTrue
  <2>1. reply = ReplyTo /\ ctxErr \in {"none", "deadline"}
    BY DEF ReplyInv, SaidOK, CallOK
  <2>2. CASE said = <<"complete">> /\ cause = "none" /\ Succeeded
    BY <2>1, <2>2 DEF ReplyTo, Terminator, Succeeded, Deadlines
  <2>3. ASSUME NEW c \in Codes, said = <<c, "executor-failed">>, Blames(c, cause)
        PROVE  (reply = "504" <=> cause \in Deadlines) /\ reply # "ok" /\ reply # "none" /\ cause # "none"
    BY <2>1, <2>3 DEF ReplyTo, Terminator, Blames, Codes
  <2> QED BY <2>2, <2>3 DEF ReplyInv, SaidOK
<1> QED BY <1>1, <1>2, <1>3, PTL DEF ChatSpec

-----------------------------------------------------------------------------
(* The factors of an exponential backoff, of at most ten attempts.          *)
LEMMA Powers ==
  ASSUME NEW n \in 0..9
  PROVE  2^n \in {1, 2, 4, 8, 16, 32, 64, 128, 256, 512}
<1>0. CASE n = 0
  <2>1. 2^0 = 1 OBVIOUS
  <2> QED BY <1>0, <2>1
<1>1. CASE n = 1
  <2>1. 2^1 = 2 OBVIOUS
  <2> QED BY <1>1, <2>1
<1>2. CASE n = 2
  <2>1. 2^2 = 4 OBVIOUS
  <2> QED BY <1>2, <2>1
<1>3. CASE n = 3
  <2>1. 2^3 = 8 OBVIOUS
  <2> QED BY <1>3, <2>1
<1>4. CASE n = 4
  <2>1. 2^4 = 16 OBVIOUS
  <2> QED BY <1>4, <2>1
<1>5. CASE n = 5
  <2>1. 2^5 = 32 OBVIOUS
  <2> QED BY <1>5, <2>1
<1>6. CASE n = 6
  <2>1. 2^6 = 64 OBVIOUS
  <2> QED BY <1>6, <2>1
<1>7. CASE n = 7
  <2>1. 2^7 = 128 OBVIOUS
  <2> QED BY <1>7, <2>1
<1>8. CASE n = 8
  <2>1. 2^8 = 256 OBVIOUS
  <2> QED BY <1>8, <2>1
<1>9. CASE n = 9
  <2>1. 2^9 = 512 OBVIOUS
  <2> QED BY <1>9, <2>1
<1> QED BY <1>0, <1>1, <1>2, <1>3, <1>4, <1>5, <1>6, <1>7, <1>8, <1>9

(* The delays of nextDelay; with an initial delay none of them is zero, the *)
(* jitter and the cap included.                                             *)
LEMMA Delays ==
  ASSUME attempt \in 1..MaxAttempts, NEW d \in nextDelay
  PROVE  d \in Nat /\ (InitialDelay > 0 => d > 0)
<1>1. MaxAttempts \in 1..10 /\ InitialDelay \in Nat /\ MaxDelay \in Nat
  BY PolicyBounds DEF Policy, ParsePolicy
<1> DEFINE x == IF Backoff = "fixed" THEN InitialDelay ELSE InitialDelay * 2^(attempt - 1)
<1>2. x \in Nat /\ (InitialDelay > 0 => x > 0)
  <2>1. attempt - 1 \in 0..9
    BY <1>1
  <2>2. 2^(attempt - 1) \in {1, 2, 4, 8, 16, 32, 64, 128, 256, 512}
    BY <2>1, Powers
  <2> QED BY <1>1, <2>2
<1>3. BaseDelay \in Nat /\ (InitialDelay > 0 => BaseDelay > 0)
  <2>1. BaseDelay = IF MaxDelay > 0 /\ x > MaxDelay THEN MaxDelay ELSE x
    BY DEF BaseDelay
  <2> HIDE DEF x
  <2> QED BY <1>1, <1>2, <2>1
<1> QED BY <1>3 DEF nextDelay

(* A failed attempt that goes into a delay has forwarded nothing, unless    *)
(* the request's own deadline has passed, in a wait that will notice it.    *)
LEMMA FailsOK ==
  ASSUME Careful, LoopOK, pc = "call", NEW causes,
         causes \subseteq {"http", "plain", "policy", "tool-retryable", "deadline"},
         NEW e \in Returned(causes), FailsWith(e), UNCHANGED <<elapsed, ctxErr, forwarded>>
  PROVE  LoopOK' /\ pc' \in {"delay", "done"} /\ decision' # "succeeded"
<1>1. CASE pc' = "done" /\ decision' # "succeeded" /\ UNCHANGED <<attempt, until>>
  BY <1>1 DEF LoopOK
<1>2. ASSUME NEW c \in Classify(e), c \in RetryOn, ~LastAttempt, NEW d \in nextDelay, pc' = "delay",
             until' = elapsed + d, UNCHANGED <<attempt, decision>>
      PROVE  LoopOK' /\ decision' # "succeeded"
  <2>1. d \in Nat /\ (InitialDelay > 0 => d > 0)
    BY <1>2, Delays DEF LoopOK
  <2>2. attempt < MaxAttempts /\ decision # "succeeded"
    <3>1. MaxAttempts \in 1..10
      BY PolicyBounds DEF Policy, ParsePolicy
    <3> QED BY <1>2, <3>1 DEF LoopOK, LastAttempt
  <2>3. ASSUME attempt \in forwarded PROVE ctxErr # "none" /\ d > 0
    <3>1. RctxErr \subseteq {"deadline", "canceled"}
      BY DEF RctxErr, LoopOK
    <3>2. e \notin {midStream(x) : x \in causes \cup RctxErr}
      <4> SUFFICES ASSUME NEW x, e = midStream(x) PROVE FALSE
        OBVIOUS
      <4>1. e \in {"mid-stream", "mid-deadline", "mid-canceled"}
        BY DEF midStream
      <4> QED BY <1>2, <4>1 DEF Classify, Careful
    <3>3. e \in RctxErr
      BY <2>3, <3>2 DEF Returned
    <3>4. e = "deadline"
      BY <1>2, <3>1, <3>3 DEF Classify, Careful
    <3>5. PerAttemptTimeout = 0 /\ InitialDelay > 0
      BY <1>2, <3>4 DEF Classify, Careful
    <3>6. ctxErr # "none"
      BY <3>3, <3>5 DEF RctxErr, AttemptTimedOut
    <3> QED BY <2>1, <3>5, <3>6
  <2>4. elapsed + d \in Nat /\ (d > 0 => elapsed + d > elapsed)
    BY <2>1 DEF LoopOK
  <2>5. forwarded = {} \/ attempt \in forwarded
    BY DEF LoopOK
  <2> QED BY <1>2, <2>2, <2>3, <2>4, <2>5 DEF LoopOK
<1> QED BY <1>1, <1>2 DEF FailsWith, Done

(* The steps of the attempt loop outside the provider's stream.             *)
LEMMA BackoffOK ==
  ASSUME Careful, LoopOK, Backoffs \/ Tick
  PROVE  /\ LoopOK' /\ UNCHANGED forwarded
         /\ decision' = decision \/ (pc' = "done" /\ decision' = "cancelled")
         /\ pc' = "call" /\ pc # "call" => forwarded = {}
         /\ pc' = pc \/ pc = "delay"
<1>1. CASE TimerFires
  <2>1. elapsed >= until /\ pc = "delay" /\ pc' = "call" /\ attempt' = attempt + 1
        /\ UNCHANGED <<elapsed, until, ctxErr, decision, forwarded>>
    BY <1>1 DEF TimerFires
  <2>2. ~(until > elapsed)
    BY <2>1 DEF LoopOK
  <2>3. forwarded = {}
    BY <2>1, <2>2 DEF LoopOK
  <2>4. attempt + 1 \in 1..MaxAttempts
    <3>1. MaxAttempts \in 1..10
      BY PolicyBounds DEF Policy, ParsePolicy
    <3> QED BY <2>1, <3>1 DEF LoopOK
  <2> QED BY <2>1, <2>3, <2>4 DEF LoopOK
<1>2. CASE WaitCancelled
  BY <1>2 DEF WaitCancelled, Done, LoopOK
<1>3. CASE Tick
  <2>1. /\ pc # "done" /\ (pc = "delay" => ctxErr = "none") /\ elapsed' = elapsed + 1
        /\ UNCHANGED <<pc, attempt, until, ctxErr, decision, forwarded>>
    BY <1>3 DEF Tick
  <2>2. elapsed + 1 \in Nat
    BY DEF LoopOK
  <2> QED BY <2>1, <2>2 DEF LoopOK
<1> QED BY <1>1, <1>2, <1>3 DEF Backoffs

(* One operation of a provider that is left open.                           *)
LEMMA OperationOK ==
  ASSUME Careful, LoopOK, Operation
  PROVE  LoopOK'
<1>1. CASE Forward
  BY <1>1 DEF Forward, LoopOK
<1>2. CASE Succeeds
  BY <1>2 DEF Succeeds, Done, LoopOK
<1>3. CASE Fails
  <2>1. PICK e \in Returned({"http", "plain", "policy", "tool-retryable", "deadline"}) : FailsWith(e)
    BY <1>3 DEF Fails, Failures
  <2> QED BY <1>3, <2>1, FailsOK DEF Fails
<1> QED BY <1>1, <1>2, <1>3 DEF Operation

-----------------------------------------------------------------------------
(* The positions that the turn has heard.                                   *)
LEMMA HeardIs ==
  ASSUME NEW x
  PROVE  x \in Heard <=> \E k \in DOMAIN voice : \E a \in DOMAIN voice[k] : voice[k][a] = x
BY DEF Heard, Range

(* A tool use opens and closes with the events that say so.                 *)
LEMMA OpenNext ==
  ASSUME script \in Seq(Events), NEW n \in 0..(Len(script) - 1)
  PROVE  /\ script[n + 1] = "toolUseStart" => OpenAt(n + 1)
         /\ script[n + 1] = "contentBlockStop" => ~OpenAt(n + 1)
         /\ script[n + 1] \notin {"toolUseStart", "contentBlockStop"} => (OpenAt(n + 1) <=> OpenAt(n))
<1>1. n \in Nat /\ n + 1 \in 1..(n + 1)
  OBVIOUS
<1>2. ASSUME script[n + 1] = "toolUseStart" PROVE OpenAt(n + 1)
  <2>1. \A j \in (n + 1)..(n + 1) : script[j] # "contentBlockStop"
    BY <1>1, <1>2
  <2> QED BY <1>1, <1>2, <2>1 DEF OpenAt
<1>3. ASSUME script[n + 1] = "contentBlockStop" PROVE ~OpenAt(n + 1)
  <2>1. \A i \in 1..(n + 1) : n + 1 \in i..(n + 1)
    BY <1>1
  <2> QED BY <1>3, <2>1 DEF OpenAt
<1>4. ASSUME script[n + 1] # "toolUseStart", OpenAt(n + 1) PROVE OpenAt(n)
  <2>1. PICK i \in 1..(n + 1) : /\ script[i] = "toolUseStart"
                                /\ \A j \in i..(n + 1) : script[j] # "contentBlockStop"
    BY <1>4 DEF OpenAt
  <2>2. i \in 1..n
    BY <1>1, <1>4, <2>1
  <2>3. \A j \in i..n : j \in i..(n + 1)
    BY <1>1, <2>2
  <2> QED BY <2>1, <2>2, <2>3 DEF OpenAt
<1>5. ASSUME script[n + 1] # "contentBlockStop", OpenAt(n) PROVE OpenAt(n + 1)
  <2>1. PICK i \in 1..n : /\ script[i] = "toolUseStart"
                          /\ \A j \in i..n : script[j] # "contentBlockStop"
    BY <1>5 DEF OpenAt
  <2>2. i \in 1..(n + 1) /\ \A j \in i..(n + 1) : j \in i..n \/ j = n + 1
    BY <1>1, <2>1
  <2> QED BY <1>5, <2>1, <2>2 DEF OpenAt
<1> QED BY <1>2, <1>3, <1>4, <1>5

(* The gateway's stream grows: what the turn has heard of it stays in order *)
(* and whole.                                                               *)
LEMMA PublishOK ==
  ASSUME GatewayOK, LoopOK, GatewayPublishes
  PROVE  GatewayOK'
<1>1. PICK e \in Continuations : script' = Append(script, e)
  BY DEF GatewayPublishes
<1>2. /\ gpc # "idle" /\ ~Ended /\ inbox' \in {inbox, Append(inbox, Len(script) + 1)}
      /\ UNCHANGED <<pc, forwarded, decision, gpc, want, accum, voice>>
  BY DEF GatewayPublishes, vars
<1>3. e \in Events
  BY DEF Continuations, Events
<1> DEFINE L == Len(script)
<1>4. /\ script \in Seq(Events) /\ L \in Nat /\ inbox \in Seq(1..L)
  BY DEF GatewayOK, Grammar
<1>5. /\ script' \in Seq(Events) /\ Len(script') = L + 1 /\ script'[L + 1] = e
      /\ \A i \in 1..L : script'[i] = script[i]
  BY <1>1, <1>3, <1>4
<1>6. inbox' \in Seq(1..(L + 1))
  <2>1. inbox \in Seq(1..(L + 1)) /\ L + 1 \in 1..(L + 1)
    <3>1. 1..L \subseteq 1..(L + 1)
      BY <1>4
    <3> QED BY <1>4, <3>1
  <2> QED BY <1>2, <2>1
<1>7. \A n \in 0..L : OpenAt(n)' <=> OpenAt(n)
  <2> SUFFICES ASSUME NEW n \in 0..L PROVE OpenAt(n)' <=> OpenAt(n)
    OBVIOUS
  <2>1. \A i \in 1..n : script'[i] = script[i] /\ \A j \in i..n : script'[j] = script[j]
    BY <1>4, <1>5
  <2> QED BY <2>1 DEF OpenAt
<1>8. BlockOpen <=> OpenAt(L)
  <2>1. DOMAIN script = 1..L
    BY <1>4
  <2> QED BY <2>1 DEF BlockOpen, OpenAt
<1>9. L > 0 => script[L] \notin {"done", "error"}
  BY <1>2, <1>4 DEF Ended, Last
<1>10. Grammar'
  <2> SUFFICES ASSUME NEW n \in 1..(L + 1)
               PROVE  /\ script'[n] \in {"toolInputDelta", "contentBlockStop"} => OpenAt(n - 1)'
                      /\ script'[n] \in {"text", "metadata", "toolUseStart", "done"} => ~OpenAt(n - 1)'
                      /\ script'[n] \in {"done", "error"} => n = L + 1
    BY <1>5, <1>6 DEF Grammar
  <2>1. n - 1 \in 0..L /\ (OpenAt(n - 1)' <=> OpenAt(n - 1))
    BY <1>4, <1>7
  <2>2. CASE n = L + 1
    <3>1. n - 1 = L /\ script'[n] = e
      BY <1>4, <1>5, <2>2
    <3>2. /\ e \in {"toolInputDelta", "contentBlockStop"} => OpenAt(L)
          /\ e \in {"text", "metadata", "toolUseStart", "done"} => ~OpenAt(L)
      BY <1>8 DEF Continuations
    <3> QED BY <2>1, <2>2, <3>1, <3>2
  <2>3. CASE n \in 1..L
    <3>1. script'[n] = script[n]
      BY <1>5, <2>3
    <3>2. script[n] \notin {"done", "error"}
      BY <1>4, <1>9, <2>3 DEF GatewayOK, Grammar
    <3> QED BY <2>1, <2>3, <3>1, <3>2 DEF GatewayOK, Grammar
  <2> QED BY <1>4, <2>2, <2>3
<1>11. Heard' = Heard
  BY <1>2 DEF Heard
<1>12. \A i : i \in Spoken => i \in 1..L /\ i \in Spoken'
  BY <1>4, <1>5 DEF Spoken
<1>13. \A i : i \in Spoken' => i \in Spoken \/ i = L + 1
  BY <1>4, <1>5 DEF Spoken
<1>14. VoiceOK'
  <2>1. Heard' \subseteq Spoken' /\ \A j \in Heard : j \in 1..L
    BY <1>11, <1>12 DEF GatewayOK, VoiceOK
  <2>2. ASSUME NEW j \in Heard', NEW i \in Spoken', i < j PROVE i \in Heard'
    <3>1. i \in Spoken
      BY <1>4, <1>11, <1>13, <2>1, <2>2
    <3> QED BY <1>11, <2>2, <3>1 DEF GatewayOK, VoiceOK
  <2>3. ASSUME NEW k \in DOMAIN voice PROVE Whole(voice[k])'
    <3>1. voice[k] \in Seq(Nat) /\ Whole(voice[k])
      BY <2>3 DEF GatewayOK, VoiceOK
    <3>2. \A a \in 1..Len(voice[k]) : script'[voice[k][a]] = script[voice[k][a]]
      <4> SUFFICES ASSUME NEW a \in 1..Len(voice[k]) PROVE voice[k][a] \in 1..L
        BY <1>5
      <4>1. voice[k][a] \in Heard
        BY <2>3, <3>1, HeardIs
      <4> QED BY <2>1, <4>1
    <3>3. voice'[k] = voice[k]
      BY <1>2
    <3>4. Len(voice[k]) \in Nat
      BY <3>1
    <3>5. CASE Len(voice[k]) = 1 /\ script[voice[k][1]] = "text"
      BY <3>2, <3>3, <3>5 DEF Whole
    <3>6. CASE /\ Len(voice[k]) > 1 /\ script[voice[k][1]] = "toolUseStart"
               /\ script[voice[k][Len(voice[k])]] = "contentBlockStop"
               /\ \A a \in 2..(Len(voice[k]) - 1) : script[voice[k][a]] = "toolInputDelta"
      <4>1. 1 \in 1..Len(voice[k]) /\ Len(voice[k]) \in 1..Len(voice[k])
            /\ \A a \in 2..(Len(voice[k]) - 1) : a \in 1..Len(voice[k])
        BY <3>4, <3>6
      <4> QED BY <3>2, <3>3, <3>6, <4>1 DEF Whole
    <3> QED BY <3>1, <3>5, <3>6 DEF Whole
  <2>4. InTurn'
    BY <1>2 DEF InTurn, GatewayOK, VoiceOK
  <2> QED BY <1>2, <2>1, <2>2, <2>3, <2>4 DEF GatewayOK, VoiceOK
<1>15. Listening'
  <2>1. Listening /\ want \in 0..L
    BY <1>2 DEF GatewayOK, Listening
  <2>2. want' \in 0..Len(script') /\ (OpenAt(want)' <=> OpenAt(want))
    BY <1>2, <1>4, <1>5, <1>7, <2>1
  <2>3. \A b \in 1..Len(accum) : accum[b] \in 1..L /\ script'[accum[b]] = script[accum[b]]
    BY <1>4, <1>5, <2>1 DEF Listening, AccumOK
  <2>4. DOMAIN script' = 1..(L + 1)
    BY <1>5
  <2>5. AccumOK'
    <3>1. accum # << >> => script'[accum[1]] = "toolUseStart"
      BY <2>1, <2>3 DEF Listening, AccumOK
    <3>2. \A b \in 2..Len(accum) : script'[accum[b]] = "toolInputDelta"
      BY <2>1, <2>3 DEF Listening, AccumOK
    <3>3. \A b \in 1..Len(accum) : accum[b] \in DOMAIN script'
      BY <1>4, <2>3, <2>4
    <3> QED BY <1>2, <1>11, <2>1, <3>1, <3>2, <3>3 DEF Listening, AccumOK
  <2>6. \A i \in Spoken' : i <= want => i \in Spoken
    BY <1>4, <1>13, <2>1
  <2> QED BY <1>2, <1>11, <2>1, <2>2, <2>5, <2>6 DEF Listening
<1>16. pc = "call" /\ decision # "succeeded"
  BY <1>2 DEF GatewayOK, LoopOK
<1> QED BY <1>2, <1>10, <1>14, <1>15, <1>16 DEF GatewayOK

(* The turn hears one more text or whole tool use, which is all that was    *)
(* spoken since the last.                                                   *)
LEMMA AppendUnit ==
  ASSUME VoiceOK, NEW u \in Seq(Nat), Whole(u), UNCHANGED script, voice' = Append(voice, u),
         \A a, b \in 1..Len(u) : a < b => u[a] < u[b],
         \A j \in Heard : \A a \in 1..Len(u) : j < u[a],
         \A a \in 1..Len(u) : u[a] \in Spoken,
         \A i \in Spoken : \A a \in 1..Len(u) :
           i < u[a] => i \in Heard \/ \E b \in 1..Len(u) : u[b] = i
  PROVE  /\ VoiceOK'
         /\ \A x : x \in Heard' <=> x \in Heard \/ \E b \in 1..Len(u) : u[b] = x
<1> DEFINE n == Len(voice)
<1>1. /\ voice \in Seq(Seq(Nat)) /\ n \in Nat /\ DOMAIN voice = 1..n
      /\ DOMAIN u = 1..Len(u) /\ Len(u) \in Nat
  BY DEF VoiceOK
<1>2. /\ voice' \in Seq(Seq(Nat)) /\ DOMAIN voice' = 1..(n + 1) /\ voice'[n + 1] = u
      /\ \A k \in 1..n : voice'[k] = voice[k]
  BY <1>1
<1>3. Spoken' = Spoken
  BY DEF Spoken
<1>4. \A k \in 1..(n + 1) : k \in 1..n \/ k = n + 1
  BY <1>1
<1>5. \A x : x \in Heard' <=> x \in Heard \/ \E b \in 1..Len(u) : u[b] = x
  <2> SUFFICES ASSUME NEW x PROVE x \in Heard' <=> x \in Heard \/ \E b \in 1..Len(u) : u[b] = x
    OBVIOUS
  <2>1. x \in Heard' <=> \E k \in DOMAIN voice' : \E a \in DOMAIN voice'[k] : voice'[k][a] = x
    BY DEF Heard, Range
  <2>2. x \in Heard <=> \E k \in 1..n : \E a \in DOMAIN voice[k] : voice[k][a] = x
    BY <1>1, HeardIs
  <2>3. n + 1 \in 1..(n + 1) /\ \A k \in 1..n : k \in 1..(n + 1)
    BY <1>1
  <2>4. ASSUME x \in Heard' PROVE x \in Heard \/ \E b \in 1..Len(u) : u[b] = x
    <3>1. PICK k \in 1..(n + 1) : \E a \in DOMAIN voice'[k] : voice'[k][a] = x
      BY <1>2, <2>1, <2>4
    <3>2. CASE k \in 1..n
      BY <1>2, <2>2, <3>1, <3>2
    <3>3. CASE k = n + 1
      BY <1>1, <1>2, <3>1, <3>3
    <3> QED BY <1>4, <3>2, <3>3
  <2>5. ASSUME x \in Heard PROVE x \in Heard'
    <3>1. PICK k \in 1..n : \E a \in DOMAIN voice[k] : voice[k][a] = x
      BY <2>2, <2>5
    <3>2. k \in DOMAIN voice' /\ voice'[k] = voice[k]
      BY <1>2, <2>3
    <3>3. \E a \in DOMAIN voice'[k] : voice'[k][a] = x
      BY <3>1, <3>2, Zenon
    <3> QED BY <2>1, <3>2, <3>3, Zenon
  <2>6. ASSUME \E b \in 1..Len(u) : u[b] = x PROVE x \in Heard'
    <3>1. n + 1 \in DOMAIN voice' /\ voice'[n + 1] = u /\ DOMAIN u = 1..Len(u)
      BY <1>1, <1>2, <2>3
    <3>2. \E a \in DOMAIN voice'[n + 1] : voice'[n + 1][a] = x
      BY <2>6, <3>1, Zenon
    <3> QED BY <2>1, <3>1, <3>2, Zenon
  <2> QED BY <2>4, <2>5, <2>6
<1>6. ASSUME NEW k \in DOMAIN voice' PROVE Whole(voice[k])'
  <2>1. Whole(voice[k])' <=> Whole(voice'[k])
    BY DEF Whole
  <2>2. Whole(voice'[k])
    BY <1>1, <1>2, <1>4, <1>6 DEF VoiceOK
  <2> QED BY <2>1, <2>2
<1>7. InTurn'
  <2>1. ASSUME NEW k \in 1..(n + 1), NEW a \in DOMAIN voice'[k], NEW b \in DOMAIN voice'[k], a < b
        PROVE  voice'[k][a] < voice'[k][b]
    <3>1. CASE k \in 1..n
      BY <1>1, <1>2, <2>1, <3>1 DEF VoiceOK, InTurn
    <3>2. CASE k = n + 1
      BY <1>1, <1>2, <2>1, <3>2
    <3> QED BY <1>4, <3>1, <3>2
  <2>2. ASSUME NEW k \in 1..(n + 1), NEW l \in 1..(n + 1), k < l,
               NEW a \in DOMAIN voice'[k], NEW b \in DOMAIN voice'[l]
        PROVE  voice'[k][a] < voice'[l][b]
    <3>1. k \in 1..n /\ voice'[k] = voice[k]
      BY <1>1, <1>2, <2>2
    <3>2. CASE l \in 1..n
      BY <1>1, <1>2, <2>2, <3>1, <3>2 DEF VoiceOK, InTurn
    <3>3. CASE l = n + 1
      <4>1. voice[k][a] \in Heard
        BY <1>1, <2>2, <3>1, HeardIs
      <4> QED BY <1>1, <1>2, <2>2, <3>1, <3>3, <4>1
    <3> QED BY <1>4, <3>2, <3>3
  <2>3. 1..(n + 1) = DOMAIN voice'
    BY <1>2
  <2>4. \A k \in DOMAIN voice' : \A a, b \in DOMAIN voice'[k] : a < b => voice'[k][a] < voice'[k][b]
    BY <2>1, <2>3, Zenon
  <2>5. \A k, l \in DOMAIN voice' : k < l =>
          \A a \in DOMAIN voice'[k], b \in DOMAIN voice'[l] : voice'[k][a] < voice'[l][b]
    BY <2>2, <2>3, Zenon
  <2> QED BY <2>4, <2>5, Zenon DEF InTurn
<1>8. Heard' \subseteq Spoken'
  BY <1>3, <1>5 DEF VoiceOK
<1>9. ASSUME NEW j \in Heard', NEW i \in Spoken', i < j PROVE i \in Heard'
  <2>1. CASE j \in Heard
    BY <1>3, <1>5, <1>9, <2>1 DEF VoiceOK
  <2>2. CASE \E b \in 1..Len(u) : u[b] = j
    BY <1>3, <1>5, <1>9, <2>2
  <2> QED BY <1>5, <1>9, <2>1, <2>2
<1> QED BY <1>2, <1>5, <1>6, <1>7, <1>8, <1>9 DEF VoiceOK

(* consumeStream takes the event with the number it wants.                  *)
LEMMA ConsumeOK ==
  ASSUME GatewayOK, LoopOK, gpc = "consume", inbox # << >>,
         Head(inbox) = want + 1, script[want + 1] \notin {"done", "error"}, Consume(want + 1)
  PROVE  Grammar' /\ VoiceOK' /\ Listening' /\ (forwarded' = {} => voice' = << >>)
<1> DEFINE i == want + 1
<1>1. /\ want' = i /\ inbox' = Tail(inbox) /\ UNCHANGED <<script, attempt>>
      /\ Emits(i) => forwarded' = forwarded \cup {attempt}
      /\ ~Emits(i) => forwarded' = forwarded
  BY DEF Consume
<1>2. /\ script \in Seq(Events) /\ Len(script) \in Nat /\ DOMAIN script = 1..Len(script)
      /\ inbox \in Seq(1..Len(script)) /\ voice \in Seq(Seq(Nat)) /\ VoiceOK
  BY DEF GatewayOK, Grammar, VoiceOK
<1>3. i \in 1..Len(script) /\ Tail(inbox) \in Seq(1..Len(script))
  BY <1>2, HeadIn
<1>4. Listening /\ want \in 0..(Len(script) - 1) /\ want \in Nat
  BY <1>2, <1>3 DEF GatewayOK, Listening
<1>5. Grammar'
  <2>1. Grammar
    BY DEF GatewayOK
  <2> QED BY <1>1, <1>3, <2>1 DEF Grammar, OpenAt
<1>6. Spoken' = Spoken /\ \A n \in Nat : OpenAt(n)' <=> OpenAt(n)
  BY <1>1 DEF Spoken, OpenAt
<1>7. /\ script[i] = "toolUseStart" => OpenAt(i)
      /\ script[i] = "contentBlockStop" => ~OpenAt(i)
      /\ script[i] \notin {"toolUseStart", "contentBlockStop"} => (OpenAt(i) <=> OpenAt(want))
  BY <1>2, <1>4, OpenNext
<1>8. /\ script[i] \in {"toolInputDelta", "contentBlockStop"} => OpenAt(want)
      /\ script[i] \in {"text", "metadata", "toolUseStart", "done"} => ~OpenAt(want)
  <2>1. i - 1 = want
    BY <1>4
  <2> QED BY <1>3, <2>1 DEF GatewayOK, Grammar
<1>9. \A x : x \in Heard => x \in Nat /\ x <= want
  <2>1. \A x : x \in Heard => x \in 1..Len(script)
    BY <1>2 DEF VoiceOK, Spoken
  <2> QED BY <1>2, <1>4, <2>1 DEF Listening
<1>10. \A x \in Spoken : x \in Nat /\ (x <= i => x <= want \/ x = i)
  BY <1>2, <1>4 DEF Spoken
<1>11. /\ accum \in Seq(Nat) /\ Len(accum) \in Nat
       /\ \A b \in 1..Len(accum) : accum[b] \in 1..want /\ accum[b] \in DOMAIN script
  BY <1>4 DEF Listening, AccumOK
<1>12. OpenAt(want)' <=> OpenAt(i)
  BY <1>1, <1>3, <1>6
<1>13. CASE script[i] = "text"
  <2> DEFINE u == <<i>>
  <2>1. voice' = Append(voice, u) /\ accum' = accum /\ Emits(i)
    BY <1>13 DEF Consume, Emits
  <2>2. accum = << >> /\ Len(accum) = 0 /\ ~OpenAt(i)
    BY <1>4, <1>7, <1>8, <1>13 DEF Listening
  <2>3. u \in Seq(Nat) /\ Len(u) = 1 /\ u[1] = i
    BY <1>4
  <2>13. \A b \in 1..Len(u) : b = 1
    BY <2>3
  <2>4. Whole(u) /\ i \in Spoken
    BY <1>2, <1>3, <1>13, <2>3 DEF Whole, Spoken, Speech
  <2>5. \A x \in Spoken : x <= want => x \in Heard
    BY <1>4, <2>2 DEF Listening
  <2>6. \A j \in Heard : \A a \in 1..Len(u) : j < u[a]
    BY <1>4, <1>9, <2>3, <2>13
  <2>7. \A x \in Spoken : \A a \in 1..Len(u) :
          x < u[a] => x \in Heard \/ \E b \in 1..Len(u) : u[b] = x
    BY <1>4, <1>10, <2>3, <2>5, <2>13
  <2>8. \A a, b \in 1..Len(u) : a < b => u[a] < u[b]
    BY <2>13
  <2>9. VoiceOK' /\ \A x : x \in Heard' <=> x \in Heard \/ \E b \in 1..Len(u) : u[b] = x
    <3> HIDE DEF u
    <3>1. \A a \in 1..Len(u) : u[a] \in Spoken
      BY <2>3, <2>4, <2>13
    <3> QED BY <1>1, <1>2, <2>1, <2>3, <2>4, <2>6, <2>7, <2>8, <3>1, AppendUnit
  <2>10. \A x : x \in Heard' <=> x \in Heard \/ x = i
    <3>1. 1 \in 1..Len(u)
      BY <2>3
    <3> QED BY <2>3, <2>9, <2>13, <3>1
  <2>11. Listening'
    <3>1. AccumOK'
      BY <2>1, <2>2 DEF AccumOK
    <3>2. want' \in 0..Len(script') /\ accum' = << >> /\ ~OpenAt(want)'
      BY <1>1, <1>2, <1>3, <1>12, <2>1, <2>2
    <3>3. \A j \in Heard' : j <= want'
      BY <1>1, <1>4, <1>9, <2>10
    <3>4. \A x \in Spoken' : x <= want' => x \in Heard'
      BY <1>1, <1>6, <1>10, <2>5, <2>10
    <3> QED BY <3>1, <3>2, <3>3, <3>4 DEF Listening
  <2>12. forwarded' # {}
    BY <1>1, <2>1
  <2> QED BY <1>5, <2>9, <2>11, <2>12
<1>14. CASE script[i] = "contentBlockStop"
  <2> DEFINE u == Append(accum, i)
             m == Len(accum)
  <2>1. accum # << >> /\ ~OpenAt(i) /\ m > 0
    BY <1>4, <1>7, <1>8, <1>11, <1>14 DEF Listening
  <2>2. voice' = Append(voice, u) /\ accum' = << >> /\ Emits(i)
    BY <1>14, <2>1 DEF Consume, Emits
  <2>3. /\ u \in Seq(Nat) /\ Len(u) = m + 1 /\ u[m + 1] = i
        /\ \A b \in 1..m : u[b] = accum[b]
    BY <1>4, <1>11
  <2>4. \A b \in 1..(m + 1) : b \in 1..m \/ b = m + 1
    BY <1>11
  <2>5. Whole(u)
    <3>1. u[1] = accum[1] /\ script[accum[1]] = "toolUseStart" /\ Len(u) > 1
      BY <1>4, <1>11, <2>1, <2>3 DEF Listening, AccumOK
    <3>2. \A a \in 2..(Len(u) - 1) : script[u[a]] = "toolInputDelta"
      <4>1. Len(u) - 1 = m
        BY <1>11, <2>3
      <4>2. \A a \in 2..m : a \in 1..m /\ script[accum[a]] = "toolInputDelta"
        BY <1>4, <1>11 DEF Listening, AccumOK
      <4> QED BY <2>3, <4>1, <4>2
    <3>3. script[u[Len(u)]] = "contentBlockStop"
      BY <1>14, <2>3
    <3> HIDE DEF u
    <3> QED BY <3>1, <3>2, <3>3 DEF Whole
  <2>6. \A a \in 1..Len(u) : u[a] \in Spoken
    <3>1. \A b \in 1..m : accum[b] \in DOMAIN script /\ script[accum[b]] \in Speech
      <4>1. \A b \in 1..m : b = 1 \/ b \in 2..m
        BY <1>11
      <4> QED BY <1>4, <1>11, <2>1, <4>1 DEF Listening, AccumOK, Speech
    <3>2. i \in Spoken
      BY <1>2, <1>3, <1>14 DEF Spoken, Speech
    <3> HIDE DEF u, i
    <3> QED BY <2>3, <2>4, <3>1, <3>2 DEF Spoken
  <2>7. \A a, b \in 1..Len(u) : a < b => u[a] < u[b]
    <3> SUFFICES ASSUME NEW a \in 1..(m + 1), NEW b \in 1..(m + 1), a < b PROVE u[a] < u[b]
      BY <2>3
    <3>1. a \in 1..m /\ u[a] = accum[a] /\ accum[a] \in 1..want
      BY <1>11, <2>3
    <3>2. CASE b \in 1..m
      BY <1>4, <2>3, <3>1, <3>2 DEF Listening, AccumOK
    <3>3. CASE b = m + 1
      BY <1>4, <2>3, <3>1, <3>3
    <3> QED BY <2>4, <3>2, <3>3
  <2>8. \A j \in Heard : \A a \in 1..Len(u) : j < u[a]
    <3> SUFFICES ASSUME NEW j \in Heard, NEW a \in 1..(m + 1) PROVE j < u[a]
      BY <2>3
    <3>1. CASE a \in 1..m
      BY <1>4, <2>3, <3>1 DEF Listening, AccumOK
    <3>2. CASE a = m + 1
      BY <1>4, <1>9, <2>3, <3>2
    <3> QED BY <2>4, <3>1, <3>2
  <2>9. \A x \in Spoken : x <= want => x \in Heard \/ \E b \in 1..m : accum[b] = x
    BY <1>4 DEF Listening
  <2>10. m + 1 \in 1..Len(u) /\ \A b \in 1..m : b \in 1..Len(u)
    BY <1>11, <2>3
  <2>11. \A x \in Spoken : x <= i => x \in Heard \/ \E b \in 1..Len(u) : u[b] = x
    <3> HIDE DEF u
    <3> QED BY <1>10, <2>3, <2>9, <2>10
  <2>12. \A x \in Spoken : \A a \in 1..Len(u) :
           x < u[a] => x \in Heard \/ \E b \in 1..Len(u) : u[b] = x
    <3> SUFFICES ASSUME NEW x \in Spoken, NEW a \in 1..Len(u), x < u[a] PROVE x <= i
      BY <2>11
    <3>1. u[a] \in Nat /\ u[a] <= i
      BY <1>4, <1>11, <2>3, <2>4
    <3> HIDE DEF u
    <3> QED BY <1>4, <1>10, <3>1
  <2>13. VoiceOK' /\ \A x : x \in Heard' <=> x \in Heard \/ \E b \in 1..Len(u) : u[b] = x
    <3> HIDE DEF u
    <3> QED BY <1>1, <1>2, <2>2, <2>3, <2>5, <2>6, <2>7, <2>8, <2>12, AppendUnit
  <2>14. Listening'
    <3>1. Len(accum') = 0
      BY <2>2
    <3>2. AccumOK'
      BY <2>2, <3>1 DEF AccumOK
    <3>3. want' \in 0..Len(script') /\ ~OpenAt(want)'
      BY <1>1, <1>2, <1>3, <1>12, <2>1
    <3>4. \A j \in Heard' : j <= want'
      <4> SUFFICES ASSUME NEW j \in Heard' PROVE j <= i
        BY <1>1
      <4>1. CASE j \in Heard
        BY <1>4, <1>9, <4>1
      <4>2. ASSUME NEW b \in 1..Len(u), u[b] = j PROVE j <= i
        BY <1>4, <1>11, <2>3, <2>4, <4>2
      <4> QED BY <2>13, <4>1, <4>2
    <3>5. \A x \in Spoken' : x <= want' => x \in Heard'
      BY <1>1, <1>6, <2>11, <2>13
    <3> QED BY <2>2, <3>2, <3>3, <3>4, <3>5 DEF Listening
  <2>15. forwarded' # {}
    BY <1>1, <2>2
  <2> QED BY <1>5, <2>13, <2>14, <2>15
<1>15. ASSUME UNCHANGED voice, AccumOK', OpenAt(i) => accum' # << >>, accum' # << >> => OpenAt(i),
              \A x \in Spoken : x <= i => x \in Heard \/ \E b \in 1..Len(accum') : accum'[b] = x
       PROVE  Grammar' /\ VoiceOK' /\ Listening' /\ (forwarded' = {} => voice' = << >>)
  <2>1. Heard' = Heard
    BY <1>15 DEF Heard
  <2>2. VoiceOK'
    BY <1>1, <1>2, <1>6, <1>15, <2>1 DEF VoiceOK, InTurn, Whole
  <2>3. Listening'
    <3>1. want' \in 0..Len(script') /\ (OpenAt(want)' => accum' # << >>) /\ (accum' # << >> => OpenAt(want)')
      BY <1>1, <1>2, <1>3, <1>12, <1>15
    <3>2. \A j \in Heard' : j <= want'
      BY <1>1, <1>4, <1>9, <2>1
    <3> QED BY <1>1, <1>6, <1>15, <2>1, <3>1, <3>2 DEF Listening
  <2>4. forwarded' = {} => forwarded = {}
    BY <1>1
  <2> QED BY <1>5, <1>15, <2>2, <2>3, <2>4 DEF GatewayOK
<1>16. CASE script[i] = "toolUseStart"
  <2>1. voice' = voice /\ accum' = <<i>>
    BY <1>16 DEF Consume
  <2>2. accum = << >> /\ Len(accum) = 0 /\ OpenAt(i)
    BY <1>4, <1>7, <1>8, <1>16 DEF Listening
  <2>3. accum' \in Seq(Nat) /\ Len(accum') = 1 /\ accum'[1] = i /\ accum' # << >>
    BY <1>4, <2>1
  <2>4. \A b \in 1..Len(accum') : b = 1
    BY <2>3
  <2>5. Heard' = Heard
    BY <2>1 DEF Heard
  <2>6. AccumOK'
    <3>1. \A b \in 1..Len(accum') : accum'[b] \in 1..want' /\ accum'[b] \in DOMAIN script'
      BY <1>1, <1>2, <1>3, <1>4, <2>3, <2>4
    <3>2. \A j \in Heard' : \A b \in 1..Len(accum') : j < accum'[b]
      BY <1>4, <1>9, <2>3, <2>4, <2>5
    <3>3. \A b \in 2..Len(accum') : FALSE
      BY <2>3
    <3>4. \A a, b \in 1..Len(accum') : ~(a < b)
      BY <2>4
    <3> QED BY <1>1, <1>16, <2>3, <3>1, <3>2, <3>3, <3>4 DEF AccumOK
  <2>7. \A x \in Spoken : x <= i => x \in Heard \/ \E b \in 1..Len(accum') : accum'[b] = x
    <3>1. 1 \in 1..Len(accum')
      BY <2>3
    <3>2. \A x \in Spoken : x <= want => x \in Heard
      BY <1>4, <2>2 DEF Listening
    <3> QED BY <1>10, <2>3, <3>1, <3>2
  <2> QED BY <1>15, <2>1, <2>2, <2>3, <2>6, <2>7
<1>17. CASE script[i] = "toolInputDelta"
  <2> DEFINE m == Len(accum)
  <2>1. accum # << >> /\ OpenAt(i) /\ m > 0
    BY <1>4, <1>7, <1>8, <1>11, <1>17 DEF Listening
  <2>2. voice' = voice /\ accum' = Append(accum, i)
    BY <1>17, <2>1 DEF Consume, Emits
  <2>3. /\ accum' \in Seq(Nat) /\ Len(accum') = m + 1 /\ accum'[m + 1] = i /\ accum' # << >>
        /\ \A b \in 1..m : accum'[b] = accum[b]
    <3>1. /\ accum' \in Seq(Nat) /\ Len(accum') = m + 1 /\ accum'[m + 1] = i
          /\ \A b \in 1..m : accum'[b] = accum[b]
      BY <1>4, <1>11, <2>2
    <3> QED BY <1>11, <2>2, <3>1, AppendFacts
  <2>4. \A b \in 1..(m + 1) : b \in 1..m \/ b = m + 1
    BY <1>11
  <2>5. Heard' = Heard
    BY <2>2 DEF Heard
  <2>6. AccumOK'
    <3>1. \A b \in 1..Len(accum') : accum'[b] \in 1..want' /\ accum'[b] \in DOMAIN script'
      <4>1. Len(accum') = m + 1 /\ want' = i /\ i \in 1..i /\ i \in DOMAIN script' /\ DOMAIN script' = DOMAIN script
        BY <1>1, <1>2, <1>3, <1>4, <2>3
      <4>2. \A b \in 1..m : accum'[b] \in 1..i /\ accum'[b] \in DOMAIN script
        <5>1. \A x : x \in 1..want => x \in 1..i
          BY <1>4
        <5>2. \A b \in 1..m : accum'[b] = accum[b]
          BY <2>3
        <5> HIDE DEF i, m
        <5> QED BY <1>11, <5>1, <5>2, Zenon DEF m
      <4> HIDE DEF i, m
      <4> QED BY <2>3, <2>4, <4>1, <4>2
    <3>2. \A j \in Heard' : \A b \in 1..Len(accum') : j < accum'[b]
      <4> SUFFICES ASSUME NEW j \in Heard, NEW b \in 1..(m + 1) PROVE j < accum'[b]
        BY <2>3, <2>5
      <4>1. CASE b \in 1..m
        BY <1>4, <2>3, <4>1 DEF Listening, AccumOK
      <4>2. CASE b = m + 1
        BY <1>4, <1>9, <2>3, <4>2
      <4> QED BY <2>4, <4>1, <4>2
    <3>3. \A b \in 2..Len(accum') : script'[accum'[b]] = "toolInputDelta"
      <4> SUFFICES ASSUME NEW b \in 2..(m + 1) PROVE script[accum'[b]] = "toolInputDelta"
        BY <1>1, <2>3
      <4>1. (b \in 2..m /\ b \in 1..m) \/ b = m + 1
        BY <1>11
      <4> QED BY <1>4, <1>17, <2>3, <4>1 DEF Listening, AccumOK
    <3>4. \A a, b \in 1..Len(accum') : a < b => accum'[a] < accum'[b]
      <4> SUFFICES ASSUME NEW a \in 1..(m + 1), NEW b \in 1..(m + 1), a < b PROVE accum'[a] < accum'[b]
        BY <2>3
      <4>1. a \in 1..m /\ accum'[a] = accum[a] /\ accum[a] \in 1..want
        BY <1>11, <2>3
      <4>2. CASE b \in 1..m
        BY <1>4, <2>3, <4>1, <4>2 DEF Listening, AccumOK
      <4>3. CASE b = m + 1
        BY <1>4, <2>3, <4>1, <4>3
      <4> QED BY <2>4, <4>2, <4>3
    <3>5. script'[accum'[1]] = "toolUseStart"
      BY <1>1, <1>4, <1>11, <2>1, <2>3 DEF Listening, AccumOK
    <3> QED BY <2>3, <3>1, <3>2, <3>3, <3>4, <3>5 DEF AccumOK
  <2>7. \A x \in Spoken : x <= i => x \in Heard \/ \E b \in 1..Len(accum') : accum'[b] = x
    <3>1. m + 1 \in 1..Len(accum') /\ \A b \in 1..m : b \in 1..Len(accum')
      BY <1>11, <2>3
    <3>2. \A x \in Spoken : x <= want => x \in Heard \/ \E b \in 1..m : accum[b] = x
      BY <1>4 DEF Listening
    <3> QED BY <1>10, <2>3, <3>1, <3>2
  <2> QED BY <1>15, <2>1, <2>2, <2>3, <2>6, <2>7
<1>18. CASE script[i] = "metadata"
  <2>1. voice' = voice /\ accum' = accum
    BY <1>18 DEF Consume
  <2>2. accum = << >> /\ Len(accum) = 0 /\ ~OpenAt(i)
    BY <1>4, <1>7, <1>8, <1>18 DEF Listening
  <2>3. AccumOK'
    BY <2>1, <2>2 DEF AccumOK
  <2>4. i \notin Spoken
    BY <1>18 DEF Spoken, Speech
  <2>5. \A x \in Spoken : x <= i => x \in Heard
    <3>1. \A x \in Spoken : x <= want => x \in Heard
      BY <1>4, <2>2 DEF Listening
    <3> QED BY <1>10, <2>4, <3>1
  <2> QED BY <1>15, <2>1, <2>2, <2>3, <2>5
<1>19. script[i] \in Events
  BY <1>2, <1>3
<1> QED BY <1>13, <1>14, <1>16, <1>17, <1>18, <1>19 DEF Events

-----------------------------------------------------------------------------
(* Before anything was published or heard.                                  *)
Silence == script = << >> /\ inbox = << >> /\ voice = << >>

(* Silence is in order and whole.                                           *)
LEMMA SilenceOK == Silence => Grammar /\ VoiceOK /\ (want = 0 /\ accum = << >> => Listening)
<1> SUFFICES ASSUME Silence PROVE Grammar /\ VoiceOK /\ (want = 0 /\ accum = << >> => Listening)
  OBVIOUS
<1> USE DEF Silence
<1>1. script \in Seq(Events) /\ Len(script) = 0 /\ DOMAIN script = 1..0 /\ 1..0 = {}
      /\ inbox \in Seq(1..Len(script)) /\ voice \in Seq(Seq(Nat)) /\ DOMAIN voice = {}
  OBVIOUS
<1>2. Heard = {}
  BY <1>1 DEF Heard
<1>3. Grammar
  BY <1>1 DEF Grammar
<1>4. VoiceOK
  BY <1>1, <1>2 DEF VoiceOK, InTurn
<1>5. ASSUME want = 0, accum = << >> PROVE Listening
  <2>1. accum \in Seq(Nat) /\ Len(accum) = 0 /\ ~OpenAt(want) /\ Spoken = {}
    BY <1>1, <1>5 DEF OpenAt, Spoken
  <2> QED BY <1>1, <1>2, <1>5, <2>1 DEF Listening, AccumOK
<1> QED BY <1>3, <1>4, <1>5

(* Steps that leave the gateway's stream alone.                             *)
LEMMA StreamUntouched ==
  ASSUME GatewayOK, UNCHANGED <<script, inbox, voice, want, accum>>,
         gpc' \in {"idle", "request", "consume"},
         gpc' # "idle" => pc' = "call" /\ gpc # "idle",
         gpc' = "idle" /\ pc' = "call" => forwarded' = {},
         forwarded' = {} => forwarded = {},
         decision' = "succeeded" => decision = "succeeded"
  PROVE  GatewayOK'
<1>1. Grammar' /\ VoiceOK'
  BY DEF GatewayOK, Grammar, VoiceOK, OpenAt, InTurn, Whole, Heard, Spoken
<1>2. Listening => Listening'
  BY DEF Listening, AccumOK, OpenAt, Heard, Spoken
<1>3. Spoken' = Spoken /\ Heard' = Heard
  BY DEF Spoken, Heard
<1> QED BY <1>1, <1>2, <1>3 DEF GatewayOK, Last

(* One step of the inference gateway's Stream.                              *)
LEMMA StreamOK ==
  ASSUME Careful, LoopOK, GatewayOK, Stream
  PROVE  LoopOK' /\ GatewayOK'
<1>0. pc = "call" /\ decision # "succeeded"
  BY DEF Stream, StreamBegins, Accepted, consumeStream, StreamOverWell, Succeeds, StreamFails, LoopOK
<1>1. CASE StreamBegins
  <2>1. voice = << >> /\ gpc = "idle" /\ forwarded = {}
    BY <1>0, <1>1 DEF StreamBegins, GatewayOK
  <2>2. /\ script' = << >> /\ inbox' = << >> /\ want' = 0 /\ accum' = << >> /\ gpc' = "request"
        /\ voice' = << >> /\ UNCHANGED <<pc, attempt, elapsed, until, ctxErr, decision, forwarded>>
    BY <1>1, <2>1 DEF StreamBegins, vars
  <2>3. (Grammar /\ VoiceOK /\ (want = 0 /\ accum = << >> => Listening))'
    <3>1. Silence'
      BY <2>2 DEF Silence
    <3> QED BY <3>1, SilenceOK, PTL
  <2>4. LoopOK'
    BY <2>2 DEF LoopOK
  <2> QED BY <1>0, <2>2, <2>3, <2>4 DEF GatewayOK
<1>2. CASE Accepted
  <2>1. UNCHANGED <<pc, attempt, elapsed, until, ctxErr, decision, forwarded, script, inbox, voice, want, accum>>
        /\ gpc' = "consume" /\ gpc = "request"
    BY <1>2 DEF Accepted, vars
  <2>2. LoopOK'
    BY <2>1 DEF LoopOK
  <2> QED BY <1>0, <2>1, <2>2, StreamUntouched
<1>3. CASE consumeStream
  <2>1. /\ gpc = "consume" /\ inbox # << >> /\ Head(inbox) = want + 1
        /\ script[want + 1] \notin {"done", "error"} /\ Consume(want + 1)
    BY <1>3 DEF consumeStream, InOrder
  <2>2. /\ UNCHANGED <<pc, attempt, elapsed, until, ctxErr, decision, gpc>>
        /\ forwarded' \in {forwarded, forwarded \cup {attempt}}
    BY <2>1 DEF Consume
  <2>3. Grammar' /\ VoiceOK' /\ Listening' /\ (forwarded' = {} => voice' = << >>)
    BY <2>1, ConsumeOK
  <2>4. LoopOK'
    BY <1>0, <2>2 DEF LoopOK
  <2> QED BY <1>0, <2>1, <2>2, <2>3, <2>4 DEF GatewayOK
<1>4. CASE StreamOverWell
  <2>1. /\ gpc = "consume" /\ inbox # << >> /\ Head(inbox) = want + 1 /\ script[want + 1] = "done"
        /\ pc' = "done" /\ decision' = "succeeded" /\ gpc' = "idle" /\ inbox' = << >>
        /\ UNCHANGED <<attempt, elapsed, until, ctxErr, forwarded, script, voice>>
    BY <1>4 DEF StreamOverWell, InOrder, Succeeds, Done, Unsubscribed
  <2>2. LoopOK'
    BY <2>1 DEF LoopOK
  <2>3. Listening /\ Grammar /\ VoiceOK
    BY <2>1 DEF GatewayOK
  <2>4. want + 1 \in 1..Len(script) /\ Len(script) \in Nat /\ want \in Nat
    <3>1. inbox \in Seq(1..Len(script)) /\ script \in Seq(Events) /\ want \in 0..Len(script)
      BY <2>3 DEF Grammar, Listening
    <3>2. Head(inbox) \in 1..Len(script)
      BY <2>1, <3>1, HeadIn
    <3> QED BY <2>1, <3>1, <3>2
  <2>5. want + 1 = Len(script) /\ ~OpenAt(want)
    <3>1. (want + 1) - 1 = want
      BY <2>4
    <3> QED BY <2>1, <2>3, <2>4, <3>1 DEF Grammar
  <2>6. Spoken \subseteq Heard
    <3> SUFFICES ASSUME NEW x \in Spoken PROVE x \in Heard
      OBVIOUS
    <3>1. x \in 1..Len(script) /\ x # want + 1
      BY <2>1, <2>3 DEF Spoken, Speech, Grammar
    <3>2. x <= want
      BY <2>4, <2>5, <3>1
    <3>3. accum = << >> /\ Len(accum) = 0
      BY <2>3, <2>5 DEF Listening
    <3> QED BY <2>3, <3>2, <3>3 DEF Listening
  <2>7. script # << >> /\ Last(script) = "done"
    BY <2>1, <2>4, <2>5 DEF Last
  <2>8. Grammar'
    <3>1. << >> \in Seq(1..Len(script))
      OBVIOUS
    <3> QED BY <2>1, <2>3, <3>1 DEF Grammar, OpenAt
  <2>9. VoiceOK' /\ Spoken' = Spoken /\ Heard' = Heard
    BY <2>1, <2>3 DEF VoiceOK, InTurn, Whole, Heard, Spoken
  <2> QED BY <2>1, <2>2, <2>6, <2>7, <2>8, <2>9 DEF GatewayOK, Last
<1>5. CASE StreamFails
  <2>1. PICK e \in Returned({"plain", "http", "deadline"}) : FailsWith(e)
    BY <1>5 DEF StreamFails, StreamErrors
  <2>2. /\ UNCHANGED <<elapsed, ctxErr, forwarded, voice>> /\ gpc' = "idle" /\ inbox' = << >>
        /\ voice = << >> => script' = << >>
        /\ voice # << >> => script' = script
    BY <1>5 DEF StreamFails, Unsubscribed
  <2>3. LoopOK' /\ pc' \in {"delay", "done"} /\ decision' # "succeeded"
    BY <1>0, <2>1, <2>2, FailsOK
  <2>4. CASE voice = << >>
    <3>1. (Grammar /\ VoiceOK)'
      <4>1. Silence'
        BY <2>2, <2>4 DEF Silence
      <4> QED BY <4>1, SilenceOK, PTL
    <3> QED BY <2>2, <2>3, <2>4, <3>1 DEF GatewayOK
  <2>5. CASE voice # << >>
    <3>1. << >> \in Seq(1..Len(script))
      OBVIOUS
    <3>2. Grammar'
      BY <2>2, <2>5, <3>1 DEF GatewayOK, Grammar, OpenAt
    <3>3. VoiceOK'
      BY <2>2, <2>5 DEF GatewayOK, VoiceOK, InTurn, Whole, Heard, Spoken
    <3> QED BY <2>2, <2>3, <3>2, <3>3 DEF GatewayOK
  <2> QED BY <2>4, <2>5
<1> QED BY <1>1, <1>2, <1>3, <1>4, <1>5 DEF Stream

(* For every policy that is Careful, any number of attempts and any loss on *)
(* the way: the turn hears one attempt of the LLM call, a gapless beginning *)
(* of it in order and with whole tool uses, and all of it when the call has *)
(* succeeded (WholeVoice).                                                  *)
THEOREM VoiceIsWhole == Careful => (ChatSpec => []WholeVoice)
<1> SUFFICES ASSUME Careful PROVE ChatSpec => []WholeVoice
  OBVIOUS
<1>1. ChatInit => VoiceInv
  <2> SUFFICES ASSUME ChatInit PROVE VoiceInv
    OBVIOUS
  <2>1. /\ pc = "call" /\ attempt = 1 /\ elapsed = 0 /\ until = 0 /\ ctxErr = "none"
        /\ decision = "none" /\ forwarded = {} /\ gpc = "idle"
        /\ script = << >> /\ inbox = << >> /\ voice = << >>
    BY DEF ChatInit, GatewayInit, Init
  <2>2. MaxAttempts \in 1..10
    BY PolicyBounds DEF Policy, ParsePolicy
  <2>3. LoopOK
    BY <2>1, <2>2 DEF LoopOK
  <2>4. Grammar /\ VoiceOK
    BY <2>1, SilenceOK DEF Silence
  <2> QED BY <2>1, <2>3, <2>4 DEF VoiceInv, GatewayOK
<1>2. VoiceInv /\ [ChatNext]_allVars => VoiceInv'
  <2> SUFFICES ASSUME VoiceInv, [ChatNext]_allVars PROVE VoiceInv'
    OBVIOUS
  <2>1. CASE UNCHANGED callVars
    <3>1. UNCHANGED <<pc, attempt, elapsed, until, ctxErr, decision, forwarded, provider, gpc,
                      script, inbox, voice, want, accum>>
      BY <2>1 DEF callVars, vars, gwVars
    <3>2. LoopOK'
      BY <3>1 DEF LoopOK, VoiceInv
    <3> QED BY <3>1, <3>2, StreamUntouched DEF VoiceInv, GatewayOK
  <2>2. CASE CtxOver
    <3>1. /\ ctxErr = "none" /\ ctxErr' \in {"deadline", "canceled"}
          /\ UNCHANGED <<pc, attempt, elapsed, until, decision, forwarded, provider, gpc,
                         script, inbox, voice, want, accum>>
      BY <2>2 DEF CtxOver, gwVars
    <3>2. LoopOK'
      BY <3>1 DEF LoopOK, VoiceInv
    <3> QED BY <3>1, <3>2, StreamUntouched DEF VoiceInv, GatewayOK
  <2>3. CASE GatewayPublishes
    <3>1. UNCHANGED <<pc, attempt, elapsed, until, ctxErr, decision, forwarded, provider>>
      BY <2>3 DEF GatewayPublishes, vars
    <3>2. LoopOK'
      BY <3>1 DEF LoopOK, VoiceInv
    <3> QED BY <2>3, <3>1, <3>2, PublishOK DEF VoiceInv
  <2>4. CASE provider = "gateway" /\ Stream
    BY <2>4, StreamOK DEF VoiceInv
  <2>5. CASE provider = "open" /\ Operation /\ UNCHANGED gwVars
    BY <2>5, OperationOK DEF VoiceInv, gwVars
  <2>6. CASE (Backoffs \/ Tick) /\ UNCHANGED gwVars
    <3>1. /\ LoopOK' /\ UNCHANGED forwarded
          /\ decision' = decision \/ decision' = "cancelled"
          /\ pc' = "call" /\ pc # "call" => forwarded = {}
          /\ pc' = pc \/ pc = "delay"
      BY <2>6, BackoffOK DEF VoiceInv
    <3>2. UNCHANGED <<provider, gpc, script, inbox, voice, want, accum>>
      BY <2>6 DEF gwVars
    <3> QED BY <3>1, <3>2, StreamUntouched DEF VoiceInv, GatewayOK
  <2>7. CASE LLMCall
    BY <2>4, <2>5, <2>6, <2>7 DEF LLMCall, Call
  <2>8. CASE Load \/ ToolCall \/ LLMReturns \/ Await \/ ClientAnswers
    BY <2>1, <2>8 DEF Load, ToolCall, LLMReturns, Proceed, failStream, Await, AwaitFails, WaitForToolResult,
                      StartTimer, SelectMsg, SelectCtx, SelectTimer, WaitEnds, ClientAnswers
  <2>9. CASE Complete \/ Breaks \/ executorFail \/ StreamOver \/ SingleOver \/ UNCHANGED allVars
    BY <2>1, <2>9 DEF Complete, Breaks, failStream, executorFail, StreamOver, SingleOver, allVars
  <2> QED BY <2>2, <2>3, <2>7, <2>8, <2>9 DEF ChatNext, Request, Environment
<1>3. VoiceInv => WholeVoice
  <2> SUFFICES ASSUME VoiceInv PROVE WholeVoice
    OBVIOUS
  <2>1. OneVoice
    <3>1. forwarded = {} \/ forwarded = {attempt}
      BY DEF VoiceInv, LoopOK
    <3>2. Cardinality({}) = 0 /\ Cardinality({attempt}) = 1
      BY FS_EmptySet, FS_Singleton
    <3> QED BY <3>1, <3>2 DEF OneVoice
  <2> QED BY <2>1 DEF VoiceInv, GatewayOK, VoiceOK, WholeVoice
<1> QED BY <1>1, <1>2, <1>3, PTL DEF ChatSpec
-----------------------------------------------------------------------------
(* The policy.                                                              *)

(* What the attempt loop promises of a policy, whatever the attempts        *)
(* return: no attempt after the first begins once the total budget is       *)
(* spent, none follows an error that the policy does not retry, and the     *)
(* decision fits the last attempt.                                          *)
PolicyKept ==
  /\ attempt > 1 /\ TotalBudget > 0 => started <= TotalBudget
  /\ pc = "delay" \/ (pc = "call" /\ attempt > 1) => lastClass \in RetryOn
  /\ decision = "not-retryable" => lastClass \notin RetryOn
  /\ decision \in {"exhausted", "budget-expired"} => lastClass \in RetryOn
  /\ decision = "exhausted" => attempt = MaxAttempts
  /\ decision = "cancelled" => ctxErr # "none"
  /\ decision = "succeeded" <=> pc = "done" /\ err = "none"

(* A wait ends within the budget and on time, and an attempt is left for    *)
(* after it.                                                                *)
CallInv ==
  /\ TypeOK /\ PolicyKept
  /\ pc = "delay" => /\ attempt < MaxAttempts /\ elapsed <= until
                     /\ TotalBudget > 0 => until <= TotalBudget
  /\ pc = "done" <=> decision # "none"

(* The policy's limits are naturals.                                        *)
LEMMA PolicyTyped == MaxAttempts \in 2..10 /\ TotalBudget \in Nat /\ MaxClock \in Nat
BY PolicyBounds DEF Policy, ParsePolicy

(* Whatever an operation returns when it fails is an error of the loop's,   *)
(* and the classifier knows it.                                             *)
LEMMA ReturnedTyped ==
  ASSUME TypeOK, NEW causes,
         causes \subseteq {"http", "plain", "policy", "tool-retryable", "deadline"},
         NEW e \in Returned(causes)
  PROVE  e \in Errors \ {"none"} /\ Classify(e) \subseteq Classes
<1>1. RctxErr \subseteq {"deadline", "canceled"}
  BY DEF RctxErr, TypeOK
<1>2. e \in causes \cup RctxErr \/ \E x \in causes \cup RctxErr : e = midStream(x)
  BY DEF Returned
<1>3. e \in Errors \ {"none"}
  BY <1>1, <1>2 DEF midStream, Errors
<1> QED BY <1>3 DEF Errors, Classify, Classes

(* The end of the call.                                                     *)
LEMMA DoneKept ==
  ASSUME CallInv, NEW d, NEW e, NEW c, Done(d, e, c), UNCHANGED <<elapsed, ctxErr, forwarded>>,
         d \in Decisions \ {"none"}, e \in Errors, c \in Classes \cup {"none"},
         d = "not-retryable" => c \notin RetryOn,
         d \in {"exhausted", "budget-expired"} => c \in RetryOn,
         d = "exhausted" => LastAttempt,
         d = "cancelled" => ctxErr # "none",
         d = "succeeded" <=> e = "none"
  PROVE  CallInv'
<1>1. /\ pc' = "done" /\ decision' = d /\ err' = e /\ lastClass' = c
      /\ UNCHANGED <<attempt, started, until, elapsed, ctxErr, forwarded>>
  BY DEF Done
<1>2. TypeOK'
  BY <1>1 DEF CallInv, TypeOK
<1>3. PolicyKept'
  BY <1>1 DEF CallInv, PolicyKept, LastAttempt
<1> QED BY <1>1, <1>2, <1>3 DEF CallInv

(* A failed attempt: the call ends for what the policy says, or waits.      *)
LEMMA FailsKept ==
  ASSUME CallInv, pc = "call", NEW causes,
         causes \subseteq {"http", "plain", "policy", "tool-retryable", "deadline"},
         NEW e \in Returned(causes), FailsWith(e), UNCHANGED <<elapsed, ctxErr, forwarded>>
  PROVE  CallInv'
<1>0. PICK c \in Classify(e) :
        \/ c \notin RetryOn /\ Done("not-retryable", e, c)
        \/ c \in RetryOn /\ LastAttempt /\ Done("exhausted", e, c)
        \/ c \in RetryOn /\ Done("budget-expired", e, c)
        \/ /\ c \in RetryOn /\ ~LastAttempt
           /\ \E d \in nextDelay : /\ ~OverBudget(d) /\ pc' = "delay" /\ until' = elapsed + d
                                   /\ err' = e /\ lastClass' = c
                                   /\ UNCHANGED <<attempt, started, decision>>
  BY DEF FailsWith
<1>1. e \in Errors \ {"none"} /\ c \in Classes
  BY ReturnedTyped DEF CallInv
<1>2. CASE c \notin RetryOn /\ Done("not-retryable", e, c)
  BY <1>1, <1>2, DoneKept DEF Decisions
<1>3. CASE c \in RetryOn /\ LastAttempt /\ Done("exhausted", e, c)
  BY <1>1, <1>3, DoneKept DEF Decisions
<1>4. CASE c \in RetryOn /\ Done("budget-expired", e, c)
  BY <1>1, <1>4, DoneKept DEF Decisions
<1>5. ASSUME c \in RetryOn, ~LastAttempt, NEW d \in nextDelay, ~OverBudget(d), pc' = "delay",
             until' = elapsed + d, err' = e, lastClass' = c, UNCHANGED <<attempt, started, decision>>
      PROVE  CallInv'
  <2>1. attempt \in 1..MaxAttempts /\ elapsed \in Nat /\ decision = "none"
    BY PolicyTyped DEF CallInv, TypeOK
  <2>2. d \in Nat
    BY <1>5, <2>1, Delays
  <2>3. /\ until' \in Nat /\ elapsed <= until'
        /\ TotalBudget > 0 => until' <= TotalBudget
    BY <1>5, <2>1, <2>2, PolicyTyped DEF OverBudget
  <2>4. attempt < MaxAttempts
    BY <1>5, <2>1, PolicyTyped DEF LastAttempt
  <2>5. TypeOK'
    BY <1>1, <1>5, <2>3 DEF CallInv, TypeOK
  <2>6. PolicyKept'
    BY <1>5, <2>1 DEF CallInv, PolicyKept
  <2> QED BY <1>5, <2>1, <2>3, <2>4, <2>5, <2>6 DEF CallInv
<1> QED BY <1>0, <1>2, <1>3, <1>4, <1>5

(* Steps of the call in which nothing of the loop changes but, perhaps,     *)
(* what was forwarded.                                                      *)
LEMMA ForwardKept ==
  ASSUME CallInv, forwarded' \in {forwarded, forwarded \cup {attempt}},
         UNCHANGED <<pc, attempt, elapsed, started, until, ctxErr, decision, err, lastClass>>
  PROVE  CallInv'
<1>1. TypeOK'
  BY DEF CallInv, TypeOK
<1>2. PolicyKept'
  BY DEF CallInv, PolicyKept
<1> QED BY <1>1, <1>2 DEF CallInv

(* One step of the retried call, by either provider.                        *)
LEMMA CallKept ==
  ASSUME CallInv, Call
  PROVE  CallInv'
<1>1. CASE Fails
  <2>1. PICK e \in Returned({"http", "plain", "policy", "tool-retryable", "deadline"}) : FailsWith(e)
    BY <1>1 DEF Fails, Failures
  <2> QED BY <1>1, <2>1, FailsKept DEF Fails
<1>2. CASE StreamFails
  <2>1. PICK e \in Returned({"plain", "http", "deadline"}) : FailsWith(e)
    BY <1>2 DEF StreamFails, StreamErrors
  <2> QED BY <1>2, <2>1, FailsKept DEF StreamFails
<1>3. CASE Succeeds \/ StreamOverWell
  <2>1. Done("succeeded", "none", "none") /\ UNCHANGED <<elapsed, ctxErr, forwarded>>
    BY <1>3 DEF Succeeds, StreamOverWell
  <2> QED BY <2>1, DoneKept DEF Decisions, Errors
<1>4. CASE Forward \/ StreamBegins \/ Accepted \/ consumeStream
  BY <1>4, ForwardKept DEF Forward, StreamBegins, Accepted, consumeStream, Consume, vars
<1>5. CASE WaitCancelled
  <2>1. Done("cancelled", ctxErr, lastClass) /\ ctxErr # "none"
        /\ UNCHANGED <<elapsed, ctxErr, forwarded>>
    BY <1>5 DEF WaitCancelled
  <2>2. ctxErr \in Errors /\ lastClass \in Classes \cup {"none"}
    BY DEF CallInv, TypeOK, Errors
  <2> QED BY <2>1, <2>2, DoneKept DEF Decisions
<1>6. CASE TimerFires
  <2>1. /\ pc = "delay" /\ elapsed >= until /\ pc' = "call" /\ attempt' = attempt + 1
        /\ started' = elapsed /\ UNCHANGED <<elapsed, until, ctxErr, decision, err, lastClass, forwarded>>
    BY <1>6 DEF TimerFires
  <2>2. /\ attempt + 1 \in 1..MaxAttempts
        /\ TotalBudget > 0 => elapsed <= TotalBudget
    BY <2>1, PolicyTyped DEF CallInv, TypeOK
  <2>3. TypeOK'
    BY <2>1, <2>2 DEF CallInv, TypeOK
  <2>4. PolicyKept'
    BY <2>1, <2>2 DEF CallInv, PolicyKept
  <2> QED BY <2>1, <2>3, <2>4 DEF CallInv
<1>7. CASE Tick
  <2>1. /\ elapsed < MaxClock /\ (pc = "delay" => elapsed < until) /\ elapsed' = elapsed + 1
        /\ UNCHANGED <<pc, attempt, started, until, ctxErr, decision, err, lastClass, forwarded>>
    BY <1>7 DEF Tick
  <2>2. /\ elapsed + 1 \in 0..MaxClock
        /\ pc = "delay" => elapsed + 1 <= until
    BY <2>1, PolicyTyped DEF CallInv, TypeOK
  <2>3. TypeOK'
    BY <2>1, <2>2 DEF CallInv, TypeOK
  <2>4. PolicyKept'
    BY <2>1 DEF CallInv, PolicyKept
  <2> QED BY <2>1, <2>2, <2>3, <2>4 DEF CallInv
<1> QED BY <1>1, <1>2, <1>3, <1>4, <1>5, <1>6, <1>7 DEF Call, Stream, Operation, Backoffs

(* For every policy that ParsePolicy accepts, whatever either provider      *)
(* answers and however its delays fall: the attempt loop keeps its types,   *)
(* never makes more attempts than the policy allows, begins none after the  *)
(* total budget or after an error the policy does not retry, and reports    *)
(* the decision that the last attempt calls for.                            *)
THEOREM PoliciesKept == ChatSpec => [](TypeOK /\ PolicyKept)
<1>1. ChatInit => CallInv
  <2> SUFFICES ASSUME ChatInit PROVE CallInv
    OBVIOUS
  <2>1. /\ pc = "call" /\ attempt = 1 /\ elapsed = 0 /\ started = 0 /\ until = 0
        /\ ctxErr = "none" /\ decision = "none" /\ err = "none" /\ lastClass = "none"
        /\ forwarded = {}
    BY DEF ChatInit, GatewayInit, Init
  <2>2. TypeOK
    BY <2>1, PolicyTyped DEF TypeOK, Decisions, Errors
  <2>3. PolicyKept
    BY <2>1 DEF PolicyKept
  <2> QED BY <2>1, <2>2, <2>3 DEF CallInv
<1>2. CallInv /\ [ChatNext]_allVars => CallInv'
  <2> SUFFICES ASSUME CallInv, [ChatNext]_allVars PROVE CallInv'
    OBVIOUS
  <2>1. CASE UNCHANGED vars
    BY <2>1, ForwardKept DEF vars
  <2>2. CASE CtxOver
    <3>1. /\ ctxErr = "none" /\ ctxErr' \in {"deadline", "canceled"}
          /\ UNCHANGED <<pc, attempt, elapsed, started, until, decision, err, lastClass, forwarded>>
      BY <2>2 DEF CtxOver
    <3>2. TypeOK'
      BY <3>1 DEF CallInv, TypeOK
    <3>3. PolicyKept'
      BY <3>1 DEF CallInv, PolicyKept
    <3> QED BY <3>1, <3>2, <3>3 DEF CallInv
  <2>3. CASE LLMCall
    BY <2>3, CallKept DEF LLMCall
  <2>4. CASE GatewayPublishes
    BY <2>1, <2>4 DEF GatewayPublishes
  <2>5. CASE Load \/ ToolCall \/ LLMReturns \/ Await \/ ClientAnswers
    BY <2>1, <2>5 DEF Load, ToolCall, LLMReturns, Proceed, failStream, Await, AwaitFails, WaitForToolResult,
                      StartTimer, SelectMsg, SelectCtx, SelectTimer, WaitEnds, ClientAnswers, callVars
  <2>6. CASE Complete \/ Breaks \/ executorFail \/ StreamOver \/ SingleOver \/ UNCHANGED allVars
    BY <2>1, <2>6 DEF Complete, Breaks, failStream, executorFail, StreamOver, SingleOver, allVars, callVars
  <2> QED BY <2>2, <2>3, <2>4, <2>5, <2>6 DEF ChatNext, Request, Environment
<1>3. CallInv => TypeOK /\ PolicyKept
  BY DEF CallInv
<1> QED BY <1>1, <1>2, <1>3, PTL DEF ChatSpec
==============================================================================
