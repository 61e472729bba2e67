------------------------------- MODULE Gateway --------------------------------
(***************************************************************************)
(* The LLM call behind Retry's operation: with one provider left open (any *)
(* events, any error: Retry), and with the inference gateway, whose Stream *)
(* (builtin/inferencegateway) subscribes to a private inbox, asks for a    *)
(* stream over NATS and translates what arrives there, as long as the      *)
(* numbers of the events are contiguous.  NATS may lose events, and they   *)
(* may arrive before the answer to the request.  The attempt's inbox goes  *)
(* with the attempt.  The timeouts of the request, of the silence between  *)
(* events and of the stream may all strike at any moment.                  *)
(***************************************************************************)
EXTENDS Retry, SequencesExt

CONSTANT MaxEvents   \* bound: events the gateway publishes for one request

VARIABLES
  provider,   \* "open" | "gateway"
  gpc,        \* Stream: "idle" | "request" | "consume"
  script,     \* what the gateway has published for this attempt
  inbox,      \* positions in script of the events that arrived
  want,       \* the number consumeStream expects; script[want + 1]
  accum,      \* the tool use being accumulated: positions of its events
  voice       \* the turn's events: positions of a text, or of a whole tool use

gwVars == <<provider, gpc, script, inbox, want, accum, voice>>

GatewayInit ==
  /\ Init
  /\ provider \in {"open", "gateway"}
  /\ gpc = "idle" /\ script = << >> /\ inbox = << >> /\ want = 0
  /\ accum = << >> /\ voice = << >>

\* A gateway's stream: texts and tool uses, one after the other (messageStop
\* and reasoning count as texts; messageStart as metadata), and its end.
BlockOpen == \E i \in DOMAIN script : /\ script[i] = "toolUseStart"
                                      /\ \A j \in i..Len(script) : script[j] # "contentBlockStop"
Ended == script # << >> /\ Last(script) \in {"done", "error"}
Continuations == {"error"} \cup
  IF BlockOpen THEN {"toolInputDelta", "contentBlockStop"}
  ELSE {"text", "metadata", "toolUseStart", "done"}

\* The gateway publishes; the event arrives or is lost.
GatewayPublishes ==
  /\ gpc # "idle" /\ ~Ended
  /\ \E e \in Continuations :
       /\ Len(script) < MaxEvents - 1 \/ e \in {"done", "error"}
       /\ script' = Append(script, e)
  /\ inbox' \in {inbox, Append(inbox, Len(script) + 1)}
  /\ UNCHANGED <<vars, provider, gpc, want, accum, voice>>

-----------------------------------------------------------------------------
\* Stream up to the request: a new inbox for every attempt.
StreamBegins ==
  /\ pc = "call" /\ gpc = "idle"
  /\ gpc' = "request" /\ script' = << >> /\ inbox' = << >> /\ want' = 0 /\ accum' = << >>
  /\ UNCHANGED <<vars, provider, voice>>

\* The answer to the request says that the stream was accepted.
Accepted ==
  /\ pc = "call" /\ gpc = "request"
  /\ gpc' = "consume"
  /\ UNCHANGED <<vars, provider, script, inbox, want, accum, voice>>

\* A bug: a gap in the numbers goes unnoticed.
InOrderAny(i) == TRUE

InOrder(i) == i = want + 1

\* A piece of a tool use whose start was not heard is passed over.
Emits(i) == \/ script[i] \in {"text", "toolUseStart"}
            \/ script[i] \in {"toolInputDelta", "contentBlockStop"} /\ accum # << >>

\* One event of consumeStream that is not the last: what the turn hears of it.
\* (An event that emit drops because the stream's context is done is the
\* last one: the next wait fails, and it might as well not have come.)
Consume(i) ==
  LET tu == Append(accum, i) IN
  /\ want' = i /\ inbox' = Tail(inbox)
  /\ CASE script[i] = "text" -> voice' = Append(voice, <<i>>) /\ UNCHANGED accum
       [] script[i] = "toolUseStart" -> accum' = <<i>> /\ UNCHANGED voice
       [] script[i] = "toolInputDelta" ->
            accum' = (IF Emits(i) THEN tu ELSE accum) /\ UNCHANGED voice
       [] script[i] = "contentBlockStop" ->
            /\ accum' = << >>
            /\ voice' = IF Emits(i) THEN Append(voice, tu) ELSE voice
       [] OTHER -> UNCHANGED <<accum, voice>>
  /\ forwarded' = IF Emits(i) THEN forwarded \cup {attempt} ELSE forwarded
  /\ UNCHANGED <<pc, attempt, elapsed, started, until, ctxErr, decision, err, lastClass,
                 provider, gpc, script>>

consumeStream ==
  /\ pc = "call" /\ gpc = "consume" /\ inbox # << >> /\ RctxErr = {}
  /\ InOrder(Head(inbox)) /\ script[Head(inbox)] \notin {"done", "error"}
  /\ Consume(Head(inbox))

\* Stream returns; script is kept for the properties only.
Unsubscribed ==
  /\ gpc' = "idle" /\ inbox' = << >> /\ want' = 0 /\ accum' = << >>
  /\ UNCHANGED <<provider, voice>>

StreamOverWell ==
  /\ gpc = "consume" /\ inbox # << >>
  /\ InOrder(Head(inbox)) /\ script[Head(inbox)] = "done"
  /\ Succeeds /\ Unsubscribed /\ UNCHANGED script

\* Why Stream fails: before the answer, for a request that cannot be built or
\* sent, a refusal or no answer; then for silence, a lost connection, a gap, an
\* event that cannot be read, or the gateway's own error.
StreamErrors == {"plain", "http", "deadline"}

StreamFails ==
  /\ pc = "call" /\ gpc # "idle"
  /\ \E e \in Returned(StreamErrors) : FailsWith(e)
  /\ Unsubscribed /\ script' = IF voice = << >> THEN << >> ELSE script
  /\ UNCHANGED <<elapsed, ctxErr, forwarded>>

Stream == StreamBegins \/ Accepted \/ consumeStream \/ StreamOverWell \/ StreamFails

\* One step of the call, by either provider.
Call ==
  \/ provider = "gateway" /\ Stream
  \/ provider = "open" /\ Operation /\ UNCHANGED gwVars
  \/ (Backoffs \/ Tick) /\ UNCHANGED gwVars

-----------------------------------------------------------------------------
\* A tool use has reached the turn.
ToolUsed == \E k \in DOMAIN voice : Len(voice[k]) > 1

Speech == {"text", "toolUseStart", "toolInputDelta", "contentBlockStop"}
Spoken == {i \in DOMAIN script : script[i] \in Speech}
Heard == UNION {Range(voice[k]) : k \in DOMAIN voice}

\* What the turn hears comes in the gateway's order, in texts and whole tool uses.
InTurn ==
  /\ \A k \in DOMAIN voice : \A a, b \in DOMAIN voice[k] : a < b => voice[k][a] < voice[k][b]
  /\ \A k, l \in DOMAIN voice : k < l =>
       \A a \in DOMAIN voice[k], b \in DOMAIN voice[l] : voice[k][a] < voice[l][b]
Whole(u) ==
  \/ Len(u) = 1 /\ script[u[1]] = "text"
  \/ /\ Len(u) > 1 /\ script[u[1]] = "toolUseStart" /\ script[u[Len(u)]] = "contentBlockStop"
     /\ \A a \in 2..(Len(u) - 1) : script[u[a]] = "toolInputDelta"

(* Over all attempts of a call the turn hears one of them, in order, without *)
(* a gap and with whole tool inputs, whatever NATS loses; and all of it when *)
(* the call succeeded ("mid-stream failures are never retried", "seq must be *)
(* contiguous from 0", agent/loop.go and inferencegateway/stream.go).        *)
WholeVoice ==
  /\ OneVoice
  /\ provider = "gateway" =>
       /\ InTurn /\ \A k \in DOMAIN voice : Whole(voice[k])
       /\ Heard \subseteq Spoken
       /\ \A j \in Heard : \A i \in Spoken : i < j => i \in Heard
  /\ provider = "gateway" /\ decision = "succeeded" =>
       Spoken \subseteq Heard /\ Last(script) = "done"
=============================================================================
