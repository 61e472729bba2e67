------------------------------- MODULE Consult -------------------------------
(***************************************************************************)
(* The assistant runtime's consult (pkg/rsassistant): the same streaming   *)
(* session as in NatsStream, read by engineStream (stream.go), which       *)
(* serializes delivery and close under a mutex and turns a refusal into an *)
(* error event, and relayed by consult (consult.go, relay.go).             *)
(*                                                                         *)
(* The session, the network and the threads are NatsStream's; who opened   *)
(* the stream, natsstream's own client or a consult, is chosen at Init.    *)
(* mu is held exactly while the callback is at its select, since what      *)
(* close does under it never blocks.                                       *)
(***************************************************************************)
EXTENDS NatsStream

VARIABLES client,    \* "subscription" | "consult": who reads this stream
          phase,     \* handleChat: "gate" | "unsent" | "open" | "over"
          askedOff,  \* the ctx of handleChat is done
          why,       \* why consult left its loop: "eof" | "terminated" | "ctx"
          carried,   \* every event ever sent on engineStream's channel; nread of them read
          text,      \* relay.sawDelta, or that the final text was shown
          verdict,   \* the terminator the runtime's own stream was given
          blame      \* the upstream error named the timeout

relay == <<why, carried, text, verdict, blame>>
cvars == <<vars, client, phase, askedOff, relay>>

ConsultInit ==
  /\ Init
  /\ client \in {"subscription", "consult"}
  /\ phase = IF client = "consult" THEN "gate" ELSE "open"
  /\ askedOff = FALSE /\ why = "none" /\ carried = << >>
  /\ text = "none" /\ verdict = "none" /\ blame = FALSE

\* handleChat without a consult: the gate refuses the identity, or the
\* request cannot be published.  The stream is told; nothing was opened.
Unsent ==
  /\ phase = "gate"
  /\ phase' = "unsent"
  /\ \E v \in {"forbidden", "unreachable"} : verdict' = v
  /\ UNCHANGED <<vars, client, askedOff, why, carried, text, blame>>

\* openEngineStream: inbox subscribed, request published, timer armed.
openEngineStream ==
  /\ phase = "gate"
  /\ phase' = "open"
  /\ UNCHANGED <<vars, client, askedOff, relay>>

-----------------------------------------------------------------------------
(* engineStream.                                                            *)
muFree     == cb \notin {"select", "blocked"}
Ends(e)    == e \in Terminators \cup {"refusal"}
afterEvent == IF Ends(held) THEN "close" ELSE "idle"

\* onMsg up to deliver.  A 503 notice or a reply with another status than 200
\* becomes an error event.
onMsg ==
  /\ cb = "idle" /\ ~eventsClosed /\ inbox # << >>
  /\ inbox' = Tail(inbox)
  /\ LET m == Head(inbox) IN
       \/ /\ m = NotAnEvent
          /\ held' = "refusal" /\ cb' = "deliver"
          /\ UNCHANGED <<nextSeq, cancelSubj>>
       \/ /\ Accepts(m)
          /\ nextSeq' = nextSeq + 1
          /\ cancelSubj' = (cancelSubj \/ m.seq = 0)
          /\ held' = m.type /\ cb' = "deliver"
       \/ /\ m # NotAnEvent /\ ~Accepts(m)
          /\ UNCHANGED <<accept, cb>>
  /\ UNCHANGED <<life, numbers, chan, others, once, cancelWire, panicked, relay>>

\* deliver takes mu and looks at closed.
deliver ==
  /\ cb = "deliver"
  /\ cb' = IF eventsClosed THEN afterEvent ELSE "select"
  /\ UNCHANGED <<life, numbers, wire, accept, chan, others, once, panicked, relay>>

\* The event at hand goes on the channel, with its number.
send == carried' = Append(carried, [type |-> held, seq |-> nextSeq - 1])
pending == Len(carried) - nread

\* A bug: a default case, so that a full channel loses the event.
deliverOrDrop ==
  /\ cb = "select"
  /\ \/ pending < ChanCap /\ send
     \/ (pending >= ChanCap \/ doneClosed) /\ UNCHANGED carried
  /\ cb' = afterEvent
  /\ UNCHANGED <<life, numbers, wire, accept, chan, others, once, panicked,
                 why, text, verdict, blame>>

\* deliver's select, under mu: either ready case may be taken.
deliverSelect ==
  /\ cb = "select"
  /\ \/ /\ pending < ChanCap
        /\ send
        /\ cb' = afterEvent
     \/ /\ doneClosed
        /\ cb' = afterEvent
        /\ UNCHANGED carried
     \/ /\ ~doneClosed /\ pending >= ChanCap
        /\ cb' = "blocked"
        /\ UNCHANGED carried
  /\ UNCHANGED <<life, numbers, wire, accept, chan, others, once, panicked,
                 why, text, verdict, blame>>

\* A bug: close waits for the mutex before it closes done.
closeDoneLocked(t) ==
  /\ InClose(t) /\ closeStep = 0 /\ muFree
  /\ closeStep' = 2
  /\ UNCHANGED <<life, numbers, wire, accept, chan, others, closer, panicked,
                 cb, phase, relay>>

\* close, first half: doneOnce; a select blocked under mu takes its done case.
closeDone(t) ==
  /\ InClose(t) /\ closeStep = 0
  /\ closeStep' = 2
  /\ cb' = IF cb = "blocked" THEN afterEvent ELSE cb
  /\ UNCHANGED <<life, numbers, wire, accept, chan, others, closer, panicked,
                 phase, relay>>

\* relay.finish, after the channel closed: an upstream error unless the relay
\* is done; the error Close returned is appended to it.
finish ==
  /\ verdict' = IF why = "eof" THEN "upstream" ELSE verdict
  /\ blame'   = (why = "eof" /\ err)

\* closed is set, the inbox unsubscribed and events closed, by the first to
\* come; then its caller goes on.  Consult, left by its loop, returns.
closing(t) ==
  /\ InClose(t) /\ closeStep >= 2
  /\ closeStep' = 3
  /\ closer' = IF closeStep = 3 THEN closer ELSE t
  /\ \/ /\ t = "caller"
        /\ caller' = "closed" /\ phase' = "over" /\ finish /\ UNCHANGED <<timer, cb>>
     \/ /\ t = "timer"
        /\ timer' = "fired" /\ UNCHANGED <<caller, cb, phase, verdict, blame>>
     \/ /\ t = "callback"
        /\ cb' = "idle" /\ UNCHANGED <<caller, timer, phase, verdict, blame>>
  /\ UNCHANGED <<life, numbers, wire, accept, chan, err, panicked, why, carried, text>>

\* close, second half: under mu.
closeEvents(t) == muFree /\ closing(t)

-----------------------------------------------------------------------------
(* consult's loop and the relay.                                            *)

\* relay.apply: text is shown as it streams; the final text only when none
\* did (and it may be empty).
apply(e) ==
  \/ /\ e = "data"
     /\ \E t \in {text, "streamed"} : text' = t
     /\ UNCHANGED <<verdict, caller, why>>
  \/ /\ e = "start"
     /\ UNCHANGED <<text, verdict, caller, why>>
  \/ /\ e = "complete"
     /\ \E t \in {"none", "final"} : text' = IF text = "none" THEN t ELSE text
     /\ verdict' = "done" /\ caller' = "close" /\ why' = "terminated"
  \/ /\ e \in {"error", "refusal"}
     /\ verdict' = "error" /\ caller' = "close" /\ why' = "terminated"
     /\ UNCHANGED text

\* An event is received and relayed; a blocked sender's event takes its place.
relayEvent ==
  /\ caller = "reading" /\ pending > 0
  /\ nread' = nread + 1
  /\ apply(carried[nread + 1].type)
  /\ \/ /\ cb = "blocked"
        /\ send
        /\ cb' = afterEvent
     \/ /\ cb # "blocked"
        /\ UNCHANGED <<carried, cb>>
  /\ UNCHANGED <<life, numbers, wire, accept, pushed, timer, err, once,
                 panicked, blame>>

\* The channel is drained and closed.
relayEof ==
  /\ caller = "reading" /\ pending = 0 /\ eventsClosed
  /\ caller' = "close" /\ why' = "eof"
  /\ UNCHANGED <<life, numbers, wire, accept, chan, timer, err, once, cb,
                 panicked, carried, text, verdict, blame>>

\* ctx.Done: Cancel, which needs the start event, and Close.
relayAskedOff ==
  /\ caller = "reading" /\ askedOff
  /\ cancelWire' = (cancelWire \/ cancelSubj)
  /\ caller' = "close" /\ why' = "ctx"
  /\ UNCHANGED <<life, numbers, inbox, accept, chan, timer, err, once, cb,
                 panicked, carried, text, verdict, blame>>

\* The runtime's caller cancels the run, or the agent shuts down.
AskOff ==
  /\ ~askedOff /\ phase = "open"
  /\ askedOff' = TRUE
  /\ UNCHANGED <<vars, client, phase, relay>>

-----------------------------------------------------------------------------
Loop == relayEvent \/ relayEof \/ relayAskedOff

Consulting ==
  \/ /\ onMsg \/ deliver \/ deliverSelect \/ Loop \/ (TimerFires /\ UNCHANGED relay)
     /\ UNCHANGED phase
  \/ \E t \in Threads : closeDone(t) \/ closeEvents(t)

OfSubscription(A) == ~panicked /\ client = "subscription" /\ A
                     /\ UNCHANGED <<client, phase, askedOff, relay>>
OfConsult(A) == client = "consult" /\ phase \in {"open", "over"} /\ A
                /\ UNCHANGED <<client, askedOff>>

ConsultNext ==
  \/ OfSubscription(Server \/ Lose \/ Client)
  \/ OfConsult((Server \/ Lose) /\ UNCHANGED <<phase, relay>>)
  \/ OfConsult(Consulting)
  \/ client = "consult" /\ (Unsent \/ openEngineStream \/ AskOff)

(* As in NatsStream: goroutines that can run do run, and consult keeps      *)
(* going round its loop.  Nothing is assumed of timer, network or ctx.      *)
ConsultSpec ==
  /\ ConsultInit /\ [][ConsultNext]_cvars
  /\ WF_cvars(OfSubscription(OnMessage))
  /\ WF_cvars(OfSubscription(Select))
  /\ WF_cvars(OfSubscription(Recv))
  /\ \A t \in Threads :
       /\ WF_cvars(OfSubscription(closeInternal(t) \/ closeReturns(t)))
       /\ WF_cvars(OfConsult(closeDone(t) \/ closeEvents(t)))
  /\ WF_cvars(OfConsult((onMsg \/ deliver \/ deliverSelect) /\ UNCHANGED phase))
  /\ WF_cvars(OfConsult(Loop /\ UNCHANGED phase))

-----------------------------------------------------------------------------
(* engineStream's promise that natsstream's client does not keep: when the  *)
(* events channel is closed, no send is under way on it (stream.go: a late  *)
(* engine event racing a timeout or cancel never sends on a closed          *)
(* channel).                                                                *)
SerializedDelivery == client = "consult" => (eventsClosed => muFree)

(* What a consult reads is in the order the workflow said it, nothing twice *)
(* and, unless it ran into its timeout or was asked off, nothing missing.   *)
RelayedInOrder ==
  \A i \in DOMAIN carried :
    /\ \A j \in 1..i-1 : carried[j].seq < carried[i].seq
    /\ carried[i].type = "refusal" \/ carried[i].type = said[carried[i].seq + 1]
    /\ carried[i].seq = i - 1 \/ carried[i].type = "refusal"
         \/ timer # "armed" \/ caller # "reading"

(* Every consult that is over gave its stream exactly one terminator, or    *)
(* none when it was asked off (nats-agent then emits its own), and a true   *)
(* one.  Until the timeout, what consult reads has no gap: done and error   *)
(* close the whole stream the workflow said, in its order, or are a         *)
(* refusal.  An upstream error is only ever the timeout's, and says so.     *)
VerdictTrue ==
  client = "consult" =>
    /\ RelayedInOrder
    /\ phase = "over" => (verdict = "none" <=> why = "ctx")
    /\ verdict \in {"done", "error"} =>
         \/ carried[nread].type = "refusal" /\ nread = 1
         \/ /\ closed /\ carried[nread].type = said[Len(said)]
            /\ nread = Len(said) \/ timer # "armed"
    /\ verdict = "upstream" => timer \in {"close", "fired"} /\ blame

(* A consult ends once it is asked off, the timer has expired, the request  *)
(* was refused or the terminator has come in, also when the callback is     *)
(* stuck under the mutex on a channel consult no longer reads; a refusal    *)
(* does not wait for the timeout.                                           *)
ConsultReturns ==
  (client = "consult" /\ phase = "open"
     /\ (askedOff \/ timer \in {"close", "fired"} \/ (cb # "idle" /\ Ends(held))))
  ~> phase = "over"
=============================================================================
