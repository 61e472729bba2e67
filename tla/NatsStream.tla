----------------------------- MODULE NatsStream -----------------------------
(***************************************************************************)
(* One streaming request of pkg/transport/natsstream, both ends of it:     *)
(* the agent-side StreamSession (server.go) driven by the natschat trigger *)
(* and the client-side StreamSubscription (client.go) with its three       *)
(* threads: the NATS callback, the AfterFunc timer and the caller.         *)
(*                                                                         *)
(* The events channel is kept as an append-only log (pushed) and a read    *)
(* cursor (nread); its content is what lies between them.  NATS core is    *)
(* FIFO per publisher and at-most-once: inbox messages may be lost, never  *)
(* reordered or duplicated.                                                *)
(***************************************************************************)
EXTENDS Integers, Sequences

CONSTANTS MaxEvents,    \* bound: events one session may number
          ChanCap,      \* capacity of the events channel (32 in client.go)
          Lossy,        \* may NATS lose messages and publishes fail?
          HasTimeout    \* DoStreamingRequest called with timeout > 0

ASSUME BoundsAssumption == MaxEvents \in Nat /\ ChanCap \in Nat \ {0}
ASSUME SwitchAssumption == Lossy \in BOOLEAN /\ HasTimeout \in BOOLEAN

VARIABLES
  session,     \* "none" | "created" | "running" | "refused": the trigger's progress
  seq,         \* StreamSession.seq: next sequence number
  closed,      \* StreamSession.closed
  ctxDone,     \* StreamSession.cancelCtx has fired
  cancelSub,   \* the cancel subscription is live
  said,        \* history: the event type numbered i-1, at position i
  inbox,       \* messages on their way to the client's reply inbox
  cancelWire,  \* a cancel message is on its way to the session
  nextSeq,     \* the sequence number the callback accepts next
  cancelSubj,  \* the client knows the cancel subject
  cb,          \* the NATS callback: "idle" | "select" | "blocked" | "close"
  held,        \* the event the callback is sending
  pushed,      \* every event ever sent on the events channel
  nread,       \* how many of them the caller has received
  timer,       \* "off" | "armed" | "close" | "fired"
  caller,      \* "reading" | "close" | "closed"
  closer,      \* the thread inside closeOnce
  closeStep,   \* 0 not begun, 1 unsubscribed, 2 done closed, 3 events closed
  err,         \* StreamSubscription.err is set
  panicked     \* a send hit the closed events channel: the process is gone

life    == <<session, closed, ctxDone, cancelSub>>
numbers == <<seq, said>>
wire    == <<inbox, cancelWire>>
accept  == <<nextSeq, cancelSubj, held>>
chan    == <<pushed, nread>>
others  == <<timer, caller, err>>
once    == <<closer, closeStep>>
vars    == <<life, numbers, wire, accept, cb, chan, others, once, panicked>>

Terminators == {"complete", "error"}
EventTypes  == {"start", "data"} \cup Terminators
Threads     == {"callback", "timer", "caller"}

(* An event message carries its number; a plain nats-service reply (a       *)
(* refusal) or the server's no-responders notice has no _Stream_Event.      *)
NotAnEvent == [type |-> "reply", seq |-> 0]
Messages   == [type : EventTypes, seq : Nat] \cup {NotAnEvent}

Init ==
  /\ session = "none" /\ seq = 0 /\ closed = FALSE /\ ctxDone = FALSE
  /\ cancelSub = FALSE /\ said = << >>
  /\ inbox = << >> /\ cancelWire = FALSE
  /\ nextSeq = 0 /\ cancelSubj = FALSE /\ cb = "idle" /\ held = "start"
  /\ pushed = << >> /\ nread = 0
  /\ timer = IF HasTimeout THEN "armed" ELSE "off"
  /\ caller = "reading" /\ closer = "none" /\ closeStep = 0
  /\ err = FALSE /\ panicked = FALSE

-----------------------------------------------------------------------------
(* The agent side.                                                          *)

\* publish: the number is taken first, then the message goes out; a failing
\* PublishMsg leaves a gap in the numbers on the wire.
publish(e) ==
  /\ seq' = seq + 1
  /\ said' = Append(said, e)
  /\ \/ inbox' = Append(inbox, [type |-> e, seq |-> seq])
     \/ Lossy /\ UNCHANGED inbox

\* handle refuses the request (identity, token, body, no sink), or nobody
\* listens on the subject: one message that is not a stream event.
Refuse ==
  /\ session = "none"
  /\ session' = "refused"
  /\ inbox' = Append(inbox, NotAnEvent)
  /\ UNCHANGED <<numbers, accept, chan, others, once, closed, ctxDone,
                 cancelSub, cancelWire, cb, panicked>>

NewStreamSession ==
  /\ session = "none"
  /\ session' = "created"
  /\ cancelSub' = TRUE
  /\ UNCHANGED <<numbers, wire, accept, chan, others, once, closed, ctxDone,
                 cb, panicked>>

\* Start; when its publish fails the handler answers 500 and the run never
\* begins (the cancel subscription stays behind).
Start ==
  /\ session = "created"
  /\ seq' = seq + 1
  /\ said' = Append(said, "start")
  /\ \/ /\ session' = "running"
        /\ inbox' = Append(inbox, [type |-> "start", seq |-> seq])
     \/ /\ Lossy
        /\ session' = "refused"
        /\ inbox' = Append(inbox, NotAnEvent)
  /\ UNCHANGED <<accept, chan, others, once, closed, ctxDone, cancelSub,
                 cancelWire, cb, panicked>>

\* Send of a non-terminator; a call on a closed session returns ErrClosed and
\* changes nothing.
Send ==
  /\ session = "running"
  /\ ~closed
  /\ seq < MaxEvents
  /\ publish("data")
  /\ UNCHANGED <<life, accept, chan, others, once, cancelWire, cb, panicked>>

\* Complete, Fail, or Send of a terminator; idempotent after the first.
terminate(e) ==
  /\ session = "running"
  /\ ~closed
  /\ closed' = TRUE
  /\ cancelSub' = FALSE
  /\ ctxDone' = TRUE
  /\ publish(e)
  /\ UNCHANGED <<accept, chan, others, once, session, cancelWire, cb,
                 panicked>>

\* The cancel subscription's callback.
OnCancel ==
  /\ cancelWire /\ cancelWire' = FALSE
  /\ ctxDone' = (ctxDone \/ cancelSub)
  /\ UNCHANGED <<numbers, accept, chan, others, once, session, closed,
                 cancelSub, inbox, cb, panicked>>

-----------------------------------------------------------------------------
(* NATS.  Losing the head covers losing any message: the others before it   *)
(* are delivered first.                                                     *)
Lose ==
  /\ Lossy
  /\ \/ inbox # << >> /\ inbox' = Tail(inbox) /\ UNCHANGED cancelWire
     \/ cancelWire /\ cancelWire' = FALSE /\ UNCHANGED inbox
  /\ UNCHANGED <<life, numbers, accept, chan, others, once, cb, panicked>>

-----------------------------------------------------------------------------
(* The client side.                                                         *)

doneClosed   == closeStep >= 2
eventsClosed == closeStep = 3
ChanLen      == Len(pushed) - nread

\* A bug the sequence check prevents: taking events as they come.
AcceptsAny(m) == m.type \in EventTypes

\* ParseStreamMessage succeeds and the number is the one expected.
Accepts(m) == m.type \in EventTypes /\ m.seq = nextSeq

\* The callback up to its select.  A message that is not the next event is
\* logged and dropped; the first event carries the cancel subject.
OnMessage ==
  /\ cb = "idle" /\ closeStep = 0 /\ inbox # << >>
  /\ inbox' = Tail(inbox)
  /\ LET m == Head(inbox) IN
       \/ /\ Accepts(m)
          /\ nextSeq' = nextSeq + 1
          /\ cancelSubj' = (cancelSubj \/ m.seq = 0)
          /\ held' = m.type
          /\ cb' = "select"
       \/ /\ ~Accepts(m)
          /\ UNCHANGED <<accept, cb>>
  /\ UNCHANGED <<life, numbers, chan, others, once, cancelWire, panicked>>

AfterSend == IF held \in Terminators THEN "close" ELSE "idle"

\* A bug: a default case, so that a full channel loses the event.
SelectDrops ==
  /\ cb = "select"
  /\ \/ /\ ~eventsClosed /\ ChanLen < ChanCap
        /\ pushed' = Append(pushed, held)
     \/ /\ ChanLen >= ChanCap \/ doneClosed
        /\ UNCHANGED pushed
  /\ cb' = AfterSend
  /\ UNCHANGED <<life, numbers, wire, accept, others, once, nread, panicked>>

\* select { events <- evt ; <-done }: either ready case may be taken, a send
\* on the closed channel panics, and with neither ready the callback blocks.
Select ==
  /\ cb = "select"
  /\ \/ /\ ~eventsClosed /\ ChanLen < ChanCap
        /\ pushed' = Append(pushed, held)
        /\ cb' = AfterSend
        /\ UNCHANGED panicked
     \/ /\ doneClosed
        /\ cb' = "idle"
        /\ UNCHANGED <<pushed, panicked>>
     \/ /\ eventsClosed
        /\ panicked' = TRUE
        /\ UNCHANGED <<pushed, cb>>
     \/ /\ ~doneClosed /\ ChanLen >= ChanCap
        /\ cb' = "blocked"
        /\ UNCHANGED <<pushed, panicked>>
  /\ UNCHANGED <<life, numbers, wire, accept, others, once, nread>>

\* The caller's receive; the runtime hands a blocked sender's value over in
\* the same step.
Recv ==
  /\ caller = "reading" /\ nread < Len(pushed)
  /\ nread' = nread + 1
  /\ \/ /\ cb = "blocked"
        /\ pushed' = Append(pushed, held)
        /\ cb' = AfterSend
     \/ /\ cb # "blocked"
        /\ UNCHANGED <<pushed, cb>>
  /\ UNCHANGED <<life, numbers, wire, accept, others, once, panicked>>

\* Cancel: only once the start event told the subject.
Cancel ==
  /\ caller = "reading" /\ cancelSubj
  /\ cancelWire' = TRUE
  /\ UNCHANGED <<life, numbers, accept, chan, others, once, inbox, cb,
                 panicked>>

\* A bug: the timeout is recorded but the subscription stays open.
TimerOnlySetsErr ==
  /\ timer = "armed"
  /\ timer' = "fired"
  /\ err' = TRUE
  /\ UNCHANGED <<life, numbers, wire, accept, chan, once, cb, caller,
                 panicked>>

\* The AfterFunc: nothing ever stops it, and it overwrites err.
TimerFires ==
  /\ timer = "armed"
  /\ timer' = "close"
  /\ err' = TRUE
  /\ UNCHANGED <<life, numbers, wire, accept, chan, once, cb, caller,
                 panicked>>

\* Close, called while reading or after the channel closed.
CallerCloses ==
  /\ caller = "reading"
  /\ caller' = "close"
  /\ UNCHANGED <<life, numbers, wire, accept, chan, once, cb, timer, err,
                 panicked>>

InClose(t) == CASE t = "callback" -> cb = "close"
                [] t = "timer"    -> timer = "close"
                [] t = "caller"   -> caller = "close"

\* closeInternal inside closeOnce: Unsubscribe, close(done), close(events).
\* close(done) completes a blocked select with its done case.
closeInternal(t) ==
  /\ InClose(t)
  /\ closeStep < 3
  /\ closer = (IF closeStep = 0 THEN "none" ELSE t)
  /\ closer' = t
  /\ closeStep' = closeStep + 1
  /\ cb' = IF closeStep = 1 /\ cb = "blocked" THEN "idle" ELSE cb
  /\ UNCHANGED <<life, numbers, wire, accept, chan, others, panicked>>

\* closeInternal returns to its caller once the Once is done, whoever ran it.
closeReturns(t) ==
  /\ InClose(t)
  /\ closeStep = 3
  /\ cb'     = IF t = "callback" THEN "idle" ELSE cb
  /\ timer'  = IF t = "timer" THEN "fired" ELSE timer
  /\ caller' = IF t = "caller" THEN "closed" ELSE caller
  /\ UNCHANGED <<life, numbers, wire, accept, chan, once, err, panicked>>

-----------------------------------------------------------------------------
Server == \/ Refuse \/ NewStreamSession \/ Start \/ Send \/ OnCancel
          \/ \E e \in Terminators : terminate(e)

Client == \/ OnMessage \/ Select \/ Recv \/ Cancel \/ TimerFires \/ CallerCloses
          \/ \E t \in Threads : closeInternal(t) \/ closeReturns(t)

Next == ~panicked /\ (Server \/ Lose \/ Client)

Spec == Init /\ [][Next]_vars

(* Goroutines that can run do run, and the caller keeps receiving.  Nothing *)
(* is assumed of the agent, of NATS, of the moment the timer expires, or of *)
(* Cancel and Close, which the caller may never call.                       *)
Fairness == /\ WF_vars(~panicked /\ OnMessage)
            /\ WF_vars(~panicked /\ Select)
            /\ WF_vars(~panicked /\ Recv)
            /\ \A t \in Threads :
                 WF_vars(~panicked /\ (closeInternal(t) \/ closeReturns(t)))

FairSpec == Spec /\ Fairness

-----------------------------------------------------------------------------
(* The type invariant of both ends. *)
TypeOK ==
  /\ session \in {"none", "created", "running", "refused"}
  /\ seq \in Nat /\ closed \in BOOLEAN /\ ctxDone \in BOOLEAN
  /\ cancelSub \in BOOLEAN /\ said \in Seq(EventTypes)
  /\ inbox \in Seq(Messages) /\ cancelWire \in BOOLEAN
  /\ nextSeq \in Nat /\ cancelSubj \in BOOLEAN
  /\ cb \in {"idle", "select", "blocked", "close"} /\ held \in EventTypes
  /\ pushed \in Seq(EventTypes) /\ nread \in Nat
  /\ timer \in {"off", "armed", "close", "fired"}
  /\ caller \in {"reading", "close", "closed"}
  /\ closer \in Threads \cup {"none"} /\ closeStep \in 0..3
  /\ err \in BOOLEAN /\ panicked \in BOOLEAN

(* However messages are lost, publishes fail and threads interleave, what   *)
(* the client's channel ever carried is exactly the beginning of what the   *)
(* session numbered: no gap, no reordering (client.go's sequence check).    *)
HearsPrefix ==
  /\ Len(pushed) <= Len(said)
  /\ \A i \in 1..Len(pushed) : pushed[i] = said[i]

(* The wire grammar of doc.go: 0 is start, and a terminator is the last     *)
(* number the session ever uses, whatever the handlers call afterwards.     *)
SaysGrammar ==
  \A i \in 1..Len(said) :
    /\ (said[i] = "start") <=> (i = 1)
    /\ (said[i] \in Terminators) => (i = Len(said) /\ closed)

(* When the channel was closed by the callback (not by the timer or by      *)
(* Close), the stream is whole: everything the session ever said is in it.  *)
TerminatorMeansWhole ==
  (closeStep > 0 /\ closer = "callback") => (Len(pushed) = Len(said) /\ closed)

(* Once the timer has expired, the caller's range over Events() ends, even  *)
(* when the terminator is lost, an event before it was, or the callback is  *)
(* stuck on a full channel.                                                 *)
EventsClose == (timer \in {"close", "fired"}) ~> (eventsClosed \/ panicked)

(* The event the callback waits for is neither in the inbox nor to come.    *)
Wedged == /\ nextSeq < Len(said)
          /\ \A i \in 1..Len(inbox) : inbox[i] = NotAnEvent \/ inbox[i].seq # nextSeq

(* An agent that terminates its stream is heard to the end by a client that *)
(* neither closes nor times out, unless the network lost one of the events: *)
(* a caller that is slower than the agent loses nothing.                    *)
TerminatorHeard ==
  closed ~> \/ nread = Len(said)
            \/ caller # "reading" \/ timer \in {"close", "fired"}
            \/ Wedged \/ panicked

(* No send ever meets the closed events channel.                            *)
NoSendOnClosed == ~panicked

(* The client implements the abstract stream.                               *)
Abstract == INSTANCE FifoStream WITH said <- said, heard <- pushed
AbstractSpec == Abstract!Spec
=============================================================================
