------------------------------ MODULE WebBridge ------------------------------
(***************************************************************************)
(* One browser WebSocket of webbridge/bridge.go after its first frame was  *)
(* read and authorized: streamChat's multi-turn loop and its reader        *)
(* goroutine, pumpEvents, and the bridge's own streaming client            *)
(* (webbridge/natsstream.go), against the agent runs each turn starts.     *)
(* NATS is taken as reliable here; NatsStream is about what it may lose.   *)
(* The callback is one step here: that its send can meet the channel being *)
(* closed (natsstream.go:124-128 against 229-230) is the same race as the  *)
(* one NatsStream shows in the package's other client, and is not repeated *)
(* here.                                                                   *)
(***************************************************************************)
EXTENDS Integers, Sequences, FiniteSets

CONSTANTS MaxTurns,     \* bound: user messages the browser sends
          MaxFrames,    \* bound: frames of any kind the browser sends
          MaxData,      \* bound: data events of one agent run
          FrameCap,     \* capacity of clientFrames (4 in bridge.go)
          ChanCap,      \* capacity of the events channel (32)
          MayTimeout    \* may the 5 minute stream timeout expire?

ASSUME BridgeBounds ==
  /\ MaxTurns \in Nat \ {0} /\ MaxFrames \in Nat /\ MaxData \in Nat
  /\ FrameCap \in Nat \ {0} /\ ChanCap \in Nat \ {0}
  /\ MayTimeout \in BOOLEAN

Turns == 1..MaxTurns
NoSession == 0          \* session ids: the turn whose run minted it, or none,
Resumed == MaxTurns + 1 \* or the one the browser's first frame asked to resume

VARIABLES
  wsUp,      \* the browser's end of the socket is open
  up,        \* frames on their way to the bridge
  sent,      \* user messages the browser has sent
  nframes,   \* frames the browser has sent
  gaveUp,    \* it has sent a cancel since its last user message
  rushed,    \* history: it has sent a user message while it was waiting
  screen,    \* frames the browser received, as [turn, type, seq]
  reader,    \* reader goroutine: "read" | "send" | "done" (closed closed)
  rframe,    \* the frame the reader is handing over
  cq,        \* clientFrames
  handler,   \* streamChat: "turn" | "pump" | "between" | "returned"
  turn,      \* the current turn
  active,    \* activeSessionID
  captured,  \* capturedSessionID of the current pump
  reqs,      \* history: the session id each turn was requested with
  how,       \* how each turn's pump ended, "" while it has not
  dropped,   \* user messages pumpEvents consumed and ignored
  inbox,     \* messages on their way to the current turn's inbox
  nextSeq, events, subClosed,   \* the current subscription
  cancelSubj, \* the turns whose subscription knows the run's cancel subject
  agent      \* per turn: [st, seq, sess, cancel, start]

browserVars == <<wsUp, up, sent, nframes, gaveUp, rushed>>
readerVars  == <<reader, rframe>>
loopVars    == <<handler, turn, active, captured, reqs, how, dropped>>
subVars     == <<nextSeq, cancelSubj, events, subClosed>>
vars == <<browserVars, screen, readerVars, cq, loopVars, inbox, subVars, agent>>

Frames == {"user", "tool", "cancel", "junk"}
Terminal == {"complete", "error", "refused", "denied"}

Init ==
  /\ wsUp = TRUE /\ up = << >> /\ sent = 1 /\ nframes = 0 /\ gaveUp = FALSE
  /\ rushed = FALSE
  /\ screen = << >>
  /\ reader = "read" /\ rframe = "junk" /\ cq = << >>
  /\ handler = "turn" /\ turn = 1 /\ active \in {NoSession, Resumed} /\ captured = NoSession
  /\ reqs = << >> /\ how = [t \in Turns |-> ""] /\ dropped = 0
  /\ inbox = << >> /\ nextSeq = 0 /\ cancelSubj = {} /\ events = << >>
  /\ subClosed = TRUE
  /\ agent = [t \in Turns |->
       [st |-> "none", seq |-> 0, sess |-> NoSession, cancel |-> FALSE, start |-> FALSE]]

-----------------------------------------------------------------------------
(* The browser.                                                             *)

\* The browser is not waiting: the turn of its last message ended on screen,
\* or it has cancelled since.
Idle == \/ \E i \in DOMAIN screen : screen[i].turn = sent /\ screen[i].type \in Terminal
        \/ gaveUp

BrowserSends(f) ==
  /\ wsUp /\ nframes < MaxFrames
  /\ f = "user" => sent < MaxTurns
  /\ up' = Append(up, f)
  /\ nframes' = nframes + 1
  /\ sent' = IF f = "user" THEN sent + 1 ELSE sent
  /\ gaveUp' = (f = "cancel" \/ (f # "user" /\ gaveUp))
  /\ rushed' = (rushed \/ (f = "user" /\ ~Idle))
  /\ UNCHANGED <<wsUp, screen, readerVars, cq, loopVars, inbox, subVars, agent>>

BrowserLeaves ==
  /\ wsUp /\ wsUp' = FALSE
  /\ UNCHANGED <<up, sent, nframes, gaveUp, rushed, screen, readerVars, cq, loopVars, inbox, subVars, agent>>

-----------------------------------------------------------------------------
(* The reader goroutine.  closed is reader = "done": only the reader closes *)
(* it, so its own <-closed case can never be taken.                         *)

ReaderReads ==
  /\ reader = "read"
  /\ \/ /\ up # << >>
        /\ up' = Tail(up)
        /\ rframe' = Head(up)
        /\ reader' = IF Head(up) = "junk" THEN "read" ELSE "send"
     \/ /\ ~wsUp \/ handler = "returned"
        /\ reader' = "done"
        /\ UNCHANGED <<up, rframe>>
  /\ UNCHANGED <<wsUp, sent, nframes, gaveUp, rushed, screen, cq, loopVars, inbox, subVars, agent>>

ReaderSends ==
  /\ reader = "send" /\ Len(cq) < FrameCap
  /\ cq' = Append(cq, rframe)
  /\ reader' = "read" /\ rframe' = "junk"
  /\ UNCHANGED <<browserVars, screen, loopVars, inbox, subVars, agent>>

-----------------------------------------------------------------------------
(* One turn.                                                                *)

\* doStreamingRequest in runOneTurn: a fresh subscription, then the publish.
OpenTurn ==
  /\ handler = "turn"
  /\ reqs' = Append(reqs, active)
  /\ captured' = NoSession
  /\ \/ /\ handler' = "pump"
        /\ inbox' = << >> /\ nextSeq' = 0 /\ events' = << >>
        /\ subClosed' = FALSE
        /\ agent' = [agent EXCEPT ![turn].st = "requested", ![turn].sess = active]
        /\ UNCHANGED <<screen, how, cancelSubj>>
     \/ /\ handler' = "between"
        /\ screen' = Append(screen, [turn |-> turn, type |-> "refused", seq |-> 0])
        /\ how' = [how EXCEPT ![turn] = "open-failed"]
        /\ UNCHANGED <<inbox, subVars, agent>>
  /\ UNCHANGED <<browserVars, readerVars, cq, turn, active, dropped>>

\* A bug: every terminator is read with sequence 0.
ParsedSeqZero(m) == IF m.type \in Terminal THEN 0 ELSE m.seq

\* The client's callback.  Every message whose status is not 200 is read as an
\* error with sequence 0: a refusal, but also the agent's error terminator.
ParsedSeq(m) == IF m.type \in {"error", "refused", "denied"} THEN 0 ELSE m.seq

OnMessage ==
  /\ ~subClosed /\ inbox # << >> /\ Len(events) < ChanCap
  /\ inbox' = Tail(inbox)
  /\ LET m == Head(inbox) IN
       \/ /\ ParsedSeq(m) = nextSeq
          /\ nextSeq' = nextSeq + 1
          /\ cancelSubj' = IF m.type = "start" THEN cancelSubj \cup {turn} ELSE cancelSubj
          /\ events' = Append(events, [m EXCEPT !.seq = ParsedSeq(m)])
          /\ subClosed' = (m.type \in Terminal)
       \/ /\ ParsedSeq(m) # nextSeq
          /\ UNCHANGED subVars
  /\ UNCHANGED <<browserVars, screen, readerVars, cq, loopVars, agent>>

StreamTimeout ==
  /\ MayTimeout /\ ~subClosed /\ handler = "pump"
  /\ subClosed' = TRUE
  /\ UNCHANGED <<browserVars, screen, readerVars, cq, loopVars, inbox,
                 nextSeq, cancelSubj, events, agent>>

\* The subscription goes out of scope with the turn: what it had not
\* delivered is gone.
Unsubscribed == /\ subClosed' = TRUE /\ inbox' = << >> /\ events' = << >>
                /\ nextSeq' = 0 /\ UNCHANGED cancelSubj

\* A bug: leaving a turn clears the session when the turn saw no start.
LeaveForgetful(reason) ==
  /\ how' = [how EXCEPT ![turn] = reason]
  /\ handler' = IF reason = "fatal" THEN "returned" ELSE "between"
  /\ active' = captured'
  /\ Unsubscribed

\* pumpEvents returns, runOneTurn closes the subscription and streamChat keeps
\* the session id the turn captured, if it captured one.
Leave(reason) ==
  /\ how' = [how EXCEPT ![turn] = reason]
  /\ handler' = IF reason = "fatal" THEN "returned" ELSE "between"
  /\ active' = IF captured' # NoSession THEN captured' ELSE active
  /\ Unsubscribed

\* sub.Cancel: an error, and nothing sent, before the start event arrived.
CancelUpstream == agent' = IF turn \in cancelSubj THEN [agent EXCEPT ![turn].cancel = TRUE] ELSE agent

\* A bug: the socket closed, but the upstream run is left alone.
PumpClosedNoCancel ==
  /\ handler = "pump" /\ reader = "done"
  /\ UNCHANGED captured /\ Leave("closed") /\ UNCHANGED agent
  /\ UNCHANGED <<browserVars, screen, readerVars, cq, turn, reqs, dropped>>

PumpClosed ==
  /\ handler = "pump" /\ reader = "done"
  /\ UNCHANGED captured /\ Leave("closed") /\ CancelUpstream
  /\ UNCHANGED <<browserVars, screen, readerVars, cq, turn, reqs, dropped>>

\* The keepalive tick finds the socket gone.
PumpPingFails ==
  /\ handler = "pump" /\ ~wsUp
  /\ UNCHANGED captured /\ Leave("write-err") /\ CancelUpstream
  /\ UNCHANGED <<browserVars, screen, readerVars, cq, turn, reqs, dropped>>

\* A bug: cancel is passed upstream but the pump keeps the turn open.
PumpFrameStays ==
  /\ handler = "pump" /\ cq # << >>
  /\ cq' = Tail(cq)
  /\ \/ /\ Head(cq) = "cancel"
        /\ CancelUpstream
        /\ UNCHANGED <<handler, active, how, inbox, subVars, dropped>>
     \/ /\ Head(cq) = "user"
        /\ dropped' = dropped + 1
        /\ UNCHANGED <<handler, active, how, inbox, subVars, agent>>
     \/ /\ Head(cq) = "tool"
        /\ UNCHANGED <<handler, active, how, inbox, subVars, dropped, agent>>
  /\ UNCHANGED <<browserVars, screen, readerVars, turn, captured, reqs>>

\* A client frame inside a turn: a cancel ends the turn at once, a new user
\* message is consumed and ignored, a tool result goes to its own subject.
PumpFrame ==
  /\ handler = "pump" /\ cq # << >>
  /\ cq' = Tail(cq)
  /\ UNCHANGED captured
  /\ \/ /\ Head(cq) = "cancel"
        /\ Leave("cancel") /\ CancelUpstream
        /\ UNCHANGED dropped
     \/ /\ Head(cq) = "user"
        /\ dropped' = dropped + 1
        /\ UNCHANGED <<handler, active, how, inbox, subVars, agent>>
     \/ /\ Head(cq) = "tool"
        /\ UNCHANGED <<handler, active, how, inbox, subVars, dropped, agent>>
  /\ UNCHANGED <<browserVars, screen, readerVars, turn, reqs>>

\* What is written for an event; after a 401/403 also a session-expired frame.
Written(e) == <<[turn |-> e.turn, type |-> e.type, seq |-> e.seq]>>
              \o (IF e.type = "denied" THEN <<[turn |-> e.turn, type |-> "expired", seq |-> 0]>>
                  ELSE << >>)

\* A stream event: written to the browser (a write to a socket the peer left
\* may still succeed), the start event's session id captured; a terminator
\* ends the turn, and a 401/403 ends the connection.
PumpEvent ==
  /\ handler = "pump" /\ events # << >>
  /\ LET e == Head(events) IN
       /\ captured' = IF e.type = "start" THEN e.sess ELSE captured
       /\ \/ /\ ~wsUp
             /\ Leave("write-err") /\ CancelUpstream
             /\ UNCHANGED screen
          \/ /\ screen' = screen \o (IF wsUp THEN Written(e) ELSE << >>)
             /\ \/ e.type = "denied" /\ Leave("fatal")
                \/ e.type \in Terminal \ {"denied"} /\ Leave("terminal")
                \/ /\ e.type \notin Terminal
                   /\ events' = Tail(events)
                   /\ UNCHANGED <<handler, active, how, inbox, nextSeq, cancelSubj, subClosed>>
             /\ UNCHANGED agent
  /\ UNCHANGED <<browserVars, readerVars, cq, turn, reqs, dropped>>

\* The channel closed and drained without a terminator in it: no frame is
\* written and nothing is cancelled.
PumpEof ==
  /\ handler = "pump" /\ subClosed /\ events = << >>
  /\ UNCHANGED captured /\ Leave("eof")
  /\ UNCHANGED <<browserVars, screen, readerVars, cq, turn, reqs, dropped, agent>>

\* A bug: waiting for the next message without watching the socket.
BetweenDeaf ==
  /\ handler = "between" /\ cq # << >>
  /\ cq' = Tail(cq)
  /\ \/ /\ Head(cq) = "user" /\ turn < MaxTurns
        /\ handler' = "turn" /\ turn' = turn + 1
     \/ /\ Head(cq) # "user"
        /\ UNCHANGED <<handler, turn>>
  /\ UNCHANGED <<browserVars, screen, readerVars, active, captured, reqs, how, dropped,
                 inbox, subVars, agent>>

\* Between turns: frames other than a user message are skipped.
Between ==
  /\ handler = "between"
  /\ \/ /\ cq # << >>
        /\ cq' = Tail(cq)
        /\ \/ /\ Head(cq) = "user" /\ turn < MaxTurns
              /\ handler' = "turn" /\ turn' = turn + 1
           \/ /\ Head(cq) # "user"
              /\ UNCHANGED <<handler, turn>>
     \/ /\ reader = "done"
        /\ handler' = "returned"
        /\ UNCHANGED <<cq, turn>>
  /\ UNCHANGED <<browserVars, screen, readerVars, active, captured, reqs, how, dropped,
                 inbox, subVars, agent>>

-----------------------------------------------------------------------------
(* The agent run of turn t (natschat trigger and agent loop), as the bridge *)
(* sees it.                                                                 *)

\* A bug: the turns of a socket share one reply inbox.
DeliverShared(t, m) == inbox' = IF subClosed THEN inbox ELSE Append(inbox, m)

\* A message reaches the bridge only through the current turn's inbox.
Deliver(t, m) == inbox' = IF t = turn /\ ~subClosed THEN Append(inbox, m) ELSE inbox

\* A refusal before the stream starts.  The bridge tells 401/403 from the rest;
\* natschat answers its own denials with status 400 (validationErr; the 403 is
\* only the API status), so "denied" stands for an agent that does otherwise.
AgentRefuses(t) ==
  /\ agent[t].st = "requested"
  /\ agent' = [agent EXCEPT ![t].st = "ended"]
  /\ \E c \in {"refused", "denied"} :
       Deliver(t, [turn |-> t, type |-> c, seq |-> 0, sess |-> NoSession])
  /\ UNCHANGED <<browserVars, screen, readerVars, cq, loopVars, subVars>>

\* handle mints a session id when the request has none, and echoes it.
AgentStarts(t) ==
  /\ agent[t].st = "requested"
  /\ LET s == IF agent[t].sess = NoSession THEN t ELSE agent[t].sess IN
       /\ agent' = [agent EXCEPT ![t].st = "running", ![t].seq = 1, ![t].sess = s,
                                 ![t].start = TRUE]
       /\ Deliver(t, [turn |-> t, type |-> "start", seq |-> 0, sess |-> s])
  /\ UNCHANGED <<browserVars, screen, readerVars, cq, loopVars, subVars>>

AgentSends(t, e) ==
  /\ agent[t].st = "running"
  /\ e = "data" => agent[t].seq <= MaxData
  /\ agent' = [agent EXCEPT ![t].seq = @ + 1, ![t].st = IF e = "data" THEN "running" ELSE e]
  /\ Deliver(t, [turn |-> t, type |-> e, seq |-> agent[t].seq, sess |-> agent[t].sess])
  /\ UNCHANGED <<browserVars, screen, readerVars, cq, loopVars, subVars>>

-----------------------------------------------------------------------------
Pump == PumpClosed \/ PumpPingFails \/ PumpFrame \/ PumpEvent \/ PumpEof

Next ==
  \/ \E f \in Frames : BrowserSends(f)
  \/ BrowserLeaves
  \/ ReaderReads \/ ReaderSends
  \/ OpenTurn \/ OnMessage \/ StreamTimeout \/ Pump \/ Between
  \/ \E t \in Turns : \/ AgentRefuses(t) \/ AgentStarts(t)
                      \/ \E e \in {"data", "complete", "error"} : AgentSends(t, e)

Spec == Init /\ [][Next]_vars

(* The bridge's three goroutines run: the reader, the handler, the NATS     *)
(* callback.  Which ready case a select takes is left open, and nothing is  *)
(* assumed of the browser or the agent.                                     *)
Fairness ==
  /\ WF_vars(ReaderReads \/ ReaderSends)
  /\ WF_vars(OpenTurn \/ Pump \/ Between)
  /\ WF_vars(OnMessage)

FairSpec == Spec /\ Fairness

-----------------------------------------------------------------------------
(* The type invariant. *)
TypeOK ==
  /\ wsUp \in BOOLEAN /\ gaveUp \in BOOLEAN /\ rushed \in BOOLEAN
  /\ sent \in 0..MaxTurns /\ nframes \in 0..MaxFrames
  /\ reader \in {"read", "send", "done"} /\ rframe \in Frames
  /\ Len(cq) <= FrameCap
  /\ handler \in {"turn", "pump", "between", "returned"}
  /\ turn \in Turns /\ active \in 0..Resumed /\ captured \in 0..Resumed
  /\ dropped \in 0..MaxTurns /\ nextSeq \in Nat /\ Len(events) <= ChanCap
  /\ cancelSubj \subseteq Turns /\ subClosed \in BOOLEAN

(* What the browser sees of the agent runs: frames of one run before those of *)
(* the next, numbered 0,1,2,... within a turn, nothing after a terminator   *)
(* but the session-expired frame of a denial.                               *)
ScreenInOrder ==
  \A i \in 2..Len(screen) :
    LET p == screen[i - 1]  q == screen[i] IN
      \/ q.turn = p.turn /\ q.seq = p.seq + 1 /\ p.type \notin Terminal \cup {"expired"}
      \/ q.turn > p.turn /\ q.seq = 0
      \/ q.turn = p.turn /\ q.type = "expired" /\ p.type = "denied"

(* Memory depends on the session id: once a start frame told the bridge a   *)
(* session, every later turn of the socket is requested with that session,  *)
(* whatever turns were cancelled, refused or cut off in between; a session  *)
(* the browser asked to resume is the session of every turn.                *)
SessionThreaded ==
  /\ \A t \in DOMAIN reqs : reqs[1] # NoSession => reqs[t] = reqs[1]
  /\ \A i \in DOMAIN screen :
       screen[i].type = "start" =>
         \A t \in (screen[i].turn + 1)..Len(reqs) : reqs[t] = agent[screen[i].turn].sess

(* A browser that waits for the end of a turn (its terminal frame, or its   *)
(* own cancel) before it sends the next message never loses a message in    *)
(* pumpEvents' "new turn mid-flight" case.                                  *)
NoMessageDropped == ~rushed => dropped = 0

(* A turn that ends while its run goes on (a cancel frame, a closed socket, *)
(* a failed write of a frame or a ping) tells the run to stop, from the     *)
(* moment on at which the start event, which carries the cancel subject,    *)
(* reached the bridge: whether or not a frame was shown, and whatever the   *)
(* later turns of the socket do.  The one exit that leaves a run alone is   *)
(* the closed events channel (bridge.go:440-445), which a run that is still *)
(* going meets only when the stream's own timeout struck.                   *)
AbandonedIsCancelled ==
  \A t \in cancelSubj :
    how[t] \notin {"", "eof"} /\ agent[t].st = "running" => agent[t].cancel

(* A browser that disconnects does not leave the handler behind.            *)
HandlerReturns == ~wsUp ~> (handler = "returned")

(* On a reliable network an answer the agent completed reaches the screen,  *)
(* unless the browser cancelled or left, or the stream timed out.           *)
CompleteShown ==
  \A t \in Turns :
    (agent[t].st = "complete") ~>
      \/ \E i \in DOMAIN screen : screen[i].turn = t /\ screen[i].type = "complete"
      \/ how[t] \in {"cancel", "closed", "write-err", "eof"} \/ ~wsUp

(* The same for a run the agent failed: "Receive frames: start, delta, ..., *)
(* complete, error" (docs/EXTENDING.md).                                    *)
ErrorShown ==
  \A t \in Turns :
    (agent[t].st = "error") ~>
      \/ \E i \in DOMAIN screen : screen[i].turn = t /\ screen[i].type \in Terminal
      \/ how[t] \in {"cancel", "closed", "write-err"} \/ ~wsUp
=============================================================================
