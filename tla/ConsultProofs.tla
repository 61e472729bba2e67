---------------------------- MODULE ConsultProofs ----------------------------
(***************************************************************************)
(* Proofs about one streaming session and its two readers: natsstream's    *)
(* own client (NatsStream) and the assistant runtime's consult (Consult).  *)
(*                                                                         *)
(* Both rest on the same facts about the agent's side and the wire         *)
(* (Agent).  For the client: type correctness, the inductive invariant     *)
(* that gives the transport its ordering guarantee, and the refinement of  *)
(* FifoStream.  For the consult: no send meets its closed channel, and the *)
(* terminator it passes on is the true one.                                *)
(***************************************************************************)
EXTENDS Consult, TLAPS

(* The session numbers its events consecutively, and the grammar position   *)
(* is visible in the trigger's progress.                                    *)
SaidOK ==
  /\ seq = Len(said)
  /\ session \in {"none", "created"} => Len(said) = 0
  /\ session = "running" => Len(said) >= 1
  /\ closed => session = "running"
  /\ SaysGrammar

(* Every event message on the wire is the one the session numbered so.      *)
WireOK ==
  \A i \in 1..Len(inbox) :
    inbox[i].type \in EventTypes =>
      inbox[i].seq < Len(said) /\ said[inbox[i].seq + 1] = inbox[i].type

Agent == said \in Seq(EventTypes) /\ seq \in Nat /\ inbox \in Seq(Messages) /\ SaidOK /\ WireOK

(* What the callback has accepted but not yet pushed is exactly one event.  *)
AcceptOK ==
  /\ nextSeq <= Len(said)
  /\ Len(pushed) <= nextSeq
  /\ cb \in {"select", "blocked"} =>
       /\ nextSeq = Len(pushed) + 1
       /\ held = said[nextSeq]
  /\ (cb = "idle" /\ closeStep = 0) => Len(pushed) = nextSeq
  /\ HearsPrefix

(* The callback closes only behind a terminator.                            *)
CloseOK ==
  (cb = "close" \/ (closeStep > 0 /\ closer = "callback"))
    => (Len(pushed) = Len(said) /\ closed)

IInv == TypeOK /\ SaidOK /\ WireOK /\ AcceptOK /\ CloseOK

-----------------------------------------------------------------------------
(* A request that has said and heard nothing satisfies the invariant.       *)
LEMMA InitIInv == Init => IInv
  <1> SUFFICES ASSUME Init PROVE IInv
    OBVIOUS
  <1>1. /\ said = << >> /\ inbox = << >> /\ pushed = << >>
        /\ seq = 0 /\ nextSeq = 0 /\ nread = 0 /\ closeStep = 0
        /\ session = "none" /\ closed = FALSE /\ cb = "idle" /\ closer = "none"
    BY DEF Init
  <1>2. TypeOK
    <2>1. timer \in {"off", "armed", "close", "fired"}
      BY DEF Init
    <2>2. /\ said \in Seq(EventTypes) /\ inbox \in Seq(Messages)
          /\ pushed \in Seq(EventTypes) /\ held \in EventTypes
      BY <1>1 DEF Init, EventTypes
    <2>3. 0 \in Nat /\ 0 \in 0..3 OBVIOUS
    <2> QED BY <1>1, <2>1, <2>2, <2>3, Zenon DEF Init, TypeOK
  <1>3. SaidOK BY <1>1 DEF SaidOK, SaysGrammar
  <1>4. WireOK BY <1>1 DEF WireOK
  <1>5. AcceptOK BY <1>1 DEF AcceptOK, HearsPrefix
  <1>6. CloseOK BY <1>1 DEF CloseOK
  <1> QED BY <1>2, <1>3, <1>4, <1>5, <1>6 DEF IInv

(* The members of the small sets, so that the proofs below need not expand  *)
(* them.                                                                    *)
LEMMA TypeFacts ==
  /\ "start" \in EventTypes /\ "data" \in EventTypes
  /\ Terminators \subseteq EventTypes
  /\ "start" \notin Terminators /\ "data" \notin Terminators
  /\ NotAnEvent \in Messages
  /\ NotAnEvent.type \notin EventTypes
  BY DEF EventTypes, Terminators, Messages, NotAnEvent

(* The fields of an event message.                                          *)
LEMMA EventMessage ==
  ASSUME NEW e \in EventTypes, NEW n \in Nat
  PROVE  /\ [type |-> e, seq |-> n] \in Messages
         /\ [type |-> e, seq |-> n].type = e
         /\ [type |-> e, seq |-> n].seq = n
  BY DEF Messages

(* What appending one element does to a sequence.                           *)
LEMMA AppendFacts ==
  ASSUME NEW S, NEW s \in Seq(S), NEW x \in S
  PROVE  /\ Append(s, x) \in Seq(S)
         /\ Len(s) \in Nat
         /\ Len(Append(s, x)) = Len(s) + 1
         /\ \A i \in 1..Len(s) : Append(s, x)[i] = s[i]
         /\ Append(s, x)[Len(s) + 1] = x
  OBVIOUS

(* publish keeps the wire and the numbering typed, sent or not. *)
LEMMA PublishTyped ==
  ASSUME TypeOK, NEW e \in EventTypes, publish(e)
  PROVE  said' \in Seq(EventTypes) /\ seq' \in Nat /\ inbox' \in Seq(Messages)
  <1>0. said \in Seq(EventTypes) /\ seq \in Nat /\ inbox \in Seq(Messages)
    BY DEF TypeOK
  <1>1. said' \in Seq(EventTypes) /\ seq' \in Nat
    BY <1>0 DEF publish
  <1>2. CASE inbox' = Append(inbox, [type |-> e, seq |-> seq])
    <2>1. [type |-> e, seq |-> seq] \in Messages BY <1>0, EventMessage
    <2> QED BY <1>0, <1>1, <1>2, <2>1
  <1>3. CASE UNCHANGED inbox
    BY <1>0, <1>1, <1>3
  <1> QED BY <1>1, <1>2, <1>3 DEF publish

(* Every step keeps the types. *)
LEMMA TypeStep == TypeOK /\ [Next]_vars => TypeOK'
  <1> SUFFICES ASSUME TypeOK, [Next]_vars PROVE TypeOK'
    OBVIOUS
  <1> USE DEF life, numbers, wire, accept, chan, others, once
  <1>1. CASE Refuse
    <2>1. inbox' \in Seq(Messages) BY <1>1, TypeFacts DEF Refuse, TypeOK
    <2> QED BY <1>1, <2>1 DEF Refuse, TypeOK
  <1>2. CASE NewStreamSession BY <1>2 DEF NewStreamSession, TypeOK
  <1>3. CASE Start
    <2>1. said' \in Seq(EventTypes) /\ seq' \in Nat
      BY <1>3, TypeFacts DEF Start, TypeOK
    <2>2. inbox' \in Seq(Messages)
      <3>1. CASE inbox' = Append(inbox, [type |-> "start", seq |-> seq])
        BY <3>1, TypeFacts, EventMessage DEF TypeOK
      <3>2. CASE inbox' = Append(inbox, NotAnEvent)
        BY <3>2, TypeFacts DEF TypeOK
      <3> QED BY <1>3, <3>1, <3>2 DEF Start
    <2> QED BY <1>3, <2>1, <2>2 DEF Start, TypeOK
  <1>4. CASE Send
    <2>1. said' \in Seq(EventTypes) /\ seq' \in Nat /\ inbox' \in Seq(Messages)
      BY <1>4, TypeFacts, PublishTyped DEF Send
    <2> QED BY <1>4, <2>1 DEF Send, TypeOK
  <1>5. ASSUME NEW e \in Terminators, terminate(e) PROVE TypeOK'
    <2>1. said' \in Seq(EventTypes) /\ seq' \in Nat /\ inbox' \in Seq(Messages)
      BY <1>5, TypeFacts, PublishTyped DEF terminate
    <2> QED BY <1>5, <2>1 DEF terminate, TypeOK
  <1>6. CASE OnCancel
    <2>1. ctxDone' \in BOOLEAN /\ cancelWire' \in BOOLEAN
      BY <1>6 DEF OnCancel, TypeOK
    <2> QED BY <1>6, <2>1 DEF OnCancel, TypeOK
  <1>7. CASE Lose
    <2>1. CASE inbox # << >> /\ inbox' = Tail(inbox) /\ UNCHANGED cancelWire
      <3>1. inbox' \in Seq(Messages) BY <2>1 DEF TypeOK
      <3> QED BY <1>7, <2>1, <3>1 DEF Lose, TypeOK
    <2>2. CASE cancelWire /\ cancelWire' = FALSE /\ UNCHANGED inbox
      <3>1. UNCHANGED <<life, numbers, accept, chan, others, once, cb, panicked>>
        BY <1>7 DEF Lose
      <3>2. cancelWire' \in BOOLEAN /\ inbox' = inbox BY <2>2
      <3> QED BY <3>1, <3>2 DEF TypeOK
    <2> QED BY <1>7, <2>1, <2>2 DEF Lose
  <1>8. CASE OnMessage
    <2> DEFINE m == Head(inbox)
    <2>1. m \in Messages /\ inbox' \in Seq(Messages)
      <3>1. inbox \in Seq(Messages) BY DEF TypeOK
      <3>2. inbox # << >> /\ inbox' = Tail(inbox) BY <1>8 DEF OnMessage
      <3> QED BY <3>1, <3>2
    <2>2. CASE Accepts(m)
      <3>1. held' \in EventTypes /\ nextSeq' \in Nat /\ cb' = "select"
        BY <1>8, <2>2 DEF OnMessage, TypeOK, Accepts
      <3>2. cancelSubj' \in BOOLEAN
        BY <1>8, <2>2 DEF OnMessage, TypeOK
      <3> QED BY <1>8, <2>1, <3>1, <3>2 DEF OnMessage, TypeOK
    <2>3. CASE ~Accepts(m)
      <3>1. UNCHANGED <<accept, cb>> BY <1>8, <2>3 DEF OnMessage
      <3> QED BY <1>8, <2>1, <3>1 DEF OnMessage, TypeOK
    <2> QED BY <2>2, <2>3
  <1>9. CASE Select
    <2>1. pushed' \in Seq(EventTypes)
      <3>1. CASE pushed' = Append(pushed, held) BY <3>1 DEF TypeOK
      <3>2. CASE pushed' = pushed BY <3>2 DEF TypeOK
      <3> QED BY <1>9, <3>1, <3>2 DEF Select
    <2>2. cb' \in {"idle", "select", "blocked", "close"}
      BY <1>9 DEF Select, AfterSend, TypeOK
    <2>3. panicked' \in BOOLEAN BY <1>9 DEF Select, TypeOK
    <2> QED BY <1>9, <2>1, <2>2, <2>3 DEF Select, TypeOK
  <1>10. CASE Recv
    <2>1. pushed' \in Seq(EventTypes)
      <3>1. CASE pushed' = Append(pushed, held) BY <3>1 DEF TypeOK
      <3>2. CASE pushed' = pushed BY <3>2 DEF TypeOK
      <3> QED BY <1>10, <3>1, <3>2 DEF Recv
    <2>2. cb' \in {"idle", "select", "blocked", "close"}
      BY <1>10 DEF Recv, AfterSend, TypeOK
    <2> QED BY <1>10, <2>1, <2>2 DEF Recv, TypeOK
  <1>11. CASE Cancel BY <1>11 DEF Cancel, TypeOK
  <1>12. CASE TimerFires BY <1>12 DEF TimerFires, TypeOK
  <1>13. CASE CallerCloses BY <1>13 DEF CallerCloses, TypeOK
  <1>14. ASSUME NEW t \in Threads, closeInternal(t) PROVE TypeOK'
    BY <1>14 DEF closeInternal, TypeOK
  <1>15. ASSUME NEW t \in Threads, closeReturns(t) PROVE TypeOK'
    BY <1>15 DEF closeReturns, TypeOK
  <1>16. CASE UNCHANGED vars BY <1>16 DEF vars, TypeOK
  <1> QED
    BY <1>1, <1>2, <1>3, <1>4, <1>5, <1>6, <1>7, <1>8, <1>9, <1>10, <1>11,
       <1>12, <1>13, <1>14, <1>15, <1>16 DEF Next, Server, Client

(* The model stays within its types on every behaviour, for any bounds. *)
THEOREM TypeCorrect == Spec => []TypeOK
  <1>1. Init => TypeOK BY InitIInv DEF IInv
  <1> QED BY <1>1, TypeStep, PTL DEF Spec

-----------------------------------------------------------------------------
(* What the agent and the network may do to the rest: say one more event of *)
(* the grammar, or nothing; the client's state is out of their reach.       *)
Says(e) ==
  /\ ~closed /\ said' = Append(said, e) /\ seq' = seq + 1
  /\ (e = "start") <=> (Len(said) = 0)
  /\ \/ inbox' = Append(inbox, [type |-> e, seq |-> seq])
     \/ inbox' = Append(inbox, NotAnEvent)
     \/ inbox' = inbox

(* A step of the agent or a loss numbers at most one event, and leaves the  *)
(* reader alone.                                                            *)
LEMMA ServerSays ==
  ASSUME Agent, Server \/ Lose
  PROVE  /\ UNCHANGED <<accept, cb, chan, others, once, panicked>>
         /\ \/ UNCHANGED <<numbers, closed>>
            \/ \E e \in EventTypes : Says(e)
  <1> USE DEF numbers, wire, life, Says
  <1>1. CASE Refuse \/ NewStreamSession \/ OnCancel \/ Lose
    BY <1>1 DEF Refuse, NewStreamSession, OnCancel, Lose
  <1>2. CASE Start
    <2>1. Len(said) = 0 /\ ~closed BY <1>2 DEF Start, Agent, SaidOK
    <2>2. Says("start") BY <1>2, <2>1 DEF Start
    <2> QED BY <1>2, <2>2, TypeFacts DEF Start
  <1>3. CASE Send
    <2>1. Len(said) # 0 BY <1>3 DEF Send, Agent, SaidOK
    <2>2. Says("data") BY <1>3, <2>1 DEF Send, publish
    <2> QED BY <1>3, <2>2, TypeFacts DEF Send
  <1>4. ASSUME NEW e \in Terminators, terminate(e)
        PROVE  /\ UNCHANGED <<accept, cb, chan, others, once, panicked>>
               /\ \E x \in EventTypes : Says(x)
    <2>1. Len(said) # 0 BY <1>4 DEF terminate, Agent, SaidOK
    <2>2. Says(e) BY <1>4, <2>1, TypeFacts DEF terminate, publish
    <2> QED BY <1>4, <2>2, TypeFacts DEF terminate
  <1> QED BY <1>1, <1>2, <1>3, <1>4 DEF Server

(* What was said stays said.                                                *)
LEMMA SaysMore ==
  ASSUME Agent, NEW e \in EventTypes, Says(e)
  PROVE  /\ said' \in Seq(EventTypes) /\ seq' \in Nat /\ inbox' \in Seq(Messages)
         /\ Len(said) \in Nat /\ Len(said') = Len(said) + 1
         /\ \A i \in 1..Len(said) : said'[i] = said[i]
         /\ said'[Len(said) + 1] = e
  <1>1. said \in Seq(EventTypes) /\ seq \in Nat /\ inbox \in Seq(Messages)
    BY DEF Agent
  <1>2. [type |-> e, seq |-> seq] \in Messages BY <1>1, EventMessage
  <1>3. inbox' \in Seq(Messages)
    <2>1. CASE inbox' = Append(inbox, [type |-> e, seq |-> seq])
      BY <1>1, <1>2, <2>1, AppendFacts
    <2>2. CASE inbox' = Append(inbox, NotAnEvent)
      BY <1>1, <2>2, TypeFacts, AppendFacts
    <2> QED BY <1>1, <2>1, <2>2 DEF Says
  <1> QED BY <1>1, <1>3, AppendFacts DEF Says

(* What a publish puts on the wire is what was numbered.                    *)
LEMMA SaysWire ==
  ASSUME Agent, NEW e \in EventTypes, Says(e)
  PROVE  WireOK'
  <1>1. inbox \in Seq(Messages) /\ seq = Len(said) /\ seq \in Nat
    BY DEF Agent, SaidOK
  <1>2. \A m \in Messages : m.seq \in Nat
    BY DEF Messages, NotAnEvent
  <1> SUFFICES ASSUME NEW i \in 1..Len(inbox'), inbox'[i].type \in EventTypes
               PROVE  /\ inbox'[i].seq < Len(said')
                      /\ said'[inbox'[i].seq + 1] = inbox'[i].type
    BY DEF WireOK
  <1>3. ASSUME i \in 1..Len(inbox), inbox'[i] = inbox[i]
        PROVE  /\ inbox'[i].seq < Len(said')
               /\ said'[inbox'[i].seq + 1] = inbox'[i].type
    <2>1. inbox[i].seq \in Nat BY <1>1, <1>2, <1>3
    <2>2. inbox[i].seq < Len(said) /\ said[inbox[i].seq + 1] = inbox[i].type
      BY <1>3 DEF Agent, WireOK
    <2> QED BY <1>3, <2>1, <2>2, SaysMore
  <1>4. ASSUME NEW m \in Messages, inbox' = Append(inbox, m),
               m.type \in EventTypes => m.seq < Len(said') /\ said'[m.seq + 1] = m.type
        PROVE  /\ inbox'[i].seq < Len(said')
               /\ said'[inbox'[i].seq + 1] = inbox'[i].type
    <2>1. /\ Len(inbox) \in Nat /\ Len(inbox') = Len(inbox) + 1
          /\ \A k \in 1..Len(inbox) : inbox'[k] = inbox[k]
          /\ inbox'[Len(inbox) + 1] = m
      BY <1>1, <1>4, AppendFacts
    <2>2. i \in 1..Len(inbox) \/ i = Len(inbox) + 1 BY <2>1
    <2> QED BY <1>3, <1>4, <2>1, <2>2
  <1>5. CASE inbox' = Append(inbox, [type |-> e, seq |-> seq])
    <2> DEFINE m == [type |-> e, seq |-> seq]
    <2>1. m \in Messages /\ m.type = e /\ m.seq = seq BY <1>1, EventMessage
    <2>2. m.seq < Len(said') /\ said'[m.seq + 1] = m.type BY <1>1, <2>1, SaysMore
    <2>3. inbox' = Append(inbox, m) BY <1>5
    <2> HIDE DEF m
    <2> QED BY <1>4, <2>1, <2>2, <2>3
  <1>6. CASE inbox' = Append(inbox, NotAnEvent)
    BY <1>4, <1>6, TypeFacts
  <1>7. CASE inbox' = inbox BY <1>3, <1>7
  <1> QED BY <1>5, <1>6, <1>7 DEF Says

(* Losing or consuming the head of the inbox keeps the rest truthful. *)
LEMMA TailWire ==
  ASSUME Agent, inbox # << >>, inbox' = Tail(inbox), said' = said
  PROVE  WireOK' /\ inbox' \in Seq(Messages)
  <1>1. inbox \in Seq(Messages) BY DEF Agent
  <1>2. /\ Len(inbox) \in Nat /\ Len(inbox') = Len(inbox) - 1
        /\ \A i \in 1..Len(inbox') : inbox'[i] = inbox[i + 1]
    BY <1>1
  <1> SUFFICES ASSUME NEW i \in 1..Len(inbox'), inbox'[i].type \in EventTypes
               PROVE  /\ inbox'[i].seq < Len(said')
                      /\ said'[inbox'[i].seq + 1] = inbox'[i].type
    BY <1>1 DEF WireOK
  <1>3. i + 1 \in 1..Len(inbox) /\ inbox'[i] = inbox[i + 1] BY <1>2
  <1> QED BY <1>3 DEF Agent, WireOK

(* Taking a message off the wire keeps the facts about the agent.           *)
LEMMA AgentStays ==
  ASSUME Agent, UNCHANGED <<numbers, session, closed>>,
         inbox' = inbox \/ (inbox # << >> /\ inbox' = Tail(inbox))
  PROVE  Agent'
  <1>1. said' = said /\ seq' = seq BY DEF numbers
  <1>2. SaidOK' BY <1>1 DEF Agent, SaidOK, SaysGrammar
  <1>3. WireOK' /\ inbox' \in Seq(Messages)
    <2>1. CASE inbox' = inbox BY <1>1, <2>1 DEF Agent, WireOK
    <2> QED BY <1>1, <2>1, TailWire
  <1> QED BY <1>1, <1>2, <1>3 DEF Agent

(* Every step of the agent and of the network keeps the grammar and the     *)
(* wire.                                                                    *)
LEMMA AgentStep ==
  ASSUME Agent, Server \/ Lose
  PROVE  Agent'
  <1> USE DEF life, numbers, wire
  <1>1. CASE Refuse
    <2>1. /\ inbox' = Append(inbox, NotAnEvent) /\ session = "none"
          /\ session' = "refused" /\ UNCHANGED <<numbers, closed>>
      BY <1>1 DEF Refuse
    <2>2. SaidOK' BY <2>1 DEF Agent, SaidOK, SaysGrammar
    <2>3. inbox \in Seq(Messages) /\ inbox' \in Seq(Messages)
      BY <2>1, TypeFacts DEF Agent
    <2>4. WireOK'
      <3>1. /\ Len(inbox) \in Nat /\ Len(inbox') = Len(inbox) + 1
            /\ \A i \in 1..Len(inbox) : inbox'[i] = inbox[i]
            /\ inbox'[Len(inbox) + 1] = NotAnEvent
        BY <2>1, <2>3, TypeFacts, AppendFacts
      <3> SUFFICES ASSUME NEW i \in 1..Len(inbox'), inbox'[i].type \in EventTypes
                   PROVE  /\ inbox'[i].seq < Len(said')
                          /\ said'[inbox'[i].seq + 1] = inbox'[i].type
        BY DEF WireOK
      <3>2. i \in 1..Len(inbox) BY <3>1, TypeFacts
      <3> QED BY <2>1, <3>1, <3>2 DEF Agent, WireOK
    <2> QED BY <2>1, <2>2, <2>3, <2>4 DEF Agent
  <1>2. CASE NewStreamSession
    <2>1. SaidOK' BY <1>2 DEF NewStreamSession, Agent, SaidOK, SaysGrammar
    <2>2. WireOK' BY <1>2 DEF NewStreamSession, Agent, WireOK
    <2> QED BY <1>2, <2>1, <2>2 DEF NewStreamSession, Agent
  <1>3. CASE OnCancel \/ Lose
    BY <1>3, AgentStays DEF OnCancel, Lose
  <1>4. ASSUME NEW e \in EventTypes, Says(e), SaidOK' PROVE Agent'
    BY <1>4, SaysMore, SaysWire DEF Agent
  <1>5. CASE Start
    <2>1. /\ session = "created" /\ session' \in {"running", "refused"} /\ UNCHANGED closed
          /\ Len(said) = 0 /\ ~closed
      BY <1>5 DEF Start, Agent, SaidOK
    <2>2. Says("start") BY <1>5, <2>1 DEF Start, Says
    <2>3. Len(said') = 1 /\ said'[1] = "start" BY <2>1, <2>2, SaysMore, TypeFacts
    <2>4. seq' = Len(said') BY <2>1, <2>2, <2>3 DEF Agent, SaidOK, Says
    <2>5. SaidOK' BY <2>1, <2>3, <2>4, TypeFacts DEF SaidOK, SaysGrammar
    <2> QED BY <1>4, <2>2, <2>5, TypeFacts
  <1>6. CASE Send
    <2>1. session = "running" /\ UNCHANGED <<session, closed>> /\ ~closed /\ Len(said) >= 1
      BY <1>6 DEF Send, Agent, SaidOK
    <2>2. Says("data") BY <1>6, <2>1 DEF Send, publish, Says, Agent, SaidOK
    <2>3. /\ Len(said) \in Nat /\ Len(said') = Len(said) + 1 /\ seq' = seq + 1
          /\ \A i \in 1..Len(said) : said'[i] = said[i]
          /\ said'[Len(said) + 1] = "data"
      BY <2>2, SaysMore, TypeFacts DEF Says
    <2>4. SaidOK'
      BY <2>1, <2>3, TypeFacts DEF Agent, SaidOK, SaysGrammar
    <2> QED BY <1>4, <2>2, <2>4, TypeFacts
  <1>7. ASSUME NEW e \in Terminators, terminate(e) PROVE Agent'
    <2>1. /\ session = "running" /\ UNCHANGED session /\ ~closed /\ closed' = TRUE
          /\ Len(said) >= 1 /\ e \in EventTypes /\ e # "start"
      BY <1>7, TypeFacts DEF terminate, Agent, SaidOK
    <2>2. Says(e) BY <1>7, <2>1 DEF terminate, publish, Says, Agent, SaidOK
    <2>3. /\ Len(said) \in Nat /\ Len(said') = Len(said) + 1 /\ seq' = seq + 1
          /\ \A i \in 1..Len(said) : said'[i] = said[i]
          /\ said'[Len(said) + 1] = e
      BY <2>1, <2>2, SaysMore DEF Says
    <2>4. SaidOK'
      BY <2>1, <2>3 DEF Agent, SaidOK, SaysGrammar
    <2> QED BY <1>4, <2>1, <2>2, <2>4
  <1> QED BY <1>1, <1>2, <1>3, <1>5, <1>6, <1>7 DEF Server

-----------------------------------------------------------------------------
(* The client.  Whatever is said next, what it has of the stream stays.     *)
LEMMA SayStep ==
  ASSUME IInv, NEW e \in EventTypes, Says(e), UNCHANGED <<accept, cb, chan, once>>
  PROVE  AcceptOK' /\ CloseOK'
  <1>1. said \in Seq(EventTypes) /\ nextSeq \in Nat /\ pushed \in Seq(EventTypes) /\ Agent
    BY DEF IInv, TypeOK, Agent
  <1>2. /\ Len(said) \in Nat /\ Len(said') = Len(said) + 1
        /\ \A i \in 1..Len(said) : said'[i] = said[i]
    BY <1>1, SaysMore
  <1>3. AcceptOK'
    <2>1. /\ nextSeq' = nextSeq /\ pushed' = pushed /\ cb' = cb /\ held' = held
          /\ closeStep' = closeStep
      BY DEF accept, chan, once
    <2>2. nextSeq' <= Len(said') /\ Len(pushed') <= nextSeq'
      BY <1>1, <1>2, <2>1 DEF IInv, AcceptOK
    <2>3. cb' \in {"select", "blocked"} =>
            nextSeq' = Len(pushed') + 1 /\ held' = said'[nextSeq']
      BY <1>1, <1>2, <2>1 DEF IInv, AcceptOK
    <2>4. (cb' = "idle" /\ closeStep' = 0) => Len(pushed') = nextSeq'
      BY <2>1 DEF IInv, AcceptOK
    <2>5. HearsPrefix'
      BY <1>1, <1>2, <2>1 DEF IInv, AcceptOK, HearsPrefix
    <2> QED BY <2>2, <2>3, <2>4, <2>5 DEF AcceptOK
  <1>4. CloseOK'
    BY DEF IInv, CloseOK, once, chan, Says
  <1> QED BY <1>3, <1>4

(* The callback's event enters the channel: still a prefix, and a           *)
(* terminator is the last thing ever said.                                  *)
LEMMA PushStep ==
  ASSUME IInv, cb \in {"select", "blocked"},
         pushed' = Append(pushed, held), cb' = AfterSend,
         UNCHANGED <<said, closed, accept, once>>
  PROVE  AcceptOK' /\ CloseOK'
  <1>1. /\ said \in Seq(EventTypes) /\ pushed \in Seq(EventTypes)
        /\ held \in EventTypes /\ nextSeq \in Nat
    BY DEF IInv, TypeOK
  <1>2. /\ nextSeq = Len(pushed) + 1 /\ held = said[nextSeq]
        /\ nextSeq <= Len(said)
        /\ \A i \in 1..Len(pushed) : pushed[i] = said[i]
    BY DEF IInv, AcceptOK, HearsPrefix
  <1>3. /\ Len(pushed) \in Nat /\ Len(said) \in Nat
        /\ Len(pushed') = nextSeq
        /\ \A i \in 1..Len(pushed) : pushed'[i] = pushed[i]
        /\ pushed'[nextSeq] = held
    BY <1>1, <1>2
  <1>4. nextSeq' = nextSeq /\ said' = said /\ closeStep' = closeStep /\ closer' = closer
    BY DEF accept, once
  <1>5. HearsPrefix'
    BY <1>1, <1>2, <1>3, <1>4 DEF HearsPrefix
  <1>6. cb' \in {"idle", "close"} BY DEF AfterSend
  <1>7. AcceptOK' BY <1>1, <1>2, <1>3, <1>4, <1>5, <1>6 DEF AcceptOK
  <1>8. held \in Terminators => nextSeq = Len(said) /\ closed
    <2>1. nextSeq \in 1..Len(said) BY <1>1, <1>2, <1>3
    <2> QED BY <1>2, <2>1 DEF IInv, SaidOK, SaysGrammar
  <1>9. ~(closeStep > 0 /\ closer = "callback")
    BY <1>1, <1>2, <1>3 DEF IInv, CloseOK
  <1>10. CloseOK'
    BY <1>3, <1>4, <1>8, <1>9 DEF CloseOK, AfterSend
  <1> QED BY <1>7, <1>10

(* Every step of either end, of NATS and of the threads keeps the invariant. *)
LEMMA InvStep == IInv /\ [Next]_vars => IInv'
  <1> SUFFICES ASSUME IInv, [Next]_vars PROVE IInv'
    OBVIOUS
  <1> USE DEF life, numbers, wire, accept, chan, others, once
  <1>0. TypeOK' BY TypeStep DEF IInv
  <1>1. Agent BY DEF IInv, TypeOK, Agent
  <1>2. CASE Server \/ Lose
    <2>1. SaidOK' /\ WireOK' BY <1>1, <1>2, AgentStep DEF Agent
    <2>2. UNCHANGED <<accept, cb, chan, once>> BY <1>1, <1>2, ServerSays
    <2>3. CASE UNCHANGED <<numbers, closed>>
      <3>1. AcceptOK' /\ CloseOK'
        BY <2>2, <2>3 DEF IInv, AcceptOK, HearsPrefix, CloseOK
      <3> QED BY <1>0, <2>1, <3>1 DEF IInv
    <2>4. ASSUME NEW e \in EventTypes, Says(e) PROVE IInv'
      BY <1>0, <2>1, <2>2, <2>4, SayStep DEF IInv
    <2> QED BY <1>1, <1>2, <2>3, <2>4, ServerSays
  <1>8. CASE OnMessage
    <2> DEFINE m == Head(inbox)
    <2>1. /\ inbox # << >> /\ inbox' = Tail(inbox) /\ cb = "idle" /\ closeStep = 0
          /\ UNCHANGED <<life, numbers, chan, once>>
      BY <1>8 DEF OnMessage
    <2>2. SaidOK' BY <2>1 DEF IInv, SaidOK, SaysGrammar
    <2>3. WireOK' BY <1>1, <2>1, TailWire
    <2>4. AcceptOK' /\ CloseOK'
      <3>1. CASE Accepts(m)
        <4>1. /\ m.type \in EventTypes /\ m.seq = nextSeq
              /\ nextSeq' = nextSeq + 1 /\ held' = m.type /\ cb' = "select"
          BY <1>8, <3>1 DEF OnMessage, Accepts
        <4>2. inbox \in Seq(Messages) BY DEF IInv, TypeOK
        <4>3. 1 \in 1..Len(inbox) /\ m = inbox[1] BY <2>1, <4>2
        <4>4. nextSeq < Len(said) /\ said[nextSeq + 1] = held'
          BY <4>1, <4>3 DEF IInv, WireOK
        <4>5. nextSeq \in Nat /\ Len(said) \in Nat BY DEF IInv, TypeOK
        <4>6. Len(pushed) = nextSeq BY <2>1 DEF IInv, AcceptOK
        <4>7. HearsPrefix' BY <2>1 DEF IInv, AcceptOK, HearsPrefix
        <4>8. AcceptOK'
          BY <2>1, <4>1, <4>4, <4>5, <4>6, <4>7 DEF AcceptOK
        <4>9. CloseOK' BY <2>1, <4>1 DEF CloseOK
        <4> QED BY <4>8, <4>9
      <3>2. CASE ~Accepts(m)
        <4>1. UNCHANGED <<accept, cb>> BY <1>8, <3>2 DEF OnMessage
        <4> QED BY <2>1, <4>1 DEF IInv, AcceptOK, HearsPrefix, CloseOK
      <3> QED BY <3>1, <3>2
    <2> QED BY <1>0, <2>2, <2>3, <2>4 DEF IInv
  <1>9. CASE Select
    <2>1. /\ UNCHANGED <<life, numbers, inbox, accept, once>> /\ cb = "select"
      BY <1>9 DEF Select
    <2>2. SaidOK' /\ WireOK'
      BY <2>1 DEF IInv, SaidOK, SaysGrammar, WireOK
    <2>3. AcceptOK' /\ CloseOK'
      <3>1. CASE pushed' = Append(pushed, held) /\ cb' = AfterSend
        BY <2>1, <3>1, PushStep
      <3>2. CASE doneClosed /\ cb' = "idle" /\ pushed' = pushed
        BY <2>1, <3>2 DEF IInv, TypeOK, AcceptOK, HearsPrefix, CloseOK, doneClosed
      <3>3. CASE UNCHANGED <<pushed, cb>>
        BY <2>1, <3>3 DEF IInv, AcceptOK, HearsPrefix, CloseOK
      <3>4. CASE cb' = "blocked" /\ pushed' = pushed
        BY <2>1, <3>4 DEF IInv, AcceptOK, HearsPrefix, CloseOK
      <3> QED BY <1>9, <3>1, <3>2, <3>3, <3>4 DEF Select
    <2> QED BY <1>0, <2>2, <2>3 DEF IInv
  <1>10. CASE Recv
    <2>1. UNCHANGED <<life, numbers, inbox, accept, once>>
      BY <1>10 DEF Recv
    <2>2. SaidOK' /\ WireOK'
      BY <2>1 DEF IInv, SaidOK, SaysGrammar, WireOK
    <2>3. AcceptOK' /\ CloseOK'
      <3>1. CASE cb = "blocked" /\ pushed' = Append(pushed, held) /\ cb' = AfterSend
        BY <2>1, <3>1, PushStep
      <3>2. CASE UNCHANGED <<pushed, cb>>
        BY <2>1, <3>2 DEF IInv, AcceptOK, HearsPrefix, CloseOK
      <3> QED BY <1>10, <3>1, <3>2 DEF Recv
    <2> QED BY <1>0, <2>2, <2>3 DEF IInv
  <1>11. CASE Cancel \/ TimerFires \/ CallerCloses
    <2>1. /\ UNCHANGED <<life, numbers, inbox, accept, chan, once, cb>>
      BY <1>11 DEF Cancel, TimerFires, CallerCloses
    <2> QED BY <1>0, <2>1 DEF IInv, SaidOK, SaysGrammar, WireOK, AcceptOK,
                              HearsPrefix, CloseOK
  <1>12. ASSUME NEW t \in Threads, closeInternal(t) PROVE IInv'
    <2>1. /\ UNCHANGED <<life, numbers, inbox, accept, chan>> /\ InClose(t)
          /\ closer' = t /\ closeStep' = closeStep + 1
          /\ cb' = IF closeStep = 1 /\ cb = "blocked" THEN "idle" ELSE cb
      BY <1>12 DEF closeInternal
    <2>2. SaidOK' /\ WireOK'
      BY <2>1 DEF IInv, SaidOK, SaysGrammar, WireOK
    <2>3. closeStep \in Nat BY DEF IInv, TypeOK
    <2>4. AcceptOK'
      BY <2>1, <2>3 DEF IInv, AcceptOK, HearsPrefix
    <2>5. t = "callback" => cb = "close" BY <2>1 DEF InClose
    <2>6. CloseOK' BY <2>1, <2>3, <2>5 DEF IInv, CloseOK
    <2> QED BY <1>0, <2>2, <2>4, <2>6 DEF IInv
  <1>13. ASSUME NEW t \in Threads, closeReturns(t) PROVE IInv'
    <2>1. /\ UNCHANGED <<life, numbers, inbox, accept, chan, once>> /\ InClose(t)
          /\ closeStep = 3
          /\ cb' = IF t = "callback" THEN "idle" ELSE cb
      BY <1>13 DEF closeReturns
    <2>2. SaidOK' /\ WireOK'
      BY <2>1 DEF IInv, SaidOK, SaysGrammar, WireOK
    <2>3. AcceptOK' /\ CloseOK'
      BY <2>1 DEF IInv, AcceptOK, HearsPrefix, CloseOK
    <2> QED BY <1>0, <2>2, <2>3 DEF IInv
  <1>14. CASE UNCHANGED vars
    BY <1>0, <1>14 DEF vars, IInv, SaidOK, SaysGrammar, WireOK, AcceptOK,
                       HearsPrefix, CloseOK
  <1> QED
    BY <1>2, <1>8, <1>9, <1>10, <1>11, <1>12, <1>13, <1>14 DEF Next, Client

(* IInv holds of every reachable state. *)
LEMMA IInvHolds == Spec => []IInv
  BY InitIInv, InvStep, PTL DEF Spec

(* The client's channel only ever carries the beginning of what the session *)
(* numbered, for every number of events, channel capacity and loss pattern  *)
(* (the sequence check of client.go's callback against publish).            *)
THEOREM PrefixDelivered == Spec => []HearsPrefix
  <1>1. IInv => HearsPrefix BY DEF IInv, AcceptOK
  <1> QED BY <1>1, IInvHolds, PTL

(* start first, at most one terminator, nothing numbered after it           *)
(* (Start, Send and terminate of server.go).                                *)
THEOREM GrammarKept == Spec => []SaysGrammar
  <1>1. IInv => SaysGrammar BY DEF IInv, SaidOK
  <1> QED BY <1>1, IInvHolds, PTL

(* A channel the callback itself closed holds the whole stream (the         *)
(* terminator branch of client.go's callback).                              *)
THEOREM WholeWhenTerminated == Spec => []TerminatorMeansWhole
  <1>1. IInv => TerminatorMeansWhole BY DEF IInv, CloseOK, TerminatorMeansWhole
  <1> QED BY <1>1, IInvHolds, PTL

-----------------------------------------------------------------------------
(* Saying one more event is a Say of the abstract stream. *)
LEMMA SayRefines ==
  ASSUME Agent, NEW e \in EventTypes, Says(e), pushed' = pushed
  PROVE  Abstract!Say
  <1>1. said \in Seq(EventTypes) BY DEF Agent
  <1>2. \A i \in 1..Len(said) : said[i] \notin Terminators
    BY DEF Agent, SaidOK, SaysGrammar, Says
  <1>3. (Len(said) = 0) <=> (said = << >>) BY <1>1
  <1>4. DOMAIN said = 1..Len(said) BY <1>1
  <1> QED BY <1>2, <1>3, <1>4
          DEF Says, Abstract!Say, EventTypes, Terminators, Abstract!EventTypes, Abstract!Terminators

(* Pushing the held event is a Hear of the abstract stream. *)
LEMMA HearRefines ==
  ASSUME IInv, cb \in {"select", "blocked"}, pushed' = Append(pushed, held), said' = said
  PROVE  Abstract!Hear
  <1>1. nextSeq = Len(pushed) + 1 /\ held = said[nextSeq] /\ nextSeq <= Len(said)
    BY DEF IInv, AcceptOK
  <1>2. Len(pushed) \in Nat /\ Len(said) \in Nat BY DEF IInv, TypeOK
  <1>3. Len(pushed) < Len(said) BY <1>1, <1>2
  <1> QED BY <1>1, <1>3 DEF Abstract!Hear

(* Every other step of theirs (loss, timers, closing, cancelling) is        *)
(* invisible.                                                               *)
LEMMA NextRefines == IInv /\ [Next]_vars => [Abstract!Next]_<<said, pushed>>
  <1> SUFFICES ASSUME IInv, [Next]_vars, ~UNCHANGED <<said, pushed>>
               PROVE  Abstract!Next
    OBVIOUS
  <1> USE DEF Abstract!Next, life, numbers, wire, accept, chan, others, once
  <1>1. CASE Server \/ Lose
    <2>1. Agent BY DEF IInv, TypeOK, Agent
    <2>2. PICK e \in EventTypes : Says(e) BY <1>1, <2>1, ServerSays
    <2> QED BY <1>1, <2>1, <2>2, ServerSays, SayRefines
  <1>4. CASE Select
    <2>1. pushed' = Append(pushed, held) /\ said' = said /\ cb = "select"
      BY <1>4 DEF Select
    <2> QED BY <2>1, HearRefines
  <1>5. CASE Recv
    <2>1. pushed' = Append(pushed, held) /\ said' = said /\ cb = "blocked"
      BY <1>5 DEF Recv
    <2> QED BY <2>1, HearRefines
  <1>6. CASE OnMessage \/ Cancel \/ TimerFires \/ CallerCloses
    BY <1>6 DEF OnMessage, Cancel, TimerFires, CallerCloses
  <1>7. ASSUME NEW t \in Threads, closeInternal(t) \/ closeReturns(t)
        PROVE  Abstract!Next
    BY <1>7 DEF closeInternal, closeReturns
  <1>8. CASE UNCHANGED vars BY <1>8 DEF vars
  <1> QED BY <1>1, <1>4, <1>5, <1>6, <1>7, <1>8 DEF Next, Client

(* The two ends and the network between them implement FifoStream: the      *)
(* server's publish is Say, a send on the events channel is Hear, and every *)
(* other step (loss, timers, closing, cancelling) is invisible.             *)
THEOREM Refinement == Spec => AbstractSpec
  <1>1. Init => Abstract!Init BY DEF Init, Abstract!Init
  <1> QED BY <1>1, NextRefines, IInvHolds, PTL DEF Spec, AbstractSpec, Abstract!Spec

-----------------------------------------------------------------------------
(* The consult.                                                             *)
Waiting == cb \in {"deliver", "select", "blocked"}
Carriable == EventTypes \cup {"refusal"}

(* The consult's types; what it hands on may be a refusal too.              *)
CTypes ==
  /\ nextSeq \in Nat /\ nread \in Nat /\ closeStep \in {0, 2, 3}
  /\ cb \in {"idle", "deliver", "select", "blocked", "close"}
  /\ held \in Carriable /\ pushed = << >>
  /\ carried \in Seq([type : Carriable, seq : Int])
  /\ nread <= Len(carried)
  /\ timer \in {"off", "armed", "close", "fired"}
  /\ caller \in {"reading", "close", "closed"}

(* What the callback has in hand is the last event it accepted.             *)
HeldOK ==
  /\ nextSeq <= Len(said)
  /\ nextSeq >= 1 => held = said[nextSeq]
  /\ (nextSeq = 0 /\ cb # "idle") => held = "refusal"
  /\ cb = "close" => Ends(held)
  /\ held = "refusal" => session = "refused"

(* A refusal is the one message of its stream.                              *)
RefusalOK ==
  /\ session = "refused" =>
       /\ nextSeq = 0 /\ Len(inbox) <= 1 /\ Len(carried) <= 1
       /\ \A i \in 1..Len(inbox) : inbox[i] = NotAnEvent
       /\ inbox # << >> => cb = "idle" /\ carried = << >>
       /\ Waiting => carried = << >>
       /\ \A i \in 1..Len(carried) : carried[i].type = "refusal"
  /\ session # "refused" =>
       /\ \A i \in 1..Len(inbox) : inbox[i].type \in EventTypes
       /\ \A i \in 1..Len(carried) : carried[i].type # "refusal"

(* What was carried is what was said, in its order, and older than what the *)
(* callback has in hand.                                                    *)
CarriedOK ==
  \A i \in 1..Len(carried) :
    /\ carried[i].type # "refusal" =>
         /\ carried[i].seq \in 0..(nextSeq - 1)
         /\ carried[i].type = said[carried[i].seq + 1]
         /\ Waiting => carried[i].seq < nextSeq - 1
    /\ \A j \in 1..(i - 1) : carried[j].seq < carried[i].seq

(* Until the timer expires or consult leaves its loop nothing is dropped,   *)
(* and the channel closes only behind a terminator that was carried.        *)
Quiet == timer \in {"armed", "off"} /\ caller = "reading"
QuietOK ==
  Quiet =>
    /\ \/ closeStep = 0
       \/ closeStep = 2 /\ cb = "close"
       \/ closeStep = 3 /\ cb = "idle"
    /\ (cb = "close" \/ closeStep > 0) =>
         Ends(held) /\ carried # << >> /\ carried[Len(carried)].type = held
    /\ session # "refused" => (IF Waiting THEN Len(carried) = nextSeq - 1 ELSE Len(carried) = nextSeq)
    /\ \A i \in 1..Len(carried) : carried[i].seq = i - 1 \/ carried[i].type = "refusal"

(* Where consult is, and what it has told its own stream.                   *)
Expired == timer \in {"close", "fired"}
Outcome ==
  \/ why = "eof" /\ Expired /\ verdict = IF phase = "over" THEN "upstream" ELSE "none"
  \/ why = "terminated" /\ verdict \in {"done", "error"}
  \/ why = "ctx" /\ verdict = "none"
PhaseOK ==
  /\ Expired => err = TRUE
  /\ phase \in {"gate", "unsent", "open", "over"}
  /\ phase = "over" <=> caller = "closed"
  /\ phase \in {"gate", "unsent"} => caller = "reading"
  /\ phase = "unsent" => verdict \in {"forbidden", "unreachable"}
  /\ caller = "reading" =>
       /\ why = "none" /\ (phase # "unsent" => verdict = "none")
       /\ \A i \in 1..nread : ~Ends(carried[i].type)
  /\ caller # "reading" => Outcome
  /\ verdict = "upstream" => blame = TRUE

(* done and error close the whole stream.                                   *)
VerdictOK ==
  verdict \in {"done", "error"} =>
    /\ nread \in 1..Len(carried)
    /\ \/ carried[nread].type = "refusal" /\ nread = 1
       \/ /\ closed /\ carried[nread].type = said[Len(said)]
          /\ nread = Len(said) \/ timer # "armed"

ConsultInv ==
  Agent /\ CTypes /\ HeldOK /\ RefusalOK /\ CarriedOK /\ QuietOK /\ PhaseOK /\ VerdictOK
  /\ SerializedDelivery

CInv == /\ client \in {"subscription", "consult"}
        /\ client = "subscription" => IInv
        /\ client = "consult" => ConsultInv

(* The invariant holds at first, for either reader.                         *)
LEMMA InitCInv == ConsultInit => CInv
  <1> SUFFICES ASSUME ConsultInit PROVE CInv
    OBVIOUS
  <1>1. IInv /\ client \in {"subscription", "consult"}
    BY InitIInv DEF ConsultInit
  <1>2. ASSUME client = "consult" PROVE ConsultInv
    <2>1. Agent BY <1>1 DEF IInv, TypeOK, Agent
    <2>2. /\ session = "none" /\ said = << >> /\ inbox = << >> /\ nextSeq = 0 /\ cb = "idle"
          /\ held = "start" /\ pushed = << >> /\ nread = 0 /\ caller = "reading" /\ closeStep = 0
          /\ timer \in {"armed", "off"} /\ phase = "gate" /\ why = "none" /\ carried = << >>
          /\ verdict = "none"
      BY <1>2 DEF ConsultInit, Init
    <2>3. CTypes BY <2>2, TypeFacts DEF CTypes, Carriable
    <2>4. HeldOK BY <2>2 DEF HeldOK
    <2>5. RefusalOK /\ CarriedOK BY <2>2 DEF RefusalOK, CarriedOK
    <2>6. QuietOK
      <3>1. ~Waiting /\ ~(closeStep > 0) /\ Len(carried) = 0 BY <2>2 DEF Waiting
      <3>2. Len(carried) = nextSeq BY <2>2, <3>1
      <3>3. \A i \in 1..Len(carried) : FALSE BY <3>1
      <3>4. cb # "close" /\ closeStep = 0 BY <2>2
      <3> QED BY <3>1, <3>2, <3>3, <3>4, Zenon DEF QuietOK
    <2>7. PhaseOK /\ VerdictOK /\ SerializedDelivery
      BY <2>2 DEF PhaseOK, Expired, VerdictOK, SerializedDelivery, eventsClosed
    <2> QED BY <2>1, <2>3, <2>4, <2>5, <2>6, <2>7 DEF ConsultInv
  <1> QED BY <1>1, <1>2 DEF CInv

(* While the agent speaks, what consult has of the stream stays; a refusal  *)
(* finds that it has nothing.                                               *)
LEMMA NothingYet ==
  ASSUME ConsultInv, Len(said) = 0, session # "refused"
  PROVE  nextSeq = 0 /\ carried = << >> /\ inbox = << >> /\ cb = "idle" /\ held # "refusal"
  <1> USE DEF ConsultInv
  <1>1. nextSeq = 0 /\ cb = "idle" /\ held # "refusal" BY DEF HeldOK, CTypes
  <1>2. carried = << >>
    <2>1. carried \in Seq([type : Carriable, seq : Int]) BY DEF CTypes
    <2>2. ~(1 \in 1..Len(carried)) BY <1>1, <2>1 DEF CarriedOK, RefusalOK
    <2> QED BY <2>1, <2>2
  <1>3. inbox = << >>
    <2>1. inbox \in Seq(Messages) BY DEF Agent
    <2>2. ~(1 \in 1..Len(inbox))
      <3> SUFFICES ASSUME 1 \in 1..Len(inbox) PROVE FALSE
        OBVIOUS
      <3>1. inbox[1].type \in EventTypes /\ inbox[1] \in Messages BY <2>1 DEF RefusalOK
      <3>2. inbox[1].seq \in Nat BY <3>1 DEF Messages, NotAnEvent
      <3> QED BY <3>1, <3>2 DEF Agent, WireOK
    <2> QED BY <2>1, <2>2
  <1> QED BY <1>1, <1>2, <1>3

(* A step of the agent or a loss keeps the invariant of a consult.          *)
LEMMA ConsultServer ==
  ASSUME ConsultInv, Server \/ Lose, UNCHANGED <<client, phase, relay>>
  PROVE  ConsultInv'
  <1> USE DEF ConsultInv
  <1>1. Agent' BY AgentStep
  <1>2. /\ UNCHANGED <<nextSeq, held, cb, pushed, nread, timer, caller, err, closeStep>>
        /\ UNCHANGED <<client, phase, why, carried, verdict, blame>>
    BY ServerSays DEF accept, chan, others, once, relay
  <1>3. /\ Len(said) \in Nat /\ Len(said') \in Nat /\ Len(said) <= Len(said')
        /\ \A i \in 1..Len(said) : said'[i] = said[i]
        /\ closed => closed' /\ said' = said
    <2>1. CASE UNCHANGED <<numbers, closed>>
      BY <2>1 DEF numbers, Agent
    <2>2. ASSUME NEW e \in EventTypes, Says(e)
          PROVE  /\ Len(said) \in Nat /\ Len(said') = Len(said) + 1 /\ ~closed
                 /\ \A i \in 1..Len(said) : said'[i] = said[i]
      BY <2>2, SaysMore DEF Says
    <2> QED BY <2>1, <2>2, ServerSays
  <1>4. nextSeq \in Nat /\ nextSeq <= Len(said) /\ held' = held
    BY <1>2 DEF CTypes, HeldOK
  <1>5. CTypes' BY <1>2 DEF CTypes
  <1>6. \/ session' = session
           /\ (\/ inbox' = inbox
               \/ inbox # << >> /\ inbox' = Tail(inbox)
               \/ \E m \in Messages : inbox' = Append(inbox, m) /\ m.type \in EventTypes
                                      /\ session # "refused")
        \/ session = "none" /\ session' = "created" /\ inbox' = inbox
        \/ session = "created" /\ session' = "running"
           /\ \E m \in Messages : inbox' = Append(inbox, m) /\ m.type \in EventTypes
        \/ session \in {"none", "created"} /\ session' = "refused" /\ inbox' = Append(inbox, NotAnEvent)
    <2>1. \A e \in EventTypes : /\ [type |-> e, seq |-> seq] \in Messages
                                /\ [type |-> e, seq |-> seq].type = e
      BY EventMessage DEF Agent
    <2>2. CASE Refuse \/ NewStreamSession \/ OnCancel \/ Lose
      BY <2>2 DEF Refuse, NewStreamSession, OnCancel, Lose, wire, life
    <2>3. CASE Start BY <2>1, <2>3, TypeFacts DEF Start
    <2>4. CASE Send BY <2>1, <2>4, TypeFacts DEF Send, publish, life
    <2>5. ASSUME NEW e \in Terminators, terminate(e)
          PROVE  /\ session' = session /\ session # "refused"
                 /\ \/ inbox' = inbox
                    \/ \E m \in Messages : inbox' = Append(inbox, m) /\ m.type \in EventTypes
      BY <2>1, <2>5, TypeFacts DEF terminate, publish
    <2> QED BY <2>2, <2>3, <2>4, <2>5 DEF Server
  <1>7. session \in {"none", "created"} =>
          nextSeq = 0 /\ carried = << >> /\ inbox = << >> /\ cb = "idle" /\ held # "refusal"
    BY NothingYet DEF Agent, SaidOK
  <1>8. HeldOK'
    <2>1. nextSeq' <= Len(said') BY <1>2, <1>3, <1>4
    <2>2. nextSeq' >= 1 => held' = said'[nextSeq']
      BY <1>2, <1>3, <1>4 DEF HeldOK
    <2>3. held = "refusal" => session' = "refused"
      BY <1>6, <1>7 DEF HeldOK
    <2> QED BY <1>2, <2>1, <2>2, <2>3 DEF HeldOK, Ends
  <1>9. inbox \in Seq(Messages) BY DEF Agent
  <1>10. RefusalOK'
    <2>1. CASE session' = session /\ inbox' = inbox
      BY <1>2, <2>1 DEF RefusalOK, Waiting
    <2>2. CASE session' = session /\ inbox # << >> /\ inbox' = Tail(inbox)
      <3>1. /\ Len(inbox) \in Nat /\ Len(inbox') = Len(inbox) - 1
            /\ \A i \in 1..Len(inbox') : inbox'[i] = inbox[i + 1] /\ i + 1 \in 1..Len(inbox)
        BY <1>9, <2>2
      <3> QED BY <1>2, <2>2, <3>1 DEF RefusalOK, Waiting
    <2>3. ASSUME NEW m \in Messages, inbox' = Append(inbox, m), m.type \in EventTypes,
                 session # "refused", session' # "refused"
          PROVE  RefusalOK'
      <3>1. /\ Len(inbox) \in Nat /\ Len(inbox') = Len(inbox) + 1
            /\ \A i \in 1..Len(inbox) : inbox'[i] = inbox[i]
            /\ inbox'[Len(inbox) + 1] = m
        BY <1>9, <2>3, AppendFacts
      <3>2. \A i \in 1..Len(inbox') : i \in 1..Len(inbox) \/ i = Len(inbox) + 1 BY <3>1
      <3> QED BY <1>2, <2>3, <3>1, <3>2 DEF RefusalOK
    <2>4. CASE session = "none" /\ session' = "created" /\ inbox' = inbox
      BY <1>2, <1>7, <2>4 DEF RefusalOK
    <2>5. CASE /\ session \in {"none", "created"} /\ session' = "refused"
               /\ inbox' = Append(inbox, NotAnEvent)
      <3>1. Len(inbox') = 1 /\ inbox'[1] = NotAnEvent BY <1>7, <2>5, TypeFacts
      <3> QED BY <1>2, <1>7, <2>5, <3>1 DEF RefusalOK, Waiting
    <2> QED BY <1>6, <2>1, <2>2, <2>3, <2>4, <2>5
  <1>11. CarriedOK'
    <2> SUFFICES ASSUME NEW i \in 1..Len(carried)
                 PROVE  /\ carried[i].type # "refusal" =>
                             /\ carried[i].seq \in 0..(nextSeq - 1)
                             /\ carried[i].type = said'[carried[i].seq + 1]
                             /\ Waiting => carried[i].seq < nextSeq - 1
                        /\ \A j \in 1..(i - 1) : carried[j].seq < carried[i].seq
      BY <1>2 DEF CarriedOK, Waiting
    <2> QED BY <1>3, <1>4 DEF CarriedOK
  <1>12. QuietOK'
    <2>1. session' # "refused" => session # "refused" BY <1>6
    <2> QED BY <1>2, <2>1 DEF QuietOK, Quiet, Waiting, Ends
  <1>13. PhaseOK' /\ SerializedDelivery'
    BY <1>2 DEF PhaseOK, Expired, Outcome, Ends, SerializedDelivery, eventsClosed, muFree
  <1>14. VerdictOK' BY <1>2, <1>3 DEF VerdictOK
  <1> QED BY <1>1, <1>5, <1>8, <1>10, <1>11, <1>12, <1>13, <1>14

(* Facts of the reader's own steps.  An event goes on the channel.          *)
Stays == UNCHANGED <<session, said, closed, inbox, nextSeq, held, closeStep>>

(* The channel gains the event held, with its number.                       *)
LEMMA SendFacts ==
  ASSUME ConsultInv, send
  PROVE  /\ carried' \in Seq([type : Carriable, seq : Int])
         /\ Len(carried) \in Nat /\ Len(carried') = Len(carried) + 1
         /\ \A i \in 1..Len(carried) : carried'[i] = carried[i]
         /\ carried'[Len(carried) + 1].type = held
         /\ carried'[Len(carried) + 1].seq = nextSeq - 1
  <1> DEFINE m == [type |-> held, seq |-> nextSeq - 1]
             S == [type : Carriable, seq : Int]
  <1>1. m \in S /\ m.type = held /\ m.seq = nextSeq - 1 BY DEF ConsultInv, CTypes
  <1>2. carried \in Seq(S) /\ carried' = Append(carried, m) BY DEF ConsultInv, CTypes, send
  <1> HIDE DEF m, S
  <1>3. /\ carried' \in Seq(S)
        /\ Len(carried) \in Nat /\ Len(carried') = Len(carried) + 1
        /\ \A i \in 1..Len(carried) : carried'[i] = carried[i]
        /\ carried'[Len(carried) + 1] = m
    BY <1>1, <1>2, AppendFacts
  <1> QED BY <1>1, <1>3 DEF S

(* A send keeps what relates the channel to the stream.                     *)
LEMMA SendKeeps ==
  ASSUME ConsultInv, cb \in {"select", "blocked"}, send, cb' = afterEvent, Stays, Quiet' => Quiet
  PROVE  HeldOK' /\ RefusalOK' /\ CarriedOK' /\ QuietOK'
  <1> USE DEF ConsultInv, Stays
  <1> DEFINE n == Len(carried)
  <1>1. /\ n \in Nat /\ Len(carried') = n + 1
        /\ \A i \in 1..n : carried'[i] = carried[i]
        /\ carried'[n + 1].type = held /\ carried'[n + 1].seq = nextSeq - 1
    BY SendFacts
  <1>2. \A i \in 1..Len(carried') : i \in 1..n \/ i = n + 1 BY <1>1
  <1>3. /\ cb' = IF Ends(held) THEN "close" ELSE "idle"
        /\ nextSeq \in Nat /\ Waiting /\ ~Waiting'
    BY DEF afterEvent, CTypes, Waiting
  <1>4. IF session = "refused" THEN held = "refusal" /\ nextSeq = 0 /\ carried = << >> /\ n = 0
                               ELSE held # "refusal" /\ nextSeq >= 1 /\ held = said[nextSeq]
    BY <1>3 DEF HeldOK, RefusalOK
  <1>5. HeldOK' BY <1>3 DEF HeldOK, Ends
  <1>6. RefusalOK'
    BY <1>1, <1>2, <1>3, <1>4 DEF RefusalOK
  <1>7. CarriedOK'
    <2> SUFFICES ASSUME NEW i \in 1..Len(carried')
                 PROVE  /\ carried'[i].type # "refusal" =>
                             /\ carried'[i].seq \in 0..(nextSeq - 1)
                             /\ carried'[i].type = said[carried'[i].seq + 1]
                        /\ \A j \in 1..(i - 1) : carried'[j].seq < carried'[i].seq
      BY <1>3 DEF CarriedOK
    <2>1. CASE i \in 1..n
      <3>1. \A j \in 1..(i - 1) : j \in 1..n BY <1>1, <2>1
      <3> QED BY <1>1, <2>1, <3>1 DEF CarriedOK
    <2>2. CASE i = n + 1
      <3>1. ASSUME NEW j \in 1..(i - 1) PROVE carried'[j].seq < nextSeq - 1
        <4>1. j \in 1..n BY <1>1, <2>2
        <4>2. session # "refused" BY <1>1, <1>4, <4>1
        <4> QED BY <1>1, <1>3, <4>1, <4>2 DEF CarriedOK, RefusalOK
      <3>2. held # "refusal" => nextSeq - 1 \in 0..(nextSeq - 1) /\ held = said[(nextSeq - 1) + 1]
        BY <1>3, <1>4
      <3> QED BY <1>1, <2>2, <3>1, <3>2
    <2> QED BY <1>2, <2>1, <2>2
  <1>8. QuietOK'
    <2> SUFFICES ASSUME Quiet
                 PROVE  /\ closeStep = 0
                        /\ cb' = "close" => /\ Ends(held) /\ carried' # << >>
                                            /\ carried'[Len(carried')].type = held
                        /\ session # "refused" => Len(carried') = nextSeq
                        /\ \A i \in 1..Len(carried') :
                             carried'[i].seq = i - 1 \/ carried'[i].type = "refusal"
      BY <1>3 DEF QuietOK, Ends
    <2>1. closeStep = 0 /\ (session # "refused" => n = nextSeq - 1)
      BY <1>3 DEF QuietOK
    <2>2. carried' # << >> BY <1>1
    <2>3. \A i \in 1..n : carried[i].seq = i - 1 \/ carried[i].type = "refusal"
      BY DEF QuietOK
    <2>4. session # "refused" => nextSeq - 1 = (n + 1) - 1 BY <1>1, <1>3, <2>1
    <2>5. ASSUME NEW i \in 1..Len(carried')
          PROVE  carried'[i].seq = i - 1 \/ carried'[i].type = "refusal"
      <3>1. CASE i \in 1..n BY <1>1, <2>3, <3>1
      <3>2. CASE i = n + 1 BY <1>1, <1>4, <2>4, <3>2
      <3> QED BY <1>2, <3>1, <3>2
    <2> QED BY <1>1, <1>3, <2>1, <2>2, <2>5
  <1> QED BY <1>5, <1>6, <1>7, <1>8

(* Steps that carry nothing and leave an event out of the callback's hands  *)
(* only where a drop is allowed.                                            *)
LEMMA MoveKeeps ==
  ASSUME ConsultInv, Stays, carried' = carried,
         \/ cb' = cb
         \/ cb \in {"deliver", "select"} /\ cb' \in {"select", "blocked"}
         \/ Waiting /\ cb' = afterEvent /\ ~Quiet,
         Quiet' => Quiet
  PROVE  HeldOK' /\ RefusalOK' /\ CarriedOK' /\ QuietOK'
  <1> USE DEF ConsultInv, Stays
  <1>1. (Waiting' => Waiting) /\ (cb' = "idle" => cb = "idle" \/ Waiting) /\ (cb = "idle" => cb' = "idle")
    BY DEF Waiting, afterEvent
  <1>2. cb' = "close" => Ends(held) BY DEF HeldOK, afterEvent
  <1>3. HeldOK' BY <1>1, <1>2 DEF HeldOK, Ends, Waiting
  <1>4. RefusalOK' BY <1>1 DEF RefusalOK
  <1>5. CarriedOK' BY <1>1 DEF CarriedOK
  <1>6. QuietOK'
    <2> SUFFICES ASSUME Quiet, Quiet' PROVE QuietOK'
      BY DEF QuietOK
    <2>1. CASE cb' = cb BY <2>1 DEF QuietOK, Waiting, Ends
    <2>2. CASE cb \in {"deliver", "select"} /\ cb' \in {"select", "blocked"}
      <3>1. Waiting /\ Waiting' /\ cb # "close" /\ cb # "idle" /\ cb' # "close"
        BY <2>2 DEF Waiting
      <3>2. closeStep = 0 BY <3>1 DEF QuietOK
      <3> QED BY <3>1, <3>2 DEF QuietOK
    <2> QED BY <2>1, <2>2
  <1> QED BY <1>3, <1>4, <1>5, <1>6

(* The verdict rests on what was read, which only grows.                    *)
LEMMA CarryKeeps ==
  ASSUME ConsultInv, UNCHANGED <<phase, caller, why, verdict, nread, blame, said, closed, err, timer>>,
         carried' = carried \/ send
  PROVE  PhaseOK' /\ VerdictOK' /\ nread' <= Len(carried')
  <1> USE DEF ConsultInv
  <1>1. /\ nread \in Nat /\ nread <= Len(carried) /\ Len(carried) \in Nat
    BY DEF CTypes
  <1>2. /\ Len(carried') \in Nat /\ Len(carried) <= Len(carried')
        /\ \A i \in 1..Len(carried) : carried'[i] = carried[i]
    BY <1>1, SendFacts
  <1>3. \A i \in 1..nread : i \in 1..Len(carried) /\ i \in 1..Len(carried') /\ carried'[i] = carried[i]
    BY <1>1, <1>2
  <1>4. PhaseOK'
    <2>1. caller = "reading" => \A i \in 1..nread : ~Ends(carried'[i].type)
      BY <1>3 DEF PhaseOK
    <2> QED BY <2>1 DEF PhaseOK, Expired, Outcome, Ends
  <1>5. VerdictOK' BY <1>1, <1>2, <1>3 DEF VerdictOK
  <1> QED BY <1>1, <1>2, <1>4, <1>5

(* onMsg: a refusal, the next event, or nothing.                            *)
LEMMA OnMsgStep ==
  ASSUME ConsultInv, onMsg, UNCHANGED <<client, phase>>
  PROVE  ConsultInv'
  <1> USE DEF ConsultInv
  <1> DEFINE m == inbox[1]
  <1>1. /\ UNCHANGED <<session, closed, said, seq, pushed, nread, timer, caller, err, closeStep>>
        /\ UNCHANGED <<client, phase, why, carried, verdict, blame>>
        /\ cb = "idle" /\ closeStep # 3 /\ inbox # << >> /\ inbox' = Tail(inbox)
    BY DEF onMsg, life, numbers, chan, others, once, relay, eventsClosed
  <1>2. inbox \in Seq(Messages) BY DEF Agent
  <1>3. /\ Len(inbox) \in Nat /\ Len(inbox') = Len(inbox) - 1 /\ 1 \in 1..Len(inbox)
        /\ \A i \in 1..Len(inbox') : inbox'[i] = inbox[i + 1] /\ i + 1 \in 1..Len(inbox)
        /\ m = Head(inbox) /\ m \in Messages
    BY <1>1, <1>2
  <1>4. Agent' BY <1>1, AgentStays DEF numbers
  <1>5. \/ m = NotAnEvent /\ held' = "refusal" /\ cb' = "deliver" /\ nextSeq' = nextSeq
        \/ Accepts(m) /\ nextSeq' = nextSeq + 1 /\ held' = m.type /\ cb' = "deliver"
        \/ UNCHANGED <<nextSeq, held, cb>>
    BY <1>3 DEF onMsg, accept
  <1>6. PhaseOK' /\ VerdictOK' /\ nread' <= Len(carried')
    BY <1>1, CarryKeeps
  <1>7. ~Waiting /\ (Quiet' <=> Quiet) /\ nextSeq \in Nat /\ (Quiet => closeStep = 0)
    BY <1>1 DEF Waiting, Quiet, CTypes, QuietOK
  <1>8. ASSUME m = NotAnEvent, held' = "refusal", cb' = "deliver", nextSeq' = nextSeq
        PROVE  CTypes' /\ HeldOK' /\ RefusalOK' /\ CarriedOK' /\ QuietOK' /\ SerializedDelivery'
    <2>1. session = "refused" /\ nextSeq = 0 /\ carried = << >>
      BY <1>1, <1>3, <1>8, TypeFacts DEF RefusalOK
    <2>2. Len(inbox') = 0 /\ inbox' = << >> BY <1>1, <1>2, <1>3, <2>1 DEF RefusalOK
    <2>3. CTypes' BY <1>1, <1>6, <1>8 DEF CTypes, Carriable
    <2>4. HeldOK' BY <1>1, <1>8, <2>1 DEF HeldOK
    <2>5. RefusalOK' BY <1>1, <1>8, <2>1, <2>2 DEF RefusalOK
    <2>6. CarriedOK' BY <1>1, <2>1 DEF CarriedOK
    <2>7. QuietOK' BY <1>1, <1>7, <1>8, <2>1 DEF QuietOK
    <2>8. SerializedDelivery' BY <1>1 DEF SerializedDelivery, eventsClosed
    <2> QED BY <2>3, <2>4, <2>5, <2>6, <2>7, <2>8
  <1>9. ASSUME Accepts(m), nextSeq' = nextSeq + 1, held' = m.type, cb' = "deliver"
        PROVE  CTypes' /\ HeldOK' /\ RefusalOK' /\ CarriedOK' /\ QuietOK' /\ SerializedDelivery'
    <2>1. m.type \in EventTypes /\ m.seq = nextSeq BY <1>9 DEF Accepts
    <2>2. session # "refused" BY <1>3, <2>1, TypeFacts DEF RefusalOK
    <2>3. nextSeq < Len(said) /\ said[nextSeq + 1] = m.type /\ Len(said) \in Nat
      BY <1>3, <2>1 DEF Agent, WireOK
    <2>4. m.type # "refusal" BY <2>1 DEF EventTypes, Terminators
    <2>5. CTypes' BY <1>1, <1>6, <1>7, <1>9, <2>1 DEF CTypes, Carriable
    <2>6. HeldOK' BY <1>1, <1>7, <1>9, <2>3, <2>4 DEF HeldOK
    <2>7. RefusalOK' BY <1>1, <1>3, <2>2 DEF RefusalOK
    <2>8. CarriedOK'
      <3> SUFFICES ASSUME NEW i \in 1..Len(carried)
                   PROVE  /\ carried[i].type # "refusal" =>
                               /\ carried[i].seq \in 0..((nextSeq + 1) - 1)
                               /\ carried[i].type = said[carried[i].seq + 1]
                               /\ carried[i].seq < (nextSeq + 1) - 1
                          /\ \A j \in 1..(i - 1) : carried[j].seq < carried[i].seq
        BY <1>1, <1>9 DEF CarriedOK
      <3> QED BY <1>7 DEF CarriedOK
    <2>9. QuietOK'
      <3> SUFFICES ASSUME Quiet PROVE QuietOK'
        BY <1>7 DEF QuietOK
      <3>1. Len(carried) = nextSeq BY <1>7, <2>2 DEF QuietOK
      <3>2. Waiting' /\ closeStep' = 0 /\ cb' # "close" BY <1>1, <1>7, <1>9 DEF Waiting
      <3>3. \A i \in 1..Len(carried') : carried'[i].seq = i - 1 \/ carried'[i].type = "refusal"
        BY <1>1 DEF QuietOK
      <3>4. Len(carried') = nextSeq' - 1
        BY <1>1, <1>7, <1>9, <3>1, <3>2
      <3>5. ~(closeStep' > 0) BY <3>2
      <3> QED BY <3>2, <3>3, <3>4, <3>5, Zenon DEF QuietOK
    <2>10. SerializedDelivery' BY <1>1 DEF SerializedDelivery, eventsClosed
    <2> QED BY <2>5, <2>6, <2>7, <2>8, <2>9, <2>10
  <1>10. ASSUME UNCHANGED <<nextSeq, held, cb>>
         PROVE  CTypes' /\ HeldOK' /\ RefusalOK' /\ CarriedOK' /\ QuietOK' /\ SerializedDelivery'
    <2>1. CTypes' /\ HeldOK' /\ CarriedOK' /\ SerializedDelivery'
      BY <1>1, <1>10 DEF CTypes, HeldOK, Ends, CarriedOK, Waiting, SerializedDelivery, eventsClosed, muFree
    <2>2. QuietOK' BY <1>1, <1>7, <1>10 DEF QuietOK, Waiting, Ends
    <2>3. RefusalOK'
      BY <1>1, <1>3, <1>10 DEF RefusalOK, Waiting
    <2> QED BY <2>1, <2>2, <2>3
  <1> QED BY <1>4, <1>5, <1>6, <1>8, <1>9, <1>10

(* deliver and its select: under mu, nothing is dropped while all is quiet. *)
LEMMA DeliverStep ==
  ASSUME ConsultInv, deliver \/ deliverSelect, UNCHANGED <<client, phase>>
  PROVE  ConsultInv'
  <1> USE DEF ConsultInv
  <1>1. /\ UNCHANGED <<session, closed, said, seq, inbox, nextSeq, held, pushed, nread>>
        /\ UNCHANGED <<timer, caller, err, closeStep, client, phase, why, verdict, blame>>
    BY DEF deliver, deliverSelect, life, numbers, wire, accept, chan, others, once, relay
  <1>2. Agent' BY <1>1, AgentStays DEF numbers
  <1>3. Stays /\ (Quiet' <=> Quiet) BY <1>1 DEF Stays, Quiet
  <1>4. Waiting /\ closeStep >= 2 => ~Quiet BY DEF QuietOK, Waiting
  <1>5. cb \in {"deliver", "select"} /\ Waiting BY DEF deliver, deliverSelect, Waiting
  <1>6. afterEvent \in {"idle", "close"} BY DEF afterEvent
  <1>7. \/ cb = "select" /\ send /\ cb' = afterEvent
        \/ carried' = carried /\ closeStep # 3 /\ cb' \in {"select", "blocked"}
        \/ carried' = carried /\ closeStep >= 2 /\ cb' = afterEvent
    BY DEF deliver, deliverSelect, relay, eventsClosed, doneClosed, CTypes
  <1>8. PhaseOK' /\ VerdictOK' /\ nread' <= Len(carried')
    BY <1>1, <1>7, CarryKeeps
  <1>9. HeldOK' /\ RefusalOK' /\ CarriedOK' /\ QuietOK'
    <2>1. CASE cb = "select" /\ send /\ cb' = afterEvent
      BY <1>3, <2>1, SendKeeps
    <2>2. CASE carried' = carried /\ closeStep # 3 /\ cb' \in {"select", "blocked"}
      BY <1>3, <1>5, <2>2, MoveKeeps
    <2>3. CASE carried' = carried /\ closeStep >= 2 /\ cb' = afterEvent
      BY <1>3, <1>4, <1>5, <2>3, MoveKeeps
    <2> QED BY <1>7, <2>1, <2>2, <2>3
  <1>10. CTypes'
    BY <1>1, <1>6, <1>7, <1>8, SendFacts DEF CTypes
  <1>11. SerializedDelivery'
    <2>1. cb = "select" => closeStep # 3 \/ client # "consult"
      BY DEF SerializedDelivery, eventsClosed, muFree
    <2> QED BY <1>1, <1>6, <1>7, <2>1 DEF SerializedDelivery, eventsClosed, muFree
  <1> QED BY <1>2, <1>8, <1>9, <1>10, <1>11

(* close, its two halves.                                                   *)
LEMMA CloseDoneStep ==
  ASSUME ConsultInv, NEW t \in Threads, closeDone(t), UNCHANGED client
  PROVE  ConsultInv'
  <1> USE DEF ConsultInv
  <1>1. /\ UNCHANGED <<session, closed, said, seq, inbox, nextSeq, held, pushed, nread>>
        /\ UNCHANGED <<timer, caller, err, client, phase, why, carried, verdict, blame>>
        /\ InClose(t) /\ closeStep = 0 /\ closeStep' = 2
        /\ cb' = IF cb = "blocked" THEN afterEvent ELSE cb
    BY DEF closeDone, life, numbers, wire, accept, chan, others, relay
  <1>2. Agent' BY <1>1, AgentStays DEF numbers
  <1>3. Quiet => cb = "close" BY <1>1 DEF InClose, Threads, Quiet
  <1>4. PhaseOK' /\ VerdictOK' /\ nread' <= Len(carried')
    BY <1>1, CarryKeeps
  <1>5. afterEvent \in {"idle", "close"} /\ (afterEvent = "close" => Ends(held))
    BY DEF afterEvent
  <1>6. (Waiting' => Waiting) /\ (cb = "idle" => cb' = "idle") /\ (cb' = "close" => Ends(held))
    BY <1>1, <1>5 DEF Waiting, HeldOK
  <1>7. CTypes' BY <1>1, <1>4, <1>5 DEF CTypes
  <1>8. HeldOK' BY <1>1, <1>6 DEF HeldOK, Ends
  <1>9. RefusalOK' /\ CarriedOK' BY <1>1, <1>6 DEF RefusalOK, CarriedOK
  <1>10. QuietOK'
    <2> SUFFICES ASSUME Quiet PROVE QuietOK'
      BY <1>1 DEF QuietOK, Quiet
    <2>1. cb = "close" /\ cb' = "close" BY <1>1, <1>3
    <2>2. ~Waiting /\ ~Waiting' BY <2>1 DEF Waiting
    <2> QED BY <1>1, <2>1, <2>2 DEF QuietOK, Ends
  <1>11. SerializedDelivery' BY <1>1 DEF SerializedDelivery, eventsClosed
  <1> QED BY <1>2, <1>4, <1>7, <1>8, <1>9, <1>10, <1>11

(* Closing the channel keeps the invariant: mu is free, so no send is on.   *)
LEMMA CloseEventsStep ==
  ASSUME ConsultInv, NEW t \in Threads, closeEvents(t), UNCHANGED client
  PROVE  ConsultInv'
  <1> USE DEF ConsultInv
  <1>1. /\ UNCHANGED <<session, closed, said, seq, inbox, nextSeq, held, pushed, nread>>
        /\ UNCHANGED <<err, client, why, carried>>
        /\ InClose(t) /\ closeStep >= 2 /\ closeStep' = 3 /\ cb \notin {"select", "blocked"}
    BY DEF closeEvents, closing, muFree, life, numbers, wire, accept, chan
  <1>2. Agent' BY <1>1, AgentStays DEF numbers
  <1>3. \/ /\ caller = "close" /\ caller' = "closed" /\ phase' = "over" /\ finish
           /\ UNCHANGED <<timer, cb>>
        \/ /\ timer = "close" /\ timer' = "fired" /\ UNCHANGED <<caller, cb, phase, verdict, blame>>
        \/ /\ cb = "close" /\ cb' = "idle" /\ UNCHANGED <<caller, timer, phase, verdict, blame>>
    BY <1>1 DEF closeEvents, closing, InClose
  <1>4. (Waiting' => Waiting) /\ (cb = "idle" => cb' = "idle") /\ (cb' = "close" => cb = "close")
    BY <1>3 DEF Waiting
  <1>5. CTypes' BY <1>1, <1>3 DEF CTypes
  <1>6. HeldOK' BY <1>1, <1>3, <1>4 DEF HeldOK, Ends
  <1>7. RefusalOK' /\ CarriedOK' BY <1>1, <1>4 DEF RefusalOK, CarriedOK
  <1>8. QuietOK'
    <2> SUFFICES ASSUME Quiet' PROVE QuietOK'
      BY DEF QuietOK
    <2>1. Quiet /\ cb' = "idle" BY <1>1, <1>3 DEF Quiet, QuietOK
    <2>2. cb \in {"close", "idle"} BY <1>1, <2>1 DEF QuietOK
    <2>3. ~Waiting /\ ~Waiting' BY <2>1, <2>2 DEF Waiting
    <2> QED BY <1>1, <2>1, <2>3 DEF QuietOK, Ends
  <1>9. PhaseOK'
    <2>1. CASE caller = "close" /\ caller' = "closed" /\ phase' = "over" /\ finish /\ UNCHANGED timer
      <3>1. Outcome /\ phase # "over" BY <2>1 DEF PhaseOK
      <3>2. why = "eof" => err = TRUE BY <3>1 DEF Outcome, PhaseOK
      <3>3. Outcome' BY <1>1, <2>1, <3>1 DEF Outcome, finish, Expired
      <3>4. verdict' = "upstream" => blame' = TRUE
        BY <2>1, <3>1, <3>2 DEF finish, Outcome
      <3> QED BY <1>1, <2>1, <3>3, <3>4 DEF PhaseOK, Expired
    <2>2. CASE timer = "close" /\ timer' = "fired" /\ UNCHANGED <<caller, phase, verdict, blame>>
      BY <1>1, <2>2 DEF PhaseOK, Outcome, Expired, Ends
    <2>3. CASE UNCHANGED <<caller, timer, phase, verdict, blame>>
      BY <1>1, <2>3 DEF PhaseOK, Outcome, Expired, Ends
    <2> QED BY <1>3, <2>1, <2>2, <2>3
  <1>10. VerdictOK'
    <2>1. verdict' \in {"done", "error"} => verdict' = verdict BY <1>3 DEF finish
    <2>2. timer # "armed" => timer' # "armed" BY <1>3
    <2> QED BY <1>1, <2>1, <2>2 DEF VerdictOK
  <1>11. SerializedDelivery'
    BY <1>1, <1>3 DEF SerializedDelivery, eventsClosed, muFree
  <1> QED BY <1>2, <1>5, <1>6, <1>7, <1>8, <1>9, <1>10, <1>11

(* An entry of a sequence.                                                  *)
LEMMA ElementIn ==
  ASSUME NEW S, NEW q \in Seq(S), NEW i \in 1..Len(q)
  PROVE  q[i] \in S
  OBVIOUS

(* relayEvent: reading a terminator while all is quiet means having read    *)
(* everything before it.                                                    *)
LEMMA RelayStep ==
  ASSUME ConsultInv, relayEvent, phase = "open", UNCHANGED <<client, phase>>
  PROVE  ConsultInv'
  <1> USE DEF ConsultInv
  <1> DEFINE e == carried[nread + 1].type
  <1>1. /\ UNCHANGED <<session, closed, said, seq, inbox, nextSeq, held, pushed>>
        /\ UNCHANGED <<timer, err, closeStep, client, phase, blame>>
        /\ caller = "reading" /\ nread' = nread + 1 /\ apply(e)
        /\ Len(carried) - nread > 0
    BY DEF relayEvent, life, numbers, wire, accept, once, pending
  <1>2. \/ cb = "blocked" /\ send /\ cb' = afterEvent
        \/ UNCHANGED <<carried, cb>>
    BY DEF relayEvent
  <1>3. Agent' BY <1>1, AgentStays DEF numbers
  <1>4. /\ nread \in Nat /\ Len(carried) \in Nat /\ nread + 1 \in 1..Len(carried)
        /\ carried[nread + 1] \in [type : Carriable, seq : Int]
    <2>1. nread \in Nat /\ carried \in Seq([type : Carriable, seq : Int]) BY DEF CTypes
    <2>2. Len(carried) \in Nat BY <2>1
    <2>3. Len(carried) - nread > 0 BY <1>1
    <2> HIDE DEF ConsultInv
    <2>4. nread + 1 \in 1..Len(carried) BY ONLY <2>1, <2>2, <2>3
    <2> QED BY <2>1, <2>2, <2>4, ElementIn
  <1>5. /\ Len(carried') \in Nat /\ Len(carried) <= Len(carried')
        /\ \A i \in 1..Len(carried) : carried'[i] = carried[i]
        /\ carried' \in Seq([type : Carriable, seq : Int])
    <2>1. CASE send BY <1>4, <2>1, SendFacts
    <2>2. CASE carried' = carried BY <1>4, <2>2 DEF CTypes
    <2> QED BY <1>2, <2>1, <2>2
  <1>6. /\ nread' \in 1..Len(carried') /\ nread' <= Len(carried')
        /\ carried'[nread'] = carried[nread + 1]
    BY <1>1, <1>4, <1>5
  <1>7. \/ ~Ends(e) /\ UNCHANGED <<caller, why, verdict>>
        \/ /\ Ends(e) /\ caller' = "close" /\ why' = "terminated" /\ verdict' \in {"done", "error"}
    BY <1>1 DEF apply, Ends, Terminators
  <1>8. Stays /\ (Quiet' => Quiet) BY <1>1, <1>7 DEF Stays, Quiet
  <1>9. HeldOK' /\ RefusalOK' /\ CarriedOK' /\ QuietOK'
    BY <1>2, <1>8, SendKeeps, MoveKeeps
  <1>10. afterEvent \in {"idle", "close"} BY DEF afterEvent
  <1>11. CTypes'
    BY <1>1, <1>2, <1>4, <1>5, <1>6, <1>7, <1>10 DEF CTypes
  <1>12. SerializedDelivery'
    BY <1>1, <1>2, <1>10 DEF SerializedDelivery, eventsClosed, muFree
  <1>13. why = "none" /\ verdict = "none" /\ \A i \in 1..nread : ~Ends(carried[i].type)
    BY <1>1 DEF PhaseOK
  <1>14. CASE ~Ends(e) /\ UNCHANGED <<caller, why, verdict>>
    <2>1. \A i \in 1..nread' : ~Ends(carried'[i].type)
      <3> SUFFICES ASSUME NEW i \in 1..nread' PROVE ~Ends(carried'[i].type)
        OBVIOUS
      <3>1. i \in 1..nread \/ i = nread + 1 BY <1>1, <1>4
      <3>2. i \in 1..Len(carried) BY <1>4, <3>1
      <3> QED BY <1>5, <1>13, <1>14, <3>1, <3>2
    <2>2. PhaseOK' BY <1>1, <1>14, <2>1 DEF PhaseOK, Expired, Outcome, Ends
    <2>3. VerdictOK' BY <1>13, <1>14 DEF VerdictOK
    <2> QED BY <1>3, <1>9, <1>11, <1>12, <2>2, <2>3
  <1>15. CASE /\ Ends(e) /\ caller' = "close" /\ why' = "terminated"
              /\ verdict' \in {"done", "error"}
    <2>1. PhaseOK'
      BY <1>1, <1>15 DEF PhaseOK, Expired, Outcome
    <2>2. CASE e = "refusal"
      <3>1. session = "refused" /\ Len(carried) <= 1 BY <1>4, <2>2 DEF RefusalOK
      <3>2. nread' = 1 BY <1>1, <1>4, <3>1
      <3> QED BY <1>3, <1>6, <1>9, <1>11, <1>12, <2>1, <2>2, <3>2 DEF VerdictOK
    <2>3. CASE e # "refusal"
      <3> DEFINE n == carried[nread + 1].seq
      <3>1. /\ e \in Terminators /\ n \in 0..(nextSeq - 1) /\ e = said[n + 1]
            /\ nextSeq \in Nat /\ nextSeq <= Len(said) /\ Len(said) \in Nat
        BY <1>4, <1>15, <2>3 DEF Ends, CarriedOK, HeldOK, CTypes, Agent
      <3>2. n + 1 \in 1..Len(said) BY <3>1
      <3>3. n + 1 = Len(said) /\ closed BY <3>1, <3>2 DEF Agent, SaidOK, SaysGrammar
      <3>4. timer = "armed" => n = nread
        <4> SUFFICES ASSUME timer = "armed" PROVE n = nread
          OBVIOUS
        <4>1. n = (nread + 1) - 1 BY <1>1, <1>4, <2>3 DEF QuietOK, Quiet
        <4> QED BY <1>4, <4>1
      <3>5. VerdictOK'
        BY <1>1, <1>6, <3>1, <3>3, <3>4 DEF VerdictOK
      <3> QED BY <1>3, <1>9, <1>11, <1>12, <2>1, <3>5
    <2> QED BY <2>2, <2>3
  <1> QED BY <1>7, <1>14, <1>15

(* The other ways out of consult's loop, and the timer.                     *)
LEMMA LeaveStep ==
  ASSUME ConsultInv, phase = "open", UNCHANGED <<client, phase>>,
         relayEof \/ relayAskedOff
  PROVE  ConsultInv'
  <1> USE DEF ConsultInv
  <1>1. /\ UNCHANGED <<session, closed, said, seq, inbox, nextSeq, held, pushed, nread, cb>>
        /\ UNCHANGED <<timer, err, closeStep, client, phase, carried, verdict, blame>>
        /\ caller = "reading" /\ caller' = "close"
    BY DEF relayEof, relayAskedOff, life, numbers, wire, accept, chan, once
  <1>2. Agent' BY <1>1, AgentStays DEF numbers
  <1>3. Stays /\ ~Quiet' BY <1>1 DEF Stays, Quiet
  <1>4. HeldOK' /\ RefusalOK' /\ CarriedOK' /\ QuietOK' BY <1>1, <1>3, MoveKeeps
  <1>5. CTypes' /\ SerializedDelivery'
    BY <1>1 DEF CTypes, SerializedDelivery, eventsClosed, muFree
  <1>6. verdict = "none" BY <1>1 DEF PhaseOK
  <1>7. VerdictOK' BY <1>1, <1>6 DEF VerdictOK
  <1>8. ASSUME relayEof PROVE why' = "eof" /\ Expired
    <2>1. closeStep = 3 /\ Len(carried) - nread = 0 /\ why' = "eof"
      BY <1>8 DEF relayEof, eventsClosed, pending
    <2>2. nread \in Nat /\ Len(carried) \in Nat /\ nread = Len(carried) BY <2>1 DEF CTypes
    <2>3. ~Quiet
      <3> SUFFICES ASSUME Quiet PROVE FALSE
        OBVIOUS
      <3>1. Ends(held) /\ carried # << >> /\ carried[Len(carried)].type = held
        BY <2>1 DEF QuietOK
      <3>2. Len(carried) \in 1..nread BY <2>2, <3>1 DEF CTypes
      <3> QED BY <1>1, <3>1, <3>2 DEF PhaseOK
    <2> QED BY <1>1, <2>1, <2>3 DEF Quiet, Expired, CTypes
  <1>9. why' = "ctx" \/ (why' = "eof" /\ Expired) BY <1>8 DEF relayAskedOff
  <1>10. PhaseOK' BY <1>1, <1>6, <1>9 DEF PhaseOK, Expired, Outcome
  <1> QED BY <1>2, <1>4, <1>5, <1>7, <1>10

(* So does the timer.                                                       *)
LEMMA TimerStep ==
  ASSUME ConsultInv, TimerFires, UNCHANGED <<client, phase, relay>>
  PROVE  ConsultInv'
  <1> USE DEF ConsultInv
  <1>1. /\ UNCHANGED <<session, closed, said, seq, inbox, nextSeq, held, pushed, nread, cb>>
        /\ UNCHANGED <<caller, closeStep, client, phase, why, carried, verdict, blame>>
        /\ timer = "armed" /\ timer' = "close" /\ err' = TRUE
    BY DEF TimerFires, life, numbers, wire, accept, chan, once, relay
  <1>2. Agent' BY <1>1, AgentStays DEF numbers
  <1>3. Stays /\ ~Quiet' BY <1>1 DEF Stays, Quiet
  <1>4. HeldOK' /\ RefusalOK' /\ CarriedOK' /\ QuietOK' BY <1>1, <1>3, MoveKeeps
  <1>5. CTypes' /\ SerializedDelivery' /\ VerdictOK'
    BY <1>1 DEF CTypes, SerializedDelivery, eventsClosed, muFree, VerdictOK
  <1>6. PhaseOK' BY <1>1 DEF PhaseOK, Expired, Outcome, Ends
  <1> QED BY <1>2, <1>4, <1>5, <1>6

(* handleChat before there is a stream, and the ctx.                        *)
LEMMA GateStep ==
  ASSUME ConsultInv, Unsent \/ openEngineStream \/ AskOff
  PROVE  ConsultInv'
  <1> USE DEF ConsultInv
  <1>1. /\ UNCHANGED <<session, closed, said, seq, inbox, nextSeq, held, pushed, nread, cb>>
        /\ UNCHANGED <<timer, err, caller, closeStep, client, carried, why, blame>>
    BY DEF Unsent, openEngineStream, AskOff, vars, life, numbers, wire, accept, chan, others, once, relay
  <1>2. Agent' BY <1>1, AgentStays DEF numbers
  <1>3. Stays /\ (Quiet' <=> Quiet) BY <1>1 DEF Stays, Quiet
  <1>4. HeldOK' /\ RefusalOK' /\ CarriedOK' /\ QuietOK' BY <1>1, <1>3, MoveKeeps
  <1>5. CTypes' /\ SerializedDelivery'
    BY <1>1 DEF CTypes, SerializedDelivery, eventsClosed, muFree
  <1>6. \/ UNCHANGED <<phase, verdict>>
        \/ phase = "gate" /\ phase' = "unsent" /\ verdict' \in {"forbidden", "unreachable"}
        \/ phase = "gate" /\ phase' = "open" /\ verdict' = verdict
    BY DEF Unsent, openEngineStream, AskOff, relay
  <1>7. PhaseOK' BY <1>1, <1>6 DEF PhaseOK, Expired, Outcome, Ends
  <1>8. VerdictOK' BY <1>1, <1>6 DEF VerdictOK
  <1> QED BY <1>2, <1>4, <1>5, <1>7, <1>8

(* Every step keeps the invariant.                                          *)
LEMMA ConsultStep == CInv /\ [ConsultNext]_cvars => CInv'
  <1> SUFFICES ASSUME CInv, [ConsultNext]_cvars PROVE CInv'
    OBVIOUS
  <1>1. client' = client
    BY DEF ConsultNext, OfSubscription, OfConsult, Unsent, openEngineStream, AskOff, cvars
  <1>2. CASE client = "subscription"
    <2>1. [Next]_vars
      BY <1>2 DEF ConsultNext, OfSubscription, OfConsult, Next, cvars
    <2> QED BY <1>1, <1>2, <2>1, InvStep DEF CInv
  <1>3. CASE client = "consult"
    <2>1. ConsultInv BY <1>3 DEF CInv
    <2>2. SUFFICES ConsultInv'
      BY <1>1, <1>3 DEF CInv
    <2>3. CASE OfConsult((Server \/ Lose) /\ UNCHANGED <<phase, relay>>)
      BY <2>1, <2>3, ConsultServer DEF OfConsult
    <2>4. CASE OfConsult(Consulting)
      <3>1. phase \in {"open", "over"} /\ Consulting /\ UNCHANGED client
        BY <2>4 DEF OfConsult
      <3>2. caller = "reading" => phase = "open" BY <2>1, <3>1 DEF ConsultInv, PhaseOK
      <3>3. CASE onMsg /\ UNCHANGED phase BY <2>1, <3>1, <3>3, OnMsgStep
      <3>4. CASE (deliver \/ deliverSelect) /\ UNCHANGED phase BY <2>1, <3>1, <3>4, DeliverStep
      <3>5. CASE relayEvent /\ UNCHANGED phase
        <4>1. caller = "reading" BY <3>5 DEF relayEvent
        <4> QED BY <2>1, <3>1, <3>2, <3>5, <4>1, RelayStep
      <3>6. CASE (relayEof \/ relayAskedOff) /\ UNCHANGED phase
        <4>1. caller = "reading" BY <3>6 DEF relayEof, relayAskedOff
        <4> QED BY <2>1, <3>1, <3>2, <3>6, <4>1, LeaveStep
      <3>7. CASE TimerFires /\ UNCHANGED <<phase, relay>> BY <2>1, <3>1, <3>7, TimerStep
      <3>8. ASSUME NEW t \in Threads, closeDone(t) \/ closeEvents(t) PROVE ConsultInv'
        BY <2>1, <3>1, <3>8, CloseDoneStep, CloseEventsStep
      <3> QED BY <3>1, <3>3, <3>4, <3>5, <3>6, <3>7, <3>8 DEF Consulting, Loop
    <2>5. CASE Unsent \/ openEngineStream \/ AskOff BY <2>1, <2>5, GateStep
    <2>6. CASE UNCHANGED cvars
      <3>1. /\ UNCHANGED <<session, closed, said, seq, inbox, nextSeq, held, pushed, nread, cb>>
            /\ UNCHANGED <<timer, err, caller, closeStep, client, phase, carried, why, verdict, blame>>
        BY <2>6 DEF cvars, vars, life, numbers, wire, accept, chan, others, once, relay
      <3>2. Agent' BY <2>1, <3>1, AgentStays DEF numbers, ConsultInv
      <3>3. Stays /\ (Quiet' <=> Quiet) BY <3>1 DEF Stays, Quiet
      <3>4. HeldOK' /\ RefusalOK' /\ CarriedOK' /\ QuietOK' BY <2>1, <3>1, <3>3, MoveKeeps
      <3>5. CTypes' /\ SerializedDelivery'
        BY <2>1, <3>1 DEF ConsultInv, CTypes, SerializedDelivery, eventsClosed, muFree
      <3>6. PhaseOK' /\ VerdictOK' BY <2>1, <3>1, CarryKeeps
      <3> QED BY <3>2, <3>4, <3>5, <3>6 DEF ConsultInv
    <2> QED BY <1>3, <2>3, <2>4, <2>5, <2>6 DEF ConsultNext, OfSubscription
  <1> QED BY <1>2, <1>3 DEF CInv

(* CInv holds of every reachable state.                                     *)
LEMMA CInvHolds == ConsultSpec => []CInv
  BY InitCInv, ConsultStep, PTL DEF ConsultSpec

(* A late event racing a timeout or a cancel is never sent on the closed    *)
(* channel (engineStream's deliver and close, under mu).                    *)
THEOREM DeliverySerialized == ConsultSpec => []SerializedDelivery
  <1>1. CInv => SerializedDelivery BY DEF CInv, ConsultInv, SerializedDelivery
  <1> QED BY <1>1, CInvHolds, PTL

(* For any stream, loss, channel capacity and timing, the terminator a      *)
(* consult passes on is the true one, after everything that was said before *)
(* it unless the timeout came between (relay, finish and consult).          *)
THEOREM TrueVerdict == ConsultSpec => []VerdictTrue
  <1>1. CInv => VerdictTrue
    <2> SUFFICES ASSUME CInv, client = "consult" PROVE VerdictTrue
      BY DEF VerdictTrue
    <2>1. ConsultInv BY DEF CInv
    <2> USE <2>1 DEF ConsultInv
    <2>2. DOMAIN carried = 1..Len(carried) BY DEF CTypes
    <2>3. RelayedInOrder
      <3> SUFFICES ASSUME NEW i \in 1..Len(carried)
                   PROVE  /\ \A j \in 1..i-1 : carried[j].seq < carried[i].seq
                          /\ carried[i].type = "refusal" \/ carried[i].type = said[carried[i].seq + 1]
                          /\ carried[i].seq = i - 1 \/ carried[i].type = "refusal"
                               \/ timer # "armed" \/ caller # "reading"
        BY <2>2 DEF RelayedInOrder
      <3>1. timer = "armed" /\ caller = "reading" => Quiet BY DEF Quiet
      <3> QED BY <3>1 DEF CarriedOK, QuietOK
    <2>4. phase = "over" => (verdict = "none" <=> why = "ctx")
      BY DEF PhaseOK, Outcome
    <2>5. verdict \in {"done", "error"} =>
            \/ carried[nread].type = "refusal" /\ nread = 1
            \/ /\ closed /\ carried[nread].type = said[Len(said)]
               /\ nread = Len(said) \/ timer # "armed"
      BY DEF VerdictOK
    <2>6. verdict = "upstream" => timer \in {"close", "fired"} /\ blame
      BY DEF PhaseOK, Outcome, Expired
    <2> QED BY <2>3, <2>4, <2>5, <2>6 DEF VerdictTrue
  <1> QED BY <1>1, CInvHolds, PTL

(* HearsPrefix with either reader: the channel of natsstream's client       *)
(* carries a prefix of what was said, and a consult does not use it.        *)
THEOREM PrefixHeard == ConsultSpec => []HearsPrefix
  <1>1. CInv => HearsPrefix
    <2>1. IInv => HearsPrefix BY DEF IInv, AcceptOK
    <2>2. ConsultInv => HearsPrefix
      BY DEF ConsultInv, CTypes, Agent, HearsPrefix
    <2> QED BY <2>1, <2>2 DEF CInv
  <1> QED BY <1>1, CInvHolds, PTL

(* The session implements FifoStream whoever reads it.                      *)
THEOREM SessionRefinement == ConsultSpec => AbstractSpec
  <1>1. ConsultInit => Abstract!Init BY DEF ConsultInit, Init, Abstract!Init
  <1>2. CInv /\ [ConsultNext]_cvars => [Abstract!Next]_<<said, pushed>>
    <2> SUFFICES ASSUME CInv, [ConsultNext]_cvars PROVE [Abstract!Next]_<<said, pushed>>
      OBVIOUS
    <2>1. CASE client = "subscription"
      <3>1. [Next]_vars BY <2>1 DEF ConsultNext, OfSubscription, OfConsult, Next, cvars
      <3> QED BY <2>1, <3>1, NextRefines DEF CInv
    <2>2. CASE client = "consult"
      <3>1. Agent BY <2>2 DEF CInv, ConsultInv
      <3>2. CASE Server \/ Lose
        <4>1. pushed' = pushed BY <3>1, <3>2, ServerSays DEF chan
        <4>2. ASSUME NEW e \in EventTypes, Says(e) PROVE Abstract!Next
          BY <3>1, <4>1, <4>2, SayRefines DEF Abstract!Next
        <4> QED BY <3>1, <3>2, <4>1, <4>2, ServerSays DEF numbers
      <3>3. CASE Consulting
        BY <3>3 DEF Consulting, Loop, onMsg, deliver, deliverSelect, relayEvent, relayEof,
                    relayAskedOff, TimerFires, closeDone, closeEvents, closing, numbers, chan
      <3>4. CASE Unsent \/ openEngineStream \/ AskOff
        BY <3>4 DEF Unsent, openEngineStream, AskOff, vars, numbers, chan
      <3>5. CASE UNCHANGED cvars BY <3>5 DEF cvars, vars, numbers, chan
      <3> QED BY <2>2, <3>2, <3>3, <3>4, <3>5 DEF ConsultNext, OfSubscription, OfConsult
    <2> QED BY <2>1, <2>2 DEF CInv
  <1> QED BY <1>1, <1>2, CInvHolds, PTL DEF ConsultSpec, AbstractSpec, Abstract!Spec
=============================================================================
