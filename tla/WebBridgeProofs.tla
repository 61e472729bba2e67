---------------------------- MODULE WebBridgeProofs ----------------------------
(***************************************************************************)
(* Proofs about one browser socket of the bridge: the order of the frames  *)
(* on its screen, the session its turns are requested with, the user       *)
(* messages it sends and the runs it walks away from.                      *)
(***************************************************************************)
EXTENDS WebBridge, TLAPS

-----------------------------------------------------------------------------
(* Sequences.                                                               *)

\* What appending, taking the head and the tail do to a sequence.
LEMMA SeqFacts ==
  ASSUME NEW S, NEW q \in Seq(S), NEW x \in S
  PROVE  /\ Append(q, x) \in Seq(S) /\ Len(Append(q, x)) = Len(q) + 1
         /\ Append(q, x)[Len(q) + 1] = x
         /\ \A i \in 1..Len(q) : Append(q, x)[i] = q[i]
         /\ DOMAIN q = 1..Len(q) /\ Len(q) \in Nat
         /\ \A i \in DOMAIN q : q[i] \in S
         /\ << >> \in Seq(S) /\ Len(<< >>) = 0
OBVIOUS

\* The same for a sequence that is not empty.
LEMMA TailFacts ==
  ASSUME NEW S, NEW q \in Seq(S), q # << >>
  PROVE  /\ Head(q) \in S /\ Head(q) = q[1] /\ 1 \in DOMAIN q
         /\ Tail(q) \in Seq(S) /\ Len(Tail(q)) = Len(q) - 1
         /\ \A i \in 1..(Len(q) - 1) : Tail(q)[i] = q[i + 1]
OBVIOUS

\* The empty sequence and concatenations of sequences are sequences.
LEMMA ConcatFacts ==
  ASSUME NEW S, NEW p \in Seq(S), NEW q \in Seq(S)
  PROVE  p \o q \in Seq(S) /\ p \o << >> = p /\ << >> \in Seq(S)
OBVIOUS

\* Two sequences of one element make a pair.
LEMMA PairConcat ==
  ASSUME NEW S, NEW a \in S, NEW b \in S
  PROVE  <<a>> \o <<b>> = <<a, b>>
<1> DEFINE p == <<a>> \o <<b>>
           q == <<a, b>>
<1>1. p \in Seq(S) /\ Len(p) = 2 /\ p[1] = a /\ p[2] = b
  OBVIOUS
<1>2. q \in Seq(S) /\ Len(q) = 2 /\ q[1] = a /\ q[2] = b
  OBVIOUS
<1> HIDE DEF p, q
<1>3. p = q
  <2>1. p = [i \in 1..2 |-> p[i]] /\ q = [i \in 1..2 |-> q[i]]
    BY <1>1, <1>2
  <2>2. \A i \in 1..2 : i = 1 \/ i = 2
    OBVIOUS
  <2> QED BY <1>1, <1>2, <2>1, <2>2
<1> QED BY <1>3 DEF p, q

-----------------------------------------------------------------------------
(* The types of the state.                                                  *)

Kinds == {"start", "data", "complete", "error", "refused", "denied"}
Messages == [turn : Turns, type : Kinds, seq : Nat, sess : 0..Resumed]
ScreenFrames == [turn : Turns, type : Kinds \cup {"expired"}, seq : Nat]
Runs == [st : {"none", "requested", "running", "complete", "error", "ended"},
         seq : Nat, sess : 0..Resumed, cancel : BOOLEAN, start : BOOLEAN]
Reasons == {"", "open-failed", "closed", "write-err", "cancel", "fatal", "terminal", "eof"}

TypeInv ==
  /\ wsUp \in BOOLEAN /\ gaveUp \in BOOLEAN /\ rushed \in BOOLEAN
  /\ sent \in Nat /\ up \in Seq(Frames) /\ cq \in Seq(Frames)
  /\ reader \in {"read", "send", "done"} /\ rframe \in Frames
  /\ handler \in {"turn", "pump", "between", "returned"}
  /\ turn \in Turns /\ active \in 0..Resumed /\ captured \in 0..Resumed
  /\ reqs \in Seq(0..Resumed) /\ how \in [Turns -> Reasons] /\ dropped \in Nat
  /\ inbox \in Seq(Messages) /\ events \in Seq(Messages)
  /\ nextSeq \in Nat /\ cancelSubj \subseteq Turns /\ subClosed \in BOOLEAN
  /\ screen \in Seq(ScreenFrames) /\ agent \in [Turns -> Runs]

\* The frames of a screen, one by one.
LEMMA FrameFacts ==
  ASSUME NEW q \in Seq(ScreenFrames), NEW i \in DOMAIN q
  PROVE  /\ q[i] \in ScreenFrames /\ q[i].turn \in Turns /\ q[i].turn \in Nat /\ q[i].seq \in Nat
         /\ i \in 1..Len(q)
<1>1. q[i] \in ScreenFrames /\ i \in 1..Len(q)
  OBVIOUS
<1> QED BY <1>1, BridgeBounds DEF ScreenFrames, Turns

(* What a step does to the run of a turn.                                   *)

\* A request: the run is requested with a session.
LEMMA RequestRun ==
  ASSUME NEW A \in [Turns -> Runs], NEW t \in Turns, NEW s \in 0..Resumed,
         NEW B, B = [A EXCEPT ![t].st = "requested", ![t].sess = s]
  PROVE  /\ B \in [Turns -> Runs]
         /\ B[t].st = "requested" /\ B[t].sess = s
         /\ \A u \in Turns : u # t => B[u] = A[u]
<1>1. B \in [Turns -> Runs]
  BY DEF Runs
<1>2. B[t].st = "requested" /\ B[t].sess = s
  BY DEF Runs
<1> QED BY <1>1, <1>2

\* A refusal: its status.
LEMMA RefuseRun ==
  ASSUME NEW A \in [Turns -> Runs], NEW t \in Turns, NEW B, B = [A EXCEPT ![t].st = "ended"]
  PROVE  /\ B \in [Turns -> Runs]
         /\ B[t].st = "ended" /\ B[t].sess = A[t].sess /\ B[t].cancel = A[t].cancel
         /\ \A u \in Turns : u # t => B[u] = A[u]
<1>1. B \in [Turns -> Runs]
  BY DEF Runs
<1>2. B[t].st = "ended" /\ B[t].sess = A[t].sess /\ B[t].cancel = A[t].cancel
  BY DEF Runs
<1> QED BY <1>1, <1>2

\* One field of a run.
LEMMA RunFields ==
  ASSUME NEW A \in [Turns -> Runs], NEW t \in Turns
  PROVE  /\ \A st \in {"running", "complete", "error"} : [A EXCEPT ![t].st = st] \in [Turns -> Runs]
         /\ \A n \in Nat : [A EXCEPT ![t].seq = n] \in [Turns -> Runs]
         /\ \A s \in 0..Resumed : [A EXCEPT ![t].sess = s] \in [Turns -> Runs]
         /\ [A EXCEPT ![t].start = TRUE] \in [Turns -> Runs]
<1>1. ASSUME NEW st \in {"running", "complete", "error"}
      PROVE  [A EXCEPT ![t].st = st] \in [Turns -> Runs]
  BY DEF Runs
<1>2. ASSUME NEW n \in Nat PROVE [A EXCEPT ![t].seq = n] \in [Turns -> Runs]
  BY DEF Runs
<1>3. ASSUME NEW s \in 0..Resumed PROVE [A EXCEPT ![t].sess = s] \in [Turns -> Runs]
  BY DEF Runs
<1>4. [A EXCEPT ![t].start = TRUE] \in [Turns -> Runs]
  BY DEF Runs
<1> QED BY <1>1, <1>2, <1>3, <1>4

\* An event: its sequence number and its status.
Sent(A, t, st) == [A EXCEPT ![t].seq = @ + 1, ![t].st = st]

(* What Sent changes, and what it leaves.                                   *)
LEMMA SendRun ==
  ASSUME NEW A \in [Turns -> Runs], NEW t \in Turns, NEW st \in {"running", "complete", "error"}
  PROVE  /\ Sent(A, t, st) \in [Turns -> Runs]
         /\ Sent(A, t, st)[t].st = st /\ Sent(A, t, st)[t].seq = A[t].seq + 1
         /\ Sent(A, t, st)[t].sess = A[t].sess /\ Sent(A, t, st)[t].cancel = A[t].cancel
         /\ \A u \in Turns : u # t => Sent(A, t, st)[u] = A[u]
<1> DEFINE n == A[t].seq + 1
           A1 == [A EXCEPT ![t].seq = n]
           A2 == [A1 EXCEPT ![t].st = st]
<1>1. n \in Nat
  BY DEF Runs
<1>2. Sent(A, t, st) = A2
  BY DEF Sent
<1> HIDE DEF n
<1>3. A1 \in [Turns -> Runs]
  BY <1>1, RunFields
<1>4. /\ A1[t].seq = n /\ A1[t].sess = A[t].sess /\ A1[t].cancel = A[t].cancel
      /\ \A u \in Turns : u # t => A1[u] = A[u]
  BY <1>1 DEF Runs
<1> HIDE DEF A1
<1>5. A2 \in [Turns -> Runs]
  BY <1>3, RunFields
<1>6. /\ A2[t].st = st /\ A2[t].seq = n /\ A2[t].sess = A[t].sess /\ A2[t].cancel = A[t].cancel
      /\ \A u \in Turns : u # t => A2[u] = A[u]
  BY <1>3, <1>4 DEF Runs
<1> QED BY <1>2, <1>5, <1>6 DEF n

\* A start: its status, its first sequence number and its session.
Begun(A, t, s) == [A EXCEPT ![t].st = "running", ![t].seq = 1, ![t].sess = s, ![t].start = TRUE]

(* What Begun changes, and what it leaves.                                  *)
LEMMA StartRun ==
  ASSUME NEW A \in [Turns -> Runs], NEW t \in Turns, NEW s \in 0..Resumed
  PROVE  /\ Begun(A, t, s) \in [Turns -> Runs]
         /\ Begun(A, t, s)[t].st = "running" /\ Begun(A, t, s)[t].seq = 1
         /\ Begun(A, t, s)[t].sess = s /\ Begun(A, t, s)[t].cancel = A[t].cancel
         /\ \A u \in Turns : u # t => Begun(A, t, s)[u] = A[u]
<1> DEFINE A1 == [A EXCEPT ![t].st = "running"]
           A2 == [A1 EXCEPT ![t].seq = 1]
           A3 == [A2 EXCEPT ![t].sess = s]
           A4 == [A3 EXCEPT ![t].start = TRUE]
<1>1. /\ Begun(A, t, s)[t].st = "running" /\ Begun(A, t, s)[t].seq = 1
      /\ Begun(A, t, s)[t].sess = s /\ Begun(A, t, s)[t].cancel = A[t].cancel
  BY DEF Runs, Begun
<1>2. \A u \in Turns : u # t => Begun(A, t, s)[u] = A[u]
  BY DEF Runs, Begun
<1>3. A1 \in [Turns -> Runs]
  BY RunFields
<1> HIDE DEF A1
<1>4. A2 \in [Turns -> Runs]
  BY <1>3, RunFields
<1> HIDE DEF A2
<1>5. A3 \in [Turns -> Runs]
  BY <1>4, RunFields
<1> HIDE DEF A3
<1>6. A4 \in [Turns -> Runs]
  BY <1>5, RunFields
<1>7. Begun(A, t, s) = A4
  BY DEF Begun, A1, A2, A3, A4
<1> QED BY <1>1, <1>2, <1>6, <1>7

\* Cancelling the current turn's run sets its cancel flag and nothing else.
LEMMA CancelRun ==
  ASSUME TypeInv, CancelUpstream
  PROVE  /\ agent' \in [Turns -> Runs]
         /\ turn \in cancelSubj => agent'[turn].cancel
         /\ \A u \in Turns : /\ agent'[u].st = agent[u].st /\ agent'[u].seq = agent[u].seq
                             /\ agent'[u].sess = agent[u].sess
                             /\ agent[u].cancel => agent'[u].cancel
<1>1. turn \in Turns /\ agent \in [Turns -> Runs]
  BY DEF TypeInv
<1>2. CASE turn \in cancelSubj
  <2>1. agent' = [agent EXCEPT ![turn].cancel = TRUE]
    BY <1>2 DEF CancelUpstream
  <2>2. agent' \in [Turns -> Runs]
    BY <1>1, <2>1 DEF Runs
  <2>3. /\ agent'[turn].st = agent[turn].st /\ agent'[turn].seq = agent[turn].seq
        /\ agent'[turn].sess = agent[turn].sess /\ agent'[turn].cancel = TRUE
    BY <1>1, <2>1 DEF Runs
  <2>4. \A u \in Turns : u # turn => agent'[u] = agent[u]
    BY <1>1, <2>1
  <2> QED BY <2>2, <2>3, <2>4
<1>3. CASE turn \notin cancelSubj
  BY <1>1, <1>3 DEF CancelUpstream
<1> QED BY <1>2, <1>3

\* A message with its sequence as it was parsed is a message.
LEMMA ParsedMessage ==
  ASSUME NEW m \in Messages
  PROVE  /\ ParsedSeq(m) \in Nat
         /\ [m EXCEPT !.seq = ParsedSeq(m)]
              = [turn |-> m.turn, type |-> m.type, seq |-> ParsedSeq(m), sess |-> m.sess]
         /\ [m EXCEPT !.seq = ParsedSeq(m)] \in Messages
<1>1. ParsedSeq(m) \in Nat
  BY DEF ParsedSeq, Messages
<1> HIDE DEF ParsedSeq
<1> QED BY <1>1 DEF Messages

\* Leaving a turn keeps the types.
LEMMA LeaveTypes ==
  ASSUME TypeInv, NEW reason \in Reasons, Leave(reason), captured' \in 0..Resumed
  PROVE  /\ handler' \in {"turn", "pump", "between", "returned"}
         /\ active' \in 0..Resumed /\ how' \in [Turns -> Reasons]
         /\ inbox' \in Seq(Messages) /\ events' \in Seq(Messages)
         /\ nextSeq' \in Nat /\ cancelSubj' \subseteq Turns /\ subClosed' \in BOOLEAN
<1>1. << >> \in Seq(Messages)
  OBVIOUS
<1>2. /\ inbox' = << >> /\ events' = << >> /\ nextSeq' = 0
      /\ cancelSubj' = cancelSubj /\ subClosed' = TRUE
  BY DEF Leave, Unsubscribed
<1>3. how' \in [Turns -> Reasons]
  BY DEF TypeInv, Leave
<1>4. active' \in 0..Resumed
  BY DEF TypeInv, Leave
<1>5. handler' \in {"turn", "pump", "between", "returned"}
  BY DEF Leave
<1>6. cancelSubj \subseteq Turns
  BY DEF TypeInv
<1> QED BY <1>1, <1>2, <1>3, <1>4, <1>5, <1>6

\* A message that reaches the current inbox is one.
LEMMA DeliverTypes ==
  ASSUME TypeInv, NEW t \in Turns, NEW m \in Messages, Deliver(t, m)
  PROVE  inbox' \in Seq(Messages)
BY DEF TypeInv, Deliver

\* Every step keeps the types.
LEMMA TypeStep ==
  TypeInv /\ [Next]_vars => TypeInv'
<1> SUFFICES ASSUME TypeInv, [Next]_vars PROVE TypeInv'
  OBVIOUS
<1> USE BridgeBounds
<1>1. ASSUME NEW f \in Frames, BrowserSends(f) PROVE TypeInv'
  BY <1>1 DEF BrowserSends, TypeInv, readerVars, loopVars, subVars
<1>2. CASE BrowserLeaves
  BY <1>2 DEF BrowserLeaves, TypeInv, readerVars, loopVars, subVars
<1>3. CASE ReaderReads
  <2>1. /\ up' \in Seq(Frames) /\ rframe' \in Frames
        /\ reader' \in {"read", "send", "done"}
    <3>1. CASE up # << >> /\ up' = Tail(up) /\ rframe' = Head(up)
      BY <1>3, <3>1, TailFacts DEF ReaderReads, TypeInv
    <3>2. CASE UNCHANGED <<up, rframe>>
      BY <1>3, <3>2 DEF ReaderReads, TypeInv
    <3> QED BY <1>3, <3>1, <3>2 DEF ReaderReads
  <2> QED BY <1>3, <2>1 DEF ReaderReads, TypeInv, loopVars, subVars
<1>4. CASE ReaderSends
  BY <1>4 DEF ReaderSends, TypeInv, browserVars, loopVars, subVars, Frames
<1>5. CASE OpenTurn
  <2>1. reqs' \in Seq(0..Resumed) /\ captured' \in 0..Resumed
    BY <1>5 DEF OpenTurn, TypeInv, NoSession, Resumed
  <2>2. UNCHANGED <<browserVars, readerVars, cq, turn, active, dropped>>
    BY <1>5 DEF OpenTurn
  <2>3. CASE /\ handler' = "pump"
             /\ inbox' = << >> /\ nextSeq' = 0 /\ cancelSubj' = cancelSubj /\ events' = << >>
             /\ subClosed' = FALSE
             /\ agent' = [agent EXCEPT ![turn].st = "requested", ![turn].sess = active]
             /\ UNCHANGED <<screen, how>>
    <3>1. agent' \in [Turns -> Runs]
      <4>1. agent \in [Turns -> Runs] /\ turn \in Turns /\ active \in 0..Resumed
        BY DEF TypeInv
      <4> QED BY <2>3, <4>1, RequestRun
    <3>2. << >> \in Seq(Messages)
      OBVIOUS
    <3> QED BY <2>1, <2>2, <2>3, <3>1, <3>2 DEF TypeInv, browserVars, readerVars
  <2>4. CASE /\ handler' = "between"
             /\ screen' = Append(screen, [turn |-> turn, type |-> "refused", seq |-> 0])
             /\ how' = [how EXCEPT ![turn] = "open-failed"]
             /\ UNCHANGED <<inbox, subVars, agent>>
    <3>1. [turn |-> turn, type |-> "refused", seq |-> 0] \in ScreenFrames
      BY DEF ScreenFrames, Kinds, TypeInv
    <3>2. screen' \in Seq(ScreenFrames)
      BY <2>4, <3>1, SeqFacts DEF TypeInv
    <3>3. how' \in [Turns -> Reasons]
      BY <2>4 DEF TypeInv, Reasons
    <3> QED BY <2>1, <2>2, <2>4, <3>2, <3>3 DEF TypeInv, browserVars, readerVars, subVars
  <2> QED BY <1>5, <2>3, <2>4 DEF OpenTurn
<1>6. CASE OnMessage
  <2>1. Head(inbox) \in Messages /\ inbox' \in Seq(Messages)
    BY <1>6, TailFacts DEF OnMessage, TypeInv
  <2>2. events' \in Seq(Messages) /\ nextSeq' \in Nat /\ cancelSubj' \subseteq Turns /\ subClosed' \in BOOLEAN
    <3>1. CASE UNCHANGED subVars
      BY <3>1 DEF TypeInv, subVars
    <3>2. CASE /\ nextSeq' = nextSeq + 1
               /\ cancelSubj' = IF Head(inbox).type = "start" THEN cancelSubj \cup {turn} ELSE cancelSubj
               /\ events' = Append(events, [Head(inbox) EXCEPT !.seq = ParsedSeq(Head(inbox))])
               /\ subClosed' = (Head(inbox).type \in Terminal)
      <4>1. [Head(inbox) EXCEPT !.seq = ParsedSeq(Head(inbox))] \in Messages
        BY <2>1, ParsedMessage
      <4>2. events' \in Seq(Messages)
        BY <3>2, <4>1, SeqFacts DEF TypeInv
      <4> QED BY <3>2, <4>2 DEF TypeInv
    <3> QED BY <1>6, <3>1, <3>2 DEF OnMessage
  <2> QED BY <1>6, <2>1, <2>2 DEF OnMessage, TypeInv, browserVars, readerVars, loopVars
<1>7. CASE StreamTimeout
  BY <1>7 DEF StreamTimeout, TypeInv, browserVars, readerVars, loopVars
<1>8. CASE PumpClosed
  BY <1>8, LeaveTypes, CancelRun DEF PumpClosed, TypeInv, browserVars, readerVars, Reasons
<1>9. CASE PumpPingFails
  BY <1>9, LeaveTypes, CancelRun DEF PumpPingFails, TypeInv, browserVars, readerVars, Reasons
<1>10. CASE PumpFrame
  <2>1. cq' \in Seq(Frames)
    BY <1>10, TailFacts DEF PumpFrame, TypeInv
  <2>2. CASE Leave("cancel") /\ CancelUpstream /\ UNCHANGED dropped
    BY <1>10, <2>1, <2>2, LeaveTypes, CancelRun DEF PumpFrame, TypeInv, browserVars, readerVars, Reasons
  <2>3. CASE /\ dropped' \in {dropped, dropped + 1}
             /\ UNCHANGED <<handler, active, how, inbox, subVars, agent>>
    BY <1>10, <2>1, <2>3 DEF PumpFrame, TypeInv, browserVars, readerVars, subVars
  <2> QED BY <1>10, <2>2, <2>3 DEF PumpFrame
<1>11. CASE PumpEvent
  <2> DEFINE e == Head(events)
  <2>1. e \in Messages
    BY <1>11, TailFacts DEF PumpEvent, TypeInv
  <2>2. captured' \in 0..Resumed
    BY <1>11, <2>1 DEF PumpEvent, TypeInv, Messages
  <2>3. Written(e) \in Seq(ScreenFrames)
    <3>1. /\ [turn |-> e.turn, type |-> e.type, seq |-> e.seq] \in ScreenFrames
          /\ [turn |-> e.turn, type |-> "expired", seq |-> 0] \in ScreenFrames
      BY <2>1 DEF Messages, ScreenFrames
    <3> HIDE DEF e
    <3> QED BY <3>1 DEF Written
  <2>4. screen' \in Seq(ScreenFrames)
    <3>1. screen' = screen \/ screen' = screen \o Written(e) \/ screen' = screen \o << >>
      BY <1>11 DEF PumpEvent
    <3> HIDE DEF e
    <3>2. screen \in Seq(ScreenFrames)
      BY DEF TypeInv
    <3>3. screen \o << >> = screen /\ screen \o Written(e) \in Seq(ScreenFrames)
      BY <2>3, <3>2, ConcatFacts
    <3> QED BY <3>1, <3>2, <3>3
  <2>5. agent' \in [Turns -> Runs]
    BY <1>11, CancelRun DEF PumpEvent, TypeInv
  <2>6. \/ \E r \in Reasons : Leave(r)
        \/ events' = Tail(events) /\ UNCHANGED <<handler, active, how, inbox, nextSeq, cancelSubj, subClosed>>
    BY <1>11 DEF PumpEvent, Reasons
  <2>7. Tail(events) \in Seq(Messages)
    BY <1>11, TailFacts DEF PumpEvent, TypeInv
  <2>8. UNCHANGED <<browserVars, readerVars, cq, turn, reqs, dropped>>
    BY <1>11 DEF PumpEvent
  <2> HIDE DEF e
  <2>9. CASE \E r \in Reasons : Leave(r)
    BY <2>2, <2>4, <2>5, <2>8, <2>9, LeaveTypes DEF TypeInv, browserVars, readerVars
  <2>10. CASE events' = Tail(events) /\ UNCHANGED <<handler, active, how, inbox, nextSeq, cancelSubj, subClosed>>
    BY <2>2, <2>4, <2>5, <2>7, <2>8, <2>10 DEF TypeInv, browserVars, readerVars
  <2> QED BY <2>6, <2>9, <2>10
<1>12. CASE PumpEof
  BY <1>12, LeaveTypes DEF PumpEof, TypeInv, browserVars, readerVars, Reasons
<1>13. CASE Between
  <2>1. cq' \in Seq(Frames)
    BY <1>13, TailFacts DEF Between, TypeInv
  <2>2. turn' \in Turns
    BY <1>13 DEF Between, TypeInv, Turns
  <2> QED BY <1>13, <2>1, <2>2 DEF Between, TypeInv, browserVars, readerVars, subVars
<1>14. ASSUME NEW t \in Turns, AgentRefuses(t) PROVE TypeInv'
  <2>1. PICK c \in {"refused", "denied"} :
          Deliver(t, [turn |-> t, type |-> c, seq |-> 0, sess |-> NoSession])
    BY <1>14 DEF AgentRefuses
  <2>2. [turn |-> t, type |-> c, seq |-> 0, sess |-> NoSession] \in Messages
    BY DEF Messages, Kinds, NoSession, Resumed
  <2>3. inbox' \in Seq(Messages)
    BY <2>1, <2>2, DeliverTypes
  <2>4. agent' \in [Turns -> Runs]
    BY <1>14 DEF AgentRefuses, TypeInv, Runs
  <2> QED BY <1>14, <2>3, <2>4 DEF AgentRefuses, TypeInv, browserVars, readerVars, loopVars, subVars
<1>15. ASSUME NEW t \in Turns, AgentStarts(t) PROVE TypeInv'
  <2> DEFINE s == IF agent[t].sess = NoSession THEN t ELSE agent[t].sess
  <2>1. s \in 0..Resumed
    BY DEF TypeInv, Runs, Turns, Resumed
  <2>2. /\ agent' = [agent EXCEPT ![t].st = "running", ![t].seq = 1, ![t].sess = s, ![t].start = TRUE]
        /\ Deliver(t, [turn |-> t, type |-> "start", seq |-> 0, sess |-> s])
    BY <1>15 DEF AgentStarts
  <2> HIDE DEF s
  <2>3. inbox' \in Seq(Messages)
    <3>1. [turn |-> t, type |-> "start", seq |-> 0, sess |-> s] \in Messages
      BY <2>1 DEF Messages, Kinds
    <3> QED BY <2>2, <3>1, DeliverTypes
  <2>4. agent' \in [Turns -> Runs]
    <3>1. agent \in [Turns -> Runs]
      BY DEF TypeInv
    <3>2. agent' = Begun(agent, t, s)
      BY <2>2 DEF Begun
    <3> QED BY <2>1, <3>1, <3>2, StartRun
  <2> QED BY <1>15, <2>3, <2>4 DEF AgentStarts, TypeInv, browserVars, readerVars, loopVars, subVars
<1>16. ASSUME NEW t \in Turns, NEW e \in {"data", "complete", "error"}, AgentSends(t, e) PROVE TypeInv'
  <2>1. agent[t] \in Runs
    BY DEF TypeInv
  <2>2. inbox' \in Seq(Messages)
    <3>1. [turn |-> t, type |-> e, seq |-> agent[t].seq, sess |-> agent[t].sess] \in Messages
      BY <2>1 DEF Messages, Kinds, Runs
    <3> QED BY <1>16, <3>1, DeliverTypes DEF AgentSends
  <2>3. agent' \in [Turns -> Runs]
    <3>1. PICK st \in {"running", "complete", "error"} : st = IF e = "data" THEN "running" ELSE e
      OBVIOUS
    <3>2. agent' = Sent(agent, t, st)
      BY <1>16, <3>1 DEF AgentSends, Sent
    <3>3. agent \in [Turns -> Runs]
      BY DEF TypeInv
    <3> QED BY <3>2, <3>3, SendRun
  <2> QED BY <1>16, <2>2, <2>3 DEF AgentSends, TypeInv, browserVars, readerVars, loopVars, subVars
<1>17. CASE UNCHANGED vars
  BY <1>17 DEF vars, TypeInv, browserVars, readerVars, loopVars, subVars
<1> QED BY <1>1, <1>2, <1>3, <1>4, <1>5, <1>6, <1>7, <1>8, <1>9, <1>10, <1>11, <1>12, <1>13,
           <1>14, <1>15, <1>16, <1>17 DEF Next, Pump

-----------------------------------------------------------------------------
(* One turn after the other: what is true of the session, the screen and    *)
(* the runs between any two steps.                                          *)

Started == {"running", "complete", "error"}
Over == {"between", "returned"}

\* A request has been made for every turn so far.
ReqsInv ==
  /\ handler = "turn" => Len(reqs) = turn - 1
  /\ handler # "turn" => Len(reqs) = turn

\* What a message on its way says of the current turn's run.
Fits(m) ==
  /\ m.turn = turn
  /\ agent[turn].st \notin {"none", "requested"}
  /\ m.type = "start" => agent[turn].st \in Started /\ m.sess = agent[turn].sess
  /\ m.type \in Terminal => agent[turn].st # "running"

InboxInv ==
  /\ handler # "pump" => subClosed /\ inbox = << >> /\ events = << >>
  /\ \A i \in DOMAIN inbox :
       Fits(inbox[i]) /\ (inbox[i].type \in {"data", "complete"} => inbox[i].seq > 0)
  /\ \A i \in DOMAIN events : Fits(events[i])

AgentInv ==
  \A t \in Turns :
    /\ agent[t].st # "none" => t <= Len(reqs)
    /\ agent[t].st = "requested" => agent[t].sess = reqs[t]
    /\ agent[t].st = "running" => agent[t].seq > 0
    /\ agent[t].st \in Started =>
         agent[t].sess # NoSession /\ (reqs[t] # NoSession => agent[t].sess = reqs[t])

\* The session of a turn that showed its start is the socket's from then on.
SessionInv ==
  /\ handler = "pump" => active = reqs[turn]
  /\ handler = "pump" /\ captured # NoSession =>
       agent[turn].st \in Started /\ captured = agent[turn].sess
  /\ \A t \in DOMAIN reqs : reqs[1] # NoSession => active = reqs[1] /\ reqs[t] = reqs[1]
  /\ \A i \in DOMAIN screen : screen[i].type = "start" =>
       /\ agent[screen[i].turn].st \in Started
       /\ screen[i].turn = turn /\ handler = "pump" => captured = agent[screen[i].turn].sess
       /\ screen[i].turn < turn \/ handler # "pump" => active = agent[screen[i].turn].sess
       /\ \A t \in (screen[i].turn + 1)..Len(reqs) : reqs[t] = agent[screen[i].turn].sess

\* Of the turn's events, those still in the channel follow those on screen.
ScreenInv ==
  /\ \A i \in DOMAIN screen :
       /\ screen[i].turn <= turn
       /\ handler = "turn" => screen[i].turn < turn
       /\ handler = "pump" /\ screen[i].turn = turn => nextSeq > Len(events)
       /\ screen[i].turn = turn /\ screen[i].type \in Terminal => handler \in Over
  /\ handler = "pump" =>
       /\ nextSeq >= Len(events)
       /\ \A i \in DOMAIN events : events[i].seq = nextSeq - Len(events) + i - 1
       /\ wsUp /\ nextSeq > Len(events) =>
            /\ screen # << >>
            /\ screen[Len(screen)].turn = turn
            /\ screen[Len(screen)].seq = nextSeq - Len(events) - 1
            /\ screen[Len(screen)].type \notin Terminal \cup {"expired"}

\* A run whose first event was read can be cancelled, or has ended; one that can be
\* was, when its turn ended otherwise than by the closed channel.
CancelInv ==
  /\ handler = "pump" /\ nextSeq > 0 =>
       agent[turn].st \notin {"none", "requested"} /\ (turn \in cancelSubj \/ agent[turn].st # "running")
  /\ \A t \in Turns : how[t] # "" => t < turn \/ (t = turn /\ handler \in Over)
  /\ \A t \in cancelSubj :
       /\ t < turn \/ (t = turn /\ handler # "turn")
       /\ agent[t].st \notin {"none", "requested"}
       /\ how[t] \notin {"", "eof"} => agent[t].cancel \/ agent[t].st # "running"

FlowInv ==
  TypeInv /\ ReqsInv /\ InboxInv /\ AgentInv /\ SessionInv /\ ScreenInv /\ CancelInv

\* Steps of the browser and the reader, and frames that the handler skips.
LEMMA FlowQuiet ==
  ASSUME FlowInv, TypeInv', wsUp' => wsUp,
         UNCHANGED <<screen, handler, turn, active, captured, reqs, how, inbox, nextSeq,
                     cancelSubj, events, agent>>,
         handler = "pump" \/ subClosed' = subClosed
  PROVE  FlowInv'
<1>1. ReqsInv' /\ AgentInv'
  BY DEF FlowInv, ReqsInv, AgentInv
<1>2. InboxInv'
  BY DEF FlowInv, InboxInv, Fits
<1>3. SessionInv'
  BY DEF FlowInv, SessionInv
<1>4. ScreenInv'
  BY DEF FlowInv, ScreenInv
<1>5. CancelInv'
  BY DEF FlowInv, CancelInv
<1> QED BY <1>1, <1>2, <1>3, <1>4, <1>5 DEF FlowInv

\* A request is published: a new run, with the socket's session.
LEMMA FlowOpens ==
  ASSUME FlowInv, TypeInv', OpenTurn, handler' = "pump"
  PROVE  FlowInv'
<1>1. /\ handler = "turn" /\ reqs' = Append(reqs, active) /\ captured' = NoSession
      /\ inbox' = << >> /\ nextSeq' = 0 /\ cancelSubj' = cancelSubj /\ events' = << >>
      /\ agent' = [agent EXCEPT ![turn].st = "requested", ![turn].sess = active]
      /\ UNCHANGED <<screen, how, turn, active, wsUp>>
  BY DEF OpenTurn, browserVars
<1>2. /\ turn \in Turns /\ active \in 0..Resumed /\ agent \in [Turns -> Runs]
      /\ reqs \in Seq(0..Resumed) /\ Len(reqs) = turn - 1
  BY <1>1 DEF FlowInv, TypeInv, ReqsInv
<1>3. /\ agent'[turn].st = "requested" /\ agent'[turn].sess = active
      /\ \A u \in Turns : u # turn => agent'[u] = agent[u]
  BY <1>1, <1>2, RequestRun
<1>4. /\ Len(reqs') = turn /\ reqs'[turn] = active
      /\ \A t \in 1..(turn - 1) : reqs'[t] = reqs[t]
      /\ DOMAIN reqs = 1..(turn - 1) /\ DOMAIN reqs' = 1..turn
  BY <1>1, <1>2, BridgeBounds, SeqFacts DEF Turns
<1>5. ReqsInv'
  BY <1>1, <1>4 DEF ReqsInv
<1>6. InboxInv'
  BY <1>1 DEF InboxInv
<1>7. AgentInv'
  BY <1>2, <1>3, <1>4, BridgeBounds DEF FlowInv, AgentInv, Started, Turns
<1>8. SessionInv'
  <2>1. \A i \in DOMAIN screen : screen[i] \in ScreenFrames /\ screen[i].turn \in Turns /\ screen[i].turn < turn
    <3>1. screen \in Seq(ScreenFrames)
      BY DEF FlowInv, TypeInv
    <3>2. \A i \in DOMAIN screen : screen[i] \in ScreenFrames /\ screen[i].turn \in Turns
      BY <3>1, FrameFacts
    <3> QED BY <1>1, <3>2 DEF FlowInv, ScreenInv
  <2>2. \A t \in DOMAIN reqs' : reqs'[1] # NoSession => active = reqs'[1] /\ reqs'[t] = reqs'[1]
    BY <1>2, <1>4, BridgeBounds DEF FlowInv, SessionInv, Turns
  <2>3. ASSUME NEW i \in DOMAIN screen, screen[i].type = "start"
        PROVE  /\ agent'[screen[i].turn].st \in Started
               /\ active = agent'[screen[i].turn].sess
               /\ \A t \in (screen[i].turn + 1)..Len(reqs') : reqs'[t] = agent'[screen[i].turn].sess
    <3>1. agent'[screen[i].turn] = agent[screen[i].turn]
      <4>1. screen[i].turn \in Turns /\ screen[i].turn # turn
        BY <1>2, <2>1, BridgeBounds DEF Turns
      <4> QED BY <1>3, <4>1
    <3>2. /\ agent[screen[i].turn].st \in Started
          /\ active = agent[screen[i].turn].sess
          /\ \A t \in (screen[i].turn + 1)..Len(reqs) : reqs[t] = agent[screen[i].turn].sess
      BY <1>1, <2>1, <2>3 DEF FlowInv, SessionInv
    <3> QED BY <1>2, <1>4, <2>1, <3>1, <3>2, BridgeBounds DEF Turns
  <2>4. handler' = "pump" /\ turn' = turn /\ active' = active /\ screen' = screen
    BY <1>1
  <2>5. \A i \in DOMAIN screen : screen[i].turn # turn
    BY <1>2, <2>1, BridgeBounds DEF Turns
  <2>6. active' = reqs'[turn'] /\ captured' = NoSession
    BY <1>1, <1>4
  <2>7. \A t \in DOMAIN reqs' : reqs'[1] # NoSession => active' = reqs'[1] /\ reqs'[t] = reqs'[1]
    BY <2>2, <2>4
  <2>8. ASSUME NEW i \in DOMAIN screen', screen'[i].type = "start"
        PROVE  /\ agent'[screen'[i].turn].st \in Started
               /\ screen'[i].turn = turn' /\ handler' = "pump" => captured' = agent'[screen'[i].turn].sess
               /\ screen'[i].turn < turn' \/ handler' # "pump" => active' = agent'[screen'[i].turn].sess
               /\ \A t \in (screen'[i].turn + 1)..Len(reqs') : reqs'[t] = agent'[screen'[i].turn].sess
    <3>1. i \in DOMAIN screen /\ screen'[i] = screen[i] /\ screen[i].type = "start"
      BY <2>4, <2>8
    <3>2. /\ agent'[screen[i].turn].st \in Started
          /\ active = agent'[screen[i].turn].sess
          /\ \A t \in (screen[i].turn + 1)..Len(reqs') : reqs'[t] = agent'[screen[i].turn].sess
      BY <2>3, <3>1
    <3>3. screen[i].turn # turn
      BY <2>5, <3>1
    <3> QED BY <2>4, <3>1, <3>2, <3>3
  <2> QED BY <2>6, <2>7, <2>8 DEF SessionInv
<1>9. ScreenInv'
  <2>1. Len(events') = 0 /\ DOMAIN events' = {} /\ nextSeq' = 0
    BY <1>1
  <2>2. \A i \in DOMAIN screen : screen[i].turn <= turn /\ screen[i].turn < turn
    BY <1>1 DEF FlowInv, ScreenInv
  <2>3. \A i \in DOMAIN screen : screen[i].turn # turn
    <3>1. screen \in Seq(ScreenFrames)
      BY DEF FlowInv, TypeInv
    <3>2. \A i \in DOMAIN screen : screen[i].turn \in Nat
      BY <3>1, FrameFacts
    <3> QED BY <1>2, <2>2, <3>2, BridgeBounds DEF Turns
  <2> QED BY <1>1, <2>1, <2>2, <2>3 DEF ScreenInv
<1>10. CancelInv'
  <2>1. \A t \in Turns : how[t] # "" => t < turn
    BY <1>1 DEF FlowInv, CancelInv, Over
  <2>3. ASSUME NEW t \in cancelSubj
        PROVE  /\ t < turn /\ agent'[t].st \notin {"none", "requested"}
               /\ how[t] \notin {"", "eof"} => agent'[t].cancel \/ agent'[t].st # "running"
    <3>1. t \in Turns /\ t < turn
      BY <1>1 DEF FlowInv, TypeInv, CancelInv
    <3>2. agent'[t] = agent[t]
      BY <1>2, <1>3, <3>1, BridgeBounds DEF Turns
    <3> QED BY <2>3, <3>1, <3>2 DEF FlowInv, CancelInv
  <2>4. ~(nextSeq' > 0)
    BY <1>1
  <2>5. turn' = turn /\ how' = how /\ cancelSubj' = cancelSubj
    BY <1>1
  <2> QED BY <2>1, <2>3, <2>4, <2>5 DEF CancelInv
<1> QED BY <1>5, <1>6, <1>7, <1>8, <1>9, <1>10 DEF FlowInv

\* The request cannot be published: one frame, and the turn is over.
LEMMA FlowRefused ==
  ASSUME FlowInv, TypeInv', OpenTurn, handler' # "pump"
  PROVE  FlowInv'
<1> DEFINE frame == [turn |-> turn, type |-> "refused", seq |-> 0]
<1>1. /\ handler = "turn" /\ reqs' = Append(reqs, active) /\ captured' = NoSession
      /\ handler' = "between" /\ screen' = Append(screen, frame)
      /\ how' = [how EXCEPT ![turn] = "open-failed"]
      /\ UNCHANGED <<inbox, nextSeq, cancelSubj, events, subClosed, agent, turn, active, wsUp>>
  BY DEF OpenTurn, browserVars, subVars
<1>2. /\ turn \in Turns /\ active \in 0..Resumed /\ agent \in [Turns -> Runs]
      /\ reqs \in Seq(0..Resumed) /\ Len(reqs) = turn - 1
      /\ screen \in Seq(ScreenFrames) /\ how \in [Turns -> Reasons] /\ frame \in ScreenFrames
  BY <1>1 DEF FlowInv, TypeInv, ReqsInv, ScreenFrames, Kinds
<1>3. /\ Len(reqs') = turn /\ reqs'[turn] = active
      /\ \A t \in 1..(turn - 1) : reqs'[t] = reqs[t]
      /\ DOMAIN reqs = 1..(turn - 1) /\ DOMAIN reqs' = 1..turn
  BY <1>1, <1>2, BridgeBounds, SeqFacts DEF Turns
<1>4. /\ \A i \in DOMAIN screen : screen'[i] = screen[i] /\ screen[i].turn \in Turns
      /\ \A i \in DOMAIN screen' : i \in DOMAIN screen \/ screen'[i] = frame
  <2>1. /\ Len(screen') = Len(screen) + 1 /\ screen'[Len(screen) + 1] = frame
        /\ \A i \in 1..Len(screen) : screen'[i] = screen[i]
        /\ DOMAIN screen = 1..Len(screen) /\ Len(screen) \in Nat
        /\ \A i \in DOMAIN screen : screen[i] \in ScreenFrames
    BY <1>1, <1>2, SeqFacts
  <2>2. DOMAIN screen' = 1..(Len(screen) + 1)
    BY <2>1, <1>1, <1>2
  <2> QED BY <2>1, <2>2 DEF ScreenFrames
<1>5. frame.turn = turn /\ frame.type = "refused"
  OBVIOUS
<1> HIDE DEF frame
<1>6. ReqsInv' /\ InboxInv' /\ AgentInv'
  <2>1. AgentInv'
    <3>1. \A t \in Turns : t <= turn - 1 => t <= turn /\ reqs'[t] = reqs[t]
      BY <1>2, <1>3, BridgeBounds DEF Turns
    <3>2. \A t \in Turns : agent[t].st # "none" => t <= turn - 1
      BY <1>2 DEF FlowInv, AgentInv
    <3> QED BY <1>1, <1>3, <3>1, <3>2 DEF FlowInv, AgentInv, Started
  <2> QED BY <1>1, <1>3, <2>1 DEF FlowInv, ReqsInv, InboxInv
<1>7. SessionInv'
  <2>1. \A t \in DOMAIN reqs' : reqs'[1] # NoSession => active = reqs'[1] /\ reqs'[t] = reqs'[1]
    <3>1. CASE turn = 1
      BY <1>3, <3>1
    <3>2. CASE turn # 1
      <4>1. turn > 1 /\ turn \in Nat
        BY <1>2, <3>2, BridgeBounds DEF Turns
      <4>2. 1 \in DOMAIN reqs /\ reqs'[1] = reqs[1]
        BY <1>3, <4>1
      <4>3. \A t \in DOMAIN reqs' : t \in DOMAIN reqs \/ t = turn
        BY <1>3, <4>1
      <4> QED BY <1>3, <4>2, <4>3 DEF FlowInv, SessionInv
    <3> QED BY <3>1, <3>2
  <2>2. ASSUME NEW i \in DOMAIN screen', screen'[i].type = "start"
        PROVE  /\ agent[screen'[i].turn].st \in Started
               /\ active = agent[screen'[i].turn].sess
               /\ \A t \in (screen'[i].turn + 1)..Len(reqs') : reqs'[t] = agent[screen'[i].turn].sess
    <3>1. i \in DOMAIN screen /\ screen'[i] = screen[i] /\ screen[i].turn \in Turns
      BY <1>4, <1>5, <2>2
    <3>2. /\ agent[screen[i].turn].st \in Started
          /\ active = agent[screen[i].turn].sess
          /\ \A t \in (screen[i].turn + 1)..Len(reqs) : reqs[t] = agent[screen[i].turn].sess
      BY <1>1, <2>2, <3>1 DEF FlowInv, SessionInv
    <3> QED BY <1>2, <1>3, <3>1, <3>2, BridgeBounds DEF Turns
  <2> QED BY <1>1, <2>1, <2>2 DEF SessionInv
<1>8. ScreenInv'
  BY <1>1, <1>2, <1>4, <1>5, BridgeBounds DEF FlowInv, ScreenInv, Over, Turns
<1>9. CancelInv'
  <2>1. \A t \in Turns : how[t] # "" => t < turn
    BY <1>1 DEF FlowInv, CancelInv, Over
  <2>2. \A t \in Turns : how'[t] # "" => t < turn \/ t = turn
    BY <1>1, <1>2, <2>1
  <2>3. ASSUME NEW t \in cancelSubj
        PROVE  /\ t < turn /\ agent[t].st \notin {"none", "requested"}
               /\ how'[t] \notin {"", "eof"} => agent[t].cancel \/ agent[t].st # "running"
    <3>1. t \in Turns /\ t < turn
      BY <1>1 DEF FlowInv, TypeInv, CancelInv
    <3>2. t # turn /\ how'[t] = how[t]
      BY <1>1, <1>2, <3>1, BridgeBounds DEF Turns
    <3> QED BY <2>3, <3>1, <3>2 DEF FlowInv, CancelInv
  <2> QED BY <1>1, <2>2, <2>3 DEF CancelInv, Over
<1> QED BY <1>6, <1>7, <1>8, <1>9 DEF FlowInv

\* The client's callback: the next event of the turn, or one out of sequence.
LEMMA FlowMessage ==
  ASSUME FlowInv, TypeInv', OnMessage
  PROVE  FlowInv'
<1> DEFINE m == Head(inbox)
           ev == [m EXCEPT !.seq = ParsedSeq(m)]
<1>1. /\ ~subClosed /\ inbox # << >> /\ inbox' = Tail(inbox)
      /\ UNCHANGED <<screen, handler, turn, active, captured, reqs, how, agent, wsUp>>
  BY DEF OnMessage, loopVars, browserVars
<1>2. handler = "pump" /\ inbox \in Seq(Messages) /\ events \in Seq(Messages) /\ nextSeq \in Nat
  BY <1>1 DEF FlowInv, InboxInv, TypeInv
<1>3. /\ m \in Messages /\ m = inbox[1] /\ 1 \in DOMAIN inbox
      /\ \A i \in DOMAIN inbox' : i + 1 \in DOMAIN inbox /\ inbox'[i] = inbox[i + 1]
  <2>1. /\ m \in Messages /\ m = inbox[1] /\ 1 \in DOMAIN inbox
        /\ Tail(inbox) \in Seq(Messages) /\ Len(Tail(inbox)) = Len(inbox) - 1
        /\ \A i \in 1..(Len(inbox) - 1) : Tail(inbox)[i] = inbox[i + 1]
    BY <1>1, <1>2, TailFacts
  <2>2. DOMAIN inbox = 1..Len(inbox) /\ DOMAIN Tail(inbox) = 1..(Len(inbox) - 1) /\ Len(inbox) \in Nat
    BY <1>2, <2>1
  <2> QED BY <1>1, <2>1, <2>2
<1>4. /\ Fits(m) /\ (m.type \in {"data", "complete"} => m.seq > 0)
      /\ \A i \in DOMAIN inbox' :
           Fits(inbox'[i]) /\ (inbox'[i].type \in {"data", "complete"} => inbox'[i].seq > 0)
  BY <1>3 DEF FlowInv, InboxInv
<1>5. ReqsInv' /\ AgentInv' /\ SessionInv'
  <2>1. ReqsInv' /\ AgentInv'
    BY <1>1 DEF FlowInv, ReqsInv, AgentInv
  <2>2. SessionInv'
    BY <1>1 DEF FlowInv, SessionInv
  <2> QED BY <2>1, <2>2
<1>6. CASE UNCHANGED <<nextSeq, cancelSubj, events, subClosed>>
  <2>1. InboxInv'
    BY <1>1, <1>2, <1>4, <1>6 DEF FlowInv, InboxInv, Fits
  <2>2. ScreenInv'
    BY <1>1, <1>6 DEF FlowInv, ScreenInv
  <2>3. CancelInv'
    BY <1>1, <1>6 DEF FlowInv, CancelInv
  <2> QED BY <1>5, <2>1, <2>2, <2>3 DEF FlowInv
<1>7. CASE /\ ParsedSeq(m) = nextSeq
           /\ nextSeq' = nextSeq + 1
           /\ cancelSubj' = IF m.type = "start" THEN cancelSubj \cup {turn} ELSE cancelSubj
           /\ events' = Append(events, ev)
  <2>1. /\ ev \in Messages /\ ev.turn = m.turn /\ ev.type = m.type
        /\ ev.seq = nextSeq /\ ev.sess = m.sess
    <3>1. ev = [turn |-> m.turn, type |-> m.type, seq |-> ParsedSeq(m), sess |-> m.sess] /\ ev \in Messages
      BY <1>3, ParsedMessage
    <3> HIDE DEF ev, m
    <3> QED BY <1>7, <3>1
  <2>2. Fits(ev)
    BY <1>4, <2>1 DEF Fits
  <2>3. nextSeq = 0 => m.type = "start" \/ agent[turn].st # "running"
    <3>1. m.type \in Kinds /\ m.seq \in Nat
      BY <1>3 DEF Messages
    <3> HIDE DEF m
    <3> QED BY <1>4, <1>7, <3>1 DEF ParsedSeq, Fits, Terminal, Kinds
  <2> HIDE DEF ev, m
  <2>4. /\ Len(events') = Len(events) + 1 /\ Len(events) \in Nat
        /\ DOMAIN events = 1..Len(events) /\ DOMAIN events' = 1..(Len(events) + 1)
        /\ events'[Len(events) + 1] = ev
        /\ \A i \in 1..Len(events) : events'[i] = events[i]
    <3>1. /\ Append(events, ev) \in Seq(Messages) /\ Len(Append(events, ev)) = Len(events) + 1
          /\ Append(events, ev)[Len(events) + 1] = ev
          /\ \A i \in 1..Len(events) : Append(events, ev)[i] = events[i]
          /\ DOMAIN events = 1..Len(events) /\ Len(events) \in Nat
      BY <1>2, <2>1, SeqFacts
    <3>2. DOMAIN Append(events, ev) = 1..Len(Append(events, ev))
      BY <3>1
    <3> QED BY <1>7, <3>1, <3>2
  <2>5. InboxInv'
    <3>1. \A i \in DOMAIN events' : Fits(events'[i])
      BY <2>2, <2>4 DEF FlowInv, InboxInv
    <3> QED BY <1>1, <1>2, <1>4, <3>1 DEF InboxInv, Fits
  <2>6. ScreenInv'
    <3>1. \A i \in DOMAIN events' : events'[i].seq = nextSeq' - Len(events') + i - 1
      <4>1. \A i \in 1..Len(events) : events[i].seq = nextSeq - Len(events) + i - 1
        BY <1>2, <2>4 DEF FlowInv, ScreenInv
      <4>2. ASSUME NEW i \in 1..Len(events)
            PROVE  events'[i].seq = nextSeq' - Len(events') + i - 1
        BY <1>2, <1>7, <2>4, <4>1
      <4>3. events'[Len(events) + 1].seq = nextSeq' - Len(events') + (Len(events) + 1) - 1
        BY <1>2, <1>7, <2>1, <2>4
      <4>4. \A i \in DOMAIN events' : i \in 1..Len(events) \/ i = Len(events) + 1
        BY <2>4
      <4> QED BY <4>2, <4>3, <4>4
    <3>2. nextSeq' - Len(events') = nextSeq - Len(events) /\ (nextSeq' > Len(events') <=> nextSeq > Len(events))
      BY <1>2, <1>7, <2>4
    <3>3. nextSeq' >= Len(events')
      BY <1>2, <1>7, <2>4 DEF FlowInv, ScreenInv
    <3> QED BY <1>1, <1>2, <3>1, <3>2, <3>3 DEF FlowInv, ScreenInv
  <2>7. CancelInv'
    <3>1. /\ agent[turn].st \notin {"none", "requested"}
          /\ turn \in cancelSubj' \/ agent[turn].st # "running"
      <4>1. CASE nextSeq = 0
        BY <1>4, <1>7, <2>3, <4>1 DEF Fits
      <4>2. CASE nextSeq > 0
        BY <1>2, <1>4, <1>7, <4>2 DEF FlowInv, CancelInv, Fits
      <4> QED BY <1>2, <4>1, <4>2
    <3>2. how[turn] = ""
      <4>1. turn \in Turns /\ ~(turn < turn)
        BY BridgeBounds DEF FlowInv, TypeInv, Turns
      <4>2. how[turn] # "" => turn < turn \/ handler \in Over
        BY <4>1 DEF FlowInv, CancelInv
      <4> QED BY <1>2, <4>1, <4>2 DEF Over
    <3>3. cancelSubj' = cancelSubj \/ cancelSubj' = cancelSubj \cup {turn}
      BY <1>7
    <3>4. ASSUME NEW t \in cancelSubj'
          PROVE  /\ t < turn \/ t = turn
                 /\ agent[t].st \notin {"none", "requested"}
                 /\ how[t] \notin {"", "eof"} => agent[t].cancel \/ agent[t].st # "running"
      <4>1. CASE t \in cancelSubj
        BY <4>1 DEF FlowInv, CancelInv
      <4>2. CASE t = turn
        BY <3>2, <3>1, <4>2
      <4>3. t \in cancelSubj \/ t = turn
        BY <3>3
      <4> QED BY <4>1, <4>2, <4>3
    <3>5. handler' = handler /\ turn' = turn /\ how' = how /\ agent' = agent /\ handler # "turn"
      BY <1>1, <1>2
    <3>6. \A t \in Turns : how[t] # "" => t < turn \/ (t = turn /\ handler \in Over)
      BY DEF FlowInv, CancelInv
    <3> QED BY <3>1, <3>4, <3>5, <3>6 DEF CancelInv
  <2> QED BY <1>5, <2>5, <2>6, <2>7 DEF FlowInv
<1> QED BY <1>6, <1>7 DEF OnMessage, subVars

\* What leaving a turn does to the session, the screen and its run.
LEMMA FlowLeaves ==
  ASSUME FlowInv, TypeInv', handler = "pump", NEW reason \in Reasons, Leave(reason),
         UNCHANGED <<turn, reqs>>,
         \A u \in Turns : /\ agent'[u].st = agent[u].st /\ agent'[u].seq = agent[u].seq
                          /\ agent'[u].sess = agent[u].sess
                          /\ agent[u].cancel => agent'[u].cancel,
         captured' = captured \/ (agent[turn].st \in Started /\ captured' = agent[turn].sess),
         \A i \in DOMAIN screen : i \in DOMAIN screen' /\ screen'[i] = screen[i],
         \A i \in DOMAIN screen' : i \in DOMAIN screen \/
            (screen'[i].turn = turn /\ screen'[i].type # "start"),
         reason # "eof" => \/ turn \in cancelSubj => agent'[turn].cancel
                           \/ agent[turn].st # "running"
  PROVE  FlowInv'
<1>1. /\ handler' \in Over /\ handler' # "pump" /\ handler' # "turn"
      /\ inbox' = << >> /\ events' = << >> /\ subClosed' = TRUE /\ nextSeq' = 0
      /\ how' = [how EXCEPT ![turn] = reason] /\ cancelSubj' = cancelSubj
      /\ active' = IF captured' # NoSession THEN captured' ELSE active
  BY DEF Leave, Unsubscribed, Over
<1>2. /\ turn \in Turns /\ how \in [Turns -> Reasons] /\ Len(reqs) = turn
      /\ \A i \in DOMAIN screen : screen[i].turn \in Turns
      /\ \A i \in DOMAIN screen' : screen'[i].turn \in Turns
      /\ DOMAIN reqs = 1..turn
  <2>1. turn \in Turns /\ how \in [Turns -> Reasons] /\ Len(reqs) = turn /\ reqs \in Seq(0..Resumed)
    BY DEF FlowInv, TypeInv, ReqsInv
  <2>2. \A q \in Seq(ScreenFrames) : \A i \in DOMAIN q : q[i].turn \in Turns
    BY FrameFacts
  <2>3. screen \in Seq(ScreenFrames) /\ screen' \in Seq(ScreenFrames)
    BY DEF FlowInv, TypeInv
  <2> QED BY <2>1, <2>2, <2>3
<1>3. ReqsInv'
  BY <1>1, <1>2 DEF ReqsInv
<1>4. InboxInv'
  BY <1>1 DEF InboxInv
<1>5. AgentInv'
  BY DEF FlowInv, AgentInv
<1>6. captured' # NoSession => agent[turn].st \in Started /\ captured' = agent[turn].sess
  BY DEF FlowInv, SessionInv
<1>7. reqs[turn] = active /\ agent[turn].st \in Started =>
        agent[turn].sess # NoSession /\ (active # NoSession => agent[turn].sess = active)
  BY <1>2 DEF FlowInv, AgentInv
<1>8. active # NoSession => active' = active
  BY <1>1, <1>6, <1>7 DEF FlowInv, SessionInv
<1>9. SessionInv'
  <2>1. \A t \in DOMAIN reqs' : reqs'[1] # NoSession => active' = reqs'[1] /\ reqs'[t] = reqs'[1]
    BY <1>8 DEF FlowInv, SessionInv
  <2>2. ASSUME NEW i \in DOMAIN screen', screen'[i].type = "start"
        PROVE  /\ agent'[screen'[i].turn].st \in Started
               /\ active' = agent'[screen'[i].turn].sess
               /\ \A t \in (screen'[i].turn + 1)..Len(reqs') : reqs'[t] = agent'[screen'[i].turn].sess
    <3>1. i \in DOMAIN screen /\ screen'[i] = screen[i] /\ screen[i].turn \in Turns
      BY <1>2, <2>2
    <3> DEFINE u == screen[i].turn
    <3>2. /\ agent[u].st \in Started /\ agent[u].sess # NoSession
          /\ \A t \in (u + 1)..Len(reqs) : reqs[t] = agent[u].sess
          /\ u = turn => captured = agent[u].sess
          /\ u < turn => active = agent[u].sess
          /\ u <= turn
      BY <2>2, <3>1 DEF FlowInv, SessionInv, AgentInv, ScreenInv
    <3>3. agent'[u].st = agent[u].st /\ agent'[u].sess = agent[u].sess
      BY <3>1
    <3>4. active' = agent[u].sess
      <4>1. CASE u = turn
        <5>1. captured' = agent[u].sess
          BY <3>2, <4>1
        <5> QED BY <1>1, <3>2, <5>1
      <4>2. CASE u < turn
        BY <1>8, <3>2, <4>2
      <4> QED BY <1>2, <3>1, <3>2, <4>1, <4>2, BridgeBounds DEF Turns
    <3> QED BY <3>1, <3>2, <3>3, <3>4
  <2> QED BY <1>1, <2>1, <2>2 DEF SessionInv
<1>10. ScreenInv'
  <2>1. \A i \in DOMAIN screen' : screen'[i].turn <= turn
    BY <1>2, BridgeBounds DEF FlowInv, ScreenInv, Turns
  <2> QED BY <1>1, <2>1 DEF ScreenInv
<1>11. CancelInv'
  <2>1. \A t \in Turns : how[t] # "" => t < turn
    BY DEF FlowInv, CancelInv, Over
  <2>2. \A t \in Turns : how'[t] # "" => t < turn \/ t = turn
    BY <1>1, <1>2, <2>1
  <2>3. ASSUME NEW t \in cancelSubj
        PROVE  /\ t < turn \/ t = turn
               /\ agent'[t].st \notin {"none", "requested"}
               /\ how'[t] \notin {"", "eof"} => agent'[t].cancel \/ agent'[t].st # "running"
    <3>1. t \in Turns /\ (t < turn \/ t = turn) /\ agent[t].st \notin {"none", "requested"}
      BY DEF FlowInv, TypeInv, CancelInv
    <3>2. agent'[t].st = agent[t].st /\ (agent[t].cancel => agent'[t].cancel)
      BY <3>1
    <3>3. CASE t # turn
      <4>1. how[t] = how'[t]
        BY <1>1, <1>2, <3>1, <3>3
      <4>2. how[t] \notin {"", "eof"} => agent[t].cancel \/ agent[t].st # "running"
        BY <2>3 DEF FlowInv, CancelInv
      <4> QED BY <3>1, <3>2, <4>1, <4>2
    <3>4. CASE t = turn
      <4>1. how'[t] = reason
        BY <1>1, <1>2, <3>4
      <4> QED BY <2>3, <3>1, <3>2, <3>4, <4>1
    <3> QED BY <3>3, <3>4
  <2> QED BY <1>1, <2>2, <2>3 DEF CancelInv
<1> QED BY <1>3, <1>4, <1>5, <1>9, <1>10, <1>11 DEF FlowInv

\* The frames written for an event: its own, and one more after a denial.
LEMMA WrittenFrames ==
  ASSUME NEW q \in Seq(ScreenFrames), NEW e \in Messages
  PROVE  LET s == q \o Written(e)
             f == [turn |-> e.turn, type |-> e.type, seq |-> e.seq] IN
         /\ s \in Seq(ScreenFrames) /\ f \in ScreenFrames
         /\ Len(s) = Len(q) + (IF e.type = "denied" THEN 2 ELSE 1)
         /\ s[Len(q) + 1] = f
         /\ e.type = "denied" => s[Len(q) + 2] = [turn |-> e.turn, type |-> "expired", seq |-> 0]
         /\ \A i \in 1..Len(q) : s[i] = q[i]
<1> DEFINE f == [turn |-> e.turn, type |-> e.type, seq |-> e.seq]
           x == [turn |-> e.turn, type |-> "expired", seq |-> 0]
<1>1. f \in ScreenFrames /\ x \in ScreenFrames
  BY DEF Messages, ScreenFrames
<1> HIDE DEF f, x
<1>2. ASSUME NEW w \in Seq(ScreenFrames)
      PROVE  /\ q \o w \in Seq(ScreenFrames) /\ Len(q \o w) = Len(q) + Len(w)
             /\ \A i \in 1..Len(q) : (q \o w)[i] = q[i]
             /\ \A i \in 1..Len(w) : (q \o w)[Len(q) + i] = w[i]
  OBVIOUS
<1>3. CASE e.type = "denied"
  <2>1. Written(e) = <<f, x>>
    <3>1. <<f>> \o <<x>> = <<f, x>>
      BY <1>1, PairConcat
    <3> QED BY <1>3, <3>1 DEF Written, f, x
  <2>2. <<f, x>> \in Seq(ScreenFrames) /\ Len(<<f, x>>) = 2 /\ <<f, x>>[1] = f /\ <<f, x>>[2] = x
    BY <1>1
  <2> QED BY <1>1, <1>2, <1>3, <2>1, <2>2 DEF f, x
<1>4. CASE e.type # "denied"
  <2>1. Written(e) = <<f>>
    BY <1>1, <1>4 DEF Written, f
  <2>2. <<f>> \in Seq(ScreenFrames) /\ Len(<<f>>) = 1 /\ <<f>>[1] = f
    BY <1>1
  <2> QED BY <1>1, <1>2, <1>4, <2>1, <2>2 DEF f
<1> QED BY <1>3, <1>4

\* An event that does not end the turn: the next frame on the screen.
LEMMA FlowShows ==
  ASSUME FlowInv, TypeInv', PumpEvent, Head(events).type \notin Terminal, handler' = "pump"
  PROVE  FlowInv'
<1> DEFINE e == Head(events)
           f == [turn |-> e.turn, type |-> e.type, seq |-> e.seq]
<1>1. /\ handler = "pump" /\ events # << >>
      /\ captured' = IF e.type = "start" THEN e.sess ELSE captured
      /\ screen' = screen \o (IF wsUp THEN Written(e) ELSE << >>)
      /\ events' = Tail(events)
      /\ UNCHANGED <<handler, turn, active, reqs, how, inbox, nextSeq, cancelSubj, subClosed, agent, wsUp>>
  BY DEF PumpEvent, browserVars, Leave
<1>2. /\ screen \in Seq(ScreenFrames) /\ events \in Seq(Messages) /\ nextSeq \in Nat
      /\ turn \in Turns /\ Len(reqs) = turn
  BY <1>1 DEF FlowInv, TypeInv, ReqsInv
<1>3. /\ e \in Messages /\ e = events[1] /\ 1 \in DOMAIN events
      /\ Len(events') = Len(events) - 1 /\ Len(events) \in Nat /\ Len(events) > 0
      /\ DOMAIN events = 1..Len(events) /\ DOMAIN events' = 1..(Len(events) - 1)
      /\ \A i \in 1..(Len(events) - 1) : events'[i] = events[i + 1]
  <2>1. /\ e \in Messages /\ e = events[1] /\ 1 \in DOMAIN events
        /\ Tail(events) \in Seq(Messages) /\ Len(Tail(events)) = Len(events) - 1
        /\ \A i \in 1..(Len(events) - 1) : Tail(events)[i] = events[i + 1]
    BY <1>1, <1>2, TailFacts
  <2>2. /\ DOMAIN events = 1..Len(events) /\ DOMAIN Tail(events) = 1..Len(Tail(events))
        /\ Len(events) \in Nat
    BY <1>2, <2>1
  <2> QED BY <1>1, <2>1, <2>2
<1>4. Fits(e) /\ e.seq = nextSeq - Len(events) /\ nextSeq >= Len(events)
  <2>1. Fits(e)
    BY <1>3 DEF FlowInv, InboxInv
  <2>2. events[1].seq = nextSeq - Len(events) + 1 - 1 /\ nextSeq >= Len(events)
    BY <1>1, <1>3 DEF FlowInv, ScreenInv
  <2> HIDE DEF e
  <2> QED BY <1>2, <1>3, <2>1, <2>2
<1>5. e.turn = turn /\ e.type \in Kinds /\ e.type # "denied" /\ e.type \notin Terminal
  BY <1>3, <1>4 DEF Fits, Messages, Terminal
<1>6. /\ Len(screen) \in Nat /\ DOMAIN screen = 1..Len(screen)
      /\ \A i \in DOMAIN screen : i \in DOMAIN screen' /\ screen'[i] = screen[i]
      /\ \A i \in DOMAIN screen' : i \in DOMAIN screen \/ (wsUp /\ screen'[i] = f)
      /\ wsUp => screen' # << >> /\ screen'[Len(screen')] = f
      /\ ~wsUp => screen' = screen
  <2>1. Len(screen) \in Nat /\ DOMAIN screen = 1..Len(screen)
    BY <1>2
  <2>2. CASE wsUp
    <3> HIDE DEF e
    <3>1. /\ screen' \in Seq(ScreenFrames) /\ Len(screen') = Len(screen) + 1
          /\ screen'[Len(screen) + 1] = f
          /\ \A i \in 1..Len(screen) : screen'[i] = screen[i]
      BY <1>1, <1>2, <1>3, <1>5, <2>2, WrittenFrames
    <3>2. DOMAIN screen' = 1..(Len(screen) + 1) /\ screen' # << >>
      BY <2>1, <3>1
    <3> HIDE DEF f
    <3> QED BY <2>1, <2>2, <3>1, <3>2
  <2>3. CASE ~wsUp
    <3>1. screen' = screen
      BY <1>1, <1>2, <2>3
    <3> QED BY <2>1, <2>3, <3>1
  <2> QED BY <2>2, <2>3
<1>7. f.turn = turn /\ f.type = e.type /\ f.seq = nextSeq - Len(events)
  BY <1>4, <1>5
<1> HIDE DEF f
<1>8. ReqsInv' /\ AgentInv'
  BY <1>1 DEF FlowInv, ReqsInv, AgentInv
<1>9. InboxInv'
  <2>1. \A i \in DOMAIN events' : Fits(events'[i])
    BY <1>3 DEF FlowInv, InboxInv
  <2> QED BY <1>1, <2>1 DEF FlowInv, InboxInv, Fits
<1>10. SessionInv'
  <2>1. captured' = captured \/ captured' = agent[turn].sess
    BY <1>1, <1>4 DEF Fits
  <2>2. e.type = "start" => agent[turn].st \in Started /\ captured' = agent[turn].sess
    BY <1>1, <1>4 DEF Fits
  <2>3. captured' # NoSession => agent[turn].st \in Started /\ captured' = agent[turn].sess
    BY <1>1, <2>2 DEF FlowInv, SessionInv
  <2>4. ASSUME NEW i \in DOMAIN screen', screen'[i].type = "start"
        PROVE  /\ agent[screen'[i].turn].st \in Started
               /\ screen'[i].turn = turn => captured' = agent[screen'[i].turn].sess
               /\ screen'[i].turn < turn => active = agent[screen'[i].turn].sess
               /\ \A t \in (screen'[i].turn + 1)..Len(reqs) : reqs[t] = agent[screen'[i].turn].sess
    <3>1. CASE i \in DOMAIN screen
      <4>1. screen'[i] = screen[i] /\ screen[i].type = "start"
        BY <1>6, <2>4, <3>1
      <4>2. /\ agent[screen[i].turn].st \in Started
            /\ screen[i].turn = turn => captured = agent[screen[i].turn].sess
            /\ screen[i].turn < turn => active = agent[screen[i].turn].sess
            /\ \A t \in (screen[i].turn + 1)..Len(reqs) : reqs[t] = agent[screen[i].turn].sess
        BY <1>1, <3>1, <4>1 DEF FlowInv, SessionInv
      <4> QED BY <2>1, <4>1, <4>2
    <3>2. CASE screen'[i] = f
      BY <1>2, <1>7, <2>2, <2>4, <3>2, BridgeBounds DEF Turns
    <3> QED BY <1>6, <3>1, <3>2
  <2> QED BY <1>1, <2>3, <2>4 DEF FlowInv, SessionInv
<1>11. ScreenInv'
  <2>1. nextSeq > Len(events') /\ nextSeq - Len(events') - 1 = nextSeq - Len(events)
    BY <1>2, <1>3, <1>4
  <2>2. \A i \in DOMAIN events' : events'[i].seq = nextSeq - Len(events') + i - 1
    <3>1. \A i \in DOMAIN events' : i + 1 \in DOMAIN events /\ events'[i] = events[i + 1]
      BY <1>3
    <3>2. \A i \in DOMAIN events : events[i].seq = nextSeq - Len(events) + i - 1
      BY <1>1 DEF FlowInv, ScreenInv
    <3> QED BY <1>2, <1>3, <3>1, <3>2
  <2>3. \A i \in DOMAIN screen' :
          /\ screen'[i].turn <= turn
          /\ ~(screen'[i].turn = turn /\ screen'[i].type \in Terminal)
    <3>1. ASSUME NEW i \in DOMAIN screen' 
          PROVE  screen'[i].turn <= turn /\ ~(screen'[i].turn = turn /\ screen'[i].type \in Terminal)
      <4>1. CASE i \in DOMAIN screen
        BY <1>1, <1>6, <4>1 DEF FlowInv, ScreenInv, Over
      <4>2. CASE screen'[i] = f
        BY <1>2, <1>5, <1>7, <4>2, BridgeBounds DEF Turns
      <4> QED BY <1>6, <4>1, <4>2
    <3> QED BY <3>1
  <2>4. wsUp => /\ screen' # << >>
                /\ screen'[Len(screen')].turn = turn
                /\ screen'[Len(screen')].seq = nextSeq - Len(events') - 1
                /\ screen'[Len(screen')].type \notin Terminal \cup {"expired"}
    BY <1>5, <1>6, <1>7, <2>1 DEF Kinds
  <2>5. nextSeq >= Len(events')
    BY <1>2, <1>3, <2>1
  <2> QED BY <1>1, <2>1, <2>2, <2>3, <2>4, <2>5 DEF ScreenInv
<1>12. CancelInv'
  BY <1>1 DEF FlowInv, CancelInv
<1> QED BY <1>8, <1>9, <1>10, <1>11, <1>12 DEF FlowInv

\* Every event of the pump keeps the invariant.
LEMMA FlowEvent ==
  ASSUME FlowInv, TypeInv', PumpEvent
  PROVE  FlowInv'
<1> DEFINE e == Head(events)
<1>1. /\ handler = "pump" /\ events # << >> /\ UNCHANGED <<turn, reqs, wsUp>>
      /\ captured' = IF e.type = "start" THEN e.sess ELSE captured
  BY DEF PumpEvent, browserVars
<1>2. e \in Messages /\ e = events[1] /\ 1 \in DOMAIN events
  <2>1. events \in Seq(Messages)
    BY DEF FlowInv, TypeInv
  <2> QED BY <1>1, <2>1, TailFacts
<1>3. Fits(e)
  BY <1>2 DEF FlowInv, InboxInv
<1>4. captured' = captured \/ (agent[turn].st \in Started /\ captured' = agent[turn].sess)
  BY <1>1, <1>3 DEF Fits
<1>5. screen \in Seq(ScreenFrames)
  BY DEF FlowInv, TypeInv
<1>6. CASE /\ ~wsUp /\ Leave("write-err") /\ CancelUpstream /\ UNCHANGED screen
  <2>1. /\ turn \in cancelSubj => agent'[turn].cancel
        /\ \A u \in Turns : /\ agent'[u].st = agent[u].st /\ agent'[u].seq = agent[u].seq
                            /\ agent'[u].sess = agent[u].sess
                            /\ agent[u].cancel => agent'[u].cancel
    BY <1>6, CancelRun DEF FlowInv
  <2>2. "write-err" \in Reasons
    BY DEF Reasons
  <2> QED BY <1>1, <1>4, <1>6, <2>1, <2>2, FlowLeaves
<1>7. CASE /\ screen' = screen \o (IF wsUp THEN Written(e) ELSE << >>)
           /\ \/ e.type = "denied" /\ Leave("fatal")
              \/ e.type \in Terminal \ {"denied"} /\ Leave("terminal")
           /\ UNCHANGED agent
  <2>1. e.type \in Terminal /\ e.type # "start"
    BY <1>7 DEF Terminal
  <2>2. PICK r \in {"fatal", "terminal"} : Leave(r)
    BY <1>7
  <2>3. /\ \A i \in DOMAIN screen : i \in DOMAIN screen' /\ screen'[i] = screen[i]
        /\ \A i \in DOMAIN screen' : i \in DOMAIN screen \/ (screen'[i].turn = turn /\ screen'[i].type # "start")
    <3>0. Len(screen) \in Nat /\ DOMAIN screen = 1..Len(screen)
      BY <1>5
    <3>1. CASE wsUp
      <4> DEFINE f == [turn |-> e.turn, type |-> e.type, seq |-> e.seq]
                 x == [turn |-> e.turn, type |-> "expired", seq |-> 0]
      <4>1. screen' = screen \o Written(e)
        BY <1>7, <3>1
      <4>2. /\ f.turn = turn /\ f.type # "start" /\ x.turn = turn /\ x.type # "start"
        BY <1>3, <2>1 DEF Fits
      <4> HIDE DEF e
      <4>3. /\ screen' \in Seq(ScreenFrames)
            /\ e.type = "denied" => Len(screen') = Len(screen) + 2
            /\ e.type # "denied" => Len(screen') = Len(screen) + 1
            /\ screen'[Len(screen) + 1] = f
            /\ e.type = "denied" => screen'[Len(screen) + 2] = x
            /\ \A i \in 1..Len(screen) : screen'[i] = screen[i]
        BY <1>2, <1>5, <4>1, WrittenFrames
      <4> HIDE DEF f, x
      <4>4. DOMAIN screen' = 1..Len(screen') /\ Len(screen') \in Nat
        BY <4>3
      <4>5. CASE e.type = "denied"
        BY <3>0, <4>2, <4>3, <4>4, <4>5
      <4>6. CASE e.type # "denied"
        <5>1. DOMAIN screen' = 1..(Len(screen) + 1)
          BY <4>3, <4>4, <4>6
        <5>2. \A i \in 1..(Len(screen) + 1) : i \in 1..Len(screen) \/ i = Len(screen) + 1
          BY <3>0
        <5> QED BY <3>0, <4>2, <4>3, <5>1, <5>2
      <4> QED BY <4>5, <4>6
    <3>2. CASE ~wsUp
      <4>1. screen' = screen
        BY <1>5, <1>7, <3>2
      <4> QED BY <4>1
    <3> QED BY <3>1, <3>2
  <2>4. r \in Reasons /\ agent[turn].st # "running"
    BY <1>3, <2>1 DEF Reasons, Fits
  <2>5. \A u \in Turns : /\ agent'[u].st = agent[u].st /\ agent'[u].seq = agent[u].seq
                         /\ agent'[u].sess = agent[u].sess
                         /\ agent[u].cancel => agent'[u].cancel
    BY <1>7
  <2> HIDE DEF e
  <2> QED BY <1>1, <1>4, <2>2, <2>3, <2>4, <2>5, FlowLeaves
<1>8. CASE /\ e.type \notin Terminal /\ UNCHANGED handler
  BY <1>1, <1>8, FlowShows
<1> QED BY <1>6, <1>7, <1>8 DEF PumpEvent

\* A step of an agent run and the message it sends.
LEMMA FlowRuns ==
  ASSUME FlowInv, TypeInv', NEW t \in Turns, NEW m \in Messages, Deliver(t, m),
         UNCHANGED <<screen, handler, turn, active, captured, reqs, how, nextSeq, cancelSubj,
                     events, subClosed, wsUp>>,
         \A u \in Turns : u # t => agent'[u] = agent[u],
         agent[t].st \in {"requested", "running"},
         agent'[t].st \notin {"none", "requested"}, agent'[t].cancel = agent[t].cancel,
         agent[t].st = "running" => agent'[t].st \in Started /\ agent'[t].sess = agent[t].sess,
         agent'[t].st = "running" => agent'[t].seq > 0,
         agent'[t].st \in Started =>
           agent'[t].sess # NoSession /\ (reqs[t] # NoSession => agent'[t].sess = reqs[t]),
         m.turn = t,
         m.type = "start" => agent'[t].st \in Started /\ m.sess = agent'[t].sess,
         m.type \in Terminal => agent'[t].st # "running",
         m.type \in {"data", "complete"} => m.seq > 0
  PROVE  FlowInv'
<1>1. /\ inbox \in Seq(Messages) /\ events \in Seq(Messages) /\ screen \in Seq(ScreenFrames)
      /\ turn \in Turns /\ reqs \in Seq(0..Resumed)
  BY DEF FlowInv, TypeInv
<1>2. ReqsInv'
  BY DEF FlowInv, ReqsInv
<1>3. AgentInv'
  <2>1. agent[t].st # "none"
    OBVIOUS
  <2>2. t <= Len(reqs)
    BY <2>1 DEF FlowInv, AgentInv
  <2>3. ASSUME NEW u \in Turns
        PROVE  /\ agent'[u].st # "none" => u <= Len(reqs)
               /\ agent'[u].st = "requested" => agent'[u].sess = reqs[u]
               /\ agent'[u].st = "running" => agent'[u].seq > 0
               /\ agent'[u].st \in Started =>
                    agent'[u].sess # NoSession /\ (reqs[u] # NoSession => agent'[u].sess = reqs[u])
    <3>1. CASE u = t
      BY <2>2, <3>1
    <3>2. CASE u # t
      <4>1. agent'[u] = agent[u]
        BY <3>2
      <4> QED BY <4>1 DEF FlowInv, AgentInv
    <3> QED BY <3>1, <3>2
  <2> QED BY <2>3 DEF AgentInv
<1>4. ASSUME NEW x, Fits(x)
      PROVE  Fits(x)'
  <2>1. CASE turn = t
    <3>1. agent[t].st = "running" /\ x.turn = t /\ x.type \notin Terminal
      BY <1>4, <2>1 DEF Fits
    <3>2. x.type = "start" => x.sess = agent[t].sess
      BY <1>4, <2>1 DEF Fits
    <3>3. turn' = t
      BY <2>1
    <3> QED BY <3>1, <3>2, <3>3 DEF Fits
  <2>2. CASE turn # t
    <3>1. agent'[turn] = agent[turn]
      BY <1>1, <2>2
    <3> QED BY <1>4, <3>1 DEF Fits
  <2> QED BY <2>1, <2>2
<1>5. InboxInv'
  <2>1. handler # "pump" => subClosed /\ inbox' = << >> /\ events = << >>
    BY DEF FlowInv, InboxInv, Deliver
  <2>2. \A i \in DOMAIN events : Fits(events[i])'
    BY <1>4 DEF FlowInv, InboxInv
  <2>3. CASE t = turn /\ ~subClosed
    <3>1. /\ inbox' = Append(inbox, m) /\ Len(inbox) \in Nat /\ DOMAIN inbox = 1..Len(inbox)
          /\ Len(inbox') = Len(inbox) + 1 /\ inbox' \in Seq(Messages)
          /\ inbox'[Len(inbox) + 1] = m
          /\ \A i \in 1..Len(inbox) : inbox'[i] = inbox[i]
      BY <1>1, <2>3, SeqFacts DEF Deliver
    <3>2. DOMAIN inbox' = 1..(Len(inbox) + 1)
      BY <3>1
    <3>3. Fits(m)'
      <4>1. turn' = t /\ m.turn = turn'
        BY <2>3
      <4> QED BY <4>1 DEF Fits
    <3>4. ASSUME NEW i \in 1..Len(inbox)
          PROVE  Fits(inbox[i])' /\ (inbox[i].type \in {"data", "complete"} => inbox[i].seq > 0)
      <4>1. Fits(inbox[i]) /\ (inbox[i].type \in {"data", "complete"} => inbox[i].seq > 0)
        BY <3>1 DEF FlowInv, InboxInv
      <4>2. PICK x : x = inbox[i]
        OBVIOUS
      <4> QED BY <1>4, <4>1, <4>2, <3>1 DEF Fits
    <3>5. ASSUME NEW i \in DOMAIN inbox'
          PROVE  Fits(inbox[i])' /\ (inbox'[i].type \in {"data", "complete"} => inbox'[i].seq > 0)
      <4>1. CASE i \in 1..Len(inbox)
        BY <3>1, <3>4, <4>1
      <4>2. CASE i = Len(inbox) + 1
        <5>1. inbox'[i] = m
          BY <3>1, <4>2
        <5> QED BY <3>3, <5>1 DEF Fits
      <4> QED BY <3>1, <3>2, <4>1, <4>2
    <3> QED BY <2>1, <2>2, <3>5 DEF InboxInv
  <2>4. CASE ~(t = turn /\ ~subClosed)
    <3>1. inbox' = inbox
      BY <2>4 DEF Deliver
    <3>2. \A i \in DOMAIN inbox : Fits(inbox[i])'
      BY <1>4, <3>1 DEF FlowInv, InboxInv
    <3> QED BY <2>1, <2>2, <3>1, <3>2 DEF FlowInv, InboxInv
  <2> QED BY <2>3, <2>4
<1>6. \A u \in Turns : agent[u].st \in Started => agent'[u].st \in Started /\ agent'[u].sess = agent[u].sess
  BY DEF Started
<1>7. \A i \in DOMAIN screen : screen[i].turn \in Turns
  BY <1>1, FrameFacts
<1>8. SessionInv'
  <2>1. handler = "pump" /\ captured # NoSession =>
          agent'[turn].st \in Started /\ captured = agent'[turn].sess
    BY <1>1, <1>6 DEF FlowInv, SessionInv
  <2>2. ASSUME NEW i \in DOMAIN screen, screen[i].type = "start"
        PROVE  /\ agent'[screen[i].turn].st \in Started
               /\ agent'[screen[i].turn].sess = agent[screen[i].turn].sess
    BY <1>6, <1>7, <2>2 DEF FlowInv, SessionInv
  <2> QED BY <2>1, <2>2 DEF FlowInv, SessionInv
<1>9. ScreenInv'
  BY DEF FlowInv, ScreenInv
<1>10. CancelInv'
  <2>1. handler = "pump" /\ nextSeq > 0 =>
          agent'[turn].st \notin {"none", "requested"} /\ (turn \in cancelSubj \/ agent'[turn].st # "running")
    <3>1. CASE turn = t
      <4>1. handler = "pump" /\ nextSeq > 0 => agent[t].st = "running" /\ t \in cancelSubj
        BY <3>1 DEF FlowInv, CancelInv
      <4> QED BY <3>1, <4>1
    <3>2. CASE turn # t
      <4>1. agent'[turn] = agent[turn]
        BY <1>1, <3>2
      <4> QED BY <4>1 DEF FlowInv, CancelInv
    <3> QED BY <3>1, <3>2
  <2>2. ASSUME NEW u \in cancelSubj
        PROVE  /\ agent'[u].st \notin {"none", "requested"}
               /\ how[u] \notin {"", "eof"} => agent'[u].cancel \/ agent'[u].st # "running"
    <3>1. CASE u = t
      BY <2>2, <3>1 DEF FlowInv, CancelInv
    <3>2. CASE u # t
      <4>1. agent'[u] = agent[u]
        BY <2>2, <3>2 DEF FlowInv, TypeInv
      <4> QED BY <2>2, <4>1 DEF FlowInv, CancelInv
    <3> QED BY <3>1, <3>2
  <2> QED BY <2>1, <2>2 DEF FlowInv, CancelInv
<1> QED BY <1>2, <1>3, <1>5, <1>8, <1>9, <1>10 DEF FlowInv

\* The next user message opens the next turn.
LEMMA FlowTurns ==
  ASSUME FlowInv, TypeInv', Between, handler' = "turn"
  PROVE  FlowInv'
<1>1. /\ handler = "between" /\ turn' = turn + 1 /\ turn \in Nat
      /\ UNCHANGED <<screen, active, captured, reqs, how, inbox, nextSeq, cancelSubj, events, subClosed, agent, wsUp>>
  BY BridgeBounds DEF Between, browserVars, subVars, FlowInv, TypeInv, Turns
<1>2. screen \in Seq(ScreenFrames) /\ \A i \in DOMAIN screen : screen[i].turn \in Nat
  <2>1. screen \in Seq(ScreenFrames)
    BY DEF FlowInv, TypeInv
  <2> QED BY <2>1, FrameFacts
<1>3. ReqsInv' /\ AgentInv'
  BY <1>1 DEF FlowInv, ReqsInv, AgentInv
<1>4. InboxInv'
  <2>1. subClosed /\ inbox = << >> /\ events = << >>
    BY <1>1 DEF FlowInv, InboxInv
  <2> QED BY <1>1, <2>1 DEF InboxInv
<1>5. SessionInv'
  BY <1>1 DEF FlowInv, SessionInv
<1>6. ScreenInv'
  <2>1. \A i \in DOMAIN screen : screen[i].turn <= turn
    BY DEF FlowInv, ScreenInv
  <2>2. \A i \in DOMAIN screen : screen[i].turn < turn + 1 /\ screen[i].turn <= turn + 1 /\ screen[i].turn # turn + 1
    BY <1>1, <1>2, <2>1
  <2> QED BY <1>1, <2>2 DEF ScreenInv
<1>7. CancelInv'
  <2>1. \A u \in Turns : how[u] # "" => u < turn + 1
    <3>1. \A u \in Turns : how[u] # "" => u < turn \/ u = turn
      BY DEF FlowInv, CancelInv
    <3>2. \A u \in Turns : u < turn \/ u = turn => u < turn + 1
      BY <1>1, BridgeBounds DEF Turns
    <3> QED BY <3>1, <3>2
  <2>2. \A u \in cancelSubj : u < turn + 1
    <3>1. \A u \in cancelSubj : u \in Turns /\ (u < turn \/ u = turn)
      BY DEF FlowInv, TypeInv, CancelInv
    <3> QED BY <1>1, <3>1, BridgeBounds DEF Turns
  <2> QED BY <1>1, <2>1, <2>2 DEF FlowInv, CancelInv
<1> QED BY <1>3, <1>4, <1>5, <1>6, <1>7 DEF FlowInv

\* The socket closed between two turns.
LEMMA FlowReturns ==
  ASSUME FlowInv, TypeInv', Between, handler' = "returned"
  PROVE  FlowInv'
<1>1. /\ handler = "between"
      /\ UNCHANGED <<turn, screen, active, captured, reqs, how, inbox, nextSeq, cancelSubj, events, subClosed, agent, wsUp>>
  BY DEF Between, browserVars, subVars
<1>2. ReqsInv' /\ AgentInv'
  BY <1>1 DEF FlowInv, ReqsInv, AgentInv
<1>3. InboxInv'
  BY <1>1 DEF FlowInv, InboxInv, Fits
<1>4. SessionInv'
  BY <1>1 DEF FlowInv, SessionInv
<1>5. ScreenInv'
  BY <1>1 DEF FlowInv, ScreenInv, Over
<1>6. CancelInv'
  BY <1>1 DEF FlowInv, CancelInv, Over
<1> QED BY <1>2, <1>3, <1>4, <1>5, <1>6 DEF FlowInv

\* The invariant holds at first.
LEMMA FlowInit == Init => FlowInv
<1> SUFFICES ASSUME Init PROVE FlowInv
  OBVIOUS
<1> USE BridgeBounds
<1>0. up = << >> /\ cq = << >> /\ reqs = << >> /\ inbox = << >> /\ events = << >> /\ screen = << >>
  BY DEF Init
<1>1. /\ up \in Seq(Frames) /\ cq \in Seq(Frames) /\ reqs \in Seq(0..Resumed)
      /\ inbox \in Seq(Messages) /\ events \in Seq(Messages) /\ screen \in Seq(ScreenFrames)
  <2>1. \A S : << >> \in Seq(S)
    OBVIOUS
  <2> QED BY <1>0, <2>1
<1>2. active \in 0..Resumed /\ captured \in 0..Resumed /\ 1 \in Turns
  <2>1. NoSession \in 0..Resumed /\ Resumed \in 0..Resumed /\ 1 \in Turns
    BY DEF NoSession, Resumed, Turns
  <2> QED BY <2>1 DEF Init
<1>3. agent \in [Turns -> Runs] /\ \A t \in Turns : agent[t].st = "none"
  <2> DEFINE none == [st |-> "none", seq |-> 0, sess |-> NoSession, cancel |-> FALSE, start |-> FALSE]
  <2>1. agent = [t \in Turns |-> none]
    BY DEF Init
  <2>2. none \in Runs /\ none.st = "none"
    BY DEF Runs, NoSession, Resumed
  <2> HIDE DEF none
  <2> QED BY <2>1, <2>2
<1>4. how \in [Turns -> Reasons] /\ \A t \in Turns : how[t] = ""
  BY DEF Init, Reasons
<1>5. TypeInv
  BY <1>1, <1>2, <1>3, <1>4 DEF Init, TypeInv, Frames
<1>6. DOMAIN screen = {} /\ Len(reqs) = 0 /\ DOMAIN reqs = {} /\ DOMAIN inbox = {} /\ DOMAIN events = {}
  BY <1>0
<1>7. handler = "turn" /\ turn = 1 /\ subClosed /\ inbox = << >> /\ events = << >>
  BY DEF Init
<1>8. ReqsInv /\ InboxInv /\ ScreenInv
  BY <1>6, <1>7 DEF ReqsInv, InboxInv, ScreenInv
<1>9. AgentInv /\ CancelInv
  <2>1. cancelSubj = {}
    BY DEF Init
  <2> QED BY <1>3, <1>4, <1>7, <2>1 DEF AgentInv, CancelInv, Started
<1>10. SessionInv
  BY <1>6, <1>7 DEF SessionInv
<1> QED BY <1>5, <1>8, <1>9, <1>10 DEF FlowInv

\* And every step keeps it.
LEMMA FlowStep == FlowInv /\ [Next]_vars => FlowInv'
<1> SUFFICES ASSUME FlowInv, [Next]_vars PROVE FlowInv'
  OBVIOUS
<1>0. TypeInv /\ TypeInv'
  BY TypeStep DEF FlowInv
<1>1. ASSUME NEW f \in Frames, BrowserSends(f) PROVE FlowInv'
  BY <1>0, <1>1, FlowQuiet DEF BrowserSends, loopVars, subVars
<1>2. CASE BrowserLeaves
  BY <1>0, <1>2, FlowQuiet DEF BrowserLeaves, loopVars, subVars
<1>3. CASE ReaderReads
  BY <1>0, <1>3, FlowQuiet DEF ReaderReads, loopVars, subVars
<1>4. CASE ReaderSends
  BY <1>0, <1>4, FlowQuiet DEF ReaderSends, browserVars, loopVars, subVars
<1>5. CASE OpenTurn
  BY <1>0, <1>5, FlowOpens, FlowRefused
<1>6. CASE OnMessage
  BY <1>0, <1>6, FlowMessage
<1>7. CASE StreamTimeout
  BY <1>0, <1>7, FlowQuiet DEF StreamTimeout, browserVars, loopVars
<1>8. ASSUME handler = "pump", NEW reason \in {"closed", "write-err", "cancel"},
             Leave(reason), CancelUpstream, UNCHANGED <<captured, screen, turn, reqs>>
      PROVE  FlowInv'
  <2>1. /\ turn \in cancelSubj => agent'[turn].cancel
        /\ \A u \in Turns : /\ agent'[u].st = agent[u].st /\ agent'[u].seq = agent[u].seq
                            /\ agent'[u].sess = agent[u].sess
                            /\ agent[u].cancel => agent'[u].cancel
    BY <1>0, <1>8, CancelRun
  <2>2. reason \in Reasons
    BY DEF Reasons
  <2> QED BY <1>0, <1>8, <2>1, <2>2, FlowLeaves
<1>9. CASE PumpClosed
  BY <1>8, <1>9 DEF PumpClosed
<1>10. CASE PumpPingFails
  BY <1>8, <1>10 DEF PumpPingFails
<1>11. CASE PumpFrame
  <2>1. CASE Leave("cancel") /\ CancelUpstream
    BY <1>8, <1>11, <2>1 DEF PumpFrame
  <2>2. CASE UNCHANGED <<handler, active, how, inbox, subVars, agent>>
    BY <1>0, <1>11, <2>2, FlowQuiet DEF PumpFrame, browserVars, subVars
  <2> QED BY <1>11, <2>1, <2>2 DEF PumpFrame
<1>12. CASE PumpEvent
  BY <1>0, <1>12, FlowEvent
<1>13. CASE PumpEof
  <2>1. "eof" \in Reasons
    BY DEF Reasons
  <2> QED BY <1>0, <1>13, <2>1, FlowLeaves DEF PumpEof
<1>14. CASE Between
  <2>1. CASE UNCHANGED <<handler, turn>>
    BY <1>0, <1>14, <2>1, FlowQuiet DEF Between, browserVars, subVars
  <2> QED BY <1>0, <1>14, <2>1, FlowTurns, FlowReturns DEF Between
<1>15. ASSUME NEW t \in Turns, AgentRefuses(t) PROVE FlowInv'
  <2>1. PICK c \in {"refused", "denied"} :
          Deliver(t, [turn |-> t, type |-> c, seq |-> 0, sess |-> NoSession])
    BY <1>15 DEF AgentRefuses
  <2> DEFINE m == [turn |-> t, type |-> c, seq |-> 0, sess |-> NoSession]
  <2>2. m \in Messages /\ m.turn = t /\ m.type = c
    BY BridgeBounds DEF Messages, Kinds, NoSession, Resumed
  <2>3. agent \in [Turns -> Runs] /\ agent[t].st = "requested"
    BY <1>0, <1>15 DEF TypeInv, AgentRefuses
  <2>4. /\ agent'[t].st = "ended" /\ agent'[t].cancel = agent[t].cancel
        /\ \A u \in Turns : u # t => agent'[u] = agent[u]
    BY <1>15, <2>3, RefuseRun DEF AgentRefuses
  <2>5. UNCHANGED <<screen, handler, turn, active, captured, reqs, how, nextSeq, cancelSubj,
                    events, subClosed, wsUp>>
    BY <1>15 DEF AgentRefuses, browserVars, loopVars, subVars
  <2>6. Deliver(t, m)
    BY <2>1
  <2>7. m.type \in Terminal /\ m.type \notin {"start", "data", "complete"}
    BY <2>2 DEF Terminal
  <2>8. agent'[t].st \notin Started
    BY <2>4 DEF Started
  <2> HIDE DEF m
  <2> QED BY <1>0, <2>2, <2>3, <2>4, <2>5, <2>6, <2>7, <2>8, FlowRuns
<1>16. ASSUME NEW t \in Turns, AgentStarts(t) PROVE FlowInv'
  <2> DEFINE s == IF agent[t].sess = NoSession THEN t ELSE agent[t].sess
             m == [turn |-> t, type |-> "start", seq |-> 0, sess |-> s]
  <2>1. agent \in [Turns -> Runs] /\ agent[t].st = "requested"
    BY <1>0, <1>16 DEF TypeInv, AgentStarts
  <2>2. agent[t].sess = reqs[t]
    BY <2>1 DEF FlowInv, AgentInv
  <2>3. s \in 0..Resumed /\ s # NoSession /\ (reqs[t] # NoSession => s = reqs[t])
    BY <2>1, <2>2, BridgeBounds DEF Runs, Turns, Resumed, NoSession
  <2>4. agent' = Begun(agent, t, s) /\ Deliver(t, m)
    BY <1>16 DEF AgentStarts, Begun
  <2> HIDE DEF s
  <2>5. /\ agent'[t].st = "running" /\ agent'[t].seq = 1
        /\ agent'[t].sess = s /\ agent'[t].cancel = agent[t].cancel
        /\ \A u \in Turns : u # t => agent'[u] = agent[u]
    BY <2>1, <2>3, <2>4, StartRun
  <2>6. m \in Messages /\ m.turn = t /\ m.type = "start" /\ m.sess = s
    BY <2>3 DEF Messages, Kinds
  <2>7. UNCHANGED <<screen, handler, turn, active, captured, reqs, how, nextSeq, cancelSubj,
                    events, subClosed, wsUp>>
    BY <1>16 DEF AgentStarts, browserVars, loopVars, subVars
  <2>8. agent'[t].st \in Started /\ m.type \notin Terminal /\ agent'[t].seq > 0
    BY <2>5, <2>6 DEF Started, Terminal
  <2> HIDE DEF m
  <2> QED BY <1>0, <2>1, <2>3, <2>4, <2>5, <2>6, <2>7, <2>8, FlowRuns
<1>17. ASSUME NEW t \in Turns, NEW e \in {"data", "complete", "error"}, AgentSends(t, e) PROVE FlowInv'
  <2> DEFINE m == [turn |-> t, type |-> e, seq |-> agent[t].seq, sess |-> agent[t].sess]
  <2>1. agent \in [Turns -> Runs] /\ agent[t].st = "running"
    BY <1>0, <1>17 DEF TypeInv, AgentSends
  <2>2. agent[t].seq \in Nat /\ agent[t].sess \in 0..Resumed
    BY <2>1 DEF Runs
  <2>3. PICK st \in {"running", "complete", "error"} : st = IF e = "data" THEN "running" ELSE e
    OBVIOUS
  <2>4. agent' = Sent(agent, t, st) /\ Deliver(t, m)
    BY <1>17, <2>3 DEF AgentSends, Sent
  <2>5. /\ agent'[t].st = st /\ agent'[t].seq = agent[t].seq + 1
        /\ agent'[t].sess = agent[t].sess /\ agent'[t].cancel = agent[t].cancel
        /\ \A u \in Turns : u # t => agent'[u] = agent[u]
    BY <2>1, <2>4, SendRun
  <2>6. m \in Messages /\ m.turn = t /\ m.type = e /\ m.seq = agent[t].seq
    BY <2>2 DEF Messages, Kinds
  <2>7. UNCHANGED <<screen, handler, turn, active, captured, reqs, how, nextSeq, cancelSubj,
                    events, subClosed, wsUp>>
    BY <1>17 DEF AgentSends, browserVars, loopVars, subVars
  <2>8. /\ agent[t].seq > 0
        /\ agent[t].sess # NoSession /\ (reqs[t] # NoSession => agent[t].sess = reqs[t])
    BY <2>1 DEF FlowInv, AgentInv, Started
  <2>9. agent'[t].st \in Started /\ agent'[t].st \notin {"none", "requested"} /\ agent'[t].seq > 0
    BY <2>2, <2>5, <2>8 DEF Started
  <2>10. m.type # "start" /\ (m.type \in Terminal => agent'[t].st # "running")
    BY <2>3, <2>5, <2>6 DEF Terminal
  <2> HIDE DEF m
  <2> QED BY <1>0, <2>1, <2>4, <2>5, <2>6, <2>7, <2>8, <2>9, <2>10, FlowRuns
<1>18. CASE UNCHANGED vars
  BY <1>0, <1>18, FlowQuiet DEF vars, browserVars, loopVars, subVars
<1> QED BY <1>1, <1>2, <1>3, <1>4, <1>5, <1>6, <1>7, <1>9, <1>10, <1>11, <1>12, <1>13, <1>14,
           <1>15, <1>16, <1>17, <1>18 DEF Next, Pump

-----------------------------------------------------------------------------
(* Which session a turn is requested with, and which runs are cancelled.    *)

\* The invariant holds throughout.
LEMMA FlowAlways == Spec => []FlowInv
<1> QED BY FlowInit, FlowStep, PTL DEF Spec

(* Every turn after a start frame on the screen is requested with the       *)
(* session of that run, whatever turns streamChat cancelled, lost or had    *)
(* refused in between, and a resumed session is every turn's.               *)
THEOREM SessionsThreaded == Spec => []SessionThreaded
<1>1. FlowInv => SessionThreaded
  BY DEF FlowInv, SessionInv, SessionThreaded
<1> QED BY <1>1, FlowAlways, PTL

(* Once the start event of a run has reached the bridge, a turn that ends   *)
(* while the run goes on (a cancel frame, a closed socket, a failed write)  *)
(* has told it to stop.  Only the closed events channel leaves it alone.    *)
THEOREM AbandonedStopped == Spec => []AbandonedIsCancelled
<1>1. FlowInv => AbandonedIsCancelled
  BY DEF FlowInv, CancelInv, AbandonedIsCancelled
<1> QED BY <1>1, FlowAlways, PTL

-----------------------------------------------------------------------------
(* The order of the frames on the screen.                                   *)

\* A frame that may follow p.
Follows(p, q) ==
  \/ q.turn = p.turn /\ q.seq = p.seq + 1 /\ p.type \notin Terminal \cup {"expired"}
  \/ q.turn > p.turn /\ q.seq = 0
  \/ q.turn = p.turn /\ q.type = "expired" /\ p.type = "denied"

\* Each frame may follow the one before it.
Ordered(s) == \A i \in 2..Len(s) : Follows(s[i - 1], s[i])

\* One or two more frames, each of which may follow the one before it.
LEMMA OrderedLonger ==
  ASSUME NEW q \in Seq(ScreenFrames), NEW s \in Seq(ScreenFrames), Ordered(q),
         \/ Len(s) = Len(q) + 1
         \/ Len(s) = Len(q) + 2 /\ Follows(s[Len(q) + 1], s[Len(q) + 2]),
         \A i \in 1..Len(q) : s[i] = q[i],
         q # << >> => Follows(q[Len(q)], s[Len(q) + 1])
  PROVE  Ordered(s)
<1>1. Len(q) \in Nat /\ Len(s) \in Nat
  OBVIOUS
<1>2. ASSUME NEW i \in 2..Len(s) PROVE Follows(s[i - 1], s[i])
  <2>1. CASE i \in 2..Len(q)
    <3>1. Follows(q[i - 1], q[i])
      BY <2>1 DEF Ordered
    <3>2. i \in 1..Len(q) /\ i - 1 \in 1..Len(q)
      BY <1>1, <2>1
    <3>3. s[i] = q[i] /\ s[i - 1] = q[i - 1]
      BY <3>2
    <3> QED BY <3>1, <3>3
  <2>2. CASE i = Len(q) + 1
    <3>1. Len(q) \in 1..Len(q) /\ q # << >> /\ i - 1 = Len(q)
      BY <1>1, <1>2, <2>2
    <3> QED BY <2>2, <3>1
  <2>3. CASE i = Len(q) + 2 /\ Len(s) = Len(q) + 2
    <3>1. i - 1 = Len(q) + 1 /\ Len(s) # Len(q) + 1
      BY <1>1, <2>3
    <3> QED BY <2>3, <3>1
  <2> QED BY <1>1, <1>2, <2>1, <2>2, <2>3
<1> QED BY <1>2 DEF Ordered

\* A refusal on the screen comes after the frames of earlier turns.
LEMMA RefusalFollows ==
  ASSUME FlowInv, Ordered(screen), OpenTurn, screen' # screen
  PROVE  Ordered(screen')
<1> DEFINE f == [turn |-> turn, type |-> "refused", seq |-> 0]
<1>1. handler = "turn" /\ screen' = Append(screen, f)
  BY DEF OpenTurn
<1>2. screen \in Seq(ScreenFrames) /\ f \in ScreenFrames /\ turn \in Turns
  BY DEF FlowInv, TypeInv, ScreenFrames, Kinds
<1>3. f.turn = turn /\ f.seq = 0
  OBVIOUS
<1> HIDE DEF f
<1>4. /\ screen' \in Seq(ScreenFrames) /\ Len(screen') = Len(screen) + 1
      /\ screen'[Len(screen) + 1] = f /\ Len(screen) \in Nat /\ DOMAIN screen = 1..Len(screen)
      /\ \A i \in 1..Len(screen) : screen'[i] = screen[i]
  BY <1>1, <1>2, SeqFacts
<1>5. ASSUME screen # << >> PROVE Follows(screen[Len(screen)], f)
  <2>1. Len(screen) \in DOMAIN screen
    BY <1>2, <1>4, <1>5
  <2>2. screen[Len(screen)].turn < turn /\ screen[Len(screen)].turn \in Nat
    BY <1>1, <1>2, <2>1, FrameFacts DEF FlowInv, ScreenInv
  <2>3. turn \in Nat
    BY <1>2, BridgeBounds DEF Turns
  <2>4. turn > screen[Len(screen)].turn
    BY <2>2, <2>3
  <2> QED BY <1>3, <2>4 DEF Follows
<1> QED BY <1>2, <1>4, <1>5, OrderedLonger

\* An event on the screen comes after those of its own turn, in sequence, or
\* it is the first of its turn.
LEMMA EventFollows ==
  ASSUME FlowInv, Ordered(screen), PumpEvent, screen' # screen
  PROVE  Ordered(screen')
<1> DEFINE e == Head(events)
           f == [turn |-> e.turn, type |-> e.type, seq |-> e.seq]
           x == [turn |-> e.turn, type |-> "expired", seq |-> 0]
<1>1. screen \in Seq(ScreenFrames) /\ events \in Seq(Messages) /\ nextSeq \in Nat /\ turn \in Turns
  BY DEF FlowInv, TypeInv
<1>2. handler = "pump" /\ events # << >> /\ wsUp /\ screen' = screen \o Written(e)
  <2>1. screen \o << >> = screen
    BY <1>1
  <2> QED BY <2>1 DEF PumpEvent
<1>3. e \in Messages /\ e = events[1] /\ 1 \in DOMAIN events
  BY <1>1, <1>2, TailFacts
<1>4. /\ e.turn = turn /\ e.seq = nextSeq - Len(events) /\ nextSeq >= Len(events)
      /\ Len(events) \in Nat /\ e.seq \in Nat
  <2>1. e.turn = turn
    BY <1>3 DEF FlowInv, InboxInv, Fits
  <2>2. events[1].seq = nextSeq - Len(events) + 1 - 1 /\ nextSeq >= Len(events)
    BY <1>2, <1>3 DEF FlowInv, ScreenInv
  <2>3. Len(events) \in Nat /\ e.seq \in Nat
    BY <1>1, <1>3 DEF Messages
  <2> HIDE DEF e
  <2> QED BY <1>1, <1>3, <2>1, <2>2, <2>3
<1>5. f.turn = turn /\ f.seq = e.seq /\ (e.type = "denied" => Follows(f, x))
  BY <1>4 DEF Follows
<1> HIDE DEF e
<1>6. /\ screen' \in Seq(ScreenFrames)
      /\ e.type = "denied" => Len(screen') = Len(screen) + 2
      /\ e.type # "denied" => Len(screen') = Len(screen) + 1
      /\ screen'[Len(screen) + 1] = f
      /\ e.type = "denied" => screen'[Len(screen) + 2] = x
      /\ \A i \in 1..Len(screen) : screen'[i] = screen[i]
  BY <1>1, <1>2, <1>3, WrittenFrames
<1> HIDE DEF f, x
<1>7. ASSUME screen # << >> PROVE Follows(screen[Len(screen)], f)
  <2>1. Len(screen) \in DOMAIN screen
    BY <1>1, <1>7
  <2>2. screen[Len(screen)].turn \in Nat /\ screen[Len(screen)].seq \in Nat /\ turn \in Nat
    BY <1>1, <2>1, FrameFacts, BridgeBounds DEF Turns
  <2>3. CASE nextSeq > Len(events)
    <3>1. /\ screen[Len(screen)].turn = turn
          /\ screen[Len(screen)].seq = nextSeq - Len(events) - 1
          /\ screen[Len(screen)].type \notin Terminal \cup {"expired"}
      BY <1>2, <2>3 DEF FlowInv, ScreenInv
    <3>2. f.seq = screen[Len(screen)].seq + 1
      BY <1>1, <1>4, <1>5, <3>1
    <3> QED BY <1>5, <3>1, <3>2 DEF Follows
  <2>4. CASE ~(nextSeq > Len(events))
    <3>1. screen[Len(screen)].turn <= turn /\ screen[Len(screen)].turn # turn
      BY <1>2, <2>1, <2>4 DEF FlowInv, ScreenInv
    <3>2. f.seq = 0 /\ turn > screen[Len(screen)].turn
      BY <1>1, <1>4, <1>5, <2>2, <2>4, <3>1
    <3> QED BY <1>5, <3>2 DEF Follows
  <2> QED BY <2>3, <2>4
<1> QED BY <1>1, <1>5, <1>6, <1>7, OrderedLonger

(* What pumpEvents and runOneTurn write: frames of one run before those of  *)
(* the next, numbered from 0 without a gap within a turn, nothing after a   *)
(* terminator but the session-expired frame of a denial.                    *)
THEOREM ScreensInOrder == Spec => []ScreenInOrder
<1>1. Init => Ordered(screen)
  <2>1. Len(<< >>) = 0 /\ 2..0 = {}
    OBVIOUS
  <2> QED BY <2>1 DEF Init, Ordered
<1>2. ASSUME FlowInv, Ordered(screen), [Next]_vars PROVE Ordered(screen)'
  <2>1. CASE screen' = screen
    BY <1>2, <2>1 DEF Ordered
  <2>2. CASE screen' # screen
    <3>1. OpenTurn \/ PumpEvent
      BY <1>2, <2>2 DEF Next, Pump, vars, BrowserSends, BrowserLeaves, ReaderReads, ReaderSends,
         OnMessage, StreamTimeout, PumpClosed, PumpPingFails, PumpFrame, PumpEof, Between,
         AgentRefuses, AgentStarts, AgentSends
    <3> QED BY <1>2, <2>2, <3>1, RefusalFollows, EventFollows
  <2> QED BY <2>1, <2>2
<1>3. Ordered(screen) => ScreenInOrder
  BY DEF Ordered, ScreenInOrder, Follows
<1> QED BY <1>1, <1>2, <1>3, FlowAlways, PTL DEF Spec

-----------------------------------------------------------------------------
(* The user messages on their way.                                          *)

\* The client frames on their way to streamChat, oldest first.
Line == cq \o (IF reader = "send" THEN <<rframe>> ELSE << >>) \o up

\* The browser gave up the turn of the message before position i: its cancel
\* comes after that message, or the turn is over.
GivenUp(line, over, i) ==
  \/ \E j \in 1..(i - 1) : line[j] = "cancel" /\ \A k \in (j + 1)..(i - 1) : line[k] # "user"
  \/ over /\ \A k \in 1..(i - 1) : line[k] # "user"

\* User messages on their way belong to turns still to come, in order.
Numbered(line, low, high, n) ==
  \A i \in DOMAIN line : line[i] = "user" =>
    /\ n[i] \in Int /\ low < n[i] /\ n[i] <= high
    /\ \A j \in DOMAIN line : line[j] = "user" /\ i < j => n[i] < n[j]

\* A line of frames sent by a browser that waits; gave: it gave up the turn
\* of its last message.
Patient(line, over, low, high, gave) ==
  /\ \A i \in DOMAIN line : line[i] = "user" => GivenUp(line, over, i)
  /\ gave => GivenUp(line, over, Len(line) + 1)
  /\ \E n \in [DOMAIN line -> Int] : Numbered(line, low, high, n)

LineInv ==
  ~rushed => dropped = 0 /\ turn <= sent /\ Patient(Line, handler \in Over, turn, sent, gaveUp)

\* A turn that ends on the way gives the browser no less.
LEMMA PatientOver ==
  ASSUME NEW line, NEW over, NEW over2, NEW low, NEW high, NEW gave,
         Patient(line, over, low, high, gave), over => over2
  PROVE  Patient(line, over2, low, high, gave)
BY DEF Patient, GivenUp

\* Q is P without its frame at position at, which is not a user message or a
\* cancel, or is the first one.
LEMMA GivenUpRemoved ==
  ASSUME NEW P \in Seq(Frames), NEW Q \in Seq(Frames), NEW at \in 1..Len(P),
         Len(Q) = Len(P) - 1,
         \A i \in 1..Len(Q) : i < at => Q[i] = P[i],
         \A i \in 1..Len(Q) : i >= at => Q[i] = P[i + 1],
         NEW over, NEW over2,
         P[at] = "user" => at = 1, P[at] = "cancel" => at = 1 /\ over2,
         P[at] # "user" => (over => over2),
         NEW i \in 1..(Len(Q) + 1), NEW h \in Int, h = IF i < at THEN i ELSE i + 1,
         GivenUp(P, over, h)
  PROVE  GivenUp(Q, over2, i)
<1>1. Len(P) \in Nat /\ Len(Q) \in Nat /\ at \in Nat /\ i \in Nat
  OBVIOUS
<1>2. ASSUME NEW j \in 1..(h - 1), P[j] = "cancel", \A k \in (j + 1)..(h - 1) : P[k] # "user"
      PROVE  GivenUp(Q, over2, i)
  <2>1. CASE j = at
    <3>1. j = 1 /\ over2 /\ at = 1
      BY <1>2, <2>1
    <3>2. h = i + 1
      BY <3>1, <1>1
    <3>3. \A k \in 1..(i - 1) : Q[k] # "user"
      <4>1. ASSUME NEW k \in 1..(i - 1) PROVE Q[k] # "user"
        <5>1. k \in 1..Len(Q) /\ k >= at /\ k + 1 \in (j + 1)..(h - 1)
          BY <1>1, <3>1, <3>2
        <5>2. Q[k] = P[k + 1]
          BY <5>1
        <5> QED BY <1>2, <5>1, <5>2
      <4> QED BY <4>1
    <3> QED BY <3>1, <3>3 DEF GivenUp
  <2>2. CASE j < at
    <3>1. j \in 1..(i - 1) /\ j \in 1..Len(Q)
      BY <1>1, <2>2
    <3>2. Q[j] = "cancel"
      BY <1>2, <2>2, <3>1
    <3>3. ASSUME NEW k \in (j + 1)..(i - 1) PROVE Q[k] # "user"
      <4>1. k \in 1..Len(Q) /\ k \in Int
        BY <1>1, <3>1
      <4>2. CASE k < at
        <5>1. k \in (j + 1)..(h - 1)
          BY <1>1, <4>2, <3>1
        <5>2. Q[k] = P[k]
          BY <4>1, <4>2
        <5> QED BY <1>2, <5>1, <5>2
      <4>3. CASE k >= at
        <5>1. k + 1 \in (j + 1)..(h - 1)
          BY <1>1, <4>1, <4>3, <3>1
        <5>2. Q[k] = P[k + 1]
          BY <4>1, <4>3
        <5> QED BY <1>2, <5>1, <5>2
      <4> QED BY <1>1, <4>1, <4>2, <4>3
    <3> QED BY <3>1, <3>2, <3>3 DEF GivenUp
  <2>3. CASE j > at
    <3>1. j - 1 \in 1..(i - 1) /\ j - 1 \in 1..Len(Q) /\ j - 1 >= at /\ h = i + 1
      BY <1>1, <2>3
    <3>2. Q[j - 1] = "cancel"
      <4>1. Q[j - 1] = P[(j - 1) + 1] /\ (j - 1) + 1 = j
        BY <3>1
      <4> QED BY <1>2, <4>1
    <3>3. ASSUME NEW k \in ((j - 1) + 1)..(i - 1) PROVE Q[k] # "user"
      <4>1. k \in 1..Len(Q) /\ k >= at /\ k + 1 \in (j + 1)..(h - 1)
        BY <1>1, <2>3, <3>1
      <4>2. Q[k] = P[k + 1]
        BY <4>1
      <4> QED BY <1>2, <4>1, <4>2
    <3> QED BY <3>1, <3>2, <3>3 DEF GivenUp
  <2> QED BY <1>1, <2>1, <2>2, <2>3
<1>3. ASSUME over, \A k \in 1..(h - 1) : P[k] # "user"
      PROVE  GivenUp(Q, over2, i)
  <2>1. \A k \in 1..(i - 1) : Q[k] # "user"
    <3>1. ASSUME NEW k \in 1..(i - 1) PROVE Q[k] # "user"
      <4>1. k \in 1..Len(Q) /\ k \in Int
        BY <1>1
      <4>2. CASE k < at
        <5>1. k \in 1..(h - 1)
          BY <1>1, <4>2
        <5>2. Q[k] = P[k]
          BY <4>1, <4>2
        <5> QED BY <1>3, <5>1, <5>2
      <4>3. CASE k >= at
        <5>1. k + 1 \in 1..(h - 1)
          BY <1>1, <4>1, <4>3
        <5>2. Q[k] = P[k + 1]
          BY <4>1, <4>3
        <5> QED BY <1>3, <5>1, <5>2
      <4> QED BY <1>1, <4>1, <4>2, <4>3
    <3> QED BY <3>1
  <2>2. CASE P[at] # "user"
    BY <1>3, <2>1, <2>2 DEF GivenUp
  <2>3. CASE P[at] = "user"
    <3>1. at = 1 /\ h = i + 1
      BY <1>1, <2>3
    <3>2. 1 \in 1..(h - 1)
      BY <1>1, <3>1
    <3> QED BY <1>3, <2>3, <3>1, <3>2
  <2> QED BY <2>2, <2>3
<1> QED BY <1>2, <1>3 DEF GivenUp

\* The numbers of the messages that stay.
LEMMA NumberedRemoved ==
  ASSUME NEW P \in Seq(Frames), NEW Q \in Seq(Frames), NEW at \in 1..Len(P),
         Len(Q) = Len(P) - 1,
         \A i \in 1..Len(Q) : i < at => Q[i] = P[i],
         \A i \in 1..Len(Q) : i >= at => Q[i] = P[i + 1],
         NEW low \in Int, NEW low2 \in Int, NEW high \in Int,
         \/ low2 = low
         \/ P[at] = "user" /\ at = 1 /\ low2 = low + 1,
         NEW n \in [DOMAIN P -> Int], Numbered(P, low, high, n)
  PROVE  \E m \in [DOMAIN Q -> Int] : Numbered(Q, low2, high, m)
<1> DEFINE h(i) == IF i < at THEN i ELSE i + 1
           m == [i \in DOMAIN Q |-> n[h(i)]]
<1>1. /\ Len(P) \in Nat /\ Len(Q) \in Nat /\ at \in Nat
      /\ DOMAIN P = 1..Len(P) /\ DOMAIN Q = 1..Len(Q)
  OBVIOUS
<1>2. \A i \in DOMAIN Q : h(i) \in DOMAIN P /\ Q[i] = P[h(i)]
  BY <1>1
<1>3. \A i \in DOMAIN Q : \A j \in DOMAIN Q : i < j => h(i) < h(j)
  BY <1>1
<1>4. P[at] = "user" /\ at = 1 => \A i \in DOMAIN Q : at < h(i)
  BY <1>1
<1> HIDE DEF h
<1>5. m \in [DOMAIN Q -> Int] /\ \A i \in DOMAIN Q : m[i] = n[h(i)]
  BY <1>2
<1> HIDE DEF m
<1>6. ASSUME NEW i \in DOMAIN Q, Q[i] = "user"
      PROVE  /\ m[i] \in Int /\ low2 < m[i] /\ m[i] <= high
             /\ \A j \in DOMAIN Q : Q[j] = "user" /\ i < j => m[i] < m[j]
  <2>1. h(i) \in DOMAIN P /\ P[h(i)] = "user"
    BY <1>2, <1>6
  <2>2. /\ n[h(i)] \in Int /\ low < n[h(i)] /\ n[h(i)] <= high
        /\ \A j \in DOMAIN P : P[j] = "user" /\ h(i) < j => n[h(i)] < n[j]
    BY <2>1 DEF Numbered
  <2>3. \A j \in DOMAIN Q : Q[j] = "user" /\ i < j => m[i] < m[j]
    BY <1>2, <1>3, <1>5, <2>2
  <2>4. low2 < n[h(i)]
    <3>1. CASE low2 = low
      BY <2>2, <3>1
    <3>2. CASE P[at] = "user" /\ at = 1 /\ low2 = low + 1
      <4>1. at < h(i) /\ at \in DOMAIN P
        BY <1>1, <1>4, <3>2
      <4>2. n[at] < n[h(i)] /\ low < n[at] /\ n[at] \in Int
        BY <2>1, <3>2, <4>1 DEF Numbered
      <4> QED BY <2>2, <3>2, <4>2
    <3> QED BY <3>1, <3>2
  <2> QED BY <1>5, <2>2, <2>3, <2>4
<1>7. Numbered(Q, low2, high, m)
  BY <1>6 DEF Numbered
<1> QED BY <1>5, <1>7

\* A line that loses a frame.
LEMMA PatientRemoved ==
  ASSUME NEW P \in Seq(Frames), NEW Q \in Seq(Frames), NEW at \in 1..Len(P),
         Len(Q) = Len(P) - 1,
         \A i \in 1..Len(Q) : i < at => Q[i] = P[i],
         \A i \in 1..Len(Q) : i >= at => Q[i] = P[i + 1],
         NEW over, NEW over2,
         P[at] = "user" => at = 1, P[at] = "cancel" => at = 1 /\ over2,
         P[at] # "user" => (over => over2),
         NEW low \in Int, NEW low2 \in Int, NEW high \in Int,
         \/ low2 = low
         \/ P[at] = "user" /\ at = 1 /\ low2 = low + 1,
         NEW gave, Patient(P, over, low, high, gave)
  PROVE  Patient(Q, over2, low2, high, gave)
<1>1. /\ Len(P) \in Nat /\ Len(Q) \in Nat /\ at \in Nat
      /\ DOMAIN P = 1..Len(P) /\ DOMAIN Q = 1..Len(Q)
  OBVIOUS
<1>2. ASSUME NEW i \in DOMAIN Q, Q[i] = "user" PROVE GivenUp(Q, over2, i)
  <2>1. PICK h \in Int : h = IF i < at THEN i ELSE i + 1
    BY <1>1
  <2>2. h \in DOMAIN P /\ P[h] = "user" /\ i \in 1..(Len(Q) + 1)
    BY <1>1, <1>2, <2>1
  <2>3. GivenUp(P, over, h)
    BY <2>2 DEF Patient
  <2> QED BY <2>1, <2>2, <2>3, GivenUpRemoved
<1>3. ASSUME gave PROVE GivenUp(Q, over2, Len(Q) + 1)
  <2>1. PICK i \in 1..(Len(Q) + 1) : i = Len(Q) + 1
    BY <1>1
  <2>2. PICK h \in Int : h = Len(P) + 1
    BY <1>1
  <2>3. h = IF i < at THEN i ELSE i + 1
    BY <1>1, <2>1, <2>2
  <2>4. GivenUp(P, over, h)
    BY <1>3, <2>2 DEF Patient
  <2>5. GivenUp(Q, over2, i)
    BY <2>3, <2>4, GivenUpRemoved
  <2> QED BY <2>1, <2>5
<1>4. \E m \in [DOMAIN Q -> Int] : Numbered(Q, low2, high, m)
  <2>1. PICK n \in [DOMAIN P -> Int] : Numbered(P, low, high, n)
    BY DEF Patient
  <2> QED BY <2>1, NumberedRemoved, ZenonT(60)
<1> QED BY <1>2, <1>3, <1>4 DEF Patient

\* What is true before a position of a line stays true when frames follow.
LEMMA GivenUpAppend ==
  ASSUME NEW P \in Seq(Frames), NEW f \in Frames, NEW over,
         NEW i \in 1..(Len(P) + 1), GivenUp(P, over, i)
  PROVE  GivenUp(Append(P, f), over, i)
<1>1. Len(P) \in Nat /\ \A k \in 1..(i - 1) : Append(P, f)[k] = P[k]
  BY SeqFacts
<1>2. CASE \E j \in 1..(i - 1) : P[j] = "cancel" /\ \A k \in (j + 1)..(i - 1) : P[k] # "user"
  <2>1. PICK j \in 1..(i - 1) : P[j] = "cancel" /\ \A k \in (j + 1)..(i - 1) : P[k] # "user"
    BY <1>2
  <2>2. \A k \in (j + 1)..(i - 1) : k \in 1..(i - 1)
    OBVIOUS
  <2>3. Append(P, f)[j] = "cancel" /\ \A k \in (j + 1)..(i - 1) : Append(P, f)[k] # "user"
    BY <1>1, <2>1, <2>2
  <2> QED BY <2>3 DEF GivenUp
<1>3. CASE over /\ \A k \in 1..(i - 1) : P[k] # "user"
  BY <1>1, <1>3 DEF GivenUp
<1> QED BY <1>2, <1>3 DEF GivenUp

\* A line that gains a frame: a user message only when the browser is not
\* waiting for the turn of its last one.
LEMMA PatientAppend ==
  ASSUME NEW P \in Seq(Frames), NEW f \in Frames, NEW over, NEW gave, NEW gave2,
         NEW low \in Int, NEW high \in Int, NEW high2 \in Int, low <= high,
         Patient(P, over, low, high, gave),
         f = "user" => /\ high2 = high + 1 /\ ~gave2
                       /\ gave \/ (over /\ \A i \in DOMAIN P : P[i] # "user"),
         f # "user" => high2 = high /\ (gave2 => gave \/ f = "cancel")
  PROVE  Patient(Append(P, f), over, low, high2, gave2)
<1> DEFINE Q == Append(P, f)
<1>1. /\ Q \in Seq(Frames) /\ Len(Q) = Len(P) + 1 /\ Len(P) \in Nat
      /\ Q[Len(P) + 1] = f /\ \A i \in 1..Len(P) : Q[i] = P[i]
      /\ DOMAIN P = 1..Len(P) /\ DOMAIN Q = 1..(Len(P) + 1)
  BY SeqFacts
<1>2. ASSUME NEW i \in 1..(Len(P) + 1), GivenUp(P, over, i) PROVE GivenUp(Q, over, i)
  BY <1>2, GivenUpAppend
<1> HIDE DEF Q
<1>3. ASSUME NEW i \in DOMAIN Q, Q[i] = "user" PROVE GivenUp(Q, over, i)
  <2>1. CASE i \in 1..Len(P)
    BY <1>1, <1>2, <1>3, <2>1 DEF Patient
  <2>2. CASE i = Len(P) + 1
    <3>1. f = "user" /\ i \in 1..(Len(P) + 1)
      BY <1>1, <1>3, <2>2
    <3>2. CASE gave
      BY <1>2, <2>2, <3>1, <3>2 DEF Patient
    <3>3. CASE over /\ \A k \in DOMAIN P : P[k] # "user"
      <4>1. \A k \in 1..(i - 1) : k \in DOMAIN P
        BY <1>1, <2>2
      <4>2. GivenUp(P, over, i)
        BY <3>3, <4>1 DEF GivenUp
      <4> QED BY <1>2, <3>1, <4>2
    <3> QED BY <3>1, <3>2, <3>3
  <2> QED BY <1>1, <2>1, <2>2
<1>4. ASSUME gave2 PROVE GivenUp(Q, over, Len(Q) + 1)
  <2>1. f # "user" /\ (gave \/ f = "cancel")
    BY <1>4
  <2>2. CASE f = "cancel"
    <3>1. Len(P) + 1 \in 1..((Len(Q) + 1) - 1) /\ Q[Len(P) + 1] = "cancel"
      BY <1>1, <2>2
    <3>2. ((Len(P) + 1) + 1)..((Len(Q) + 1) - 1) = {}
      BY <1>1
    <3> QED BY <3>1, <3>2 DEF GivenUp
  <2>3. CASE gave
    <3>1. GivenUp(P, over, Len(P) + 1) /\ Len(P) + 1 \in 1..(Len(P) + 1)
      BY <1>1, <2>3 DEF Patient
    <3>2. GivenUp(Q, over, Len(P) + 1)
      BY <1>2, <3>1
    <3>3. (Len(P) + 1) - 1 = Len(P) /\ (Len(Q) + 1) - 1 = Len(P) + 1 /\ Len(P) \in Nat
      BY <1>1
    <3>4. Q[Len(P) + 1] # "user"
      BY <1>1, <2>1
    <3>5. CASE over /\ \A k \in 1..Len(P) : Q[k] # "user"
      <4>1. \A k \in 1..(Len(P) + 1) : Q[k] # "user"
        BY <3>3, <3>4, <3>5
      <4> QED BY <3>3, <3>5, <4>1 DEF GivenUp
    <3>6. CASE \E j \in 1..Len(P) : Q[j] = "cancel" /\ \A k \in (j + 1)..Len(P) : Q[k] # "user"
      <4>1. PICK j \in 1..Len(P) : Q[j] = "cancel" /\ \A k \in (j + 1)..Len(P) : Q[k] # "user"
        BY <3>6
      <4>2. j \in 1..(Len(P) + 1) /\ \A k \in (j + 1)..(Len(P) + 1) : Q[k] # "user"
        BY <3>3, <3>4, <4>1
      <4> QED BY <3>3, <4>1, <4>2 DEF GivenUp
    <3> QED BY <3>2, <3>3, <3>5, <3>6 DEF GivenUp
  <2> QED BY <2>1, <2>2, <2>3
<1>5. \E m \in [DOMAIN Q -> Int] : Numbered(Q, low, high2, m)
  <2>1. PICK n \in [DOMAIN P -> Int] : Numbered(P, low, high, n)
    BY DEF Patient
  <2> DEFINE m == [i \in DOMAIN Q |-> IF i \in DOMAIN P THEN n[i] ELSE high2]
  <2>2. /\ m \in [DOMAIN Q -> Int] /\ \A i \in DOMAIN P : i \in DOMAIN Q /\ m[i] = n[i]
        /\ m[Len(P) + 1] = high2
    BY <1>1
  <2> HIDE DEF m
  <2>3. ASSUME NEW i \in DOMAIN Q, Q[i] = "user"
        PROVE  /\ m[i] \in Int /\ low < m[i] /\ m[i] <= high2
               /\ \A j \in DOMAIN Q : Q[j] = "user" /\ i < j => m[i] < m[j]
    <3>1. CASE i \in DOMAIN P
      <4>1. /\ n[i] \in Int /\ low < n[i] /\ n[i] <= high
            /\ \A j \in DOMAIN P : P[j] = "user" /\ i < j => n[i] < n[j]
        BY <1>1, <2>1, <2>3, <3>1 DEF Numbered
      <4>2. m[i] = n[i] /\ high <= high2
        BY <2>2, <3>1
      <4>3. ASSUME NEW j \in DOMAIN Q, Q[j] = "user", i < j PROVE m[i] < m[j]
        <5>1. CASE j \in DOMAIN P
          BY <1>1, <2>2, <4>1, <4>2, <4>3, <5>1
        <5>2. CASE j = Len(P) + 1
          <6>1. m[j] = high + 1
            BY <1>1, <2>2, <4>3, <5>2
          <6> QED BY <4>1, <4>2, <6>1
        <5> QED BY <1>1, <5>1, <5>2
      <4> QED BY <4>1, <4>2, <4>3
    <3>2. CASE i = Len(P) + 1
      <4>1. m[i] = high + 1 /\ high2 = high + 1
        BY <1>1, <2>2, <2>3, <3>2
      <4>2. \A j \in DOMAIN Q : ~(i < j)
        BY <1>1, <3>2
      <4> QED BY <4>1, <4>2
    <3> QED BY <1>1, <3>1, <3>2
  <2>4. Numbered(Q, low, high2, m)
    BY <2>3 DEF Numbered
  <2> QED BY <2>2, <2>4
<1>6. Patient(Q, over, low, high2, gave2)
  BY <1>3, <1>4, <1>5 DEF Patient
<1> QED BY <1>6 DEF Q

(* What the steps of the browser, the reader and the handler do to the line. *)

\* Three sequences in a row.
LEMMA ThreeParts ==
  ASSUME NEW S, NEW a \in Seq(S), NEW b \in Seq(S), NEW c \in Seq(S)
  PROVE  /\ a \o b \o c \in Seq(S) /\ Len(a \o b \o c) = Len(a) + Len(b) + Len(c)
         /\ \A i \in 1..Len(a) : (a \o b \o c)[i] = a[i]
         /\ \A i \in 1..Len(b) : (a \o b \o c)[Len(a) + i] = b[i]
         /\ \A i \in 1..Len(c) : (a \o b \o c)[Len(a) + Len(b) + i] = c[i]
OBVIOUS

\* Sequences with the same elements are equal.
LEMMA SameElements ==
  ASSUME NEW S, NEW p \in Seq(S), NEW q \in Seq(S), Len(p) = Len(q),
         \A i \in 1..Len(p) : p[i] = q[i]
  PROVE  p = q
<1>1. p = [i \in 1..Len(p) |-> p[i]] /\ q = [i \in 1..Len(q) |-> q[i]]
  OBVIOUS
<1> QED BY <1>1

\* One element taken from the front of the third part to the second, or from
\* the second to the end of the first, makes no difference.
LEMMA HandOver ==
  ASSUME NEW S, NEW a \in Seq(S), NEW c \in Seq(S), NEW x \in S
  PROVE  /\ c # << >> /\ x = Head(c) => a \o <<x>> \o Tail(c) = a \o << >> \o c
         /\ Append(a, x) \o << >> \o c = a \o <<x>> \o c
<1>1. << >> \in Seq(S) /\ Len(<< >>) = 0 /\ <<x>> \in Seq(S) /\ Len(<<x>>) = 1 /\ <<x>>[1] = x
  OBVIOUS
<1>2. Len(a) \in Nat /\ Len(c) \in Nat
  OBVIOUS
<1>3. ASSUME c # << >>, x = Head(c) PROVE a \o <<x>> \o Tail(c) = a \o << >> \o c
  <2> DEFINE p == a \o <<x>> \o Tail(c)
             q == a \o << >> \o c
  <2>1. /\ Tail(c) \in Seq(S) /\ Len(Tail(c)) = Len(c) - 1 /\ c[1] = x /\ Len(c) > 0
        /\ \A i \in 1..(Len(c) - 1) : Tail(c)[i] = c[i + 1]
    BY <1>2, <1>3, TailFacts
  <2>2. /\ p \in Seq(S) /\ Len(p) = Len(a) + Len(c)
        /\ \A i \in 1..Len(a) : p[i] = a[i]
        /\ p[Len(a) + 1] = x
        /\ \A i \in 1..(Len(c) - 1) : p[Len(a) + 1 + i] = c[i + 1]
    <3>1. /\ p \in Seq(S) /\ Len(p) = Len(a) + Len(<<x>>) + Len(Tail(c))
          /\ \A i \in 1..Len(a) : p[i] = a[i]
          /\ \A i \in 1..Len(<<x>>) : p[Len(a) + i] = <<x>>[i]
          /\ \A i \in 1..Len(Tail(c)) : p[Len(a) + Len(<<x>>) + i] = Tail(c)[i]
      BY <1>1, <2>1, ThreeParts
    <3> HIDE DEF p
    <3> QED BY <1>1, <1>2, <2>1, <3>1
  <2>3. /\ q \in Seq(S) /\ Len(q) = Len(a) + Len(c)
        /\ \A i \in 1..Len(a) : q[i] = a[i]
        /\ \A i \in 1..Len(c) : q[Len(a) + i] = c[i]
    <3>1. /\ q \in Seq(S) /\ Len(q) = Len(a) + Len(<< >>) + Len(c)
          /\ \A i \in 1..Len(a) : q[i] = a[i]
          /\ \A i \in 1..Len(c) : q[Len(a) + Len(<< >>) + i] = c[i]
      BY <1>1, ThreeParts
    <3> HIDE DEF q
    <3> QED BY <1>1, <1>2, <3>1
  <2> HIDE DEF p, q
  <2>4. ASSUME NEW i \in 1..Len(p) PROVE p[i] = q[i]
    <3>1. CASE i <= Len(a)
      BY <1>2, <2>2, <2>3, <3>1
    <3>2. CASE i = Len(a) + 1
      BY <1>2, <2>1, <2>2, <2>3, <3>2
    <3>3. CASE i > Len(a) + 1
      <4>1. i - Len(a) - 1 \in 1..(Len(c) - 1) /\ i - Len(a) \in 1..Len(c)
        BY <1>2, <2>2, <3>3
      <4>2. Len(a) + 1 + (i - Len(a) - 1) = i /\ Len(a) + (i - Len(a)) = i
            /\ (i - Len(a) - 1) + 1 = i - Len(a)
        BY <1>2, <2>4
      <4>3. p[i] = c[i - Len(a)]
        BY <2>2, <4>1, <4>2
      <4>4. q[i] = c[i - Len(a)]
        BY <2>3, <4>1, <4>2
      <4> QED BY <4>3, <4>4
    <3> QED BY <1>2, <2>4, <3>1, <3>2, <3>3
  <2>5. p = q
    BY <2>2, <2>3, <2>4, SameElements
  <2> QED BY <2>5 DEF p, q
<1>4. Append(a, x) \o << >> \o c = a \o <<x>> \o c
  <2>1. Append(a, x) = a \o <<x>>
    OBVIOUS
  <2>2. a \o <<x>> \o << >> = a \o <<x>>
    OBVIOUS
  <2> QED BY <2>1, <2>2
<1> QED BY <1>3, <1>4

\* The line is a sequence of frames.
LEMMA LineType == TypeInv => Line \in Seq(Frames)
<1> SUFFICES ASSUME TypeInv PROVE Line \in Seq(Frames)
  OBVIOUS
<1>1. cq \in Seq(Frames) /\ up \in Seq(Frames) /\ rframe \in Frames
  BY DEF TypeInv
<1>2. (IF reader = "send" THEN <<rframe>> ELSE << >>) \in Seq(Frames)
  BY <1>1
<1> QED BY <1>1, <1>2, ThreeParts DEF Line

\* The browser's frame goes to the end of the line.
LEMMA LineGrows ==
  ASSUME TypeInv, NEW f \in Frames, up' = Append(up, f), UNCHANGED <<cq, reader, rframe>>
  PROVE  Line' = Append(Line, f)
<1> DEFINE b == IF reader = "send" THEN <<rframe>> ELSE << >>
<1>1. cq \in Seq(Frames) /\ up \in Seq(Frames) /\ b \in Seq(Frames)
  BY DEF TypeInv
<1>2. Line = cq \o b \o up /\ Line' = cq \o b \o up'
  BY DEF Line
<1> HIDE DEF b
<1>3. cq \o b \in Seq(Frames)
  BY <1>1
<1>4. PICK a \in Seq(Frames) : a = cq \o b
  BY <1>3
<1>5. a \o Append(up, f) = Append(a \o up, f)
  BY <1>1
<1> QED BY <1>2, <1>4, <1>5

\* The handler takes the first frame of the line.
LEMMA LineShrinks ==
  ASSUME TypeInv, cq # << >>, cq' = Tail(cq), UNCHANGED <<up, reader, rframe>>
  PROVE  /\ 1 \in 1..Len(Line) /\ Line[1] = Head(cq) /\ Line' \in Seq(Frames)
         /\ Len(Line') = Len(Line) - 1
         /\ \A i \in 1..Len(Line') : Line'[i] = Line[i + 1]
<1> DEFINE b == IF reader = "send" THEN <<rframe>> ELSE << >>
<1>1. cq \in Seq(Frames) /\ up \in Seq(Frames) /\ b \in Seq(Frames)
  BY DEF TypeInv
<1>2. Line = cq \o b \o up /\ Line' = Tail(cq) \o b \o up
  BY DEF Line
<1> HIDE DEF b
<1>3. /\ Head(cq) = cq[1] /\ Len(cq) > 0 /\ Len(cq) \in Nat /\ Len(b) \in Nat /\ Len(up) \in Nat
      /\ Tail(cq) \in Seq(Frames) /\ Len(Tail(cq)) = Len(cq) - 1
      /\ \A i \in 1..(Len(cq) - 1) : Tail(cq)[i] = cq[i + 1]
  BY <1>1, TailFacts
<1>4. /\ Line \in Seq(Frames) /\ Len(Line) = Len(cq) + Len(b) + Len(up)
      /\ \A i \in 1..Len(cq) : Line[i] = cq[i]
      /\ \A i \in 1..Len(b) : Line[Len(cq) + i] = b[i]
      /\ \A i \in 1..Len(up) : Line[Len(cq) + Len(b) + i] = up[i]
  BY <1>1, <1>2, ThreeParts
<1>5. /\ Line' \in Seq(Frames) /\ Len(Line') = Len(cq) - 1 + Len(b) + Len(up)
      /\ \A i \in 1..(Len(cq) - 1) : Line'[i] = cq[i + 1]
      /\ \A i \in 1..Len(b) : Line'[Len(cq) - 1 + i] = b[i]
      /\ \A i \in 1..Len(up) : Line'[Len(cq) - 1 + Len(b) + i] = up[i]
  BY <1>1, <1>2, <1>3, ThreeParts
<1>6. ASSUME NEW i \in 1..Len(Line') PROVE Line'[i] = Line[i + 1]
  <2>1. CASE i <= Len(cq) - 1
    BY <1>3, <1>4, <1>5, <2>1
  <2>2. CASE i > Len(cq) - 1 /\ i <= Len(cq) - 1 + Len(b)
    <3>1. PICK k \in 1..Len(b) : k = i - (Len(cq) - 1)
      <4>1. i - (Len(cq) - 1) \in 1..Len(b)
        BY <1>3, <1>6, <2>2
      <4> QED BY <4>1
    <3>2. Len(cq) - 1 + k = i /\ Len(cq) + k = i + 1
      BY <1>3, <1>6, <3>1
    <3>3. Line'[i] = b[k]
      BY <1>5, <3>2
    <3>4. Line[i + 1] = b[k]
      BY <1>4, <3>2
    <3> QED BY <3>3, <3>4
  <2>3. CASE i > Len(cq) - 1 + Len(b)
    <3>1. PICK k \in 1..Len(up) : k = i - (Len(cq) - 1 + Len(b))
      <4>1. i - (Len(cq) - 1 + Len(b)) \in 1..Len(up)
        BY <1>3, <1>5, <1>6, <2>3
      <4> QED BY <4>1
    <3>2. Len(cq) - 1 + Len(b) + k = i /\ Len(cq) + Len(b) + k = i + 1
      BY <1>3, <1>6, <3>1
    <3>3. Line'[i] = up[k]
      BY <1>5, <3>2
    <3>4. Line[i + 1] = up[k]
      BY <1>4, <3>2
    <3> QED BY <3>3, <3>4
  <2> QED BY <1>3, <1>6, <2>1, <2>2, <2>3
<1> QED BY <1>3, <1>4, <1>5, <1>6

\* A frame the reader could not parse leaves the line.
LEMMA LineSkips ==
  ASSUME TypeInv, reader # "send", reader' # "send", up # << >>, up' = Tail(up), cq' = cq
  PROVE  /\ Len(cq) + 1 \in 1..Len(Line) /\ Line[Len(cq) + 1] = Head(up) /\ Line' \in Seq(Frames)
         /\ Len(Line') = Len(Line) - 1
         /\ \A i \in 1..Len(Line') : i < Len(cq) + 1 => Line'[i] = Line[i]
         /\ \A i \in 1..Len(Line') : i >= Len(cq) + 1 => Line'[i] = Line[i + 1]
<1>1. cq \in Seq(Frames) /\ up \in Seq(Frames) /\ << >> \in Seq(Frames) /\ Len(<< >>) = 0
  BY DEF TypeInv
<1>2. Line = cq \o << >> \o up /\ Line' = cq \o << >> \o Tail(up)
  BY DEF Line
<1>3. /\ Head(up) = up[1] /\ Len(up) > 0 /\ Len(cq) \in Nat /\ Len(up) \in Nat
      /\ Tail(up) \in Seq(Frames) /\ Len(Tail(up)) = Len(up) - 1
      /\ \A i \in 1..(Len(up) - 1) : Tail(up)[i] = up[i + 1]
  BY <1>1, TailFacts
<1>4. /\ Line \in Seq(Frames) /\ Len(Line) = Len(cq) + Len(up)
      /\ \A i \in 1..Len(cq) : Line[i] = cq[i]
      /\ \A i \in 1..Len(up) : Line[Len(cq) + i] = up[i]
  <2>1. /\ Line \in Seq(Frames) /\ Len(Line) = Len(cq) + Len(<< >>) + Len(up)
        /\ \A i \in 1..Len(cq) : Line[i] = cq[i]
        /\ \A i \in 1..Len(up) : Line[Len(cq) + Len(<< >>) + i] = up[i]
    BY <1>1, <1>2, ThreeParts
  <2> QED BY <1>1, <1>3, <2>1
<1>5. /\ Line' \in Seq(Frames) /\ Len(Line') = Len(cq) + Len(up) - 1
      /\ \A i \in 1..Len(cq) : Line'[i] = cq[i]
      /\ \A i \in 1..(Len(up) - 1) : Line'[Len(cq) + i] = up[i + 1]
  <2>1. /\ Line' \in Seq(Frames) /\ Len(Line') = Len(cq) + Len(<< >>) + Len(Tail(up))
        /\ \A i \in 1..Len(cq) : Line'[i] = cq[i]
        /\ \A i \in 1..Len(Tail(up)) : Line'[Len(cq) + Len(<< >>) + i] = Tail(up)[i]
    BY <1>1, <1>2, <1>3, ThreeParts
  <2> QED BY <1>1, <1>3, <2>1
<1>6. ASSUME NEW i \in 1..Len(Line'), i >= Len(cq) + 1 PROVE Line'[i] = Line[i + 1]
  <2>1. PICK k \in 1..(Len(up) - 1) : k = i - Len(cq)
    <3>1. i - Len(cq) \in 1..(Len(up) - 1)
      BY <1>3, <1>5, <1>6
    <3> QED BY <3>1
  <2>2. Len(cq) + k = i /\ Len(cq) + (k + 1) = i + 1 /\ k + 1 \in 1..Len(up)
    BY <1>3, <1>6, <2>1
  <2>3. Line'[i] = up[k + 1]
    BY <1>5, <2>2
  <2>4. Line[i + 1] = up[k + 1]
    BY <1>4, <2>2
  <2> QED BY <2>3, <2>4
<1>7. ASSUME NEW i \in 1..Len(Line'), i < Len(cq) + 1 PROVE Line'[i] = Line[i]
  <2>1. i \in 1..Len(cq)
    BY <1>3, <1>5, <1>7
  <2> QED BY <1>4, <1>5, <2>1
<1> QED BY <1>3, <1>4, <1>5, <1>6, <1>7

\* The first frame of the line is taken, and what follows is still in order.
LEMMA LineTakes ==
  ASSUME TypeInv, LineInv, rushed' = rushed, cq # << >>, cq' = Tail(cq),
         UNCHANGED <<up, sent, gaveUp, reader, rframe>>,
         turn' \in Int, Head(cq) = "cancel" => handler' \in Over,
         Head(cq) # "user" => /\ turn' = turn /\ dropped' = dropped
                              /\ handler \in Over => handler' \in Over,
         Head(cq) = "user" => /\ rushed \/ handler \in Over
                              /\ turn' = turn + 1 /\ (~rushed => dropped' = dropped)
  PROVE  LineInv'
<1> SUFFICES ASSUME ~rushed
             PROVE  dropped' = 0 /\ turn' <= sent' /\ Patient(Line', handler' \in Over, turn', sent', gaveUp')
  BY DEF LineInv
<1>1. dropped = 0 /\ turn <= sent /\ Patient(Line, handler \in Over, turn, sent, gaveUp)
  BY DEF LineInv
<1>2. turn \in Int /\ sent \in Int /\ Line \in Seq(Frames)
  BY LineType, BridgeBounds DEF TypeInv, Turns
<1>3. /\ 1 \in 1..Len(Line) /\ Line[1] = Head(cq) /\ Line' \in Seq(Frames)
      /\ Len(Line') = Len(Line) - 1
      /\ \A i \in 1..Len(Line') : Line'[i] = Line[i + 1]
  BY LineShrinks
<1>4. PICK P \in Seq(Frames) : P = Line
  BY <1>2
<1>5. PICK Q \in Seq(Frames) : Q = Line'
  BY <1>3
<1>6. /\ \A i \in 1..Len(Q) : i < 1 => Q[i] = P[i]
      /\ \A i \in 1..Len(Q) : i >= 1 => Q[i] = P[i + 1]
  <2>1. \A i \in 1..Len(Q) : Q[i] = P[i + 1]
    BY <1>3, <1>4, <1>5
  <2>2. \A i \in 1..Len(Q) : ~(i < 1)
    OBVIOUS
  <2> QED BY <2>1, <2>2
<1>7. turn' = turn \/ (P[1] = "user" /\ turn' = turn + 1)
  BY <1>3, <1>4
<1>8. Patient(Q, handler' \in Over, turn', sent, gaveUp)
  <2>1. PICK over : over = (handler \in Over)
    OBVIOUS
  <2>2. PICK over2 : over2 = (handler' \in Over)
    OBVIOUS
  <2>3. 1 \in 1..Len(P) /\ Len(Q) = Len(P) - 1 /\ Patient(P, over, turn, sent, gaveUp)
    BY <1>1, <1>3, <1>4, <1>5, <2>1
  <2>4. /\ P[1] = "cancel" => over2
        /\ P[1] # "user" => (over => over2)
    BY <1>3, <1>4, <2>1, <2>2
  <2>5. PICK low \in Int : low = turn
    BY <1>2
  <2>6. PICK low2 \in Int : low2 = turn'
    OBVIOUS
  <2>7. Patient(Q, over2, low2, sent, gaveUp)
    BY <1>2, <1>6, <1>7, <2>3, <2>4, <2>5, <2>6, PatientRemoved
  <2> QED BY <2>2, <2>6, <2>7
<1>9. turn' <= sent
  <2>1. CASE turn' = turn
    BY <1>1, <2>1
  <2>2. CASE P[1] = "user" /\ turn' = turn + 1
    <3>1. PICK n \in [DOMAIN P -> Int] : Numbered(P, turn, sent, n)
      BY <1>1, <1>4 DEF Patient
    <3>2. 1 \in DOMAIN P
      BY <1>3, <1>4
    <3>3. n[1] \in Int /\ turn < n[1] /\ n[1] <= sent
      BY <2>2, <3>1, <3>2 DEF Numbered
    <3> QED BY <1>2, <2>2, <3>3
  <2> QED BY <1>7, <2>1, <2>2
<1>10. dropped' = 0
  BY <1>1
<1> QED BY <1>5, <1>8, <1>9, <1>10

\* Steps that leave the line alone.
LEMMA LineStays ==
  ASSUME LineInv, Line' = Line, UNCHANGED <<rushed, dropped, turn, sent, gaveUp>>,
         handler \in Over => handler' \in Over
  PROVE  LineInv'
<1>1. PICK over : over = (handler \in Over)
  OBVIOUS
<1>2. PICK over2 : over2 = (handler' \in Over)
  OBVIOUS
<1>3. ~rushed => Patient(Line, over, turn, sent, gaveUp)
  BY <1>1 DEF LineInv
<1>4. over => over2
  BY <1>1, <1>2
<1>5. ~rushed => Patient(Line, over2, turn, sent, gaveUp)
  BY <1>3, <1>4, PatientOver, Zenon
<1> QED BY <1>2, <1>5 DEF LineInv

\* The browser's next frame: a message only after it saw the end of the turn
\* of its last one, or gave it up, or it does not wait.
LEMMA LineGains ==
  ASSUME FlowInv, LineInv, NEW f \in Frames, BrowserSends(f)
  PROVE  LineInv'
<1>1. /\ up' = Append(up, f) /\ sent' = (IF f = "user" THEN sent + 1 ELSE sent)
      /\ gaveUp' = (f = "cancel" \/ (f # "user" /\ gaveUp))
      /\ rushed' = (rushed \/ (f = "user" /\ ~Idle))
      /\ UNCHANGED <<cq, reader, rframe, dropped, turn, handler>>
  BY DEF BrowserSends, readerVars, loopVars
<1> SUFFICES ASSUME ~rushed, f = "user" => Idle
             PROVE  dropped' = 0 /\ turn' <= sent' /\ Patient(Line', handler' \in Over, turn', sent', gaveUp')
  BY <1>1 DEF LineInv
<1>2. dropped = 0 /\ turn <= sent /\ Patient(Line, handler \in Over, turn, sent, gaveUp)
  BY DEF LineInv
<1>3. turn \in Int /\ sent \in Int /\ Line \in Seq(Frames) /\ TypeInv
  BY LineType, BridgeBounds DEF FlowInv, TypeInv, Turns
<1>4. Line' = Append(Line, f)
  BY <1>1, <1>3, LineGrows
<1>5. f = "user" => gaveUp \/ (handler \in Over /\ \A i \in DOMAIN Line : Line[i] # "user")
  <2>1. SUFFICES ASSUME f = "user", ~gaveUp
                 PROVE  handler \in Over /\ \A i \in DOMAIN Line : Line[i] # "user"
    OBVIOUS
  <2>2. PICK i \in DOMAIN screen : screen[i].turn = sent /\ screen[i].type \in Terminal
    BY <2>1 DEF Idle
  <2>3. sent <= turn
    BY <2>2 DEF FlowInv, ScreenInv
  <2>4. sent = turn
    BY <1>2, <1>3, <2>3
  <2>5. handler \in Over
    BY <2>2, <2>4 DEF FlowInv, ScreenInv
  <2>6. PICK n \in [DOMAIN Line -> Int] : Numbered(Line, turn, sent, n)
    BY <1>2 DEF Patient
  <2>7. ASSUME NEW k \in DOMAIN Line, Line[k] = "user" PROVE FALSE
    <3>1. n[k] \in Int /\ turn < n[k] /\ n[k] <= sent
      BY <2>6, <2>7 DEF Numbered
    <3> QED BY <1>3, <2>4, <3>1
  <2> QED BY <2>5, <2>7
<1>6. PICK over : over = (handler \in Over)
  OBVIOUS
<1>7. PICK high2 \in Int : high2 = sent'
  BY <1>1, <1>3
<1>8. Patient(Append(Line, f), over, turn, high2, gaveUp')
  <2>1. Patient(Line, over, turn, sent, gaveUp)
    BY <1>2, <1>6
  <2>2. f = "user" => /\ high2 = sent + 1 /\ ~gaveUp'
                      /\ gaveUp \/ (over /\ \A i \in DOMAIN Line : Line[i] # "user")
    BY <1>1, <1>5, <1>6, <1>7
  <2>3. f # "user" => high2 = sent /\ (gaveUp' => gaveUp \/ f = "cancel")
    BY <1>1, <1>7
  <2> QED BY <1>2, <1>3, <2>1, <2>2, <2>3, PatientAppend
<1>9. turn <= sent'
  BY <1>1, <1>2, <1>3
<1> QED BY <1>1, <1>2, <1>4, <1>6, <1>7, <1>8, <1>9

\* Every step keeps the line in order.
LEMMA LineStep == FlowInv /\ FlowInv' /\ LineInv /\ [Next]_vars => LineInv'
<1> SUFFICES ASSUME FlowInv, FlowInv', LineInv, [Next]_vars PROVE LineInv'
  OBVIOUS
<1>0. TypeInv /\ cq \in Seq(Frames) /\ up \in Seq(Frames) /\ rframe \in Frames /\ turn' \in Int
  <2>1. TypeInv /\ TypeInv'
    BY DEF FlowInv
  <2>2. turn' \in Turns
    BY <2>1 DEF TypeInv
  <2>3. Turns \subseteq Int
    BY BridgeBounds DEF Turns
  <2> QED BY <2>1, <2>2, <2>3 DEF TypeInv
<1>1. ASSUME NEW f \in Frames, BrowserSends(f) PROVE LineInv'
  BY <1>1, LineGains
<1>2. ASSUME UNCHANGED <<cq, up, reader, rframe, rushed, dropped, turn, sent, gaveUp>>,
             handler \in Over => handler' \in Over
      PROVE  LineInv'
  <2>1. Line' = Line
    BY <1>2 DEF Line
  <2> QED BY <1>2, <2>1, LineStays
<1>3. CASE BrowserLeaves
  BY <1>2, <1>3 DEF BrowserLeaves, readerVars, loopVars
<1>4. CASE ReaderReads
  <2>1. /\ reader = "read" /\ UNCHANGED <<cq, rushed, dropped, turn, sent, gaveUp, handler>>
    BY <1>4 DEF ReaderReads, loopVars
  <2>2. CASE up # << >> /\ up' = Tail(up) /\ rframe' = Head(up) /\ Head(up) = "junk" /\ reader' = "read"
    <3>1. PICK at \in 1..Len(Line) : at = Len(cq) + 1
      BY <1>0, <2>1, <2>2, LineSkips
    <3>2. PICK P \in Seq(Frames) : P = Line
      BY <1>0, LineType
    <3>3. PICK Q \in Seq(Frames) : Q = Line'
      BY <1>0, <2>1, <2>2, LineSkips
    <3>4. /\ at \in 1..Len(P) /\ P[at] = "junk" /\ Len(Q) = Len(P) - 1
          /\ \A i \in 1..Len(Q) : i < at => Q[i] = P[i]
          /\ \A i \in 1..Len(Q) : i >= at => Q[i] = P[i + 1]
      <4>1. /\ Len(cq) + 1 \in 1..Len(Line) /\ Line[Len(cq) + 1] = Head(up) /\ Line' \in Seq(Frames)
            /\ Len(Line') = Len(Line) - 1
            /\ \A i \in 1..Len(Line') : i < Len(cq) + 1 => Line'[i] = Line[i]
            /\ \A i \in 1..Len(Line') : i >= Len(cq) + 1 => Line'[i] = Line[i + 1]
        BY <1>0, <2>1, <2>2, LineSkips
      <4> QED BY <2>2, <3>1, <3>2, <3>3, <4>1
    <3>5. turn \in Int /\ sent \in Int
      BY BridgeBounds DEF FlowInv, TypeInv, Turns
    <3>6. PICK over : over = (handler \in Over)
      OBVIOUS
    <3>7. ~rushed => Patient(P, over, turn, sent, gaveUp)
      BY <3>2, <3>6 DEF LineInv
    <3>8. ASSUME Patient(P, over, turn, sent, gaveUp) PROVE Patient(Q, over, turn, sent, gaveUp)
      <4>1. ~(P[at] = "user") /\ ~(P[at] = "cancel")
        BY <3>4
      <4> QED BY <3>4, <3>5, <3>8, <4>1, PatientRemoved
    <3> QED BY <2>1, <3>3, <3>6, <3>7, <3>8 DEF LineInv
  <2>3. CASE up # << >> /\ up' = Tail(up) /\ rframe' = Head(up) /\ reader' = "send"
    <3>1. Head(up) \in Frames
      BY <1>0, <2>3, TailFacts
    <3>2. cq \o <<Head(up)>> \o Tail(up) = cq \o << >> \o up
      BY <1>0, <2>3, <3>1, HandOver
    <3>3. Line' = Line
      BY <2>1, <2>3, <3>2 DEF Line
    <3> QED BY <2>1, <3>3, LineStays
  <2>4. CASE reader' = "done" /\ UNCHANGED <<up, rframe>>
    <3>1. Line' = Line
      BY <2>1, <2>4 DEF Line
    <3> QED BY <2>1, <3>1, LineStays
  <2> QED BY <1>4, <2>2, <2>3, <2>4 DEF ReaderReads
<1>5. CASE ReaderSends
  <2>1. /\ reader = "send" /\ reader' = "read" /\ cq' = Append(cq, rframe)
        /\ UNCHANGED <<up, rushed, dropped, turn, sent, gaveUp, handler>>
    BY <1>5 DEF ReaderSends, browserVars, loopVars
  <2>2. Append(cq, rframe) \o << >> \o up = cq \o <<rframe>> \o up
    BY <1>0, HandOver
  <2>3. Line' = Line
    BY <2>1, <2>2 DEF Line
  <2> QED BY <2>1, <2>3, LineStays
<1>6. CASE OpenTurn
  BY <1>2, <1>6 DEF OpenTurn, browserVars, readerVars, Over
<1>7. CASE OnMessage
  BY <1>2, <1>7 DEF OnMessage, browserVars, readerVars, loopVars
<1>8. CASE StreamTimeout
  BY <1>2, <1>8 DEF StreamTimeout, browserVars, readerVars, loopVars
<1>9. CASE PumpClosed
  BY <1>2, <1>9 DEF PumpClosed, Leave, browserVars, readerVars, Over
<1>10. CASE PumpPingFails
  BY <1>2, <1>10 DEF PumpPingFails, Leave, browserVars, readerVars, Over
<1>11. CASE PumpFrame
  <2>1. /\ handler = "pump" /\ cq # << >> /\ cq' = Tail(cq) /\ turn' = turn
        /\ UNCHANGED <<up, rushed, sent, gaveUp, reader, rframe>>
    BY <1>11 DEF PumpFrame, browserVars, readerVars
  <2>2. CASE Head(cq) # "user"
    <3>1. dropped' = dropped /\ handler \notin Over /\ (Head(cq) = "cancel" => handler' \in Over)
      BY <1>11, <2>1, <2>2 DEF PumpFrame, Leave, Over
    <3> QED BY <1>0, <2>1, <2>2, <3>1, LineTakes
  <2>3. CASE Head(cq) = "user"
    <3>1. SUFFICES ASSUME ~rushed PROVE FALSE
      BY <2>1 DEF LineInv
    <3>2. 1 \in DOMAIN Line /\ Line[1] = "user"
      <4>1. 1 \in 1..Len(Line) /\ Line[1] = Head(cq)
        BY <1>0, <2>1, LineShrinks
      <4>2. DOMAIN Line = 1..Len(Line)
        BY <1>0, LineType
      <4> QED BY <2>3, <4>1, <4>2
    <3>3. GivenUp(Line, handler \in Over, 1)
      BY <3>1, <3>2 DEF LineInv, Patient
    <3>4. 1..(1 - 1) = {} /\ handler \notin Over
      BY <2>1 DEF Over
    <3> QED BY <3>3, <3>4 DEF GivenUp
  <2> QED BY <2>2, <2>3
<1>12. CASE PumpEvent
  BY <1>2, <1>12 DEF PumpEvent, Leave, browserVars, readerVars, Over
<1>13. CASE PumpEof
  BY <1>2, <1>13 DEF PumpEof, Leave, browserVars, readerVars, Over
<1>14. CASE Between
  <2>1. handler = "between" /\ UNCHANGED <<up, rushed, sent, gaveUp, reader, rframe, dropped>>
    BY <1>14 DEF Between, browserVars, readerVars
  <2>2. CASE cq # << >> /\ cq' = Tail(cq)
    <3>1. CASE Head(cq) = "user" /\ turn' = turn + 1
      BY <1>0, <2>1, <2>2, <3>1, LineTakes DEF Over
    <3>2. CASE Head(cq) # "user" /\ UNCHANGED <<handler, turn>>
      BY <1>0, <2>1, <2>2, <3>2, LineTakes DEF Over
    <3>3. CASE UNCHANGED cq
      BY <1>0, <2>2, <3>3
    <3> QED BY <1>14, <2>2, <3>1, <3>2, <3>3 DEF Between
  <2>3. CASE handler' = "returned" /\ UNCHANGED <<cq, turn>>
    BY <1>2, <2>1, <2>3 DEF Over
  <2> QED BY <1>14, <2>2, <2>3 DEF Between
<1>15. ASSUME NEW t \in Turns,
              AgentRefuses(t) \/ AgentStarts(t) \/ \E e \in {"data", "complete", "error"} : AgentSends(t, e)
       PROVE  LineInv'
  BY <1>2, <1>15 DEF AgentRefuses, AgentStarts, AgentSends, browserVars, readerVars, loopVars
<1>16. CASE UNCHANGED vars
  BY <1>2, <1>16 DEF vars, browserVars, readerVars, loopVars
<1> QED BY <1>1, <1>3, <1>4, <1>5, <1>6, <1>7, <1>8, <1>9, <1>10, <1>11, <1>12, <1>13, <1>14,
           <1>15, <1>16 DEF Next, Pump

(* A browser that waits for the terminal frame of a turn, or cancels it,    *)
(* before it sends its next message never has that message consumed and     *)
(* ignored by pumpEvents: every message on its way is preceded by what ends *)
(* the turn before it.                                                      *)
THEOREM MessagesKept == Spec => []NoMessageDropped
<1>1. Init => LineInv
  <2> SUFFICES ASSUME Init PROVE LineInv
    OBVIOUS
  <2>1. cq = << >> /\ up = << >> /\ reader # "send" /\ sent = 1 /\ turn = 1 /\ dropped = 0 /\ gaveUp = FALSE
    BY DEF Init
  <2>2. << >> \o << >> \o << >> = << >> /\ DOMAIN << >> = {}
    OBVIOUS
  <2>3. Line = << >>
    BY <2>1, <2>2 DEF Line
  <2>4. [i \in {} |-> 0] \in [{} -> Int]
    OBVIOUS
  <2>5. Patient(Line, handler \in Over, turn, sent, gaveUp)
    BY <2>1, <2>2, <2>3, <2>4 DEF Patient, Numbered
  <2> QED BY <2>1, <2>5 DEF LineInv
<1>2. LineInv => NoMessageDropped
  BY DEF LineInv, NoMessageDropped
<1> QED BY <1>1, <1>2, FlowAlways, LineStep, PTL DEF Spec
================================================================================
