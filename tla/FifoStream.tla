----------------------------- MODULE FifoStream -----------------------------
(***************************************************************************)
(* What the streaming transport promises its two ends, with no transport   *)
(* in sight: the agent says a stream of events (one start, any data, one   *)
(* terminator) and the client hears a prefix of it, in order.  Nothing is  *)
(* promised about how far the client gets: NATS core is at-most-once, and  *)
(* either end may give up.                                                 *)
(***************************************************************************)
EXTENDS Naturals, Sequences

VARIABLES said,    \* the events the agent side has emitted, in order
          heard    \* the events handed to the client's reader, in order

Terminators == {"complete", "error"}
EventTypes  == {"start", "data"} \cup Terminators

Init == said = << >> /\ heard = << >>

\* The grammar start data* terminator, one event at a time.
Say ==
  \E e \in EventTypes :
    /\ (e = "start") <=> (said = << >>)
    /\ \A i \in DOMAIN said : said[i] \notin Terminators
    /\ said' = Append(said, e)
    /\ UNCHANGED heard

\* The client is handed the next event the agent said, never another one.
Hear ==
  /\ Len(heard) < Len(said)
  /\ heard' = Append(heard, said[Len(heard) + 1])
  /\ UNCHANGED said

Next == Say \/ Hear

Spec == Init /\ [][Next]_<<said, heard>>
=============================================================================
