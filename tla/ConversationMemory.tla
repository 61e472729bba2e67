------------------------- MODULE ConversationMemory -------------------------
(***************************************************************************)
(* What the agent loop relies on of a conversation memory, whichever node  *)
(* provides it: an Append stores its turn whole, in one step, or not at    *)
(* all, and what it returns says which; a turn once stored is only ever    *)
(* forgotten by a memory that forgets, message by message.                 *)
(***************************************************************************)
EXTENDS Naturals

CONSTANT Appends
VARIABLES kept,      \* the messages stored of each turn
          returned,  \* what each Append returned
          forgets    \* this memory forgets

memory == <<kept, returned, forgets>>

Roles == {"user", "assistant"}
Errors == {"failed", "exhausted"}

Init == /\ kept = [a \in Appends |-> {}]
        /\ returned = [a \in Appends |-> "nothing"]
        /\ forgets \in BOOLEAN

\* "lost": an error is returned although the turn is stored.
Store(a) ==
  /\ returned[a] = "nothing"
  /\ kept' = [kept EXCEPT ![a] = Roles]
  /\ \E r \in {"ok", "lost"} : returned' = [returned EXCEPT ![a] = r]
  /\ UNCHANGED forgets

Refuse(a) ==
  /\ returned[a] = "nothing"
  /\ \E r \in Errors : returned' = [returned EXCEPT ![a] = r]
  /\ UNCHANGED <<kept, forgets>>

Forget(a) ==
  /\ forgets
  /\ \E role \in kept[a] : kept' = [kept EXCEPT ![a] = @ \ {role}]
  /\ UNCHANGED <<returned, forgets>>

Next == \E a \in Appends : Store(a) \/ Refuse(a) \/ Forget(a)

Spec == Init /\ [][Next]_memory
=============================================================================
