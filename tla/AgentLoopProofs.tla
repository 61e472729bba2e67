---------------------------- MODULE AgentLoopProofs ----------------------------
(***************************************************************************)
(* Proofs about the LLM <-> tool loop: what the conversation remembers     *)
(* agrees with what its turns were told, every request sent to the LLM is  *)
(* one that it accepts, completed turns are true to the charts rendered,   *)
(* and a turn takes a bounded number of steps.                             *)
(*                                                                         *)
(* Where what a sequence holds is not needed, it is only known to be one   *)
(* (Listed).                                                               *)
(***************************************************************************)
EXTENDS AgentLoop, FiniteSetTheorems, WellFoundedInduction, TLAPS

-----------------------------------------------------------------------------
(* Sequences.                                                               *)

Listed(q) == \E S : q \in Seq(S)

\* What appending an element does.
LEMMA AppendFacts ==
  ASSUME NEW q, Listed(q), NEW x
  PROVE  /\ Listed(Append(q, x)) /\ Len(q) \in Nat /\ Len(Append(q, x)) = Len(q) + 1
         /\ DOMAIN q = 1..Len(q) /\ DOMAIN Append(q, x) = 1..(Len(q) + 1)
         /\ Append(q, x)[Len(q) + 1] = x
         /\ \A i \in 1..Len(q) : Append(q, x)[i] = q[i]
<1>1. PICK S : q \in Seq(S)
  BY DEF Listed
<1>2. PICK T : T = S \cup {x}
  OBVIOUS
<1>3. q \in Seq(T) /\ x \in T
  BY <1>1, <1>2
<1>4. /\ Append(q, x) \in Seq(T) /\ Len(q) \in Nat /\ Len(Append(q, x)) = Len(q) + 1
      /\ Append(q, x)[Len(q) + 1] = x
      /\ \A i \in 1..Len(q) : Append(q, x)[i] = q[i]
      /\ DOMAIN q = 1..Len(q)
  BY <1>3
<1>5. DOMAIN Append(q, x) = 1..Len(Append(q, x))
  BY <1>4
<1> QED BY <1>4, <1>5 DEF Listed

\* Two elements at the end are one after the other.
LEMMA AppendTwo ==
  ASSUME NEW q, Listed(q), NEW x, NEW y
  PROVE  q \o <<x, y>> = Append(Append(q, x), y)
<1>1. PICK S : q \in Seq(S)
  BY DEF Listed
<1>2. PICK T : T = S \cup {x, y}
  OBVIOUS
<1>3. q \in Seq(T) /\ x \in T /\ y \in T
  BY <1>1, <1>2
<1> DEFINE a == q \o <<x, y>>
           b == Append(Append(q, x), y)
<1>4. /\ a \in Seq(T) /\ Len(a) = Len(q) + 2 /\ Len(q) \in Nat
      /\ \A i \in 1..Len(q) : a[i] = q[i]
      /\ a[Len(q) + 1] = x /\ a[Len(q) + 2] = y
  <2>1. PICK w \in Seq(T) : w = <<x, y>>
    <3>1. <<x, y>> \in Seq(T)
      BY <1>3
    <3> QED BY <3>1
  <2>2. Len(w) = 2 /\ w[1] = x /\ w[2] = y
    BY <2>1
  <2>3. /\ q \o w \in Seq(T) /\ Len(q \o w) = Len(q) + Len(w) /\ Len(q) \in Nat
        /\ \A i \in 1..Len(q) : (q \o w)[i] = q[i]
        /\ \A i \in 1..Len(w) : (q \o w)[Len(q) + i] = w[i]
    BY <1>3
  <2> QED BY <2>1, <2>2, <2>3
<1>5. /\ b \in Seq(T) /\ Len(b) = Len(q) + 2
      /\ \A i \in 1..Len(q) : b[i] = q[i]
      /\ b[Len(q) + 1] = x /\ b[Len(q) + 2] = y
  BY <1>3
<1> HIDE DEF a, b
<1>6. a = [i \in 1..Len(a) |-> a[i]] /\ b = [i \in 1..Len(b) |-> b[i]]
  BY <1>4, <1>5
<1>7. \A i \in 1..Len(a) : a[i] = b[i]
  BY <1>4, <1>5
<1>8. a = b
  BY <1>4, <1>5, <1>6, <1>7
<1> QED BY <1>8 DEF a, b

\* A sequence of bounded length is a sequence.
LEMMA BoundedListed ==
  ASSUME NEW S, NEW n \in Nat, NEW q \in BoundedSeq(S, n)
  PROVE  Listed(q) /\ q \in Seq(S)
BY DEF BoundedSeq, SeqOf, Listed

-----------------------------------------------------------------------------
(* Memory and stream.                                                       *)

\* A completed turn is remembered with its text; a remembered turn is an
\* earlier conversation's, or a past turn that completed or said that it
\* could not be sure to be remembered.
MemoryInv ==
  /\ Listed(turns) /\ Listed(memory)
  /\ HasMemory =>
       /\ \A i \in DOMAIN turns : turns[i].kind = "complete" =>
            \E j \in DOMAIN memory : memory[j] = [turn |-> i, text |-> turns[i].text]
       /\ \A j \in DOMAIN memory :
            \/ memory[j].turn = 0
            \/ /\ memory[j].turn \in DOMAIN turns
               /\ turns[memory[j].turn].kind = "complete"
                    \/ turns[memory[j].turn].code = "memory-append"

\* A turn ends without touching memory: it did not complete, or there is none.
LEMMA EndsUnremembered ==
  ASSUME MemoryInv, NEW kind, NEW code, NEW text, Ended(kind, code, text), memory' = memory,
         HasMemory => kind # "complete"
  PROVE  MemoryInv'
<1>1. PICK x : /\ turns' = Append(turns, x)
               /\ x.kind = kind /\ x.code = code /\ x.text = text
  <2> DEFINE x == [kind |-> kind, code |-> code, text |-> text, produced |-> produced,
                   recall |-> recallForced, preserved |-> preserved]
  <2>1. turns' = Append(turns, x)
    BY DEF Ended
  <2>2. x.kind = kind /\ x.code = code /\ x.text = text
    OBVIOUS
  <2> QED BY <2>1, <2>2
<1>2. /\ Listed(turns') /\ Len(turns) \in Nat /\ DOMAIN turns = 1..Len(turns)
      /\ DOMAIN turns' = 1..(Len(turns) + 1) /\ turns'[Len(turns) + 1] = x
      /\ \A i \in 1..Len(turns) : turns'[i] = turns[i]
  BY <1>1, AppendFacts DEF MemoryInv
<1>3. \A i \in DOMAIN turns' : i \in DOMAIN turns \/ i = Len(turns) + 1
  BY <1>2
<1>4. ASSUME HasMemory, NEW i \in DOMAIN turns', turns'[i].kind = "complete"
      PROVE  \E j \in DOMAIN memory : memory[j] = [turn |-> i, text |-> turns'[i].text]
  <2>1. i \in DOMAIN turns /\ turns'[i] = turns[i]
    BY <1>1, <1>2, <1>3, <1>4
  <2> QED BY <1>4, <2>1 DEF MemoryInv
<1>5. \A i \in DOMAIN turns : i \in DOMAIN turns' /\ turns'[i] = turns[i]
  BY <1>2
<1>6. ASSUME HasMemory, NEW j \in DOMAIN memory
      PROVE  \/ memory[j].turn = 0
             \/ /\ memory[j].turn \in DOMAIN turns'
                /\ turns'[memory[j].turn].kind = "complete"
                     \/ turns'[memory[j].turn].code = "memory-append"
  BY <1>5, <1>6 DEF MemoryInv
<1> QED BY <1>2, <1>4, <1>6 DEF MemoryInv

\* A turn ends and is remembered.
LEMMA EndsRemembered ==
  ASSUME MemoryInv, NEW kind, NEW code, NEW text, Ended(kind, code, text), Stored,
         \/ kind = "complete" /\ text = final
         \/ kind # "complete" /\ code = "memory-append"
  PROVE  MemoryInv'
<1>1. PICK x : /\ turns' = Append(turns, x)
               /\ x.kind = kind /\ x.code = code /\ x.text = text
  <2> DEFINE x == [kind |-> kind, code |-> code, text |-> text, produced |-> produced,
                   recall |-> recallForced, preserved |-> preserved]
  <2>1. turns' = Append(turns, x)
    BY DEF Ended
  <2>2. x.kind = kind /\ x.code = code /\ x.text = text
    OBVIOUS
  <2> QED BY <2>1, <2>2
<1>2. /\ Listed(turns') /\ Len(turns) \in Nat /\ DOMAIN turns = 1..Len(turns)
      /\ DOMAIN turns' = 1..(Len(turns) + 1) /\ turns'[Len(turns) + 1] = x
      /\ \A i \in 1..Len(turns) : turns'[i] = turns[i]
  BY <1>1, AppendFacts DEF MemoryInv
<1>3. PICK y : /\ memory' = Append(memory, y)
               /\ y = [turn |-> Len(turns) + 1, text |-> final] /\ y.turn = Len(turns) + 1
  BY DEF Stored
<1>4. /\ Listed(memory') /\ Len(memory) \in Nat /\ DOMAIN memory = 1..Len(memory)
      /\ DOMAIN memory' = 1..(Len(memory) + 1) /\ memory'[Len(memory) + 1] = y
      /\ \A i \in 1..Len(memory) : memory'[i] = memory[i]
  BY <1>3, AppendFacts DEF MemoryInv
<1>5. /\ \A i \in DOMAIN turns : i \in DOMAIN turns' /\ turns'[i] = turns[i]
      /\ \A i \in DOMAIN turns' : i \in DOMAIN turns \/ i = Len(turns) + 1
      /\ Len(turns) + 1 \in DOMAIN turns'
  BY <1>2
<1>6. /\ \A j \in DOMAIN memory : j \in DOMAIN memory' /\ memory'[j] = memory[j]
      /\ \A j \in DOMAIN memory' : j \in DOMAIN memory \/ j = Len(memory) + 1
      /\ Len(memory) + 1 \in DOMAIN memory'
  BY <1>4
<1>7. ASSUME HasMemory, NEW i \in DOMAIN turns', turns'[i].kind = "complete"
      PROVE  \E j \in DOMAIN memory' : memory'[j] = [turn |-> i, text |-> turns'[i].text]
  <2>1. CASE i \in DOMAIN turns
    <3>1. turns'[i] = turns[i]
      BY <1>5, <2>1
    <3>2. PICK j \in DOMAIN memory : memory[j] = [turn |-> i, text |-> turns[i].text]
      BY <1>7, <2>1, <3>1 DEF MemoryInv
    <3> QED BY <1>6, <3>1, <3>2
  <2>2. CASE i = Len(turns) + 1
    <3>1. turns'[i] = x /\ kind = "complete" /\ text = final
      BY <1>1, <1>2, <1>7, <2>2
    <3>2. y = [turn |-> i, text |-> turns'[i].text]
      BY <1>1, <1>3, <2>2, <3>1
    <3> QED BY <1>4, <1>6, <3>2
  <2> QED BY <1>5, <2>1, <2>2
<1>8. ASSUME HasMemory, NEW j \in DOMAIN memory'
      PROVE  \/ memory'[j].turn = 0
             \/ /\ memory'[j].turn \in DOMAIN turns'
                /\ turns'[memory'[j].turn].kind = "complete"
                     \/ turns'[memory'[j].turn].code = "memory-append"
  <2>1. CASE j \in DOMAIN memory
    <3>1. memory'[j] = memory[j]
      BY <1>6, <2>1
    <3>2. \/ memory[j].turn = 0
          \/ /\ memory[j].turn \in DOMAIN turns
             /\ turns[memory[j].turn].kind = "complete" \/ turns[memory[j].turn].code = "memory-append"
      BY <1>8, <2>1 DEF MemoryInv
    <3> QED BY <1>5, <3>1, <3>2
  <2>2. CASE j = Len(memory) + 1
    <3>1. memory'[j].turn = Len(turns) + 1
      BY <1>3, <1>4, <2>2
    <3>2. turns'[Len(turns) + 1].kind = "complete" \/ turns'[Len(turns) + 1].code = "memory-append"
      BY <1>1, <1>2
    <3> QED BY <1>5, <3>1, <3>2
  <2> QED BY <1>6, <2>1, <2>2
<1> QED BY <1>2, <1>4, <1>7, <1>8 DEF MemoryInv

\* Every step keeps memory and stream in agreement.
LEMMA MemoryStep == MemoryInv /\ [Next]_vars => MemoryInv'
<1> SUFFICES ASSUME MemoryInv, [Next]_vars PROVE MemoryInv'
  OBVIOUS
<1>1. ASSUME UNCHANGED <<turns, memory>> PROVE MemoryInv'
  BY <1>1 DEF MemoryInv
<1>2. ASSUME NEW code, failStream(code) PROVE MemoryInv'
  <2>1. Ended("error", code, NoText) /\ memory' = memory
    BY <1>2 DEF failStream
  <2> QED BY <2>1, EndsUnremembered
<1>3. CASE Request \/ CtxEnds \/ Load \/ UNCHANGED vars
  BY <1>1, <1>3 DEF Request, CtxEnds, Load, vars
<1>4. CASE LoadFails \/ LoopExits \/ LLMFails \/ ToolFatal
  BY <1>2, <1>4 DEF LoadFails, LoopExits, LLMFails, ToolFatal
<1>5. CASE LLM
  BY <1>1, <1>5 DEF LLM, EmptyAnswer, ChartRecall, Answer, ToolRound
<1>6. CASE ToolRefused \/ ToolSucceeds \/ ToolFails \/ ToolsDone
  BY <1>1, <1>6 DEF ToolRefused, ToolSucceeds, ToolFails, ToolsDone
<1>7. CASE completeStream
  <2>1. CASE ~HasMemory /\ memory' = memory /\ Ended("complete", "", final)
    BY <2>1, EndsUnremembered
  <2>2. CASE HasMemory /\ Stored /\ Ended("complete", "", final)
    BY <2>2, EndsRemembered
  <2>3. CASE HasMemory /\ Stored /\ Ended("error", "memory-append", NoText)
    BY <2>3, EndsRemembered
  <2>4. CASE HasMemory /\ memory' = memory /\ Ended("error", "memory-append", NoText)
    BY <2>4, EndsUnremembered
  <2> QED BY <1>7, <2>1, <2>2, <2>3, <2>4 DEF completeStream
<1> QED BY <1>3, <1>4, <1>5, <1>6, <1>7 DEF Next, Process

\* At first memory holds at most an earlier conversation.
LEMMA MemoryInit == Init => MemoryInv
<1> SUFFICES ASSUME Init PROVE MemoryInv
  OBVIOUS
<1>1. turns = << >> /\ memory \in Earlier
  BY DEF Init
<1>2. Listed(<< >>) /\ DOMAIN << >> = {}
  <2>1. << >> \in Seq({})
    OBVIOUS
  <2> QED BY <2>1 DEF Listed
<1>3. CASE memory = << >>
  BY <1>1, <1>2, <1>3 DEF MemoryInv
<1>4. CASE memory = <<[turn |-> 0, text |-> NoText]>>
  <2>1. PICK y : y = [turn |-> 0, text |-> NoText]
    OBVIOUS
  <2>0. y.turn = 0
    BY <2>1
  <2>2. <<y>> \in Seq({y}) /\ DOMAIN <<y>> = {1} /\ <<y>>[1] = y
    OBVIOUS
  <2> QED BY <1>1, <1>2, <1>4, <2>0, <2>1, <2>2 DEF MemoryInv, Listed
<1> QED BY <1>1, <1>3, <1>4 DEF Earlier

(* completeStream's order, over any number of turns: every completed turn   *)
(* is remembered with the text that was shown, and a remembered turn was    *)
(* completed or reported as memory-append, whatever failed, timed out or    *)
(* was cancelled in between.                                                *)
THEOREM MemoryTrue == Spec => []MemoryMatchesStream
<1>1. MemoryInv => MemoryMatchesStream
  BY DEF MemoryInv, MemoryMatchesStream, Completed, ToSet
<1> QED BY <1>1, MemoryInit, MemoryStep, PTL DEF Spec

-----------------------------------------------------------------------------
(* The messages of the next LLM request.                                    *)

\* An assistant message whose calls have no results yet.
Open(m) == m.uses > 0 /\ ~m.over

\* Every call but those of the last message has its result.
Answered(q) == \A i \in 1..(Len(q) - 1) : Open(q[i]) => q[i + 1].results = q[i].uses

\* A message without content is one that memory holds.
Recalled(q, mem) == \A i \in DOMAIN q : q[i].empty => \E j \in DOMAIN mem : Empty(mem[j].text)

RequestInv ==
  /\ Listed(msgs) /\ Listed(calls) /\ Listed(memory) /\ results \in Nat
  /\ pc \in {"idle", "load", "llm", "tools", "append"}
  /\ recallActive => recallForced
  /\ Answered(msgs)
  /\ pc = "llm" => msgs # << >> /\ ~Open(msgs[Len(msgs)])
  /\ pc = "tools" => /\ msgs # << >> /\ msgs[Len(msgs)].uses > 0
                     /\ results + Len(calls) = msgs[Len(msgs)].uses
  /\ pc \in {"llm", "tools"} => Recalled(msgs, memory)

\* One more message, after one whose calls are answered by it.
LEMMA AnsweredMore ==
  ASSUME NEW q, Listed(q), Answered(q), NEW m,
         q # << >> /\ Open(q[Len(q)]) => m.results = q[Len(q)].uses
  PROVE  Answered(Append(q, m))
<1>1. /\ Listed(Append(q, m)) /\ Len(q) \in Nat /\ Len(Append(q, m)) = Len(q) + 1
      /\ DOMAIN q = 1..Len(q) /\ Append(q, m)[Len(q) + 1] = m
      /\ \A i \in 1..Len(q) : Append(q, m)[i] = q[i]
  BY AppendFacts
<1>2. PICK p : p = Append(q, m)
  OBVIOUS
<1>3. ASSUME NEW i \in 1..(Len(p) - 1), Open(p[i]) PROVE p[i + 1].results = p[i].uses
  <2>1. CASE i \in 1..(Len(q) - 1)
    <3>1. i \in 1..Len(q) /\ i + 1 \in 1..Len(q)
      BY <1>1, <2>1
    <3>2. p[i] = q[i] /\ p[i + 1] = q[i + 1]
      BY <1>1, <1>2, <3>1
    <3> QED BY <1>3, <2>1, <3>2 DEF Answered
  <2>2. CASE i = Len(q)
    <3>1. i \in 1..Len(q) /\ q # << >>
      BY <1>1, <1>2, <1>3, <2>2
    <3>2. p[i] = q[Len(q)] /\ p[i + 1] = m
      BY <1>1, <1>2, <2>2, <3>1
    <3> QED BY <1>3, <3>1, <3>2
  <2>3. Len(p) = Len(q) + 1 /\ Len(q) \in Nat
    BY <1>1, <1>2
  <2>4. i \in 1..(Len(q) - 1) \/ i = Len(q)
    BY <2>3
  <2> QED BY <2>1, <2>2, <2>4
<1> QED BY <1>2, <1>3 DEF Answered

\* One more message that is not empty.
LEMMA RecalledMore ==
  ASSUME NEW q, Listed(q), NEW mem, Recalled(q, mem), NEW m, ~m.empty
  PROVE  Recalled(Append(q, m), mem)
<1>1. /\ Len(q) \in Nat /\ DOMAIN q = 1..Len(q) /\ DOMAIN Append(q, m) = 1..(Len(q) + 1)
      /\ Append(q, m)[Len(q) + 1] = m
      /\ \A i \in 1..Len(q) : Append(q, m)[i] = q[i]
  BY AppendFacts
<1>2. \A i \in 1..(Len(q) + 1) : i \in 1..Len(q) \/ i = Len(q) + 1
  BY <1>1
<1> QED BY <1>1, <1>2 DEF Recalled

\* A turn that ends leaves no request behind.
LEMMA RequestEnds ==
  ASSUME RequestInv, NEW kind, NEW code, NEW text, Ended(kind, code, text), Listed(memory')
  PROVE  RequestInv'
<1>1. /\ pc' = "idle" /\ msgs' = << >> /\ calls' = << >> /\ results' = 0 /\ recallActive' = FALSE
  BY DEF Ended
<1>2. Listed(<< >>) /\ Answered(<< >>)
  <2>1. << >> \in Seq({}) /\ Len(<< >>) = 0 /\ 1..(0 - 1) = {}
    OBVIOUS
  <2> QED BY <2>1 DEF Listed, Answered
<1> QED BY <1>1, <1>2 DEF RequestInv

\* The messages built from memory: every other one is a remembered answer.
LEMMA RequestLoads ==
  ASSUME RequestInv, Load
  PROVE  RequestInv'
<1> DEFINE n == 2 * Len(memory) + 1
<1>1. /\ pc' = "llm" /\ UNCHANGED <<memory, calls, results, recallActive, recallForced>>
      /\ msgs' = [i \in 1..n |-> IF i % 2 = 0 THEN Remembered(memory[i \div 2].text) ELSE UserText]
  BY DEF Load, loopVars, toolVars
<1>2. Len(memory) \in Nat /\ DOMAIN memory = 1..Len(memory)
  BY AppendFacts DEF RequestInv
<1>3. n \in Nat /\ n > 0 /\ n % 2 # 0
  BY <1>2
<1>4. \A i \in 1..n : i % 2 = 0 => i \div 2 \in DOMAIN memory
  BY <1>2
<1> HIDE DEF n
<1>5. /\ DOMAIN msgs' = 1..n /\ Len(msgs') = n /\ Listed(msgs') /\ msgs' # << >>
  <2>1. PICK S : S = {UserText} \cup {Remembered(memory[j].text) : j \in DOMAIN memory}
    OBVIOUS
  <2>2. \A i \in 1..n : (IF i % 2 = 0 THEN Remembered(memory[i \div 2].text) ELSE UserText) \in S
    BY <1>4, <2>1
  <2>3. msgs' \in [1..n -> S]
    BY <1>1, <2>2
  <2>4. msgs' \in Seq(S) /\ Len(msgs') = n
    BY <1>3, <2>3
  <2> QED BY <1>3, <2>3, <2>4 DEF Listed
<1>6. \A i \in 1..n : \/ msgs'[i] = UserText
                      \/ \E j \in DOMAIN memory : msgs'[i] = Remembered(memory[j].text)
  BY <1>1, <1>4
<1>7. msgs'[n] = UserText
  BY <1>1, <1>3
<1>8. \A i \in 1..n : /\ msgs'[i].uses = 0
                      /\ msgs'[i].empty => \E j \in DOMAIN memory : Empty(memory[j].text)
  <2>1. UserText.uses = 0 /\ UserText.empty = FALSE
    BY DEF UserText
  <2>2. ASSUME NEW t PROVE Remembered(t).uses = 0 /\ Remembered(t).empty = Empty(t)
    BY DEF Remembered
  <2> QED BY <1>6, <2>1, <2>2
<1>9. \A i \in 1..n : ~Open(msgs'[i])
  BY <1>8 DEF Open
<1>10. Answered(msgs') /\ ~Open(msgs'[Len(msgs')])
  <2>1. \A i \in 1..(Len(msgs') - 1) : i \in 1..n
    BY <1>3, <1>5
  <2>2. n \in 1..n
    BY <1>3
  <2> QED BY <1>5, <1>9, <2>1, <2>2 DEF Answered
<1>11. Recalled(msgs', memory)
  BY <1>5, <1>8 DEF Recalled
<1> QED BY <1>1, <1>5, <1>10, <1>11 DEF RequestInv

\* An answer that is nudged or recalled: the assistant message and a user one.
LEMMA RequestAsksAgain ==
  ASSUME RequestInv, NEW m, ~m.empty, ~Open(m), pc = "llm",
         msgs' = msgs \o <<m, UserText>>, recallActive' => recallForced',
         UNCHANGED <<pc, memory, calls, results>>
  PROVE  RequestInv'
<1>1. Listed(msgs) /\ Answered(msgs) /\ msgs # << >> /\ ~Open(msgs[Len(msgs)]) /\ Recalled(msgs, memory)
  BY DEF RequestInv
<1>2. PICK p : p = Append(msgs, m)
  OBVIOUS
<1>3. PICK q : q = Append(p, UserText)
  OBVIOUS
<1>4. msgs' = q
  BY <1>1, <1>2, <1>3, AppendTwo
<1>5. UserText.empty = FALSE /\ UserText.uses = 0 /\ ~Open(UserText)
  BY DEF UserText, Open
<1>6. /\ Listed(p) /\ Len(p) = Len(msgs) + 1 /\ p[Len(p)] = m
  BY <1>1, <1>2, AppendFacts
<1>7. Answered(p) /\ Recalled(p, memory)
  BY <1>1, <1>2, AnsweredMore, RecalledMore
<1>8. /\ Listed(q) /\ Len(q) = Len(p) + 1 /\ q[Len(q)] = UserText /\ Len(p) \in Nat
      /\ DOMAIN q = 1..(Len(p) + 1)
  BY <1>3, <1>6, AppendFacts
<1>9. Answered(q) /\ Recalled(q, memory)
  BY <1>3, <1>5, <1>6, <1>7, AnsweredMore, RecalledMore
<1>10. q # << >>
  BY <1>8
<1> QED BY <1>4, <1>5, <1>8, <1>9, <1>10 DEF RequestInv

\* What an assistant message says of the reply it holds.
LEMMA AssistantFacts ==
  ASSUME NEW r \in Replies
  PROVE  /\ Listed(r.calls) /\ r.calls \in Seq(Tools) /\ r.text \in Texts
         /\ Assistant(r).uses = Len(r.calls) /\ Len(r.calls) \in Nat
         /\ Assistant(r).over = (r.stop = "end_turn")
         /\ Assistant(r).empty = (Empty(r.text) /\ r.calls = << >>)
         /\ [Assistant(r) EXCEPT !.empty = FALSE].empty = FALSE
         /\ [Assistant(r) EXCEPT !.empty = FALSE].uses = Assistant(r).uses
         /\ [Assistant(r) EXCEPT !.empty = FALSE].over = Assistant(r).over
         /\ r.calls # << >> => Len(r.calls) > 0
         /\ r.calls = << >> => Len(r.calls) = 0
<1>1. r.calls \in BoundedSeq(Tools, MaxCalls) /\ r.text \in Texts
  BY DEF Replies
<1>2. Listed(r.calls) /\ r.calls \in Seq(Tools)
  BY <1>1, BoundedListed, LoopBounds
<1>3. Len(r.calls) \in Nat /\ (r.calls # << >> => Len(r.calls) > 0) /\ (r.calls = << >> => Len(r.calls) = 0)
  BY <1>2
<1>4. /\ Assistant(r).uses = Len(r.calls) /\ Assistant(r).over = (r.stop = "end_turn")
      /\ Assistant(r).empty = (Empty(r.text) /\ r.calls = << >>)
  BY DEF Assistant
<1>5. /\ [Assistant(r) EXCEPT !.empty = FALSE].empty = FALSE
      /\ [Assistant(r) EXCEPT !.empty = FALSE].uses = Assistant(r).uses
      /\ [Assistant(r) EXCEPT !.empty = FALSE].over = Assistant(r).over
  BY DEF Assistant
<1> QED BY <1>1, <1>2, <1>3, <1>4, <1>5

\* A reply that ends the turn asks for no results.
LEMMA OverIsClosed ==
  ASSUME NEW r \in Replies, TurnOver(r)
  PROVE  ~Open(Assistant(r)) /\ ~Open([Assistant(r) EXCEPT !.empty = FALSE])
<1>1. CASE r.stop = "end_turn"
  BY <1>1, AssistantFacts DEF Open
<1>2. CASE r.calls = << >>
  <2>1. Assistant(r).uses = 0 /\ [Assistant(r) EXCEPT !.empty = FALSE].uses = 0
    BY <1>2, AssistantFacts
  <2> QED BY <2>1 DEF Open
<1> QED BY <1>1, <1>2 DEF TurnOver

\* A recalled answer is not empty: an empty one names no chart.
LEMMA RecallShows ==
  ASSUME RequestInv, NEW r \in Replies, ~Nudges(r), Recalls(r)
  PROVE  ~Assistant(r).empty
<1>1. ~recallForced /\ ~recallActive
  BY DEF Recalls, RequestInv
<1>2. Cardinality(missingChartKeys(r.text, produced)) = 1
  BY <1>1 DEF Recalls, AnswerOf
<1>3. ASSUME Empty(r.text) PROVE FALSE
  <2>1. r.text.imgs = << >> /\ r.text.links = {}
    BY <1>3 DEF Empty, NoText
  <2>2. DOMAIN << >> = {}
    OBVIOUS
  <2>3. extractChartKeys(r.text) = {}
    BY <2>1, <2>2 DEF extractChartKeys, ToSet
  <2>4. missingChartKeys(r.text, produced) = {}
    BY <2>3 DEF missingChartKeys
  <2>5. Cardinality({}) = 0
    BY FS_EmptySet
  <2> QED BY <1>2, <2>4, <2>5
<1> QED BY <1>3, AssistantFacts

\* One more message, whatever comes next.
LEMMA RequestSays ==
  ASSUME RequestInv, NEW m, pc \in {"llm", "tools"}, msgs' = Append(msgs, m),
         Open(msgs[Len(msgs)]) => m.results = msgs[Len(msgs)].uses
  PROVE  /\ Listed(msgs') /\ Answered(msgs') /\ msgs' # << >> /\ msgs'[Len(msgs')] = m
         /\ ~m.empty => Recalled(msgs', memory)
<1>1. Listed(msgs) /\ Answered(msgs) /\ Recalled(msgs, memory)
  BY DEF RequestInv
<1>2. /\ Listed(msgs') /\ Len(msgs) \in Nat /\ Len(msgs') = Len(msgs) + 1
      /\ msgs'[Len(msgs) + 1] = m
  BY <1>1, AppendFacts
<1>3. Answered(msgs')
  BY <1>1, AnsweredMore
<1>4. ~m.empty => Recalled(msgs', memory)
  BY <1>1, RecalledMore
<1>5. msgs' # << >>
  BY <1>2
<1> QED BY <1>2, <1>3, <1>4, <1>5

\* What the LLM may reply.
LEMMA RequestReplies ==
  ASSUME RequestInv, LLM
  PROVE  RequestInv'
<1>1. PICK r \in Replies : EmptyAnswer(r) \/ ChartRecall(r) \/ Answer(r) \/ ToolRound(r)
  BY DEF LLM
<1>2. pc = "llm" /\ msgs # << >> /\ ~Open(msgs[Len(msgs)]) /\ Listed(memory)
  BY DEF LLM, RequestInv
<1>3. CASE EmptyAnswer(r)
  <2> DEFINE m == [Assistant(r) EXCEPT !.empty = FALSE]
  <2>1. /\ TurnOver(r) /\ msgs' = msgs \o <<m, UserText>>
        /\ UNCHANGED <<pc, memory, calls, results, recallActive, recallForced>>
    BY <1>3 DEF EmptyAnswer, toolVars
  <2>2. ~m.empty /\ ~Open(m)
    BY <2>1, AssistantFacts, OverIsClosed
  <2> HIDE DEF m
  <2>3. recallActive' => recallForced'
    BY <2>1 DEF RequestInv
  <2> QED BY <1>2, <2>1, <2>2, <2>3, RequestAsksAgain
<1>4. CASE ChartRecall(r)
  <2>1. /\ TurnOver(r) /\ ~Nudges(r) /\ Recalls(r) /\ msgs' = msgs \o <<Assistant(r), UserText>>
        /\ recallForced' = TRUE /\ UNCHANGED <<pc, memory, calls, results>>
    BY <1>4 DEF ChartRecall, toolVars
  <2>2. ~Assistant(r).empty /\ ~Open(Assistant(r))
    BY <2>1, RecallShows, OverIsClosed
  <2> QED BY <1>2, <2>1, <2>2, RequestAsksAgain
<1>5. CASE Answer(r)
  <2>1. /\ pc' = "append" /\ msgs' = << >> /\ recallActive' = FALSE
        /\ UNCHANGED <<memory, calls, results>>
    BY <1>5 DEF Answer, toolVars
  <2>2. Listed(msgs') /\ Answered(msgs')
    <3>1. << >> \in Seq({}) /\ Len(<< >>) = 0 /\ 1..(0 - 1) = {}
      OBVIOUS
    <3> QED BY <2>1, <3>1 DEF Listed, Answered
  <2> QED BY <2>1, <2>2 DEF RequestInv
<1>6. CASE ToolRound(r)
  <2>1. /\ ~TurnOver(r) /\ calls' = r.calls /\ results' = 0 /\ pc' = "tools"
        /\ msgs' = Append(msgs, Assistant(r))
        /\ UNCHANGED <<memory, recallActive, recallForced>>
    BY <1>6 DEF ToolRound, loopVars
  <2>2. r.calls # << >> /\ ~Assistant(r).empty /\ Listed(r.calls)
        /\ Assistant(r).uses = Len(r.calls) /\ Len(r.calls) \in Nat /\ Len(r.calls) > 0
    BY <2>1, AssistantFacts DEF TurnOver
  <2>3. /\ Listed(msgs') /\ Answered(msgs') /\ msgs' # << >> /\ msgs'[Len(msgs')] = Assistant(r)
        /\ Recalled(msgs', memory)
    BY <1>2, <2>1, <2>2, RequestSays
  <2>4. results' + Len(calls') = msgs'[Len(msgs')].uses /\ msgs'[Len(msgs')].uses > 0
    BY <2>1, <2>2, <2>3
  <2>5. recallActive' => recallForced'
    BY <2>1 DEF RequestInv
  <2> QED BY <1>2, <2>1, <2>2, <2>3, <2>4, <2>5 DEF RequestInv
<1> QED BY <1>1, <1>3, <1>4, <1>5, <1>6

\* One call answered, in whatever way.
LEMMA RequestResult ==
  ASSUME RequestInv, pc = "tools", calls # << >>, NEW t, NEW keys, Result(t, keys),
         UNCHANGED <<pc, memory, msgs, recallActive, recallForced>>
  PROVE  RequestInv'
<1>1. calls' = Tail(calls) /\ results' = results + 1
  BY DEF Result
<1>2. PICK S : calls \in Seq(S)
  BY DEF RequestInv, Listed
<1>3. calls' \in Seq(S) /\ Len(calls') = Len(calls) - 1 /\ Len(calls) \in Nat
  BY <1>1, <1>2
<1>4. results' \in Nat /\ results' + Len(calls') = results + Len(calls)
  BY <1>1, <1>3 DEF RequestInv
<1>5. Listed(calls')
  BY <1>3 DEF Listed
<1> QED BY <1>4, <1>5 DEF RequestInv

\* All calls answered: the results go back in one message.
LEMMA RequestResults ==
  ASSUME RequestInv, ToolsDone
  PROVE  RequestInv'
<1> DEFINE m == [UserText EXCEPT !.results = results]
<1>1. /\ pc = "tools" /\ calls = << >> /\ pc' = "llm" /\ msgs' = Append(msgs, m)
      /\ results' = 0 /\ UNCHANGED <<memory, recallActive, recallForced, calls>>
  BY DEF ToolsDone
<1>2. results = msgs[Len(msgs)].uses
  <2>1. Len(<< >>) = 0
    OBVIOUS
  <2> QED BY <1>1, <2>1 DEF RequestInv
<1>3. m.results = results /\ m.empty = FALSE /\ m.uses = 0 /\ ~Open(m)
  BY DEF UserText, Open
<1> HIDE DEF m
<1>4. /\ Listed(msgs') /\ Answered(msgs') /\ msgs' # << >> /\ msgs'[Len(msgs')] = m
      /\ Recalled(msgs', memory)
  BY <1>1, <1>2, <1>3, RequestSays
<1> QED BY <1>1, <1>3, <1>4 DEF RequestInv

\* Every step keeps the next request acceptable.
LEMMA RequestStep == RequestInv /\ MemoryInv' /\ [Next]_vars => RequestInv'
<1> SUFFICES ASSUME RequestInv, MemoryInv', [Next]_vars PROVE RequestInv'
  OBVIOUS
<1>0. Listed(memory')
  BY DEF MemoryInv
<1>1. ASSUME NEW code, failStream(code) PROVE RequestInv'
  BY <1>0, <1>1, RequestEnds DEF failStream
<1>2. CASE Request \/ CtxEnds \/ UNCHANGED vars
  BY <1>2 DEF Request, CtxEnds, vars, loopVars, toolVars, RequestInv
<1>3. CASE Load
  BY <1>3, RequestLoads
<1>4. CASE LoadFails \/ LoopExits \/ LLMFails \/ ToolFatal
  BY <1>1, <1>4 DEF LoadFails, LoopExits, LLMFails, ToolFatal
<1>5. CASE LLM
  BY <1>5, RequestReplies
<1>6. CASE ToolRefused \/ ToolSucceeds \/ ToolFails
  BY <1>6, RequestResult DEF ToolRefused, ToolSucceeds, ToolFails, loopVars
<1>7. CASE ToolsDone
  BY <1>7, RequestResults
<1>8. CASE completeStream
  BY <1>0, <1>8, RequestEnds DEF completeStream
<1> QED BY <1>2, <1>3, <1>4, <1>5, <1>6, <1>7, <1>8 DEF Next, Process

(* Every request that Process sends is one the LLM API accepts: each        *)
(* tool_use block has its result in the next message and no assistant       *)
(* message is empty, through refused and failing calls, nudges, recalls and *)
(* tool rounds, but for the two exceptions RequestWellFormed states.        *)
THEOREM RequestsWellFormed == Spec => []RequestWellFormed
<1>1. Init => RequestInv
  <2> SUFFICES ASSUME Init PROVE RequestInv
    OBVIOUS
  <2>1. /\ pc = "idle" /\ msgs = << >> /\ calls = << >> /\ results = 0 /\ recallActive = FALSE
    BY DEF Init
  <2>2. Listed(<< >>) /\ Answered(<< >>)
    <3>1. << >> \in Seq({}) /\ Len(<< >>) = 0 /\ 1..(0 - 1) = {}
      OBVIOUS
    <3> QED BY <3>1 DEF Listed, Answered
  <2>3. Listed(memory)
    BY MemoryInit DEF MemoryInv
  <2> QED BY <2>1, <2>2, <2>3 DEF RequestInv
<1>2. RequestInv => RequestWellFormed
  <2> SUFFICES ASSUME RequestInv PROVE RequestWellFormed
    OBVIOUS
  <2>1. \A i \in 1..(Len(msgs) - 1) :
          msgs[i].uses > 0 /\ ~msgs[i].over => msgs[i + 1].results = msgs[i].uses
    BY DEF RequestInv, Answered, Open
  <2>2. pc = "tools" => results + Len(calls) = Last(msgs).uses /\ Last(msgs).uses > 0
    BY DEF RequestInv, Last
  <2>3. pc = "llm" => \A i \in DOMAIN msgs : msgs[i].empty => \E m \in ToSet(memory) : Empty(m.text)
    BY DEF RequestInv, Recalled, ToSet
  <2> QED BY <2>1, <2>2, <2>3 DEF RequestWellFormed
<1> QED BY <1>1, <1>2, MemoryInit, MemoryStep, RequestStep, PTL DEF Spec

-----------------------------------------------------------------------------
(* Recursion.  The library's induction principles take the fact to be       *)
(* proved as an operator, which the provers cannot instantiate; for a set   *)
(* of naturals the same follows from its least element.                     *)

\* A nonempty set of naturals has a least element.
LEMMA Least ==
  ASSUME NEW T, T \subseteq Nat, T # {}
  PROVE  \E x \in T : \A y \in T : x <= y
<1>1. PICK R : R = OpToRel(<, Nat)
  OBVIOUS
<1>2. IsWellFoundedOn(R, Nat)
  BY <1>1, NatLessThanWellFounded
<1>3. PICK x \in T : \A y \in T : ~ (<<y, x>> \in R)
  BY <1>2, WFMin
<1>4. \A y \in Nat : y < x => <<y, x>> \in R
  BY <1>1, <1>3 DEF OpToRel
<1>5. ASSUME NEW y \in T PROVE x <= y
  <2>1. x \in Nat /\ y \in Nat /\ <<y, x>> \notin R
    BY <1>3, <1>5
  <2>2. ~(y < x)
    BY <1>4, <2>1
  <2> QED BY <2>1, <2>2
<1> QED BY <1>3, <1>5

\* Induction, for a set of naturals.
LEMMA SetInduction ==
  ASSUME NEW S, 0 \in S, \A n \in Nat : n \in S => n + 1 \in S
  PROVE  Nat \subseteq S
<1> DEFINE T == Nat \ S
<1>1. SUFFICES ASSUME T # {} PROVE FALSE
  OBVIOUS
<1>2. PICK x \in T : \A y \in T : x <= y
  BY <1>1, Least
<1>3. x \in Nat /\ x # 0 /\ x - 1 \in Nat /\ (x - 1) + 1 = x
  BY <1>2
<1>4. x - 1 \notin T
  BY <1>2, <1>3
<1> QED BY <1>2, <1>3, <1>4

\* f is what the steps g make of a, one after the other.
Iterates(f, S, n, a, g) ==
  f \in [0..n -> S] /\ f[0] = a /\ \A k \in 1..n : f[k] = g[<<k, f[k - 1]>>]

\* A recursion over 1..n defines a function.
LEMMA Recursion ==
  ASSUME NEW S, NEW n \in Nat, NEW a \in S, NEW g \in [(1..n) \X S -> S]
  PROVE  \E f : Iterates(f, S, n, a, g)
<1> DEFINE Good(m, f) == f[0] = a /\ \A k \in 1..m : f[k] = g[<<k, f[k - 1]>>]
           G == {m \in Nat : m <= n => \E f \in [0..m -> S] : Good(m, f)}
<1>1. 0 \in G
  <2>1. [k \in 0..0 |-> a] \in [0..0 -> S] /\ Good(0, [k \in 0..0 |-> a])
    OBVIOUS
  <2> QED BY <2>1
<1>2. ASSUME NEW m \in Nat, m \in G PROVE m + 1 \in G
  <2> SUFFICES ASSUME m + 1 <= n PROVE \E f \in [0..(m + 1) -> S] : Good(m + 1, f)
    OBVIOUS
  <2>1. PICK f \in [0..m -> S] : Good(m, f)
    BY <1>2
  <2> DEFINE h == [k \in 0..(m + 1) |-> IF k = m + 1 THEN g[<<m + 1, f[m]>>] ELSE f[k]]
  <2>2. m + 1 \in 1..n /\ f[m] \in S
    OBVIOUS
  <2>3. g[<<m + 1, f[m]>>] \in S
    BY <2>2
  <2>4. h \in [0..(m + 1) -> S]
    BY <2>3
  <2>5. h[0] = a
    BY <2>1
  <2>6. ASSUME NEW k \in 1..(m + 1) PROVE h[k] = g[<<k, h[k - 1]>>]
    <3>1. CASE k = m + 1
      <4>1. h[k - 1] = f[m] /\ h[k] = g[<<m + 1, f[m]>>]
        BY <3>1
      <4> QED BY <4>1, <3>1
    <3>2. CASE k # m + 1
      <4>1. k \in 1..m /\ k - 1 \in 0..m
        BY <3>2, <2>6
      <4>2. h[k - 1] = f[k - 1] /\ h[k] = f[k]
        BY <4>1
      <4> QED BY <2>1, <4>1, <4>2
    <3> QED BY <3>1, <3>2
  <2> HIDE DEF h
  <2> QED BY <2>4, <2>5, <2>6
<1>3. n \in G
  <2> HIDE DEF G
  <2> QED BY <1>1, <1>2, SetInduction
<1> QED BY <1>3 DEF Iterates

-----------------------------------------------------------------------------
(* The chart helpers.                                                       *)

\* What appending an element to a sequence of keys does.
LEMMA AppendKey ==
  ASSUME NEW S, NEW q \in Seq(S), NEW k \in S
  PROVE  /\ Append(q, k) \in Seq(S) /\ Len(Append(q, k)) = Len(q) + 1 /\ Len(q) \in Nat
         /\ \A i \in 1..Len(q) : Append(q, k)[i] = q[i]
         /\ Append(q, k)[Len(q) + 1] = k
         /\ ToSet(Append(q, k)) = ToSet(q) \cup {k}
<1>1. /\ Append(q, k) \in Seq(S) /\ Len(Append(q, k)) = Len(q) + 1 /\ Len(q) \in Nat
      /\ \A i \in 1..Len(q) : Append(q, k)[i] = q[i]
      /\ Append(q, k)[Len(q) + 1] = k
      /\ DOMAIN q = 1..Len(q)
  OBVIOUS
<1>2. DOMAIN Append(q, k) = 1..(Len(q) + 1)
  BY <1>1
<1>3. PICK r : r = Append(q, k)
  OBVIOUS
<1>4. \A i \in 1..(Len(q) + 1) : i \in 1..Len(q) \/ i = Len(q) + 1
  BY <1>1
<1>5. \A i \in 1..Len(q) : i \in 1..(Len(q) + 1)
  BY <1>1
<1>6. Len(q) + 1 \in 1..(Len(q) + 1)
  BY <1>1
<1>7. ToSet(r) = ToSet(q) \cup {k}
  <2>1. \A x : x \in ToSet(r) <=> \E i \in 1..(Len(q) + 1) : r[i] = x
    BY <1>2, <1>3 DEF ToSet
  <2>2. \A x : x \in ToSet(q) <=> \E i \in 1..Len(q) : q[i] = x
    BY <1>1 DEF ToSet
  <2>3. r[Len(q) + 1] = k /\ \A i \in 1..Len(q) : r[i] = q[i]
    BY <1>1, <1>3
  <2>4. ASSUME NEW x \in ToSet(r) PROVE x \in ToSet(q) \cup {k}
    BY <1>4, <2>1, <2>2, <2>3, <2>4
  <2>5. ASSUME NEW x \in ToSet(q) \cup {k} PROVE x \in ToSet(r)
    BY <1>5, <1>6, <2>1, <2>2, <2>3, <2>5
  <2> QED BY <2>4, <2>5
<1> QED BY <1>1, <1>3, <1>7

\* A new element at the end keeps the elements distinct.
LEMMA NewKeyDistinct ==
  ASSUME NEW S, NEW q \in Seq(S), NEW k \in S, IsInjective(q), k \notin ToSet(q)
  PROVE  IsInjective(Append(q, k))
<1>1. PICK r : r = Append(q, k)
  OBVIOUS
<1>2. /\ r \in Seq(S) /\ Len(r) = Len(q) + 1 /\ Len(q) \in Nat /\ r[Len(q) + 1] = k
      /\ \A i \in 1..Len(q) : r[i] = q[i]
  BY <1>1, AppendKey
<1>3. DOMAIN q = 1..Len(q) /\ DOMAIN r = 1..(Len(q) + 1)
  BY <1>2
<1>4. \A i \in 1..Len(q) : q[i] # k
  BY <1>3 DEF ToSet
<1>5. \A i \in 1..(Len(q) + 1) : i \in 1..Len(q) \/ i = Len(q) + 1
  BY <1>2
<1>6. ASSUME NEW i \in DOMAIN r, NEW j \in DOMAIN r, r[i] = r[j] PROVE i = j
  <2>1. \A a, b \in 1..Len(q) : q[a] = q[b] => a = b
    BY <1>3 DEF IsInjective
  <2> QED BY <1>2, <1>3, <1>4, <1>5, <1>6, <2>1
<1>7. IsInjective(r)
  BY <1>6 DEF IsInjective
<1> QED BY <1>1, <1>7

\* What extractChartRefs does with each chart of the tool results.
LEMMA ExtractSteps ==
  ASSUME NEW S, NEW p \in Seq(S), NEW keys \in Seq(S)
  PROVE  \E out : /\ out[0] = p /\ extractChartRefs(p, keys) = out[Len(keys)]
                  /\ \A k \in 1..Len(keys) :
                       out[k] = IF keys[k] \in ToSet(out[k - 1]) THEN out[k - 1]
                                ELSE Append(out[k - 1], keys[k])
<1> DEFINE n == Len(keys)
           Q == Seq(S)
           Step(k, q) == IF keys[k] \in ToSet(q) THEN q ELSE Append(q, keys[k])
           g == [x \in (1..n) \X Q |-> Step(x[1], x[2])]
           Body(F) == [k \in 0..n |-> IF k = 0 THEN p
                                      ELSE IF keys[k] \in ToSet(F[k - 1]) THEN F[k - 1]
                                      ELSE Append(F[k - 1], keys[k])]
           F == CHOOSE F : F = Body(F)
<1>1. n \in Nat /\ p \in Q /\ \A k \in 1..n, q \in Q : Step(k, q) \in Q
  OBVIOUS
<1>2. g \in [(1..n) \X Q -> Q] /\ \A k \in 1..n, q \in Q : g[<<k, q>>] = Step(k, q)
  <2> HIDE DEF Step, n, Q
  <2> QED BY <1>1
<1>3. \E f : Iterates(f, Q, n, p, g)
  <2> HIDE DEF n, Q, g
  <2> QED BY <1>1, <1>2, Recursion
<1>4. PICK f \in [0..n -> Q] : f[0] = p /\ \A k \in 1..n : f[k] = g[<<k, f[k - 1]>>]
  BY <1>3 DEF Iterates
<1>5. ASSUME NEW k \in 1..n PROVE f[k] = Step(k, f[k - 1])
  <2>1. f[k - 1] \in Q
    BY <1>1
  <2> HIDE DEF Step, n, Q, g
  <2> QED BY <1>2, <1>4, <2>1
<1>6. f = Body(f)
  <2>1. ASSUME NEW k \in 0..n PROVE f[k] = Body(f)[k]
    <3>1. CASE k = 0
      BY <1>4, <3>1
    <3>2. CASE k # 0
      <4>1. k \in 1..n
        BY <3>2
      <4> QED BY <1>5, <3>2, <4>1
    <3> QED BY <3>1, <3>2
  <2> QED BY <2>1
<1>7. F = Body(F)
  <2> HIDE DEF Body
  <2> QED BY <1>6
<1>8. extractChartRefs(p, keys) = F[n]
  BY DEF extractChartRefs
<1>9. PICK h : h = F
  OBVIOUS
<1> HIDE DEF F
<1>10. h = Body(h)
  BY <1>7, <1>9
<1>11. h[0] = p
  BY <1>1, <1>10
<1>12. ASSUME NEW k \in 1..n PROVE h[k] = Step(k, h[k - 1])
  <2>1. k \in 0..n /\ k # 0
    OBVIOUS
  <2> QED BY <1>10, <2>1
<1> QED BY <1>8, <1>9, <1>11, <1>12

\* What extractChartRefs computes: the charts of p and of the tool results,
\* each once.
LEMMA ExtractFacts ==
  ASSUME NEW S, NEW p \in Seq(S), NEW keys \in Seq(S)
  PROVE  /\ extractChartRefs(p, keys) \in Seq(S)
         /\ IsInjective(p) => IsInjective(extractChartRefs(p, keys))
         /\ ToSet(extractChartRefs(p, keys)) = ToSet(p) \cup ToSet(keys)
<1> DEFINE n == Len(keys)
           Upto(k) == {keys[i] : i \in 1..k}
           Good(k, q) == /\ q \in Seq(S) /\ (IsInjective(p) => IsInjective(q))
                         /\ ToSet(q) = ToSet(p) \cup Upto(k)
<1>1. PICK out : /\ out[0] = p /\ extractChartRefs(p, keys) = out[n]
                 /\ \A k \in 1..n : out[k] = IF keys[k] \in ToSet(out[k - 1]) THEN out[k - 1]
                                             ELSE Append(out[k - 1], keys[k])
  BY ExtractSteps
<1>2. n \in Nat /\ DOMAIN keys = 1..n /\ \A k \in 1..n : keys[k] \in S
  OBVIOUS
<1> HIDE DEF n
<1> DEFINE G == {k \in Nat : k <= n => Good(k, out[k])}
<1>3. 0 \in G
  <2>1. Upto(0) = {}
    OBVIOUS
  <2> QED BY <1>1, <2>1
<1>4. ASSUME NEW k \in Nat, k \in G PROVE k + 1 \in G
  <2> SUFFICES ASSUME k + 1 <= n PROVE Good(k + 1, out[k + 1])
    OBVIOUS
  <2>1. k + 1 \in 1..n /\ Good(k, out[k]) /\ (k + 1) - 1 = k /\ keys[k + 1] \in S
    BY <1>2, <1>4
  <2>2. Upto(k + 1) = Upto(k) \cup {keys[k + 1]}
    <3>1. \A i : i \in 1..(k + 1) <=> i \in 1..k \/ i = k + 1
      BY <1>4
    <3> QED BY <3>1
  <2>3. PICK q : q = out[k]
    OBVIOUS
  <2>4. PICK x : x = keys[k + 1]
    OBVIOUS
  <2>5. out[k + 1] = IF x \in ToSet(q) THEN q ELSE Append(q, x)
    BY <1>1, <2>1, <2>3, <2>4
  <2>6. Good(k, q) /\ x \in S
    BY <2>1, <2>3, <2>4
  <2>7. CASE x \in ToSet(q)
    BY <2>2, <2>4, <2>5, <2>6, <2>7
  <2>8. CASE x \notin ToSet(q)
    <3> HIDE DEF Upto
    <3>1. out[k + 1] = Append(q, x) /\ Append(q, x) \in Seq(S)
      BY <2>5, <2>6, <2>8
    <3>2. ToSet(Append(q, x)) = ToSet(q) \cup {x}
      BY <2>6, AppendKey
    <3>3. ASSUME IsInjective(q) PROVE IsInjective(Append(q, x))
      <4>1. q \in Seq(S) /\ x \in S
        BY <2>6
      <4> QED BY <2>8, <3>3, <4>1, NewKeyDistinct
    <3> QED BY <2>2, <2>4, <2>6, <3>1, <3>2, <3>3
  <2> QED BY <2>7, <2>8
<1>5. n \in G
  <2> HIDE DEF G
  <2> QED BY <1>2, <1>3, <1>4, SetInduction
<1>6. Good(n, out[n])
  BY <1>2, <1>5
<1>7. Upto(n) = ToSet(keys)
  BY <1>2 DEF ToSet
<1> QED BY <1>1, <1>6, <1>7

\* What putting two sequences together does.
LEMMA ConcatFacts ==
  ASSUME NEW S, NEW a \in Seq(S), NEW b \in Seq(S)
  PROVE  /\ a \o b \in Seq(S) /\ DOMAIN a \subseteq DOMAIN (a \o b)
         /\ \A i \in DOMAIN a : (a \o b)[i] = a[i]
         /\ ToSet(a \o b) = ToSet(a) \cup ToSet(b)
<1>1. PICK c : c = a \o b
  OBVIOUS
<1>2. /\ c \in Seq(S) /\ Len(a) \in Nat /\ Len(b) \in Nat /\ Len(c) = Len(a) + Len(b)
      /\ \A i \in 1..Len(a) : c[i] = a[i]
      /\ \A i \in 1..Len(b) : c[Len(a) + i] = b[i]
  BY <1>1
<1>3. DOMAIN a = 1..Len(a) /\ DOMAIN b = 1..Len(b) /\ DOMAIN c = 1..(Len(a) + Len(b))
  BY <1>2
<1>4. /\ \A i \in 1..Len(a) : i \in 1..(Len(a) + Len(b))
      /\ \A i \in 1..Len(b) : Len(a) + i \in 1..(Len(a) + Len(b))
      /\ \A i \in 1..(Len(a) + Len(b)) :
           i \in 1..Len(a) \/ (i - Len(a) \in 1..Len(b) /\ i = Len(a) + (i - Len(a)))
  BY <1>2
<1>5. ASSUME NEW x \in ToSet(c) PROVE x \in ToSet(a) \cup ToSet(b)
  <2>1. PICK i \in 1..(Len(a) + Len(b)) : c[i] = x
    BY <1>3, <1>5 DEF ToSet
  <2>2. CASE i \in 1..Len(a)
    BY <1>2, <1>3, <2>1, <2>2 DEF ToSet
  <2>3. CASE i - Len(a) \in 1..Len(b) /\ i = Len(a) + (i - Len(a))
    <3>1. PICK j \in 1..Len(b) : i = Len(a) + j
      BY <2>3
    <3>2. c[i] = b[j]
      BY <1>2, <3>1
    <3> QED BY <1>3, <2>1, <3>2 DEF ToSet
  <2> QED BY <1>4, <2>2, <2>3
<1>6. ASSUME NEW x \in ToSet(a) PROVE x \in ToSet(c)
  <2>1. PICK i \in 1..Len(a) : a[i] = x
    BY <1>3, <1>6 DEF ToSet
  <2> QED BY <1>2, <1>3, <1>4, <2>1 DEF ToSet
<1>7. ASSUME NEW x \in ToSet(b) PROVE x \in ToSet(c)
  <2>1. PICK i \in 1..Len(b) : b[i] = x
    BY <1>3, <1>7 DEF ToSet
  <2> QED BY <1>2, <1>3, <1>4, <2>1 DEF ToSet
<1>8. ToSet(c) = ToSet(a) \cup ToSet(b)
  BY <1>5, <1>6, <1>7
<1> QED BY <1>1, <1>2, <1>3, <1>4, <1>8

\* What appendMissingCharts does with each rendered chart.
LEMMA AppendMissingSteps ==
  ASSUME NEW S, NEW p \in Seq(S), NEW t
  PROVE  \E add : /\ add[0] = << >>
                  /\ appendMissingCharts(t, p) = [t EXCEPT !.imgs = t.imgs \o add[Len(p)]]
                  /\ \A k \in 1..Len(p) :
                       add[k] = IF p[k] \in extractChartKeys(t) THEN add[k - 1]
                                ELSE Append(add[k - 1], p[k])
<1> DEFINE n == Len(p)
           Q == Seq(S)
           K == extractChartKeys(t)
           Step(k, q) == IF p[k] \in K THEN q ELSE Append(q, p[k])
           g == [x \in (1..n) \X Q |-> Step(x[1], x[2])]
           Body(F) == [k \in 0..n |-> IF k = 0 THEN << >>
                                      ELSE IF p[k] \in K THEN F[k - 1]
                                      ELSE Append(F[k - 1], p[k])]
           F == CHOOSE F : F = Body(F)
           none == << >>
<1>1. n \in Nat /\ none \in Q /\ \A k \in 1..n, q \in Q : Step(k, q) \in Q
  <2> HIDE DEF K
  <2> QED OBVIOUS
<1>2. g \in [(1..n) \X Q -> Q] /\ \A k \in 1..n, q \in Q : g[<<k, q>>] = Step(k, q)
  <2> HIDE DEF Step, n, Q
  <2> QED BY <1>1
<1>3. \E f : Iterates(f, Q, n, none, g)
  <2> HIDE DEF n, Q, g, none
  <2> QED BY <1>1, <1>2, Recursion
<1>4. PICK f \in [0..n -> Q] : f[0] = none /\ \A k \in 1..n : f[k] = g[<<k, f[k - 1]>>]
  <2> HIDE DEF n, Q, g, none
  <2> QED BY <1>3 DEF Iterates
<1>5. ASSUME NEW k \in 1..n PROVE f[k] = Step(k, f[k - 1])
  <2>1. f[k - 1] \in Q
    BY <1>1
  <2> HIDE DEF Step, n, Q, g
  <2> QED BY <1>2, <1>4, <2>1
<1>6. f = Body(f)
  <2> HIDE DEF K
  <2>1. ASSUME NEW k \in 0..n PROVE f[k] = Body(f)[k]
    <3>1. CASE k = 0
      BY <1>4, <3>1
    <3>2. CASE k # 0
      <4>1. k \in 1..n
        BY <3>2
      <4> QED BY <1>5, <3>2, <4>1
    <3> QED BY <3>1, <3>2
  <2> QED BY <2>1
<1>7. F = Body(F)
  <2> HIDE DEF Body
  <2> QED BY <1>6
<1>8. appendMissingCharts(t, p) = [t EXCEPT !.imgs = t.imgs \o F[n]]
  BY DEF appendMissingCharts
<1>9. PICK h : h = F
  OBVIOUS
<1> HIDE DEF F
<1>10. h = Body(h)
  BY <1>7, <1>9
<1>11. h[0] = << >>
  BY <1>1, <1>10
<1>12. ASSUME NEW k \in 1..n PROVE h[k] = Step(k, h[k - 1])
  <2>1. k \in 0..n /\ k # 0
    OBVIOUS
  <2> QED BY <1>10, <2>1
<1> QED BY <1>8, <1>9, <1>11, <1>12

\* Texts that name charts of S.
Proses == {"none", "space", "words"}
TextOver(S) == [prose : Proses, links : SUBSET S, imgs : Seq(S)]

\* What appendMissingCharts computes: the text with every rendered chart.
LEMMA AppendMissingFacts ==
  ASSUME NEW S, NEW p \in Seq(S), NEW t \in TextOver(S), NEW r,
         r = appendMissingCharts(t, p)
  PROVE  /\ r.prose = t.prose /\ r.links = t.links
         /\ r.imgs \in Seq(S) /\ DOMAIN t.imgs \subseteq DOMAIN r.imgs
         /\ \A i \in DOMAIN t.imgs : r.imgs[i] = t.imgs[i]
         /\ ToSet(r.imgs) \subseteq ToSet(t.imgs) \cup ToSet(p)
         /\ ToSet(p) \subseteq ToSet(r.imgs) \cup r.links
<1> DEFINE n == Len(p)
           K == extractChartKeys(t)
           Upto(k) == {p[i] : i \in 1..k}
           Good(k, q) == q \in Seq(S) /\ ToSet(q) = Upto(k) \ K
<1>0. PICK add : /\ add[0] = << >>
                 /\ appendMissingCharts(t, p) = [t EXCEPT !.imgs = t.imgs \o add[Len(p)]]
                 /\ \A k \in 1..Len(p) :
                      add[k] = IF p[k] \in extractChartKeys(t) THEN add[k - 1]
                               ELSE Append(add[k - 1], p[k])
  BY AppendMissingSteps
<1>1. /\ add[0] = << >> /\ r = [t EXCEPT !.imgs = t.imgs \o add[n]]
      /\ \A k \in 1..n : add[k] = IF p[k] \in K THEN add[k - 1]
                                  ELSE Append(add[k - 1], p[k])
  BY <1>0
<1>2. n \in Nat /\ DOMAIN p = 1..n /\ \A k \in 1..n : p[k] \in S
  OBVIOUS
<1> HIDE DEF n, K
<1> DEFINE G == {k \in Nat : k <= n => Good(k, add[k])}
<1>3. 0 \in G
  <2>1. Upto(0) = {} /\ << >> \in Seq(S) /\ DOMAIN << >> = {}
    OBVIOUS
  <2>2. ToSet(<< >>) = {}
    BY <2>1 DEF ToSet
  <2> QED BY <1>1, <2>1, <2>2
<1>4. ASSUME NEW k \in Nat, k \in G PROVE k + 1 \in G
  <2> SUFFICES ASSUME k + 1 <= n PROVE Good(k + 1, add[k + 1])
    OBVIOUS
  <2>1. k + 1 \in 1..n /\ Good(k, add[k]) /\ (k + 1) - 1 = k /\ p[k + 1] \in S
    BY <1>2, <1>4
  <2>2. Upto(k + 1) = Upto(k) \cup {p[k + 1]}
    <3>1. \A i : i \in 1..(k + 1) <=> i \in 1..k \/ i = k + 1
      BY <1>4
    <3> QED BY <3>1
  <2>3. PICK q : q = add[k]
    OBVIOUS
  <2>4. PICK x : x = p[k + 1]
    OBVIOUS
  <2>5. add[k + 1] = IF x \in K THEN q ELSE Append(q, x)
    BY <1>1, <2>1, <2>3, <2>4
  <2>6. Good(k, q) /\ x \in S
    BY <2>1, <2>3, <2>4
  <2> HIDE DEF Upto
  <2>7. CASE x \in K
    BY <2>2, <2>4, <2>5, <2>6, <2>7
  <2>8. CASE x \notin K
    <3>1. add[k + 1] = Append(q, x) /\ Append(q, x) \in Seq(S)
      BY <2>5, <2>6, <2>8
    <3>2. ToSet(Append(q, x)) = ToSet(q) \cup {x}
      BY <2>6, AppendKey
    <3> QED BY <2>2, <2>4, <2>6, <2>8, <3>1, <3>2
  <2> QED BY <2>7, <2>8
<1>5. n \in G
  <2> HIDE DEF G
  <2> QED BY <1>2, <1>3, <1>4, SetInduction
<1>6. Good(n, add[n])
  BY <1>2, <1>5
<1>7. Upto(n) = ToSet(p) /\ K = ToSet(t.imgs) \cup t.links
  BY <1>2 DEF ToSet, K, extractChartKeys
<1>8. t.imgs \in Seq(S) /\ r.imgs = t.imgs \o add[n]
  BY <1>1 DEF TextOver
<1>13. r.prose = t.prose /\ r.links = t.links
  BY <1>1 DEF TextOver
<1> HIDE DEF Upto
<1>14. PICK a, b : a = t.imgs /\ b = add[n] /\ a \in Seq(S) /\ b \in Seq(S)
  BY <1>6, <1>8
<1>9. /\ r.imgs \in Seq(S) /\ DOMAIN t.imgs \subseteq DOMAIN r.imgs
      /\ \A i \in DOMAIN t.imgs : r.imgs[i] = t.imgs[i]
      /\ ToSet(r.imgs) = ToSet(t.imgs) \cup ToSet(add[n])
  <2>1. PICK c : c = a \o b
    OBVIOUS
  <2>2. /\ c \in Seq(S) /\ DOMAIN a \subseteq DOMAIN c /\ \A i \in DOMAIN a : c[i] = a[i]
        /\ ToSet(c) = ToSet(a) \cup ToSet(b)
    <3>1. a \in Seq(S) /\ b \in Seq(S)
      BY <1>14
    <3>2. /\ a \o b \in Seq(S) /\ DOMAIN a \subseteq DOMAIN (a \o b)
          /\ \A i \in DOMAIN a : (a \o b)[i] = a[i]
          /\ ToSet(a \o b) = ToSet(a) \cup ToSet(b)
      BY <3>1, ConcatFacts, Zenon
    <3> QED BY <2>1, <3>2, Zenon
  <2>3. r.imgs = c
    BY <1>8, <1>14, <2>1
  <2> QED BY <1>14, <2>2, <2>3
<1>12. ToSet(add[n]) = Upto(n) \ K
  BY <1>6
<1> HIDE DEF Good
<1>10. ToSet(add[n]) = ToSet(p) \ (ToSet(t.imgs) \cup t.links)
  BY <1>7, <1>12
<1>11. /\ ToSet(r.imgs) \subseteq ToSet(t.imgs) \cup ToSet(p)
       /\ ToSet(p) \subseteq ToSet(r.imgs) \cup r.links
  BY <1>9, <1>10, <1>13
<1> QED BY <1>9, <1>11, <1>13

\* What correctChartRefs computes: the text with every image kept or replaced by
\* the one rendered chart.
LEMMA CorrectFacts ==
  ASSUME NEW S, NEW p \in Seq(S), NEW t \in TextOver(S), NEW c,
         c = correctChartRefs(t, p)
  PROVE  /\ c \in TextOver(S) /\ c.prose = t.prose /\ c.links = t.links
         /\ DOMAIN c.imgs = DOMAIN t.imgs
         /\ \A i \in DOMAIN t.imgs : c.imgs[i] \in {t.imgs[i]} \cup ToSet(p)
         /\ Len(p) = 1 => ToSet(c.imgs) \subseteq ToSet(p)
<1> DEFINE Img(i) == IF t.imgs[i] \notin ToSet(p) /\ Len(p) = 1 THEN p[1] ELSE t.imgs[i]
<1>1. /\ t.imgs \in Seq(S) /\ Len(t.imgs) \in Nat
      /\ DOMAIN t.imgs = 1..Len(t.imgs) /\ \A i \in DOMAIN t.imgs : t.imgs[i] \in S
  BY DEF TextOver
<1>2. Len(p) = 1 => p[1] \in S /\ p[1] \in ToSet(p)
  <2>1. DOMAIN p = 1..Len(p) /\ \A i \in 1..Len(p) : p[i] \in S
    OBVIOUS
  <2> QED BY <2>1 DEF ToSet
<1>3. c = [t EXCEPT !.imgs = [i \in DOMAIN t.imgs |-> Img(i)]]
  BY DEF correctChartRefs
<1>4. \A i \in DOMAIN t.imgs : /\ Img(i) \in S /\ Img(i) \in {t.imgs[i]} \cup ToSet(p)
                               /\ Len(p) = 1 => Img(i) \in ToSet(p)
  BY <1>1, <1>2
<1> HIDE DEF Img
<1>5. PICK m : m = [i \in DOMAIN t.imgs |-> Img(i)]
  OBVIOUS
<1>6. m \in [1..Len(t.imgs) -> S]
  BY <1>1, <1>4, <1>5
<1>7. m \in Seq(S) /\ DOMAIN m = DOMAIN t.imgs
  BY <1>1, <1>6
<1>8. c = [t EXCEPT !.imgs = m]
  BY <1>3, <1>5
<1>9. c \in TextOver(S) /\ c.prose = t.prose /\ c.links = t.links /\ c.imgs = m
  BY <1>7, <1>8 DEF TextOver
<1>10. Len(p) = 1 => ToSet(m) \subseteq ToSet(p)
  BY <1>4, <1>5, <1>7 DEF ToSet
<1> QED BY <1>4, <1>5, <1>7, <1>9, <1>10

\* What AnswerFaithful says of one answer.
Faithful(text, charts, recall, kept) ==
  /\ ToSet(charts) \subseteq ToSet(text.imgs) \cup text.links
  /\ Len(charts) = 1 => ToSet(text.imgs) \subseteq ToSet(charts)
  /\ recall =>
       /\ text.prose = kept.prose /\ text.links = kept.links
       /\ \A n \in DOMAIN kept.imgs :
            n \in DOMAIN text.imgs /\ text.imgs[n] \in {kept.imgs[n]} \cup ToSet(charts)

\* The two rewriting passes make an answer faithful to the text they start from.
LEMMA RewritingFaithful ==
  ASSUME NEW S, NEW p \in Seq(S), NEW t \in TextOver(S), NEW recall, NEW r,
         r = appendMissingCharts(correctChartRefs(t, p), p)
  PROVE  Faithful(r, p, recall, t)
<1>1. PICK c : c = correctChartRefs(t, p)
  OBVIOUS
<1>2. /\ c \in TextOver(S) /\ c.prose = t.prose /\ c.links = t.links
      /\ DOMAIN c.imgs = DOMAIN t.imgs
      /\ \A i \in DOMAIN t.imgs : c.imgs[i] \in {t.imgs[i]} \cup ToSet(p)
      /\ Len(p) = 1 => ToSet(c.imgs) \subseteq ToSet(p)
  BY <1>1, CorrectFacts
<1>3. r = appendMissingCharts(c, p)
  BY <1>1
<1>4. /\ r.prose = c.prose /\ r.links = c.links /\ DOMAIN c.imgs \subseteq DOMAIN r.imgs
      /\ \A i \in DOMAIN c.imgs : r.imgs[i] = c.imgs[i]
      /\ ToSet(r.imgs) \subseteq ToSet(c.imgs) \cup ToSet(p)
      /\ ToSet(p) \subseteq ToSet(r.imgs) \cup r.links
  BY <1>2, <1>3, AppendMissingFacts
<1> QED BY <1>2, <1>4 DEF Faithful

-----------------------------------------------------------------------------
(* The types of the loop's state, and the limits of its counters.           *)

\* Sequences of bounded length.
LEMMA BoundedFacts ==
  ASSUME NEW S, NEW n \in Nat
  PROVE  /\ \A q \in BoundedSeq(S, n) : q \in Seq(S) /\ Len(q) \in Nat /\ Len(q) <= n
         /\ \A q \in Seq(S) : Len(q) <= n => q \in BoundedSeq(S, n)
<1>1. ASSUME NEW q \in BoundedSeq(S, n) PROVE q \in Seq(S) /\ Len(q) \in Nat /\ Len(q) <= n
  <2>1. PICK m \in 0..n : q \in [1..m -> S]
    BY <1>1 DEF BoundedSeq, SeqOf
  <2>2. m \in Nat /\ m <= n
    OBVIOUS
  <2>3. q \in Seq(S) /\ Len(q) = m
    BY <2>1, <2>2
  <2> QED BY <2>2, <2>3
<1>2. ASSUME NEW q \in Seq(S), Len(q) <= n PROVE q \in BoundedSeq(S, n)
  <2>1. q \in [1..Len(q) -> S] /\ Len(q) \in 0..n
    BY <1>2
  <2> QED BY <2>1 DEF BoundedSeq, SeqOf
<1> QED BY <1>1, <1>2

\* A text of the model is a text.
LEMMA TextFacts ==
  /\ \A t \in Texts : t \in TextOver(Keys)
  /\ NoText \in Texts
<1>1. ASSUME NEW t \in Texts PROVE t \in TextOver(Keys)
  <2>1. t \in [prose : Proses, links : SUBSET Keys, imgs : BoundedSeq(Keys, MaxRefs)]
    BY DEF Texts, Proses
  <2>2. BoundedSeq(Keys, MaxRefs) \subseteq Seq(Keys)
    BY BoundedFacts, LoopBounds
  <2> QED BY <2>1, <2>2 DEF TextOver
<1>2. NoText \in Texts
  <2>1. << >> \in Seq(Keys) /\ Len(<< >>) = 0 /\ DOMAIN << >> = {}
    OBVIOUS
  <2>2. << >> \in BoundedSeq(Keys, MaxRefs)
    <3>1. MaxRefs \in Nat /\ 0 <= MaxRefs
      BY LoopBounds
    <3>2. PICK e \in Seq(Keys) : e = << >> /\ Len(e) = 0
      BY <2>1
    <3> QED BY <3>1, <3>2, BoundedFacts
  <2>3. IsInjective(<< >>)
    BY <2>1 DEF IsInjective
  <2>4. Len(<< >>) + Cardinality({}) <= MaxRefs
    BY <2>1, FS_EmptySet, LoopBounds
  <2> QED BY <2>2, <2>3, <2>4 DEF NoText, Texts
<1> QED BY <1>1, <1>2

\* The type invariant, and what its limits rest on: results are only built for
\* calls, and tools only run within the iteration budget.
TypeInv ==
  /\ TypeOK
  /\ Listed(turns) /\ fresh \in Seq(Keys)
  /\ results + Len(calls) <= MaxCalls
  /\ pc = "tools" => iter < MaxIterations
  /\ pc # "idle" => Len(turns) < MaxTurns

\* Nothing is of its type.
LEMMA Nothing ==
  /\ \A S : << >> \in Seq(S) /\ IsInjective(<< >>)
  /\ << >> \in BoundedSeq(Tools, MaxCalls) /\ Len(<< >>) = 0 /\ Listed(<< >>)
<1>1. Len(<< >>) = 0 /\ DOMAIN << >> = {} /\ << >> \in Seq(Tools) /\ \A S : << >> \in Seq(S)
  OBVIOUS
<1>2. << >> \in BoundedSeq(Tools, MaxCalls)
  <2>1. MaxCalls \in Nat /\ 0 <= MaxCalls
    BY LoopBounds
  <2>2. PICK e \in Seq(Tools) : e = << >> /\ Len(e) = 0
    BY <1>1
  <2> QED BY <2>1, <2>2, BoundedFacts
<1>3. IsInjective(<< >>)
  BY <1>1 DEF IsInjective
<1>4. Listed(<< >>)
  BY <1>1 DEF Listed
<1> QED BY <1>1, <1>2, <1>3, <1>4

\* A turn that ends leaves its locals at their first values.
LEMMA TypeEnds ==
  ASSUME TypeInv, pc # "idle", NEW kind, NEW code, NEW text, Ended(kind, code, text)
  PROVE  TypeInv'
<1>1. /\ pc' = "idle" /\ ctxDone' = FALSE /\ iter' = 0 /\ emptyRetries' = 0
      /\ errCount' = [t \in Tools |-> 0] /\ produced' = << >> /\ recallForced' = FALSE
      /\ recallActive' = FALSE /\ preserved' = NoText /\ calls' = << >> /\ results' = 0
      /\ fresh' = << >>
  BY DEF Ended
<1>2. PICK x : turns' = Append(turns, x)
  BY DEF Ended
<1>3. Listed(turns') /\ Len(turns') = Len(turns) + 1 /\ Len(turns) \in Nat
  BY <1>2, AppendFacts DEF TypeInv
<1>4. Len(turns') <= MaxTurns
  BY <1>3, LoopBounds DEF TypeInv
<1>5. /\ 0 \in 0..MaxIterations /\ 0 \in 0..MaxEmptyAnswerRetries
      /\ 0 \in 0..MaxCalls /\ 0 + 0 <= MaxCalls
      /\ [t \in Tools |-> 0] \in [Tools -> 0..(MaxToolRetries + 1)]
  BY LoopBounds DEF envIntClamped
<1>6. TypeOK'
  BY <1>1, <1>4, <1>5, Nothing, TextFacts DEF TypeOK
<1>7. results' + Len(calls') <= MaxCalls
  BY <1>1, <1>5, Nothing
<1> QED BY <1>1, <1>3, <1>6, <1>7, Nothing DEF TypeInv

\* What the LLM may reply.
LEMMA TypeReplies ==
  ASSUME TypeInv, LLM
  PROVE  TypeInv'
<1>1. PICK r \in Replies : EmptyAnswer(r) \/ ChartRecall(r) \/ Answer(r) \/ ToolRound(r)
  BY DEF LLM
<1>2. /\ pc = "llm" /\ iter < MaxIterations /\ iter \in 0..MaxIterations /\ Len(turns) < MaxTurns
      /\ emptyRetries \in 0..MaxEmptyAnswerRetries /\ preserved \in Texts
  BY DEF LLM, TypeInv, TypeOK
<1>3. iter + 1 \in 0..MaxIterations
  BY <1>2, LoopBounds
<1>4. /\ r.text \in Texts /\ r.calls \in BoundedSeq(Tools, MaxCalls)
  BY DEF Replies
<1>5. r.calls \in Seq(Tools) /\ Len(r.calls) \in Nat /\ Len(r.calls) <= MaxCalls
  BY <1>4, BoundedFacts, LoopBounds
<1>6. CASE EmptyAnswer(r)
  <2>1. emptyRetries' = emptyRetries + 1 /\ emptyRetries < MaxEmptyAnswerRetries /\ iter' = iter + 1
        /\ UNCHANGED <<pc, turns, ctxDone, errCount, produced, recallForced, recallActive,
                       preserved, calls, results, fresh>>
    BY <1>6 DEF EmptyAnswer, Nudges, toolVars
  <2>2. emptyRetries' \in 0..MaxEmptyAnswerRetries
    BY <1>2, <2>1, LoopBounds DEF envIntClamped
  <2> QED BY <1>2, <1>3, <2>1, <2>2 DEF TypeInv, TypeOK
<1>7. CASE ChartRecall(r)
  <2>1. /\ recallForced' = TRUE /\ recallActive' = TRUE /\ preserved' = AnswerOf(r) /\ iter' = iter + 1
        /\ UNCHANGED <<pc, turns, ctxDone, emptyRetries, errCount, produced, calls, results, fresh>>
    BY <1>7 DEF ChartRecall, toolVars
  <2>2. AnswerOf(r) \in Texts
    BY <1>2, <1>4 DEF AnswerOf
  <2> QED BY <1>2, <1>3, <2>1, <2>2 DEF TypeInv, TypeOK
<1>8. CASE Answer(r)
  <2>1. /\ recallActive' = FALSE /\ pc' = "append"
        /\ UNCHANGED <<turns, ctxDone, iter, emptyRetries, errCount, produced, recallForced,
                       preserved, calls, results, fresh>>
    BY <1>8 DEF Answer, toolVars
  <2> QED BY <1>2, <2>1 DEF TypeInv, TypeOK
<1>9. CASE ToolRound(r)
  <2>1. /\ calls' = r.calls /\ results' = 0 /\ fresh' = << >> /\ pc' = "tools"
        /\ UNCHANGED <<turns, ctxDone, iter, emptyRetries, errCount, produced, recallForced,
                       recallActive, preserved>>
    BY <1>9 DEF ToolRound, loopVars
  <2>2. results' \in 0..MaxCalls /\ results' + Len(calls') <= MaxCalls /\ fresh' \in Seq(Keys)
    BY <1>5, <2>1, LoopBounds
  <2> QED BY <1>2, <1>4, <2>1, <2>2 DEF TypeInv, TypeOK
<1> QED BY <1>1, <1>6, <1>7, <1>8, <1>9

\* One call answered: its result takes its place.
LEMMA TypeResult ==
  ASSUME TypeInv, pc = "tools", calls # << >>, NEW t, NEW keys \in Seq(Keys), Result(t, keys),
         errCount' \in [Tools -> 0..(MaxToolRetries + 1)],
         UNCHANGED <<pc, turns, ctxDone, iter, emptyRetries, produced, recallForced, recallActive,
                     preserved>>
  PROVE  TypeInv'
<1>1. calls' = Tail(calls) /\ results' = results + 1 /\ fresh' = fresh \o keys
  BY DEF Result
<1>2. calls \in Seq(Tools) /\ Len(calls) \in Nat /\ Len(calls) <= MaxCalls /\ results \in 0..MaxCalls
  BY BoundedFacts, LoopBounds DEF TypeInv, TypeOK
<1>3. calls' \in Seq(Tools) /\ Len(calls') = Len(calls) - 1 /\ Len(calls) > 0
  BY <1>1, <1>2
<1>4. calls' \in BoundedSeq(Tools, MaxCalls)
  <2>1. Len(calls') <= MaxCalls
    BY <1>2, <1>3, LoopBounds
  <2> QED BY <1>3, <2>1, BoundedFacts, LoopBounds
<1>5. results' + Len(calls') <= MaxCalls /\ results' \in 0..MaxCalls
  BY <1>1, <1>2, <1>3, LoopBounds DEF TypeInv
<1>6. fresh' \in Seq(Keys)
  BY <1>1 DEF TypeInv
<1> QED BY <1>4, <1>5, <1>6 DEF TypeInv, TypeOK

\* Every step keeps the types and the limits.
LEMMA TypeStep == TypeInv /\ [Next]_vars => TypeInv'
<1> SUFFICES ASSUME TypeInv, [Next]_vars PROVE TypeInv'
  OBVIOUS
<1>1. ASSUME NEW code, pc # "idle", failStream(code) PROVE TypeInv'
  BY <1>1, TypeEnds DEF failStream
<1>2. CASE CtxEnds \/ UNCHANGED vars
  BY <1>2 DEF CtxEnds, vars, loopVars, toolVars, TypeInv, TypeOK
<1>3. CASE Request
  BY <1>3 DEF Request, loopVars, toolVars, TypeInv, TypeOK
<1>4. CASE Load
  BY <1>4 DEF Load, loopVars, toolVars, TypeInv, TypeOK
<1>5. CASE LoadFails \/ LoopExits \/ LLMFails \/ ToolFatal
  BY <1>1, <1>5 DEF LoadFails, LoopExits, LLMFails, ToolFatal
<1>6. CASE LLM
  BY <1>6, TypeReplies
<1>7. CASE ToolRefused
  <2>1. << >> \in Seq(Keys) /\ errCount' \in [Tools -> 0..(MaxToolRetries + 1)]
    BY <1>7 DEF ToolRefused, loopVars, TypeInv, TypeOK
  <2> QED BY <1>7, <2>1, TypeResult DEF ToolRefused, loopVars
<1>8. CASE ToolSucceeds
  <2>1. PICK keys \in {<< >>} \cup {<<k>> : k \in Keys} : Result(Head(calls), keys)
    BY <1>8 DEF ToolSucceeds
  <2>2. keys \in Seq(Keys)
    <3>1. CASE keys = << >>
      BY <3>1
    <3>2. CASE \E k \in Keys : keys = <<k>>
      BY <3>2
    <3> QED BY <3>1, <3>2
  <2>3. errCount' \in [Tools -> 0..(MaxToolRetries + 1)]
    BY <1>8 DEF ToolSucceeds, loopVars, TypeInv, TypeOK
  <2> QED BY <1>8, <2>1, <2>2, <2>3, TypeResult DEF ToolSucceeds, loopVars
<1>9. CASE ToolFails
  <2>1. PICK t : t = Head(calls)
    OBVIOUS
  <2>2. errCount' = [errCount EXCEPT ![t] = errCount[t] + 1] /\ ~(errCount[t] > MaxToolRetries)
        /\ t \in Connected
    BY <1>9, <2>1 DEF ToolFails, Runs, Capped
  <2>3. t \in Tools /\ errCount \in [Tools -> 0..(MaxToolRetries + 1)]
    BY <2>2, LoopBounds DEF TypeInv, TypeOK
  <2>4. errCount[t] + 1 \in 0..(MaxToolRetries + 1)
    BY <2>2, <2>3, LoopBounds DEF envIntClamped
  <2>5. << >> \in Seq(Keys) /\ errCount' \in [Tools -> 0..(MaxToolRetries + 1)]
    BY <2>2, <2>3, <2>4
  <2> QED BY <1>9, <2>5, TypeResult DEF ToolFails
<1>10. CASE ToolsDone
  <2>1. /\ pc = "tools" /\ pc' = "llm" /\ iter' = iter + 1
        /\ produced' = extractChartRefs(produced, fresh)
        /\ results' = 0 /\ fresh' = << >>
        /\ UNCHANGED <<turns, ctxDone, emptyRetries, errCount, recallForced, recallActive, preserved,
                       calls>>
    BY <1>10 DEF ToolsDone
  <2>2. iter' \in 0..MaxIterations
    BY <2>1, LoopBounds DEF TypeInv, TypeOK
  <2>3. produced' \in Seq(Keys) /\ IsInjective(produced')
    <3>1. produced \in Seq(Keys) /\ fresh \in Seq(Keys) /\ IsInjective(produced)
      BY DEF TypeInv, TypeOK
    <3> QED BY <2>1, <3>1, ExtractFacts
  <2>4. results' \in 0..MaxCalls /\ results' + Len(calls') <= MaxCalls /\ fresh' \in Seq(Keys)
    <3>1. calls \in BoundedSeq(Tools, MaxCalls) /\ MaxCalls \in Nat
      BY LoopBounds DEF TypeInv, TypeOK
    <3>2. Len(calls) \in Nat /\ Len(calls) <= MaxCalls
      BY <3>1, BoundedFacts
    <3> QED BY <2>1, <3>1, <3>2, Nothing
  <2> QED BY <2>1, <2>2, <2>3, <2>4 DEF TypeInv, TypeOK
<1>11. CASE completeStream
  BY <1>11, TypeEnds DEF completeStream
<1> QED BY <1>2, <1>3, <1>4, <1>5, <1>6, <1>7, <1>8, <1>9, <1>10, <1>11 DEF Next, Process

\* At first every value is of its type.
LEMMA TypeInit == Init => TypeInv
<1> SUFFICES ASSUME Init PROVE TypeInv
  OBVIOUS
<1>1. /\ 0 \in 0..MaxIterations /\ 0 \in 0..MaxEmptyAnswerRetries
      /\ 0 \in 0..MaxCalls /\ 0 + 0 <= MaxCalls /\ 0 <= MaxTurns
      /\ [t \in Tools |-> 0] \in [Tools -> 0..(MaxToolRetries + 1)]
  BY LoopBounds DEF envIntClamped
<1>2. TypeOK
  BY <1>1, Nothing, TextFacts DEF Init, TypeOK
<1>3. results + Len(calls) <= MaxCalls
  BY <1>1, Nothing DEF Init
<1> QED BY <1>2, <1>3, Nothing DEF Init, TypeInv

(* The types of Process's state and the limits it sets itself, for every    *)
(* configuration: iterations, empty-answer retries, failures of each tool,  *)
(* and the charts it remembers, each once.                                  *)
THEOREM LoopTyped == Spec => []TypeOK
<1>1. TypeInv => TypeOK
  BY DEF TypeInv
<1> QED BY <1>1, TypeInit, TypeStep, PTL DEF Spec

-----------------------------------------------------------------------------
(* What completed turns say.                                                *)

\* The answer on its way to memory, and every answer given, is faithful; once a
\* recall was forced, the answer kept is the one the turn will end with.
AnswerInv ==
  /\ Listed(turns)
  /\ recallForced /\ pc # "append" => recallActive
  /\ pc = "append" => Faithful(final, produced, recallForced, preserved)
  /\ \A i \in DOMAIN turns : turns[i].kind = "complete" =>
       Faithful(turns[i].text, turns[i].produced, turns[i].recall, turns[i].preserved)

\* A turn ends: with an error, or with the answer that was rewritten.
LEMMA AnswerEnds ==
  ASSUME AnswerInv, NEW kind, NEW code, NEW text, Ended(kind, code, text),
         kind = "complete" => Faithful(text, produced, recallForced, preserved)
  PROVE  AnswerInv'
<1>1. PICK x : /\ turns' = Append(turns, x)
               /\ x.kind = kind /\ x.text = text /\ x.produced = produced
               /\ x.recall = recallForced /\ x.preserved = preserved
  <2> DEFINE x == [kind |-> kind, code |-> code, text |-> text, produced |-> produced,
                   recall |-> recallForced, preserved |-> preserved]
  <2>1. turns' = Append(turns, x)
    BY DEF Ended
  <2>2. /\ x.kind = kind /\ x.text = text /\ x.produced = produced
        /\ x.recall = recallForced /\ x.preserved = preserved
    OBVIOUS
  <2> QED BY <2>1, <2>2
<1>2. /\ Listed(turns') /\ Len(turns) \in Nat /\ DOMAIN turns = 1..Len(turns)
      /\ DOMAIN turns' = 1..(Len(turns) + 1) /\ turns'[Len(turns) + 1] = x
      /\ \A i \in 1..Len(turns) : turns'[i] = turns[i]
  BY <1>1, AppendFacts DEF AnswerInv
<1>3. \A i \in DOMAIN turns' : (i \in DOMAIN turns /\ turns'[i] = turns[i]) \/ i = Len(turns) + 1
  BY <1>2
<1>4. ASSUME NEW i \in DOMAIN turns', turns'[i].kind = "complete"
      PROVE  Faithful(turns'[i].text, turns'[i].produced, turns'[i].recall, turns'[i].preserved)
  <2>1. CASE i \in DOMAIN turns /\ turns'[i] = turns[i]
    BY <1>4, <2>1 DEF AnswerInv
  <2>2. CASE i = Len(turns) + 1
    BY <1>1, <1>2, <1>4, <2>2
  <2> QED BY <1>3, <2>1, <2>2
<1>5. recallForced' = FALSE /\ pc' = "idle"
  BY DEF Ended
<1> QED BY <1>2, <1>4, <1>5 DEF AnswerInv

\* Every step keeps the answers faithful.
LEMMA AnswerStep == AnswerInv /\ TypeInv /\ [Next]_vars => AnswerInv'
<1> SUFFICES ASSUME AnswerInv, TypeInv, [Next]_vars PROVE AnswerInv'
  OBVIOUS
<1>1. ASSUME NEW code, failStream(code) PROVE AnswerInv'
  BY <1>1, AnswerEnds DEF failStream
<1>2. ASSUME UNCHANGED <<turns, recallForced, recallActive>>, pc # "append", pc' # "append"
      PROVE  AnswerInv'
  BY <1>2 DEF AnswerInv
<1>3. CASE CtxEnds \/ UNCHANGED vars
  BY <1>3 DEF CtxEnds, vars, loopVars, toolVars, AnswerInv
<1>4. CASE Request \/ Load
  BY <1>2, <1>4 DEF Request, Load, loopVars
<1>5. CASE LoadFails \/ LoopExits \/ LLMFails \/ ToolFatal
  BY <1>1, <1>5 DEF LoadFails, LoopExits, LLMFails, ToolFatal
<1>6. CASE ToolRefused \/ ToolSucceeds \/ ToolFails \/ ToolsDone
  BY <1>2, <1>6 DEF ToolRefused, ToolSucceeds, ToolFails, ToolsDone, loopVars
<1>7. CASE LLM
  <2>1. PICK r \in Replies : EmptyAnswer(r) \/ ChartRecall(r) \/ Answer(r) \/ ToolRound(r)
    BY <1>7 DEF LLM
  <2>2. pc = "llm" /\ r.text \in Texts /\ preserved \in Texts /\ produced \in Seq(Keys)
    BY <1>7 DEF LLM, Replies, TypeInv, TypeOK
  <2>3. CASE EmptyAnswer(r) \/ ToolRound(r)
    BY <1>2, <2>2, <2>3 DEF EmptyAnswer, ToolRound, loopVars
  <2>4. CASE ChartRecall(r)
    <3>1. recallActive' = TRUE /\ UNCHANGED <<pc, turns>>
      BY <2>4 DEF ChartRecall
    <3> QED BY <2>2, <3>1 DEF AnswerInv
  <2>5. CASE Answer(r)
    <3>1. PICK t : t = AnswerOf(r)
      OBVIOUS
    <3>2. /\ pc' = "append" /\ UNCHANGED <<turns, produced, recallForced, preserved>>
          /\ final' = appendMissingCharts(correctChartRefs(t, produced), produced)
      BY <2>5, <3>1 DEF Answer
    <3>3. t \in Texts /\ (recallForced => t = preserved)
      BY <2>2, <3>1 DEF AnswerOf, AnswerInv
    <3>4. t \in TextOver(Keys)
      BY <3>3, TextFacts
    <3>5. Faithful(final', produced, recallForced, t)
      BY <2>2, <3>2, <3>4, RewritingFaithful
    <3>6. Faithful(final', produced, recallForced, preserved)
      BY <3>3, <3>5 DEF Faithful
    <3> QED BY <3>2, <3>6 DEF AnswerInv
  <2> QED BY <2>1, <2>3, <2>4, <2>5
<1>8. CASE completeStream
  <2>1. Faithful(final, produced, recallForced, preserved)
    BY <1>8 DEF completeStream, AnswerInv
  <2>2. Ended("complete", "", final) \/ Ended("error", "memory-append", NoText)
    BY <1>8 DEF completeStream
  <2> QED BY <2>1, <2>2, AnswerEnds
<1> QED BY <1>3, <1>4, <1>5, <1>6, <1>7, <1>8 DEF Next, Process

(* What a completed turn says, for any number of tool rounds, charts and    *)
(* turns: every rendered chart is shown or linked to, a single rendered     *)
(* chart is the only one shown, and after a forced recall the prose and     *)
(* links that the user already read are kept, with each image in place or   *)
(* replaced by a rendered chart.                                            *)
THEOREM AnswersFaithful == Spec => []AnswerFaithful
<1>1. Init => AnswerInv
  <2>1. DOMAIN << >> = {}
    OBVIOUS
  <2> QED BY <2>1, Nothing DEF Init, AnswerInv
<1>2. AnswerInv => AnswerFaithful
  <2> SUFFICES ASSUME AnswerInv, NEW i \in Completed
               PROVE  Faithful(turns[i].text, turns[i].produced, turns[i].recall, turns[i].preserved)
    BY DEF AnswerFaithful, Faithful
  <2> QED BY DEF AnswerInv, Completed
<1> QED BY <1>1, <1>2, TypeInit, TypeStep, AnswerStep, PTL DEF Spec

-----------------------------------------------------------------------------
(* How long a turn can be.                                                  *)

\* The steps of one iteration: the LLM's reply, its calls, and their results.
Round == MaxCalls + 2

\* The steps that Process can still take before the turn ends.
StepsLeft ==
  CASE pc = "idle" -> 0
    [] pc = "append" -> 1
    [] pc = "llm" -> Round * (MaxIterations - iter) + 2
    [] pc = "tools" -> Round * (MaxIterations - iter - 1) + 3 + Len(calls)
    [] pc = "load" -> Round * (MaxIterations - iter) + 3

\* Whole rounds.
LEMMA Rounds ==
  ASSUME NEW w \in Nat, NEW k \in Nat
  PROVE  w * k \in Nat /\ w * (k + 1) = w * k + w
OBVIOUS

\* What is left, place by place.
LEMMA StepsLeftIs ==
  ASSUME TypeInv
  PROVE  /\ Round \in Nat /\ Round = MaxCalls + 2 /\ MaxCalls \in Nat /\ MaxIterations \in Nat
         /\ iter \in Nat /\ iter <= MaxIterations /\ Len(calls) \in Nat /\ Len(calls) <= MaxCalls
         /\ Round * (MaxIterations - iter) \in Nat
         /\ iter < MaxIterations =>
              /\ Round * (MaxIterations - iter - 1) \in Nat
              /\ Round * (MaxIterations - iter) = Round * (MaxIterations - iter - 1) + Round
         /\ Round * (MaxIterations - iter) <= Round * MaxIterations
<1>1. /\ MaxCalls \in Nat /\ MaxIterations \in Nat /\ iter \in Nat /\ iter <= MaxIterations
  BY LoopBounds DEF TypeInv, TypeOK
<1>2. Len(calls) \in Nat /\ Len(calls) <= MaxCalls
  BY <1>1, BoundedFacts DEF TypeInv, TypeOK
<1>3. Round \in Nat /\ Round = MaxCalls + 2
  BY <1>1 DEF Round
<1>4. PICK k : k = MaxIterations - iter
  OBVIOUS
<1>5. k \in Nat /\ Round * k \in Nat
  BY <1>1, <1>3, <1>4, Rounds
<1>6. ASSUME iter < MaxIterations
      PROVE  Round * (k - 1) \in Nat /\ Round * k = Round * (k - 1) + Round
  <2>1. PICK j : j = k - 1
    OBVIOUS
  <2>2. j \in Nat /\ k = j + 1
    BY <1>1, <1>4, <1>6, <2>1
  <2>3. Round * j \in Nat /\ Round * (j + 1) = Round * j + Round
    BY <1>3, <2>2, Rounds
  <2> QED BY <2>1, <2>2, <2>3
<1>7. Round * k <= Round * MaxIterations
  <2>1. \A w, x, y \in Nat : x <= y => w * x <= w * y
    OBVIOUS
  <2> QED BY <1>1, <1>3, <1>4, <1>5, <2>1
<1> QED BY <1>1, <1>2, <1>3, <1>4, <1>5, <1>6, <1>7

\* There is a bound on what is left at any time.
LEMMA StepsLeftBounded ==
  TypeInv => StepsLeft \in 0..(Round * MaxIterations + 3)
<1> SUFFICES ASSUME TypeInv PROVE StepsLeft \in 0..(Round * MaxIterations + 3)
  OBVIOUS
<1>1. PICK a : a = Round * (MaxIterations - iter)
  OBVIOUS
<1>2. PICK b : b = Round * (MaxIterations - iter - 1)
  OBVIOUS
<1>3. PICK m : m = Round * MaxIterations
  OBVIOUS
<1>4. /\ a \in Nat /\ a <= m /\ Len(calls) \in Nat /\ Len(calls) <= MaxCalls /\ MaxCalls \in Nat
      /\ (pc = "tools" => b \in Nat /\ a = b + (MaxCalls + 2))
  BY <1>1, <1>2, <1>3, StepsLeftIs DEF TypeInv
<1>5. m \in Nat
  <2>1. Round \in Nat /\ MaxIterations \in Nat
    BY StepsLeftIs
  <2> QED BY <1>3, <2>1, Rounds
<1>6. /\ pc = "idle" => StepsLeft = 0
      /\ pc = "append" => StepsLeft = 1
      /\ pc = "llm" => StepsLeft = a + 2
      /\ pc = "tools" => StepsLeft = b + 3 + Len(calls)
      /\ pc = "load" => StepsLeft = a + 3
  BY <1>1, <1>2 DEF StepsLeft
<1>7. pc \in {"idle", "load", "llm", "tools", "append"}
  BY DEF TypeInv, TypeOK
<1> QED BY <1>3, <1>4, <1>5, <1>6, <1>7

\* Every step of Process uses one up.
LEMMA StepsUsed ==
  ASSUME TypeInv, Process
  PROVE  StepsLeft' < StepsLeft
<1>1. PICK a : a = Round * (MaxIterations - iter)
  OBVIOUS
<1>2. PICK b : b = Round * (MaxIterations - iter - 1)
  OBVIOUS
<1>3. /\ a \in Nat /\ Len(calls) \in Nat /\ MaxCalls \in Nat
      /\ iter \in Nat /\ MaxIterations \in Nat
      /\ (iter < MaxIterations => b \in Nat /\ a = b + (MaxCalls + 2))
  BY <1>1, <1>2, StepsLeftIs
<1>4. /\ pc = "append" => StepsLeft = 1
      /\ pc = "llm" => StepsLeft = a + 2
      /\ pc = "tools" => StepsLeft = b + 3 + Len(calls) /\ iter < MaxIterations
      /\ pc = "load" => StepsLeft = a + 3
  BY <1>1, <1>2 DEF StepsLeft, TypeInv
<1>5. pc \in {"load", "llm", "tools", "append"}
  BY DEF Process, Load, LoadFails, LoopExits, LLMFails, LLM, ToolRefused, ToolSucceeds, ToolFails,
         ToolFatal, ToolsDone, completeStream
<1>6. StepsLeft \in Nat /\ StepsLeft > 0
  BY <1>3, <1>4, <1>5
<1>7. ASSUME pc' = "idle" PROVE StepsLeft' < StepsLeft
  BY <1>6, <1>7 DEF StepsLeft
<1>8. CASE LoadFails \/ LoopExits \/ LLMFails \/ ToolFatal \/ completeStream
  <2>1. pc' = "idle"
    BY <1>8 DEF LoadFails, LoopExits, LLMFails, ToolFatal, completeStream, failStream, Ended
  <2> QED BY <1>7, <2>1
<1>9. CASE Load
  <2>1. pc = "load" /\ pc' = "llm" /\ iter' = iter
    BY <1>9 DEF Load, loopVars
  <2>2. StepsLeft' = a + 2
    BY <1>1, <2>1 DEF StepsLeft, Round
  <2> QED BY <1>3, <1>4, <2>1, <2>2
<1>10. CASE LLM
  <2>1. pc = "llm" /\ iter < MaxIterations
    BY <1>10 DEF LLM
  <2>2. PICK r \in Replies : EmptyAnswer(r) \/ ChartRecall(r) \/ Answer(r) \/ ToolRound(r)
    BY <1>10 DEF LLM
  <2>3. CASE EmptyAnswer(r) \/ ChartRecall(r)
    <3>1. pc' = "llm" /\ iter' = iter + 1
      BY <2>1, <2>3 DEF EmptyAnswer, ChartRecall
    <3>2. MaxIterations - iter' = MaxIterations - iter - 1
      BY <1>3, <3>1
    <3>3. StepsLeft' = b + 2
      BY <1>2, <3>1, <3>2 DEF StepsLeft, Round
    <3> QED BY <1>3, <1>4, <2>1, <3>3
  <2>4. CASE Answer(r)
    <3>1. pc' = "append"
      BY <2>4 DEF Answer
    <3>2. StepsLeft' = 1
      BY <3>1 DEF StepsLeft
    <3> QED BY <1>3, <1>4, <2>1, <3>2
  <2>5. CASE ToolRound(r)
    <3>1. pc' = "tools" /\ iter' = iter /\ calls' = r.calls
      BY <2>5 DEF ToolRound, loopVars
    <3>2. Len(r.calls) \in Nat /\ Len(r.calls) <= MaxCalls
      BY <1>3, BoundedFacts DEF Replies
    <3>3. StepsLeft' = b + 3 + Len(r.calls)
      BY <1>2, <3>1 DEF StepsLeft, Round
    <3> QED BY <1>3, <1>4, <2>1, <3>2, <3>3
  <2> QED BY <2>2, <2>3, <2>4, <2>5
<1>11. CASE ToolRefused \/ ToolSucceeds \/ ToolFails
  <2>1. /\ pc = "tools" /\ pc' = "tools" /\ iter' = iter /\ calls # << >>
        /\ calls' = Tail(calls)
    BY <1>11 DEF ToolRefused, ToolSucceeds, ToolFails, Result, loopVars
  <2>2. calls \in Seq(Tools)
    BY <1>3, BoundedFacts DEF TypeInv, TypeOK
  <2>3. Len(calls') \in Nat /\ Len(calls') = Len(calls) - 1
    BY <2>1, <2>2
  <2>4. StepsLeft' = b + 3 + Len(calls')
    BY <1>2, <2>1 DEF StepsLeft, Round
  <2> QED BY <1>3, <1>4, <2>1, <2>3, <2>4
<1>12. CASE ToolsDone
  <2>1. pc = "tools" /\ pc' = "llm" /\ iter' = iter + 1
    BY <1>12 DEF ToolsDone
  <2>2. MaxIterations - iter' = MaxIterations - iter - 1
    BY <1>3, <2>1
  <2>3. StepsLeft' = b + 2
    BY <1>2, <2>1, <2>2 DEF StepsLeft, Round
  <2> QED BY <1>3, <1>4, <2>1, <2>3
<1> QED BY <1>8, <1>9, <1>10, <1>11, <1>12 DEF Process

\* What a turn of Process may take: no more steps than are left, each of which
\* it uses up, while a client that cancels and a deadline that passes change
\* nothing of that.
CountsDown == (Process => StepsLeft' < StepsLeft) /\ (CtxEnds => StepsLeft' = StepsLeft)

(* A turn takes at most MaxIterations * (MaxCalls + 2) + 3 steps of Process *)
(* from its request to its terminator, whatever the LLM replies, the tools  *)
(* do and the client cancels: the loop's budgets, nudges, recalls and error *)
(* caps together leave no way to go on for ever.                            *)
THEOREM TurnsBounded ==
  Spec => [](StepsLeft \in 0..(Round * MaxIterations + 3)) /\ [][CountsDown]_vars
<1>1. TypeInv /\ [Next]_vars => [CountsDown]_vars
  <2>1. ASSUME CtxEnds PROVE StepsLeft' = StepsLeft
    BY <2>1 DEF CtxEnds, StepsLeft, loopVars, toolVars
  <2>2. TypeInv /\ Process => StepsLeft' < StepsLeft
    BY StepsUsed
  <2> QED BY <2>1, <2>2 DEF CountsDown
<1> QED BY <1>1, TypeInit, TypeStep, StepsLeftBounded, PTL DEF Spec
=============================================================================
