------------------------------ MODULE AgentLoop ------------------------------
(***************************************************************************)
(* The LLM <-> tool loop of pkg/workflow/builtin/agent/loop.go (Process),  *)
(* over successive turns of one conversation that share its memory.        *)
(*                                                                         *)
(* A text is what the loop looks at: whether it has words, only white      *)
(* space or neither, the chart keys its images refer to, in order, and the *)
(* ones it names otherwise (a plain link).  A message is its role, whether *)
(* it has content, and how many tool_use blocks it holds.  Retries inside  *)
(* one LLM call or tool call are in Retry, the stream in NatsStream, the   *)
(* wait for a client-side tool in ChatRequest.                             *)
(***************************************************************************)
EXTENDS Integers, Sequences, SequencesExt

CONSTANTS
  Tools, Connected,            \* names the model may call; the agent's tools
  FatalTools,                  \* tools with FailureTerminate
  HasMemory,                   \* is a memory node connected?
  Keys,                        \* chart object keys
  MaxIterations, MaxEmptyAnswerRetries, MaxToolRetries,   \* configuration
  MaxTurns,                    \* bound: turns of the conversation
  MaxCalls,                    \* bound: tool calls in one LLM message
  MaxRefs                      \* bound: charts one LLM text refers to

\* What a budget can be, whatever the environment says.
envIntClamped(max) == 0..max

ASSUME LoopBounds ==
  /\ Connected \subseteq Tools
  /\ FatalTools \subseteq Connected /\ HasMemory \in BOOLEAN
  /\ MaxIterations \in 1..50
  /\ MaxEmptyAnswerRetries \in envIntClamped(5) /\ MaxToolRetries \in envIntClamped(10)
  /\ MaxTurns \in Nat /\ MaxCalls \in Nat /\ MaxRefs \in Nat

VARIABLES
  pc,        \* "idle" | "load" | "llm" | "tools" | "append"
  turns,     \* how each past turn ended: [kind, code, text, produced, ...]
  memory,    \* the turns the memory node holds, oldest first
  ctxDone,   \* the request context is cancelled or past its deadline
  iter, emptyRetries, errCount, produced,
  recallForced, recallActive, preserved,    \* Process's per-turn locals
  msgs,      \* the messages of the next LLM request
  calls,     \* tool calls of the last LLM message still to be handled
  results,   \* tool_result blocks built so far for it
  fresh,     \* charts those results hold
  final      \* finalMsg's text, on its way to memory

loopVars == <<iter, emptyRetries, errCount, produced, recallForced, recallActive, preserved>>
toolVars == <<calls, results, fresh>>
vars == <<pc, turns, memory, ctxDone, loopVars, msgs, toolVars, final>>

\* White space beside a chart is not told from none.
Texts ==
  {t \in [prose : {"none", "space", "words"}, links : SUBSET Keys,
          imgs : {s \in BoundedSeq(Keys, MaxRefs) : IsInjective(s)}] :
     /\ Len(t.imgs) + Cardinality(t.links) <= MaxRefs
     /\ t.prose = "space" => t.imgs = << >> /\ t.links = {}}
NoText == [prose |-> "none", links |-> {}, imgs |-> << >>]

\* No content block at all; and what TrimSpace makes of that.
Empty(t) == t = NoText
Blank(t) == t.prose # "words" /\ t.imgs = << >> /\ t.links = {}

(* What the loop can tell of one finished LLM stream.  A stream that a done *)
(* context cut off may be among them, with any part of its text: the        *)
(* goroutine that forwards events selects between handing over the error    *)
(* and ctx.Done(), so the error may be lost.  Words beside tool calls that  *)
(* are carried out are never looked at, nor which tools a reply calls that  *)
(* ends the turn.                                                           *)
Replies ==
  {r \in [stop : {"end_turn", "other"}, text : Texts, calls : BoundedSeq(Tools, MaxCalls)] :
     /\ r.stop = "other" /\ r.calls # << >> => r.text = NoText
     /\ r.stop = "end_turn" => \A i, j \in DOMAIN r.calls : r.calls[i] = r.calls[j]}

UserText == [role |-> "user", empty |-> FALSE, uses |-> 0, results |-> 0, over |-> FALSE]
Assistant(r) == [role |-> "assistant", empty |-> Empty(r.text) /\ r.calls = << >>,
                 uses |-> Len(r.calls), results |-> 0, over |-> r.stop = "end_turn"]
Remembered(t) == [role |-> "assistant", empty |-> Empty(t), uses |-> 0, results |-> 0, over |-> TRUE]

-----------------------------------------------------------------------------
(* The chart helpers.  produced is the sequence of keys tools rendered.     *)

\* Images and plain links alike.
extractChartKeys(t) == ToSet(t.imgs) \cup t.links

\* p and the charts that tool results mention, each once, in order.
extractChartRefs(p, keys) ==
  LET out[n \in 0..Len(keys)] ==
        IF n = 0 THEN p
        ELSE IF keys[n] \in ToSet(out[n - 1]) THEN out[n - 1]
        ELSE Append(out[n - 1], keys[n])
  IN  out[Len(keys)]
missingChartKeys(t, p) == extractChartKeys(t) \ ToSet(p)

\* An image of a chart no tool rendered becomes the one chart that was
\* rendered, when there is exactly one; otherwise it is left alone.  Links
\* always are.
correctChartRefs(t, p) ==
  [t EXCEPT !.imgs = [i \in DOMAIN t.imgs |->
     IF t.imgs[i] \notin ToSet(p) /\ Len(p) = 1 THEN p[1] ELSE t.imgs[i]]]

\* A bug: only the last rendered chart is appended.
appendLastChart(t, p) ==
  IF p # << >> /\ Last(p) \notin extractChartKeys(t)
  THEN [t EXCEPT !.imgs = Append(@, Last(p))] ELSE t

\* Rendered charts the text does not mention are appended, in order.
appendMissingCharts(t, p) ==
  LET add[n \in 0..Len(p)] ==
        IF n = 0 THEN << >>
        ELSE IF p[n] \in extractChartKeys(t) THEN add[n - 1]
        ELSE Append(add[n - 1], p[n])
  IN  [t EXCEPT !.imgs = @ \o add[Len(p)]]

-----------------------------------------------------------------------------
\* The conversation is new, or an earlier turn of it was completed with an
\* empty answer, the one thing of its history the loop's requests depend on.
Earlier == {<< >>} \cup (IF HasMemory THEN {<<[turn |-> 0, text |-> NoText]>>} ELSE {})

Init ==
  /\ pc = "idle" /\ turns = << >> /\ memory \in Earlier /\ ctxDone = FALSE
  /\ iter = 0 /\ emptyRetries = 0 /\ errCount = [t \in Tools |-> 0]
  /\ produced = << >> /\ recallForced = FALSE /\ recallActive = FALSE
  /\ preserved = NoText /\ msgs = << >>
  /\ calls = << >> /\ results = 0 /\ fresh = << >>
  /\ final = NoText

\* The terminator: Process returns, its locals and its context are gone.
Ended(kind, code, text) ==
  /\ pc' = "idle"
  /\ turns' = Append(turns, [kind |-> kind, code |-> code, text |-> text,
                             produced |-> produced, recall |-> recallForced,
                             preserved |-> preserved])
  /\ ctxDone' = FALSE
  /\ iter' = 0 /\ emptyRetries' = 0 /\ errCount' = [t \in Tools |-> 0]
  /\ produced' = << >> /\ recallForced' = FALSE /\ recallActive' = FALSE
  /\ preserved' = NoText /\ msgs' = << >>
  /\ calls' = << >> /\ results' = 0 /\ fresh' = << >>
  /\ final' = NoText

failStream(code) ==
  /\ Ended("error", code, NoText)
  /\ UNCHANGED memory

\* A request arrives.
Request ==
  /\ pc = "idle" /\ Len(turns) < MaxTurns
  /\ pc' = "load"
  /\ UNCHANGED <<turns, memory, ctxDone, loopVars, msgs, toolVars, final>>

\* The client cancels, or the request times out, at any moment.
CtxEnds ==
  /\ pc # "idle" /\ ~ctxDone
  /\ ctxDone' = TRUE
  /\ UNCHANGED <<pc, turns, memory, loopVars, msgs, toolVars, final>>

\* Steps 1 to 4 of Process: load history, render the prompt, build the
\* messages: for each remembered turn the user's and the assistant's, then
\* the user's request.
Load ==
  /\ pc = "load"
  /\ pc' = "llm"
  /\ msgs' = [i \in 1..(2 * Len(memory) + 1) |->
                IF i % 2 = 0 THEN Remembered(memory[i \div 2].text) ELSE UserText]
  /\ UNCHANGED <<turns, memory, ctxDone, loopVars, toolVars, final>>

LoadFails ==
  /\ pc = "load"
  /\ \E code \in {"render"} \cup (IF HasMemory THEN {"memory-load"} ELSE {}) :
       failStream(code)

\* The head of the loop: the iteration budget, then the context.
LoopExits ==
  /\ pc = "llm"
  /\ \/ iter >= MaxIterations /\ failStream("max-iterations")
     \/ iter < MaxIterations /\ ctxDone /\ failStream("cancelled")

\* The LLM call ends in an error, after retries: a done context, or a deadline
\* of an attempt or of the provider's own.
LLMFails ==
  /\ pc = "llm" /\ iter < MaxIterations
  /\ \E code \in {"llm-error", "timeout"} \cup (IF ctxDone THEN {"cancelled"} ELSE {}) :
       failStream(code)

\* The text the turn would end with: after a forced chart recall, the answer
\* the user has already read.
AnswerOf(r) == IF recallActive THEN preserved ELSE r.text

TurnOver(r) == r.stop = "end_turn" \/ r.calls = << >>

Nudges(r) == /\ ~recallActive
             /\ Blank(r.text)
             /\ emptyRetries < MaxEmptyAnswerRetries

Recalls(r) == ~recallForced /\ Cardinality(missingChartKeys(AnswerOf(r), produced)) = 1

\* A blank answer: re-prompt; an assistant message without content gets some.
EmptyAnswer(r) ==
  /\ TurnOver(r) /\ Nudges(r)
  /\ emptyRetries' = emptyRetries + 1
  /\ iter' = iter + 1
  /\ msgs' = msgs \o <<[Assistant(r) EXCEPT !.empty = FALSE], UserText>>
  /\ UNCHANGED <<pc, turns, memory, ctxDone, errCount, produced, recallForced,
                 recallActive, preserved, toolVars, final>>

\* The answer refers to exactly one chart no tool rendered: keep it and make the
\* model render that chart in one more, silent, round.
ChartRecall(r) ==
  /\ TurnOver(r) /\ ~Nudges(r) /\ Recalls(r)
  /\ recallForced' = TRUE /\ recallActive' = TRUE
  /\ preserved' = AnswerOf(r)
  /\ iter' = iter + 1
  /\ msgs' = msgs \o <<Assistant(r), UserText>>
  /\ UNCHANGED <<pc, turns, memory, ctxDone, emptyRetries, errCount, produced,
                 toolVars, final>>

\* The turn is over: the answer is corrected to the charts rendered, and is all
\* that goes on to completeStream.
Answer(r) ==
  /\ TurnOver(r) /\ ~Nudges(r) /\ ~Recalls(r)
  /\ pc' = "append" /\ recallActive' = FALSE /\ msgs' = << >>
  /\ final' = appendMissingCharts(correctChartRefs(AnswerOf(r), produced), produced)
  /\ UNCHANGED <<turns, memory, ctxDone, iter, emptyRetries, errCount, produced,
                 recallForced, preserved, toolVars>>

\* Tool calls; in a recall round the client is not told of them.
ToolRound(r) ==
  /\ ~TurnOver(r)
  /\ calls' = r.calls /\ results' = 0 /\ fresh' = << >>
  /\ pc' = "tools"
  /\ msgs' = Append(msgs, Assistant(r))
  /\ UNCHANGED <<turns, memory, ctxDone, loopVars, final>>

Capped(t) == errCount[t] > MaxToolRetries

Runs(t) == t \in Connected /\ ~Capped(t)

\* One tool_result block is built for the call at the head.
Result(t, keys) ==
  /\ calls' = Tail(calls)
  /\ results' = results + 1
  /\ fresh' = fresh \o keys

\* A bug: a refused call is skipped without a tool_result.
ToolRefusedSilently ==
  /\ pc = "tools" /\ calls # << >> /\ ~Runs(Head(calls))
  /\ calls' = Tail(calls)
  /\ UNCHANGED <<pc, turns, memory, ctxDone, loopVars, msgs, results, fresh, final>>

\* A bug: a refused call is tried again until it succeeds.
ToolRefusedRetried ==
  /\ pc = "tools" /\ calls # << >> /\ ~Runs(Head(calls))
  /\ UNCHANGED vars

\* An unknown tool, or one past its cap, is answered without being invoked.
ToolRefused ==
  /\ pc = "tools" /\ calls # << >> /\ ~Runs(Head(calls))
  /\ Result(Head(calls), << >>)
  /\ UNCHANGED <<pc, turns, memory, ctxDone, loopVars, msgs, final>>

\* A call that succeeds: an invocation, or the client's answer to a UI tool.
ToolSucceeds ==
  /\ pc = "tools" /\ calls # << >> /\ Runs(Head(calls))
  /\ \E keys \in {<< >>} \cup {<<k>> : k \in Keys} : Result(Head(calls), keys)
  /\ UNCHANGED <<pc, turns, memory, ctxDone, loopVars, msgs, final>>

\* A call that fails: an error after its own retries, a client that skipped,
\* timed out or could not be reached, or a done context.
ToolFails ==
  /\ pc = "tools" /\ calls # << >> /\ Runs(Head(calls)) /\ Head(calls) \notin FatalTools
  /\ errCount' = [errCount EXCEPT ![Head(calls)] = @ + 1]
  /\ Result(Head(calls), << >>)
  /\ UNCHANGED <<pc, turns, memory, ctxDone, iter, emptyRetries, produced, recallForced,
                 recallActive, preserved, msgs, final>>

\* The same, for a tool whose failure ends the turn.
ToolFatal ==
  /\ pc = "tools" /\ calls # << >> /\ Runs(Head(calls)) /\ Head(calls) \in FatalTools
  /\ failStream("tool-error")

\* All calls answered: remember the charts, send the results back.  (The
\* code's branch for no results at all is dead: RequestWellFormed shows that
\* every call of a non-empty list left one.)
ToolsDone ==
  /\ pc = "tools" /\ calls = << >>
  /\ produced' = extractChartRefs(produced, fresh)
  /\ pc' = "llm" /\ iter' = iter + 1
  /\ msgs' = Append(msgs, [UserText EXCEPT !.results = results])
  /\ results' = 0 /\ fresh' = << >>
  /\ UNCHANGED <<turns, memory, ctxDone, emptyRetries, errCount, recallForced, recallActive,
                 preserved, calls, final>>

Stored == memory' = Append(memory, [turn |-> Len(turns) + 1, text |-> final])

\* A bug: the answer is announced whatever the memory said.
completeAnyway ==
  /\ pc = "append"
  /\ Stored \/ UNCHANGED memory
  /\ Ended("complete", "", final)

\* completeStream: remember the turn, then close the stream with the answer.
\* A store that reports an error may have stored the turn all the same.
completeStream ==
  /\ pc = "append"
  /\ \/ ~HasMemory /\ UNCHANGED memory /\ Ended("complete", "", final)
     \/ HasMemory /\ Stored /\ Ended("complete", "", final)
     \/ HasMemory /\ (Stored \/ UNCHANGED memory) /\ Ended("error", "memory-append", NoText)

LLM == /\ pc = "llm" /\ iter < MaxIterations
       /\ \E r \in Replies : EmptyAnswer(r) \/ ChartRecall(r) \/ Answer(r) \/ ToolRound(r)

Process == \/ Load \/ LoadFails \/ LoopExits \/ LLMFails
           \/ ToolRefused \/ ToolSucceeds \/ ToolFails \/ ToolFatal \/ ToolsDone
           \/ completeStream \/ LLM

Next == Request \/ CtxEnds \/ Process

Spec == Init /\ [][Next]_vars

(* The goroutine running Process is scheduled, and every call it makes      *)
(* returns: LLM calls and UI waits have timeouts.                           *)
FairSpec == Spec /\ WF_vars(Process)

-----------------------------------------------------------------------------
(* The type invariant, with the code's own limits on its counters.          *)
TypeOK ==
  /\ pc \in {"idle", "load", "llm", "tools", "append"}
  /\ ctxDone \in BOOLEAN 
  /\ recallForced \in BOOLEAN /\ recallActive \in BOOLEAN
  /\ iter \in 0..MaxIterations /\ emptyRetries \in 0..MaxEmptyAnswerRetries
  /\ errCount \in [Tools -> 0..(MaxToolRetries + 1)]
  /\ produced \in Seq(Keys) /\ IsInjective(produced)
  /\ preserved \in Texts
  /\ calls \in BoundedSeq(Tools, MaxCalls) /\ results \in 0..MaxCalls
  /\ Len(turns) <= MaxTurns

Completed == {i \in DOMAIN turns : turns[i].kind = "complete"}

(* What the stream told the client and what the conversation remembers      *)
(* agree: every completed turn is remembered with the text that was shown,  *)
(* and a remembered turn was completed or reported as memory-append, never  *)
(* one that failed or was cancelled (completeStream's order).               *)
MemoryMatchesStream ==
  HasMemory =>
    /\ \A i \in Completed : \E m \in ToSet(memory) : m = [turn |-> i, text |-> turns[i].text]
    /\ \A m \in ToSet(memory) : m.turn = 0 \/ m.turn \in Completed \/ turns[m.turn].code = "memory-append"

(* What a completed turn says.  No rendered chart is silently dropped: it   *)
(* is shown, unless the model itself wrote a link to it; and when exactly   *)
(* one was rendered the answer shows no other: through tool rounds, a       *)
(* forced recall and the two rewriting passes.  After a forced recall the   *)
(* prose and links the user already read are what the turn ends with, and   *)
(* each image stays in place, the same or replaced by a chart rendered in   *)
(* this turn.  (A link to a chart that was not rendered stays as it is.)    *)
AnswerFaithful ==
  \A i \in Completed : LET t == turns[i] IN
    /\ ToSet(t.produced) \subseteq ToSet(t.text.imgs) \cup t.text.links
    /\ Len(t.produced) = 1 => ToSet(t.text.imgs) \subseteq ToSet(t.produced)
    /\ t.recall =>
         /\ t.text.prose = t.preserved.prose /\ t.text.links = t.preserved.links
         /\ \A n \in DOMAIN t.preserved.imgs :
              n \in DOMAIN t.text.imgs /\ t.text.imgs[n] \in {t.preserved.imgs[n]} \cup ToSet(t.produced)

(* The LLM API rejects a request unless every assistant message with        *)
(* tool_use blocks is followed by one result per block (or is the last one, *)
(* its results being built) and no assistant message lacks content: through *)
(* refused and failing calls, nudges, recalls and tool rounds.  Excepted    *)
(* are a reply that ends the turn and calls tools at once, which the loop   *)
(* nudges or recalls without results, and an empty answer that an earlier   *)
(* turn was completed with and memory kept.                                 *)
RequestWellFormed ==
  /\ \A i \in 1..(Len(msgs) - 1) :
       msgs[i].uses > 0 /\ ~msgs[i].over => msgs[i + 1].results = msgs[i].uses
  /\ pc = "tools" => results + Len(calls) = Last(msgs).uses /\ Last(msgs).uses > 0
  /\ pc = "llm" => \A i \in DOMAIN msgs : msgs[i].empty => \E m \in ToSet(memory) : Empty(m.text)

(* Every request for a turn is answered by a terminator.                    *)
TurnEnds == (pc # "idle") ~> (pc = "idle")
=============================================================================
