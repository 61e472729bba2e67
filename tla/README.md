# A verification project for ai-agent-go-service

TLA+ models of the parts of the service whose correctness depends on the order
in which things happen, TLC configurations that check them on small instances,
and TLAPS proofs of the results that matter most for every instance.
`PROJECT.json` maps every definition to the lines it models.

## 1. The system

A browser chats with an LLM agent. The browser holds a WebSocket to the *web
bridge* (`webbridge/`), which opens a stream over NATS for every user message;
the *chat trigger* (`natschat/`) of the agent service receives the request and
starts the workflow, whose *agent node* (`agent/loop.go`) calls an LLM and
tools in a loop, keeps the conversation in a *memory node* (Postgres or
DynamoDB) and answers with a stream of events through a *stream session*
(`pkg/transport/natsstream`).

    browser --ws--> bridge --NATS request--> trigger --> agent loop --> LLM (Bedrock, gateway)
       ^               |                        |            |-------> tools
       |            events <--NATS inbox-- stream session    `-------> memory (Postgres, Dynamo)

### Inventory

| component | state it keeps | operations | interacts with | what is hard |
|---|---|---|---|---|
| stream session, `natsstream/server.go` | sequence number, closed flag, cancel subscription and context | start, send, complete, fail, cancel callback | trigger, agent loop (sink), NATS | numbers taken before a publish that may fail; several callers may terminate |
| stream subscription, `natsstream/client.go` | expected number, events and done channels, Once, timer | inbox callback, timer, Events/Cancel/Close | NATS, its caller | three threads, one of them blocked on a full channel, closing the channel the other sends on |
| tool results, `natsstream/toolresult.go` | one subscription and a channel of one per awaited call | wait, publish | agent loop, bridge | answers before the subscription, repeated, or as the wait ends |
| chat trigger, `natschat/trigger.go`, `collectsink.go` | none beyond the session or the sink | refuse, stream, collect one reply | session, engine, IDT validator | error paths between session creation and start; several writers of terminators, one reply |
| web bridge socket, `webbridge/bridge.go` | active session id, client frames, current subscription | reader goroutine, turn loop, pump | browser, NATS | five sources in one select; turns that end in seven ways |
| stream tokens, `webbridge/bridge.go`, `auth_gofiber.go` | one-time tokens, credential registry | issue, upgrade, sweep, release, refresh | host session | expiry, reuse, overlapping sockets |
| agent loop, `agent/loop.go` | messages, iteration, nudges, chart recall, tool errors | load, LLM round, tool round, answer, fail | LLM, tools, memory, sink | three ways to go round again, two caps, a silent round, memory and stream in step |
| retry engine, `engine/retry` | attempt, budget, backoff timer | attempt, classify, wait | LLM calls, tool calls | events already forwarded when an attempt fails; context against timer |
| Postgres memory, `pgmemory` | rows with a UNIQUE key | append (transaction, retries), load | database | MAX+1 under read committed, lock waits, lost commit answers |
| Dynamo memory, `dynamomemory` | items keyed by the writer's clock, a table and its TTL | append (conditional transaction, retries), load, provision | DynamoDB | order by clocks that differ; instances that provision together; items that expire one by one |
| model auto-update, `bedrock/autoupdate.go`, `factory.go` | model, last-known-good, unhealthy flag | daily cycle, probes, swap, recover | gateway, catalog, requests, Close | verdicts that must survive days, shutdown that must not be one |
| Bedrock stream, `bedrock/stream.go` | per-stream accumulators | stream, fall back once | model cells, provider | model and fallback read at different moments |
| inference gateway, `inferencegateway` | an inbox, the expected number, the tool use being accumulated | request, accept, consume, fail | retry engine, NATS | lost events, events before the answer, half a tool use, silence |
| workflow engine, executor, loader, `engine/` | loaded workflows, running requests | load all (derivation, validation, Init), shutdown, prompt update | every node | partial failure of a load; overlays that inherit too much; endpoints reachable before their workflow is; updates under running requests |
| service bootstrap, `agent/service.go` | the order of all of these | load, start, publish, signal, shutdown | engine, NATS service, assistant runtime | requests during load and between the two shutdowns |
| assistant runtime, `pkg/rsassistant` | published agents, engine streams, relays, consults | publish, deliver, close, consult | engine, stream clients | what a card declares against what the trigger checks; delivery against close; nested consults |
| IDT validator, `pkg/idt` | cache of allows | validate, remember | trigger, Identity | an allow that outlives its grant; failure modes that let through |
| prompt store and admin, `promptstore`, `promptadmin` | prompt versions keyed by the saver's clock | save, announce, re-read, hot-apply | engine, other instances | saves during load, during a read, during an apply |
| prompt rewrite, `promptrewrite` | none | stream a model's answer | session, Bedrock | none beyond the session's |
| query, fetch and chart tools | none | one call each | agent loop | none of their own |
| bridge storage, widgets | files | upload, sweep, render | browser | I/O and presentation |

The properties that make each modelled component correct are listed in section 4.

## 2. Modules

| module | models | composes |
|---|---|---|
| `FifoStream` | the abstract stream: `start data* terminator`, the client hears a prefix | – |
| `NatsStream` | session, NATS, and the three threads of the subscription, for one request | implements `FifoStream` |
| `Consult` | the assistant runtime's stream and relay, over the same session | extends `NatsStream`: one session, either reader |
| `WebBridge` | one browser socket over several turns, with the agent runs it starts | uses the stream as reliable and its callback as one step; loss, and what a client's threads do to each other, are in `NatsStream` (section 4 has what that means for the bridge's own client) |
| `AgentLoop` | `Process` over the turns of one conversation, with its memory | one LLM or tool call is a step; what happens inside it is `Gateway`'s and `ChatRequest`'s |
| `Retry` | the attempt loop around the agent's LLM operation | |
| `Gateway` | the LLM call itself: an open provider, or the inference gateway over a lossy inbox | extends `Retry` |
| `ChatRequest` | one request, streamed or single, with its LLM call, a client-side tool and all writers of terminators | extends `Gateway` |
| `StreamAuth` | tokens, sockets and the credential registry | |
| `IdtValidator` | validation of a credential, with modes, cache and Identity | |
| `Access` | bridge and validator on one clock: the credential a turn carries is what is validated | extends `IdtValidator`, instantiates `StreamAuth` |
| `ConversationMemory` | the abstract memory: a whole turn or nothing, and a true outcome | – |
| `PgMemory` | concurrent Appends at read committed, Load | |
| `DynamoMemory` | provisioning, concurrent Appends under skewed clocks, Load, TTL | |
| `Memories` | either memory behind the workflow | extends `PgMemory`, instantiates `DynamoMemory`; implements `ConversationMemory` |
| `AutoUpdate` | the updater, the model cells, requests reading them | |
| `Derivation` | workflow documents: overlays (`derive.go`) and the checks of `LoadOne`, as operators | |
| `Engine` | the life of one process: load, start, publication, a request, shutdown | uses `Derivation` |
| `Prompts` | the prompt store, saves by any instance, their announcement and hot-apply | extends `Engine`: load reads the store, start subscribes |
| `ConsultProofs` | theorems about `NatsStream` and `Consult` | |
| `WebBridgeProofs`, `AgentLoopProofs`, `ChatRequestProofs`, `AutoUpdateProofs` | theorems about the module of the name | |
| `AccessProofs` | theorems about `IdtValidator` and `Access` | |
| `MemoriesProofs` | theorems about `PgMemory` and `Memories` | |
| `EngineProofs` | theorems about `Prompts`, and so about `Engine` | |
| `MC...` | instances for TLC | |

Definitions named `...Any`, `...Dropping`, `...Deaf` and the like, each with the
comment "A bug: ...", are faulty variants of the definition that follows them.
They are not part of any specification; substituting one for its original must
make the property named with it fail, which shows that the property depends on
that piece of code.

### How state and actions correspond to the code

**NatsStream.** `session`, `seq`, `closed`, `ctxDone`, `cancelSub` are the fields
of `StreamSession` (and how far the trigger got); `nextSeq`, `cancelSubj`,
`held`, `cb` are the callback's; `closer`, `closeStep` the progress of
`closeInternal` inside its `sync.Once`, one step for each of Unsubscribe,
`close(done)`, `close(events)`, because the callback's select can run between
them. The events channel is kept as a log and a read cursor. Go's rules are
taken literally: a select with several ready cases may take any, a send on a
closed channel panics (`panicked`, after which nothing happens), closing `done`
releases a blocked select, a receive hands over a blocked sender's value. NATS
may lose any message (`Lose`) and a publish may fail (`Lossy`); it does not
reorder or duplicate, because one publisher sends to one inbox.

**WebBridge.** `reader`, `handler` and the callback (`OnMessage`) are the three
goroutines; `cq` is `clientFrames`, `events` the subscription's channel, both
with their capacity. Each `Pump...` action is one case of `pumpEvents`' select
with all that follows it up to the next select, including `runOneTurn`'s
deferred Close and the update of `activeSessionID` (`Leave`). The browser may
send any frame at any moment and leave at any moment; the agent runs of all
turns go on independently, an abandoned one included. `screen`, `reqs`, `how`,
`rushed`, `dropped` are history.

**AgentLoop.** An LLM reply is any member of `Replies`: a stop reason, a text,
tool calls. A text is abstracted to what the loop looks at: has it words, only
white space or neither, which chart keys do its images name, in order, and which
its plain links, which count as mentioned but are never rewritten. A message is its
role, whether it has content, and its counts of tool_use and tool_result blocks.
Tool calls of one message are handled one by one, as in the code; a tool, the
client's included, may succeed (with or without a chart), fail, be unknown, be over
its cap, or be one whose failure ends the turn. `CtxEnds` may happen anywhere, and an
LLM call may time out without it.

**Consult.** The session, NATS and the thread names are `NatsStream`'s; `onMsg`,
`deliver`, `closeDone`, `closeEvents` are `engineStream`'s. The mutex is not a
variable: it is held exactly while the callback is at its select or blocked in it
(`muFree`), since `close` does nothing that waits while it holds it. `relayEvent`,
`relayEof` and `relayAskedOff` are the cases of `consult`'s select with all that
follows up to the next one, and `finish` is what the returned error of Close ends in.

**Retry, Gateway.** Time is counted in ticks and timers fire on time. The operation is
the closure of `loop.go`: it forwards events, and what it returns depends on
whether it has (`Returned`). `Classify` keeps the code's order of tests; an error
with a code of its own may be of any class. With the
provider left open the operation forwards and fails as it likes, which is what
Bedrock's stream is to the loop. With the gateway, `script` is what the service
publishes, `inbox` what arrives, `want` the expected number, `accum` the tool use in
the making and `voice` what the turn has heard, as positions in `script`, so that
`WholeVoice` can tell a whole tool input from a piece of one.

**ChatRequest.** `run` is where the goroutine of the request is; `said` lists the
terminators in the order agent, executor and trigger write them, of which the sink
and the session keep the first; `reply` is what NATS is answered. The client may
answer at any moment after the `tool_call`, more than once; `msgs` is the wait's
channel of one. The rounds of the loop after the first LLM call are one choice
here (`Complete`, `Breaks`): they are `AgentLoop`'s. `cause` is history: what made
the agent fail the run.

**StreamAuth.** The credential registry is the vendored session library's
(`trx-gofiber-session`, `idtregistry.go`), as `auth_gofiber.go` uses it.

**IdtValidator, Access.** A validation is asked (`validate`), judged by Identity at
some moment before its timeout, and read (`Serve`); grants come and go between any
two of these. `lag` records how long ago the grant used had been in force, `late` how
long ago when the allow was stored. In
`Access` every turn carries what the registry holds for its session at that moment.

**PgMemory.** Postgres at its default isolation is modelled by two sets of rows,
committed and pending: a statement sees committed rows, an insert of a pending
key waits (it is not enabled), an insert of a committed key is a unique
violation. The commit's answer may be lost.

**DynamoMemory.** One conditional transaction is one step, as the service promises;
its answer may be lost, another transaction on the same items makes it fail. A
timestamp is the true clock plus the instance's skew. `Load` is the newest, by sort
key, of the items its query found, and a query that is not a consistent read finds any
of them (`Views`). Tables and TTL settle when the service likes, and another consumer
of the table may have TTL enabled on an attribute of its own, before or during
provisioning; `foreign` is history: the instances that met that change under way.

**AutoUpdate.** The steps of `runOnce` between which the context can be
cancelled or a request can read the cells are separate actions: the last failed
attempt, the check of the context after it, and the announcement too. Gateway,
catalog and probes answer anything at every call; a missing gateway is one that
always fails. A model id is its parsed form plus bare/dated, the difference
that `sameModel` ignores and string comparison does not.

**Derivation, Engine.** A document is its id, `extends`, trigger, manifest, nodes
and connections; a text in it is the id of the file it was written in, which is
what lets `PromptsOwned` say that nothing was inherited. Pass 1 of `LoadAll` is a
function of the directory (`First`, `Duplicate`, `Doc`); pass 2 is one action per
file and outcome: rejected before Init (`LoadFails`), an Init that fails with
some prefix of the nodes Inited and the endpoints they added left behind
(`InitFails`), or loaded (`LoadOne`), then index access and subscription as steps
of their own, since the trigger is reachable from its Init on. A request reads
the trigger's access and its sink at different moments (`Handle`, `Emit`). That a
subject in use is refused (`Taken`) is the vendored nats-service's.

**Prompts.** A version is its sort key and its text. A read may return an older version
or fail (the queries are not consistent reads). The actions of `Engine` that meet
prompts are conjoined with what they do to them: `applyOverrides` with `LoadOne`,
`Register` with `Start`. `missed` is history: it holds after a version of which the
process was never told, or was told and read something else.

## 3. Running

    tlc -workers 2 -config MCConsult_lossy.cfg MCConsult
    tlapm ConsultProofs.tla

## 4. What the runs check

| run | instance | states | properties |
|---|---|---|---|
| `stream_lossy` | 3 events, channel of 1, loss, timer, either reader | 45,663 | `HearsPrefix`, `SerializedDelivery`, `VerdictTrue`, `EventsClose`, `TerminatorHeard`, `ConsultReturns`, `AbstractSpec` |
| `bridge_turns` | 2 turns, 2 further frames, 1 data event, channels of 1, timeout, new or resumed session | 720,040 | `ScreenInOrder`, `SessionThreaded`, `NoMessageDropped`, `AbandonedIsCancelled`, `HandlerReturns`, `CompleteShown` |
| `agent_turn` | 1 turn with memory, over a new conversation or one with a blank answer in it, 3 iterations, 1 nudge, tool cap 1, 2 charts, 2 of them in a text, 2 calls per message | 310,866 | `AnswerFaithful`, `RequestWellFormed`, `MemoryMatchesStream`, `TurnEnds` |
| `chat_request` | either mode, either provider, 2 attempts, budget 2, 4 gateway events, 2 answers | 1,091,844 | `WholeVoice`, `ReplyTrue`, `AnswerKept`, `RequestEnds` |
| `auth_tokens` | 2 sessions, 2 tokens, 2 functions, cache of 1 entry, TTLs 1 and 2, timeout 1, 4 ticks | 825,288 | `TokenHonoured`, `CredentialReleased`, `RevocationBounded` |
| `memory_appends` | Postgres: 4 Appends, 2 attempts, window 2; Dynamo: 2 instances, 2 Appends, 2 attempts, window 1, skew 1, TTL 2, 3 ticks | 139,873 | `TurnsWhole`, `LoadsWhole`, `ChatOrder`, `BootedReady`, `AppendEnds`, `ImplementsMemory` |
| `update_days` | 6 ids, 2 probes, 3 days, 1 request | 324,048 | `LkgSound`, `VettedModels`, `ShutdownNoVerdict`, `NoSecondProbe`, `CloseStops` |
| `engine_boot` | 211 directories of up to three files, 2 identity functions, 1 request, 2 saves of 2 texts | 719,800 | `Isolated`, `PromptsOwned`, `RunsAuthorized`, `PublishedServes`, `PromptFresh` |

What each of the properties says, in words:

- *stream*: what the client hears is a prefix of what the session numbered
  (`HearsPrefix`) and the whole behaviour is one of the abstract stream
  (`AbstractSpec`); without loss the terminator is heard, and a timer that fires ends
  the range (`TerminatorHeard`, `EventsClose`). The consult's channel is never closed
  under a send, the consult returns, and its verdict agrees with the terminator that
  was sent, the timeout that struck or the cancel that came (`SerializedDelivery`,
  `ConsultReturns`, `VerdictTrue`).
- *bridge*: frames are shown in the order of their turn; the session id survives
  every way a turn can end; a patient browser loses no message; a run whose turn a
  cancel, a closed socket or a failed write ended is told to stop once its start event
  has reached the bridge, shown or not (only the stream's own timeout leaves a run
  alone); the handler ends with the browser; a complete is shown.
- *agent*: the answer shows every rendered chart that it does not link to, and no recall loses text
  (`AnswerFaithful`); every request to the LLM has a result for each tool call and no
  empty content (`RequestWellFormed`); what is announced as complete is in memory; the
  turn ends.
- *chat request*: the turn hears one attempt, whole (`WholeVoice`); a single reply is
  504 exactly when a deadline made the agent give up, 200 exactly when nothing did, and
  a 200 holds an answer the LLM finished, or, past the request's deadline only, one
  whose error was lost (`ReplyTrue`); an answer that reached the wait is the
  one the loop uses (`AnswerKept`); every request gets its end (`RequestEnds`).
- *access*: a token opens one socket, of its session, in time; no credential outlives
  its socket; a cached allow outlives its grant by less than the time to live, as
  documented, if the grant still held when the allow was stored, and otherwise by what
  the answer was late on top, at most the request's timeout.
- *memory*: turns whole and at unique places; loads of whole turns, on Dynamo as whole
  as the query found them, but for one that the window may cut if it found half turns;
  turns in the order of the conversation unless an instance's clock is behind; an
  instance serves only when the table is active and TTL on, of its own attribute unless
  it met another consumer's change under way; every Append returns; both are the abstract memory.
- *update*: the fallback is neither the model in use nor known to be broken; requests
  reach only vetted models of the family; a shutdown is no verdict on a model, and at
  most one alarm, decided before it, comes after it; a candidate is
  probed once a cycle; Close stops the updater.
- *engine*: a defective file fails alone; no prompt is inherited; no request runs with
  another check than the index's; a published card serves; the prompt that runs is the
  latest announced.

A `TypeOK` carries the code's own limits where it has them (channel capacities,
attempts, iterations); all but `WebBridge`'s are proved (section 6).

Why these bounds are enough to be interesting:

- *stream_lossy*: a channel of 1 makes the callback block with one event unread;
  three numbers give a start, a data event to lose and a terminator, so a gap can
  open before, at and after every position.
  The consult reads the same three through a channel of one too, so that delivery
  blocks under the mutex when the timeout, the cancel and the callback's own
  terminator come to close.
- *bridge_turns*: with two turns the first can end in each of its ways (terminal,
  refused, denied, open failed, cancel, closed, write error, eof) with its agent
  still running while the second is pumped; a resumed session makes forgetting
  the id in any of them visible.
- *agent_turn*: three iterations allow tools, then an answer with a wrong chart,
  then the recall; two calls per message interleave refusals with successes; two
  charts tell "the one rendered chart" from "a rendered chart"; an earlier turn
  matters to the loop only through the messages it left, of which a blank answer
  is the one that is unlike the rest.
- *chat_request*: four events are a text, a tool use of two and an end, or a tool use of
  three; any of them may be lost. Two attempts tell a failure before the first event
  (retried) from one after it (not); the budget of two ticks can be spent by one
  backoff; two answers allow an early and a late one, or two different ones.
- *auth_tokens*: a cache of one entry is at its limit with the second function; with a
  time to live of two and a timeout of one, four ticks see an allow judged, read,
  remembered, used to its last moment and expired. With validation on one session
  with one socket suffices, since the validator knows no sockets; with it off both
  sessions and tokens overlap.
- *memory_appends*: an Append with 2 attempts against three rivals can be
  exhausted; with four turns a window of two cuts. On Dynamo two instances meet at
  every step of provisioning, and either can meet the other consumer's; two Appends in
  one tick collide, a skew of one reverses them, and three ticks let the first expire.
  A window of one turn over two of which a replica has three messages cuts one.
- *update_days*: the fault LkgSound guards against takes two days (a failed
  health check without replacement, then an upgrade), the clearing of a stale
  fallback two, their combination three.
- *engine_boot*: an overlay that sorts before its base, the base, and a file after
  both make every order of definition and use; the bases and overlays between them
  fail each check of `LoadOne` and each of `MergeDerived`, keep, replace, split,
  delete or wipe prompts, remove peers, share a subject or a name. Two saves suffice
  for one to come during the other's read, apply or announcement; prompts are edited
  in the directories where the edited workflow is sound.
- `CHECK_DEADLOCK FALSE` everywhere: a request, a turn, a token's life or a
  conversation ends, and the bounds end the rest.

### Runs that show a disagreement

- `stream_panic` (`NoSendOnClosed`): a timeout or Close can close `done` and
  `events` while the callback is at its select; the send case then panics. The
  repository's other stream (`rsassistant/stream.go`) serializes delivery and
  close for exactly this reason.
- `bridge_error` (`ErrorShown`): `parseStreamMessage` in `webbridge/natsstream.go`
  reads every non-200 message as an error with sequence 0. The agent's error
  terminator has status 500 and a later number, is dropped as out of order, and
  the browser learns nothing until the timeout. The client of
  `pkg/transport/natsstream` parses the headers first and does not have this.
- `retry_midstream` (`OneVoice`): with a per-attempt timeout, an attempt that
  expires in mid-stream returns `rctx.Err()` without looking at `emitted`, is
  classified as timeout and retried; the turn hears two attempts.
- `memory_recent` (`LoadsMostRecent`): Load's comment promises the most recent
  messages; the query returns the oldest.

### Observations made while modelling, not stated as runs

Where a property has an exception for one of these, its comment says so, with the line of
the repository that says otherwise.

- Nothing stops the timer of `natsstream`'s client (`client.go:112`): after a stream that
  ended well it overwrites `err`, so a late Close reports a timeout. Nobody in the
  repository reads Close's result then.
- The reader goroutine of a bridge socket can stay blocked for ever on a full
  `clientFrames` after the handler returned: its only other case, `<-closed`, is
  closed by itself.
- The bridge has a streaming client of its own (`webbridge/natsstream.go`) with the
  hazard that `stream_panic` shows for the other: the callback's select (124-128) sends on
  `events` while `closeInternal` (229-230), run by the timeout or by the deferred
  `sub.Close()` of every turn (`bridge.go:368`), closes `done` and then `events`.
  `WebBridge` takes the callback as one step and does not show it.
- When the bridge's stream times out, the turn ends at the closed channel
  (`bridge.go:440-445`) without a Cancel, and the run goes on; so does one that was
  cancelled before its start event, which carries the cancel subject.
- A denied credential reaches the bridge with status 400 (`natschat` answers every
  validation error with it), so the session-expired frame, which needs 401 or 403
  (`bridge.go:477-485`), is not sent for it, although `natsstream.go:243`
  and `trigger.go:370` speak of 403. `AgentRefuses` keeps both outcomes, which is wider.
- A plain link to a chart that was not rendered counts as a missing chart
  (`loop.go:712`) and can cost a recall, but only images are corrected (`loop.go:767`):
  the link stays.
- Closing one socket releases the credential of the whole host session, so a
  second open socket of it publishes its next turn without one until the session
  makes another request (`SocketCloses`).
- In a forced chart recall the `tool_call` event of a client-side tool is
  suppressed, but the loop still awaits the client's answer.
- A blank answer that survives the nudges is stored, and the next turn's request
  then holds an empty assistant message: `RequestWellFormed` has to except it.
- When the context ends in mid-stream the goroutine may drop the LLM's error, and
  the partial text is then completed as an answer: a single-reply request past its
  deadline can be answered 200 with a truncated text, although
  docs/CHAT-ENDPOINTS.md:79 says "`finalText` is the complete answer". `ReplyTrue`
  admits this of requests past their deadline only.
- A memory or a tool that fails because the deadline has passed makes the reply a 500
  with its own code, not a 504.
- A deadline of one attempt or of the provider itself, also in mid-stream (the
  ToolError unwraps), is answered 504 "request timeout" although the request had time.
- A client that answers a tool call before `WaitForToolResult` has subscribed publishes
  into nothing: the `tool_call` event goes out while the LLM still streams, the
  subscription comes after it. `AnswerKept` begins at the subscription.
- A consult cancelled before the start event does not stop the workflow (Cancel needs
  the subject), and after a lost message it hears nothing until its timeout.
- A cached allow lives from when the answer was read, not from when Identity judged:
  a grant can be used for the time to live plus the request's timeout after it ended,
  where `validator.go:160`, docs/RSASSISTANT.md:75 and CHANGELOG.md:22 speak of the time
  to live alone.
- Dynamo's Load does not ask for a consistent read: right after an Append it may miss the
  turn or one of its two messages, and with half a turn found the window begins with an
  answer whose question is cut off.
- Dynamo provisioning: an instance that finds TTL being enabled does not look for which
  attribute, and the wait for ENABLED does not either: it comes up and logs "TTL ENABLED
  on" `expires_at` with TTL on another one, the case that `provision.go:102` refuses
  ("refusing to silently change another consumer's config"); one that updates TTL just
  after another finished gets "already enabled" as an error and fails to start; a
  transaction conflict, unlike a failed condition, is not retried; TTL deletes the two
  items of a turn at different times, so a load may hold half an expired turn; turns of
  instances with skewed clocks may be out of order.
- Prompts: a save between a booting process's read and its subscription stays unknown
  to it until the next save or restart; a put that succeeded while its answer was lost
  is reported as failed and never announced; a hot-applied text is not validated again
  after its placeholders are resolved; the latest version is the one with the highest clock, so
  a save by an instance whose clock is behind is announced and yet not applied.
- With `retryOn: ["all"]` a mid-stream failure, classified as validation, is
  retried.
- A nudge or recall after an `end_turn` that came with tool calls leaves a
  tool_use without its result; `RequestWellFormed` excepts such replies, which
  nothing in the loop rules out.
- A request that read the model just before a swap, and finds it gone, gets no
  retry: the fallback it then reads is that same model.
- The updater checks its context before it announces (`autoupdate.go:479`, 485): an
  alarm can follow Close.
- A dated fallback is not cleared when its bare form becomes current again by
  recovery (`recoverModel` compares strings): the fallback is then the same
  release as the model.
- An overlay inherits an explicit `subject`; one that sorts before its base takes
  the base's endpoint, whether it then loads or not, and the base does not start
  although CHANGELOG.md:241 says that parent workflows still do. `Isolated`
  therefore excepts a subject another file's trigger has taken.
- `enforcePromptOwnership` reads the overlay's entries without `config: null`, which
  `mergeNodes` applies: an overlay that sets both prompts of an agent, deletes its
  config in a second entry and sets the fixed prompt again in a third passes, and runs
  without a flexible prompt. No prompt is inherited that way; `PromptsOwned` allows an
  absent flexible prompt to just these overlays (`Wipes`). The proof found it.
- A workflow that fails after its trigger's Init keeps an endpoint that answers
  500, and its Inited nodes are never closed.
- Between `Engine.Shutdown` and `NatService.Shutdown` requests run on closed nodes.
- `dupes` is keyed by source id: two files of one base name in two subdirectories
  both fail, although "first definition wins" (docs/CHAT-ENDPOINTS.md:164).

## 5. Fairness

- `NatsStream`: goroutines that can run do (callback, closing threads), and the
  caller keeps receiving, which is what a range loop does. Nothing is assumed of
  the agent, of NATS, of when the timer expires, or that anybody calls Close:
  `EventsClose` is conditional on the timer having expired.
- `Consult`: as in `NatsStream`; `consult` goes round its loop, and nothing is assumed
  of its context.
- `WebBridge`: one weak fairness condition for each of the three goroutines;
  which ready case a select takes is left open.
- `AgentLoop`: `Process` is scheduled and its calls return: LLM calls and waits
  for the client have timeouts, and tools are called with a timeout context.
- `ChatRequest`: the goroutine of the request takes a step when it can. Its waits all
  end: LLM calls, the gateway's silence and the wait for the client have timeouts.
  Nothing is assumed of client, gateway, NATS or deadline.
- `Memories`: a statement that waits for nobody returns, and so does a call to
  DynamoDB; nothing is forced to fail, no clock has to tick and no item to expire.
- `AutoUpdate`: the updater's goroutine runs; probes, listing and gateway calls
  all have timeouts and its sleeps watch the context.

`Access` and `Prompts` have safety properties only: whether a request is
judged, or a change announced, depends on others.

## 6. What is proved

The theorems hold for every value of the constants under the named assumptions on them.
Most only say that bounds are naturals, positive where the code needs one, and that
switches are Booleans (`BoundsAssumption`, `SwitchAssumption`, `MemoryBounds`,
`IdtBounds`, `TokenBounds`, `StoreBounds`, `BridgeBounds`). The others: `DynamoBounds`
also says that the Appends made on Dynamo are some of those made; `UpdateBounds` that
`NoModel` is no model and that versions are integers; `PolicyBounds` that the retry
policy is one that `ParsePolicy` accepts and that retries at all; `LoopBounds` the
code's own clamps of the loop's limits, and that fatal tools are connected ones;
`DirectoryBounds` that a directory is a finite list of files; `DirectoryTexts` that a
prompt in a file is its own text, or one of the words that stand for an absent, deleted,
unset or invalid one, and that an entry which deletes its config has none. It is what
makes "written in its own file" mean something, and TLC evaluates it on every directory
of `engine_boot`.

Each proof module is about the specification its run checks; where the older theorems
are about a part (`NatsStream`, `IdtValidator`, `PgMemory`), a theorem carries them over
to the composition.

**ConsultProofs**, about `NatsStream`: `TypeCorrect`, `PrefixDelivered`, `GrammarKept`,
`WholeWhenTerminated`, and `Refinement` (it implements `FifoStream`). `HearsPrefix` is
not inductive: it needs to know that the callback's next number equals what was pushed
plus what it holds (`AcceptOK`), that what is on the wire is what the session numbered
(`WireOK`), that numbers are positions and a terminator is last (`SaidOK`), and that the
callback only closes behind a terminator (`CloseOK`). The refinement maps `said` to
itself and `heard` to the pushed log; each publish is a `Say`, each send a `Hear`,
everything else a stutter. About `Consult`: `DeliverySerialized`, `TrueVerdict`,
`PrefixHeard`, `SessionRefinement`. The facts about session and wire are shared
(`Agent`); what is added for the consult is what its channel carries, in which order and
with what behind it (`HeldOK`, `CarriedOK`, `RefusalOK`), that before a timeout or a
cancel nothing is dropped and the channel closes only behind a terminator (`QuietOK`),
and how the relay's outcome follows from what it read (`PhaseOK`, `VerdictOK`).

**WebBridgeProofs**, for any number of turns, frames and events: `SessionsThreaded`,
`AbandonedStopped`, `ScreensInOrder`, `MessagesKept`. The first two follow from
`FlowInv`, which says of every turn where its run, its inbox, its events and its session
are at each point of the handler. `ScreenInOrder` is strengthened to say of each frame
what it may follow, and `FlowInv` gives that of the next frame. `NoMessageDropped` is
about frames in three places (the socket, the reader's hands, `clientFrames`); taken as
one line, every user message in it is preceded by what ends the turn before it, and its
messages can be numbered from the turn at work to the last one sent (`LineInv`). That
numbering is what makes it inductive: the handler counts turns, the browser counts
messages, and the two meet only through the length of the line.

**AgentLoopProofs**: `MemoryTrue` (`MemoryMatchesStream`), over any number of turns, and
`RequestsWellFormed`, for any tools, replies and limits. A request is well formed when
it is sent because, while a tool round is on, results and calls left add up to the calls
of the last message (`RequestInv`). `LoopTyped` adds the limits of `Process`.
`AnswersFaithful` (`AnswerFaithful`) needs to know of the answer in the making what the
property says of completed ones (`AnswerInv`), and for that what the two rewriting passes
make of any text: `correctChartRefs` keeps prose and positions, `appendMissingCharts`
keeps its argument as a beginning and leaves no rendered chart out. `TurnsBounded` gives
the measure that `TurnEnds` rests on: `StepsLeft` counts the iterations left, the calls
of the message and the steps around them, is at most
`MaxIterations * (MaxCalls + 2) + 3`, and every step of `Process` uses some of it up,
whichever of the three ways round the loop takes.

**ChatRequestProofs**: `AnswersKept`, `RepliesTrue` and `PoliciesKept` for every policy and
`VoiceIsWhole` for every policy that is `Careful`, that is, does not retry "validation"
(which is what a mid-stream failure is classified as) and retries "timeout" only without
a per-attempt timeout and with a delay. The code's default policy and the instance of
`chat_request` are; without it the turn can hear two attempts, as `retry_midstream`
shows. The invariant relates the channel's head to the first answer (`AnswerInv`), the first
terminator to its cause (`ReplyInv`), the timer to the budget (`CallInv`: a wait never
ends after it, and an attempt is left for then), and the accumulator, the expected number and the
inbox to the positions of the script that were heard (`VoiceInv`).

**AccessProofs**, about `IdtValidator`: `TypeCorrect` and `RevocationSeen`. The bound is
about a moment of use; it needs that every call in flight was judged on a grant in force
no longer ago than its request has lasted, that no request lasts beyond its timeout, and
that every cache entry is late by at most the timeout and expires at most the time to
live and what it is late by after its grant was last in force (`CacheFresh`). All three
are kept because time and revocations move a grant's last moment and the clock together.
About `Access`: `AccessIsValidated` (the composition is a behaviour of the validator),
with it `TurnsRevoked`, and `TokensTyped`, `TokensHonoured` and `CredentialsReleased`,
which need that a stored token is as it was issued (`StoreTrue`).

**MemoriesProofs**, about `PgMemory`, for any set of concurrent Appends: `TypeCorrect`,
`WholeTurns`, `TrueOutcome`, `RetriesSpentOnRivals`. `TurnsWhole` needs what open
transactions hold (`PendingPhase`), that keys are unique among committed and pending
rows together (`KeysUnique`), who owns rows (`RowsOwned`), that indices form an initial
segment (`Contiguous`) below every reader's index (`Below`). The last is the heart: an
Append that read index n saw n turns committed, so a committed row at n means a rival
went first, which makes the retry bound meaningful. About `Memories`: `TurnsAreWhole`,
`BootsReady`, `ChatInOrder`, `LoadsAreWhole` and `MemoryImplemented` (both implement
`ConversationMemory`). For Dynamo, an item belongs to the Append that wrote it at the
time its clock showed, and an Append that began after another returned read no earlier a
time unless its writer is behind (`DInv`). `Load` is defined by counting; that its
window cuts no turn in two is proved by bijections between the rows before one and an
interval, and between users' and assistants' items after one. `NoLockCycle` is the other
half of why Appends return: both rows of a turn are inserted in the same order at one
index, so who waits for a lock waits for an Append that holds the user's row, and its
second insert meets nobody's. `AppendsBounded` and `DynamoAppendsBounded` bound the
statements and calls of one Append by its attempts.

**AutoUpdateProofs**: `TypeCorrect`, `FallbackSound` (`LkgSound`), `OnlyVetted`
(`VettedModels`), `ShutdownIsNoVerdict` (`ShutdownNoVerdict`), `ProbedOnce`
(`NoSecondProbe`).
`LkgSound` needs that the updater remembers a conclusive failure of the model in use
(`BadIsKnown`) and that health checks are of the model in use (`HealthTarget`);
`VettedModels` that every holder's model is vetted and the one under probe is of the
family (`Holders`, `OneFamily`); `NoSecondProbe` where in a cycle something can have
been declined, and that it is never the release in use (`DeclinedInv`);
`ShutdownNoVerdict` where in a cycle an alarm is still to come when Close was called
(`ShutdownInv`). `CyclesBounded`
counts the steps left of a cycle, stage by stage (gateway, catalog, health, recovery),
and separately those left once the context is done.

**EngineProofs**, about `Prompts`, which contains `Engine`, for any directory:
`RequestsAuthorized`, `AgentsServe`, `FailuresIsolated`, `PromptsFresh`,
`PromptsAreOwned`. A request is only in the process once NATS delivers, which is after
every trigger's access was set (`ServeInv`); every file behind the one that LoadAll is at
is settled, and nothing settled is taken back (`LoadInv`); a process that has missed
nothing and has nothing to handle runs the latest version, and an update in hand is the
latest unless another announcement follows it (`FreshInv`).

`PromptsOwned` is about steps only at its surface: a registered file was accepted, and
what its agents run with is their node's text or one from the store (`OwnInv`). The rest
is about `derive.go`, for bases and overlays of any length and order. Every node of
`mergeNodes`' result is a base node with the overlay's entries for its id applied in
order, or an entry of the overlay (`MergeNodesParts`). Its config is followed through
the entries side by side with what the overlay alone says of it (`Follows`): where the
overlay says something the config says the same, unless an entry wiped it, after which
nothing of the base is left either (`PatchedFollows`, `NewFollows`, `DerivedFollows`).
Ownership, and the checks of `LoadOne` for unset, invalid and missing texts, then leave
only the file's own (`FollowedPrompts`, `AcceptedOwned`). The one gap is in the
observations of section 4.

**Induction over data.** The installed provers cannot use the library's induction
schemas, whose parameter is an operator. `AgentLoopProofs` and `EngineProofs` therefore
derive what they need from its first-order facts: `<` on the naturals is well founded
and every non-empty set has a minimal element (`Least`), so that a set of naturals which
holds 0 and is closed under successor holds all (`SetInduction`), and a function given by
a first value and a step exists (`Recursion`), which is what lets a recursive function
of the model be unfolded. A predicate enters as the set of naturals that satisfy it. For this the
rewriting of answers and the merge of nodes are recursive functions over positions, one
per loop of the code.

**Only model-checked**: liveness (`EventsClose`, `TerminatorHeard`, `ConsultReturns`,
`HandlerReturns`, `CompleteShown`, `TurnEnds`, `RequestEnds`, `AppendEnds`, `CloseStops`),
since fairness and ENABLED are out of the proof system's reach (the measures that three
of them rest on, `TurnEnds`, `AppendEnds` and `CloseStops`, are proved); `WebBridge`'s type
invariant; and the four properties that fail.

## 7. Not modelled, and why

- *Tools* (queries, fetch, search, charts): one request and one answer each, with
  checks and rendering of text around a driver call; what their failures do to a turn is
  in `AgentLoop`. The memo of OpenSearch mappings is refetched per day and only
  saves calls.
- *Prompt rewrite*: one producer on a `NatsStream` session, storing nothing.
- *Payload building and chunk decoding* of the two providers, the splitting of large
  requests (`chunked_request.go`), attachments, run metrics: data conversion and I/O.
- *Bridge storage, charts, janitor, widgets*: files and presentation.
- *Files of one base name* in different subdirectories (section 4's last observation):
  source ids are distinct in `Engine`.

## 8. Plan

Done, in the order of importance for the system: the stream and its abstract
specification, with both its readers; the bridge; the agent loop; the request around it
with retries, the inference gateway, client-side tools and both ways to answer; the
two memories and what they promise; tokens and their validation; the model updater; the
engine with its loader and its prompts.

Every safety property of a passing run is proved, and so are both refinements. What is
left, in the order of worth:

1. Measures like `StepsLeft` for the request (`RequestEnds`) and the bridge's handler
   (`HandlerReturns`).
2. `WebBridge`'s type invariant, of which the bound on dropped messages needs a count of
   the user messages on their way.
3. The prompt-rewrite session and the splitting of large gateway requests.
