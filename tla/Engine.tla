-------------------------------- MODULE Engine --------------------------------
(***************************************************************************)
(* The life of one service process (agent/service.go): LoadAll over a      *)
(* directory of workflow files (engine/engine.go), the start of the NATS   *)
(* service, the publication of workflows as assistant agents               *)
(* (pkg/rsassistant), requests to the chat triggers, and shutdown.         *)
(***************************************************************************)
EXTENDS Derivation, FiniteSetsExt

CONSTANTS
  Directories,  \* the directories considered: sequences of documents, in the
                \* sorted order of their file names
  SortedIds,    \* the workflow ids, sorted
  Functions,    \* identity functions that may guard an index
  Texts         \* prompts that may be saved in the prompt store

\* A directory is a list of files.
ASSUME DirectoryBounds == \A d \in Directories : Len(d) \in Nat /\ DOMAIN d = 1..Len(d)

\* A document holds a list of nodes; a prompt that says anything stands for the
\* file it is written in, and a config that is null holds nothing.
Words == {"absent", "null", "unset", "invalid", ""}
IsNode(n) ==
  /\ n = [id |-> n.id, type |-> n.type, remove |-> n.remove, wipe |-> n.wipe,
          retry |-> n.retry, cfg |-> [f \in Fields |-> n.cfg[f]]]
  /\ n.remove \in BOOLEAN /\ n.wipe \in BOOLEAN
Written(file) ==
  /\ file.nodes = [i \in 1..Len(file.nodes) |-> file.nodes[i]] /\ Len(file.nodes) \in Nat
  /\ file.id \notin Words \ {""}
  /\ \A i \in 1..Len(file.nodes) : LET n == file.nodes[i] IN
       /\ IsNode(n) /\ (n.wipe => n.cfg = NoCfg)
       /\ \A p \in {"fixed", "flex", "legacy"} : n.cfg[p] \in Words \cup {file.id}
ASSUME DirectoryTexts ==
  \A d \in Directories : \A f \in DOMAIN d : d[f].form = "ok" => Written(d[f])

VARIABLES
  files,        \* the directory
  boot,         \* "hosts" | "load" | "access" | "subscribe" | "publish" | "up" | "draining" | "closed" | "exit"
  at,           \* the file LoadAll is at
  broken,       \* history: files one of whose Inits failed by itself
  endpoints,    \* [subject, file]: what triggers have added to the NATS service
  access,       \* per file: its trigger's IndexAccess, "none" until set
  flex,         \* per file: its agent's flexible prompt
  registered,   \* files whose trigger has its sink and whose workflow is in the map
  started,      \* the NATS service delivers requests
  next,         \* the position in SortedIds that rsassistant.Start is at
  agents,       \* published agents [name, file, fn]
  closed,       \* files whose nodes are closed
  req           \* one request: its progress, its trigger's file, what its token was checked against

vars == <<files, boot, at, broken, endpoints, access, flex, registered, started, next, agents, closed, req>>
loadVars == <<broken, endpoints, access, flex, registered>>
serveVars == <<started, next, agents, closed, req>>

NoReq == [st |-> "idle", file |-> 0, target |-> ""]

Init ==
  /\ files \in Directories
  /\ boot = "hosts" /\ at = 1 /\ broken = {} /\ endpoints = {}
  /\ access = [f \in DOMAIN files |-> "none"] /\ flex = [f \in DOMAIN files |-> ""]
  /\ registered = {} /\ started = FALSE /\ next = 1 /\ agents = {} /\ closed = {}
  /\ req = NoReq

\* NATS, the file store, the registry and the engine are set up, or Run returns.
Hosts ==
  /\ boot = "hosts"
  /\ boot' \in {"load", "exit"}
  /\ UNCHANGED <<files, at, loadVars, serveVars>>

-----------------------------------------------------------------------------
(* LoadAll.  Pass 1 is a function of the directory: the first file of an id *)
(* defines it.                                                              *)

Readable == {f \in DOMAIN files : files[f].form # "unreadable"}
Definitions(id) == {f \in Readable : files[f].form = "ok" /\ files[f].id = id}
First(id) == Min(Definitions(id))
Derived(f) == files[f].extends # "absent"

Duplicate(f) == files[f].id # "" /\ First(files[f].id) # f

Derives(f) ==
  /\ Definitions(files[f].extends) # {}
  /\ ~Derived(First(files[f].extends))
  /\ MergeOK(files[First(files[f].extends)], files[f])

Doc(f) == IF Derived(f) THEN MergeDerived(files[First(files[f].extends)], files[f]) ELSE files[f]

\* The file gets as far as the Inits of its nodes.
Accepted(f) ==
  /\ files[f].form = "ok" /\ ~Duplicate(f)
  /\ Derived(f) => Derives(f)
  /\ Loadable(Doc(f))

NodesOf(f, type) == {n \in ToSet(Doc(f).nodes) : n.type = type}
Subject(f, n) == IF Text(n.cfg["subject"]) # "" THEN n.cfg["subject"] ELSE Doc(f).id
Endpoints(f, ids) ==
  {[subject |-> Subject(f, n), file |-> f] : n \in {m \in NodesOf(f, "chat") : m.id \in ids}}
Taken(f, ids) ==
  \E e \in Endpoints(f, ids), g \in endpoints : g.subject = e.subject

\* Nodes are Inited in topological order.
InitPrefixes(d) == {S \in SUBSET Ids(d.nodes) : \A id \in S : Preds(d, id) \subseteq S}

NextFile == at' = at + 1 /\ boot' = "load"

\* A bug: the first file that cannot be loaded ends the loop.
LoadFailsAll ==
  /\ boot = "load" /\ at \in DOMAIN files /\ ~Accepted(at)
  /\ boot' = boot /\ at' = Len(files) + 1
  /\ UNCHANGED <<files, loadVars, serveVars>>

LoadFails ==
  /\ boot = "load" /\ at \in DOMAIN files /\ ~Accepted(at)
  /\ NextFile /\ UNCHANGED <<files, loadVars, serveVars>>

\* An Init fails, by itself or because the trigger's subject is in use.  What
\* was Inited before stays: nodes are not closed, endpoints not taken back.
InitFails ==
  /\ boot = "load" /\ at \in DOMAIN files /\ Accepted(at)
  /\ \E S \in InitPrefixes(Doc(at)) :
       /\ S # Ids(Doc(at).nodes) /\ ~Taken(at, S)
       /\ endpoints' = endpoints \cup Endpoints(at, S)
  /\ broken' = IF Taken(at, Ids(Doc(at).nodes)) THEN broken ELSE broken \cup {at}
  /\ NextFile /\ UNCHANGED <<files, access, flex, registered, serveVars>>

\* The flexible prompt the agent is built with: the document's, or the store's
\* where it has one that resolves and validates.
Overridden(f) ==
  IF NodesOf(f, "agent") = {} THEN {""}
  ELSE {FlexPrompt(n) : n \in NodesOf(f, "agent")} \cup Texts

\* All Inits succeed; that the trigger is one is only looked at now.
LoadOne ==
  LET d == Doc(at) IN
  /\ boot = "load" /\ at \in DOMAIN files /\ Accepted(at)
  /\ ~Taken(at, Ids(d.nodes))
  /\ endpoints' = endpoints \cup Endpoints(at, Ids(d.nodes))
  /\ IF TypeOf(d, d.trigger) = "chat"
     THEN /\ boot' = "access" /\ at' = at
          /\ \E v \in Overridden(at) : flex' = [flex EXCEPT ![at] = v]
     ELSE NextFile /\ flex' = flex
  /\ UNCHANGED <<files, broken, access, registered, serveVars>>

\* Index-scoped tools whose policy peer knows the function of an index.  ""
\* stands for no row, a blank one, an error or a timeout.
Guarded(f) ==
  {n.id : n \in {m \in NodesOf(f, "search") :
                   \A p \in Peers(Doc(f), m.id, "policy") : TypeOf(Doc(f), p) = "policy"}}

resolveIndexAccess(f, lookup) ==
  LET found == {lookup[n] : n \in Guarded(f)} IN
  IF found = {} THEN "none"
  ELSE IF Cardinality(found) > 1 \/ "" \in found THEN "unbound"
  ELSE CHOOSE fn \in found : TRUE

SetIndexAccess ==
  /\ boot = "access"
  /\ \E lookup \in [Guarded(at) -> Functions \cup {""}] :
       access' = [access EXCEPT ![at] = resolveIndexAccess(at, lookup)]
  /\ boot' = "subscribe"
  /\ UNCHANGED <<files, at, broken, endpoints, flex, registered, serveVars>>

Subscribe ==
  /\ boot = "subscribe"
  /\ registered' = registered \cup {at}
  /\ NextFile
  /\ UNCHANGED <<files, broken, endpoints, access, flex, serveVars>>

-----------------------------------------------------------------------------
(* Run: start, publication, shutdown.                                       *)

NothingLoaded ==
  /\ boot = "load" /\ at > Len(files) /\ registered = {}
  /\ boot' = "exit"
  /\ UNCHANGED <<files, at, loadVars, serveVars>>

\* A bug: the NATS service starts before the workflows are loaded.
StartEarly ==
  \/ /\ boot = "load" /\ at = 1 /\ ~started
     /\ started' = TRUE
     /\ UNCHANGED <<files, at, boot, loadVars, next, agents, closed, req>>
  \/ /\ boot = "load" /\ at > Len(files) /\ registered # {}
     /\ boot' = "publish" /\ started' = TRUE /\ UNCHANGED next
     /\ UNCHANGED <<files, at, loadVars, agents, closed, req>>

\* The assistant runtime may be disabled or misconfigured ("up"), or publish.
ConfigFromEnv == {"publish", "up"}

\* The list and prompt endpoints are registered first; failing that leaves the
\* service without them.
Start ==
  /\ boot = "load" /\ at > Len(files) /\ registered # {}
  /\ \/ boot' \in ConfigFromEnv /\ started' = TRUE
     \/ boot' = "exit" /\ UNCHANGED started
  /\ UNCHANGED <<files, at, loadVars, next, agents, closed, req>>

Mode(f) == (CHOOSE n \in NodesOf(f, "chat") : n.id = Doc(f).trigger).cfg["mode"]
Eligibility(f) == Mode(f) # "single" /\ NodesOf(f, "ui") = {}

AgentName(f) == IF Doc(f).manifest = "absent" THEN Doc(f).id ELSE Doc(f).manifest
BuildCardSpec(f) == Doc(f).manifest \notin {"off", "invalid"}

\* A bug: an index without a function is published under the service's own.
agentAccessOpen(a) == IF a \in {"none", "unbound"} THEN "app" ELSE a

\* The function an agent's card declares, "skip" where it must not have one.
agentAccess(a) == CASE a = "none" -> "app" [] a = "unbound" -> "skip" [] OTHER -> a

\* The id's workflow is skipped, is published, or fails to start as an agent.
Publish ==
  /\ boot = "publish" /\ next \in DOMAIN SortedIds
  /\ next' = next + 1
  /\ \/ UNCHANGED agents
     \/ \E f \in registered :
          /\ Doc(f).id = SortedIds[next] /\ Eligibility(f) /\ BuildCardSpec(f)
          /\ \A a \in agents : a.name # AgentName(f)
          /\ agentAccess(access[f]) # "skip"
          /\ agents' = agents \cup
               {[name |-> AgentName(f), file |-> f, fn |-> agentAccess(access[f])]}
  /\ UNCHANGED <<files, boot, at, loadVars, started, closed, req>>

Published ==
  /\ boot = "publish" /\ next > Len(SortedIds)
  /\ boot' = "up"
  /\ UNCHANGED <<files, at, loadVars, serveVars>>

\* Signal and Runtime.Shutdown, Engine.Shutdown, NatService.Shutdown.
Signal ==
  /\ boot = "up"
  /\ boot' = "draining" /\ agents' = {}
  /\ UNCHANGED <<files, at, loadVars, started, next, closed, req>>

Shutdown ==
  /\ boot = "draining"
  /\ boot' = "closed" /\ closed' = registered
  /\ UNCHANGED <<files, at, loadVars, started, next, agents, req>>

NatsShutdown ==
  /\ boot = "closed"
  /\ boot' = "exit" /\ started' = FALSE /\ req' = NoReq
  /\ UNCHANGED <<files, at, loadVars, next, agents, closed>>

-----------------------------------------------------------------------------
(* A request, with token validation on and enforced.                        *)

\* What a trigger with this access has tokens checked against.
currentIDTTarget(a) == CASE a = "none" -> "app" [] a = "unbound" -> "denied" [] OTHER -> a

\* Authorization reads the trigger's access; tokens may be refused.
Handle ==
  /\ started /\ req = NoReq
  /\ \E e \in endpoints :
       /\ currentIDTTarget(access[e.file]) # "denied"
       /\ req' = [st |-> "authorized", file |-> e.file, target |-> currentIDTTarget(access[e.file])]
  /\ UNCHANGED <<files, boot, at, loadVars, started, next, agents, closed>>

resolveAgent(f) == NodesOf(f, "agent") # {}

\* The sink is read next; without it, or without an agent, the answer is an error.
Emit ==
  /\ req.st = "authorized"
  /\ req' = IF req.file \in registered /\ resolveAgent(req.file)
            THEN [req EXCEPT !.st = "running"] ELSE NoReq
  /\ UNCHANGED <<files, boot, at, loadVars, started, next, agents, closed>>

Returns ==
  /\ req.st = "running"
  /\ req' = NoReq
  /\ UNCHANGED <<files, boot, at, loadVars, started, next, agents, closed>>

\* The steps that have nothing to do with the prompt store.
Others ==
  \/ LoadFails \/ InitFails \/ SetIndexAccess \/ Subscribe \/ NothingLoaded
  \/ Publish \/ Published \/ Signal \/ Shutdown \/ NatsShutdown
  \/ Handle \/ Emit \/ Returns

Next == Hosts \/ LoadOne \/ Start \/ Others

Spec == Init /\ [][Next]_vars

-----------------------------------------------------------------------------
(* Properties                                                               *)

Sound(f) ==
  /\ files[f].form = "ok" /\ ~Derived(f) /\ Loadable(files[f])
  /\ TypeOf(files[f], files[f].trigger) = "chat"

\* LoadAll isolates failures: a sound file that is not an overlay, and is the
\* first with its id, is registered whatever the other files are, unless one of
\* its own nodes cannot be Inited or another file's trigger wants its subject.
Isolated ==
  at > Len(files) => \A f \in DOMAIN files :
    Sound(f) /\ First(files[f].id) = f =>
      \/ f \in registered \cup broken
      \/ \E e \in endpoints : e.file # f /\ \E x \in Endpoints(f, Ids(files[f].nodes)) : x.subject = e.subject

\* The file's own entries delete the config of one of its agents.
Wipes(f) ==
  \E n \in NodesOf(f, "agent"), o \in ToSet(files[f].nodes) : o.id = n.id /\ o.wipe

\* Prompts are never inherited: the prompts of every workflow that runs, an
\* overlay's too, were written in its own file or came from the prompt store,
\* and an overlay's agent is without a flexible prompt only if the overlay
\* itself deletes the agent's config after it has set both.
PromptsOwned ==
  \A f \in registered : \A n \in NodesOf(f, "agent") :
    /\ FixedPrompt(n) = files[f].id
    /\ flex[f] \in {files[f].id} \cup Texts \cup (IF Derived(f) /\ ~Wipes(f) THEN {} ELSE {""})

\* A request that reaches an agent was checked against the function that guards
\* the workflow's index as resolved at load, although the trigger is reachable
\* from its Init on and learns the function and its sink later.
RunsAuthorized ==
  req.st = "running" =>
    /\ req.file \in registered
    /\ req.target = access[req.file] \/ (req.target = "app" /\ access[req.file] = "none")

\* A published agent stands for a registered workflow that can stream and needs
\* no browser, under a name of its own, and its card declares the very function
\* that the workflow's trigger will check tokens against.
PublishedServes ==
  \A a \in agents :
    /\ a.file \in registered
    /\ a.fn = currentIDTTarget(access[a.file])
    /\ Mode(a.file) # "single" /\ NodesOf(a.file, "ui") = {}
    /\ \A b \in agents : a.name = b.name => a = b
=============================================================================
