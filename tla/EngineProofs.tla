----------------------------- MODULE EngineProofs -----------------------------
(***************************************************************************)
(* Proofs about the service process and the prompt store around it: what   *)
(* LoadAll registers, what a request and a published agent were checked    *)
(* against, which version of a prompt runs, and whose prompt it is.        *)
(***************************************************************************)
EXTENDS Prompts, FiniteSetTheorems, WellFoundedInduction, TLAPS

-----------------------------------------------------------------------------
(* The directory never changes, and with it all that is computed from it.   *)

\* Documents and what LoadAll makes of them are functions of the directory.
LEMMA SameDoc ==
  files' = files => \A f : Doc(f)' = Doc(f)
BY DEF Doc, Derived, First, Definitions, Readable

\* So is which files are accepted.
LEMMA SameAccepted ==
  files' = files => \A f : Accepted(f)' <=> Accepted(f)
BY SameDoc DEF Accepted, Duplicate, Derives, Derived, First, Definitions, Readable

\* So are the nodes of a type.
LEMMA SameNodes ==
  files' = files => \A f, t : NodesOf(f, t)' = NodesOf(f, t)
BY DEF NodesOf, Doc, Derived, First, Definitions, Readable

\* So are the endpoints of a trigger.
LEMMA SameEndpoints ==
  files' = files => \A f, ids : Endpoints(f, ids)' = Endpoints(f, ids)
BY DEF Endpoints, Subject, NodesOf, Doc, Derived, First, Definitions, Readable

\* So is its mode.
LEMMA SameMode ==
  files' = files => \A f : Mode(f)' = Mode(f)
BY DEF Mode, NodesOf, Doc, Derived, First, Definitions, Readable

-----------------------------------------------------------------------------
(* What the store's administration does to the process is to change a       *)
(* prompt; all else that changes, a step of the process changes.            *)

Reprompt == UNCHANGED <<files, boot, at, broken, endpoints, access, registered, serveVars>>

\* A step of the composition is a step of the process or changes a prompt only.
LEMMA ProcessSteps ==
  [PromptsNext]_allVars => Next \/ Reprompt
<1> SUFFICES ASSUME [PromptsNext]_allVars PROVE Next \/ Reprompt
  OBVIOUS
<1>1. CASE PromptHosts
  BY <1>1 DEF PromptHosts, Next
<1>2. CASE applyOverrides
  BY <1>2 DEF applyOverrides, Next
<1>3. CASE Register
  BY <1>3 DEF Register, Next
<1>4. CASE Others /\ UNCHANGED promptVars
  BY <1>4 DEF Next
<1>5. CASE \E s \in Savers : handleSave(s) \/ Put(s) \/ Broadcast(s)
  BY <1>5 DEF handleSave, Put, Broadcast, Reprompt, vars, serveVars
<1>6. CASE Notified
  BY <1>6 DEF Notified, Reprompt, vars, serveVars
<1>7. CASE ApplyPromptUpdate
  BY <1>7 DEF ApplyPromptUpdate, Reprompt, serveVars
<1>8. CASE UNCHANGED allVars
  BY <1>8 DEF allVars, Reprompt, vars, serveVars
<1> QED BY <1>1, <1>2, <1>3, <1>4, <1>5, <1>6, <1>7, <1>8 DEF PromptsNext

-----------------------------------------------------------------------------
(* Requests and published agents.  The access of a trigger is set before    *)
(* NATS delivers anything, and a request is in the process only while NATS  *)
(* does.                                                                    *)

Serving == {"publish", "up", "draining", "closed"}

ServeInv ==
  /\ started => boot \in Serving
  /\ req.st \in {"authorized", "running"} =>
       /\ started
       /\ req.target = currentIDTTarget(access[req.file])
       /\ req.target # "denied"
  /\ req.st = "running" => req.file \in registered
  /\ req = [st |-> req.st, file |-> req.file, target |-> req.target]
  /\ agents # {} => boot \in {"publish", "up"}
  /\ PublishedServes

\* PublishedServes depends on the directory, the agents, the registered
\* workflows and their access.
LEMMA SamePublished ==
  PublishedServes /\ UNCHANGED <<files, agents, registered, access>> => PublishedServes'
BY SameMode, SameNodes DEF PublishedServes, currentIDTTarget

\* The card of an agent declares what its trigger has tokens checked against.
LEMMA CardsTell ==
  \A a : agentAccess(a) # "skip" => agentAccess(a) = currentIDTTarget(a)
BY DEF agentAccess, currentIDTTarget

\* Steps of the process keep the invariant.
LEMMA ServeStep ==
  ServeInv /\ (Next \/ Reprompt) => ServeInv'
<1> SUFFICES ASSUME ServeInv, Next \/ Reprompt PROVE ServeInv'
  OBVIOUS
<1>1. CASE Hosts
  BY <1>1, SamePublished DEF Hosts, ServeInv, loadVars, serveVars, Serving
<1>2. CASE LoadOne
  BY <1>2, SamePublished DEF LoadOne, NextFile, ServeInv, serveVars, Serving
<1>3. CASE Start
  BY <1>3, SamePublished DEF Start, ConfigFromEnv, ServeInv, loadVars, Serving
<1>4. CASE LoadFails
  BY <1>4, SamePublished DEF LoadFails, NextFile, ServeInv, loadVars, serveVars, Serving
<1>5. CASE InitFails
  BY <1>5, SamePublished DEF InitFails, NextFile, ServeInv, serveVars, Serving
<1>6. CASE SetIndexAccess
  BY <1>6 DEF SetIndexAccess, ServeInv, PublishedServes, serveVars, Serving
<1>7. CASE Subscribe
  BY <1>7 DEF Subscribe, NextFile, ServeInv, PublishedServes, serveVars, Serving
<1>8. CASE NothingLoaded
  BY <1>8, SamePublished DEF NothingLoaded, ServeInv, loadVars, serveVars, Serving
<1>9. CASE Publish
  <2>1. PublishedServes'
    <3>1. CASE UNCHANGED agents
      BY <1>9, <3>1, SamePublished DEF Publish, ServeInv, loadVars
    <3>2. ASSUME NEW f \in registered,
                 Eligibility(f), \A a \in agents : a.name # AgentName(f),
                 agentAccess(access[f]) # "skip",
                 agents' = agents \cup
                   {[name |-> AgentName(f), file |-> f, fn |-> agentAccess(access[f])]}
          PROVE  PublishedServes'
      <4>1. UNCHANGED <<files, registered, access>>
        BY <1>9 DEF Publish, loadVars
      <4>2. agentAccess(access[f]) = currentIDTTarget(access[f])
        BY <3>2, CardsTell
      <4>3. /\ Mode(f)' # "single" /\ NodesOf(f, "ui")' = {}
            /\ \A a \in agents : Mode(a.file)' # "single" /\ NodesOf(a.file, "ui")' = {}
        BY <3>2, <4>1, SameMode, SameNodes DEF Eligibility, ServeInv, PublishedServes
      <4> QED BY <3>2, <4>1, <4>2, <4>3 DEF ServeInv, PublishedServes, currentIDTTarget
    <3> QED BY <1>9, <3>1, <3>2 DEF Publish
  <2> QED BY <1>9, <2>1 DEF Publish, ServeInv, loadVars, Serving
<1>10. CASE Published
  BY <1>10, SamePublished DEF Published, ServeInv, loadVars, serveVars, Serving
<1>11. CASE Signal
  BY <1>11 DEF Signal, ServeInv, PublishedServes, loadVars, Serving
<1>12. CASE Shutdown
  BY <1>12, SamePublished DEF Shutdown, ServeInv, loadVars, Serving
<1>13. CASE NatsShutdown
  BY <1>13, SamePublished DEF NatsShutdown, ServeInv, loadVars, Serving, NoReq
<1>14. CASE Handle
  BY <1>14, SamePublished DEF Handle, ServeInv, loadVars, Serving, currentIDTTarget
<1>15. CASE Emit
  <2>1. UNCHANGED <<files, boot, agents, registered, access, started>>
    BY <1>15 DEF Emit, loadVars
  <2>2. \/ req' = NoReq
        \/ req' = [req EXCEPT !.st = "running"] /\ req.file \in registered
    BY <1>15 DEF Emit
  <2>3. CASE req' = NoReq
    BY <2>1, <2>3, SamePublished DEF ServeInv, NoReq
  <2>4. CASE req' = [req EXCEPT !.st = "running"] /\ req.file \in registered
    <3>1. req' = [st |-> "running", file |-> req.file, target |-> req.target]
      BY <2>4 DEF ServeInv
    <3> QED BY <1>15, <2>1, <2>4, <3>1, SamePublished DEF Emit, ServeInv, currentIDTTarget
  <2> QED BY <2>2, <2>3, <2>4
<1>16. CASE Returns
  BY <1>16, SamePublished DEF Returns, ServeInv, loadVars, Serving, NoReq
<1>17. CASE Reprompt
  BY <1>17, SamePublished DEF Reprompt, ServeInv, serveVars, Serving
<1> QED BY <1>1, <1>2, <1>3, <1>4, <1>5, <1>6, <1>7, <1>8, <1>9, <1>10, <1>11, <1>12,
           <1>13, <1>14, <1>15, <1>16, <1>17 DEF Next, Others

\* The invariant implies what a request that runs was checked against.
LEMMA ServeInvAuthorized ==
  ServeInv => RunsAuthorized
BY DEF ServeInv, RunsAuthorized, currentIDTTarget

\* Nothing is started or published at first.
LEMMA ServeInit ==
  PromptsInit => ServeInv
<1> SUFFICES ASSUME PromptsInit PROVE ServeInv
  OBVIOUS
<1>1. ~started /\ agents = {} /\ req = [st |-> "idle", file |-> 0, target |-> ""]
  BY DEF PromptsInit, Init, NoReq
<1> QED BY <1>1 DEF ServeInv, PublishedServes

\* A request that reaches an agent was checked against the function that guards
\* the workflow's index as resolved at load (SetIndexAccess before Start, and
\* natsservice delivering nothing before Start), for every directory and every
\* interleaving with the prompt store.
THEOREM RequestsAuthorized == PromptsSpec => []RunsAuthorized
<1>1. ServeInv /\ [PromptsNext]_allVars => ServeInv'
  BY ProcessSteps, ServeStep
<1> QED BY <1>1, ServeInit, ServeInvAuthorized, PTL DEF PromptsSpec

\* A published agent stands for a registered workflow that streams and needs no
\* browser, under a name of its own, and its card declares what the trigger
\* checks (rsassistant's Start against the trigger's currentIDTTarget).
THEOREM AgentsServe == PromptsSpec => []PublishedServes
<1>1. ServeInv /\ [PromptsNext]_allVars => ServeInv'
  BY ProcessSteps, ServeStep
<1>2. ServeInv => PublishedServes
  BY DEF ServeInv
<1> QED BY <1>1, <1>2, ServeInit, PTL DEF PromptsSpec

-----------------------------------------------------------------------------
(* LoadAll.  Every file it has passed is settled, and the endpoints there   *)
(* are before it looks at a file are other files'.                          *)

\* Another file's trigger has the subject of one of the file's triggers.
Contended(f) ==
  \E e \in endpoints : e.file # f /\
    \E x \in Endpoints(f, Ids(Doc(f).nodes)) : x.subject = e.subject

Settled(f) ==
  Accepted(f) /\ TypeOf(Doc(f), Doc(f).trigger) = "chat" =>
    f \in registered \cup broken \/ Contended(f)

LoadInv ==
  /\ Len(files) \in Nat /\ DOMAIN files = 1..Len(files)
  /\ at \in Nat
  /\ boot \in {"access", "subscribe"} => at \in DOMAIN files /\ Accepted(at)
  /\ \A e \in endpoints : e.file \in Int /\ e.file <= at /\ (boot = "load" => e.file < at)
  /\ \A f \in registered : f \in DOMAIN files /\ f < at /\ Accepted(f)
  /\ \A f \in DOMAIN files : f < at => Settled(f)

\* A file that is settled stays so: nothing is taken back.
LEMMA SettledStays ==
  ASSUME files' = files, endpoints \subseteq endpoints',
         registered \subseteq registered', broken \subseteq broken',
         NEW f, Settled(f)
  PROVE  Settled(f)'
<1>1. /\ Accepted(f)' <=> Accepted(f)
      /\ Doc(f)' = Doc(f)
      /\ \A ids : Endpoints(f, ids)' = Endpoints(f, ids)
  BY SameDoc, SameAccepted, SameEndpoints
<1>2. Contended(f) => Contended(f)'
  BY <1>1 DEF Contended
<1> QED BY <1>1, <1>2 DEF Settled

\* What the endpoints of a file name.
LEMMA EndpointFile ==
  \A f, ids : \A e \in Endpoints(f, ids) : e.file = f
BY DEF Endpoints

\* A step that leaves what has been loaded alone.
LEMMA LoadQuiet ==
  ASSUME LoadInv, UNCHANGED <<files, at, broken, endpoints, registered>>,
         boot' \notin {"access", "subscribe"}, boot' = "load" => boot \in {"hosts", "load"},
         boot = "hosts" => endpoints = {}
  PROVE  LoadInv'
<1>1. \A f : Accepted(f)' <=> Accepted(f)
  BY SameAccepted
<1>2. \A f : Settled(f) => Settled(f)'
  BY SettledStays
<1> QED BY <1>1, <1>2 DEF LoadInv

\* The invariant with what holds before the loop begins.
LoadAllInv == LoadInv /\ (boot = "hosts" => endpoints = {})

\* Passing over a file that is settled.
LEMMA LoadPass ==
  ASSUME LoadInv, boot \in {"load", "access", "subscribe"}, at \in DOMAIN files,
         NEW file, file = at,
         files' = files, NextFile, broken \subseteq broken',
         registered' = registered \/ (registered' = registered \cup {at} /\ Accepted(at)),
         endpoints \subseteq endpoints',
         \A e \in endpoints' : e \in endpoints \/ e.file = at,
         Settled(file)'
  PROVE  LoadAllInv'
<1>1. \A f : Accepted(f)' <=> Accepted(f)
  BY SameAccepted
<1>2. \A f : Settled(f) => Settled(f)'
  BY SettledStays
<1>3. at' = at + 1 /\ boot' = "load" /\ at \in Nat
  BY DEF NextFile, LoadInv
<1>4. \A f \in DOMAIN files : f < at + 1 => f < at \/ f = at
  BY <1>3 DEF LoadInv
<1>5. \A f \in DOMAIN files : f < at' => Settled(f)'
  BY <1>2, <1>3, <1>4 DEF LoadInv
<1>6. \A e \in endpoints' : e.file \in Int /\ e.file <= at' /\ e.file < at'
  BY <1>3 DEF LoadInv
<1>7. \A f \in registered' : f \in DOMAIN files /\ f < at' /\ Accepted(f)'
  BY <1>1, <1>3 DEF LoadInv
<1> QED BY <1>3, <1>5, <1>6, <1>7 DEF LoadInv, LoadAllInv

\* Steps of the process keep the invariant.
LEMMA LoadStep ==
  LoadAllInv /\ (Next \/ Reprompt) => LoadAllInv'
<1> SUFFICES ASSUME LoadAllInv, Next \/ Reprompt PROVE LoadAllInv'
  OBVIOUS
<1> USE DEF LoadAllInv
<1> PICK file : file = at
  OBVIOUS
<1>1. CASE Hosts
  BY <1>1, LoadQuiet DEF Hosts, loadVars
<1>2. CASE LoadFails
  <2>1. Settled(file)'
    BY <1>2, SameAccepted DEF LoadFails, NextFile, Settled
  <2>2. boot = "load" /\ at \in DOMAIN files /\ NextFile /\ files' = files
    BY <1>2 DEF LoadFails
  <2>3. broken' = broken /\ registered' = registered /\ endpoints' = endpoints
    BY <1>2 DEF LoadFails, loadVars
  <2> QED BY <2>1, <2>2, <2>3, LoadPass
<1>3. CASE InitFails
  <2> DEFINE all == Ids(Doc(at).nodes)
  <2>1. PICK S : endpoints' = endpoints \cup Endpoints(at, S)
    BY <1>3 DEF InitFails
  <2>2. UNCHANGED <<files, registered>> /\ broken \subseteq broken'
    BY <1>3 DEF InitFails
  <2>3. Taken(at, all) => Contended(at)
    <3>1. \A g \in endpoints : g.file # at
      BY <1>3 DEF InitFails, LoadInv
    <3> QED BY <3>1 DEF Taken, Contended
  <2>4. at \in broken' \/ Taken(at, all)
    BY <1>3 DEF InitFails
  <2>5. Contended(at) => Contended(file)'
    <3>1. Doc(file)' = Doc(at) /\ \A ids : Endpoints(file, ids)' = Endpoints(at, ids)
      BY <2>2, SameDoc, SameEndpoints
    <3> QED BY <2>1, <3>1 DEF Contended
  <2>6. Settled(file)'
    BY <2>3, <2>4, <2>5 DEF Settled
  <2> QED BY <1>3, <2>1, <2>2, <2>6, LoadPass, EndpointFile DEF InitFails
<1>4. CASE LoadOne
  <2> DEFINE ids == Ids(Doc(at).nodes)
  <2>1. /\ boot = "load" /\ at \in DOMAIN files /\ Accepted(at)
        /\ endpoints' = endpoints \cup Endpoints(at, ids)
        /\ UNCHANGED <<files, broken, registered>>
    BY <1>4 DEF LoadOne
  <2>2. CASE TypeOf(Doc(at), Doc(at).trigger) = "chat"
    <3>1. boot' = "access" /\ at' = at
      BY <1>4, <2>2 DEF LoadOne
    <3>2. \A f : (Accepted(f)' <=> Accepted(f)) /\ (Settled(f) => Settled(f)')
      BY <2>1, SameAccepted, SettledStays
    <3> QED BY <2>1, <3>1, <3>2, EndpointFile DEF LoadInv
  <2>3. CASE TypeOf(Doc(at), Doc(at).trigger) # "chat"
    <3>1. NextFile
      BY <1>4, <2>3 DEF LoadOne
    <3>2. Settled(file)'
      BY <2>1, <2>3, <3>1, SameDoc DEF Settled, NextFile
    <3> QED BY <2>1, <3>1, <3>2, LoadPass, EndpointFile
  <2> QED BY <2>2, <2>3
<1>5. CASE SetIndexAccess
  <2>1. \A f : (Accepted(f)' <=> Accepted(f)) /\ (Settled(f) => Settled(f)')
    BY <1>5, SameAccepted, SettledStays DEF SetIndexAccess
  <2> QED BY <1>5, <2>1 DEF SetIndexAccess, LoadInv
<1>6. CASE Subscribe
  <2>1. Settled(file)'
    BY <1>6 DEF Subscribe, Settled, NextFile
  <2> QED BY <1>6, <2>1, LoadPass DEF Subscribe, LoadInv
<1>7. CASE NothingLoaded \/ Start \/ Published \/ Signal \/ Shutdown \/ NatsShutdown
  BY <1>7, LoadQuiet DEF NothingLoaded, Start, ConfigFromEnv, Published, Signal, Shutdown,
       NatsShutdown, loadVars
<1>8. CASE Publish \/ Handle \/ Emit \/ Returns \/ Reprompt
  <2>1. UNCHANGED <<files, boot, at, broken, endpoints, registered>>
    BY <1>8 DEF Publish, Handle, Emit, Returns, Reprompt, loadVars
  <2>2. \A f : (Accepted(f)' <=> Accepted(f)) /\ (Settled(f) => Settled(f)')
    BY <2>1, SameAccepted, SettledStays
  <2> QED BY <2>1, <2>2 DEF LoadInv
<1> QED BY <1>1, <1>2, <1>3, <1>4, <1>5, <1>6, <1>7, <1>8 DEF Next, Others

\* Before LoadAll nothing is loaded.
LEMMA LoadInit ==
  PromptsInit => LoadAllInv
<1> SUFFICES ASSUME PromptsInit PROVE LoadAllInv
  OBVIOUS
<1>1. files \in Directories /\ boot = "hosts" /\ at = 1 /\ endpoints = {} /\ registered = {}
  BY DEF PromptsInit, Init
<1>2. Len(files) \in Nat /\ DOMAIN files = 1..Len(files)
  BY <1>1, DirectoryBounds
<1> QED BY <1>1, <1>2 DEF LoadInv, LoadAllInv

\* A sound file is settled as itself.
LEMMA SoundSettled ==
  LoadInv => Isolated
<1> SUFFICES ASSUME LoadInv, at > Len(files), NEW f \in DOMAIN files,
                    Sound(f), First(files[f].id) = f
             PROVE  \/ f \in registered \cup broken
                    \/ \E e \in endpoints : e.file # f /\
                         \E x \in Endpoints(f, Ids(files[f].nodes)) : x.subject = e.subject
  BY DEF Isolated
<1>1. Doc(f) = files[f]
  BY DEF Sound, Doc
<1>2. Accepted(f)
  BY <1>1 DEF Sound, Accepted, Duplicate
<1>3. Settled(f)
  BY DEF LoadInv
<1> QED BY <1>1, <1>2, <1>3 DEF Settled, Sound, Contended

\* LoadAll isolates failures, in a directory of any size and whatever its other
\* files are (engine.LoadAll's continue on every error): a sound file, first
\* with its id, is registered unless one of its own Inits fails or another file
\* has its trigger's subject.
THEOREM FailuresIsolated == PromptsSpec => []Isolated
<1>1. LoadAllInv /\ [PromptsNext]_allVars => LoadAllInv'
  BY ProcessSteps, LoadStep
<1>2. LoadAllInv => Isolated
  BY SoundSettled DEF LoadAllInv
<1> QED BY <1>1, <1>2, LoadInit, PTL DEF PromptsSpec

-----------------------------------------------------------------------------
(* The prompt that runs.  News is pending from the moment a version is      *)
(* stored until the note of it has been taken: while there is none and      *)
(* nothing was missed, the last read is the latest version.                 *)

Pending == inbox > 0 \/ \E s \in Savers : save[s].st = "saved"

\* The agent that runs the edited prompt, or is being loaded with it.
Edits(f) ==
  /\ f \in registered \/ (boot \in {"access", "subscribe"} /\ f = at)
  /\ Doc(f).id = Edited /\ resolveAgent(f)

Loading == {"hosts", "load", "access", "subscribe"}

SaveStates == [st : {"idle", "saving", "saved", "failed", "done"}, text : Texts \cup {""}, tries : Nat]

FreshInv ==
  /\ inbox \in Nat
  /\ save \in [Savers -> SaveStates]
  /\ DOMAIN flex = DOMAIN files
  /\ \A v \in store : v.sk \in Nat \ {0}
  /\ \E v \in store \cup {NoVersion} : \A w \in store : w.sk <= v.sk
  /\ Pending => store # {}
  /\ subscribed => boot \notin Loading
  /\ inbox > 0 \/ update # NoVersion => subscribed
  /\ ~missed /\ ~Pending /\ update # NoVersion => update = Latest
  /\ \A f : Edits(f) =>
       /\ ~missed /\ ~Pending /\ update = NoVersion => running = Latest
       /\ running # NoVersion => flex[f] = running.text

\* The latest version is none only when there is none.
LEMMA LatestStored ==
  FreshInv /\ store # {} => Latest # NoVersion
<1> SUFFICES ASSUME FreshInv, store # {} PROVE Latest # NoVersion
  OBVIOUS
<1>1. \E v \in store \cup {NoVersion} : \A w \in store : w.sk <= v.sk
  BY DEF FreshInv
<1>2. \A w \in store : w.sk <= Latest.sk
  BY <1>1 DEF Latest
<1>3. PICK w \in store : w.sk \in Nat /\ w.sk # 0
  BY DEF FreshInv
<1>4. CASE Latest = NoVersion
  <2>1. Latest.sk = 0
    BY <1>4 DEF NoVersion
  <2> QED BY <1>2, <1>3, <2>1
<1> QED BY <1>4

\* At most one file that has been accepted is the edited workflow.
LEMMA OneEdited ==
  ASSUME NEW f, NEW g, Accepted(f), Accepted(g), Doc(f).id = Edited, Doc(g).id = Edited
  PROVE  f = g
<1>1. \A h : Doc(h).id = files[h].id
  BY DEF Doc, MergeDerived
<1>2. Edited # ""
  BY DEF Accepted, Loadable, validateEnvelope
<1>3. files[f].id = Edited /\ files[g].id = Edited
  BY <1>1
<1>4. First(files[f].id) = f /\ First(files[g].id) = g
  BY <1>2, <1>3 DEF Accepted, Duplicate
<1> QED BY <1>3, <1>4

\* A step that changes neither prompts nor the store, and brings no file into
\* Edits that was not there.
LEMMA FreshQuiet ==
  ASSUME FreshInv, UNCHANGED <<files, flex, promptVars>>,
         subscribed => boot' \notin Loading,
         \A f : Edits(f)' => Edits(f)
  PROVE  FreshInv'
<1>1. /\ UNCHANGED <<files, flex, store, save, subscribed, inbox, update, running, missed>>
      /\ Latest' = Latest /\ (Pending' <=> Pending)
  BY DEF promptVars, Latest, Pending
<1>2. \A f : Edits(f)' =>
        /\ ~missed' /\ ~Pending' /\ update' = NoVersion => running' = Latest'
        /\ running' # NoVersion => flex'[f] = running'.text
  BY <1>1 DEF FreshInv
<1> QED BY <1>1, <1>2 DEF FreshInv

\* Whether a file is edited depends on what is registered and being loaded.
LEMMA SameEdits ==
  ASSUME UNCHANGED files, registered' \subseteq registered \cup {at},
         boot \in {"access", "subscribe"} \/ registered' = registered,
         boot' \in {"access", "subscribe"} => boot \in {"access", "subscribe"} /\ at' = at
  PROVE  \A f : Edits(f)' => Edits(f)
BY SameDoc, SameNodes DEF Edits, resolveAgent

\* A save keeps what an update of its record does not name.
LEMMA SaveRecord ==
  ASSUME NEW r \in SaveStates, NEW x, NEW y
  PROVE  /\ r.tries \in Nat /\ r.tries + 1 \in Nat /\ r.text \in Texts \cup {""}
         /\ [r EXCEPT !.st = x] = [st |-> x, text |-> r.text, tries |-> r.tries]
         /\ [r EXCEPT !.tries = y, !.st = x] = [st |-> x, text |-> r.text, tries |-> y]
<1>1. r.tries \in Nat /\ r.text \in Texts \cup {""}
  BY DEF SaveStates
<1>2. r = [st |-> r.st, text |-> r.text, tries |-> r.tries]
  BY DEF SaveStates
<1>3. [r EXCEPT !.st = x] = [st |-> x, text |-> r.text, tries |-> r.tries]
  BY <1>2
<1>4. [r EXCEPT !.tries = y, !.st = x] = [st |-> x, text |-> r.text, tries |-> y]
  <2>1. PICK p : p = [r EXCEPT !.tries = y]
    OBVIOUS
  <2>2. p = [st |-> r.st, text |-> r.text, tries |-> y]
    BY <1>2, <2>1
  <2>3. [p EXCEPT !.st = x] = [st |-> x, text |-> r.text, tries |-> y]
    BY <2>2
  <2>4. [r EXCEPT !.tries = y, !.st = x] = [p EXCEPT !.st = x]
    BY <2>1
  <2> QED BY <2>3, <2>4
<1>5. r.tries + 1 \in Nat
  <2>1. \A n \in Nat : n + 1 \in Nat
    OBVIOUS
  <2> QED BY <1>1, <2>1
<1> QED BY <1>1, <1>3, <1>4, <1>5

\* Saves, notes and reads keep the invariant.
LEMMA FreshStore ==
  ASSUME FreshInv,
         \/ \E s \in Savers : handleSave(s) \/ Put(s) \/ Broadcast(s)
         \/ Notified
  PROVE  FreshInv'
<1>1. UNCHANGED vars /\ UNCHANGED <<provisioned, subscribed, running>>
  BY DEF handleSave, Put, Broadcast, Notified, storeVars
<1>2. /\ UNCHANGED <<files, boot, flex>>
      /\ \A f : Edits(f)' <=> Edits(f)
  <2>1. UNCHANGED <<files, boot, flex, registered, at>>
    BY <1>1 DEF vars
  <2> QED BY <2>1, SameDoc, SameNodes DEF Edits, resolveAgent
<1>a. \A s \in Savers : save[s] \in SaveStates
  BY DEF FreshInv
<1>3. ASSUME NEW s \in Savers, handleSave(s) PROVE FreshInv'
  <2>1. UNCHANGED <<store, inbox, update, missed>> /\ Latest' = Latest
    BY <1>3 DEF handleSave, storeVars, Latest
  <2>2. PICK t \in Texts : save' = [save EXCEPT ![s] = [save[s] EXCEPT !.st = "saving", !.text = t]]
    BY <1>3 DEF handleSave, Save
  <2>3. save' \in [Savers -> SaveStates]
    BY <2>2 DEF SaveStates, FreshInv
  <2>4. Pending' <=> Pending
    BY <1>3, <2>1, <2>2 DEF Pending, handleSave, FreshInv, SaveStates
  <2> QED BY <1>1, <1>2, <2>1, <2>3, <2>4 DEF FreshInv
<1>4. ASSUME NEW s \in Savers, Put(s) PROVE FreshInv'
  <2>1. UNCHANGED <<inbox, update>> /\ save[s].st = "saving"
    BY <1>4 DEF Put
  <2>2. PICK k \in sk :
          IF \E v \in store : v.sk = k
          THEN /\ Save(s, [save[s] EXCEPT !.tries = @ + 1,
                                          !.st = IF save[s].tries + 1 = maxSaveRetries THEN "failed" ELSE @])
               /\ UNCHANGED <<store, missed>>
          ELSE \/ /\ store' = store \cup {[sk |-> k, text |-> save[s].text]}
                  /\ \/ Save(s, [save[s] EXCEPT !.st = "saved"]) /\ UNCHANGED missed
                     \/ Save(s, [save[s] EXCEPT !.st = "failed"]) /\ missed' = TRUE
               \/ Save(s, [save[s] EXCEPT !.st = "failed"]) /\ UNCHANGED <<store, missed>>
    BY <1>4 DEF Put
  <2>3. k \in Nat \ {0}
    BY StoreBounds DEF sk
  <2>4. ASSUME UNCHANGED <<store, missed>>,
               NEW st \in {"failed", "saving"}, NEW n \in Nat,
               save' = [save EXCEPT ![s] = [st |-> st, text |-> save[s].text, tries |-> n]]
        PROVE  FreshInv'
    <3>1. save' \in [Savers -> SaveStates]
      BY <2>4 DEF FreshInv, SaveStates
    <3>2. (Pending' <=> Pending) /\ Latest' = Latest
      BY <2>1, <2>4 DEF Pending, Latest, FreshInv, SaveStates
    <3> QED BY <1>1, <1>2, <2>1, <2>4, <3>1, <3>2 DEF FreshInv
  <2>5. ASSUME store' = store \cup {[sk |-> k, text |-> save[s].text]},
               \/ save' = [save EXCEPT ![s] = [save[s] EXCEPT !.st = "saved"]] /\ UNCHANGED missed
               \/ save' = [save EXCEPT ![s] = [save[s] EXCEPT !.st = "failed"]] /\ missed' = TRUE
        PROVE  FreshInv'
    <3>1. save' \in [Savers -> SaveStates]
      BY <2>5 DEF FreshInv, SaveStates
    <3>2. \A v \in store' : v.sk \in Nat \ {0}
      BY <2>3, <2>5 DEF FreshInv
    <3>3. \E v \in store' \cup {NoVersion} : \A w \in store' : w.sk <= v.sk
      <4>1. PICK v \in store \cup {NoVersion} : \A w \in store : w.sk <= v.sk
        BY DEF FreshInv
      <4>2. v.sk \in Nat
        <5>1. CASE v \in store
          BY <5>1 DEF FreshInv
        <5>2. CASE v = NoVersion
          BY <5>2 DEF NoVersion
        <5> QED BY <5>1, <5>2
      <4>3. CASE k <= v.sk
        BY <2>5, <4>1, <4>3
      <4>4. CASE v.sk < k
        <5> DEFINE u == [sk |-> k, text |-> save[s].text]
        <5>1. u \in store' /\ u.sk = k
          BY <2>5
        <5>2. \A w \in store' : w.sk <= u.sk
          BY <2>3, <2>5, <4>1, <4>2, <4>4 DEF FreshInv
        <5> QED BY <5>1, <5>2
      <4> QED BY <2>3, <4>2, <4>3, <4>4
    <3>a. store' # {}
      BY <2>5
    <3>b. save'[s].st = "saved" \/ missed'
      <4>1. save'[s] = [save[s] EXCEPT !.st = "saved"] \/ missed'
        BY <2>5 DEF FreshInv
      <4>2. [save[s] EXCEPT !.st = "saved"].st = "saved"
        BY <1>a, SaveRecord
      <4> QED BY <4>1, <4>2
    <3>4. store' # {} /\ (Pending' \/ missed')
      BY <3>a, <3>b DEF Pending
    <3>5. \A f : Edits(f)' => (running' # NoVersion => flex'[f] = running'.text)
      BY <1>1, <1>2 DEF FreshInv
    <3> QED BY <1>1, <1>2, <2>1, <3>1, <3>2, <3>3, <3>4, <3>5 DEF FreshInv
  <2>6. CASE \E v \in store : v.sk = k
    <3> DEFINE st == IF save[s].tries + 1 = maxSaveRetries THEN "failed" ELSE "saving"
    <3>1. save' = [save EXCEPT ![s] = [st |-> st, text |-> save[s].text, tries |-> save[s].tries + 1]]
      <4>1. save' = [save EXCEPT ![s] = [save[s] EXCEPT !.tries = save[s].tries + 1,
                 !.st = IF save[s].tries + 1 = maxSaveRetries THEN "failed" ELSE save[s].st]]
        BY <2>2, <2>6 DEF Save
      <4>2. st = IF save[s].tries + 1 = maxSaveRetries THEN "failed" ELSE save[s].st
        BY <2>1
      <4> HIDE DEF st
      <4>3. [save[s] EXCEPT !.tries = save[s].tries + 1, !.st = st]
              = [st |-> st, text |-> save[s].text, tries |-> save[s].tries + 1]
        BY <1>a, SaveRecord
      <4> QED BY <4>1, <4>2, <4>3
    <3>2. save[s].tries + 1 \in Nat /\ st \in {"failed", "saving"}
      BY <1>a, SaveRecord
    <3> HIDE DEF st
    <3> QED BY <2>2, <2>4, <2>6, <3>1, <3>2
  <2>7. CASE Save(s, [save[s] EXCEPT !.st = "failed"]) /\ UNCHANGED <<store, missed>>
    <3>1. save' = [save EXCEPT ![s] = [st |-> "failed", text |-> save[s].text, tries |-> save[s].tries]]
      BY <1>a, <2>7, SaveRecord DEF Save
    <3>2. save[s].tries \in Nat
      BY <1>a, SaveRecord
    <3> QED BY <2>4, <2>7, <3>1, <3>2
  <2> QED BY <2>2, <2>5, <2>6, <2>7 DEF Save
<1>5. ASSUME NEW s \in Savers, Broadcast(s) PROVE FreshInv'
  <2>1. /\ UNCHANGED <<store, update>> /\ Latest' = Latest
        /\ save' = [save EXCEPT ![s] = [save[s] EXCEPT !.st = "done"]]
        /\ save[s].st = "saved"
        /\ \/ subscribed /\ inbox' = inbox + 1 /\ UNCHANGED missed
           \/ missed' = TRUE /\ UNCHANGED inbox
    BY <1>5 DEF Broadcast, Save, storeVars, Latest
  <2>a. [save[s] EXCEPT !.st = "done"] \in SaveStates
    BY <1>a, SaveRecord DEF SaveStates
  <2>2. save' \in [Savers -> SaveStates] /\ inbox' \in Nat
    BY <2>1, <2>a DEF FreshInv
  <2>3. store # {} /\ (Pending' \/ missed')
    BY <2>1 DEF Pending, FreshInv
  <2>4. \A f : Edits(f)' => (running' # NoVersion => flex'[f] = running'.text)
    BY <1>1, <1>2 DEF FreshInv
  <2>5. inbox' > 0 \/ update' # NoVersion => subscribed'
    BY <1>1, <2>1 DEF FreshInv
  <2> QED BY <1>1, <1>2, <2>1, <2>2, <2>3, <2>4, <2>5 DEF FreshInv
<1>6. CASE Notified
  <2>1. /\ subscribed /\ inbox > 0 /\ inbox' = inbox - 1
        /\ missed' = (update' # Latest)
        /\ UNCHANGED <<store, save>> /\ Latest' = Latest
    BY <1>6 DEF Notified, storeVars, Latest
  <2>2. inbox' \in Nat /\ (Pending' => Pending) /\ store # {} /\ Latest # NoVersion
    BY <2>1, LatestStored DEF FreshInv, Pending
  <2>3. ~missed' => update' = Latest'
    BY <2>1
  <2>4. \A f : Edits(f)' => (running' # NoVersion => flex'[f] = running'.text)
    BY <1>1, <1>2 DEF FreshInv
  <2> QED BY <1>1, <1>2, <2>1, <2>2, <2>3, <2>4 DEF FreshInv
<1> QED BY <1>3, <1>4, <1>5, <1>6

\* LoadOne brings the file into the process with the version it read of the
\* edited prompt, and leaves what ran before alone.
LEMMA FreshOverride ==
  ASSUME LoadInv, FreshInv, applyOverrides
  PROVE  FreshInv'
<1>1. /\ boot = "load" /\ at \in DOMAIN files /\ Accepted(at)
      /\ UNCHANGED <<files, registered, store, save, subscribed, inbox, update>>
      /\ Latest' = Latest /\ (Pending' <=> Pending)
  BY DEF applyOverrides, LoadOne, Latest, Pending
<1>2. ~subscribed /\ inbox = 0 /\ update = NoVersion
  BY <1>1 DEF FreshInv, Loading
<1>3. /\ DOMAIN flex' = DOMAIN flex
      /\ \A f \in DOMAIN flex : f # at => flex'[f] = flex[f]
  <2>1. flex' = flex \/ \E v : flex' = [flex EXCEPT ![at] = v]
    BY DEF applyOverrides, LoadOne
  <2> QED BY <2>1
<1>4. \A f \in registered : f # at /\ Accepted(f)
  BY <1>1 DEF LoadInv
<1>5. CASE Doc(at).id = Edited /\ TypeOf(Doc(at), Doc(at).trigger) = "chat" /\ resolveAgent(at)
  <2>1. PICK v : /\ IF v = NoVersion THEN flex'[at] \notin Texts ELSE flex'[at] = v.text
                 /\ running' = v /\ missed' = (v # Latest)
    BY <1>5 DEF applyOverrides
  <2>2. \A f : Edits(f)' => f = at
    <3>1. ASSUME NEW f, Edits(f)', f # at PROVE FALSE
      <4>1. at' = at
        BY <1>5 DEF applyOverrides, LoadOne
      <4>2. f \in registered /\ Doc(f).id = Edited
        BY <1>1, <3>1, <4>1, SameDoc DEF Edits
      <4> QED BY <1>1, <1>4, <1>5, <3>1, <4>2, OneEdited
    <3> QED BY <3>1
  <2>3. \A f : Edits(f)' =>
          /\ ~missed' => running' = Latest'
          /\ running' # NoVersion => flex'[f] = running'.text
    BY <1>1, <2>1, <2>2
  <2> QED BY <1>1, <1>2, <1>3, <2>3 DEF FreshInv
<1>6. CASE ~(Doc(at).id = Edited /\ TypeOf(Doc(at), Doc(at).trigger) = "chat" /\ resolveAgent(at))
  <2>1. UNCHANGED <<running, missed>>
    BY <1>6 DEF applyOverrides
  <2>2. \A f : Edits(f)' => Edits(f) /\ f # at /\ f \in DOMAIN flex
    <3>1. ASSUME NEW f, Edits(f)' PROVE f \in registered
      <4>1. Doc(f).id = Edited /\ resolveAgent(f)
        BY <1>1, <3>1, SameDoc, SameNodes DEF Edits, resolveAgent
      <4>2. CASE TypeOf(Doc(at), Doc(at).trigger) = "chat"
        <5>1. at' = at
          BY <4>2 DEF applyOverrides, LoadOne
        <5> QED BY <1>1, <1>6, <3>1, <4>1, <4>2, <5>1 DEF Edits
      <4>3. CASE TypeOf(Doc(at), Doc(at).trigger) # "chat"
        <5>1. boot' = "load"
          BY <4>3 DEF applyOverrides, LoadOne, NextFile
        <5> QED BY <1>1, <3>1, <5>1 DEF Edits
      <4> QED BY <4>2, <4>3
    <3>2. registered \subseteq DOMAIN flex
      BY DEF LoadInv, FreshInv
    <3> QED BY <1>1, <1>4, <3>1, <3>2, SameDoc, SameNodes DEF Edits, resolveAgent
  <2>3. \A f : Edits(f)' =>
          /\ ~missed' /\ ~Pending' /\ update' = NoVersion => running' = Latest'
          /\ running' # NoVersion => flex'[f] = running'.text
    BY <1>1, <1>3, <2>1, <2>2 DEF FreshInv
  <2> QED BY <1>1, <1>2, <1>3, <2>1, <2>3 DEF FreshInv
<1> QED BY <1>5, <1>6

\* The version that was read is applied to the registered workflow.
LEMMA FreshApply ==
  ASSUME LoadInv, FreshInv, ApplyPromptUpdate
  PROVE  FreshInv'
<1>1. /\ update # NoVersion /\ update' = NoVersion /\ running' = update
      /\ UNCHANGED <<files, boot, at, registered, store, save, subscribed, inbox, missed>>
      /\ Latest' = Latest /\ (Pending' <=> Pending)
  BY DEF ApplyPromptUpdate, storeVars, Latest, Pending
<1>2. boot \notin Loading
  BY <1>1 DEF FreshInv
<1>3. DOMAIN flex' = DOMAIN flex
  BY DEF ApplyPromptUpdate
<1>4. ASSUME NEW f, Edits(f)' PROVE flex'[f] = update.text
  <2>1. f \in registered /\ Doc(f).id = Edited /\ resolveAgent(f)
    BY <1>1, <1>2, <1>4, SameDoc, SameNodes DEF Edits, Loading, resolveAgent
  <2>2. f \in DOMAIN flex
    BY <2>1 DEF LoadInv, FreshInv
  <2> QED BY <2>1, <2>2 DEF ApplyPromptUpdate
<1>5. \A f : Edits(f)' =>
        /\ ~missed' /\ ~Pending' /\ update' = NoVersion => running' = Latest'
        /\ running' # NoVersion => flex'[f] = running'.text
  BY <1>1, <1>4 DEF FreshInv
<1> QED BY <1>1, <1>2, <1>3, <1>5 DEF FreshInv

\* Every step keeps the invariant.
LEMMA FreshStep ==
  LoadInv /\ FreshInv /\ [PromptsNext]_allVars => FreshInv'
<1> SUFFICES ASSUME LoadInv, FreshInv, [PromptsNext]_allVars PROVE FreshInv'
  OBVIOUS
<1>1. CASE PromptHosts
  <2>1. UNCHANGED <<files, flex, registered, at, store, save, subscribed, inbox, update, running, missed>>
    BY <1>1 DEF PromptHosts, Hosts, loadVars
  <2>2. boot' \in {"load", "exit"} /\ ~subscribed
    BY <1>1 DEF PromptHosts, Hosts, FreshInv, Loading
  <2>3. \A f : Edits(f)' => Edits(f)
    BY <2>1, <2>2, SameEdits
  <2>4. Latest' = Latest /\ (Pending' <=> Pending)
    BY <2>1 DEF Latest, Pending
  <2>5. \A f : Edits(f)' =>
          /\ ~missed' /\ ~Pending' /\ update' = NoVersion => running' = Latest'
          /\ running' # NoVersion => flex'[f] = running'.text
    BY <2>1, <2>3, <2>4 DEF FreshInv
  <2> QED BY <2>1, <2>2, <2>4, <2>5 DEF FreshInv
<1>2. CASE applyOverrides
  BY <1>2, FreshOverride
<1>3. CASE Register
  <2>1. UNCHANGED <<files, flex, registered, at, store, save, inbox, update, running, missed>>
    BY <1>3 DEF Register, Start, loadVars
  <2>2. boot = "load" /\ boot' \notin Loading
    BY <1>3 DEF Register, Start, ConfigFromEnv, Loading
  <2>3. \A f : Edits(f)' => Edits(f)
    BY <2>1, <2>2, SameEdits DEF Loading
  <2>4. Latest' = Latest /\ (Pending' <=> Pending)
    BY <2>1 DEF Latest, Pending
  <2>5. ~(inbox > 0 \/ update # NoVersion)
    BY <2>2 DEF FreshInv, Loading
  <2>6. \A f : Edits(f)' =>
          /\ ~missed' /\ ~Pending' /\ update' = NoVersion => running' = Latest'
          /\ running' # NoVersion => flex'[f] = running'.text
    BY <2>1, <2>3, <2>4 DEF FreshInv
  <2> QED BY <2>1, <2>2, <2>4, <2>5, <2>6 DEF FreshInv
<1>4. CASE Others /\ UNCHANGED promptVars
  <2>1. UNCHANGED <<files, flex>>
    BY <1>4 DEF Others, LoadFails, InitFails, SetIndexAccess, Subscribe, NothingLoaded, Publish,
         Published, Signal, Shutdown, NatsShutdown, Handle, Emit, Returns, loadVars
  <2>2. subscribed => boot' \notin Loading
    BY <1>4 DEF Others, LoadFails, InitFails, SetIndexAccess, Subscribe, NothingLoaded, Publish,
         Published, Signal, Shutdown, NatsShutdown, Handle, Emit, Returns, FreshInv, Loading
  <2>3. \A f : Edits(f)' => Edits(f)
    <3>1. /\ registered' \subseteq registered \cup {at}
          /\ boot \in {"access", "subscribe"} \/ registered' = registered
      BY <1>4 DEF Others, LoadFails, InitFails, SetIndexAccess, Subscribe, NothingLoaded, Publish,
           Published, Signal, Shutdown, NatsShutdown, Handle, Emit, Returns, loadVars
    <3>2. boot' \in {"access", "subscribe"} => boot \in {"access", "subscribe"} /\ at' = at
      BY <1>4 DEF Others, LoadFails, InitFails, SetIndexAccess, Subscribe, NextFile, NothingLoaded,
           Publish, Published, Signal, Shutdown, NatsShutdown, Handle, Emit, Returns
    <3> QED BY <2>1, <3>1, <3>2, SameEdits
  <2> QED BY <1>4, <2>1, <2>2, <2>3, FreshQuiet
<1>5. CASE (\E s \in Savers : handleSave(s) \/ Put(s) \/ Broadcast(s)) \/ Notified
  BY <1>5, FreshStore
<1>6. CASE ApplyPromptUpdate
  BY <1>6, FreshApply
<1>7. CASE UNCHANGED allVars
  <2>1. UNCHANGED <<files, flex, registered, boot, at, promptVars>>
    BY <1>7 DEF allVars, vars
  <2>2. subscribed => boot' \notin Loading
    BY <2>1 DEF FreshInv
  <2>3. \A f : Edits(f)' => Edits(f)
    BY <2>1, SameEdits
  <2> QED BY <2>1, <2>2, <2>3, FreshQuiet
<1> QED BY <1>1, <1>2, <1>3, <1>4, <1>5, <1>6, <1>7 DEF PromptsNext

\* Nothing is stored, announced or read at first.
LEMMA FreshInit ==
  PromptsInit => FreshInv
<1> SUFFICES ASSUME PromptsInit PROVE FreshInv
  OBVIOUS
<1>1. /\ boot = "hosts" /\ registered = {} /\ DOMAIN flex = DOMAIN files
      /\ store = {} /\ subscribed = FALSE /\ inbox = 0 /\ update = NoVersion
      /\ save = [s \in Savers |-> [st |-> "idle", text |-> "", tries |-> 0]]
  BY DEF PromptsInit, Init
<1>a. inbox = 0
  BY <1>1
<1>b. inbox \in Nat /\ ~(inbox > 0)
  BY <1>a
<1>2. save \in [Savers -> SaveStates] /\ ~Pending
  <2>1. [st |-> "idle", text |-> "", tries |-> 0] \in SaveStates
    BY DEF SaveStates
  <2>2. \A s \in Savers : save[s].st = "idle"
    BY <1>1
  <2>3. save \in [Savers -> SaveStates]
    BY <1>1, <2>1
  <2>4. ~Pending
    BY <1>b, <2>2 DEF Pending
  <2> QED BY <2>3, <2>4
<1>3. \A f : ~Edits(f)
  BY <1>1 DEF Edits
<1>4. /\ \A v \in store : v.sk \in Nat \ {0}
      /\ \E v \in store \cup {NoVersion} : \A w \in store : w.sk <= v.sk
  BY <1>1
<1>5. inbox \in Nat /\ ~(inbox > 0 \/ update # NoVersion)
  BY <1>1, <1>b
<1> QED BY <1>1, <1>2, <1>3, <1>4, <1>5, Zenon DEF FreshInv

\* Once every announced change has been handled and nothing kept the process
\* from one, the prompt that runs is the store's latest version, for any number
\* of administrators saving at once (promptstore.Save's conditional put and
\* announcement, the subscription's callback that reads the store again).
THEOREM PromptsFresh == PromptsSpec => []PromptFresh
<1>1. LoadAllInv /\ FreshInv /\ [PromptsNext]_allVars => LoadAllInv' /\ FreshInv'
  BY ProcessSteps, LoadStep, FreshStep DEF LoadAllInv
<1>2. LoadAllInv /\ FreshInv => PromptFresh
  <2> SUFFICES ASSUME FreshInv, ~missed, inbox = 0, update = NoVersion,
                      \A s \in Savers : save[s].st # "saved",
                      NEW f \in registered, Doc(f).id = Edited, resolveAgent(f)
               PROVE  running = Latest /\ (Latest # NoVersion => flex[f] = Latest.text)
    BY DEF PromptFresh
  <2>1. Edits(f) /\ ~Pending
    BY DEF Edits, Pending
  <2> QED BY <2>1 DEF FreshInv
<1> QED BY <1>1, <1>2, LoadInit, FreshInit, PTL DEF PromptsSpec

-----------------------------------------------------------------------------
(* Recursion.  The library's induction principles take the fact to be       *)
(* proved as an operator, which the provers cannot instantiate; for a set   *)
(* of naturals the same follows from its least element.                     *)

\* A nonempty set of naturals has a least element.
LEMMA Least ==
  ASSUME NEW T, T \subseteq Nat, T # {}
  PROVE  \E x \in T : \A y \in T : x <= y
<1>1. PICK R : R = OpToRel(<, Nat)
  OBVIOUS
<1>2. IsWellFoundedOn(R, Nat)
  BY <1>1, NatLessThanWellFounded
<1>3. PICK x \in T : \A y \in T : ~ (<<y, x>> \in R)
  BY <1>2, WFMin
<1>4. \A y \in Nat : y < x => <<y, x>> \in R
  BY <1>1, <1>3 DEF OpToRel
<1>5. ASSUME NEW y \in T PROVE x <= y
  <2>1. x \in Nat /\ y \in Nat /\ <<y, x>> \notin R
    BY <1>3, <1>5
  <2>2. ~(y < x)
    BY <1>4, <2>1
  <2> QED BY <2>1, <2>2
<1> QED BY <1>3, <1>5

\* Induction, for a set of naturals.
LEMMA SetInduction ==
  ASSUME NEW S, 0 \in S, \A n \in Nat : n \in S => n + 1 \in S
  PROVE  Nat \subseteq S
<1> DEFINE T == Nat \ S
<1>1. SUFFICES ASSUME T # {} PROVE FALSE
  OBVIOUS
<1>2. PICK x \in T : \A y \in T : x <= y
  BY <1>1, Least
<1>3. x \in Nat /\ x # 0 /\ x - 1 \in Nat /\ (x - 1) + 1 = x
  BY <1>2
<1>4. x - 1 \notin T
  BY <1>2, <1>3
<1> QED BY <1>2, <1>3, <1>4

\* f is what the steps g make of a, one after the other.
Iterates(f, S, n, a, g) ==
  f \in [0..n -> S] /\ f[0] = a /\ \A k \in 1..n : f[k] = g[<<k, f[k - 1]>>]

\* A recursion over 1..n defines a function.
LEMMA Recursion ==
  ASSUME NEW S, NEW n \in Nat, NEW a \in S, NEW g \in [(1..n) \X S -> S]
  PROVE  \E f : Iterates(f, S, n, a, g)
<1> DEFINE Good(m, f) == f[0] = a /\ \A k \in 1..m : f[k] = g[<<k, f[k - 1]>>]
           G == {m \in Nat : m <= n => \E f \in [0..m -> S] : Good(m, f)}
<1>1. 0 \in G
  <2>1. [k \in 0..0 |-> a] \in [0..0 -> S] /\ Good(0, [k \in 0..0 |-> a])
    OBVIOUS
  <2> QED BY <2>1
<1>2. ASSUME NEW m \in Nat, m \in G PROVE m + 1 \in G
  <2> SUFFICES ASSUME m + 1 <= n PROVE \E f \in [0..(m + 1) -> S] : Good(m + 1, f)
    OBVIOUS
  <2>1. PICK f \in [0..m -> S] : Good(m, f)
    BY <1>2
  <2> DEFINE h == [k \in 0..(m + 1) |-> IF k = m + 1 THEN g[<<m + 1, f[m]>>] ELSE f[k]]
  <2>2. m + 1 \in 1..n /\ f[m] \in S
    OBVIOUS
  <2>3. g[<<m + 1, f[m]>>] \in S
    BY <2>2
  <2>4. h \in [0..(m + 1) -> S]
    BY <2>3
  <2>5. h[0] = a
    BY <2>1
  <2>6. ASSUME NEW k \in 1..(m + 1) PROVE h[k] = g[<<k, h[k - 1]>>]
    <3>1. CASE k = m + 1
      <4>1. h[k - 1] = f[m] /\ h[k] = g[<<m + 1, f[m]>>]
        BY <3>1
      <4> QED BY <4>1, <3>1
    <3>2. CASE k # m + 1
      <4>1. k \in 1..m /\ k - 1 \in 0..m
        BY <3>2, <2>6
      <4>2. h[k - 1] = f[k - 1] /\ h[k] = f[k]
        BY <4>1
      <4> QED BY <2>1, <4>1, <4>2
    <3> QED BY <3>1, <3>2
  <2> HIDE DEF h
  <2> QED BY <2>4, <2>5, <2>6
<1>3. n \in G
  <2> HIDE DEF G
  <2> QED BY <1>1, <1>2, SetInduction
<1> QED BY <1>3 DEF Iterates

-----------------------------------------------------------------------------
(* Derivation.  What the recursive helpers of derive.go do, element by      *)
(* element, and what that makes of the merged document.                     *)

\* What Selected does with each element.
LEMMA SelectedSteps ==
  ASSUME NEW S, NEW s \in Seq(S), NEW K
  PROVE  \E out : /\ out[0] = << >> /\ Selected(s, K) = out[Len(s)]
                  /\ \A k \in 1..Len(s) :
                       out[k] = IF k \in K THEN Append(out[k - 1], s[k]) ELSE out[k - 1]
<1> DEFINE n == Len(s)
           Q == Seq(S)
           Step(k, q) == IF k \in K THEN Append(q, s[k]) ELSE q
           g == [x \in (1..n) \X Q |-> Step(x[1], x[2])]
           Body(F) == [k \in 0..n |-> IF k = 0 THEN << >>
                                      ELSE IF k \in K THEN Append(F[k - 1], s[k])
                                      ELSE F[k - 1]]
           F == CHOOSE F : F = Body(F)
           none == << >>
<1>1. n \in Nat /\ none \in Q /\ \A k \in 1..n, q \in Q : Step(k, q) \in Q
  OBVIOUS
<1>2. g \in [(1..n) \X Q -> Q] /\ \A k \in 1..n, q \in Q : g[<<k, q>>] = Step(k, q)
  <2> HIDE DEF Step, n, Q
  <2> QED BY <1>1
<1>3. \E f : Iterates(f, Q, n, none, g)
  <2> HIDE DEF n, Q, g, none
  <2> QED BY <1>1, <1>2, Recursion
<1>4. PICK f \in [0..n -> Q] : f[0] = none /\ \A k \in 1..n : f[k] = g[<<k, f[k - 1]>>]
  <2> HIDE DEF n, Q, g, none
  <2> QED BY <1>3 DEF Iterates
<1>5. ASSUME NEW k \in 1..n PROVE f[k] = Step(k, f[k - 1])
  <2>1. f[k - 1] \in Q
    BY <1>1
  <2> HIDE DEF Step, n, Q, g
  <2> QED BY <1>2, <1>4, <2>1
<1>6. f = Body(f)
  <2>1. ASSUME NEW k \in 0..n PROVE f[k] = Body(f)[k]
    <3>1. CASE k = 0
      BY <1>4, <3>1
    <3>2. CASE k # 0
      <4>1. k \in 1..n
        BY <3>2
      <4> QED BY <1>5, <3>2, <4>1
    <3> QED BY <3>1, <3>2
  <2> QED BY <2>1
<1>7. F = Body(F)
  <2> HIDE DEF Body
  <2> QED BY <1>6
<1>8. Selected(s, K) = F[n]
  BY DEF Selected
<1>9. PICK h : h = F
  OBVIOUS
<1> HIDE DEF F
<1>10. h = Body(h)
  BY <1>7, <1>9
<1>11. h[0] = << >>
  BY <1>1, <1>10
<1>12. ASSUME NEW k \in 1..n PROVE h[k] = Step(k, h[k - 1])
  <2>1. k \in 0..n /\ k # 0
    OBVIOUS
  <2> QED BY <1>10, <2>1
<1> QED BY <1>8, <1>9, <1>11, <1>12

\* r holds elements of s at positions of K only, and each position has its own
\* place in r.
Selects(r, s, K) ==
  /\ \A x \in DOMAIN r : \E i \in K : r[x] = s[i]
  /\ \A i \in K : \E x \in DOMAIN r : r[x] = s[i]
  /\ \A i, j \in K : i # j => \E x, y \in DOMAIN r : x # y /\ r[x] = s[i] /\ r[y] = s[j]

\* One more element.
LEMMA SelectsMore ==
  ASSUME NEW S, NEW q \in Seq(S), NEW s, NEW K, Selects(q, s, K), NEW m, s[m] \in S, m \notin K
  PROVE  Selects(Append(q, s[m]), s, K \cup {m})
<1>1. PICK r : r = Append(q, s[m])
  OBVIOUS
<1>2. /\ r \in Seq(S) /\ Len(r) = Len(q) + 1 /\ Len(q) \in Nat /\ r[Len(q) + 1] = s[m]
      /\ \A i \in 1..Len(q) : r[i] = q[i]
  BY <1>1
<1>3. DOMAIN q = 1..Len(q) /\ DOMAIN r = 1..(Len(q) + 1)
  BY <1>2
<1>4. PICK l : l = Len(q) + 1
  OBVIOUS
<1>5. /\ l \in DOMAIN r /\ l \notin DOMAIN q /\ r[l] = s[m]
      /\ \A x \in DOMAIN q : x \in DOMAIN r /\ r[x] = q[x]
      /\ \A x \in DOMAIN r : x \in DOMAIN q \/ x = l
  BY <1>2, <1>3, <1>4
<1>6. ASSUME NEW x \in DOMAIN r PROVE \E i \in K \cup {m} : r[x] = s[i]
  BY <1>5 DEF Selects
<1>7. ASSUME NEW i \in K \cup {m} PROVE \E x \in DOMAIN r : r[x] = s[i]
  BY <1>5 DEF Selects
<1>8. ASSUME NEW i \in K \cup {m}, NEW j \in K \cup {m}, i # j
      PROVE  \E x, y \in DOMAIN r : x # y /\ r[x] = s[i] /\ r[y] = s[j]
  <2>1. CASE i \in K /\ j \in K
    <3>1. PICK x \in DOMAIN q, y \in DOMAIN q : x # y /\ q[x] = s[i] /\ q[y] = s[j]
      BY <1>8, <2>1 DEF Selects
    <3> QED BY <1>5, <3>1
  <2>2. CASE i \in K /\ j = m
    <3>1. PICK x \in DOMAIN q : q[x] = s[i]
      BY <2>2 DEF Selects
    <3> QED BY <1>5, <2>2, <3>1
  <2>3. CASE i = m /\ j \in K
    <3>1. PICK x \in DOMAIN q : q[x] = s[j]
      BY <2>3 DEF Selects
    <3> QED BY <1>5, <2>3, <3>1
  <2> QED BY <1>8, <2>1, <2>2, <2>3
<1>9. Selects(r, s, K \cup {m})
  BY <1>6, <1>7, <1>8 DEF Selects
<1> QED BY <1>1, <1>9

\* What Selected computes.
LEMMA SelectedFacts ==
  ASSUME NEW S, NEW s \in Seq(S), NEW K \in SUBSET (DOMAIN s)
  PROVE  Selected(s, K) \in Seq(S) /\ Selects(Selected(s, K), s, K)
<1> DEFINE n == Len(s)
           Upto(k) == {i \in K : i <= k}
<1>1. PICK out : /\ out[0] = << >> /\ Selected(s, K) = out[Len(s)]
                 /\ \A k \in 1..Len(s) :
                      out[k] = IF k \in K THEN Append(out[k - 1], s[k]) ELSE out[k - 1]
  BY SelectedSteps
<1>2. n \in Nat /\ DOMAIN s = 1..n /\ (\A k \in 1..n : s[k] \in S) /\ K \subseteq 1..n
  OBVIOUS
<1> DEFINE G == {k \in Nat : k <= n => out[k] \in Seq(S) /\ Selects(out[k], s, Upto(k))}
<1>3. 0 \in G
  <2>1. Upto(0) = {} /\ << >> \in Seq(S) /\ DOMAIN << >> = {}
    BY <1>2
  <2>2. Selects(<< >>, s, {})
    BY <2>1 DEF Selects
  <2> QED BY <1>1, <2>1, <2>2
<1>4. ASSUME NEW k \in Nat, k \in G PROVE k + 1 \in G
  <2> SUFFICES ASSUME k + 1 <= n PROVE out[k + 1] \in Seq(S) /\ Selects(out[k + 1], s, Upto(k + 1))
    OBVIOUS
  <2>1. k + 1 \in 1..n /\ out[k] \in Seq(S) /\ Selects(out[k], s, Upto(k)) /\ (k + 1) - 1 = k
    BY <1>2, <1>4
  <2>2. PICK m : m = k + 1
    OBVIOUS
  <2>3. m \in 1..n /\ m - 1 = k /\ s[m] \in S
    BY <1>2, <2>1, <2>2
  <2>4. out[m] = IF m \in K THEN Append(out[k], s[m]) ELSE out[k]
    BY <1>1, <2>3
  <2>5. m \notin Upto(k) /\ (m \in K => Upto(m) = Upto(k) \cup {m}) /\ (m \notin K => Upto(m) = Upto(k))
    BY <1>2, <2>2
  <2> HIDE DEF Upto
  <2>6. CASE m \in K
    <3>1. Append(out[k], s[m]) \in Seq(S)
      BY <2>1, <2>3
    <3>2. Selects(Append(out[k], s[m]), s, Upto(k) \cup {m})
      BY <2>1, <2>3, <2>5, SelectsMore
    <3> QED BY <2>2, <2>4, <2>5, <2>6, <3>1, <3>2
  <2>7. CASE m \notin K
    BY <2>1, <2>2, <2>4, <2>5, <2>7
  <2> QED BY <2>6, <2>7
<1>5. n \in G
  <2> HIDE DEF G, n
  <2> QED BY <1>2, <1>3, <1>4, SetInduction
<1>6. out[n] \in Seq(S) /\ Selects(out[n], s, Upto(n))
  BY <1>2, <1>5
<1>7. Upto(n) = K
  BY <1>2
<1> HIDE DEF Upto
<1> QED BY <1>1, <1>6, <1>7

\* Nodes whose values are in V.
NodeDocs(V) == [id : V, type : V, remove : BOOLEAN, wipe : BOOLEAN, retry : V, cfg : [Fields -> V]]

\* What an overlay entry makes of a field.
LEMMA OverFacts ==
  ASSUME NEW V, "absent" \in V, NEW b \in V, NEW o \in V
  PROVE  /\ Over(b, o) \in V
         /\ o = "null" => Over(b, o) = "absent"
         /\ o = "absent" => Over(b, o) = b
         /\ o \notin {"null", "absent"} => Over(b, o) = o
BY DEF Over

\* Merging configs.
LEMMA MergeCfgFacts ==
  ASSUME NEW V, "absent" \in V, NEW b \in [Fields -> V], NEW o \in [Fields -> V]
  PROVE  /\ deepMerge(b, o) \in [Fields -> V]
         /\ \A f \in Fields : deepMerge(b, o)[f] = Over(b[f], o[f])
<1>1. \A f \in Fields : Over(b[f], o[f]) \in V
  BY OverFacts
<1> QED BY <1>1 DEF deepMerge

\* Nothing is a config.
LEMMA NoCfgFacts ==
  ASSUME NEW V, "absent" \in V
  PROVE  NoCfg \in [Fields -> V] /\ \A f \in Fields : NoCfg[f] = "absent"
BY DEF NoCfg

\* Merging nodes.
LEMMA MergeNodeFacts ==
  ASSUME NEW V, "absent" \in V, NEW n \in NodeDocs(V), NEW o \in NodeDocs(V)
  PROVE  /\ mergeNode(n, o) \in NodeDocs(V) /\ mergeNode(n, o).id = n.id
         /\ mergeNode(n, o).cfg = IF o.wipe THEN NoCfg ELSE deepMerge(n.cfg, o.cfg)
<1>1. PICK t : t = IF o.type = "" THEN n.type ELSE o.type
  OBVIOUS
<1>2. PICK r : r = Over(n.retry, o.retry)
  OBVIOUS
<1>3. PICK c : c = IF o.wipe THEN NoCfg ELSE deepMerge(n.cfg, o.cfg)
  OBVIOUS
<1>4. mergeNode(n, o) = [n EXCEPT !.type = t, !.retry = r, !.cfg = c]
  BY <1>1, <1>2, <1>3 DEF mergeNode
<1>5. t \in V
  BY <1>1 DEF NodeDocs
<1>6. r \in V
  BY <1>2, OverFacts DEF NodeDocs
<1>7. c \in [Fields -> V]
  BY <1>3, MergeCfgFacts, NoCfgFacts DEF NodeDocs
<1>8. /\ [n EXCEPT !.type = t, !.retry = r, !.cfg = c] \in NodeDocs(V)
      /\ [n EXCEPT !.type = t, !.retry = r, !.cfg = c].id = n.id
      /\ [n EXCEPT !.type = t, !.retry = r, !.cfg = c].cfg = c
  BY <1>5, <1>6, <1>7 DEF NodeDocs
<1> QED BY <1>3, <1>4, <1>8

\* What Patched does with each entry of the overlay.
LEMMA PatchedSteps ==
  ASSUME NEW V, "absent" \in V, NEW node \in NodeDocs(V), NEW overlay \in Seq(NodeDocs(V))
  PROVE  \E merged : /\ merged[0] = node /\ Patched(node, overlay) = merged[Len(overlay)]
                     /\ \A k \in 1..Len(overlay) :
                          merged[k] = IF overlay[k].id # node.id \/ overlay[k].remove THEN merged[k - 1]
                                      ELSE mergeNode(merged[k - 1], overlay[k])
<1> DEFINE n == Len(overlay)
           Q == NodeDocs(V)
           Step(k, q) == IF overlay[k].id # node.id \/ overlay[k].remove THEN q ELSE mergeNode(q, overlay[k])
           g == [x \in (1..n) \X Q |-> Step(x[1], x[2])]
           Body(F) == [k \in 0..n |-> IF k = 0 THEN node
                                      ELSE IF overlay[k].id # node.id \/ overlay[k].remove THEN F[k - 1]
                                      ELSE mergeNode(F[k - 1], overlay[k])]
           F == CHOOSE F : F = Body(F)
<1>1. n \in Nat /\ node \in Q /\ \A k \in 1..n, q \in Q : Step(k, q) \in Q
  <2>1. \A k \in 1..n : overlay[k] \in NodeDocs(V)
    OBVIOUS
  <2>2. ASSUME NEW k \in 1..n, NEW q \in Q PROVE Step(k, q) \in Q
    <3>1. mergeNode(q, overlay[k]) \in NodeDocs(V)
      <4> HIDE DEF n
      <4> QED BY <2>1, MergeNodeFacts
    <3> QED BY <3>1
  <2>3. n \in Nat
    OBVIOUS
  <2> HIDE DEF Step, n, Q
  <2> QED BY <2>2, <2>3 DEF Q
<1>2. g \in [(1..n) \X Q -> Q] /\ \A k \in 1..n, q \in Q : g[<<k, q>>] = Step(k, q)
  <2> HIDE DEF Step, n, Q
  <2> QED BY <1>1
<1>3. \E f : Iterates(f, Q, n, node, g)
  <2> HIDE DEF n, Q, g
  <2> QED BY <1>1, <1>2, Recursion
<1>4. PICK f \in [0..n -> Q] : f[0] = node /\ \A k \in 1..n : f[k] = g[<<k, f[k - 1]>>]
  <2> HIDE DEF n, Q, g
  <2> QED BY <1>3 DEF Iterates
<1>5. ASSUME NEW k \in 1..n PROVE f[k] = Step(k, f[k - 1])
  <2>1. f[k - 1] \in Q
    BY <1>1
  <2> HIDE DEF Step, n, Q, g
  <2> QED BY <1>2, <1>4, <2>1
<1>6. f = Body(f)
  <2>1. ASSUME NEW k \in 0..n PROVE f[k] = Body(f)[k]
    <3>1. CASE k = 0
      BY <1>4, <3>1
    <3>2. CASE k # 0
      <4>1. k \in 1..n
        BY <3>2
      <4> QED BY <1>5, <3>2, <4>1
    <3> QED BY <3>1, <3>2
  <2> QED BY <2>1
<1>7. F = Body(F)
  <2> HIDE DEF Body
  <2> QED BY <1>6
<1>8. Patched(node, overlay) = F[n]
  BY DEF Patched
<1>9. PICK h : h = F
  OBVIOUS
<1> HIDE DEF F
<1>10. h = Body(h)
  BY <1>7, <1>9
<1>11. h[0] = node
  BY <1>1, <1>10
<1>12. ASSUME NEW k \in 1..n PROVE h[k] = Step(k, h[k - 1])
  <2>1. k \in 0..n /\ k # 0
    OBVIOUS
  <2> QED BY <1>10, <2>1
<1> QED BY <1>8, <1>9, <1>11, <1>12

\* What overlayPrompts does with each entry of the overlay.
LEMMA OverlayPromptsSteps ==
  ASSUME NEW V, "absent" \in V, NEW overlay \in Seq(NodeDocs(V)), NEW id
  PROVE  \E cfg : /\ cfg[0] = NoCfg /\ overlayPrompts(overlay, id) = cfg[Len(overlay)]
                  /\ \A k \in 1..Len(overlay) :
                       cfg[k] = IF overlay[k].id = id THEN deepMerge(cfg[k - 1], overlay[k].cfg)
                                ELSE cfg[k - 1]
<1> DEFINE n == Len(overlay)
           Q == [Fields -> V]
           Step(k, q) == IF overlay[k].id = id THEN deepMerge(q, overlay[k].cfg) ELSE q
           g == [x \in (1..n) \X Q |-> Step(x[1], x[2])]
           Body(F) == [k \in 0..n |-> IF k = 0 THEN NoCfg
                                      ELSE IF overlay[k].id = id THEN deepMerge(F[k - 1], overlay[k].cfg)
                                      ELSE F[k - 1]]
           F == CHOOSE F : F = Body(F)
<1>1. n \in Nat /\ NoCfg \in Q /\ \A k \in 1..n, q \in Q : Step(k, q) \in Q
  <2>1. \A k \in 1..n : overlay[k] \in NodeDocs(V)
    OBVIOUS
  <2>2. \A k \in 1..n : overlay[k].cfg \in [Fields -> V]
    BY <2>1 DEF NodeDocs
  <2> QED BY <2>2, MergeCfgFacts, NoCfgFacts
<1>2. g \in [(1..n) \X Q -> Q] /\ \A k \in 1..n, q \in Q : g[<<k, q>>] = Step(k, q)
  <2> HIDE DEF Step, n, Q
  <2> QED BY <1>1
<1>3. \E f : Iterates(f, Q, n, NoCfg, g)
  <2> HIDE DEF n, Q, g
  <2> QED BY <1>1, <1>2, Recursion
<1>4. PICK f \in [0..n -> Q] : f[0] = NoCfg /\ \A k \in 1..n : f[k] = g[<<k, f[k - 1]>>]
  <2> HIDE DEF n, Q, g
  <2> QED BY <1>3 DEF Iterates
<1>5. ASSUME NEW k \in 1..n PROVE f[k] = Step(k, f[k - 1])
  <2>1. f[k - 1] \in Q
    BY <1>1
  <2> HIDE DEF Step, n, Q, g
  <2> QED BY <1>2, <1>4, <2>1
<1>6. f = Body(f)
  <2>1. ASSUME NEW k \in 0..n PROVE f[k] = Body(f)[k]
    <3>1. CASE k = 0
      BY <1>4, <3>1
    <3>2. CASE k # 0
      <4>1. k \in 1..n
        BY <3>2
      <4> QED BY <1>5, <3>2, <4>1
    <3> QED BY <3>1, <3>2
  <2> QED BY <2>1
<1>7. F = Body(F)
  <2> HIDE DEF Body
  <2> QED BY <1>6
<1>8. overlayPrompts(overlay, id) = F[n]
  BY DEF overlayPrompts
<1>9. PICK h : h = F
  OBVIOUS
<1> HIDE DEF F
<1>10. h = Body(h)
  BY <1>7, <1>9
<1>11. h[0] = NoCfg
  BY <1>1, <1>10
<1>12. ASSUME NEW k \in 1..n PROVE h[k] = Step(k, h[k - 1])
  <2>1. k \in 0..n /\ k # 0
    OBVIOUS
  <2> QED BY <1>10, <2>1
<1> QED BY <1>8, <1>9, <1>11, <1>12

-----------------------------------------------------------------------------
(* Ownership.  A merged config is followed through the overlay's entries,   *)
(* side by side with what the overlay alone says.                           *)

\* A config whose prompts were written in file own.
OwnCfg(o, own) == \A p \in {"fixed", "flex", "legacy"} : o[p] \in Words \cup {own}

\* What the merged config c of an agent has to do with d, what its overlay says
\* of the agent: where the overlay says something, c says the same, or it lost
\* it to a wipe, after which it holds nothing of the base.
Follows(c, d, own, wiped) ==
  /\ OwnCfg(d, own) /\ d["fixed"] # "null" /\ d["flex"] # "null"
  /\ d["fixed"] # "absent" => c["fixed"] = d["fixed"] \/ (c["fixed"] = "absent" /\ c["legacy"] \in Words \cup {own})
  /\ d["flex"] # "absent" => c["flex"] = d["flex"] \/ (c["flex"] = "absent" /\ wiped)

\* An entry with a config.
LEMMA FollowsMerge ==
  ASSUME NEW V, "absent" \in V, NEW c \in [Fields -> V], NEW d \in [Fields -> V], NEW o \in [Fields -> V],
         NEW own, own # "null", NEW wiped, Follows(c, d, own, wiped), OwnCfg(o, own)
  PROVE  Follows(deepMerge(c, o), deepMerge(d, o), own, wiped)
<1>1. {"fixed", "flex", "legacy"} \subseteq Fields
  BY DEF Fields
<1>2. PICK c2 : c2 = deepMerge(c, o)
  OBVIOUS
<1>3. PICK d2 : d2 = deepMerge(d, o)
  OBVIOUS
<1>4. \A f \in Fields : c2[f] = Over(c[f], o[f]) /\ d2[f] = Over(d[f], o[f])
  BY <1>2, <1>3, MergeCfgFacts
<1>5. ASSUME NEW p \in {"fixed", "flex", "legacy"}
      PROVE  /\ o[p] = "null" => c2[p] = "absent" /\ d2[p] = "absent"
             /\ o[p] = "absent" => c2[p] = c[p] /\ d2[p] = d[p]
             /\ o[p] \notin {"null", "absent"} => c2[p] = o[p] /\ d2[p] = o[p]
  <2>1. p \in Fields
    BY <1>1
  <2>2. c[p] \in V /\ d[p] \in V /\ o[p] \in V
    BY <2>1
  <2>3. c2[p] = Over(c[p], o[p]) /\ d2[p] = Over(d[p], o[p])
    BY <1>4, <2>1
  <2> QED BY <2>2, <2>3, OverFacts
<1>6. OwnCfg(d2, own) /\ d2["fixed"] # "null" /\ d2["flex"] # "null"
  <2>1. ASSUME NEW p \in {"fixed", "flex", "legacy"} PROVE d2[p] \in Words \cup {own}
    BY <1>5 DEF OwnCfg, Follows, Words
  <2>2. ASSUME NEW p \in {"fixed", "flex"} PROVE d2[p] # "null"
    BY <1>5 DEF Follows
  <2> QED BY <2>1, <2>2 DEF OwnCfg
<1>7. ASSUME d2["fixed"] # "absent"
      PROVE  c2["fixed"] = d2["fixed"] \/ (c2["fixed"] = "absent" /\ c2["legacy"] \in Words \cup {own})
  <2>1. c2["legacy"] = c["legacy"] \/ c2["legacy"] \in Words \cup {own}
    BY <1>5 DEF OwnCfg, Words
  <2> QED BY <1>5, <1>7, <2>1 DEF Follows
<1>8. ASSUME d2["flex"] # "absent"
      PROVE  c2["flex"] = d2["flex"] \/ (c2["flex"] = "absent" /\ wiped)
  BY <1>5, <1>8 DEF Follows
<1> QED BY <1>2, <1>3, <1>6, <1>7, <1>8 DEF Follows

\* An entry that wipes the config.
LEMMA FollowsWipe ==
  ASSUME NEW V, "absent" \in V, NEW c \in [Fields -> V], NEW d \in [Fields -> V],
         NEW own, NEW wiped, Follows(c, d, own, wiped)
  PROVE  Follows(NoCfg, deepMerge(d, NoCfg), own, TRUE)
<1>1. {"fixed", "flex", "legacy"} \subseteq Fields
  BY DEF Fields
<1>2. PICK d2 : d2 = deepMerge(d, NoCfg)
  OBVIOUS
<1>3. NoCfg \in [Fields -> V] /\ \A f \in Fields : NoCfg[f] = "absent"
  BY NoCfgFacts
<1>4. ASSUME NEW f \in Fields PROVE d2[f] = d[f]
  <2>1. d2[f] = Over(d[f], "absent") /\ d[f] \in V
    BY <1>2, <1>3, MergeCfgFacts
  <2> QED BY <2>1, OverFacts
<1>5. /\ d2["fixed"] = d["fixed"] /\ d2["flex"] = d["flex"] /\ d2["legacy"] = d["legacy"]
      /\ NoCfg["fixed"] = "absent" /\ NoCfg["flex"] = "absent" /\ NoCfg["legacy"] = "absent"
  BY <1>1, <1>3, <1>4
<1>6. Follows(NoCfg, d2, own, TRUE)
  BY <1>5 DEF Follows, OwnCfg, Words
<1> QED BY <1>2, <1>6

\* The entries of an overlay that an author wrote in file own.
OwnEntries(overlay, own) ==
  \A k \in 1..Len(overlay) :
    OwnCfg(overlay[k].cfg, own) /\ (overlay[k].wipe => overlay[k].cfg = NoCfg)

\* The merged config of a base node that the overlay does not remove follows
\* what the overlay says of it.
LEMMA PatchedFollows ==
  ASSUME NEW V, "absent" \in V, NEW node \in NodeDocs(V), NEW overlay \in Seq(NodeDocs(V)),
         NEW own, own # "null", OwnEntries(overlay, own),
         \A k \in 1..Len(overlay) : overlay[k].id = node.id => ~overlay[k].remove
  PROVE  /\ Patched(node, overlay) \in NodeDocs(V) /\ Patched(node, overlay).id = node.id
         /\ Follows(Patched(node, overlay).cfg, overlayPrompts(overlay, node.id), own,
                    \E k \in 1..Len(overlay) : overlay[k].id = node.id /\ overlay[k].wipe)
<1> DEFINE n == Len(overlay)
           wiped == \E k \in 1..n : overlay[k].id = node.id /\ overlay[k].wipe
           Good(m, d) == /\ m \in NodeDocs(V) /\ m.id = node.id /\ d \in [Fields -> V]
                         /\ Follows(m.cfg, d, own, wiped)
<1>1. PICK merged : /\ merged[0] = node /\ Patched(node, overlay) = merged[Len(overlay)]
                    /\ \A k \in 1..Len(overlay) :
                         merged[k] = IF overlay[k].id # node.id \/ overlay[k].remove THEN merged[k - 1]
                                     ELSE mergeNode(merged[k - 1], overlay[k])
  BY PatchedSteps
<1>2. PICK cfg : /\ cfg[0] = NoCfg /\ overlayPrompts(overlay, node.id) = cfg[Len(overlay)]
                 /\ \A k \in 1..Len(overlay) :
                      cfg[k] = IF overlay[k].id = node.id THEN deepMerge(cfg[k - 1], overlay[k].cfg)
                               ELSE cfg[k - 1]
  BY OverlayPromptsSteps
<1>3. n \in Nat /\ \A k \in 1..n : overlay[k] \in NodeDocs(V)
  OBVIOUS
<1> DEFINE G == {k \in Nat : k <= n => Good(merged[k], cfg[k])}
<1>4. 0 \in G
  <2>1. {"fixed", "flex", "legacy"} \subseteq Fields
    BY DEF Fields
  <2>2. NoCfg \in [Fields -> V] /\ \A f \in Fields : NoCfg[f] = "absent"
    BY NoCfgFacts
  <2>3. NoCfg["fixed"] = "absent" /\ NoCfg["flex"] = "absent" /\ NoCfg["legacy"] = "absent"
    BY <2>1, <2>2
  <2>4. Follows(node.cfg, NoCfg, own, wiped)
    BY <2>3 DEF Follows, OwnCfg, Words
  <2> HIDE DEF wiped
  <2> QED BY <1>1, <1>2, <2>2, <2>4
<1>5. ASSUME NEW k \in Nat, k \in G PROVE k + 1 \in G
  <2> SUFFICES ASSUME k + 1 <= n PROVE Good(merged[k + 1], cfg[k + 1])
    <3> HIDE DEF Good
    <3> QED OBVIOUS
  <2>1. k + 1 \in 1..n /\ (k + 1) - 1 = k /\ Good(merged[k], cfg[k])
    <3> HIDE DEF Good
    <3> QED BY <1>3, <1>5
  <2>2. PICK o : o = overlay[k + 1]
    OBVIOUS
  <2>3. PICK m : m = merged[k]
    OBVIOUS
  <2>4. PICK d : d = cfg[k]
    OBVIOUS
  <2>5. /\ merged[k + 1] = IF o.id # node.id \/ o.remove THEN m ELSE mergeNode(m, o)
        /\ cfg[k + 1] = IF o.id = node.id THEN deepMerge(d, o.cfg) ELSE d
    BY <1>1, <1>2, <2>1, <2>2, <2>3, <2>4
  <2>6. /\ Good(m, d) /\ o \in NodeDocs(V) /\ (o.id = node.id => ~o.remove)
        /\ (o.id = node.id /\ o.wipe => wiped)
        /\ OwnCfg(o.cfg, own) /\ (o.wipe => o.cfg = NoCfg)
    BY <1>3, <2>1, <2>2, <2>3, <2>4 DEF OwnEntries
  <2>7. CASE o.id # node.id
    BY <2>5, <2>6, <2>7
  <2> HIDE DEF wiped
  <2>8. CASE o.id = node.id
    <3>1. merged[k + 1] = mergeNode(m, o) /\ cfg[k + 1] = deepMerge(d, o.cfg)
      BY <2>5, <2>6, <2>8
    <3>2. /\ mergeNode(m, o) \in NodeDocs(V) /\ mergeNode(m, o).id = m.id
          /\ mergeNode(m, o).cfg = IF o.wipe THEN NoCfg ELSE deepMerge(m.cfg, o.cfg)
      BY <2>6, MergeNodeFacts
    <3>3. m.cfg \in [Fields -> V] /\ o.cfg \in [Fields -> V]
      BY <2>6 DEF NodeDocs
    <3>4. deepMerge(d, o.cfg) \in [Fields -> V]
      BY <2>6, <3>3, MergeCfgFacts
    <3>5. Follows(mergeNode(m, o).cfg, deepMerge(d, o.cfg), own, wiped)
      <4>1. CASE o.wipe
        <5>1. wiped
          BY <2>6, <2>8, <4>1
        <5>2. Follows(NoCfg, deepMerge(d, NoCfg), own, TRUE)
          BY <2>6, <3>3, FollowsWipe
        <5>3. Follows(NoCfg, deepMerge(d, NoCfg), own, wiped)
          BY <5>1, <5>2 DEF Follows
        <5> QED BY <2>6, <3>2, <4>1, <5>3
      <4>2. CASE ~o.wipe
        <5>1. Follows(deepMerge(m.cfg, o.cfg), deepMerge(d, o.cfg), own, wiped)
          BY <2>6, <3>3, FollowsMerge
        <5> QED BY <3>2, <4>2, <5>1
      <4> QED BY <4>1, <4>2
    <3> QED BY <2>6, <3>1, <3>2, <3>4, <3>5
  <2> QED BY <2>7, <2>8
<1>6. n \in G
  <2> HIDE DEF G, n
  <2> QED BY <1>3, <1>4, <1>5, SetInduction
<1>7. Good(merged[n], cfg[n])
  <2> HIDE DEF Good
  <2> QED BY <1>3, <1>6
<1> QED BY <1>1, <1>2, <1>7

\* A patched node is a node with the same id.
LEMMA PatchedTyped ==
  ASSUME NEW V, "absent" \in V, NEW node \in NodeDocs(V), NEW overlay \in Seq(NodeDocs(V))
  PROVE  Patched(node, overlay) \in NodeDocs(V) /\ Patched(node, overlay).id = node.id
<1> DEFINE n == Len(overlay)
           Good(m) == m \in NodeDocs(V) /\ m.id = node.id
<1>1. PICK merged : /\ merged[0] = node /\ Patched(node, overlay) = merged[Len(overlay)]
                    /\ \A k \in 1..Len(overlay) :
                         merged[k] = IF overlay[k].id # node.id \/ overlay[k].remove THEN merged[k - 1]
                                     ELSE mergeNode(merged[k - 1], overlay[k])
  BY PatchedSteps
<1>2. n \in Nat /\ \A k \in 1..n : overlay[k] \in NodeDocs(V)
  OBVIOUS
<1> DEFINE G == {k \in Nat : k <= n => Good(merged[k])}
<1>3. 0 \in G
  BY <1>1
<1>4. ASSUME NEW k \in Nat, k \in G PROVE k + 1 \in G
  <2> SUFFICES ASSUME k + 1 <= n PROVE Good(merged[k + 1])
    <3> HIDE DEF Good
    <3> QED OBVIOUS
  <2>1. k + 1 \in 1..n /\ (k + 1) - 1 = k /\ Good(merged[k])
    <3> HIDE DEF Good
    <3> QED BY <1>2, <1>4
  <2>2. PICK o : o = overlay[k + 1]
    OBVIOUS
  <2>3. PICK m : m = merged[k]
    OBVIOUS
  <2>4. merged[k + 1] = IF o.id # node.id \/ o.remove THEN m ELSE mergeNode(m, o)
    BY <1>1, <2>1, <2>2, <2>3
  <2>5. m \in NodeDocs(V) /\ m.id = node.id /\ o \in NodeDocs(V)
    BY <1>2, <2>1, <2>2, <2>3
  <2>6. mergeNode(m, o) \in NodeDocs(V) /\ mergeNode(m, o).id = m.id
    BY <2>5, MergeNodeFacts
  <2> QED BY <2>4, <2>5, <2>6
<1>5. n \in G
  <2> HIDE DEF G, n
  <2> QED BY <1>2, <1>3, <1>4, SetInduction
<1>6. Good(merged[n])
  <2> HIDE DEF Good
  <2> QED BY <1>2, <1>5
<1> QED BY <1>1, <1>6

\* One of the overlay's entries for node id has v in field p.
Says(overlay, id, p, v) == \E k \in 1..Len(overlay) : overlay[k].id = id /\ v = overlay[k].cfg[p]

\* What the overlay says of a node is what one of its entries for it says.
LEMMA OverlaySays ==
  ASSUME NEW V, "absent" \in V, NEW overlay \in Seq(NodeDocs(V)), NEW id, NEW p \in Fields,
         overlayPrompts(overlay, id)[p] # "absent"
  PROVE  Says(overlay, id, p, overlayPrompts(overlay, id)[p])
<1> DEFINE n == Len(overlay)
           Said(v) == \E k \in 1..n : overlay[k].id = id /\ v = overlay[k].cfg[p]
           Good(d) == d \in [Fields -> V] /\ (d[p] # "absent" => Said(d[p]))
<1>1. PICK cfg : /\ cfg[0] = NoCfg /\ overlayPrompts(overlay, id) = cfg[Len(overlay)]
                 /\ \A k \in 1..Len(overlay) :
                      cfg[k] = IF overlay[k].id = id THEN deepMerge(cfg[k - 1], overlay[k].cfg)
                               ELSE cfg[k - 1]
  BY OverlayPromptsSteps
<1>2. n \in Nat /\ \A k \in 1..n : overlay[k] \in NodeDocs(V)
  OBVIOUS
<1> DEFINE G == {k \in Nat : k <= n => Good(cfg[k])}
<1>3. 0 \in G
  <2> HIDE DEF Said
  <2> QED BY <1>1, NoCfgFacts
<1>4. ASSUME NEW k \in Nat, k \in G PROVE k + 1 \in G
  <2> SUFFICES ASSUME k + 1 <= n PROVE Good(cfg[k + 1])
    <3> HIDE DEF Good
    <3> QED OBVIOUS
  <2>1. k + 1 \in 1..n /\ (k + 1) - 1 = k /\ Good(cfg[k])
    <3> HIDE DEF Good
    <3> QED BY <1>2, <1>4
  <2>2. PICK o : o = overlay[k + 1]
    OBVIOUS
  <2>3. PICK d : d = cfg[k]
    OBVIOUS
  <2>4. cfg[k + 1] = IF o.id = id THEN deepMerge(d, o.cfg) ELSE d
    BY <1>1, <2>1, <2>2, <2>3
  <2>5. Good(d) /\ o \in NodeDocs(V) /\ (o.id = id => Said(o.cfg[p]))
    BY <1>2, <2>1, <2>2, <2>3
  <2> HIDE DEF Said
  <2>6. o.cfg \in [Fields -> V] /\ o.cfg[p] \in V /\ d[p] \in V
    BY <2>5 DEF NodeDocs
  <2>7. deepMerge(d, o.cfg) \in [Fields -> V] /\ deepMerge(d, o.cfg)[p] = Over(d[p], o.cfg[p])
    BY <2>5, <2>6, MergeCfgFacts
  <2>8. /\ o.cfg[p] = "null" => Over(d[p], o.cfg[p]) = "absent"
        /\ o.cfg[p] = "absent" => Over(d[p], o.cfg[p]) = d[p]
        /\ o.cfg[p] \notin {"null", "absent"} => Over(d[p], o.cfg[p]) = o.cfg[p]
    BY <2>6, OverFacts
  <2>9. CASE o.id = id
    BY <2>4, <2>5, <2>7, <2>8, <2>9
  <2>10. CASE o.id # id
    BY <2>4, <2>5, <2>10
  <2> QED BY <2>9, <2>10
<1>5. n \in G
  <2> HIDE DEF G, n
  <2> QED BY <1>2, <1>3, <1>4, SetInduction
<1>6. Good(cfg[n])
  <2> HIDE DEF Good
  <2> QED BY <1>2, <1>5
<1> QED BY <1>1, <1>6 DEF Says

\* As many ids as nodes: no id is repeated.
LEMMA IdsDistinct ==
  ASSUME NEW S, NEW M \in Seq(S), Cardinality(Ids(M)) = Len(M)
  PROVE  \A x, y \in DOMAIN M : M[x].id = M[y].id => x = y
<1>1. DOMAIN M = 1..Len(M) /\ Len(M) \in Nat
  OBVIOUS
<1>2. PICK D : D = DOMAIN M
  OBVIOUS
<1>3. PICK T : T = Ids(M)
  OBVIOUS
<1>4. PICK g : g = [x \in D |-> M[x].id]
  OBVIOUS
<1>5. \A t : t \in T <=> \E x \in D : t = M[x].id
  BY <1>2, <1>3 DEF Ids
<1>6. g \in Surjection(D, T)
  BY <1>4, <1>5 DEF Surjection
<1>7. IsFiniteSet(D) /\ Cardinality(D) = Len(M)
  <2>1. PICK k : k = Len(M)
    OBVIOUS
  <2>2. 1 \in Int /\ k \in Int /\ k \in Nat
    BY <1>1, <2>1
  <2>3. IsFiniteSet(1..k) /\ Cardinality(1..k) = IF 1 > k THEN 0 ELSE k - 1 + 1
    BY <2>2, FS_Interval
  <2>4. Cardinality(1..k) = k
    BY <2>2, <2>3
  <2> QED BY <1>1, <1>2, <2>1, <2>3, <2>4
<1>8. g \in Injection(D, T)
  BY <1>3, <1>6, <1>7, FS_SurjSameCardinalityImpliesInj
<1>9. \A x, y \in D : g[x] = g[y] => x = y
  BY <1>4, <1>8 DEF Injection, IsInjective
<1> QED BY <1>2, <1>4, <1>9

\* Where the parts of a concatenation are.
Joins(c, a, b) ==
  /\ DOMAIN a \subseteq DOMAIN c
  /\ \A x \in DOMAIN a : c[x] = a[x]
  /\ \A x \in DOMAIN b : Len(a) + x \in DOMAIN c /\ c[Len(a) + x] = b[x]
  /\ \A x, y \in DOMAIN b : x # y => Len(a) + x # Len(a) + y
  /\ ToSet(c) \subseteq ToSet(a) \cup ToSet(b)

\* A concatenation joins its parts.
LEMMA ConcatParts ==
  ASSUME NEW S, NEW a \in Seq(S), NEW b \in Seq(S), NEW c, c = a \o b
  PROVE  c \in Seq(S) /\ Joins(c, a, b)
<1>1. /\ c \in Seq(S) /\ Len(a) \in Nat /\ Len(b) \in Nat /\ Len(c) = Len(a) + Len(b)
      /\ \A i \in 1..Len(a) : c[i] = a[i]
      /\ \A i \in 1..Len(b) : c[Len(a) + i] = b[i]
  OBVIOUS
<1>2. DOMAIN a = 1..Len(a) /\ DOMAIN b = 1..Len(b) /\ DOMAIN c = 1..(Len(a) + Len(b))
  BY <1>1
<1>3. /\ \A i \in 1..Len(a) : i \in 1..(Len(a) + Len(b))
      /\ \A i \in 1..Len(b) : Len(a) + i \in 1..(Len(a) + Len(b))
      /\ \A i, j \in 1..Len(b) : i # j => Len(a) + i # Len(a) + j
      /\ \A i \in 1..(Len(a) + Len(b)) : i \in 1..Len(a) \/ \E j \in 1..Len(b) : i = Len(a) + j
  <2>1. \A i \in 1..(Len(a) + Len(b)) :
          i \in 1..Len(a) \/ (i - Len(a) \in 1..Len(b) /\ i = Len(a) + (i - Len(a)))
    BY <1>1
  <2>2. \A i \in 1..(Len(a) + Len(b)) : i \in 1..Len(a) \/ \E j \in 1..Len(b) : i = Len(a) + j
    BY <2>1
  <2> QED BY <1>1, <2>2
<1>4. ASSUME NEW x \in ToSet(c) PROVE x \in ToSet(a) \cup ToSet(b)
  <2>1. PICK i \in 1..(Len(a) + Len(b)) : c[i] = x
    BY <1>2, <1>4 DEF ToSet
  <2>2. CASE i \in 1..Len(a)
    BY <1>1, <1>2, <2>1, <2>2 DEF ToSet
  <2>3. CASE \E j \in 1..Len(b) : i = Len(a) + j
    <3>1. PICK j \in 1..Len(b) : i = Len(a) + j
      BY <2>3
    <3>2. c[i] = b[j]
      BY <1>1, <3>1
    <3> QED BY <1>2, <2>1, <3>2 DEF ToSet
  <2> QED BY <1>3, <2>2, <2>3
<1> QED BY <1>1, <1>2, <1>3, <1>4 DEF Joins

\* The positions of a sequence.
LEMMA Positions ==
  ASSUME NEW S, NEW s \in Seq(S)
  PROVE  /\ Len(s) \in Nat /\ DOMAIN s = 1..Len(s) /\ \A i \in DOMAIN s : s[i] \in S
         /\ \A i, j \in DOMAIN s : j > i => i # j
OBVIOUS

\* What mergeNodes makes of base and overlay: a from the base's nodes, of which
\* it keeps K, and b from the overlay's, of which it adds L.
Parts(base, overlay, V, P, a, b, K, L) ==
  /\ P = PatchedNodes(base, overlay) /\ P \in Seq(NodeDocs(V)) /\ DOMAIN P = DOMAIN base
  /\ \A i \in DOMAIN base : P[i].id = base[i].id
  /\ K = {i \in DOMAIN base : base[i].id \notin Removed(overlay)}
  /\ L = {i \in DOMAIN overlay : ~overlay[i].remove /\ overlay[i].id \notin Ids(base)}
  /\ a \in Seq(NodeDocs(V)) /\ Selects(a, P, K)
  /\ b \in Seq(NodeDocs(V)) /\ Selects(b, overlay, L)
  /\ mergeNodes(base, overlay) = a \o b

\* What mergeNodes makes: its parts, each a selection.
LEMMA MergeNodesParts ==
  ASSUME NEW V, "absent" \in V, NEW base \in Seq(NodeDocs(V)), NEW overlay \in Seq(NodeDocs(V))
  PROVE  \E P, a, b, K, L : Parts(base, overlay, V, P, a, b, K, L)
<1>1. PICK P : P = PatchedNodes(base, overlay)
  OBVIOUS
<1>2. PICK K : K = {i \in DOMAIN base : base[i].id \notin Removed(overlay)}
  OBVIOUS
<1>3. PICK L : L = {i \in DOMAIN overlay : ~overlay[i].remove /\ overlay[i].id \notin Ids(base)}
  OBVIOUS
<1>4. PICK a : a = Selected(P, K)
  OBVIOUS
<1>5. PICK b : b = Selected(overlay, L)
  OBVIOUS
<1>6. DOMAIN base = 1..Len(base) /\ Len(base) \in Nat /\ \A i \in DOMAIN base : base[i] \in NodeDocs(V)
  OBVIOUS
<1>7. ASSUME NEW i \in DOMAIN base
      PROVE  P[i] = (IF Shadowed(base, i) THEN base[i] ELSE Patched(base[i], overlay))
             /\ P[i] \in NodeDocs(V) /\ P[i].id = base[i].id
  <2>1. P[i] = (IF Shadowed(base, i) THEN base[i] ELSE Patched(base[i], overlay))
    BY <1>1 DEF PatchedNodes
  <2>2. base[i] \in NodeDocs(V)
    BY <1>6
  <2>3. Patched(base[i], overlay) \in NodeDocs(V) /\ Patched(base[i], overlay).id = base[i].id
    BY <2>2, PatchedTyped
  <2> QED BY <2>1, <2>2, <2>3
<1>8. P \in [1..Len(base) -> NodeDocs(V)]
  <2>1. DOMAIN P = DOMAIN base /\ P = [i \in DOMAIN base |-> P[i]]
    BY <1>1 DEF PatchedNodes
  <2> QED BY <1>6, <1>7, <2>1
<1>9. P \in Seq(NodeDocs(V)) /\ DOMAIN P = DOMAIN base
  BY <1>6, <1>8
<1>10. K \in SUBSET (DOMAIN P) /\ L \in SUBSET (DOMAIN overlay)
  BY <1>2, <1>3, <1>9
<1>11. a \in Seq(NodeDocs(V)) /\ Selects(a, P, K)
  BY <1>4, <1>9, <1>10, SelectedFacts
<1>12. b \in Seq(NodeDocs(V)) /\ Selects(b, overlay, L)
  BY <1>5, <1>10, SelectedFacts
<1>13. mergeNodes(base, overlay) = a \o b
  BY <1>1, <1>2, <1>3, <1>4, <1>5 DEF mergeNodes
<1>14. Parts(base, overlay, V, P, a, b, K, L)
  BY <1>1, <1>2, <1>3, <1>7, <1>9, <1>11, <1>12, <1>13 DEF Parts
<1> QED BY <1>14

\* A node that only the overlay has: one entry says all there is of it.
LEMMA NewFollows ==
  ASSUME NEW V, "absent" \in V, NEW overlay \in Seq(NodeDocs(V)), NEW own, OwnEntries(overlay, own),
         NEW k \in 1..Len(overlay), NEW id,
         \A j \in 1..Len(overlay) : overlay[j].id = id => j = k,
         \A p \in {"fixed", "flex"} : Text(overlayPrompts(overlay, id)[p]) # "",
         NEW wiped
  PROVE  Follows(overlay[k].cfg, overlayPrompts(overlay, id), own, wiped)
<1>1. {"fixed", "flex", "legacy"} \subseteq Fields
  BY DEF Fields
<1>2. ASSUME NEW p \in Fields, overlayPrompts(overlay, id)[p] # "absent"
      PROVE  Says(overlay, id, p, overlayPrompts(overlay, id)[p])
  BY <1>2, OverlaySays
<1>3. PICK d : d = overlayPrompts(overlay, id)
  OBVIOUS
<1>4. PICK c : c = overlay[k].cfg
  OBVIOUS
<1>5. ASSUME NEW p \in {"fixed", "flex", "legacy"} PROVE d[p] = "absent" \/ d[p] = c[p]
  <2>1. p \in Fields
    BY <1>1
  <2>2. CASE d[p] # "absent"
    <3>1. PICK j \in 1..Len(overlay) : overlay[j].id = id /\ d[p] = overlay[j].cfg[p]
      <4>1. overlayPrompts(overlay, id)[p] # "absent"
        BY <1>3, <2>2
      <4> QED BY <1>3, <1>2, <2>1, <4>1 DEF Says
    <3> QED BY <1>4, <3>1
  <2> QED BY <2>2
<1>6. OwnCfg(c, own)
  BY <1>4 DEF OwnEntries
<1>7. \A p \in {"fixed", "flex"} : d[p] # "null" /\ d[p] # "absent"
  BY <1>3 DEF Text
<1>8. Follows(c, d, own, wiped)
  BY <1>5, <1>6, <1>7 DEF Follows, OwnCfg, Words
<1> QED BY <1>3, <1>4, <1>8

\* The config of every node of the merged document follows what the overlay
\* says of it, if the ids are distinct and the overlay says both prompts.
LEMMA DerivedFollows ==
  ASSUME NEW V, "absent" \in V, NEW base \in Seq(NodeDocs(V)), NEW overlay \in Seq(NodeDocs(V)),
         NEW own, own # "null", OwnEntries(overlay, own),
         Removed(overlay) \subseteq Ids(base),
         Cardinality(Ids(mergeNodes(base, overlay))) = Len(mergeNodes(base, overlay)),
         NEW n \in ToSet(mergeNodes(base, overlay)),
         \A p \in {"fixed", "flex"} : Text(overlayPrompts(overlay, n.id)[p]) # ""
  PROVE  Follows(n.cfg, overlayPrompts(overlay, n.id), own,
                 \E k \in 1..Len(overlay) : overlay[k].id = n.id /\ overlay[k].wipe)
<1>1. PICK P, a, b, K, L : Parts(base, overlay, V, P, a, b, K, L)
  BY MergeNodesParts
<1>2. PICK M : M = mergeNodes(base, overlay)
  OBVIOUS
<1>3. /\ a \in Seq(NodeDocs(V)) /\ b \in Seq(NodeDocs(V)) /\ M = a \o b
      /\ Cardinality(Ids(M)) = Len(M)
  BY <1>1, <1>2 DEF Parts
<1>4. DOMAIN P = DOMAIN base /\ \A i \in DOMAIN base : P[i].id = base[i].id
  BY <1>1 DEF Parts
<1>5. /\ K = {i \in DOMAIN base : base[i].id \notin Removed(overlay)}
      /\ L = {i \in DOMAIN overlay : ~overlay[i].remove /\ overlay[i].id \notin Ids(base)}
      /\ P = PatchedNodes(base, overlay)
  BY <1>1 DEF Parts
<1>6. /\ \A x \in DOMAIN a : \E i \in K : a[x] = P[i]
      /\ \A i, j \in K : i # j => \E x, y \in DOMAIN a : x # y /\ a[x] = P[i] /\ a[y] = P[j]
  BY <1>1 DEF Parts, Selects
<1>7. /\ \A x \in DOMAIN b : \E i \in L : b[x] = overlay[i]
      /\ \A i, j \in L : i # j => \E x, y \in DOMAIN b : x # y /\ b[x] = overlay[i] /\ b[y] = overlay[j]
  BY <1>1 DEF Parts, Selects
<1>8. \A i, j \in DOMAIN base : j > i => i # j
  BY Positions
<1>9. /\ M \in Seq(NodeDocs(V)) /\ DOMAIN a \subseteq DOMAIN M
      /\ \A x \in DOMAIN a : M[x] = a[x]
      /\ \A x \in DOMAIN b : Len(a) + x \in DOMAIN M /\ M[Len(a) + x] = b[x]
      /\ \A x, y \in DOMAIN b : x # y => Len(a) + x # Len(a) + y
      /\ ToSet(M) \subseteq ToSet(a) \cup ToSet(b)
  <2>1. PICK S : S = NodeDocs(V)
    OBVIOUS
  <2>2. a \in Seq(S) /\ b \in Seq(S) /\ M = a \o b
    BY <1>3, <2>1
  <2>3. M \in Seq(S) /\ Joins(M, a, b)
    BY <2>2, ConcatParts
  <2> QED BY <2>1, <2>3 DEF Joins
<1>10. \A x, y \in DOMAIN M : M[x].id = M[y].id => x = y
  BY <1>9, <1>3, IdsDistinct
<1>11. DOMAIN overlay = 1..Len(overlay) /\ \A i \in DOMAIN base : base[i] \in NodeDocs(V)
  BY Positions
<1>12. CASE n \in ToSet(a)
  <2>1. PICK x \in DOMAIN a : n = a[x]
    BY <1>12 DEF ToSet
  <2>2. PICK i \in K : n = P[i]
    BY <1>6, <2>1
  <2>3. i \in DOMAIN base /\ base[i].id \notin Removed(overlay) /\ n.id = base[i].id
    BY <1>4, <1>5, <2>2
  <2>4. ~Shadowed(base, i)
    <3> SUFFICES ASSUME Shadowed(base, i) PROVE FALSE
      OBVIOUS
    <3>1. PICK j \in DOMAIN base : j > i /\ base[j].id = base[i].id
      BY DEF Shadowed
    <3>2. i # j
      BY <1>8, <2>3, <3>1
    <3>3. j \in K /\ i # j
      BY <1>5, <2>3, <3>1, <3>2
    <3>4. PICK y, z \in DOMAIN a : y # z /\ a[y] = P[i] /\ a[z] = P[j]
      BY <1>6, <3>3
    <3>5. P[i].id = P[j].id
      BY <1>4, <2>3, <3>1
    <3>6. M[y].id = M[z].id /\ y \in DOMAIN M /\ z \in DOMAIN M
      BY <1>9, <3>4, <3>5
    <3> QED BY <1>10, <3>4, <3>6
  <2>5. PICK node : node = base[i]
    OBVIOUS
  <2>6. node \in NodeDocs(V) /\ n = Patched(node, overlay) /\ n.id = node.id
    BY <1>5, <1>11, <2>2, <2>3, <2>4, <2>5 DEF PatchedNodes
  <2>7. \A k \in 1..Len(overlay) : overlay[k].id = node.id => ~overlay[k].remove
    BY <1>11, <2>3, <2>5 DEF Removed
  <2>8. Follows(Patched(node, overlay).cfg, overlayPrompts(overlay, node.id), own,
                \E k \in 1..Len(overlay) : overlay[k].id = node.id /\ overlay[k].wipe)
    BY <2>6, <2>7, PatchedFollows
  <2> QED BY <2>6, <2>8
<1>13. CASE n \in ToSet(b)
  <2>1. PICK x \in DOMAIN b : n = b[x]
    BY <1>13 DEF ToSet
  <2>2. PICK k \in L : n = overlay[k]
    BY <1>7, <2>1
  <2>3. k \in 1..Len(overlay) /\ n.id \notin Ids(base)
    BY <1>5, <1>11, <2>2
  <2>4. ASSUME NEW j \in 1..Len(overlay), overlay[j].id = overlay[k].id PROVE j = k
    <3> SUFFICES ASSUME j # k PROVE FALSE
      OBVIOUS
    <3>1. ~overlay[j].remove
      BY <1>11, <2>2, <2>3, <2>4 DEF Removed
    <3>2. j \in L
      BY <1>5, <1>11, <2>2, <2>3, <2>4, <3>1
    <3>3. PICK y, z \in DOMAIN b : y # z /\ b[y] = overlay[j] /\ b[z] = overlay[k]
      BY <1>7, <3>2
    <3>4. PICK s : s = Len(a) + y
      OBVIOUS
    <3>5. PICK t : t = Len(a) + z
      OBVIOUS
    <3>6. s \in DOMAIN M /\ t \in DOMAIN M /\ s # t /\ M[s] = overlay[j] /\ M[t] = overlay[k]
      BY <1>9, <3>3, <3>4, <3>5
    <3> QED BY <1>10, <2>4, <3>6
  <2>5. PICK wiped : wiped = (\E j \in 1..Len(overlay) : overlay[j].id = n.id /\ overlay[j].wipe)
    OBVIOUS
  <2>6. Follows(overlay[k].cfg, overlayPrompts(overlay, n.id), own, wiped)
    <3>1. PICK id : id = n.id
      OBVIOUS
    <3>2. \A j \in 1..Len(overlay) : overlay[j].id = id => j = k
      BY <2>2, <2>4, <3>1
    <3>3. \A p \in {"fixed", "flex"} : Text(overlayPrompts(overlay, id)[p]) # ""
      BY <3>1
    <3>4. Follows(overlay[k].cfg, overlayPrompts(overlay, id), own, wiped)
      BY <2>3, <3>2, <3>3, NewFollows
    <3> QED BY <3>1, <3>4
  <2> QED BY <2>2, <2>5, <2>6
<1> QED BY <1>2, <1>9, <1>12, <1>13

-----------------------------------------------------------------------------
(* The prompts of a file that LoadAll accepts.                              *)

\* What an agent runs with, when its config follows what its overlay says.
LEMMA FollowedPrompts ==
  ASSUME NEW n, NEW d, NEW own, own \notin Words, NEW wiped \in BOOLEAN, Follows(n.cfg, d, own, wiped),
         \A p \in {"fixed", "flex"} : Text(d[p]) # "",
         \A p \in {"fixed", "flex", "legacy"} : n.cfg[p] \notin {"unset", "invalid"},
         FixedPrompt(n) # ""
  PROVE  FixedPrompt(n) = own /\ (FlexPrompt(n) = own \/ (FlexPrompt(n) = "" /\ wiped))
<1>1. PICK c : c = n.cfg
  OBVIOUS
<1>2. PICK cf : cf = c["fixed"]
  OBVIOUS
<1>3. PICK cl : cl = c["legacy"]
  OBVIOUS
<1>4. PICK cx : cx = c["flex"]
  OBVIOUS
<1>5. PICK df : df = d["fixed"]
  OBVIOUS
<1>6. PICK dx : dx = d["flex"]
  OBVIOUS
<1>7. /\ df \in Words \cup {own} /\ dx \in Words \cup {own}
      /\ df # "absent" => cf = df \/ (cf = "absent" /\ cl \in Words \cup {own})
      /\ dx # "absent" => cx = dx \/ (cx = "absent" /\ wiped)
  BY <1>1, <1>2, <1>3, <1>4, <1>5, <1>6 DEF Follows, OwnCfg
<1>8. Text(df) # "" /\ Text(dx) # ""
  BY <1>5, <1>6
<1>9. /\ cf \notin {"unset", "invalid"} /\ cl \notin {"unset", "invalid"} /\ cx \notin {"unset", "invalid"}
  BY <1>1, <1>2, <1>3, <1>4
<1>10. /\ FixedPrompt(n) = IF Text(cf) # "" THEN cf ELSE Text(cl)
       /\ FlexPrompt(n) = Text(cx)
  BY <1>1, <1>2, <1>3, <1>4 DEF FixedPrompt, FlexPrompt
<1>11. FlexPrompt(n) = own \/ (FlexPrompt(n) = "" /\ wiped)
  BY <1>7, <1>8, <1>9, <1>10 DEF Text, Words
<1>12. FixedPrompt(n) = own
  BY <1>7, <1>8, <1>9, <1>10 DEF Text, Words
<1> QED BY <1>11, <1>12

\* What an agent runs with that is not derived.
LEMMA WrittenPrompts ==
  ASSUME NEW n, NEW own, own \notin Words, OwnCfg(n.cfg, own),
         \A p \in {"fixed", "flex", "legacy"} : n.cfg[p] \notin {"unset", "invalid"},
         FixedPrompt(n) # ""
  PROVE  FixedPrompt(n) = own /\ FlexPrompt(n) \in {own, ""}
<1>1. PICK c : c = n.cfg
  OBVIOUS
<1>2. PICK cf : cf = c["fixed"]
  OBVIOUS
<1>3. PICK cl : cl = c["legacy"]
  OBVIOUS
<1>4. PICK cx : cx = c["flex"]
  OBVIOUS
<1>5. cf \in Words \cup {own} /\ cl \in Words \cup {own} /\ cx \in Words \cup {own}
  BY <1>1, <1>2, <1>3, <1>4 DEF OwnCfg
<1>6. /\ cf \notin {"unset", "invalid"} /\ cl \notin {"unset", "invalid"} /\ cx \notin {"unset", "invalid"}
  BY <1>1, <1>2, <1>3, <1>4
<1>7. /\ FixedPrompt(n) = IF Text(cf) # "" THEN cf ELSE Text(cl)
      /\ FlexPrompt(n) = Text(cx)
  BY <1>1, <1>2, <1>3, <1>4 DEF FixedPrompt, FlexPrompt
<1>8. FixedPrompt(n) = own
  BY <1>5, <1>6, <1>7 DEF Text, Words
<1>9. FlexPrompt(n) \in {own, ""}
  BY <1>5, <1>6, <1>7 DEF Text, Words
<1> QED BY <1>8, <1>9

\* Every value that occurs in a list of nodes.
Values(nodes) ==
  UNION {{nodes[i].id, nodes[i].type, nodes[i].retry} \cup {nodes[i].cfg[f] : f \in Fields} : i \in 1..Len(nodes)}

\* What is written in a file is a sequence of nodes.
LEMMA WrittenNodes ==
  ASSUME NEW file, Written(file), NEW V, Values(file.nodes) \subseteq V
  PROVE  /\ file.nodes \in Seq(NodeDocs(V)) /\ OwnEntries(file.nodes, file.id)
         /\ file.id \notin Words \ {""}
<1>1. PICK ns : ns = file.nodes
  OBVIOUS
<1>2. /\ ns = [i \in 1..Len(ns) |-> ns[i]] /\ Len(ns) \in Nat /\ file.id \notin Words \ {""}
      /\ \A i \in 1..Len(ns) : /\ IsNode(ns[i]) /\ (ns[i].wipe => ns[i].cfg = NoCfg)
                               /\ \A p \in {"fixed", "flex", "legacy"} : ns[i].cfg[p] \in Words \cup {file.id}
  BY <1>1 DEF Written
<1>3. ASSUME NEW i \in 1..Len(ns) PROVE ns[i] \in NodeDocs(V)
  <2>1. PICK n : n = ns[i]
    OBVIOUS
  <2>2. n.id \in V /\ n.type \in V /\ n.retry \in V /\ \A f \in Fields : n.cfg[f] \in V
    BY <1>1, <2>1 DEF Values
  <2>3. n.remove \in BOOLEAN /\ n.wipe \in BOOLEAN
    BY <1>2, <2>1 DEF IsNode
  <2>4. PICK c : c = [f \in Fields |-> n.cfg[f]]
    OBVIOUS
  <2>5. c \in [Fields -> V]
    BY <2>2, <2>4
  <2>6. n = [id |-> n.id, type |-> n.type, remove |-> n.remove, wipe |-> n.wipe, retry |-> n.retry, cfg |-> c]
    BY <1>2, <2>1, <2>4 DEF IsNode
  <2>7. [id |-> n.id, type |-> n.type, remove |-> n.remove, wipe |-> n.wipe, retry |-> n.retry, cfg |-> c] \in NodeDocs(V)
    BY <2>2, <2>3, <2>5 DEF NodeDocs
  <2> QED BY <2>1, <2>6, <2>7
<1>4. ns \in Seq(NodeDocs(V))
  <2>1. PICK S : S = NodeDocs(V)
    OBVIOUS
  <2>2. ns \in [1..Len(ns) -> S]
    BY <1>2, <1>3, <2>1
  <2>3. ns \in Seq(S)
    <3>1. PICK k : k = Len(ns)
      OBVIOUS
    <3>2. k \in Nat /\ ns \in [1..k -> S]
      BY <1>2, <2>2, <3>1
    <3> QED BY <3>2
  <2> QED BY <2>1, <2>3
<1>5. OwnEntries(ns, file.id)
  BY <1>2 DEF OwnEntries, OwnCfg
<1> QED BY <1>1, <1>2, <1>4, <1>5

\* The prompts of an agent of file f that are its own.
OwnFlex(f) == {files[f].id} \cup (IF Derived(f) /\ ~Wipes(f) THEN {} ELSE {""})

\* A base is one of the files that define its id.
LEMMA BaseFile ==
  ASSUME files \in Directories, NEW id, Definitions(id) # {}
  PROVE  First(id) \in DOMAIN files /\ files[First(id)].form = "ok"
<1>1. PICK D : D = Definitions(id)
  OBVIOUS
<1>2. \A f \in D : f \in DOMAIN files /\ files[f].form = "ok"
  BY <1>1 DEF Definitions, Readable
<1>3. DOMAIN files \subseteq Nat
  BY DirectoryBounds
<1>4. D \subseteq Nat /\ D # {}
  BY <1>1, <1>2, <1>3
<1>5. \E x \in D : \A y \in D : x <= y
  BY <1>4, Least
<1>6. Min(D) \in D
  BY <1>5 DEF Min
<1> QED BY <1>1, <1>2, <1>6 DEF First

\* An agent that LoadOne has accepted has a prompt, and none of its prompts is
\* unresolved or invalid.
LEMMA LoadableAgent ==
  ASSUME NEW d, Loadable(d), NEW n \in ToSet(d.nodes), n.type = "agent"
  PROVE  /\ FixedPrompt(n) # ""
         /\ \A p \in {"fixed", "flex", "legacy"} : n.cfg[p] \notin {"unset", "invalid"}
<1>1. {"fixed", "flex", "legacy"} \subseteq Fields
  BY DEF Fields
<1>2. FixedPrompt(n) # ""
  BY DEF Loadable, FactoryAccepts, AgentFactory
<1>3. \A p \in {"fixed", "flex", "legacy"} : n.cfg[p] # "invalid"
  BY DEF Loadable, validateAllowedTemplates
<1>4. \A f \in Fields : n.cfg[f] # "unset"
  BY DEF Loadable, Resolves
<1> QED BY <1>1, <1>2, <1>3, <1>4

\* The prompts of an accepted file that is not an overlay are its own.
LEMMA PlainOwned ==
  ASSUME files \in Directories, NEW f \in DOMAIN files, Accepted(f), ~Derived(f),
         NEW n \in NodesOf(f, "agent")
  PROVE  FixedPrompt(n) = files[f].id /\ FlexPrompt(n) \in OwnFlex(f)
<1>1. PICK d : d = files[f]
  OBVIOUS
<1>2. d.form = "ok" /\ Loadable(d) /\ n \in ToSet(d.nodes) /\ n.type = "agent"
  BY <1>1 DEF Accepted, Doc, NodesOf
<1>3. Written(d)
  BY <1>1, <1>2, DirectoryTexts
<1>4. PICK V : V = Values(d.nodes)
  OBVIOUS
<1>5. d.nodes \in Seq(NodeDocs(V)) /\ OwnEntries(d.nodes, d.id) /\ d.id \notin Words \ {""}
  BY <1>3, <1>4, WrittenNodes
<1>6. d.id \notin Words
  BY <1>2, <1>5 DEF Loadable, validateEnvelope
<1>7. DOMAIN d.nodes = 1..Len(d.nodes)
  BY <1>5, Positions
<1>8. PICK i \in 1..Len(d.nodes) : n = d.nodes[i]
  BY <1>2, <1>7 DEF ToSet
<1>9. OwnCfg(n.cfg, d.id)
  BY <1>5, <1>8 DEF OwnEntries
<1>10. FixedPrompt(n) = d.id /\ FlexPrompt(n) \in {d.id, ""}
  BY <1>2, <1>6, <1>9, LoadableAgent, WrittenPrompts
<1> QED BY <1>1, <1>10 DEF OwnFlex

\* The prompts of an accepted overlay are its own.
LEMMA OverlayOwned ==
  ASSUME files \in Directories, NEW f \in DOMAIN files, Accepted(f), Derived(f),
         NEW n \in NodesOf(f, "agent")
  PROVE  FixedPrompt(n) = files[f].id /\ FlexPrompt(n) \in OwnFlex(f)
<1>1. PICK o : o = files[f]
  OBVIOUS
<1>2. PICK b : b = files[First(o.extends)]
  OBVIOUS
<1>3. PICK M : M = mergeNodes(b.nodes, o.nodes)
  OBVIOUS
<1>4. o.form = "ok" /\ Definitions(o.extends) # {} /\ MergeOK(b, o) /\ Doc(f) = MergeDerived(b, o)
  BY <1>1, <1>2 DEF Accepted, Derives, Doc
<1>5. Written(o)
  BY <1>1, <1>4, DirectoryTexts
<1>6. Written(b)
  <2>1. First(o.extends) \in DOMAIN files /\ b.form = "ok"
    BY <1>2, <1>4, BaseFile
  <2> QED BY <1>2, <2>1, DirectoryTexts
<1>7. PICK V : V = {"absent"} \cup Values(o.nodes) \cup Values(b.nodes)
  OBVIOUS
<1>8. "absent" \in V /\ Values(o.nodes) \subseteq V /\ Values(b.nodes) \subseteq V
  BY <1>7
<1>9. PICK base : base = b.nodes
  OBVIOUS
<1>10. PICK overlay : overlay = o.nodes
  OBVIOUS
<1>11. PICK own : own = o.id
  OBVIOUS
<1>12. base \in Seq(NodeDocs(V))
  BY <1>6, <1>8, <1>9, WrittenNodes
<1>13. overlay \in Seq(NodeDocs(V)) /\ OwnEntries(overlay, own) /\ own \notin Words \ {""}
  BY <1>5, <1>8, <1>10, <1>11, WrittenNodes
<1>14. /\ own # "" /\ Removed(overlay) \subseteq Ids(base)
       /\ enforcePromptOwnership(M, overlay)
  BY <1>3, <1>4, <1>9, <1>10, <1>11 DEF MergeOK, OverlayNodesOK
<1>15. own \notin Words /\ own # "null"
  BY <1>13, <1>14 DEF Words
<1>16. Doc(f).nodes = M /\ M = mergeNodes(base, overlay)
  BY <1>3, <1>4, <1>9, <1>10 DEF MergeDerived
<1>17. Loadable(Doc(f)) /\ n \in ToSet(Doc(f).nodes) /\ n.type = "agent"
  BY DEF Accepted, NodesOf
<1>18. Cardinality(Ids(M)) = Len(M)
  BY <1>16, <1>17 DEF Loadable, validateEnvelope
<1>19. \A p \in {"fixed", "flex"} : Text(overlayPrompts(overlay, n.id)[p]) # ""
  BY <1>14, <1>16, <1>17 DEF enforcePromptOwnership
<1>20. PICK wiped \in BOOLEAN : wiped <=> \E k \in 1..Len(overlay) : overlay[k].id = n.id /\ overlay[k].wipe
  OBVIOUS
<1>21. Follows(n.cfg, overlayPrompts(overlay, n.id), own, wiped)
  <2>1. n \in ToSet(mergeNodes(base, overlay))
    BY <1>16, <1>17
  <2>2. Cardinality(Ids(mergeNodes(base, overlay))) = Len(mergeNodes(base, overlay))
    BY <1>16, <1>18
  <2>3. Follows(n.cfg, overlayPrompts(overlay, n.id), own,
                \E k \in 1..Len(overlay) : overlay[k].id = n.id /\ overlay[k].wipe)
    BY <1>8, <1>12, <1>13, <1>14, <1>15, <1>19, <2>1, <2>2, DerivedFollows
  <2> QED BY <1>20, <2>3 DEF Follows
<1>22. FixedPrompt(n) = own /\ (FlexPrompt(n) = own \/ (FlexPrompt(n) = "" /\ wiped))
  <2>1. /\ FixedPrompt(n) # ""
        /\ \A p \in {"fixed", "flex", "legacy"} : n.cfg[p] \notin {"unset", "invalid"}
    BY <1>17, LoadableAgent
  <2>2. PICK d : d = overlayPrompts(overlay, n.id)
    OBVIOUS
  <2>3. Follows(n.cfg, d, own, wiped)
    BY <1>21, <2>2
  <2>4. \A p \in {"fixed", "flex"} : Text(d[p]) # ""
    BY <1>19, <2>2
  <2> QED BY <1>15, <2>1, <2>3, <2>4, FollowedPrompts
<1>23. ASSUME wiped PROVE Wipes(f)
  <2>1. PICK k \in 1..Len(overlay) : overlay[k].id = n.id /\ overlay[k].wipe
    BY <1>20, <1>23
  <2>2. DOMAIN overlay = 1..Len(overlay)
    BY <1>13, Positions
  <2>3. overlay[k] \in ToSet(files[f].nodes)
    BY <1>1, <1>10, <2>2 DEF ToSet
  <2> QED BY <2>1, <2>3 DEF Wipes
<1> QED BY <1>1, <1>11, <1>22, <1>23 DEF OwnFlex

\* The prompts of an accepted file are its own.
LEMMA AcceptedOwned ==
  ASSUME files \in Directories, NEW f \in DOMAIN files, Accepted(f), NEW n \in NodesOf(f, "agent")
  PROVE  FixedPrompt(n) = files[f].id /\ FlexPrompt(n) \in OwnFlex(f)
BY PlainOwned, OverlayOwned

-----------------------------------------------------------------------------
(* The prompts that run: a document's own, or a version that somebody saved. *)

OwnInv ==
  /\ files \in Directories
  /\ \A v \in store : v.text \in Texts
  /\ \A s \in Savers : save[s].st = "saving" => save[s].text \in Texts
  /\ update = NoVersion \/ update \in store
  /\ boot \in {"access", "subscribe"} => flex[at] \in Overridden(at)
  /\ \A f \in registered : flex[f] \in Overridden(f)

\* What a workflow may run with depends on the directory alone.
LEMMA SameOverridden ==
  files' = files => \A f : Overridden(f)' = Overridden(f)
BY SameNodes DEF Overridden

\* A step that leaves the store and the prompts alone.
LEMMA OwnQuiet ==
  ASSUME OwnInv, UNCHANGED <<files, flex, store, save, update>>,
         registered' = registered \/ (registered' = registered \cup {at} /\ boot \in {"access", "subscribe"}),
         boot' \in {"access", "subscribe"} => boot \in {"access", "subscribe"} /\ at' = at
  PROVE  OwnInv'
<1>1. \A f : Overridden(f)' = Overridden(f)
  BY SameOverridden
<1>2. \A f \in registered' : flex[f] \in Overridden(f)
  BY DEF OwnInv
<1> QED BY <1>1, <1>2 DEF OwnInv

\* The saves: what is stored was written by an administrator.
LEMMA OwnStore ==
  ASSUME FreshInv, OwnInv,
         \/ \E s \in Savers : handleSave(s) \/ Put(s) \/ Broadcast(s)
         \/ Notified
  PROVE  OwnInv'
<1>1. UNCHANGED <<files, flex, boot, at, registered>>
  BY DEF handleSave, Put, Broadcast, Notified, vars
<1>2. \A f : Overridden(f)' = Overridden(f)
  BY <1>1, SameOverridden
<1>3. \A s \in Savers : save[s] \in SaveStates
  BY DEF FreshInv
<1>4. ASSUME NEW s \in Savers, handleSave(s) PROVE OwnInv'
  <2>1. UNCHANGED <<store, update>>
    BY <1>4 DEF handleSave, storeVars
  <2>2. PICK t \in Texts : save' = [save EXCEPT ![s] = [save[s] EXCEPT !.st = "saving", !.text = t]]
    BY <1>4 DEF handleSave, Save
  <2>3. \A r \in Savers : save'[r].st = "saving" => save'[r].text \in Texts
    BY <1>3, <2>2 DEF OwnInv, FreshInv, SaveStates
  <2> QED BY <1>1, <1>2, <2>1, <2>3 DEF OwnInv
<1>5. ASSUME NEW s \in Savers, Put(s) PROVE OwnInv'
  <2>1. UNCHANGED update /\ save[s].st = "saving"
    BY <1>5 DEF Put
  <2>2. /\ store' = store \/ \E k : store' = store \cup {[sk |-> k, text |-> save[s].text]}
        /\ \E x, y : save' = [save EXCEPT ![s] = [save[s] EXCEPT !.tries = y, !.st = x]]
             \/ save' = [save EXCEPT ![s] = [save[s] EXCEPT !.st = x]]
    BY <1>5 DEF Put, Save
  <2>3. save[s].text \in Texts
    BY <2>1 DEF OwnInv
  <2>4. PICK x, y : save' = [save EXCEPT ![s] = [st |-> x, text |-> save[s].text, tries |-> y]]
    <3>1. PICK x, y : \/ save' = [save EXCEPT ![s] = [save[s] EXCEPT !.tries = y, !.st = x]]
                      \/ save' = [save EXCEPT ![s] = [save[s] EXCEPT !.st = x]]
      BY <2>2
    <3>2. /\ [save[s] EXCEPT !.st = x] = [st |-> x, text |-> save[s].text, tries |-> save[s].tries]
          /\ [save[s] EXCEPT !.tries = y, !.st = x] = [st |-> x, text |-> save[s].text, tries |-> y]
      BY <1>3, SaveRecord
    <3> QED BY <3>1, <3>2
  <2>5. \A r \in Savers : save'[r].st = "saving" => save'[r].text \in Texts
    BY <2>3, <2>4 DEF OwnInv, FreshInv
  <2>6. (\A v \in store' : v.text \in Texts) /\ store \subseteq store'
    BY <2>2, <2>3 DEF OwnInv
  <2> QED BY <1>1, <1>2, <2>1, <2>5, <2>6 DEF OwnInv
<1>6. ASSUME NEW s \in Savers, Broadcast(s) PROVE OwnInv'
  <2>1. UNCHANGED <<store, update>> /\ save' = [save EXCEPT ![s] = [save[s] EXCEPT !.st = "done"]]
    BY <1>6 DEF Broadcast, Save, storeVars
  <2>2. save' = [save EXCEPT ![s] = [st |-> "done", text |-> save[s].text, tries |-> save[s].tries]]
    BY <1>3, <2>1, SaveRecord
  <2>3. \A r \in Savers : save'[r].st = "saving" => save'[r].text \in Texts
    BY <2>2 DEF OwnInv, FreshInv
  <2> QED BY <1>1, <1>2, <2>1, <2>3 DEF OwnInv
<1>7. CASE Notified
  <2>1. UNCHANGED <<store, save>> /\ update' \in store \cup {NoVersion}
    BY <1>7 DEF Notified, storeVars, Query
  <2>2. NoVersion' = NoVersion
    BY DEF NoVersion
  <2> QED BY <1>1, <1>2, <2>1, <2>2 DEF OwnInv
<1> QED BY <1>4, <1>5, <1>6, <1>7

\* Every step keeps the invariant.
LEMMA OwnStep ==
  LoadInv /\ FreshInv /\ OwnInv /\ [PromptsNext]_allVars => OwnInv'
<1> SUFFICES ASSUME LoadInv, FreshInv, OwnInv, [PromptsNext]_allVars PROVE OwnInv'
  OBVIOUS
<1>1. CASE PromptHosts
  BY <1>1, OwnQuiet DEF PromptHosts, Hosts, loadVars
<1>2. CASE applyOverrides
  <2>1. /\ boot = "load" /\ at \in DOMAIN flex
        /\ UNCHANGED <<files, registered, store, save, update>>
    BY <1>2 DEF applyOverrides, LoadOne, FreshInv
  <2>2. \A f : Overridden(f)' = Overridden(f)
    BY <2>1, SameOverridden
  <2>3. \A f \in registered : f # at
    BY DEF LoadInv
  <2>4. CASE TypeOf(Doc(at), Doc(at).trigger) = "chat"
    <3>1. boot' = "access" /\ at' = at
      BY <1>2, <2>4 DEF applyOverrides, LoadOne
    <3>2. PICK v \in Overridden(at) : flex' = [flex EXCEPT ![at] = v]
      BY <1>2, <2>4 DEF applyOverrides, LoadOne
    <3>3. flex'[at] \in Overridden(at) /\ \A f \in registered : flex'[f] = flex[f]
      BY <2>1, <2>3, <3>2 DEF LoadInv, FreshInv
    <3> QED BY <2>1, <2>2, <3>1, <3>3 DEF OwnInv
  <2>5. CASE TypeOf(Doc(at), Doc(at).trigger) # "chat"
    <3>1. boot' = "load" /\ flex' = flex
      BY <1>2, <2>5 DEF applyOverrides, LoadOne, NextFile
    <3> QED BY <2>1, <3>1, OwnQuiet
  <2> QED BY <2>4, <2>5
<1>3. CASE Register
  BY <1>3, OwnQuiet DEF Register, Start, ConfigFromEnv, loadVars
<1>4. CASE Others /\ UNCHANGED promptVars
  <2>1. UNCHANGED <<files, flex, store, save, update>>
    BY <1>4 DEF Others, LoadFails, InitFails, SetIndexAccess, Subscribe, NothingLoaded, Publish,
         Published, Signal, Shutdown, NatsShutdown, Handle, Emit, Returns, loadVars, promptVars
  <2>2. \/ registered' = registered
        \/ registered' = registered \cup {at} /\ boot \in {"access", "subscribe"}
    BY <1>4 DEF Others, LoadFails, InitFails, SetIndexAccess, Subscribe, NothingLoaded, Publish,
         Published, Signal, Shutdown, NatsShutdown, Handle, Emit, Returns, loadVars
  <2>3. boot' \in {"access", "subscribe"} => boot \in {"access", "subscribe"} /\ at' = at
    BY <1>4 DEF Others, LoadFails, InitFails, SetIndexAccess, Subscribe, NextFile, NothingLoaded,
         Publish, Published, Signal, Shutdown, NatsShutdown, Handle, Emit, Returns
  <2> QED BY <2>1, <2>2, <2>3, OwnQuiet
<1>5. CASE (\E s \in Savers : handleSave(s) \/ Put(s) \/ Broadcast(s)) \/ Notified
  BY <1>5, OwnStore
<1>6. CASE ApplyPromptUpdate
  <2>1. /\ update # NoVersion /\ update' = NoVersion
        /\ UNCHANGED <<files, boot, at, registered, store, save, subscribed>>
    BY <1>6 DEF ApplyPromptUpdate, storeVars
  <2>2. boot \notin {"access", "subscribe"}
    BY <2>1 DEF FreshInv, Loading
  <2>3. \A f : Overridden(f)' = Overridden(f)
    BY <2>1, SameOverridden
  <2>4. ASSUME NEW f \in registered PROVE flex'[f] \in Overridden(f)
    <3>1. f \in DOMAIN flex
      BY DEF LoadInv, FreshInv
    <3>2. flex'[f] = IF f \in registered /\ Doc(f).id = Edited /\ resolveAgent(f) THEN update.text ELSE flex[f]
      BY <1>6, <3>1 DEF ApplyPromptUpdate
    <3>3. resolveAgent(f) => update.text \in Overridden(f)
      BY <2>1 DEF resolveAgent, Overridden, OwnInv
    <3> QED BY <3>2, <3>3 DEF OwnInv
  <2> QED BY <2>1, <2>2, <2>3, <2>4 DEF OwnInv
<1>7. CASE UNCHANGED allVars
  <2>1. UNCHANGED <<files, flex, registered, boot, at, store, save, update>>
    BY <1>7 DEF allVars, vars, promptVars
  <2> QED BY <2>1, OwnQuiet
<1> QED BY <1>1, <1>2, <1>3, <1>4, <1>5, <1>6, <1>7 DEF PromptsNext

\* Nothing is stored and nothing runs at first.
LEMMA OwnInit ==
  PromptsInit => OwnInv
<1> SUFFICES ASSUME PromptsInit PROVE OwnInv
  OBVIOUS
<1>1. /\ files \in Directories /\ boot = "hosts" /\ registered = {}
      /\ store = {} /\ update = NoVersion
      /\ save = [s \in Savers |-> [st |-> "idle", text |-> "", tries |-> 0]]
  BY DEF PromptsInit, Init
<1>2. \A s \in Savers : save[s].st = "idle"
  BY <1>1
<1> QED BY <1>1, <1>2 DEF OwnInv

\* Prompts are never inherited, for directories, bases and overlays of any
\* size: the prompts of every registered workflow were written in its own file
\* or saved in the prompt store (derive.go's enforcePromptOwnership on what
\* mergeNodes leaves, LoadOne's checks after it, and the store's overrides).
THEOREM PromptsAreOwned == PromptsSpec => []PromptsOwned
<1>1. LoadAllInv /\ FreshInv /\ OwnInv /\ [PromptsNext]_allVars => LoadAllInv' /\ FreshInv' /\ OwnInv'
  BY ProcessSteps, LoadStep, FreshStep, OwnStep DEF LoadAllInv
<1>2. LoadAllInv /\ OwnInv => PromptsOwned
  <2> SUFFICES ASSUME LoadInv, OwnInv, NEW f \in registered, NEW n \in NodesOf(f, "agent")
               PROVE  /\ FixedPrompt(n) = files[f].id
                      /\ flex[f] \in {files[f].id} \cup Texts \cup (IF Derived(f) /\ ~Wipes(f) THEN {} ELSE {""})
    BY DEF PromptsOwned, LoadAllInv
  <2>1. files \in Directories /\ f \in DOMAIN files /\ Accepted(f) /\ flex[f] \in Overridden(f)
    BY DEF LoadInv, OwnInv
  <2>2. \A m \in NodesOf(f, "agent") : FixedPrompt(m) = files[f].id /\ FlexPrompt(m) \in OwnFlex(f)
    BY <2>1, AcceptedOwned
  <2>3. flex[f] \in Texts \/ \E m \in NodesOf(f, "agent") : flex[f] = FlexPrompt(m)
    BY <2>1 DEF Overridden
  <2> QED BY <2>2, <2>3 DEF OwnFlex
<1> QED BY <1>1, <1>2, LoadInit, FreshInit, OwnInit, PTL DEF PromptsSpec
=============================================================================
