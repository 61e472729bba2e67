------------------------------- MODULE Prompts --------------------------------
(***************************************************************************)
(* The prompt store (pkg/promptstore) and prompt administration            *)
(* (pkg/promptadmin) around one service process: administrators save new   *)
(* versions of the flexible prompt of one workflow's agent through any     *)
(* instance; the process reads the store while it loads that workflow,     *)
(* subscribes to changes after LoadAll, and hot-applies each change it is  *)
(* told of by reading the store again.                                     *)
(***************************************************************************)
EXTENDS Engine

CONSTANTS
  Edited,             \* the workflow whose prompt is edited
  EditedDirectories,  \* the directories in which it is (a bound)
  Savers,             \* PromptSave requests
  maxSaveRetries,
  MaxVersion          \* bound on version numbers

ASSUME StoreBounds == MaxVersion \in Nat

VARIABLES
  provisioned,  \* the process has a prompt store
  store,        \* the versions of the key: [sk, text]
  save,         \* per PromptSave: its progress, its text, the attempts so far
  subscribed,   \* the process listens for changes
  inbox,        \* changes announced to the process and not yet handled
  update,       \* the version its callback has read and not yet applied, NoVersion when idle
  running,      \* history: the version of the prompt the process runs, NoVersion for the file's
  missed        \* history: something kept the process from a version since its last good read

promptVars == <<provisioned, store, save, subscribed, inbox, update, running, missed>>
storeVars == <<provisioned, store, subscribed>>
allVars == <<vars, promptVars>>

NoVersion == [sk |-> 0, text |-> ""]

PromptsInit ==
  /\ Init
  /\ provisioned = FALSE /\ store = {} /\ subscribed = FALSE /\ inbox = 0
  /\ save = [s \in Savers |-> [st |-> "idle", text |-> "", tries |-> 0]]
  /\ update = NoVersion /\ running = NoVersion /\ missed = FALSE

-----------------------------------------------------------------------------
(* The store.                                                               *)

Latest == CHOOSE v \in store \cup {NoVersion} : \A w \in store : w.sk <= v.sk

\* What a query may return: it is not a consistent read, and it may fail, so an
\* older version or none is possible.
Query == store \cup {NoVersion}

\* The millisecond of the saver's clock, which no other instance shares.
sk == 1..MaxVersion

Save(s, v) == save' = [save EXCEPT ![s] = v]

\* handleSave up to the store: the field is overridable, the content validates.
handleSave(s) ==
  /\ save[s].st = "idle" /\ files \in EditedDirectories
  /\ \E f \in DOMAIN files : Accepted(f) /\ Doc(f).id = Edited /\ resolveAgent(f)
  /\ \E t \in Texts : Save(s, [save[s] EXCEPT !.st = "saving", !.text = t])
  /\ UNCHANGED <<vars, storeVars, inbox, update, running, missed>>

\* The conditional put succeeds, also when its answer is lost and the request
\* fails; or the version number is taken; or nothing is written.
Put(s) ==
  /\ save[s].st = "saving"
  /\ \E k \in sk :
       IF \E v \in store : v.sk = k
       THEN /\ Save(s, [save[s] EXCEPT !.tries = @ + 1,
                                       !.st = IF save[s].tries + 1 = maxSaveRetries THEN "failed" ELSE @])
            /\ UNCHANGED <<store, missed>>
       ELSE \/ /\ store' = store \cup {[sk |-> k, text |-> save[s].text]}
               /\ \/ Save(s, [save[s] EXCEPT !.st = "saved"]) /\ UNCHANGED missed
                  \/ Save(s, [save[s] EXCEPT !.st = "failed"]) /\ missed' = TRUE
            \/ Save(s, [save[s] EXCEPT !.st = "failed"]) /\ UNCHANGED <<store, missed>>
  /\ UNCHANGED <<vars, provisioned, subscribed, inbox, update, running>>

\* A bug: instances share a queue group, and one of them gets the note.
BroadcastQueued(s) ==
  /\ save[s].st = "saved"
  /\ Save(s, [save[s] EXCEPT !.st = "done"])
  /\ inbox' \in {inbox, inbox + (IF subscribed THEN 1 ELSE 0)}
  /\ missed' = (missed \/ ~subscribed)
  /\ UNCHANGED <<vars, storeVars, update, running>>

\* The note goes to every subscribed instance, or to none when publishing fails.
Broadcast(s) ==
  /\ save[s].st = "saved"
  /\ Save(s, [save[s] EXCEPT !.st = "done"])
  /\ \/ subscribed /\ inbox' = inbox + 1 /\ UNCHANGED missed
     \/ missed' = TRUE /\ UNCHANGED inbox
  /\ UNCHANGED <<vars, storeVars, update, running>>

-----------------------------------------------------------------------------
(* The process.                                                             *)

\* A store whose table cannot be provisioned is left out.
PromptHosts ==
  /\ Hosts
  /\ provisioned' \in BOOLEAN
  /\ UNCHANGED <<store, save, subscribed, inbox, update, running, missed>>

\* applyOverrides: a version that is found, resolves and validates replaces the
\* file's prompt; whatever fails leaves it.
applyOverrides ==
  /\ LoadOne
  /\ IF Doc(at).id = Edited /\ TypeOf(Doc(at), Doc(at).trigger) = "chat" /\ resolveAgent(at)
     THEN \E v \in IF provisioned THEN Query ELSE {NoVersion} :
            /\ IF v = NoVersion THEN flex'[at] \notin Texts ELSE flex'[at] = v.text
            /\ running' = v /\ missed' = (v # Latest)
     ELSE flex'[at] \notin Texts /\ UNCHANGED <<running, missed>>
  /\ UNCHANGED <<provisioned, store, save, subscribed, inbox, update>>

\* Register, after LoadAll: the subscription is in place before NATS starts.
Register ==
  /\ Start
  /\ subscribed' \in {FALSE, provisioned}
  /\ UNCHANGED <<provisioned, store, save, inbox, update, running, missed>>

\* The subscription's callback, one note at a time: it reads the store; a failed
\* read, or one whose placeholders do not resolve, ends it.
Notified ==
  /\ subscribed /\ boot # "exit" /\ inbox > 0 /\ update = NoVersion
  /\ inbox' = inbox - 1
  /\ update' \in Query
  /\ missed' = (update' # Latest)
  /\ UNCHANGED <<vars, storeVars, save, running>>

\* ApplyPromptUpdate and Reconfigure; a workflow that is not registered is an error.
ApplyPromptUpdate ==
  /\ update # NoVersion /\ boot # "exit"
  /\ update' = NoVersion
  /\ flex' = [f \in DOMAIN flex |->
       IF f \in registered /\ Doc(f).id = Edited /\ resolveAgent(f) THEN update.text ELSE flex[f]]
  /\ running' = update
  /\ UNCHANGED <<files, boot, at, broken, endpoints, access, registered, serveVars>>
  /\ UNCHANGED <<storeVars, save, inbox, missed>>

PromptsNext ==
  \/ PromptHosts \/ applyOverrides \/ Register
  \/ Others /\ UNCHANGED promptVars
  \/ \E s \in Savers : handleSave(s) \/ Put(s) \/ Broadcast(s)
  \/ Notified \/ ApplyPromptUpdate

PromptsSpec == PromptsInit /\ [][PromptsNext]_allVars

-----------------------------------------------------------------------------
(* Properties                                                               *)

\* Once every announced change has been handled, the prompt that runs is the
\* store's latest version, although changes are announced without their text
\* and may be saved while the process loads, reads or applies another: unless
\* the note was lost, the process was not yet subscribed, or its last read
\* failed or was stale.
PromptFresh ==
  /\ subscribed /\ boot # "exit" /\ ~missed /\ inbox = 0 /\ update = NoVersion
  /\ \A s \in Savers : save[s].st # "saved"
  => \A f \in registered : Doc(f).id = Edited /\ resolveAgent(f) =>
       /\ running = Latest
       /\ Latest # NoVersion => flex[f] = Latest.text
=============================================================================
