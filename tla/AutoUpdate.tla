----------------------------- MODULE AutoUpdate -----------------------------
(***************************************************************************)
(* The model auto-updater of pkg/workflow/builtin/bedrock: the goroutine   *)
(* of autoupdate.go (resolve, probe, swap, health check, recovery, once    *)
(* at startup and once a day), the model and last-known-good cells of      *)
(* factory.go, and the requests that read them (Stream in stream.go).      *)
(*                                                                         *)
(* A model id is the record parseModelID makes of it, with the form (bare  *)
(* or dated) it forgets; ids it cannot parse have the family Unparsed.     *)
(* The gateway, the Bedrock catalog and the probed models are external:    *)
(* they may answer anything, at every call.                                *)
(***************************************************************************)
EXTENDS Integers, FiniteSets

CONSTANTS
  Ids,            \* model ids: [prefix, family, ver, form]
  Unparsed,       \* the family of an id that parseModelID rejects
  NoModel,        \* the empty string
  Probes,         \* validationAttempts
  Requests,       \* requests that stream from the model
  MaxCycles       \* bound: daily cycles

ASSUME UpdateBounds ==
  /\ NoModel \notin Ids /\ Probes \in Nat \ {0} /\ MaxCycles \in Nat
  /\ \A m \in Ids : m.ver \in Int

VARIABLES
  model, lastKnownGood,    \* bedrockLLM's cells, under modelMu
  curUnhealthy,            \* autoUpdater.curUnhealthy
  ctxDone,                 \* Close has cancelled the updater's context
  pc,                      \* where the goroutine is: see Places
  cycles,                  \* cycles begun
  purpose, target, attempt,\* the probe loop: of what, for what, which attempt
  declined,                \* the candidate declined this cycle
  st, used,                \* requests: "new"|"first"|"again"|"done"; the models each invoked
  verdict,                 \* history: the last verdict on each model while in use
  vetted,                  \* history: the first model, and those that passed a probe
  rejected,                \* history: candidates declined in this cycle
  reprobed,                \* history: a declined release was probed again in its cycle
  cut,                     \* history: the last call that failed returned after Close
  misjudged,               \* history: a verdict was drawn from such a failure
  lateAlarms               \* history: alarms that went out after Close

cells   == <<model, lastKnownGood, curUnhealthy>>
probing == <<purpose, target, attempt>>
streams == <<st, used>>
shutdown == <<cut, misjudged, lateAlarms>>
history == <<verdict, vetted, rejected, reprobed, shutdown>>
vars    == <<cells, ctxDone, pc, cycles, probing, declined, streams, history>>

Purposes == {"gateway", "fallback", "health", "recovery"}

\* "failed": the last attempt failed; "nocand": no replacement was found;
\* "announce": the context was checked and an alarm is about to go out.
Places == {"off", "resolve", "scan", "probe", "validate", "failed", "recover", "nocand",
           "announce", "wait", "stopped"}

(* The model is cfg.Model or the pin of AI_BEDROCK_MODEL_ID; the pin, or     *)
(* autoUpdate false, leaves the updater off.  Otherwise run begins with a   *)
(* cycle at once.                                                           *)
Init ==
  /\ pc \in {"off", "resolve"} /\ model \in Ids
  /\ lastKnownGood = NoModel /\ curUnhealthy = FALSE /\ ctxDone = FALSE
  /\ cycles = 1 /\ purpose = "health" /\ target = model /\ attempt = 1
  /\ declined = NoModel
  /\ st = [r \in Requests |-> "new"] /\ used = [r \in Requests |-> {}]
  /\ verdict = [m \in Ids |-> "none"] /\ vetted = {model} /\ rejected = {}
  /\ reprobed = FALSE /\ cut = FALSE /\ misjudged = FALSE /\ lateAlarms = 0

-----------------------------------------------------------------------------
(* Model ids.                                                               *)
Parsed(m) == m.family # Unparsed

Line(m) == <<m.prefix, m.family>>

sameModel(a, b) ==
  IF Parsed(a) /\ Parsed(b) THEN Line(a) = Line(b) /\ a.ver = b.ver ELSE a = b

\* The newest of ids in the same prefix and family as cur, if newer than cur;
\* of two forms of one release the list's order decides.
latestCandidate(ids, cur) ==
  LET newer == {m \in ids : Parsed(m) /\ Line(m) = Line(cur) /\ m.ver > cur.ver}
  IN  {m \in newer : \A n \in newer : n.ver <= m.ver}

\* A bug: the gateway is followed across families.
gatewayAnyFamily(m, cur) == Parsed(m)

gatewayCandidateOK(m, cur) == Parsed(m) /\ m.family = cur.family

-----------------------------------------------------------------------------
(* The cells.                                                               *)

\* swapModel: the model it displaces becomes the fallback.
swapModel(m) ==
  /\ lastKnownGood' = IF model # m THEN model ELSE lastKnownGood
  /\ model' = m

\* recoverModel: the broken model is not recorded, and a fallback that is
\* current again is cleared.
recoverModel(m) ==
  /\ lastKnownGood' = IF lastKnownGood = m THEN NoModel ELSE lastKnownGood
  /\ model' = m

\* A bug: an upgrade always records the outgoing model.
PromoteAlways(m) ==
  /\ swapModel(m)
  /\ curUnhealthy' = FALSE
  /\ verdict' = [verdict EXCEPT ![m] = "good"]

\* What a passed probe of a candidate does: tryUpgrade and recovery.
Promote(m) ==
  /\ IF curUnhealthy \/ purpose = "recovery" THEN recoverModel(m) ELSE swapModel(m)
  /\ curUnhealthy' = FALSE
  /\ verdict' = [verdict EXCEPT ![m] = "good"]

-----------------------------------------------------------------------------
(* One cycle of runOnce.                                                    *)

\* Begin the probe loop of tryUpgrade, healthCheck or recovery.
Probing(why, m) ==
  /\ pc' = "probe" /\ purpose' = why /\ target' = m /\ attempt' = 1
  /\ reprobed' = (reprobed \/ \E d \in rejected : sameModel(d, m))

Goto(l) == pc' = l /\ UNCHANGED <<probing, reprobed>>

\* runOnce after resolveAndUpgrade without an upgrade.
AfterResolve == IF ctxDone THEN Goto("wait") ELSE Probing("health", model)

Quiet == UNCHANGED <<cells, ctxDone, cycles, streams, verdict, vetted, rejected, shutdown>>

\* Stage 1: the gateway.  Its answer may be an error (NoModel), and is one
\* always when there is no NATS connection to ask it with.
Resolve ==
  /\ pc = "resolve"
  /\ \/ ~Parsed(model) /\ AfterResolve
     \/ /\ Parsed(model)
        /\ \E id \in Ids \cup {NoModel} :
             \/ id = NoModel /\ Goto("scan")
             \/ id # NoModel /\ sameModel(id, model) /\ AfterResolve
             \/ id # NoModel /\ ~sameModel(id, model)
                /\ IF gatewayCandidateOK(id, model) THEN Probing("gateway", id) ELSE Goto("scan")
  /\ UNCHANGED declined /\ Quiet

\* A bug: the scan probes the candidate the gateway stage has just declined.
ScanAgain ==
  /\ pc = "scan"
  /\ \/ ctxDone /\ Goto("wait")
     \/ ~ctxDone /\ AfterResolve
     \/ /\ ~ctxDone
        /\ \E ids \in SUBSET Ids : \E m \in latestCandidate(ids, model) : Probing("fallback", m)
  /\ UNCHANGED declined /\ Quiet

\* Stage 2: the catalog scan, which may fail or find nothing new.
Scan ==
  /\ pc = "scan"
  /\ \/ ctxDone /\ Goto("wait")
     \/ ~ctxDone /\ AfterResolve
     \/ /\ ~ctxDone
        /\ \E ids \in SUBSET Ids : \E m \in latestCandidate(ids, model) :
             IF declined # NoModel /\ sameModel(m, declined)
             THEN AfterResolve ELSE Probing("fallback", m)
  /\ UNCHANGED declined /\ Quiet

\* The head of a probe loop; a done context ends the cycle.
ProbeBegins ==
  /\ pc = "probe"
  /\ pc' = IF ctxDone THEN "wait" ELSE "validate"
  /\ UNCHANGED <<probing, declined, reprobed>> /\ Quiet

\* validate returned nil.
ProbePasses ==
  /\ pc = "validate"
  /\ pc' = "wait"
  /\ vetted' = vetted \cup {target}
  /\ \/ purpose # "health" /\ Promote(target)
     \/ /\ purpose = "health"
        /\ curUnhealthy' = FALSE
        /\ verdict' = [verdict EXCEPT ![target] = "good"]
        /\ UNCHANGED <<model, lastKnownGood>>
  /\ UNCHANGED <<ctxDone, cycles, probing, declined, streams, rejected, reprobed, shutdown>>

\* validate failed, and there are attempts left: sleep (shorter when the
\* context is done) and go round.
ProbeRetries ==
  /\ pc = "validate" /\ attempt < Probes
  /\ pc' = "probe" /\ attempt' = attempt + 1
  /\ UNCHANGED <<purpose, target, declined, reprobed>> /\ Quiet

\* The last attempt failed; when the context is done that may be why.
ProbeFails ==
  /\ pc = "validate" /\ attempt = Probes
  /\ pc' = "failed" /\ cut' = ctxDone
  /\ UNCHANGED <<cells, ctxDone, cycles, probing, declined, streams, verdict, vetted, rejected,
                 reprobed, misjudged, lateAlarms>>

\* The check of the context after a failure found it open: a verdict.
Judged == misjudged' = (misjudged \/ cut) /\ UNCHANGED <<cut, lateAlarms>>

\* A bug: a shutdown during the last attempt counts as a decline.
DeclinesAnyway ==
  /\ pc = "failed" /\ purpose \in {"gateway", "fallback"}
  /\ declined' = target /\ rejected' = rejected \cup {target}
  /\ Judged /\ Goto("announce")
  /\ UNCHANGED <<cells, ctxDone, cycles, streams, verdict, vetted>>

\* tryUpgrade declines the candidate.
Declines ==
  /\ pc = "failed" /\ purpose \in {"gateway", "fallback"} /\ ~ctxDone
  /\ declined' = target /\ rejected' = rejected \cup {target}
  /\ Judged /\ Goto("announce")
  /\ UNCHANGED <<cells, ctxDone, cycles, streams, verdict, vetted>>

\* The context is done: no verdict.
ProbeCancelled ==
  /\ pc \in {"failed", "nocand"} /\ ctxDone
  /\ Goto("wait") /\ UNCHANGED declined /\ Quiet

\* A transient error (throttle, timeout, 5xx) in the health check's last
\* attempt proves nothing.
HealthInconclusive ==
  /\ pc = "failed" /\ purpose = "health" /\ ~ctxDone
  /\ Goto("wait") /\ UNCHANGED declined /\ Quiet

\* The model is gone, or violated the probe's contract: recover, unless a
\* candidate was already declined in this cycle.
HealthFails ==
  /\ pc = "failed" /\ purpose = "health" /\ ~ctxDone
  /\ curUnhealthy' = TRUE
  /\ verdict' = [verdict EXCEPT ![target] = "bad"]
  /\ Judged /\ Goto(IF declined # NoModel THEN "announce" ELSE "recover")
  /\ UNCHANGED <<model, lastKnownGood, ctxDone, cycles, declined, streams, vetted, rejected>>

\* recoveryCandidate: gateway first, catalog second; NoModel when neither
\* has one.
RecoveryCandidates ==
  {NoModel} \cup
  IF ~Parsed(model) THEN {}
  ELSE {m \in Ids : gatewayCandidateOK(m, model) /\ ~sameModel(m, model)}
       \cup UNION {latestCandidate(ids, model) : ids \in SUBSET Ids}

\* The re-resolve returns.  Close may have come before it (no candidate) or
\* during it (either).
Recover ==
  /\ pc = "recover"
  /\ \E m \in RecoveryCandidates :
       \/ m = NoModel /\ Goto("nocand") /\ cut' = ctxDone
       \/ m # NoModel /\ Probing("recovery", m) /\ UNCHANGED cut
  /\ UNCHANGED <<cells, ctxDone, cycles, declined, streams, verdict, vetted, rejected,
                 misjudged, lateAlarms>>

\* There is no replacement, or it failed too.
RecoveryFails ==
  /\ pc = "nocand" \/ (pc = "failed" /\ purpose = "recovery")
  /\ ~ctxDone
  /\ Judged /\ Goto("announce")
  /\ UNCHANGED <<cells, ctxDone, cycles, declined, streams, verdict, vetted, rejected>>

\* notify of a decline or of a failed health check, whatever has become of the
\* context since it was checked, and on with the cycle.
Announce ==
  /\ pc = "announce"
  /\ lateAlarms' = IF ctxDone THEN lateAlarms + 1 ELSE lateAlarms
  /\ \/ purpose = "gateway" /\ Goto("scan")
     \/ purpose = "fallback" /\ AfterResolve
     \/ purpose \in {"health", "recovery"} /\ Goto("wait")
  /\ UNCHANGED <<cells, ctxDone, cycles, declined, streams, verdict, vetted, rejected,
                 cut, misjudged>>

\* A bug: the wait for the next day does not watch the context.
WaitDeaf ==
  /\ pc = "wait"
  /\ cycles < MaxCycles /\ cycles' = cycles + 1 /\ pc' = "resolve"
  /\ declined' = NoModel /\ rejected' = {}
  /\ UNCHANGED <<cells, ctxDone, probing, streams, verdict, vetted, reprobed, shutdown>>

\* run's select between cycles.
Wait ==
  /\ pc = "wait"
  /\ \/ /\ ctxDone
        /\ pc' = "stopped"
        /\ UNCHANGED <<cycles, declined, rejected>>
     \/ /\ cycles < MaxCycles /\ cycles' = cycles + 1
        /\ pc' = "resolve"
        /\ declined' = NoModel /\ rejected' = {}
  /\ UNCHANGED <<cells, ctxDone, probing, streams, verdict, vetted, reprobed, shutdown>>

\* Close of the node, at any moment.
Close ==
  /\ ~ctxDone /\ ctxDone' = TRUE
  /\ UNCHANGED <<cells, pc, cycles, probing, declined, streams, history>>

-----------------------------------------------------------------------------
(* A request.                                                               *)

StreamBegins(r) ==
  /\ st[r] = "new"
  /\ st' = [st EXCEPT ![r] = "first"]
  /\ used' = [used EXCEPT ![r] = {model}]
  /\ UNCHANGED <<cells, ctxDone, pc, cycles, probing, declined, history>>

\* The invocation answered, or failed for a reason that is not the model.
StreamEnds(r) ==
  /\ st[r] \in {"first", "again"}
  /\ st' = [st EXCEPT ![r] = "done"]
  /\ UNCHANGED <<cells, ctxDone, pc, cycles, probing, declined, used, history>>

\* isModelUnavailable: one more try, with the fallback of this moment.
StreamFallsBack(r) ==
  /\ st[r] = "first" /\ lastKnownGood # NoModel /\ lastKnownGood \notin used[r]
  /\ st' = [st EXCEPT ![r] = "again"]
  /\ used' = [used EXCEPT ![r] = @ \cup {lastKnownGood}]
  /\ UNCHANGED <<cells, ctxDone, pc, cycles, probing, declined, history>>

-----------------------------------------------------------------------------
Updater == \/ Resolve \/ Scan \/ ProbeBegins \/ ProbePasses \/ ProbeRetries \/ ProbeFails
           \/ Declines \/ ProbeCancelled \/ HealthInconclusive \/ HealthFails \/ Recover
           \/ RecoveryFails \/ Announce \/ Wait

Next == \/ Updater \/ Close
        \/ \E r \in Requests : StreamBegins(r) \/ StreamEnds(r) \/ StreamFallsBack(r)

Spec == Init /\ [][Next]_vars

(* The updater's goroutine runs; its calls all have timeouts.               *)
FairSpec == Spec /\ WF_vars(Updater)

-----------------------------------------------------------------------------
(* The type invariant. *)
TypeOK ==
  /\ model \in Ids /\ lastKnownGood \in Ids \cup {NoModel} /\ curUnhealthy \in BOOLEAN
  /\ ctxDone \in BOOLEAN
  /\ pc \in Places
  /\ cycles \in Nat /\ purpose \in Purposes /\ target \in Ids /\ attempt \in 1..Probes
  /\ declined \in Ids \cup {NoModel}
  /\ st \in [Requests -> {"new", "first", "again", "done"}]
  /\ used \in [Requests -> SUBSET Ids]
  /\ verdict \in [Ids -> {"none", "good", "bad"}] /\ vetted \subseteq Ids /\ rejected \subseteq Ids
  /\ reprobed \in BOOLEAN /\ cut \in BOOLEAN /\ misjudged \in BOOLEAN /\ lateAlarms \in Nat

(* factory.go: the fallback is never the model in use, and never a model    *)
(* that was found broken when it was last in use, over days on which health *)
(* checks fail without a replacement, recoveries, rollbacks and upgrades.   *)
LkgSound == lastKnownGood # NoModel =>
              lastKnownGood # model /\ verdict[lastKnownGood] # "bad"

(* No request ever reaches a model that has not passed a probe, other than  *)
(* the configured or pinned one, and the updater never leaves the family of *)
(* that one, whatever gateway and catalog answer.                           *)
VettedModels ==
  \A m \in {model} \cup ({lastKnownGood} \ {NoModel}) \cup UNION {used[r] : r \in Requests} :
    m \in vetted /\ \A v \in vetted : v.family = m.family

(* autoupdate.go, "Shutdown, not a verdict on the candidate": no candidate  *)
(* is declined, and no model called broken, on the word of a probe or of a  *)
(* re-resolve that Close may have cut short.  The context is checked before *)
(* the alarm goes out, not while it does, so one can still follow Close,    *)
(* but only that one: whatever the cycle had left to do stays undone.       *)
ShutdownNoVerdict == ~misjudged /\ lateAlarms <= 1

(* healthCheck, "must not spend a recovery on a candidate this cycle        *)
(* already rejected": no release declined in a cycle is probed again in it, *)
(* by the scan or by the recovery.                                          *)
NoSecondProbe == ~reprobed

(* Close ends the updater's goroutine, wherever it was.                     *)
CloseStops == ctxDone ~> (pc \in {"stopped", "off"})
=============================================================================
