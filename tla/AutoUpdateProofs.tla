-------------------------- MODULE AutoUpdateProofs --------------------------
(***************************************************************************)
(* For any set of model ids, any number of probes, requests and days, and  *)
(* any answers of gateway, catalog and models: the fallback of the Bedrock *)
(* node is sound, only vetted models of one family are ever used, shutdown *)
(* is no verdict and leaves at most one alarm to come, no release is probed *)
(* twice in a cycle that declined it, and cycles and shutdown are over in a *)
(* bounded number of steps.                                                *)
(***************************************************************************)
EXTENDS AutoUpdate, TLAPS

(* The probe loop is at work. *)
AtProbe == pc \in {"probe", "validate", "failed"}

(* A health check probes the model in use: only the updater changes it.     *)
HealthTarget == (AtProbe /\ purpose = "health") => target = model

(* The updater remembers a conclusive failure of the model in use.  Without *)
(* it LkgSound is not inductive: the upgrade of a later day would record    *)
(* the broken model.                                                        *)
BadIsKnown == verdict[model] = "bad" => curUnhealthy

LkgInv == TypeOK /\ HealthTarget /\ BadIsKnown /\ LkgSound

(* Every cell and every request holds a vetted model; the vetted ones and   *)
(* the one under probe are of the family of the model in use.               *)
Holders ==
  /\ model \in vetted
  /\ lastKnownGood \in vetted \cup {NoModel}
  /\ \A r \in Requests : used[r] \subseteq vetted

OneFamily ==
  /\ \A v \in vetted : v.family = model.family
  /\ AtProbe => target.family = model.family

VettedInv == Holders /\ OneFamily

-----------------------------------------------------------------------------
(* A catalog candidate is one of the listed ids, of the same family.        *)
LEMMA CatalogCandidate ==
  ASSUME NEW ids \in SUBSET Ids, NEW cur, NEW m \in latestCandidate(ids, cur)
  PROVE  m \in Ids /\ m.family = cur.family
<1>1. m \in ids /\ <<m.prefix, m.family>> = <<cur.prefix, cur.family>>
  BY DEF latestCandidate, Line
<1> QED BY <1>1

(* A recovery candidate is an id of the family of the model in use.         *)
LEMMA RecoveryCandidate ==
  ASSUME NEW m \in RecoveryCandidates, m # NoModel
  PROVE  m \in Ids /\ m.family = model.family
<1>1. CASE m \in Ids /\ gatewayCandidateOK(m, model)
  BY <1>1 DEF gatewayCandidateOK
<1>2. CASE \E ids \in SUBSET Ids : m \in latestCandidate(ids, model)
  BY <1>2, CatalogCandidate
<1> QED BY <1>1, <1>2 DEF RecoveryCandidates

(* The initial state has the types of TypeOK.                               *)
LEMMA InitType == Init => TypeOK
<1> SUFFICES ASSUME Init PROVE TypeOK
  OBVIOUS
<1>1. attempt \in 1..Probes /\ cycles \in Nat
  BY UpdateBounds DEF Init
<1>2. /\ st \in [Requests -> {"new", "first", "again", "done"}]
      /\ used \in [Requests -> SUBSET Ids]
      /\ verdict \in [Ids -> {"none", "good", "bad"}]
  BY DEF Init
<1>3. curUnhealthy \in BOOLEAN /\ ctxDone \in BOOLEAN /\ reprobed \in BOOLEAN
      /\ cut \in BOOLEAN /\ misjudged \in BOOLEAN /\ lateAlarms \in Nat
  BY DEF Init
<1>4. /\ model \in Ids /\ lastKnownGood \in Ids \cup {NoModel} /\ purpose \in Purposes
      /\ target \in Ids /\ declined \in Ids \cup {NoModel}
      /\ pc \in Places
      /\ vetted \subseteq Ids /\ rejected \subseteq Ids
  BY DEF Init, Purposes, Places
<1> QED BY <1>1, <1>2, <1>3, <1>4 DEF TypeOK

(* Where the updater goes next has the types of TypeOK.                     *)
ControlType == /\ pc' \in Places
               /\ purpose' \in Purposes /\ target' \in Ids /\ attempt' \in 1..Probes
               /\ reprobed' \in BOOLEAN

(* Beginning a probe loop keeps the types.                                  *)
LEMMA ProbingType ==
  ASSUME TypeOK, NEW why \in Purposes, NEW m \in Ids, Probing(why, m)
  PROVE  ControlType
<1>1. reprobed' \in BOOLEAN
  <2>1. reprobed' = (reprobed \/ \E d \in rejected : sameModel(d, m))
    BY DEF Probing
  <2> QED BY <2>1, Zenon
<1>2. attempt' \in 1..Probes
  BY UpdateBounds DEF Probing
<1> QED BY <1>1, <1>2 DEF Probing, ControlType, Places

(* Moving on without a probe keeps the types.                               *)
LEMMA GotoType ==
  ASSUME TypeOK, NEW l \in {"scan", "recover", "nocand", "announce", "wait"}, Goto(l)
  PROVE  ControlType
BY DEF TypeOK, Goto, ControlType, probing, Places

(* So does runOnce after resolveAndUpgrade.                                 *)
LEMMA AfterResolveType ==
  ASSUME TypeOK, AfterResolve
  PROVE  ControlType
<1>1. CASE ctxDone
  BY <1>1, GotoType DEF AfterResolve
<1>2. CASE ~ctxDone
  BY <1>2, ProbingType DEF AfterResolve, TypeOK, Purposes
<1> QED BY <1>1, <1>2

(* The history of a verdict keeps its types.                                *)
LEMMA JudgedType ==
  ASSUME TypeOK, Judged
  PROVE  cut' \in BOOLEAN /\ misjudged' \in BOOLEAN /\ lateAlarms' \in Nat
<1>1. misjudged' = (misjudged \/ cut) /\ cut' = cut /\ lateAlarms' = lateAlarms
  BY DEF Judged
<1>2. cut' \in BOOLEAN /\ lateAlarms' \in Nat
  BY <1>1 DEF TypeOK
<1> QED BY <1>1, <1>2, Zenon

(* The updater and the requests keep their types (TypeOK), the attempts of  *)
(* a probe within validationAttempts among them.                            *)
THEOREM TypeCorrect == Spec => []TypeOK
<1>1. Init => TypeOK
  BY InitType
<1>2. TypeOK /\ [Next]_vars => TypeOK'
  <2> SUFFICES ASSUME TypeOK, [Next]_vars PROVE TypeOK'
    OBVIOUS
  <2>1. CASE Resolve
    <3>1. ControlType
      BY <2>1, AfterResolveType, GotoType, ProbingType DEF Resolve, Purposes
    <3> QED BY <2>1, <3>1 DEF Resolve, Quiet, cells, streams, shutdown, TypeOK, ControlType
  <2>2. CASE Scan
    <3>1. ASSUME NEW ids \in SUBSET Ids, NEW m \in latestCandidate(ids, model)
          PROVE  m \in Ids
      BY <3>1, CatalogCandidate
    <3>2. ControlType
      BY <2>2, <3>1, AfterResolveType, GotoType, ProbingType DEF Scan, Purposes
    <3> QED BY <2>2, <3>2 DEF Scan, Quiet, cells, streams, shutdown, TypeOK, ControlType
  <2>3. CASE ProbeBegins
    BY <2>3 DEF ProbeBegins, Quiet, cells, probing, streams, shutdown, TypeOK, Places
  <2>4. CASE ProbePasses
    BY <2>4 DEF ProbePasses, Promote, swapModel, recoverModel, probing, streams, shutdown, TypeOK, Places
  <2>5. CASE ProbeRetries \/ ProbeFails
    BY <2>5, UpdateBounds DEF ProbeRetries, ProbeFails, Quiet, cells, probing, streams, shutdown,
                              TypeOK, Places
  <2>6. CASE Declines
    <3>1. ControlType
      BY <2>6, GotoType DEF Declines
    <3>2. cut' \in BOOLEAN /\ misjudged' \in BOOLEAN /\ lateAlarms' \in Nat
      BY <2>6, JudgedType DEF Declines
    <3> QED BY <2>6, <3>1, <3>2 DEF Declines, cells, streams, TypeOK, ControlType
  <2>7. CASE ProbeCancelled \/ HealthInconclusive
    BY <2>7 DEF ProbeCancelled, HealthInconclusive, Quiet, Goto, cells, probing, streams, shutdown,
                TypeOK, Places
  <2>8. CASE HealthFails
    <3>1. ControlType
      BY <2>8, GotoType DEF HealthFails
    <3>2. cut' \in BOOLEAN /\ misjudged' \in BOOLEAN /\ lateAlarms' \in Nat
      BY <2>8, JudgedType DEF HealthFails
    <3> QED BY <2>8, <3>1, <3>2 DEF HealthFails, streams, TypeOK, ControlType
  <2>9. CASE Recover
    <3>1. ControlType
      BY <2>9, RecoveryCandidate, GotoType, ProbingType DEF Recover, Purposes
    <3>2. cut' \in BOOLEAN
      BY <2>9 DEF Recover, TypeOK
    <3> QED BY <2>9, <3>1, <3>2 DEF Recover, cells, streams, TypeOK, ControlType
  <2>10. CASE RecoveryFails
    <3>1. ControlType
      BY <2>10, GotoType DEF RecoveryFails
    <3>2. cut' \in BOOLEAN /\ misjudged' \in BOOLEAN /\ lateAlarms' \in Nat
      BY <2>10, JudgedType DEF RecoveryFails
    <3> QED BY <2>10, <3>1, <3>2 DEF RecoveryFails, cells, streams, TypeOK, ControlType
  <2>11. CASE Wait
    BY <2>11 DEF Wait, cells, probing, streams, shutdown, TypeOK, Places
  <2>15. CASE Announce
    <3>1. ControlType
      BY <2>15, GotoType, AfterResolveType DEF Announce
    <3>2. lateAlarms' \in Nat
      BY <2>15 DEF Announce, TypeOK
    <3> QED BY <2>15, <3>1, <3>2 DEF Announce, cells, streams, TypeOK, ControlType
  <2>12. CASE Close
    BY <2>12 DEF Close, cells, probing, streams, history, shutdown, TypeOK
  <2>13. ASSUME NEW r \in Requests, StreamBegins(r) \/ StreamEnds(r) \/ StreamFallsBack(r)
         PROVE  TypeOK'
    BY <2>13 DEF StreamBegins, StreamEnds, StreamFallsBack, cells, probing, history, shutdown, TypeOK
  <2>14. CASE UNCHANGED vars
    BY <2>14 DEF vars, cells, probing, streams, history, shutdown, TypeOK
  <2> QED BY <2>1, <2>2, <2>3, <2>4, <2>5, <2>6, <2>7, <2>8, <2>9, <2>10, <2>11, <2>12,
             <2>13, <2>14, <2>15 DEF Next, Updater
<1> QED BY <1>1, <1>2, PTL DEF Spec

-----------------------------------------------------------------------------
(* The steps other than a verdict on the model in use leave the cells and   *)
(* the verdicts alone, and begin a health check only of the model in use.   *)
LEMMA QuietKeepsLkg ==
  ASSUME LkgInv, TypeOK', UNCHANGED <<cells, verdict>>,
         \/ UNCHANGED <<purpose, target>> /\ (AtProbe' => AtProbe)
         \/ ~AtProbe'
         \/ purpose' # "health"
         \/ target' = model
  PROVE  LkgInv'
BY DEF LkgInv, HealthTarget, AtProbe, BadIsKnown, LkgSound, cells

(* factory.go's promise (LkgSound): the last-known-good model is never the  *)
(* model in use, and never one that was found broken when last in use.      *)
THEOREM FallbackSound == Spec => []LkgSound
<1>1. Init => LkgInv
  <2> SUFFICES ASSUME Init PROVE LkgInv
    OBVIOUS
  <2>1. TypeOK
    BY InitType
  <2> QED BY <2>1 DEF Init, LkgInv, HealthTarget, AtProbe, BadIsKnown, LkgSound
<1>2. LkgInv /\ TypeOK' /\ [Next]_vars => LkgInv'
  <2> SUFFICES ASSUME LkgInv, TypeOK', [Next]_vars PROVE LkgInv'
    OBVIOUS
  <2>1. CASE Resolve
    BY <2>1, QuietKeepsLkg DEF Resolve, Quiet, AfterResolve, Goto, Probing, probing, AtProbe
  <2>2. CASE Scan
    BY <2>2, QuietKeepsLkg DEF Scan, Quiet, AfterResolve, Goto, Probing, probing, AtProbe
  <2>3. CASE ProbeBegins
    BY <2>3, QuietKeepsLkg DEF ProbeBegins, Quiet, probing, AtProbe
  <2>4. CASE ProbePasses
    <3>1. CASE purpose # "health"
      BY <2>4, <3>1 DEF ProbePasses, Promote, swapModel, recoverModel, probing, LkgInv, TypeOK,
                        HealthTarget, AtProbe, BadIsKnown, LkgSound
    <3>2. CASE purpose = "health"
      BY <2>4, <3>2 DEF ProbePasses, probing, LkgInv, TypeOK,
                        HealthTarget, AtProbe, BadIsKnown, LkgSound
    <3> QED BY <3>1, <3>2
  <2>5. CASE ProbeRetries \/ ProbeFails
    BY <2>5, QuietKeepsLkg DEF ProbeRetries, ProbeFails, Quiet, probing, AtProbe
  <2>6. CASE Declines
    BY <2>6, QuietKeepsLkg DEF Declines, Goto, probing, AtProbe
  <2>7. CASE ProbeCancelled \/ HealthInconclusive
    BY <2>7, QuietKeepsLkg DEF ProbeCancelled, HealthInconclusive, Quiet, Goto, probing, AtProbe
  <2>8. CASE HealthFails
    BY <2>8 DEF HealthFails, Goto, probing, LkgInv, TypeOK, HealthTarget, AtProbe, BadIsKnown,
                LkgSound
  <2>9. CASE Recover
    BY <2>9, QuietKeepsLkg DEF Recover, Goto, Probing, probing, AtProbe
  <2>10. CASE RecoveryFails
    BY <2>10, QuietKeepsLkg DEF RecoveryFails, Goto, probing, AtProbe
  <2>11. CASE Wait
    BY <2>11, QuietKeepsLkg DEF Wait, probing, AtProbe
  <2>15. CASE Announce
    BY <2>15, QuietKeepsLkg DEF Announce, AfterResolve, Goto, Probing, probing, AtProbe
  <2>12. CASE Close
    BY <2>12, QuietKeepsLkg DEF Close, probing, history, AtProbe
  <2>13. ASSUME NEW r \in Requests, StreamBegins(r) \/ StreamEnds(r) \/ StreamFallsBack(r)
         PROVE  LkgInv'
    BY <2>13, QuietKeepsLkg DEF StreamBegins, StreamEnds, StreamFallsBack, probing, history, AtProbe
  <2>14. CASE UNCHANGED vars
    BY <2>14, QuietKeepsLkg DEF vars, probing, history, AtProbe
  <2> QED BY <2>1, <2>2, <2>3, <2>4, <2>5, <2>6, <2>7, <2>8, <2>9, <2>10, <2>11, <2>12,
             <2>13, <2>14, <2>15 DEF Next, Updater
<1>3. LkgInv => LkgSound
  BY DEF LkgInv
<1> QED BY <1>1, <1>2, <1>3, TypeCorrect, PTL DEF Spec

-----------------------------------------------------------------------------
(* The steps that promote nothing and start no request.                     *)
LEMMA QuietKeepsVetted ==
  ASSUME VettedInv, UNCHANGED <<cells, vetted, used>>,
         \/ target' = target /\ (AtProbe' => AtProbe)
         \/ ~AtProbe'
         \/ target'.family = model.family
  PROVE  VettedInv'
BY DEF VettedInv, Holders, OneFamily, AtProbe, cells

(* A health check probes a model of the family in use.                      *)
LEMMA AfterResolveInFamily ==
  ASSUME AfterResolve
  PROVE  ~AtProbe' \/ target'.family = model.family
BY DEF AfterResolve, Goto, Probing, AtProbe

(* Whatever gateway and catalog answer, only models that passed a probe,    *)
(* all of the family of the first one, are in use, kept as fallback or      *)
(* invoked by a request (VettedModels).                                     *)
THEOREM OnlyVetted == Spec => []VettedModels
<1>1. Init => VettedInv
  BY DEF Init, VettedInv, Holders, OneFamily, AtProbe
<1>2. VettedInv /\ TypeOK /\ [Next]_vars => VettedInv'
  <2> SUFFICES ASSUME VettedInv, TypeOK, [Next]_vars PROVE VettedInv'
    OBVIOUS
  <2>1. CASE Resolve
    <3>1. ~AtProbe' \/ target'.family = model.family
      BY <2>1, AfterResolveInFamily DEF Resolve, Goto, Probing, gatewayCandidateOK, AtProbe
    <3> QED BY <2>1, <3>1, QuietKeepsVetted DEF Resolve, Quiet, streams
  <2>2. CASE Scan
    <3>1. ~AtProbe' \/ target'.family = model.family
      BY <2>2, AfterResolveInFamily, CatalogCandidate DEF Scan, Goto, Probing, AtProbe
    <3> QED BY <2>2, <3>1, QuietKeepsVetted DEF Scan, Quiet, streams
  <2>3. CASE ProbeBegins
    BY <2>3, QuietKeepsVetted DEF ProbeBegins, Quiet, probing, streams, AtProbe
  <2>4. CASE ProbePasses
    <3>1. model' \in {model, target} /\ lastKnownGood' \in {lastKnownGood, model, NoModel}
      BY <2>4 DEF ProbePasses, Promote, swapModel, recoverModel
    <3>2. target.family = model.family
      BY <2>4 DEF ProbePasses, VettedInv, OneFamily, AtProbe
    <3>3. vetted' = vetted \cup {target} /\ used' = used /\ pc' = "wait"
      BY <2>4 DEF ProbePasses, streams
    <3> QED BY <3>1, <3>2, <3>3 DEF VettedInv, Holders, OneFamily, AtProbe
  <2>5. CASE ProbeRetries \/ ProbeFails
    BY <2>5, QuietKeepsVetted DEF ProbeRetries, ProbeFails, Quiet, probing, streams, AtProbe
  <2>6. CASE Announce
    <3>1. ~AtProbe' \/ target'.family = model.family
      BY <2>6, AfterResolveInFamily DEF Announce, Goto, AtProbe
    <3> QED BY <2>6, <3>1, QuietKeepsVetted DEF Announce, streams
  <2>7. CASE ProbeCancelled \/ HealthInconclusive \/ Declines \/ RecoveryFails
    BY <2>7, QuietKeepsVetted DEF ProbeCancelled, HealthInconclusive, Declines, RecoveryFails,
                                  Quiet, Goto, streams, AtProbe
  <2>8. CASE HealthFails
    BY <2>8 DEF HealthFails, Goto, streams, VettedInv, Holders, OneFamily, AtProbe
  <2>9. CASE Recover
    <3>1. ~AtProbe' \/ target'.family = model.family
      BY <2>9, RecoveryCandidate DEF Recover, Goto, Probing, AtProbe
    <3> QED BY <2>9, <3>1, QuietKeepsVetted DEF Recover, streams
  <2>10. CASE Wait \/ Close
    BY <2>10, QuietKeepsVetted DEF Wait, Close, probing, streams, history, AtProbe
  <2>11. ASSUME NEW r \in Requests, StreamBegins(r) \/ StreamEnds(r) \/ StreamFallsBack(r)
         PROVE  VettedInv'
    <3>1. \A q \in Requests : used'[q] \subseteq vetted
      BY <2>11 DEF StreamBegins, StreamEnds, StreamFallsBack, VettedInv, Holders, TypeOK
    <3> QED BY <2>11, <3>1 DEF StreamBegins, StreamEnds, StreamFallsBack, VettedInv, Holders,
                               OneFamily, AtProbe, cells, probing, history
  <2>12. CASE UNCHANGED vars
    BY <2>12, QuietKeepsVetted DEF vars, probing, streams, history, AtProbe
  <2> QED BY <2>1, <2>2, <2>3, <2>4, <2>5, <2>6, <2>7, <2>8, <2>9, <2>10, <2>11, <2>12
          DEF Next, Updater
<1>3. VettedInv => VettedModels
  <2> SUFFICES ASSUME VettedInv,
                      NEW m \in {model} \cup ({lastKnownGood} \ {NoModel})
                                \cup UNION {used[r] : r \in Requests}
               PROVE  m \in vetted /\ \A v \in vetted : v.family = m.family
    BY DEF VettedModels
  <2>1. m \in vetted
    BY DEF VettedInv, Holders
  <2> QED BY <2>1 DEF VettedInv, OneFamily
<1> QED BY <1>1, <1>2, <1>3, TypeCorrect, PTL DEF Spec

-----------------------------------------------------------------------------
(* A failure cut short by Close came after it; an alarm that follows Close   *)
(* is the cycle's last, for none of the places it can go on to calls a model *)
(* with the context done.                                                   *)
ShutdownInv ==
  /\ cut => ctxDone
  /\ ~misjudged
  /\ lateAlarms \in {0, 1}
  /\ lateAlarms = 1 => ctxDone /\ pc \in {"resolve", "scan", "probe", "wait", "stopped"}

(* "Shutdown, not a verdict on the candidate" (ShutdownNoVerdict): wherever *)
(* Close falls, no decline and no broken model rests on a call that it may  *)
(* have cut short, and at most one alarm follows it.                        *)
THEOREM ShutdownIsNoVerdict == Spec => []ShutdownNoVerdict
<1>1. Init => ShutdownInv
  BY DEF Init, ShutdownInv
<1>2. ShutdownInv /\ [Next]_vars => ShutdownInv'
  <2> SUFFICES ASSUME ShutdownInv, [Next]_vars PROVE ShutdownInv'
    OBVIOUS
  <2> USE DEF ShutdownInv
  <2>1. ASSUME UNCHANGED shutdown, ctxDone => ctxDone',
               \/ lateAlarms = 0
               \/ pc' \in {"resolve", "scan", "probe", "wait", "stopped"}
        PROVE  ShutdownInv'
    BY <2>1 DEF shutdown
  <2>2. AfterResolve => pc' \in {"probe", "wait"}
    BY DEF AfterResolve, Goto, Probing
  <2>3. CASE Resolve \/ Scan
    BY <2>1, <2>2, <2>3 DEF Resolve, Scan, Goto, Probing, Quiet
  <2>4. CASE ProbeBegins
    <3>1. lateAlarms = 1 => pc' = "wait"
      BY <2>4 DEF ProbeBegins
    <3> QED BY <2>1, <2>4, <3>1 DEF ProbeBegins, Quiet
  <2>5. CASE ProbePasses \/ ProbeRetries
    BY <2>1, <2>5 DEF ProbePasses, ProbeRetries, Quiet
  <2>6. CASE ProbeFails
    BY <2>6 DEF ProbeFails
  <2>7. ASSUME Judged, ~ctxDone, UNCHANGED ctxDone PROVE ShutdownInv'
    BY <2>7 DEF Judged
  <2>8. CASE Declines \/ HealthFails \/ RecoveryFails
    BY <2>7, <2>8 DEF Declines, HealthFails, RecoveryFails
  <2>9. CASE ProbeCancelled \/ HealthInconclusive
    BY <2>1, <2>9 DEF ProbeCancelled, HealthInconclusive, Goto, Quiet
  <2>10. CASE Recover
    BY <2>10 DEF Recover
  <2>11. CASE Announce
    <3>1. lateAlarms = 0 /\ pc' \in {"scan", "probe", "wait"}
      BY <2>2, <2>11 DEF Announce, Goto
    <3> QED BY <2>11, <3>1 DEF Announce
  <2>12. CASE Wait \/ Close
    BY <2>1, <2>12 DEF Wait, Close, history
  <2>13. ASSUME NEW r \in Requests, StreamBegins(r) \/ StreamEnds(r) \/ StreamFallsBack(r)
         PROVE  ShutdownInv'
    BY <2>1, <2>13 DEF StreamBegins, StreamEnds, StreamFallsBack, history
  <2>14. CASE UNCHANGED vars
    BY <2>1, <2>14 DEF vars, history
  <2> QED BY <2>3, <2>4, <2>5, <2>6, <2>8, <2>9, <2>10, <2>11, <2>12, <2>13, <2>14
          DEF Next, Updater
<1>3. ShutdownInv => ShutdownNoVerdict
  BY DEF ShutdownInv, ShutdownNoVerdict
<1> QED BY <1>1, <1>2, <1>3, PTL DEF Spec

-----------------------------------------------------------------------------
(* What the cycle knows of the candidates it has declined.  The scan has at *)
(* most the gateway's behind it, which declined remembers; neither that one *)
(* nor the catalog's is the release in use, so the health check probes none *)
(* of them; and a recovery begins only in a cycle that declined nothing.    *)
Underway == pc \notin {"wait", "stopped"}
Fresh == \/ pc \in {"off", "resolve", "recover"}
         \/ AtProbe /\ purpose \in {"gateway", "recovery"}

DeclinedInv ==
  /\ ~reprobed
  /\ declined = NoModel => rejected = {}
  /\ Fresh => rejected = {}
  /\ pc = "scan" \/ (pc = "announce" /\ purpose = "gateway") => rejected \subseteq {declined}
  /\ Underway => \A d \in rejected : ~sameModel(d, model)
  /\ AtProbe /\ purpose \in {"gateway", "fallback"} => ~sameModel(target, model)

(* Two ids name one release in either order.                                *)
LEMMA SameEitherWay ==
  ASSUME NEW a, NEW b
  PROVE  sameModel(a, b) <=> sameModel(b, a)
BY DEF sameModel

(* A newer release of the catalog is not the release in use.                *)
LEMMA NewerIsOther ==
  ASSUME NEW ids \in SUBSET Ids, NEW cur \in Ids, NEW m \in latestCandidate(ids, cur)
  PROVE  m \in Ids /\ ~sameModel(m, cur)
<1>1. m \in ids /\ Parsed(m) /\ Line(m) = Line(cur) /\ m.ver > cur.ver
  BY DEF latestCandidate
<1>2. m.family = cur.family
  BY <1>1 DEF Line
<1>3. Parsed(cur)
  BY <1>1, <1>2 DEF Parsed
<1>4. m.ver # cur.ver
  <2>1. m.ver \in Int /\ cur.ver \in Int
    BY <1>1, UpdateBounds
  <2> QED BY <1>1, <2>1
<1> QED BY <1>1, <1>3, <1>4 DEF sameModel

(* Beginning a probe of a release that the cycle has not declined.          *)
LEMMA ProbesAnother ==
  ASSUME ~reprobed, NEW why, NEW m, Probing(why, m), \A d \in rejected : ~sameModel(d, m)
  PROVE  ~reprobed' /\ pc' = "probe" /\ purpose' = why /\ target' = m
BY DEF Probing

(* The health check of a cycle: of the model in use, which nothing declined *)
(* in this cycle names.                                                     *)
LEMMA HealthIsFirstProbe ==
  ASSUME ~reprobed, AfterResolve, \A d \in rejected : ~sameModel(d, model)
  PROVE  /\ ~reprobed'
         /\ pc' = "wait" \/ (pc' = "probe" /\ purpose' = "health")
<1>1. CASE ctxDone
  BY <1>1 DEF AfterResolve, Goto
<1>2. CASE ~ctxDone
  BY <1>2, ProbesAnother DEF AfterResolve
<1> QED BY <1>1, <1>2

(* A recovery is looked for by the health check.                            *)
Recovering == pc \in {"recover", "nocand"} => purpose = "health"

LEMMA RecoveringForHealth == Spec => []Recovering
<1>1. Init => Recovering
  BY DEF Init, Recovering
<1>2. Recovering /\ [Next]_vars => Recovering'
  <2> SUFFICES ASSUME Recovering, [Next]_vars PROVE Recovering'
    OBVIOUS
  <2> USE DEF Recovering
  <2>1. CASE Resolve \/ Scan
    BY <2>1 DEF Resolve, Scan, AfterResolve, Goto, Probing
  <2>2. CASE ProbeBegins \/ ProbePasses \/ ProbeRetries \/ ProbeFails
    BY <2>2 DEF ProbeBegins, ProbePasses, ProbeRetries, ProbeFails
  <2>3. CASE Declines \/ ProbeCancelled \/ HealthInconclusive \/ RecoveryFails
    BY <2>3 DEF Declines, ProbeCancelled, HealthInconclusive, RecoveryFails, Goto
  <2>4. CASE HealthFails
    BY <2>4 DEF HealthFails, Goto, probing
  <2>5. CASE Recover
    BY <2>5 DEF Recover, Goto, Probing, probing
  <2>6. CASE Announce
    BY <2>6 DEF Announce, AfterResolve, Goto, Probing
  <2>7. CASE Wait
    BY <2>7 DEF Wait
  <2>8. CASE Close \/ UNCHANGED vars
    BY <2>8 DEF Close, vars, probing
  <2>9. ASSUME NEW r \in Requests, StreamBegins(r) \/ StreamEnds(r) \/ StreamFallsBack(r)
        PROVE  Recovering'
    BY <2>9 DEF StreamBegins, StreamEnds, StreamFallsBack, probing
  <2> QED BY <2>1, <2>2, <2>3, <2>4, <2>5, <2>6, <2>7, <2>8, <2>9 DEF Next, Updater
<1> QED BY <1>1, <1>2, PTL DEF Spec

(* healthCheck "must not spend a recovery on a candidate this cycle already *)
(* rejected" (NoSecondProbe): over any number of days and whatever gateway  *)
(* and catalog name, no release is probed again in the cycle that declined  *)
(* it, by the scan, by the health check or by a recovery.                   *)
THEOREM ProbedOnce == Spec => []NoSecondProbe
<1>1. Init => DeclinedInv
  BY DEF Init, DeclinedInv, Fresh, Underway, AtProbe
<1>2. DeclinedInv /\ TypeOK /\ Recovering /\ [Next]_vars => DeclinedInv'
  <2> SUFFICES ASSUME DeclinedInv, TypeOK, Recovering, [Next]_vars PROVE DeclinedInv'
    OBVIOUS
  <2> USE DEF DeclinedInv, Fresh, Underway, AtProbe
  <2>0. model \in Ids /\ target \in Ids /\ target # NoModel
    BY UpdateBounds DEF TypeOK
  <2>1. ASSUME UNCHANGED <<declined, rejected, model>>, ~reprobed',
               \/ pc' = "wait"
               \/ pc' = "probe" /\ purpose' = "health" /\ Underway
               \/ pc' \in {"nocand", "announce"} /\ purpose' \in {"health", "recovery"} /\ Underway
        PROVE  DeclinedInv'
    BY <2>1
  <2>2. CASE Resolve
    <3>1. rejected = {} /\ UNCHANGED <<declined, rejected, model>>
      BY <2>2 DEF Resolve, Quiet, cells
    <3>2. CASE AfterResolve
      BY <2>1, <2>2, <3>1, <3>2, HealthIsFirstProbe DEF Resolve
    <3>3. CASE Goto("scan")
      BY <3>1, <3>3 DEF Goto, probing
    <3>4. ASSUME NEW id \in Ids, ~sameModel(id, model), Probing("gateway", id)
          PROVE  DeclinedInv'
      BY <3>1, <3>4, ProbesAnother
    <3> QED BY <2>2, <3>2, <3>3, <3>4 DEF Resolve
  <2>3. CASE Scan
    <3>1. rejected \subseteq {declined} /\ UNCHANGED <<declined, rejected, model>>
      BY <2>3 DEF Scan, Quiet, cells
    <3>2. CASE AfterResolve
      BY <2>1, <2>3, <3>1, <3>2, HealthIsFirstProbe DEF Scan
    <3>3. CASE Goto("wait")
      BY <2>1, <3>1, <3>3 DEF Goto
    <3>4. ASSUME NEW ids \in SUBSET Ids, NEW m \in latestCandidate(ids, model),
                 Probing("fallback", m), declined = NoModel \/ ~sameModel(m, declined)
          PROVE  DeclinedInv'
      <4>1. ~sameModel(m, model)
        BY <2>0, <3>4, NewerIsOther
      <4>2. \A d \in rejected : ~sameModel(d, m)
        BY <3>1, <3>4, SameEitherWay
      <4>3. ~reprobed' /\ pc' = "probe" /\ purpose' = "fallback" /\ target' = m
        BY <3>4, <4>2, ProbesAnother
      <4> QED BY <2>3, <3>1, <4>1, <4>3 DEF Scan
    <3> QED BY <2>3, <3>2, <3>3, <3>4 DEF Scan
  <2>4. CASE ProbeBegins
    BY <2>4 DEF ProbeBegins, Quiet, cells, probing
  <2>5. CASE ProbePasses
    BY <2>5 DEF ProbePasses
  <2>6. CASE ProbeRetries \/ ProbeFails
    BY <2>6 DEF ProbeRetries, ProbeFails, Quiet, cells, probing
  <2>7. CASE Declines
    <3>1. /\ declined' = target /\ rejected' = rejected \cup {target} /\ model' = model
          /\ pc = "failed" /\ purpose \in {"gateway", "fallback"}
          /\ pc' = "announce" /\ purpose' = purpose /\ reprobed' = reprobed
      BY <2>7 DEF Declines, Goto, cells, probing
    <3>2. \A d \in rejected' : ~sameModel(d, model)
      BY <3>1
    <3>3. purpose = "gateway" => rejected' \subseteq {declined'}
      BY <3>1
    <3> QED BY <2>0, <3>1, <3>2, <3>3
  <2>8. CASE ProbeCancelled \/ HealthInconclusive
    BY <2>1, <2>8 DEF ProbeCancelled, HealthInconclusive, Goto, Quiet, cells
  <2>9. CASE HealthFails
    <3>1. UNCHANGED <<declined, rejected, model, reprobed, purpose>> /\ purpose = "health" /\ Underway
      BY <2>9 DEF HealthFails, Goto, probing
    <3>2. pc' = "announce" \/ (pc' = "recover" /\ declined = NoModel)
      BY <2>9 DEF HealthFails, Goto
    <3> QED BY <3>1, <3>2
  <2>10. CASE Recover
    <3>1. rejected = {} /\ UNCHANGED <<declined, rejected, model>>
      BY <2>10 DEF Recover, cells
    <3>2. CASE Goto("nocand")
      BY <2>10, <3>1, <3>2 DEF Recover, Goto, probing
    <3>3. ASSUME NEW m, Probing("recovery", m) PROVE DeclinedInv'
      BY <3>1, <3>3, ProbesAnother
    <3> QED BY <2>10, <3>2, <3>3 DEF Recover
  <2>14. CASE RecoveryFails
    <3>1. UNCHANGED <<declined, rejected, model, reprobed, purpose>> /\ pc' = "announce" /\ Underway
      BY <2>14 DEF RecoveryFails, Goto, cells, probing
    <3>2. purpose \in {"health", "recovery"}
      BY <2>14 DEF RecoveryFails, Recovering
    <3> QED BY <3>1, <3>2
  <2>15. CASE Announce
    <3>1. UNCHANGED <<declined, rejected, model>> /\ pc = "announce"
      BY <2>15 DEF Announce, cells
    <3>2. CASE purpose = "gateway" /\ Goto("scan")
      BY <3>1, <3>2 DEF Goto, probing
    <3>3. CASE AfterResolve
      BY <2>1, <3>1, <3>3, HealthIsFirstProbe
    <3>4. CASE Goto("wait")
      BY <2>1, <3>1, <3>4 DEF Goto
    <3> QED BY <2>15, <3>2, <3>3, <3>4 DEF Announce
  <2>11. CASE Wait
    BY <2>11 DEF Wait
  <2>12. CASE Close \/ UNCHANGED vars
    BY <2>12 DEF Close, vars, cells, probing, history
  <2>13. ASSUME NEW r \in Requests, StreamBegins(r) \/ StreamEnds(r) \/ StreamFallsBack(r)
         PROVE  DeclinedInv'
    BY <2>13 DEF StreamBegins, StreamEnds, StreamFallsBack, cells, probing, history
  <2> QED BY <2>2, <2>3, <2>4, <2>5, <2>6, <2>7, <2>8, <2>9, <2>10, <2>11, <2>12, <2>13,
             <2>14, <2>15 DEF Next, Updater
<1>3. DeclinedInv => NoSecondProbe
  BY DEF DeclinedInv, NoSecondProbe
<1> QED BY <1>1, <1>2, <1>3, TypeCorrect, RecoveringForHealth, PTL DEF Spec
-----------------------------------------------------------------------------
(* How long the goroutine is busy.                                          *)

\* The steps left of a probe loop.
ProbesLeft == 2 * (Probes - attempt) + (IF pc = "probe" THEN 2 ELSE 1)

\* The steps of runOnce left after a probe loop that failed, if every later
\* probe of the cycle fails as well: after the gateway's candidate come the
\* catalog's, the health check and the recovery.
FailedLeft ==
  CASE purpose = "gateway" -> 6 * Probes + 9
    [] purpose = "fallback" -> 4 * Probes + 6
    [] purpose = "health" -> 2 * Probes + 4
    [] purpose = "recovery" -> 2

\* The steps of runOnce left, in the worst case.
CycleLeft ==
  CASE pc \in {"off", "wait", "stopped"} -> 0
    [] pc = "resolve" -> 8 * Probes + 10
    [] pc = "scan" -> 6 * Probes + 7
    [] pc = "recover" -> 2 * Probes + 3
    [] pc = "nocand" -> 2
    [] pc \in {"probe", "validate"} -> ProbesLeft + FailedLeft
    [] pc = "failed" -> FailedLeft
    [] pc = "announce" -> IF purpose \in {"gateway", "fallback"} THEN FailedLeft - 1 ELSE 1

\* The same once the context is done.
ShutdownLeft ==
  CASE pc \in {"resolve", "validate", "recover", "announce"} -> 2
    [] pc \in {"scan", "probe", "failed", "nocand"} -> 1
    [] pc \in {"off", "wait", "stopped"} -> 0

\* A step of the updater within a cycle takes it closer to its select, which
\* requests and Close leave as far as it was; closed, it begins no probe.
CycleCountsDown ==
  /\ Updater /\ pc # "wait" =>
       /\ CycleLeft' < CycleLeft
       /\ ctxDone => ShutdownLeft' < ShutdownLeft /\ pc' # "validate"
  /\ ~Updater => CycleLeft' = CycleLeft /\ ShutdownLeft' = ShutdownLeft

(* What is left after a failed probe loop.                                  *)
LEMMA FailedMeasured ==
  ASSUME TypeOK
  PROVE  /\ FailedLeft \in Nat /\ FailedLeft >= 2 /\ FailedLeft <= 6 * Probes + 9
         /\ purpose = "gateway" => FailedLeft = 6 * Probes + 9
         /\ purpose = "fallback" => FailedLeft = 4 * Probes + 6
         /\ purpose = "health" => FailedLeft = 2 * Probes + 4
         /\ purpose = "recovery" => FailedLeft = 2
<1>1. Probes \in Nat /\ purpose \in Purposes
  BY UpdateBounds DEF TypeOK
<1> QED BY <1>1 DEF FailedLeft, Purposes

(* The measures are naturals, within what a cycle can take.                 *)
LEMMA CycleMeasured ==
  ASSUME TypeOK
  PROVE  CycleLeft \in 0..(8 * Probes + 10) /\ ShutdownLeft \in 0..2
<1>1. Probes \in Nat /\ Probes >= 1 /\ attempt \in 1..Probes
  BY UpdateBounds DEF TypeOK
<1>2. ProbesLeft \in 1..(2 * Probes)
  BY <1>1 DEF ProbesLeft
<1>3. FailedLeft \in Nat /\ FailedLeft >= 2 /\ FailedLeft <= 6 * Probes + 9
  BY FailedMeasured
<1>4. ShutdownLeft \in 0..2
  BY DEF ShutdownLeft, TypeOK, Places
<1>5. CASE pc \in {"off", "wait", "stopped", "resolve", "scan", "recover", "nocand"}
  <2>1. CycleLeft \in {0, 8 * Probes + 10, 6 * Probes + 7, 2 * Probes + 3, 2}
    BY <1>5 DEF CycleLeft
  <2> QED BY <1>1, <1>4, <2>1
<1>6. CASE pc \in {"probe", "validate"}
  <2>1. CycleLeft = ProbesLeft + FailedLeft
    BY <1>6 DEF CycleLeft
  <2> QED BY <1>1, <1>2, <1>3, <1>4, <2>1
<1>7. CASE pc \in {"failed", "announce"}
  <2>1. CycleLeft \in {FailedLeft, FailedLeft - 1, 1}
    BY <1>7 DEF CycleLeft
  <2> QED BY <1>1, <1>3, <1>4, <2>1
<1> QED BY <1>5, <1>6, <1>7 DEF TypeOK, Places

(* What is left when a probe loop begins.                                   *)
LEMMA CycleProbes ==
  ASSUME NEW why, NEW m, Probing(why, m)
  PROVE  /\ pc' = "probe" /\ ShutdownLeft' = 1
         /\ why = "gateway" => CycleLeft' = 8 * Probes + 9
         /\ why = "fallback" => CycleLeft' = 6 * Probes + 6
         /\ why = "health" => CycleLeft' = 4 * Probes + 4
         /\ why = "recovery" => CycleLeft' = 2 * Probes + 2
<1>1. pc' = "probe" /\ purpose' = why /\ attempt' = 1
  BY DEF Probing
<1>2. ShutdownLeft' = 1
  BY <1>1 DEF ShutdownLeft
<1>3. Probes \in Nat
  BY UpdateBounds
<1>4. ProbesLeft' = 2 * Probes
  BY <1>1, <1>3 DEF ProbesLeft
<1>5. CycleLeft' = 2 * Probes + FailedLeft'
  BY <1>1, <1>4 DEF CycleLeft
<1> QED BY <1>1, <1>2, <1>3, <1>5 DEF FailedLeft

(* What is left elsewhere.                                                  *)
LEMMA CycleGoes ==
  ASSUME NEW l \in {"scan", "recover", "nocand", "wait"}, pc' = l
  PROVE  /\ l = "scan" => CycleLeft' = 6 * Probes + 7 /\ ShutdownLeft' = 1
         /\ l = "recover" => CycleLeft' = 2 * Probes + 3 /\ ShutdownLeft' = 2
         /\ l = "nocand" => CycleLeft' = 2 /\ ShutdownLeft' = 1
         /\ l = "wait" => CycleLeft' = 0 /\ ShutdownLeft' = 0
BY DEF CycleLeft, ShutdownLeft

(* After resolveAndUpgrade only the health check and a recovery are left.   *)
LEMMA CycleResolved ==
  ASSUME AfterResolve
  PROVE  /\ CycleLeft' \in {0, 4 * Probes + 4} /\ pc' # "validate"
         /\ ctxDone => ShutdownLeft' = 0
<1>1. CASE ctxDone
  BY <1>1, CycleGoes DEF AfterResolve, Goto
<1>2. CASE ~ctxDone
  BY <1>2, CycleProbes DEF AfterResolve
<1> QED BY <1>1, <1>2

(* A cycle of the updater is over within 8 * validationAttempts + 10 steps, *)
(* whatever gateway, catalog and models answer, and within two once Close   *)
(* was called, of which none begins a probe: what "Close stops the updater" *)
(* rests on (run, runOnce, healthCheck and the probe loops' ctx checks).    *)
THEOREM CyclesBounded ==
  Spec => /\ [](CycleLeft \in 0..(8 * Probes + 10) /\ ShutdownLeft \in 0..2)
          /\ [][CycleCountsDown]_vars
<1>1. TypeOK => CycleLeft \in 0..(8 * Probes + 10) /\ ShutdownLeft \in 0..2
  BY CycleMeasured
<1>2. TypeOK /\ Recovering /\ [Next]_vars => [CycleCountsDown]_vars
  <2> SUFFICES ASSUME TypeOK, Recovering, Next PROVE CycleCountsDown
    OBVIOUS
  <2>1. Probes \in Nat /\ Probes >= 1 /\ attempt \in 1..Probes
    BY UpdateBounds DEF TypeOK
  <2>2. ASSUME ~Updater PROVE CycleLeft' = CycleLeft /\ ShutdownLeft' = ShutdownLeft
    <3>1. Close \/ \E r \in Requests : StreamBegins(r) \/ StreamEnds(r) \/ StreamFallsBack(r)
      BY <2>2 DEF Next
    <3>2. UNCHANGED <<pc, purpose, attempt>>
      BY <3>1 DEF Close, StreamBegins, StreamEnds, StreamFallsBack, probing
    <3> QED BY <3>2 DEF CycleLeft, ShutdownLeft, ProbesLeft, FailedLeft
  <2> DEFINE Down == /\ CycleLeft' < CycleLeft
                     /\ ctxDone => ShutdownLeft' < ShutdownLeft /\ pc' # "validate"
  <2>3. ASSUME pc \in {"resolve", "scan", "recover", "nocand"}
        PROVE  /\ pc = "resolve" => CycleLeft = 8 * Probes + 10 /\ ShutdownLeft = 2
               /\ pc = "scan" => CycleLeft = 6 * Probes + 7 /\ ShutdownLeft = 1
               /\ pc = "recover" => CycleLeft = 2 * Probes + 3 /\ ShutdownLeft = 2
               /\ pc = "nocand" => CycleLeft = 2 /\ ShutdownLeft = 1
    BY <2>3 DEF CycleLeft, ShutdownLeft
  <2>4. ASSUME pc \in {"probe", "validate"}
        PROVE  /\ CycleLeft = ProbesLeft + FailedLeft
               /\ ProbesLeft \in Nat /\ ProbesLeft >= 1
               /\ ShutdownLeft = IF pc = "validate" THEN 2 ELSE 1
    <3>1. ProbesLeft \in Nat /\ ProbesLeft >= 1
      BY <2>1, <2>4 DEF ProbesLeft
    <3> QED BY <2>4, <3>1 DEF CycleLeft, ShutdownLeft
  <2>5. pc = "failed" => CycleLeft = FailedLeft /\ ShutdownLeft = 1
    BY DEF CycleLeft, ShutdownLeft
  <2>6. ASSUME pc = "announce"
        PROVE  /\ ShutdownLeft = 2
               /\ purpose \in {"gateway", "fallback"} => CycleLeft = FailedLeft - 1
               /\ purpose \in {"health", "recovery"} => CycleLeft = 1
    BY <2>6 DEF CycleLeft, ShutdownLeft
  <2>20. FailedLeft \in Nat /\ FailedLeft >= 2
    BY FailedMeasured
  <2>7. ASSUME Resolve PROVE Down
    <3>1. pc = "resolve" /\ (AfterResolve \/ Goto("scan") \/ \E id : Probing("gateway", id))
      BY <2>7 DEF Resolve
    <3>2. CASE AfterResolve
      BY <2>1, <2>3, <3>1, <3>2, CycleResolved
    <3>3. CASE Goto("scan")
      BY <2>1, <2>3, <3>1, <3>3, CycleGoes DEF Goto
    <3>4. ASSUME NEW id, Probing("gateway", id) PROVE Down
      BY <2>1, <2>3, <3>1, <3>4, CycleProbes
    <3> QED BY <3>1, <3>2, <3>3, <3>4
  <2>8. ASSUME Scan PROVE Down
    <3>1. /\ pc = "scan"
          /\ \/ Goto("wait") \/ AfterResolve
             \/ ~ctxDone /\ \E m : Probing("fallback", m)
      BY <2>8 DEF Scan
    <3>2. CASE Goto("wait")
      BY <2>1, <2>3, <3>1, <3>2, CycleGoes DEF Goto
    <3>3. CASE AfterResolve
      BY <2>1, <2>3, <3>1, <3>3, CycleResolved
    <3>4. ASSUME ~ctxDone, NEW m, Probing("fallback", m) PROVE Down
      BY <2>1, <2>3, <3>1, <3>4, CycleProbes
    <3> QED BY <3>1, <3>2, <3>3, <3>4
  <2>9. ASSUME ProbeBegins PROVE Down
    <3>1. pc = "probe" /\ pc' = (IF ctxDone THEN "wait" ELSE "validate") /\ UNCHANGED <<purpose, attempt>>
      BY <2>9 DEF ProbeBegins, probing
    <3>2. FailedLeft \in Nat /\ FailedLeft' = FailedLeft
      BY <2>20, <3>1 DEF FailedLeft
    <3>3. CASE ctxDone
      BY <2>4, <3>1, <3>2, <3>3, CycleGoes
    <3>4. CASE ~ctxDone
      <4>1. ProbesLeft' < ProbesLeft /\ ProbesLeft' \in Nat
        BY <2>1, <3>1, <3>4 DEF ProbesLeft
      <4>2. CycleLeft' = ProbesLeft' + FailedLeft'
        BY <3>1, <3>4 DEF CycleLeft
      <4> QED BY <2>4, <3>1, <3>2, <3>4, <4>1, <4>2
    <3> QED BY <3>3, <3>4
  <2>10. ASSUME ProbePasses \/ ProbeCancelled \/ HealthInconclusive PROVE Down
    <3>1. pc \in {"validate", "failed", "nocand"} /\ pc' = "wait"
      BY <2>10 DEF ProbePasses, ProbeCancelled, HealthInconclusive, Goto
    <3>2. FailedLeft \in Nat /\ FailedLeft >= 2
      BY <2>20
    <3> QED BY <2>3, <2>4, <2>5, <3>1, <3>2, CycleGoes
  <2>11. ASSUME ProbeRetries PROVE Down
    <3>1. /\ pc = "validate" /\ pc' = "probe" /\ attempt < Probes /\ attempt' = attempt + 1
          /\ UNCHANGED purpose
      BY <2>11 DEF ProbeRetries
    <3>2. ProbesLeft' < ProbesLeft /\ ProbesLeft' \in Nat /\ ProbesLeft \in Nat
      BY <2>1, <3>1 DEF ProbesLeft
    <3>3. FailedLeft \in Nat /\ FailedLeft' = FailedLeft
      BY <2>20, <3>1 DEF FailedLeft
    <3>4. CycleLeft' = ProbesLeft' + FailedLeft' /\ ShutdownLeft' = 1
      BY <3>1 DEF CycleLeft, ShutdownLeft
    <3>5. CycleLeft = ProbesLeft + FailedLeft /\ ShutdownLeft = 2
      BY <2>4, <3>1
    <3>6. CycleLeft' < CycleLeft
      <4>1. PICK a \in Nat, b \in Nat, c \in Nat :
              a = ProbesLeft' /\ b = ProbesLeft /\ c = FailedLeft
        BY <3>2, <3>3
      <4>2. a < b /\ CycleLeft' = a + c /\ CycleLeft = b + c
        BY <3>2, <3>3, <3>4, <3>5, <4>1
      <4> QED BY <4>2
    <3> QED BY <3>1, <3>4, <3>5, <3>6
  <2>12. ASSUME ProbeFails PROVE Down
    <3>1. pc = "validate" /\ pc' = "failed" /\ UNCHANGED purpose
      BY <2>12 DEF ProbeFails, probing
    <3>2. FailedLeft \in Nat /\ FailedLeft' = FailedLeft
      BY <2>20, <3>1 DEF FailedLeft
    <3>3. CycleLeft' = FailedLeft' /\ ShutdownLeft' = 1
      BY <3>1 DEF CycleLeft, ShutdownLeft
    <3> QED BY <2>4, <3>1, <3>2, <3>3
  <2>13. ASSUME Declines PROVE Down
    <3>1. /\ pc = "failed" /\ pc' = "announce" /\ ~ctxDone
          /\ purpose \in {"gateway", "fallback"} /\ UNCHANGED purpose
      BY <2>13 DEF Declines, Goto, probing
    <3>2. FailedLeft \in Nat /\ FailedLeft' = FailedLeft
      BY <2>20, <3>1 DEF FailedLeft
    <3>3. CycleLeft' = FailedLeft' - 1
      BY <3>1 DEF CycleLeft
    <3> QED BY <2>5, <3>1, <3>2, <3>3
  <2>14. ASSUME HealthFails PROVE Down
    <3>1. /\ pc = "failed" /\ purpose = "health" /\ ~ctxDone /\ UNCHANGED purpose
          /\ pc' \in {"announce", "recover"}
      BY <2>14 DEF HealthFails, Goto, probing
    <3>2. CycleLeft' \in {1, 2 * Probes + 3}
      BY <3>1 DEF CycleLeft
    <3>3. FailedLeft = 2 * Probes + 4
      BY <3>1, FailedMeasured
    <3> QED BY <2>1, <2>5, <3>1, <3>2, <3>3
  <2>15. ASSUME Recover PROVE Down
    <3>1. pc = "recover" /\ (Goto("nocand") \/ \E m : Probing("recovery", m))
      BY <2>15 DEF Recover
    <3>2. CASE Goto("nocand")
      BY <2>1, <2>3, <3>1, <3>2, CycleGoes DEF Goto
    <3>3. ASSUME NEW m, Probing("recovery", m) PROVE Down
      BY <2>1, <2>3, <3>1, <3>3, CycleProbes
    <3> QED BY <3>1, <3>2, <3>3
  <2>16. ASSUME RecoveryFails PROVE Down
    <3>1. /\ pc = "nocand" \/ (pc = "failed" /\ purpose = "recovery")
          /\ pc' = "announce" /\ ~ctxDone /\ UNCHANGED purpose
      BY <2>16 DEF RecoveryFails, Goto, probing
    <3>2. purpose \in {"health", "recovery"}
      BY <3>1 DEF Recovering
    <3>3. CycleLeft' = 1
      BY <3>1, <3>2 DEF CycleLeft
    <3>4. CycleLeft = 2
      BY <2>3, <2>5, <3>1, FailedMeasured
    <3> QED BY <3>1, <3>3, <3>4
  <2>17. ASSUME Announce PROVE Down
    <3>1. /\ pc = "announce"
          /\ \/ purpose = "gateway" /\ Goto("scan")
             \/ purpose = "fallback" /\ AfterResolve
             \/ purpose \in {"health", "recovery"} /\ Goto("wait")
      BY <2>17 DEF Announce
    <3>2. CASE purpose = "gateway" /\ Goto("scan")
      BY <2>1, <2>6, <3>1, <3>2, CycleGoes, FailedMeasured DEF Goto
    <3>3. CASE purpose = "fallback" /\ AfterResolve
      <4>1. CycleLeft = 4 * Probes + 5
        BY <2>1, <2>6, <3>1, <3>3, FailedMeasured
      <4> QED BY <2>1, <2>6, <3>1, <3>3, <4>1, CycleResolved
    <3>4. CASE purpose \in {"health", "recovery"} /\ Goto("wait")
      BY <2>6, <3>1, <3>4, CycleGoes DEF Goto
    <3> QED BY <3>1, <3>2, <3>3, <3>4
  <2>18. Wait => pc = "wait"
    BY DEF Wait
  <2>19. Updater /\ pc # "wait" => Down
    BY <2>7, <2>8, <2>9, <2>10, <2>11, <2>12, <2>13, <2>14, <2>15, <2>16, <2>17, <2>18 DEF Updater
  <2> QED BY <2>2, <2>19 DEF CycleCountsDown
<1> QED BY <1>1, <1>2, TypeCorrect, RecoveringForHealth, PTL DEF Spec
=============================================================================
