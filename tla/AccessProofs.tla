---------------------------- MODULE AccessProofs ----------------------------
(***************************************************************************)
(* For any tokens, functions, number of concurrent requests, TTL, timeout  *)
(* and cache size, a revoked grant lets nothing through for longer than    *)
(* the TTL and, if it was revoked while an allow was on its way, the time  *)
(* that took, which the timeout bounds.                                    *)
(*                                                                         *)
(* RevocationBounded speaks of verdicts already given.  It is made         *)
(* inductive by what holds of the verdicts to come: an entry of the cache  *)
(* expires within the TTL and its lateness of the last moment its pair was *)
(* granted,                                                                *)
(* and an allow on its way was true after its request began, which is at   *)
(* most a timeout ago.  In front of it, the bridge's tokens are spent once *)
(* and its registry holds no credential from before a close.               *)
(***************************************************************************)
EXTENDS Access, TLAPS

InFlight(c) == calls[c].st \in {"asked", "answered"}

Past       == \A p \in Pairs : revokedAt[p] <= now
CacheFresh ==
  \A p \in DOMAIN cache : /\ cache[p].expires <= LastGranted(p) + cache[p].late + cacheTTL
                          /\ cache[p].late <= requestTimeout
CallsFresh ==
  \A c \in Callers : InFlight(c) =>
    /\ calls[c].at <= now /\ now <= calls[c].at + requestTimeout
    /\ (calls[c].st = "answered" /\ calls[c].ok) => calls[c].at <= LastGranted(calls[c].pair)

IInv == TypeOK /\ Past /\ CacheFresh /\ CallsFresh /\ RevocationBounded

(* The sweep only removes entries.                                          *)
LEMMA RoomIsOld ==
  /\ DOMAIN Room \subseteq DOMAIN cache
  /\ \A k \in DOMAIN Room : Room[k] = cache[k]
BY DEF Room, Without

(* The three kinds of caller state do not overlap.                          *)
LEMMA CallShapes ==
  ASSUME TypeOK, NEW c \in Callers
  PROVE  /\ InFlight(c) => calls[c] \in Asking
         /\ Free(c) => ~InFlight(c)
         /\ calls[c].st = "allowed" => calls[c] \in Told
BY DEF TypeOK, InFlight, Free, Asking, Told, Idle

(* A verdict is well typed.                                                 *)
LEMMA VerdictType ==
  ASSUME TypeOK, NEW p, NEW st \in {"allowed", "denied"},
         NEW by \in {"off", "open", "error", "cache", "identity"},
         by \in {"cache", "identity"} => p \in Pairs, by = "cache" => p \in DOMAIN cache
  PROVE  Verdict(p, st, by) \in Told
<1>1. by \in {"cache", "identity"} => now - LastGranted(p) \in Int
  BY DEF TypeOK, LastGranted
<1>2. by = "cache" => cache[cacheKey(p)].late \in Int
  BY DEF TypeOK, cacheKey
<1> QED BY <1>1, <1>2 DEF Verdict, Told

(* A caller that is given a verdict leaves the others as they were, and     *)
(* keeps the callers' invariants when the verdict is within the bounds.     *)
LEMMA Verdicts ==
  ASSUME IInv, NEW c \in Callers, NEW r \in Told, Becomes(c, r),
         UNCHANGED <<now, granted, revokedAt>>,
         r.st = "allowed" /\ r.by = "identity" => r.lag <= requestTimeout,
         r.st = "allowed" /\ r.by = "cache" => r.lag < cacheTTL + r.late /\ r.late <= requestTimeout
  PROVE  /\ calls' \in [Callers -> {Idle} \cup Asking \cup Told]
         /\ CallsFresh' /\ RevocationBounded'
<1>1. calls' \in [Callers -> {Idle} \cup Asking \cup Told]
  BY DEF IInv, TypeOK, Becomes
<1>2. \A d \in Callers : calls'[d] = IF d = c THEN r ELSE calls[d]
  BY DEF IInv, TypeOK, Becomes
<1>3. r.st \in {"allowed", "denied"}
  BY DEF Told
<1>4. CallsFresh'
  BY <1>2, <1>3 DEF IInv, CallsFresh, InFlight, LastGranted
<1>5. RevocationBounded'
  BY <1>2 DEF IInv, RevocationBounded
<1> QED BY <1>1, <1>4, <1>5

(* Failing open or closed is always within the bounds.                      *)
LEMMA UnvouchedVerdict ==
  ASSUME IInv, NEW c \in Callers, NEW p, Unvouched(c, p), UNCHANGED <<now, granted, revokedAt>>
  PROVE  /\ calls' \in [Callers -> {Idle} \cup Asking \cup Told]
         /\ CallsFresh' /\ RevocationBounded'
<1>1. PICK r \in {Verdict(p, "allowed", "open"), Verdict(p, "denied", "error")} : Becomes(c, r)
  BY DEF Unvouched
<1>2. r \in Told
  BY VerdictType DEF IInv
<1>3. r.by \in {"open", "error"}
  BY DEF Verdict
<1> QED BY <1>1, <1>2, <1>3, Verdicts

-----------------------------------------------------------------------------
(* The initial states satisfy the invariant.                                *)
LEMMA InitIInv == Init => IInv
<1> SUFFICES ASSUME Init PROVE IInv
  OBVIOUS
<1> USE IdtBounds DEF Init
<1>1. Never \in Int /\ Never <= now
  BY DEF Never
<1>2. TypeOK
  BY <1>1 DEF TypeOK, Idle
<1>3. Past
  BY <1>1 DEF Past
<1>4. CacheFresh
  BY DEF CacheFresh
<1>5. CallsFresh /\ RevocationBounded
  BY DEF CallsFresh, InFlight, RevocationBounded, Idle
<1> QED BY <1>2, <1>3, <1>4, <1>5 DEF IInv

(* A call begins, or is answered at once.                                   *)
LEMMA ValidateStep ==
  ASSUME IInv, NEW c \in Callers, NEW tok \in Credentials \cup {NoToken},
         NEW f \in Functions, validate(c, tok, f)
  PROVE  IInv'
<1> DEFINE p == <<tok, f>>
<1> USE IdtBounds
<1>1. UNCHANGED <<now, mode, granted, revokedAt, cache>>
  BY DEF validate
<1>2. Past' /\ CacheFresh'
  BY <1>1 DEF IInv, Past, CacheFresh, LastGranted
<1>3. calls' \in [Callers -> {Idle} \cup Asking \cup Told] /\ CallsFresh' /\ RevocationBounded'
  <2>1. CASE Becomes(c, Verdict(p, "allowed", "off"))
    <3>1. Verdict(p, "allowed", "off") \in Told
      BY VerdictType DEF IInv
    <3>2. Verdict(p, "allowed", "off").by = "off"
      BY DEF Verdict
    <3> QED BY <1>1, <2>1, <3>1, <3>2, Verdicts
  <2>2. CASE Unvouched(c, p)
    BY <1>1, <2>2, UnvouchedVerdict
  <2>3. CASE tok # NoToken /\ cached(p) /\ Becomes(c, Verdict(p, "allowed", "cache"))
    <3>1. p \in Pairs
      BY <2>3 DEF Pairs
    <3>2. now < cache[p].expires /\ p \in DOMAIN cache
      BY <2>3 DEF cached, cacheKey
    <3>3. Verdict(p, "allowed", "cache") \in Told
      BY <3>1, <3>2, VerdictType DEF IInv
    <3>4. cache[p].expires <= LastGranted(p) + cache[p].late + cacheTTL /\ cache[p].late <= requestTimeout
      BY <3>2 DEF IInv, CacheFresh
    <3>5. LastGranted(p) \in Int /\ now \in Int /\ cache[p].expires \in Int /\ cache[p].late \in Int
      BY <3>1, <3>2 DEF IInv, TypeOK, LastGranted
    <3>6. now - LastGranted(p) < cacheTTL + cache[p].late
      BY <3>2, <3>4, <3>5
    <3>7. /\ Verdict(p, "allowed", "cache").by = "cache"
          /\ Verdict(p, "allowed", "cache").lag = now - LastGranted(p)
          /\ Verdict(p, "allowed", "cache").late = cache[p].late
      BY DEF Verdict, cacheKey
    <3> QED BY <1>1, <2>3, <3>3, <3>4, <3>6, <3>7, Verdicts
  <2>4. CASE tok # NoToken /\ Becomes(c, [st |-> "asked", pair |-> p, at |-> now, ok |-> FALSE])
    <3> DEFINE r == [st |-> "asked", pair |-> p, at |-> now, ok |-> FALSE]
    <3>1. r \in Asking
      BY <2>4 DEF Asking, Pairs, IInv, TypeOK
    <3>2. calls' \in [Callers -> {Idle} \cup Asking \cup Told]
      BY <2>4, <3>1 DEF IInv, TypeOK, Becomes
    <3>3. \A d \in Callers : calls'[d] = IF d = c THEN r ELSE calls[d]
      BY <2>4 DEF IInv, TypeOK, Becomes
    <3>4. now \in Nat
      BY DEF IInv, TypeOK
    <3>5. CallsFresh'
      BY <1>1, <3>3, <3>4 DEF IInv, CallsFresh, InFlight, LastGranted
    <3>6. RevocationBounded'
      BY <3>3 DEF IInv, RevocationBounded
    <3> QED BY <3>2, <3>5, <3>6
  <2> QED BY <2>1, <2>2, <2>3, <2>4 DEF validate
<1> QED BY <1>1, <1>2, <1>3 DEF IInv, TypeOK

(* Identity takes its verdict: an allow is true at this moment.             *)
LEMMA DecideStep ==
  ASSUME IInv, NEW c \in Callers, Decide(c)
  PROVE  IInv'
<1>0. PICK ok \in BOOLEAN : /\ ok <=> calls[c].pair \in granted
                            /\ Becomes(c, [calls[c] EXCEPT !.st = "answered", !.ok = ok])
  BY DEF Decide
<1> DEFINE r == [calls[c] EXCEPT !.st = "answered", !.ok = ok]
<1>1. UNCHANGED <<now, mode, granted, revokedAt, cache>> /\ Becomes(c, r)
  BY <1>0 DEF Decide
<1>2. Past' /\ CacheFresh'
  BY <1>1 DEF IInv, Past, CacheFresh, LastGranted
<1>3. calls[c] \in Asking /\ InFlight(c)
  BY CallShapes DEF IInv, Decide, InFlight
<1>4. r \in Asking /\ r.st = "answered" /\ r.pair = calls[c].pair /\ r.at = calls[c].at /\ r.ok = ok
  BY <1>3 DEF Asking
<1>5. calls' \in [Callers -> {Idle} \cup Asking \cup Told]
  BY <1>1, <1>4 DEF IInv, TypeOK, Becomes
<1>6. \A d \in Callers : calls'[d] = IF d = c THEN r ELSE calls[d]
  BY <1>1 DEF IInv, TypeOK, Becomes
<1>7. CallsFresh'
  <2>1. ok => calls[c].at <= LastGranted(calls[c].pair)
    BY <1>0, <1>3 DEF IInv, CallsFresh, LastGranted
  <2>2. calls[c].at <= now /\ now <= calls[c].at + requestTimeout
    BY <1>3 DEF IInv, CallsFresh
  <2> QED BY <1>1, <1>4, <1>6, <2>1, <2>2 DEF IInv, CallsFresh, InFlight, LastGranted
<1>8. RevocationBounded'
  BY <1>4, <1>6 DEF IInv, RevocationBounded
<1> QED BY <1>1, <1>2, <1>5, <1>7, <1>8 DEF IInv, TypeOK

(* The answer is read, and an allow remembered.                             *)
LEMMA AnswerStep ==
  ASSUME IInv, NEW c \in Callers, Answer(c)
  PROVE  IInv'
<1> DEFINE p == calls[c].pair
           st == IF calls[c].ok THEN "allowed" ELSE "denied"
           r == Verdict(p, st, "identity")
<1> USE IdtBounds
<1>1. UNCHANGED <<now, mode, granted, revokedAt>> /\ Becomes(c, r) /\ calls[c].st = "answered"
  BY DEF Answer
<1>2. Past'
  BY <1>1 DEF IInv, Past
<1>3. calls[c] \in Asking /\ p \in Pairs /\ InFlight(c)
  BY <1>1, CallShapes DEF IInv, InFlight, Asking
<1>4. now \in Nat /\ calls[c].at \in Nat /\ LastGranted(p) \in Int
  BY <1>3 DEF Asking, IInv, TypeOK, LastGranted
<1>5. now <= calls[c].at + requestTimeout /\ (calls[c].ok => calls[c].at <= LastGranted(p))
  BY <1>1, <1>3 DEF IInv, CallsFresh
<1>6. r \in Told
  BY <1>3, VerdictType DEF IInv
<1>7. r.st = st /\ r.by = "identity" /\ r.lag = now - LastGranted(p)
  BY DEF Verdict
<1>8. r.st = "allowed" => r.lag <= requestTimeout
  BY <1>4, <1>5, <1>7
<1>9. calls' \in [Callers -> {Idle} \cup Asking \cup Told] /\ CallsFresh' /\ RevocationBounded'
  BY <1>1, <1>6, <1>7, <1>8, Verdicts
<1>10. /\ DOMAIN cache' \subseteq Pairs /\ \A k \in DOMAIN cache' : cache'[k] \in [expires : Int, late : Int]
       /\ CacheFresh'
  <2>1. CASE UNCHANGED cache
    BY <1>1, <2>1 DEF IInv, TypeOK, CacheFresh, LastGranted
  <2>2. CASE calls[c].ok /\ remember(p)
    <3>1. DOMAIN cache' = DOMAIN Room \cup {p}
      BY <2>2 DEF remember, cacheKey
    <3> DEFINE e == [expires |-> now + cacheTTL, late |-> now - LastGranted(p)]
    <3>2. \A k \in DOMAIN cache' : cache'[k] = IF k = p THEN e ELSE cache[k]
      BY <2>2, RoomIsOld DEF remember, cacheKey
    <3>3. DOMAIN cache' \subseteq DOMAIN cache \cup {p}
      BY <3>1, RoomIsOld
    <3>4. /\ e \in [expires : Int, late : Int] /\ e.late <= requestTimeout
          /\ e.expires <= LastGranted(p) + e.late + cacheTTL
      BY <1>4, <1>5, <2>2
    <3> HIDE DEF e
    <3>5. DOMAIN cache' \subseteq Pairs /\ \A k \in DOMAIN cache' : cache'[k] \in [expires : Int, late : Int]
      BY <1>3, <3>2, <3>3, <3>4 DEF IInv, TypeOK
    <3>6. CacheFresh'
      BY <1>1, <3>2, <3>3, <3>4 DEF IInv, CacheFresh, LastGranted
    <3> QED BY <3>5, <3>6
  <2> QED BY <2>1, <2>2 DEF Answer
<1> QED BY <1>1, <1>2, <1>9, <1>10 DEF IInv, TypeOK

(* The request fails.                                                       *)
LEMMA FailsStep ==
  ASSUME IInv, NEW c \in Callers, Fails(c)
  PROVE  IInv'
<1>1. UNCHANGED <<now, mode, granted, revokedAt, cache>> /\ Unvouched(c, calls[c].pair)
  BY DEF Fails
<1>2. Past' /\ CacheFresh'
  BY <1>1 DEF IInv, Past, CacheFresh, LastGranted
<1>3. calls' \in [Callers -> {Idle} \cup Asking \cup Told] /\ CallsFresh' /\ RevocationBounded'
  BY <1>1, UnvouchedVerdict
<1> QED BY <1>1, <1>2, <1>3 DEF IInv, TypeOK

(* Identity and the clock never make a grant older than it was.             *)
LEMMA GrantsStep ==
  ASSUME IInv, Tick \/ Identity
  PROVE  IInv'
<1> USE IdtBounds
<1>1. UNCHANGED <<mode, cache, calls>> /\ now' \in Nat /\ now <= now'
      /\ granted' \subseteq Pairs /\ revokedAt' \in [Pairs -> Int]
  BY DEF Tick, Identity, Grant, Revoke, IInv, TypeOK, Never
<1>2. TypeOK'
  BY <1>1 DEF IInv, TypeOK
<1>3. \A p \in Pairs : revokedAt'[p] <= now' /\ LastGranted(p) <= LastGranted(p)'
  BY DEF Tick, Identity, Grant, Revoke, IInv, TypeOK, Never, Past, LastGranted
<1>4. \A p \in Pairs : LastGranted(p) \in Int /\ LastGranted(p)' \in Int
  BY <1>2 DEF IInv, TypeOK, LastGranted
<1>5. CacheFresh'
  <2> SUFFICES ASSUME NEW p \in DOMAIN cache
               PROVE  /\ cache[p].expires <= LastGranted(p)' + cache[p].late + cacheTTL
                      /\ cache[p].late <= requestTimeout
    BY <1>1 DEF CacheFresh
  <2>1. /\ p \in Pairs /\ cache[p].expires \in Int /\ cache[p].late \in Int
        /\ cache[p].expires <= LastGranted(p) + cache[p].late + cacheTTL
        /\ cache[p].late <= requestTimeout
    BY DEF IInv, TypeOK, CacheFresh
  <2> QED BY <1>3, <1>4, <2>1
<1>6. CallsFresh'
  <2> SUFFICES ASSUME NEW c \in Callers, InFlight(c)
               PROVE  /\ calls[c].at <= now' /\ now' <= calls[c].at + requestTimeout
                      /\ (calls[c].st = "answered" /\ calls[c].ok)
                           => calls[c].at <= LastGranted(calls[c].pair)'
    BY <1>1 DEF CallsFresh, InFlight
  <2>1. calls[c].pair \in Pairs /\ calls[c].at \in Nat /\ now \in Nat
    BY CallShapes DEF Asking, IInv, TypeOK
  <2>2. /\ calls[c].at <= now /\ now <= calls[c].at + requestTimeout
        /\ (calls[c].st = "answered" /\ calls[c].ok) => calls[c].at <= LastGranted(calls[c].pair)
    BY DEF IInv, CallsFresh
  <2>3. now' <= calls[c].at + requestTimeout
    <3>1. CASE Tick
      BY <2>1, <3>1 DEF Tick, TickAllowed, InFlight
    <3>2. CASE Identity
      BY <2>2, <3>2 DEF Identity, Grant, Revoke
    <3> QED BY <3>1, <3>2
  <2> QED BY <1>1, <1>3, <1>4, <2>1, <2>2, <2>3
<1>7. RevocationBounded'
  BY <1>1 DEF IInv, RevocationBounded
<1> QED BY <1>2, <1>3, <1>5, <1>6, <1>7 DEF IInv, Past

(* Every step keeps the invariant.                                          *)
LEMMA NextIInv == IInv /\ [Next]_vars => IInv'
<1> SUFFICES ASSUME IInv, [Next]_vars PROVE IInv'
  OBVIOUS
<1>1. CASE Tick \/ Identity
  BY <1>1, GrantsStep
<1>2. CASE Serve
  BY <1>2, DecideStep, AnswerStep, FailsStep DEF Serve
<1>3. ASSUME NEW c \in Callers, NEW tok \in Credentials \cup {NoToken},
             NEW f \in Functions, validate(c, tok, f)
      PROVE  IInv'
  BY <1>3, ValidateStep
<1>4. CASE UNCHANGED vars
  BY <1>4 DEF vars, IInv, TypeOK, Past, CacheFresh, CallsFresh, InFlight,
              LastGranted, RevocationBounded
<1> QED BY <1>1, <1>2, <1>3, <1>4 DEF Next

(* The validator's state keeps its types (validator.go, Validator).         *)
THEOREM TypeCorrect == Spec => []TypeOK
<1>1. IInv => TypeOK
  BY DEF IInv
<1> QED BY <1>1, InitIInv, NextIInv, PTL DEF Spec

(* However requests, revocations and the sweep interleave, an allow rests   *)
(* on a grant of its own pair that is at most the timeout old, or from the  *)
(* cache less than the TTL, plus the time, at most the timeout, by which    *)
(* that grant had ended when the allow was stored: the documented TTL where *)
(* it had not (validate, cached, remember).                                 *)
THEOREM RevocationSeen == Spec => []RevocationBounded
<1>1. IInv => RevocationBounded
  BY DEF IInv
<1> QED BY <1>1, InitIInv, NextIInv, PTL DEF Spec

-----------------------------------------------------------------------------
(* The bridge's half.  TokenHonoured speaks of tokens that are spent; it    *)
(* needs of the unspent ones that the store tells the truth about them, and *)
(* CredentialReleased needs that no socket closes in the future.            *)

StoreTrue ==
  \A t \in DOMAIN tokenStore :
    /\ tokenStore[t].session = issued[t].session
    /\ tokenStore[t].expires = issued[t].at + TokenTTL
IssuedPast == \A t \in DOMAIN issued : issued[t].at <= now
ClosedPast == \A s \in Credentials : lastClose[s] <= now
LiveOK     == live.hosts \subseteq Credentials

BInv == LiveOK /\ B!TypeOK /\ StoreTrue /\ IssuedPast /\ ClosedPast /\ TokenHonoured /\ CredentialReleased

(* Removing keys from a map.                                                *)
LEMMA DropIsPart ==
  ASSUME NEW f, NEW S
  PROVE  /\ DOMAIN B!Drop(f, S) = DOMAIN f \ S
         /\ \A x \in DOMAIN f \ S : B!Drop(f, S)[x] = f[x]
BY DEF B!Drop

(* A captured credential is as young as the clock; the others stay or go.   *)
LEMMA Captured ==
  ASSUME BInv, NEW s \in Credentials, B!CaptureIDT(s)
  PROVE  /\ DOMAIN registry' \subseteq DOMAIN registry \cup {s}
         /\ \A k \in DOMAIN registry' : registry'[k] = IF k = s THEN now ELSE registry[k]
<1> DEFINE f == B!Put(registry, s, now)
           S == {k \in DOMAIN registry \ {s} : now - registry[k] > MaxAge}
<1>1. registry' = B!Drop(f, S)
  BY DEF B!CaptureIDT
<1>2. DOMAIN registry' = DOMAIN f \ S /\ \A k \in DOMAIN f \ S : registry'[k] = f[k]
  BY <1>1, DropIsPart
<1>3. DOMAIN f = DOMAIN registry \cup {s}
      /\ \A k \in DOMAIN registry \cup {s} : f[k] = IF k = s THEN now ELSE registry[k]
  BY DEF B!Put
<1> HIDE DEF f, S
<1> QED BY <1>2, <1>3

(* The registry's part of the invariant depends on nothing else that moves. *)
LEMMA CaptureKeeps ==
  ASSUME BInv, NEW s \in Credentials, B!CaptureIDT(s), UNCHANGED <<now, lastClose>>
  PROVE  /\ DOMAIN registry' \subseteq Credentials
         /\ \A k \in DOMAIN registry' : registry'[k] \in 0..LastTick
         /\ CredentialReleased'
<1>1. /\ DOMAIN registry \subseteq Credentials /\ now \in 0..LastTick
      /\ \A k \in DOMAIN registry : registry[k] \in 0..LastTick
      /\ \A k \in DOMAIN registry : registry[k] >= lastClose[k]
      /\ lastClose[s] <= now /\ lastClose[s] \in 0..LastTick
  BY DEF BInv, B!TypeOK, CredentialReleased, B!CredentialReleased, ClosedPast
<1>2. \A k \in DOMAIN registry' : registry'[k] \in 0..LastTick /\ registry'[k] >= lastClose[k]
  BY <1>1, Captured
<1> QED BY <1>1, <1>2, Captured DEF CredentialReleased, B!CredentialReleased

(* The initial states.                                                      *)
LEMMA InitBInv == AccessInit => BInv
<1> SUFFICES ASSUME AccessInit PROVE BInv
  OBVIOUS
<1>1. B!Init /\ LastTick \in Nat /\ TokenTTL \in Nat
  BY IdtBounds, TokenBounds DEF AccessInit
<1>2. LiveOK
  BY DEF AccessInit, LiveOK
<1> QED BY <1>1, <1>2 DEF BInv, B!Init, B!TypeOK, StoreTrue, IssuedPast, ClosedPast,
          TokenHonoured, B!TokenHonoured, CredentialReleased, B!CredentialReleased

(* A token is issued: it is new, so what is spent is unaffected.            *)
LEMMA IssueStep ==
  ASSUME BInv, NEW s \in Credentials, B!issueToken(s), UNCHANGED live
  PROVE  BInv'
<1> USE IdtBounds, TokenBounds
<1>1. PICK t \in Tokens \ DOMAIN issued :
        /\ tokenStore' = B!Swept(B!Put(tokenStore, t, [session |-> s, expires |-> B!Expiry]))
        /\ issued' = B!Put(issued, t, [session |-> s, at |-> now])
  BY DEF B!issueToken
<1> DEFINE v == [session |-> s, expires |-> now + TokenTTL]
           f == B!Put(tokenStore, t, v)
           S == {u \in DOMAIN f : now > f[u].expires}
<1>2. /\ UNCHANGED <<now, sockets, lastClose>>
      /\ B!CaptureIDT(s) \/ UNCHANGED registry
  BY DEF B!issueToken
<1>3. tokenStore' = B!Drop(f, S)
  BY <1>1 DEF B!Swept, B!Expiry
<1>4. DOMAIN f = DOMAIN tokenStore \cup {t}
      /\ \A u \in DOMAIN tokenStore \cup {t} : f[u] = IF u = t THEN v ELSE tokenStore[u]
  BY DEF B!Put
<1>5. DOMAIN tokenStore' = DOMAIN f \ S /\ \A u \in DOMAIN f \ S : tokenStore'[u] = f[u]
  <2> HIDE DEF f, S
  <2> QED BY <1>3, DropIsPart
<1>6. /\ DOMAIN issued' = DOMAIN issued \cup {t}
      /\ \A u \in DOMAIN issued \cup {t} :
           issued'[u] = IF u = t THEN [session |-> s, at |-> now] ELSE issued[u]
  BY <1>1 DEF B!Put
<1> HIDE DEF f, S
<1>7. /\ DOMAIN tokenStore' \subseteq DOMAIN tokenStore \cup {t}
      /\ \A u \in DOMAIN tokenStore' : tokenStore'[u] = IF u = t THEN v ELSE tokenStore[u]
  BY <1>4, <1>5
<1>8. /\ DOMAIN tokenStore \subseteq DOMAIN issued /\ DOMAIN issued \subseteq Tokens
      /\ now \in 0..LastTick
  BY DEF BInv, B!TypeOK
<1>9. B!TypeOK'
  <2>1. /\ DOMAIN registry' \subseteq Credentials
        /\ \A k \in DOMAIN registry' : registry'[k] \in 0..LastTick
    BY <1>2, CaptureKeeps DEF BInv, B!TypeOK
  <2>2. \A u \in DOMAIN tokenStore' : tokenStore'[u] \in
          [session : Credentials, expires : TokenTTL..(LastTick + TokenTTL)]
    BY <1>7, <1>8 DEF BInv, B!TypeOK
  <2>3. \A u \in DOMAIN issued' : issued'[u] \in [session : Credentials, at : 0..LastTick]
    BY <1>6, <1>8 DEF BInv, B!TypeOK
  <2> QED BY <1>2, <1>6, <1>7, <1>8, <2>1, <2>2, <2>3 DEF BInv, B!TypeOK
<1>10. StoreTrue'
  <2> SUFFICES ASSUME NEW u \in DOMAIN tokenStore'
               PROVE  /\ tokenStore'[u].session = issued'[u].session
                      /\ tokenStore'[u].expires = issued'[u].at + TokenTTL
    BY DEF StoreTrue
  <2>1. CASE u = t
    BY <1>6, <1>7, <2>1
  <2>2. CASE u # t
    <3>1. u \in DOMAIN tokenStore /\ u \in DOMAIN issued
      BY <1>7, <1>8, <2>2
    <3> QED BY <1>6, <1>7, <2>2, <3>1 DEF BInv, StoreTrue
  <2> QED BY <2>1, <2>2
<1>11. IssuedPast' /\ ClosedPast'
  BY <1>2, <1>6, <1>8 DEF BInv, IssuedPast, ClosedPast
<1>12. TokenHonoured'
  <2> SUFFICES ASSUME NEW k \in sockets
               PROVE  /\ k.token \in DOMAIN issued' \ DOMAIN tokenStore'
                      /\ k.session = issued'[k.token].session
                      /\ k.at - issued'[k.token].at \in 0..TokenTTL
                      /\ \A o \in sockets : o.token = k.token => o = k
    BY <1>2 DEF TokenHonoured, B!TokenHonoured
  <2>1. /\ k.token \in DOMAIN issued \ DOMAIN tokenStore
        /\ k.session = issued[k.token].session
        /\ k.at - issued[k.token].at \in 0..TokenTTL
        /\ \A o \in sockets : o.token = k.token => o = k
    BY DEF BInv, TokenHonoured, B!TokenHonoured
  <2>2. k.token # t
    BY <1>1, <2>1
  <2> QED BY <1>6, <1>7, <2>1, <2>2
<1>13. CredentialReleased'
  <2>1. CASE UNCHANGED registry
    BY <1>2, <2>1 DEF BInv, CredentialReleased, B!CredentialReleased
  <2> QED BY <1>2, <2>1, CaptureKeeps
<1> QED BY <1>9, <1>10, <1>11, <1>12, <1>13 DEF BInv, LiveOK

(* An upgrade spends its token, and opens a socket unless it has expired.   *)
LEMMA UpgradeStep ==
  ASSUME BInv, NEW t \in Tokens, B!preUpgrade(t), UNCHANGED live
  PROVE  BInv'
<1> USE IdtBounds, TokenBounds
<1> DEFINE k == [token |-> t, session |-> tokenStore[t].session, at |-> now, open |-> TRUE]
<1>1. /\ t \in DOMAIN tokenStore
      /\ UNCHANGED <<now, registry, issued, lastClose>>
      /\ sockets' = IF now > tokenStore[t].expires THEN sockets ELSE sockets \cup {k}
      /\ tokenStore' = B!Drop(tokenStore, {t})
  BY DEF B!preUpgrade, B!Expired
<1>2. DOMAIN tokenStore' = DOMAIN tokenStore \ {t}
      /\ \A u \in DOMAIN tokenStore \ {t} : tokenStore'[u] = tokenStore[u]
  BY <1>1, DropIsPart
<1>3. /\ t \in DOMAIN issued /\ now \in 0..LastTick
      /\ tokenStore[t] \in [session : Credentials, expires : TokenTTL..(LastTick + TokenTTL)]
      /\ issued[t] \in [session : Credentials, at : 0..LastTick]
      /\ tokenStore[t].session = issued[t].session
      /\ tokenStore[t].expires = issued[t].at + TokenTTL /\ issued[t].at <= now
  BY <1>1 DEF BInv, B!TypeOK, StoreTrue, IssuedPast
<1>4. k \in [token : Tokens, session : Credentials, at : 0..LastTick, open : BOOLEAN]
  BY <1>3
<1>5. B!TypeOK'
  BY <1>1, <1>2, <1>4 DEF BInv, B!TypeOK
<1>6. StoreTrue' /\ IssuedPast' /\ ClosedPast' /\ CredentialReleased'
  BY <1>1, <1>2 DEF BInv, StoreTrue, IssuedPast, ClosedPast, CredentialReleased, B!CredentialReleased
<1>7. \A o \in sockets : o.token # t /\ o.token \in DOMAIN issued \ DOMAIN tokenStore
  BY <1>1 DEF BInv, TokenHonoured, B!TokenHonoured
<1>8. TokenHonoured'
  <2> SUFFICES ASSUME NEW o \in sockets'
               PROVE  /\ o.token \in DOMAIN issued \ DOMAIN tokenStore'
                      /\ o.session = issued[o.token].session
                      /\ o.at - issued[o.token].at \in 0..TokenTTL
                      /\ \A q \in sockets' : q.token = o.token => q = o
    BY <1>1 DEF TokenHonoured, B!TokenHonoured
  <2>1. CASE o \in sockets
    <3>1. /\ o.session = issued[o.token].session
          /\ o.at - issued[o.token].at \in 0..TokenTTL
          /\ \A q \in sockets : q.token = o.token => q = o
      BY <2>1 DEF BInv, TokenHonoured, B!TokenHonoured
    <3> QED BY <1>1, <1>2, <1>7, <2>1, <3>1
  <2>2. CASE o = k /\ ~(now > tokenStore[t].expires)
    <3>1. o.at - issued[o.token].at \in 0..TokenTTL
      BY <1>3, <2>2
    <3> QED BY <1>1, <1>2, <1>3, <1>7, <2>2, <3>1
  <2> QED BY <1>1, <2>1, <2>2
<1> QED BY <1>5, <1>6, <1>8 DEF BInv, LiveOK

(* A socket closes: its record changes in nothing but that, and the         *)
(* session's credential goes.                                               *)
LEMMA CloseStep ==
  ASSUME BInv, NEW k \in sockets, B!SocketCloses(k), UNCHANGED live
  PROVE  BInv'
<1> DEFINE c == [k EXCEPT !.open = FALSE]
<1>1. /\ sockets' = (sockets \ {k}) \cup {c}
      /\ registry' = B!Drop(registry, {k.session})
      /\ lastClose' = [lastClose EXCEPT ![k.session] = now]
      /\ UNCHANGED <<now, tokenStore, issued>>
  BY DEF B!SocketCloses
<1>2. DOMAIN registry' = DOMAIN registry \ {k.session}
      /\ \A s \in DOMAIN registry \ {k.session} : registry'[s] = registry[s]
  BY <1>1, DropIsPart
<1>3. k \in [token : Tokens, session : Credentials, at : 0..LastTick, open : BOOLEAN]
  BY DEF BInv, B!TypeOK
<1>4. /\ c \in [token : Tokens, session : Credentials, at : 0..LastTick, open : BOOLEAN]
      /\ c.token = k.token /\ c.session = k.session /\ c.at = k.at
  BY <1>3
<1> HIDE DEF c
<1>5. B!TypeOK'
  BY <1>1, <1>2, <1>3, <1>4 DEF BInv, B!TypeOK
<1>6. StoreTrue' /\ IssuedPast'
  BY <1>1 DEF BInv, StoreTrue, IssuedPast
<1>7. ClosedPast'
  <2>1. now \in 0..LastTick /\ lastClose \in [Credentials -> 0..LastTick]
    BY DEF BInv, B!TypeOK
  <2> QED BY <1>1, <1>3, <2>1 DEF BInv, ClosedPast
<1>8. CredentialReleased'
  BY <1>1, <1>2 DEF BInv, B!TypeOK, CredentialReleased, B!CredentialReleased
<1>9. TokenHonoured'
  <2> SUFFICES ASSUME NEW o \in sockets'
               PROVE  /\ o.token \in DOMAIN issued \ DOMAIN tokenStore
                      /\ o.session = issued[o.token].session
                      /\ o.at - issued[o.token].at \in 0..TokenTTL
                      /\ \A q \in sockets' : q.token = o.token => q = o
    BY <1>1 DEF TokenHonoured, B!TokenHonoured
  <2>1. \A q \in sockets :
          /\ q.token \in DOMAIN issued \ DOMAIN tokenStore
          /\ q.session = issued[q.token].session
          /\ q.at - issued[q.token].at \in 0..TokenTTL
          /\ \A r \in sockets : r.token = q.token => r = q
    BY DEF BInv, TokenHonoured, B!TokenHonoured
  <2> QED BY <1>1, <1>4, <2>1
<1> QED BY <1>5, <1>6, <1>7, <1>8, <1>9 DEF BInv, LiveOK

(* Time passes, and the validator works: the bridge is not concerned.       *)
LEMMA AsideStep ==
  ASSUME BInv, UNCHANGED <<bridge, live>>, now' \in 0..LastTick, now <= now'
  PROVE  BInv'
<1>1. now \in 0..LastTick
  BY DEF BInv, B!TypeOK
<1>2. IssuedPast'
  <2>1. \A t \in DOMAIN issued : issued[t].at <= now /\ issued[t].at \in Int
    BY DEF BInv, B!TypeOK, IssuedPast
  <2> QED BY <1>1, <2>1 DEF IssuedPast, bridge
<1>3. ClosedPast'
  <2>1. \A s \in Credentials : lastClose[s] <= now /\ lastClose[s] \in Int
    BY DEF BInv, B!TypeOK, ClosedPast
  <2> QED BY <1>1, <2>1 DEF ClosedPast, bridge
<1> QED BY <1>2, <1>3 DEF bridge, BInv, LiveOK, B!TypeOK, StoreTrue,
          TokenHonoured, B!TokenHonoured, CredentialReleased, B!CredentialReleased

(* Every step of the composition keeps the bridge's invariant.              *)
LEMMA NextBInv == BInv /\ [AccessNext]_avars => BInv'
<1> SUFFICES ASSUME BInv, [AccessNext]_avars PROVE BInv'
  OBVIOUS
<1> USE IdtBounds
<1>0. now \in 0..LastTick
  BY DEF BInv, B!TypeOK
<1>1. CASE Bridge /\ UNCHANGED live
  <2>1. ASSUME NEW s \in live.hosts, B!issueToken(s) PROVE BInv'
    BY <1>1, <2>1, IssueStep DEF BInv, LiveOK
  <2>2. ASSUME NEW s \in live.hosts, B!Refresh(s) PROVE BInv'
    <3>1. B!CaptureIDT(s) /\ UNCHANGED <<now, tokenStore, issued, sockets, lastClose>>
      BY <2>2 DEF B!Refresh
    <3>2. s \in Credentials
      BY DEF BInv, LiveOK
    <3> QED BY <1>1, <3>1, <3>2, CaptureKeeps DEF BInv, LiveOK, B!TypeOK, StoreTrue, IssuedPast,
              ClosedPast, TokenHonoured, B!TokenHonoured
  <2> QED BY <1>1, <2>1, <2>2, UpgradeStep, CloseStep DEF Bridge
<1>2. CASE UNCHANGED <<bridge, live>> /\ now' \in 0..LastTick /\ now <= now'
  BY <1>2, AsideStep
<1>3. Tick => now' \in 0..LastTick /\ now <= now'
  BY <1>0 DEF Tick, TickAllowed
<1>4. (Serve \/ \E p \in live.hosts \X Functions : Grant(p) \/ Revoke(p)) => now' = now
  BY Zenon DEF Serve, Decide, Answer, Fails, Grant, Revoke
<1>5. ASSUME NEW k \in sockets, NEW c \in Callers, NEW f \in Functions, Turn(k, c, f)
      PROVE  now' = now /\ UNCHANGED <<bridge, live>>
  BY <1>5, Zenon DEF Turn, validate
<1>6. CASE UNCHANGED avars
  BY <1>0, <1>2, <1>6 DEF avars, vars
<1> QED BY <1>0, <1>1, <1>2, <1>3, <1>4, <1>5, <1>6 DEF AccessNext

(* The composition implements each of its halves.                           *)
LEMMA StepOfValidator == BInv /\ [AccessNext]_avars => [Next]_vars
<1> SUFFICES ASSUME BInv, [AccessNext]_avars PROVE [Next]_vars
  OBVIOUS
<1>1. CASE Bridge /\ UNCHANGED validator
  <2>1. now' = now
    BY <1>1 DEF Bridge, B!issueToken, B!Refresh, B!preUpgrade, B!SocketCloses
  <2> QED BY <1>1, <2>1 DEF validator, vars
<1>2. ASSUME NEW k \in sockets, NEW c \in Callers, NEW f \in Functions, Turn(k, c, f)
      PROVE  Next
  <2>1. k.session \in Credentials
    BY DEF BInv, B!TypeOK
  <2>2. CurrentIDT(k.session) \in Credentials \cup {NoToken}
    BY <2>1 DEF CurrentIDT
  <2> QED BY <1>2, <2>2 DEF Turn, Next
<1>3. CASE Tick \/ Serve
  BY <1>3 DEF Next
<1>4. ASSUME NEW p \in live.hosts \X Functions, Grant(p) \/ Revoke(p) PROVE Next
  <2>1. p \in Pairs
    BY DEF BInv, LiveOK, Pairs
  <2> QED BY <1>4, <2>1 DEF Next, Identity
<1>5. CASE UNCHANGED avars
  BY <1>5 DEF avars
<1> QED BY <1>1, <1>2, <1>3, <1>4, <1>5 DEF AccessNext

(* BInv holds of every reachable state of the composition.                  *)
LEMMA AlwaysBInv == AccessSpec => []BInv
BY InitBInv, NextBInv, PTL DEF AccessSpec

(* Whatever the bridge does, the validator behind it keeps its promises:    *)
(* the composition of both is a behaviour of the validator alone.           *)
THEOREM AccessIsValidated == AccessSpec => Spec
<1>1. AccessInit => Init
  BY DEF AccessInit
<1> QED BY <1>1, AlwaysBInv, StepOfValidator, PTL DEF AccessSpec, Spec

(* RevocationBounded in the composition: a turn of a socket is let through  *)
(* for less than the cache's TTL after its grant ended, or by as much       *)
(* longer as the remembered allow was late, at most the request's timeout.  *)
THEOREM TurnsRevoked == AccessSpec => []RevocationBounded
BY AccessIsValidated, RevocationSeen, PTL

(* For any sessions, tokens, TTL and sweeps, a token opens at most one      *)
(* socket, of the session it was issued to, within its TTL (issueToken,     *)
(* consumeToken and the sweep in webbridge/bridge.go).                      *)
THEOREM TokensHonoured == AccessSpec => []TokenHonoured
<1>1. BInv => TokenHonoured
  BY DEF BInv
<1> QED BY <1>1, AlwaysBInv, PTL

(* For any number of overlapping sockets and refreshes, what the registry   *)
(* holds of a session was captured after its last socket closed (Release).  *)
THEOREM CredentialsReleased == AccessSpec => []CredentialReleased
<1>1. BInv => CredentialReleased
  BY DEF BInv
<1> QED BY <1>1, AlwaysBInv, PTL

(* The bridge's side of the composition keeps its types: tokens in the map  *)
(* are issued ones, sockets and credentials belong to sessions, and no time *)
(* is ahead of the clock's range (StreamAuth's type invariant).             *)
THEOREM TokensTyped == AccessSpec => []B!TypeOK
<1>1. BInv => B!TypeOK
  BY DEF BInv
<1> QED BY <1>1, AlwaysBInv, PTL
=============================================================================
