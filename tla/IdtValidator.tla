---------------------------- MODULE IdtValidator ----------------------------
(***************************************************************************)
(* The token check in front of every chat request (pkg/idt/validator.go):  *)
(* a request/reply to the Identity service with a timeout, and the cache   *)
(* of allows in front of it.  Identity is external: a grant (token,        *)
(* function) may be given and revoked at any moment, and a verdict is true *)
(* when Identity takes it, which may be long before the answer is used.    *)
(***************************************************************************)
EXTENDS Integers, FiniteSets

CONSTANTS
  Credentials,    \* tokens, as a whole (the key hashes the full token)
  Functions,      \* RBAC functions: the index functions and APP_FUNCTION_ID
  Callers,        \* chat requests that are validated concurrently
  cacheTTL,       \* IDT_VALIDATE_CACHE_SECONDS, in ticks (0 = no cache)
  requestTimeout, \* IDT_VALIDATE_TIMEOUT_SECONDS, in ticks
  cacheMaxEntries,
  LastTick        \* bound: ticks of the clock

ASSUME IdtBounds == /\ cacheTTL \in Nat /\ requestTimeout \in Nat
                    /\ cacheMaxEntries \in Nat \ {0} /\ LastTick \in Nat

VARIABLES
  now,        \* the wall clock
  mode,       \* the environment: [enabled, failOpen, observeOnly]
  granted,    \* Identity: the pairs granted at present
  revokedAt,  \* history: when a pair that is not granted last was
  cache,      \* key -> expires, for the remembered allows; history: how late each
              \* was, that is how long ago its grant had ended when it was stored
  calls       \* what each caller is doing

vars == <<now, mode, granted, revokedAt, cache, calls>>

Pairs == Credentials \X Functions
NoToken == "no token"

\* A grant that never was is older than any lag the code allows.
Never == -(cacheTTL + requestTimeout + 1)
LastGranted(p) == IF p \in granted THEN now ELSE revokedAt[p]

Idle == [st |-> "idle"]
Modes == {m \in [enabled : BOOLEAN, failOpen : BOOLEAN, observeOnly : BOOLEAN] :
            m.observeOnly => m.enabled}

Init ==
  /\ now = 0 /\ mode \in Modes
  /\ granted \in SUBSET Pairs /\ revokedAt = [p \in Pairs |-> Never]
  /\ cache = << >> /\ calls = [c \in Callers |-> Idle]

-----------------------------------------------------------------------------
useCache == cacheTTL > 0 /\ ~mode.observeOnly

cacheKey(p) == p

\* A bug: the entry is still good at the moment it expires.
cachedInclusive(p) == cacheKey(p) \in DOMAIN cache /\ now <= cache[cacheKey(p)].expires

cached(p) == cacheKey(p) \in DOMAIN cache /\ now < cache[cacheKey(p)].expires

Without(f, S) == [k \in DOMAIN f \ S |-> f[k]]

\* A full cache is swept of expired entries and, still full, dropped.
Room ==
  LET kept == Without(cache, {k \in DOMAIN cache : now >= cache[k].expires})
  IN IF Cardinality(DOMAIN cache) < cacheMaxEntries THEN cache
     ELSE IF Cardinality(DOMAIN kept) < cacheMaxEntries THEN kept ELSE << >>

remember(p) ==
  cache' = [k \in DOMAIN Room \cup {cacheKey(p)} |->
              IF k = cacheKey(p) THEN [expires |-> now + cacheTTL, late |-> now - LastGranted(p)]
              ELSE Room[k]]

\* What a caller was told, who vouched for it, how long ago at least the pair
\* was last granted, and how late the remembered allow was.
Verdict(p, st, by) ==
  [st |-> st, by |-> by,
   lag  |-> IF by \in {"cache", "identity"} THEN now - LastGranted(p) ELSE 0,
   late |-> IF by = "cache" THEN cache[cacheKey(p)].late ELSE 0]

Becomes(c, r) == calls' = [calls EXCEPT ![c] = r]

\* validate fails open or closed, on every error and without a token.
Unvouched(c, p) ==
  Becomes(c, IF mode.failOpen THEN Verdict(p, "allowed", "open") ELSE Verdict(p, "denied", "error"))

Free(c) == calls[c].st \in {"idle", "allowed", "denied"}

\* ValidateIfEnabled or ValidateForFunction up to the request: off, without a
\* token, a cache hit, or a request to Identity.
validate(c, tok, f) ==
  /\ Free(c)
  /\ \/ /\ ~mode.enabled
        /\ Becomes(c, Verdict(<<tok, f>>, "allowed", "off"))
     \/ /\ mode.enabled /\ tok = NoToken
        /\ Unvouched(c, <<tok, f>>)
     \/ /\ mode.enabled /\ tok # NoToken /\ useCache /\ cached(<<tok, f>>)
        /\ Becomes(c, Verdict(<<tok, f>>, "allowed", "cache"))
     \/ /\ mode.enabled /\ tok # NoToken /\ ~(useCache /\ cached(<<tok, f>>))
        /\ Becomes(c, [st |-> "asked", pair |-> <<tok, f>>, at |-> now, ok |-> FALSE])
  /\ UNCHANGED <<now, mode, granted, revokedAt, cache>>

\* Identity takes its verdict; the answer is on its way.
Decide(c) ==
  /\ calls[c].st = "asked"
  /\ \E ok \in BOOLEAN :
       /\ ok <=> calls[c].pair \in granted
       /\ Becomes(c, [calls[c] EXCEPT !.st = "answered", !.ok = ok])
  /\ UNCHANGED <<now, mode, granted, revokedAt, cache>>

\* The answer is read: only an allow is remembered, from this moment on.
Answer(c) ==
  /\ calls[c].st = "answered"
  /\ Becomes(c, Verdict(calls[c].pair, IF calls[c].ok THEN "allowed" ELSE "denied", "identity"))
  /\ IF calls[c].ok /\ useCache THEN remember(calls[c].pair) ELSE UNCHANGED cache
  /\ UNCHANGED <<now, mode, granted, revokedAt>>

\* The request times out, or what comes back cannot be decoded.
Fails(c) ==
  /\ calls[c].st \in {"asked", "answered"}
  /\ Unvouched(c, calls[c].pair)
  /\ UNCHANGED <<now, mode, granted, revokedAt, cache>>

-----------------------------------------------------------------------------
Grant(p) ==
  /\ p \notin granted
  /\ granted' = granted \cup {p}
  /\ revokedAt' = [revokedAt EXCEPT ![p] = Never]
  /\ UNCHANGED <<now, mode, cache, calls>>

Revoke(p) ==
  /\ p \in granted
  /\ granted' = granted \ {p}
  /\ revokedAt' = [revokedAt EXCEPT ![p] = now]
  /\ UNCHANGED <<now, mode, cache, calls>>

\* nc.Request has returned when its timeout has passed.
TickAllowed ==
  /\ now < LastTick
  /\ \A c \in Callers : calls[c].st \in {"asked", "answered"} => now < calls[c].at + requestTimeout

Tick == TickAllowed /\ now' = now + 1 /\ UNCHANGED <<mode, granted, revokedAt, cache, calls>>

Serve == \E c \in Callers : Decide(c) \/ Answer(c) \/ Fails(c)
Identity == \E p \in Pairs : Grant(p) \/ Revoke(p)

Next == \/ Tick \/ Serve \/ Identity
        \/ \E c \in Callers, tok \in Credentials \cup {NoToken}, f \in Functions :
             validate(c, tok, f)

Spec == Init /\ [][Next]_vars

-----------------------------------------------------------------------------
(* The type invariant.                                                      *)
Asking == [st : {"asked", "answered"}, pair : Pairs, at : Nat, ok : BOOLEAN]
Told   == [st : {"allowed", "denied"}, by : {"off", "open", "error", "cache", "identity"}, lag : Int, late : Int]
TypeOK ==
  /\ now \in Nat /\ mode \in Modes
  /\ granted \subseteq Pairs /\ revokedAt \in [Pairs -> Int]
  /\ DOMAIN cache \subseteq Pairs /\ \A k \in DOMAIN cache : cache[k] \in [expires : Int, late : Int]
  /\ calls \in [Callers -> {Idle} \cup Asking \cup Told]

(* A request is let through on a grant of its own token and function: when  *)
(* Identity was asked, one that held at most the request timeout ago; from  *)
(* the cache, one that held less than the TTL ago, as is documented ("a     *)
(* cached allow outlives a revoked grant by up to the TTL",                 *)
(* validator.go:160; docs/RSASSISTANT.md:75; "keeps working up to the TTL   *)
(* after a grant is revoked", CHANGELOG.md:22), provided that the grant     *)
(* still held when the allow was stored.  The documents say it without the  *)
(* proviso: the entry's life starts when the answer is read, and where the  *)
(* grant ended while the answer was on its way, that time, at most the      *)
(* request timeout, comes on top of the TTL.                                *)
RevocationBounded ==
  \A c \in Callers :
    calls[c].st = "allowed" =>
      /\ calls[c].by = "identity" => calls[c].lag <= requestTimeout
      /\ calls[c].by = "cache" => /\ calls[c].lag < cacheTTL + calls[c].late
                                  /\ calls[c].late <= requestTimeout
=============================================================================
