----------------------------- MODULE StreamAuth -----------------------------
(***************************************************************************)
(* How a chat socket gets its identity and its credential: the one-time    *)
(* stream tokens of webbridge/bridge.go and the credential registry that   *)
(* GoFiberSessionAuth keeps per host session.  A browser POSTs for a token *)
(* (which also warms the registry), opens a WebSocket with it, and every   *)
(* turn of that socket is published with the credential the registry holds *)
(* at that moment; closing the socket releases the session's credential.   *)
(* The registry itself is external (trx-gofiber-session).                  *)
(***************************************************************************)
EXTENDS Integers, FiniteSets

CONSTANTS
  Sessions,        \* host sessions
  Tokens,          \* token values: a fresh one for every issue
  TokenTTL,        \* tokenTTL, in ticks
  MaxAge,          \* idtRegistryMaxAge, in ticks
  MaxClock         \* bound: ticks of the clock

VARIABLES
  now,        \* the wall clock
  tokenStore, \* token -> [session, expires], for the tokens in the map
  registry,   \* session -> tick its credential was captured, if it has one
  issued,     \* history: token -> [session, at]
  sockets,    \* WebSockets: [token, session, at, open], one per consumption
  lastClose   \* history: when a socket of each session last closed

vars == <<now, tokenStore, registry, issued, sockets, lastClose>>

Drop(f, S) == [x \in DOMAIN f \ S |-> f[x]]
Put(f, x, v) == [y \in DOMAIN f \cup {x} |-> IF y = x THEN v ELSE f[y]]

(* The type invariant, with the code's own limits on its counters.          *)
TypeOK ==
  /\ now \in 0..MaxClock
  /\ DOMAIN tokenStore \subseteq DOMAIN issued /\ DOMAIN issued \subseteq Tokens
  /\ \A t \in DOMAIN tokenStore : tokenStore[t] \in [session : Sessions, expires : TokenTTL..(MaxClock + TokenTTL)]
  /\ \A t \in DOMAIN issued : issued[t] \in [session : Sessions, at : 0..MaxClock]
  /\ lastClose \in [Sessions -> 0..MaxClock]
  /\ DOMAIN registry \subseteq Sessions /\ \A s \in DOMAIN registry : registry[s] \in 0..MaxClock
  /\ sockets \subseteq [token : Tokens, session : Sessions, at : 0..MaxClock, open : BOOLEAN]

Init ==
  /\ now = 0
  /\ tokenStore = << >> /\ registry = << >> /\ issued = << >>
  /\ sockets = {} /\ lastClose = [s \in Sessions |-> 0]

-----------------------------------------------------------------------------
\* CaptureIDT: the session's entry is renewed, entries past MaxAge are swept.
CaptureIDT(s) ==
  registry' = Drop(Put(registry, s, now), {k \in DOMAIN registry \ {s} : now - registry[k] > MaxAge})

Swept(store) == Drop(store, {t \in DOMAIN store : now > store[t].expires})

Expiry == now + TokenTTL

\* POST /token.  The request carries a credential, or IDT is off.
issueToken(s) ==
  /\ \E t \in Tokens \ DOMAIN issued :
       /\ tokenStore' = Swept(Put(tokenStore, t, [session |-> s, expires |-> Expiry]))
       /\ issued' = Put(issued, t, [session |-> s, at |-> now])
  /\ CaptureIDT(s) \/ UNCHANGED registry
  /\ UNCHANGED <<now, sockets, lastClose>>

Expired(t) == now > tokenStore[t].expires

\* A bug: a token is deleted only when it is refused.
preUpgradeReusable(t) ==
  /\ t \in DOMAIN tokenStore
  /\ IF Expired(t)
     THEN tokenStore' = Drop(tokenStore, {t}) /\ UNCHANGED sockets
     ELSE /\ sockets' = sockets \cup {[token |-> t, session |-> tokenStore[t].session,
                                       at |-> now, open |-> TRUE]}
          /\ UNCHANGED tokenStore
  /\ UNCHANGED <<now, registry, issued, lastClose>>

\* GET /stream?token=t, a token that is in the store (any other is refused
\* and changes nothing): consumeToken deletes it, an unexpired one upgrades.
preUpgrade(t) ==
  /\ t \in DOMAIN tokenStore
  /\ tokenStore' = Drop(tokenStore, {t})
  /\ sockets' = IF Expired(t) THEN sockets
                ELSE sockets \cup {[token |-> t, session |-> tokenStore[t].session,
                                    at |-> now, open |-> TRUE]}
  /\ UNCHANGED <<now, registry, issued, lastClose>>

\* A bug: the handler returns on a path without the deferred Release.
SocketClosesKeeping(k) ==
  /\ k.open
  /\ sockets' = (sockets \ {k}) \cup {[k EXCEPT !.open = FALSE]}
  /\ lastClose' = [lastClose EXCEPT ![k.session] = now]
  /\ UNCHANGED <<now, tokenStore, registry, issued>>

\* The handler returns: its deferred Release forgets the session's credential,
\* whether or not other sockets of the session are open.
SocketCloses(k) ==
  /\ k.open
  /\ sockets' = (sockets \ {k}) \cup {[k EXCEPT !.open = FALSE]}
  /\ registry' = Drop(registry, {k.session})
  /\ lastClose' = [lastClose EXCEPT ![k.session] = now]
  /\ UNCHANGED <<now, tokenStore, issued>>

\* Any other request of the session through the proxy refreshes it.
Refresh(s) ==
  /\ CaptureIDT(s)
  /\ UNCHANGED <<now, tokenStore, issued, sockets, lastClose>>

Tick == now < MaxClock /\ now' = now + 1
        /\ UNCHANGED <<tokenStore, registry, issued, sockets, lastClose>>

Next == \/ Tick
        \/ \E s \in Sessions : issueToken(s) \/ Refresh(s)
        \/ \E t \in Tokens : preUpgrade(t)
        \/ \E k \in sockets : SocketCloses(k)

Spec == Init /\ [][Next]_vars

-----------------------------------------------------------------------------
(* A socket speaks for the session its token was issued to, within the TTL, *)
(* and a token opened at most one socket and is spent then: whatever the    *)
(* order of issues, upgrades, sweeps and expiries.                          *)
TokenHonoured ==
  \A k \in sockets :
    /\ k.token \in DOMAIN issued \ DOMAIN tokenStore
    /\ k.session = issued[k.token].session
    /\ k.at - issued[k.token].at \in 0..TokenTTL
    /\ \A o \in sockets : o.token = k.token => o = k

(* No credential outlives the socket it was captured for: what the registry *)
(* holds of a session was captured after the session's last socket closed,  *)
(* through overlapping sockets, refreshes and sweeps.                       *)
CredentialReleased == \A s \in DOMAIN registry : registry[s] >= lastClose[s]
=============================================================================
