------------------------------- MODULE Access -------------------------------
(***************************************************************************)
(* The two halves of a chat request's authorization, composed: the bridge  *)
(* stamps every turn of a socket with the credential its registry holds    *)
(* for the session (StreamAuth), and the workflow's trigger has it         *)
(* validated (IdtValidator), on one clock.  A credential is named after    *)
(* the session it belongs to.                                              *)
(***************************************************************************)
EXTENDS IdtValidator

CONSTANTS Tokens, TokenTTL, MaxAge

ASSUME TokenBounds == TokenTTL \in Nat /\ MaxAge \in Nat

VARIABLES tokenStore, registry, issued, sockets, lastClose,
          live    \* bound: the sessions that log in and the tokens there are

B == INSTANCE StreamAuth WITH Sessions <- Credentials, MaxClock <- LastTick

bridge    == <<tokenStore, registry, issued, sockets, lastClose>>
validator == <<mode, granted, revokedAt, cache, calls>>
avars     == <<vars, bridge, live>>

\* With validation on, one session and one socket, and any grants; with
\* validation off every session and token.
AccessInit ==
  /\ Init /\ B!Init
  /\ live \in IF mode.enabled
               THEN [hosts : {{s} : s \in Credentials}, tokens : {{t} : t \in Tokens}]
               ELSE [hosts : {Credentials}, tokens : {Tokens}]
  /\ granted \subseteq live.hosts \X Functions
  /\ ~mode.enabled => ~mode.failOpen /\ ~mode.observeOnly /\ granted = {}

\* OutboundMessage: the credential the registry holds at that moment, if any.
CurrentIDT(s) == IF s \in DOMAIN registry THEN s ELSE NoToken

\* A turn of an open socket reaches the trigger of a workflow whose index
\* function is f.
Turn(k, c, f) ==
  /\ k.open
  /\ validate(c, CurrentIDT(k.session), f)
  /\ UNCHANGED <<bridge, live>>

Bridge ==
  \/ \E s \in live.hosts : (B!issueToken(s) /\ DOMAIN issued' \subseteq live.tokens) \/ B!Refresh(s)
  \/ \E t \in Tokens : B!preUpgrade(t)
  \/ \E k \in sockets : B!SocketCloses(k)

AccessNext ==
  \/ Bridge /\ UNCHANGED <<live, validator>>
  \/ \E k \in sockets, c \in Callers, f \in Functions : Turn(k, c, f)
  \/ (Tick \/ Serve) /\ UNCHANGED <<bridge, live>>
  \/ /\ mode.enabled /\ \E p \in live.hosts \X Functions : Grant(p) \/ Revoke(p)
     /\ UNCHANGED <<bridge, live>>

AccessSpec == AccessInit /\ [][AccessNext]_avars

-----------------------------------------------------------------------------
(* StreamAuth's properties, in front of the validator: a token opens one    *)
(* socket, in time and of its own session, and no credential outlives the   *)
(* socket it was captured for.                                              *)
TokenHonoured      == B!TokenHonoured
CredentialReleased == B!CredentialReleased
=============================================================================
