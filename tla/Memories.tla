------------------------------ MODULE Memories ------------------------------
(***************************************************************************)
(* The two conversation memories a workflow may be configured with, and    *)
(* the one abstract memory both implement.  Which of them serves the       *)
(* conversation is chosen at Init.                                         *)
(***************************************************************************)
EXTENDS PgMemory

CONSTANTS Writers, TTL, MaxSkew, MaxClock,
          DynamoAppends,  \* bound: the Appends made on Dynamo, a subset of Appends
          DynamoTurns     \* cfg.MaxTurns of the Dynamo node

ASSUME DynamoBounds ==
  /\ DynamoAppends \subseteq Appends
  /\ TTL \in Nat /\ MaxSkew \in Nat /\ MaxClock \in Nat /\ DynamoTurns \in Nat \ {0}

VARIABLES backend,   \* "postgres" | "dynamo"
          clock, skew, writer, table, ttl, boot, foreign, items, expired,
          dpc, ts, tries, earlier

D == INSTANCE DynamoMemory WITH Appends <- DynamoAppends, MaxTurns <- DynamoTurns

dynamo == <<clock, skew, writer, table, ttl, boot, foreign, items, expired, dpc, ts, tries, earlier>>
mvars  == <<vars, dynamo, backend>>

\* The memory that does not serve is left out of the way.
MemoriesInit ==
  /\ Init /\ D!DynamoInit /\ backend \in {"postgres", "dynamo"}
  /\ backend = "postgres" =>
       /\ table = "active" /\ ttl = "on" /\ \A w \in Writers : skew[w] = 0

OnPostgres(A) == backend = "postgres" /\ A /\ UNCHANGED <<dynamo, backend>>
OnDynamo(A)   == backend = "dynamo" /\ A /\ UNCHANGED <<vars, backend>>

MemoriesNext == OnPostgres(Next) \/ OnDynamo(D!DynamoNext)

(* As in PgMemory: every Append runs in a goroutine of its own and its      *)
(* calls return; none of them has to fail.                                  *)
MemoriesSpec ==
  /\ MemoriesInit /\ [][MemoriesNext]_mvars
  /\ \A a \in Appends : /\ WF_mvars(OnPostgres(Progress(a)))
                        /\ a \in DynamoAppends => WF_mvars(OnDynamo(D!Appending(a)))

-----------------------------------------------------------------------------
RolesOf(R, a) == {r.role : r \in {q \in R : q.by = a}}
OutcomeOf(p)  == IF p \in Finished THEN p ELSE "nothing"

(* Both memories implement the abstract one: PgMemory's rows at commit, and *)
(* the items of Dynamo's transaction, appear whole, in one step, together   *)
(* with the outcome; and only Dynamo's ever go again, by TTL.               *)
A == INSTANCE ConversationMemory WITH
       forgets  <- backend = "dynamo",
       kept     <- [a \in Appends |-> RolesOf(rows \cup items, a)],
       returned <- [a \in Appends |->
                      OutcomeOf(IF backend = "dynamo" /\ a \in DynamoAppends THEN dpc[a] ELSE pc[a])]
ImplementsMemory == A!Spec

(* Every Append returns: nobody waits for a lock for ever, and no clock     *)
(* that stands still keeps an Append going round.  (On Dynamo, once its     *)
(* instance is up.)                                                         *)
AppendEnds ==
  /\ \A a \in Appends : backend = "postgres" ~> pc[a] \in Finished
  /\ \A a \in DynamoAppends :
       (backend = "dynamo" /\ \E w \in Writers : D!Serving(w)) ~> dpc[a] \in Finished

(* Load returns turns in order: on Postgres the first ones, whole and       *)
(* without a gap; on Dynamo the most recent ones that a replica has, whole  *)
(* where the replica has them whole, but for at most one that is cut.       *)
LoadsWhole == LoadIsTurns /\ D!DynamoRecent

(* DynamoMemory's order of turns and provisioning, where it serves.         *)
ChatOrder   == D!ChatOrder
BootedReady == D!BootedReady
=============================================================================
