---------------------------- MODULE DynamoMemory ----------------------------
(***************************************************************************)
(* The DynamoDB conversation memory, pkg/workflow/builtin/dynamomemory,    *)
(* for one memory key: provisioning by instances that boot together,       *)
(* concurrent Appends and Load.                                            *)
(*                                                                         *)
(* An Append writes its two items in one conditional transaction, sorted   *)
(* by the writer's own clock in milliseconds.  The service (external) runs *)
(* a transaction whole or not at all, refuses one that meets another in    *)
(* flight on the same item, and deletes expired items one at a time.       *)
(***************************************************************************)
EXTENDS Integers, FiniteSets

CONSTANTS
  Appends,            \* the Append calls, one turn each
  Writers,            \* instances of the service, each with its own clock
  MaxAppendRetries,   \* maxAppendRetries
  MaxTurns,           \* cfg.MaxTurns
  TTL,                \* cfg.TTLDays, in ticks
  MaxSkew,            \* bound: how far a writer's clock is ahead
  MaxClock            \* bound: ticks of the clock

VARIABLES
  clock,     \* the true time, in milliseconds
  skew,      \* how far each writer's clock is ahead of it
  writer,    \* the instance each Append runs on
  table,     \* "missing" | "creating" | "active"
  ttl,       \* time to live on expires_at: "off" | "enabling" | "on"; or another
             \* consumer's, on another attribute: "enabling-other" | "other"
  boot,      \* where each instance's provision is
  foreign,   \* history: the instances that met that consumer's change under way
  items,     \* the items stored: [ts, role, by]
  expired,   \* history: the Appends whose items TTL began to delete
  dpc,       \* where each Append is
  ts,        \* the timestamp of its current attempt
  tries,     \* its attempts that met a stored item
  earlier    \* history: the Appends that had returned nil when it began

machine == <<clock, skew, writer>>
schema  == <<table, ttl, boot, foreign>>
store   == <<items, expired>>
calls   == <<dpc, ts, tries, earlier>>
dvars   == <<machine, schema, store, calls>>

Roles == {"user", "assistant"}
Items(a) == [ts : {ts[a]}, role : Roles, by : {a}]
Finished == {"ok", "lost", "failed", "exhausted"}
NoWriter == "none"

DynamoInit ==
  /\ clock = 0 /\ skew \in [Writers -> 0..MaxSkew] /\ \E w \in Writers : skew[w] = 0
  /\ writer = [a \in Appends |-> NoWriter]
  /\ \/ table = "missing" /\ ttl = "off"
     \/ table = "active" /\ ttl \in {"off", "enabling", "on", "enabling-other", "other"}
  /\ boot = [w \in Writers |-> "describe"] /\ foreign = {}
  /\ items = {} /\ expired = {}
  /\ dpc = [a \in Appends |-> "begin"] /\ ts = [a \in Appends |-> 0]
  /\ tries = [a \in Appends |-> 0] /\ earlier = [a \in Appends |-> {}]

-----------------------------------------------------------------------------
(* provision.                                                               *)
Boots(w, from, to) == boot[w] = from /\ boot' = [boot EXCEPT ![w] = to]

\* DescribeTable: the table may be another booter's, and not ready yet.
ensureTable(w) ==
  /\ \/ table = "missing"  /\ Boots(w, "describe", "create")
     \/ table = "creating" /\ Boots(w, "describe", "waitTable")
     \/ table = "active"   /\ Boots(w, "describe", "ttl")
  /\ UNCHANGED <<machine, store, calls, table, ttl, foreign>>

\* CreateTable; ResourceInUse means that another booter was first.
CreateTable(w) ==
  /\ Boots(w, "create", "waitTable")
  /\ table' = IF table = "missing" THEN "creating" ELSE table
  /\ UNCHANGED <<machine, store, calls, ttl, foreign>>

waitTableActive(w) ==
  /\ table = "active" /\ Boots(w, "waitTable", "ttl")
  /\ UNCHANGED <<machine, store, calls, table, ttl, foreign>>

\* Which attribute TTL is being enabled on is not looked at.
Meets(w) == foreign' = IF ttl = "enabling-other" THEN foreign \cup {w} ELSE foreign

ensureTTL(w) ==
  /\ \/ ttl = "on" /\ Boots(w, "ttl", "up")
     \/ ttl \in {"enabling", "enabling-other"} /\ Boots(w, "ttl", "waitTTL")
     \/ ttl = "off" /\ Boots(w, "ttl", "update")
     \/ ttl = "other" /\ Boots(w, "ttl", "failed")
  /\ Meets(w)
  /\ UNCHANGED <<machine, store, calls, table, ttl>>

\* A bug: an update under way elsewhere is taken for done.
UpdateTTLNoWait(w) ==
  /\ Boots(w, "update", IF ttl = "off" THEN "waitTTL" ELSE "up")
  /\ ttl' = IF ttl = "off" THEN "enabling" ELSE ttl
  /\ Meets(w)
  /\ UNCHANGED <<machine, store, calls, table>>

\* UpdateTimeToLive; ResourceInUse again means another booter, any other
\* refusal (already enabled) is an error and the boot fails.
UpdateTTL(w) ==
  /\ \/ ttl \in {"off", "enabling", "enabling-other"} /\ Boots(w, "update", "waitTTL")
     \/ ttl \in {"on", "other"} /\ Boots(w, "update", "failed")
  /\ ttl' = IF ttl = "off" THEN "enabling" ELSE ttl
  /\ Meets(w)
  /\ UNCHANGED <<machine, store, calls, table>>

\* Status ENABLED, of whichever attribute.
waitTTLEnabled(w) ==
  /\ ttl \in {"on", "other"} /\ Boots(w, "waitTTL", "up")
  /\ UNCHANGED <<machine, store, calls, table, ttl, foreign>>

\* Any call fails, or a wait is over its budget.
provisionFails(w) ==
  /\ boot[w] \notin {"up", "failed"}
  /\ boot' = [boot EXCEPT ![w] = "failed"]
  /\ UNCHANGED <<machine, store, calls, table, ttl, foreign>>

\* Another consumer of the table asks for TTL on an attribute of its own.
OtherConsumer ==
  /\ table = "active" /\ ttl = "off" /\ ttl' = "enabling-other"
  /\ UNCHANGED <<machine, store, calls, table, boot, foreign>>

\* The service finishes what it was asked for.
ServiceSettles ==
  /\ \/ table = "creating" /\ table' = "active" /\ UNCHANGED ttl
     \/ ttl = "enabling" /\ ttl' = "on" /\ UNCHANGED table
     \/ ttl = "enabling-other" /\ ttl' = "other" /\ UNCHANGED table
  /\ UNCHANGED <<machine, store, calls, boot, foreign>>

-----------------------------------------------------------------------------
(* Append.                                                                  *)
Returned == {a \in Appends : dpc[a] = "ok"}

\* The instances boot together, before the conversation begins (bound).
Serving(w) == boot[w] = "up" /\ \A v \in Writers : boot[v] \in {"up", "failed"}

\* appendOnce up to TransactWriteItems: the writer's clock is read.
appendOnce(a) ==
  /\ dpc[a] = "begin"
  /\ \E w \in Writers :
       /\ Serving(w) /\ writer[a] \in {NoWriter, w}
       /\ writer' = [writer EXCEPT ![a] = w]
       /\ ts' = [ts EXCEPT ![a] = clock + skew[w]]
  /\ dpc' = [dpc EXCEPT ![a] = "write"]
  /\ earlier' = [earlier EXCEPT ![a] = IF tries[a] = 0 THEN Returned ELSE @]
  /\ UNCHANGED <<clock, skew, schema, store, tries>>

Taken(a) == \E i \in items : i.ts = ts[a]

\* A bug: no condition, the sort key being made unique by a suffix.
TransactUnkeyed(a) ==
  /\ dpc[a] = "write"
  /\ items' = items \cup Items(a)
  /\ \E outcome \in {"ok", "lost"} : dpc' = [dpc EXCEPT ![a] = outcome]
  /\ UNCHANGED <<machine, schema, expired, ts, tries, earlier>>

\* Both conditions hold: both items are stored.  The answer may be lost.
TransactWrites(a) ==
  /\ dpc[a] = "write" /\ ~Taken(a)
  /\ items' = items \cup Items(a)
  /\ \E outcome \in {"ok", "lost"} : dpc' = [dpc EXCEPT ![a] = outcome]
  /\ UNCHANGED <<machine, schema, expired, ts, tries, earlier>>

\* ConditionalCheckFailed: again, with a fresh timestamp.
CondCheckFailed(a) ==
  /\ dpc[a] = "write" /\ Taken(a)
  /\ tries' = [tries EXCEPT ![a] = @ + 1]
  /\ dpc' = [dpc EXCEPT ![a] = IF tries[a] + 1 < MaxAppendRetries THEN "begin" ELSE "exhausted"]
  /\ UNCHANGED <<machine, schema, store, ts, earlier>>

\* Any other error, a transaction in flight on the same items among them,
\* is returned at once.
AppendFails(a) ==
  /\ dpc[a] = "write"
  /\ dpc' = [dpc EXCEPT ![a] = "failed"]
  /\ UNCHANGED <<machine, schema, store, ts, tries, earlier>>

\* TTL deletes an item past its expires_at, some time or other.
TTLDeletes(i) ==
  /\ ttl = "on" /\ i.ts + TTL <= clock
  /\ items' = items \ {i} /\ expired' = expired \cup {i.by}
  /\ UNCHANGED <<machine, schema, calls>>

ClockTicks == (\E w \in Writers : Serving(w)) /\ clock < MaxClock /\ clock' = clock + 1
              /\ UNCHANGED <<skew, writer, schema, store, calls>>

Provisioning(w) == \/ ensureTable(w) \/ CreateTable(w) \/ waitTableActive(w)
                   \/ ensureTTL(w) \/ UpdateTTL(w) \/ waitTTLEnabled(w)
Appending(a) == appendOnce(a) \/ TransactWrites(a) \/ CondCheckFailed(a)

DynamoNext ==
  \/ \E w \in Writers : Provisioning(w) \/ provisionFails(w)
  \/ \E a \in Appends : Appending(a) \/ AppendFails(a)
  \/ \E i \in items : TTLDeletes(i)
  \/ OtherConsumer \/ ServiceSettles \/ ClockTicks

-----------------------------------------------------------------------------
\* A bug: the sort key is the role first.
PrecedesByRole(i, j) == (i.role = "user" /\ j.role # "user") \/ (i.role = j.role /\ i.ts < j.ts)

\* The order of the sort keys "ts#0", "ts#1".
Precedes(i, j) == i.ts < j.ts \/ (i.ts = j.ts /\ i.role = "user" /\ j.role = "assistant")

\* What a Query, which is not asked for a consistent read, may find: a replica may
\* lack any of the items.  (That it still has one TTL deleted is as if TTL deleted
\* it later.)
Views == SUBSET items

\* Load: the last MaxTurns * 2 of the items found (descending, reversed).
DynamoLoad(view) == {i \in view : Cardinality({j \in view : Precedes(i, j)}) < MaxTurns * 2}

(* The conversation's order: a turn appended after another one's Append had *)
(* returned sorts after it, unless it was written by an instance whose      *)
(* clock is behind; and no two turns share a key.                           *)
ChatOrder ==
  \A i \in items, j \in items :
    /\ i.ts = j.ts => i.by = j.by
    /\ (i.by \in earlier[j.by] /\ skew[writer[i.by]] <= skew[writer[j.by]]) => i.ts < j.ts

Paired(i, S) == \E j \in S : j.ts = i.ts /\ j.role # i.role

(* Load's window is the most recent part of what its Query found.  If that  *)
(* was turns that are whole, then so is the window; if a stale replica had  *)
(* the half of some turns, the window also cuts a turn that was found whole *)
(* (its older half, which leaves an answer without a question), but one at  *)
(* most.  A Query that finds the items as they are finds whole turns until  *)
(* TTL deletes from them.                                                   *)
DynamoRecent ==
  /\ \A view \in Views : LET window == DynamoLoad(view) IN
       /\ \A i \in window, j \in view : Precedes(i, j) => j \in window
       /\ (\A i \in view : Paired(i, view)) => \A i \in window : Paired(i, window)
       /\ \A i, j \in window :
            (/\ Paired(i, view) /\ ~Paired(i, window)
             /\ Paired(j, view) /\ ~Paired(j, window)) => i = j /\ i.role = "assistant"
  /\ expired = {} => \A i \in items : Paired(i, items)

(* An instance is up only once the table takes writes and TTL is enabled,   *)
(* however many instances found it missing together: enabled on expires_at, *)
(* unless the instance met another consumer's change under way.  Then it    *)
(* comes up, with "TTL ENABLED on" expires_at in its log (provision.go:138),*)
(* although TTL is on the other attribute, where ensureTTL alone would have *)
(* refused ("refusing to silently change another consumer's config",        *)
(* provision.go:102).                                                       *)
BootedReady ==
  \A w \in Writers : boot[w] = "up" =>
    table = "active" /\ (ttl = "on" \/ (ttl = "other" /\ w \in foreign))
=============================================================================
