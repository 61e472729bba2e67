------------------------------ MODULE PgMemory ------------------------------
(***************************************************************************)
(* The Postgres conversation memory, pkg/workflow/builtin/pgmemory, for    *)
(* one memory key: concurrent Append calls and Load.                       *)
(*                                                                         *)
(* An Append runs a transaction: read MAX(turn_index) + 1, insert the user *)
(* row, insert the assistant row, commit; it is retried when the UNIQUE    *)
(* constraint on (turn_index, role) fails.  The database (external) runs   *)
(* at its default isolation, read committed: a statement sees the rows     *)
(* committed so far, and an insert of a key that an open transaction has   *)
(* inserted waits for that transaction to end.                             *)
(***************************************************************************)
EXTENDS Integers, FiniteSets, Sequences

CONSTANTS
  Appends,            \* the Append calls, one turn each
  MaxAppendRetries,   \* maxAppendRetries
  MaxTurns            \* cfg.MaxTurns, the window of Load

ASSUME MemoryBounds ==
  /\ MaxAppendRetries \in Nat \ {0} /\ MaxTurns \in Nat \ {0}

VARIABLES
  rows,      \* committed rows: [idx, role, by]
  pending,   \* rows of open transactions
  pc,        \* where each Append is
  nextIdx,   \* nextIdx of its current attempt
  attempt    \* its attempts that ended in a unique violation

vars == <<rows, pending, pc, nextIdx, attempt>>

Roles == {"user", "assistant"}
Row(a, role) == [idx |-> nextIdx[a], role |-> role, by |-> a]
RowSet == [idx : Nat, role : Roles, by : Appends]
Indices == {r.idx : r \in rows}

Finished == {"ok", "exhausted", "failed", "lost"}

(* The type invariant, with the code's own limits on its counters.          *)
TypeOK ==
  /\ rows \subseteq RowSet /\ pending \subseteq RowSet
  /\ pc \in [Appends -> {"begin", "user", "assistant", "commit"} \cup Finished]
  /\ nextIdx \in [Appends -> Nat]
  /\ attempt \in [Appends -> 0..MaxAppendRetries]

Init ==
  /\ rows = {} /\ pending = {}
  /\ pc = [a \in Appends |-> "begin"]
  /\ nextIdx = [a \in Appends |-> 0]
  /\ attempt = [a \in Appends |-> 0]

-----------------------------------------------------------------------------
Mine(a) == {r \in pending : r.by = a}
Conflict(R, a, role) == \E r \in R : r.idx = nextIdx[a] /\ r.role = role

\* COALESCE(MAX(turn_index) + 1, 0)
Successor == IF Indices = {} THEN 0 ELSE (CHOOSE i \in Indices : \A j \in Indices : j <= i) + 1

\* Begin, then SELECT: the index after the last committed turn.
BeginAndSelect(a) ==
  /\ pc[a] = "begin"
  /\ nextIdx' = [nextIdx EXCEPT ![a] = Successor]
  /\ pc' = [pc EXCEPT ![a] = "user"]
  /\ UNCHANGED <<rows, pending, attempt>>

After(role) == IF role = "user" THEN "assistant" ELSE "commit"

\* INSERT of one of the two rows: its key is neither committed nor held.
InsertOK(a, role) ==
  /\ pc[a] = role
  /\ ~Conflict(rows \cup pending, a, role)
  /\ pending' = pending \cup {Row(a, role)}
  /\ pc' = [pc EXCEPT ![a] = After(role)]
  /\ UNCHANGED <<rows, nextIdx, attempt>>

RolledBack(a) == pending' = pending \ Mine(a)

\* UniqueViolation: roll back, and start over while there are attempts left.
Violation(a, role) ==
  /\ pc[a] = role
  /\ Conflict(rows, a, role)
  /\ RolledBack(a)
  /\ attempt' = [attempt EXCEPT ![a] = @ + 1]
  /\ pc' = [pc EXCEPT ![a] = IF attempt[a] + 1 < MaxAppendRetries THEN "begin" ELSE "exhausted"]
  /\ UNCHANGED <<rows, nextIdx>>

\* Commit succeeds; its answer may be lost on the way ("lost": Append
\* returns an error although the turn is stored).
Commit(a) ==
  /\ pc[a] = "commit"
  /\ rows' = rows \cup Mine(a)
  /\ RolledBack(a)
  /\ \E outcome \in {"ok", "lost"} : pc' = [pc EXCEPT ![a] = outcome]
  /\ UNCHANGED <<nextIdx, attempt>>

\* A bug: the rows are not in one transaction, so a failure leaves the first.
FailsHalfway(a) ==
  /\ pc[a] \notin Finished
  /\ rows' = rows \cup Mine(a)
  /\ RolledBack(a)
  /\ pc' = [pc EXCEPT ![a] = "failed"]
  /\ UNCHANGED <<nextIdx, attempt>>

\* A bug: no deferred rollback, the transaction stays open.
FailsHoldingLocks(a) ==
  /\ pc[a] \notin Finished
  /\ pc' = [pc EXCEPT ![a] = "failed"]
  /\ UNCHANGED <<rows, pending, nextIdx, attempt>>

\* Any other error, a cancelled context among them, at any statement: the
\* deferred rollback, no retry.
Fails(a) ==
  /\ pc[a] \notin Finished
  /\ RolledBack(a)
  /\ pc' = [pc EXCEPT ![a] = "failed"]
  /\ UNCHANGED <<rows, nextIdx, attempt>>

Progress(a) == \/ BeginAndSelect(a)
               \/ \E role \in Roles : InsertOK(a, role) \/ Violation(a, role)
               \/ Commit(a)

Next == \E a \in Appends : Progress(a) \/ Fails(a)

Spec == Init /\ [][Next]_vars

(* Every Append runs in a goroutine of its own: a statement that does not   *)
(* wait for another transaction returns.  No statement has to fail.         *)
FairSpec == Spec /\ \A a \in Appends : WF_vars(Progress(a))

-----------------------------------------------------------------------------
\* By turn_index, the user's row of a turn before the assistant's.
Before(r, s) == r.idx < s.idx \/ (r.idx = s.idx /\ r.role = "user" /\ s.role = "assistant")

\* Load: the first MaxTurns * 2 rows in that order.
Load == {r \in rows : Cardinality({s \in rows : Before(s, r)}) < MaxTurns * 2}

(* A turn is all or nothing and has an index of its own: concurrent Appends *)
(* never mix their rows, and the indices in use are 0..n-1 with no gap, in  *)
(* whatever order transactions block, commit, fail and retry.               *)
TurnsWhole ==
  /\ \A r \in rows : \E s \in rows : s.idx = r.idx /\ s.by = r.by /\ s.role # r.role
  /\ \A r \in rows, s \in rows : (r.idx = s.idx \/ r.by = s.by) => (r.idx = s.idx /\ r.by = s.by)
  /\ \A r \in rows : \A i \in 0..(r.idx) : i \in Indices

(* What Append returns is true: nil means the turn is stored, running out   *)
(* of retries or another error before the commit that it is not.            *)
OutcomeTrue ==
  \A a \in Appends :
    /\ pc[a] \in {"ok", "lost"} => \E r \in rows : r.by = a
    /\ pc[a] \in {"failed", "exhausted"} => \A r \in rows \cup pending : r.by # a

(* A retry is spent only on a turn that another Append committed meanwhile: *)
(* an Append on its n-th retry has seen n turns go first, so it never gives *)
(* up with fewer than maxAppendRetries rivals.                              *)
RetriesAreRivals == \A a \in Appends : \A i \in 0..(attempt[a] - 1) : i \in Indices

(* Load never splits a turn and never has a hole: what the LLM is shown is  *)
(* user, assistant, user, assistant, ... from the first turn on.            *)
LoadIsTurns ==
  /\ \A r \in Load : \E s \in Load : s.idx = r.idx /\ s.role # r.role
  /\ \A r \in Load : \A i \in 0..(r.idx) : \E s \in Load : s.idx = i

(* Load's comment: "up to MaxTurns*2 most-recent messages".  The last turn  *)
(* stored is among those loaded.                                            *)
LoadsMostRecent == \A r \in rows : (\A s \in rows : s.idx <= r.idx) => r \in Load
=============================================================================
