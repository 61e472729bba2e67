--------------------------- MODULE MemoriesProofs ---------------------------
(***************************************************************************)
(* TLAPS proofs about the two memories, for any number of concurrent       *)
(* Appends, instances, retries, any window, TTL and skew of clocks.        *)
(*                                                                         *)
(* Postgres: TurnsWhole is not inductive by itself.  What is added: an     *)
(* open transaction holds exactly the rows of its phase, at the index it   *)
(* read (PendingPhase); no key is held twice, committed or not             *)
(* (KeysUnique); only an Append that committed has rows (RowsOwned); the   *)
(* indices in use are an initial segment of the naturals (Contiguous),     *)
(* all of what lies below a transaction's index is in use, and that index  *)
(* is no smaller than its retries (Below); an Append at work has attempts  *)
(* left (Attempting).                                                      *)
(*                                                                         *)
(* Dynamo: an instance past a check of provisioning finds what it checked  *)
(* (BootInv); an item belongs to the one Append that wrote it, at the      *)
(* time its clock showed (ItemsOwned, ClockRead), and an Append that       *)
(* began later read a later time unless its writer's clock is behind       *)
(* (FirstDone, InOrder).                                                   *)
(*                                                                         *)
(* Load counts rows, so its window is whole because the rows before one,   *)
(* and the items after one, are counted by bijections.  No Append waits    *)
(* for one that waits, or makes more calls than its attempts allow.  Last, *)
(* either memory implements ConversationMemory.                            *)
(***************************************************************************)
EXTENDS Memories, FiniteSetTheorems, TLAPS

Active == {"user", "assistant", "commit"}

HeldByPhase(r) ==
  /\ pc[r.by] \in {"assistant", "commit"}
  /\ r.idx = nextIdx[r.by]
  /\ r.role = "assistant" => pc[r.by] = "commit"

PendingPhase ==
  /\ \A r \in pending : HeldByPhase(r)
  /\ \A a \in Appends : pc[a] \in {"assistant", "commit"} => Row(a, "user") \in pending
  /\ \A a \in Appends : pc[a] = "commit" => Row(a, "assistant") \in pending

KeysUnique ==
  \A r \in rows \cup pending, s \in rows \cup pending :
    (r.idx = s.idx /\ r.role = s.role) => r = s

RowsOwned ==
  /\ \A r \in rows : pc[r.by] \in {"ok", "lost"}
  /\ \A a \in Appends : pc[a] \in {"ok", "lost"} => \E r \in rows : r.by = a

RowsPaired ==
  /\ \A r \in rows : \E s \in rows : s.idx = r.idx /\ s.by = r.by /\ s.role # r.role
  /\ \A r \in rows, s \in rows : (r.idx = s.idx \/ r.by = s.by) => (r.idx = s.idx /\ r.by = s.by)

Contiguous == \E n \in Nat : Indices = 0..(n - 1)

Below ==
  \A a \in Appends : pc[a] \in Active =>
    /\ \A i \in 0..(nextIdx[a] - 1) : i \in Indices
    /\ attempt[a] <= nextIdx[a]

Attempting == \A a \in Appends : pc[a] \notin Finished => attempt[a] < MaxAppendRetries

IInv == TypeOK /\ PendingPhase /\ KeysUnique /\ RowsOwned /\ RowsPaired /\ Contiguous
        /\ Below /\ Attempting /\ RetriesAreRivals

-----------------------------------------------------------------------------
(* The initial state, an empty table, satisfies the invariant.              *)
LEMMA InitIInv == Init => IInv
<1> SUFFICES ASSUME Init PROVE IInv
  OBVIOUS
<1>1. TypeOK
  BY MemoryBounds DEF Init, TypeOK
<1>2. PendingPhase /\ KeysUnique /\ RowsOwned /\ RowsPaired
  BY DEF Init, PendingPhase, HeldByPhase, KeysUnique, RowsOwned, RowsPaired
<1>3. Indices = 0..(0 - 1)
  BY DEF Init, Indices
<1>4. Contiguous
  BY <1>3 DEF Contiguous
<1>5. Below /\ Attempting /\ RetriesAreRivals
  BY MemoryBounds DEF Init, Below, Active, Attempting, RetriesAreRivals
<1> QED
  BY <1>1, <1>2, <1>4, <1>5 DEF IInv

(* The SELECT of appendOnce returns the number of turns stored: the first   *)
(* index not in use.                                                        *)
LEMMA SuccessorIsNext ==
  ASSUME NEW n \in Nat, Indices = 0..(n - 1)
  PROVE  Successor = n
<1>1. CASE n = 0
  <2>1. Indices = {}
    BY <1>1
  <2> QED
    BY <2>1, <1>1 DEF Successor
<1>2. CASE n # 0
  <2>1. n - 1 \in Indices /\ \A j \in Indices : j <= n - 1
    BY <1>2
  <2>2. \A i \in Indices : (\A j \in Indices : j <= i) => i = n - 1
    BY <2>1
  <2>3. (CHOOSE i \in Indices : \A j \in Indices : j <= i) = n - 1
    BY <2>1, <2>2
  <2>4. Indices # {}
    BY <2>1
  <2>5. Successor = (n - 1) + 1
    BY <2>3, <2>4 DEF Successor
  <2> QED
    BY <2>5
<1> QED
  BY <1>1, <1>2

(* A key that is committed or held: the index of an open transaction's      *)
(* rows is not the index of a stored turn.                                  *)
LEMMA HeldIsFree ==
  ASSUME IInv, NEW a \in Appends, pc[a] \in {"assistant", "commit"}
  PROVE  nextIdx[a] \notin Indices
<1> SUFFICES ASSUME NEW r \in rows, r.idx = nextIdx[a] PROVE FALSE
  BY DEF Indices
<1>1. PICK s \in rows : s.idx = nextIdx[a] /\ s.role = "user"
  BY DEF IInv, RowsPaired, TypeOK, RowSet, Roles
<1>2. Row(a, "user") \in pending
  BY DEF IInv, PendingPhase, HeldByPhase
<1>3. s = Row(a, "user")
  BY <1>1, <1>2 DEF IInv, KeysUnique, Row
<1>4. s.by = a
  BY <1>3 DEF Row
<1> QED
  BY <1>4 DEF IInv, RowsOwned

(* Each step of an Append keeps the invariant.                              *)
LEMMA BeginStep ==
  ASSUME IInv, NEW a \in Appends, BeginAndSelect(a)
  PROVE  IInv'
<1> USE DEF BeginAndSelect
<1>1. PICK n \in Nat : Indices = 0..(n - 1)
  BY DEF IInv, Contiguous
<1>2. Successor = n
  BY <1>1, SuccessorIsNext
<1>3. TypeOK'
  BY <1>2 DEF IInv, TypeOK
<1>4. Indices' = Indices
  BY DEF Indices
<1>5. PendingPhase'
  <2>1. \A r \in pending : r.by \in Appends /\ r.by # a
    BY DEF IInv, PendingPhase, HeldByPhase, TypeOK, RowSet
  <2>2. \A b \in Appends : b # a => nextIdx'[b] = nextIdx[b] /\ pc'[b] = pc[b]
    BY DEF IInv, TypeOK
  <2>3. pc'[a] = "user"
    BY DEF IInv, TypeOK
  <2> QED
    BY <2>1, <2>2, <2>3 DEF IInv, PendingPhase, HeldByPhase, Row
<1>6. KeysUnique' /\ RowsPaired'
  BY DEF IInv, KeysUnique, RowsPaired
<1>7. RowsOwned'
  BY DEF IInv, RowsOwned, TypeOK, RowSet
<1>8. Contiguous' /\ RetriesAreRivals'
  BY <1>4 DEF IInv, Contiguous, RetriesAreRivals
<1>9. Below'
  <2>1. attempt[a] <= n
    <3>1. attempt[a] \in Nat
      BY DEF IInv, TypeOK
    <3>2. \A i \in 0..(attempt[a] - 1) : i \in 0..(n - 1)
      BY <1>1 DEF IInv, RetriesAreRivals
    <3>3. CASE attempt[a] = 0
      BY <3>3
    <3>4. CASE attempt[a] # 0
      BY <3>1, <3>2, <3>4
    <3> QED
      BY <3>3, <3>4
  <2>2. nextIdx'[a] = n /\ attempt' = attempt
    BY <1>2 DEF IInv, TypeOK
  <2>3. \A b \in Appends : b # a => nextIdx'[b] = nextIdx[b] /\ pc'[b] = pc[b]
    BY DEF IInv, TypeOK
  <2> QED
    BY <1>1, <1>4, <2>1, <2>2, <2>3 DEF IInv, Below
<1>10. Attempting'
  BY DEF IInv, TypeOK, Attempting, Finished
<1> QED
  BY <1>3, <1>5, <1>6, <1>7, <1>8, <1>9, <1>10 DEF IInv

(* An INSERT that succeeds took a key nobody has.                           *)
LEMMA InsertStep ==
  ASSUME IInv, NEW a \in Appends, NEW role \in Roles, InsertOK(a, role)
  PROVE  IInv'
<1> USE DEF InsertOK
<1>1. /\ \A b \in Appends : b # a => pc'[b] = pc[b]
      /\ pc'[a] = After(role)
      /\ pc[a] = role
      /\ Row(a, role) \in RowSet
  BY DEF IInv, TypeOK, RowSet, Row
<1>2. After(role) \in {"assistant", "commit"} /\ role \in {"user", "assistant"}
  BY DEF After, Roles
<1>3. TypeOK'
  BY <1>1, <1>2 DEF IInv, TypeOK
<1>4. PendingPhase'
  <2>1. \A r \in pending : r.by \in Appends
    BY DEF IInv, TypeOK, RowSet
  <2>2. /\ Row(a, role).by = a /\ Row(a, role).idx = nextIdx[a] /\ Row(a, role).role = role
        /\ \A b \in Appends, x \in Roles : Row(b, x)' = Row(b, x)
    BY DEF Row
  <2>3. \A r \in pending : r.by = a => role = "assistant" /\ r.role # "assistant"
    BY <1>1, <1>2 DEF IInv, PendingPhase, HeldByPhase
  <2>4. \A r \in pending' : HeldByPhase(r)'
    BY <1>1, <1>2, <2>1, <2>2, <2>3 DEF IInv, PendingPhase, HeldByPhase, After
  <2>5. \A b \in Appends : pc'[b] \in {"assistant", "commit"} => Row(b, "user") \in pending'
    BY <1>1, <1>2 DEF IInv, PendingPhase, HeldByPhase
  <2>6. \A b \in Appends : pc'[b] = "commit" => Row(b, "assistant") \in pending'
    BY <1>1, <1>2 DEF IInv, PendingPhase, HeldByPhase, After
  <2> HIDE DEF InsertOK
  <2> QED
    BY <2>2, <2>4, <2>5, <2>6 DEF PendingPhase, Roles
<1>5. KeysUnique'
  <2>1. \A r \in rows \cup pending : ~(r.idx = Row(a, role).idx /\ r.role = Row(a, role).role)
    BY DEF Conflict, Row
  <2> QED
    BY <2>1 DEF IInv, KeysUnique
<1>6. RowsOwned' /\ RowsPaired'
  BY <1>1, <1>2 DEF IInv, RowsOwned, RowsPaired, TypeOK, RowSet
<1>7. Indices' = Indices
  BY DEF Indices
<1>8. Contiguous' /\ RetriesAreRivals'
  BY <1>7 DEF IInv, Contiguous, RetriesAreRivals
<1>9. Below'
  BY <1>1, <1>2, <1>7 DEF IInv, Below, Active
<1>10. Attempting'
  BY <1>1, <1>2 DEF IInv, Attempting, Finished
<1> QED
  BY <1>3, <1>4, <1>5, <1>6, <1>8, <1>9, <1>10 DEF IInv

(* What a rollback leaves: the rows of the other transactions.              *)
LEMMA RollbackKeeps ==
  ASSUME IInv, NEW a \in Appends, NEW where,
         pending' = pending \ Mine(a),
         UNCHANGED nextIdx,
         pc' = [pc EXCEPT ![a] = where],
         where \notin {"assistant", "commit"}
  PROVE  PendingPhase'
<1>1. \A r \in pending' : r \in pending /\ r.by \in Appends /\ r.by # a
  BY DEF IInv, TypeOK, RowSet, Mine
<1>2. \A b \in Appends : b # a => pc'[b] = pc[b]
  BY DEF IInv, TypeOK
<1>3. pc'[a] = where
  BY DEF IInv, TypeOK
<1>4. \A b \in Appends, x \in Roles : Row(b, x)' = Row(b, x) /\ Row(b, x).by = b
  BY DEF Row
<1>5. \A b \in Appends : pc'[b] \in {"assistant", "commit"} => Row(b, "user") \in pending'
  BY <1>2, <1>3, <1>4 DEF IInv, PendingPhase, HeldByPhase, Mine, Roles
<1>6. \A b \in Appends : pc'[b] = "commit" => Row(b, "assistant") \in pending'
  BY <1>2, <1>3, <1>4 DEF IInv, PendingPhase, HeldByPhase, Mine, Roles
<1> QED
  BY <1>1, <1>2, <1>4, <1>5, <1>6 DEF IInv, PendingPhase, HeldByPhase, Roles

(* A unique violation spends a retry on a turn a rival has committed: the   *)
(* one fact RetriesAreRivals needs beyond the table's own invariants.       *)
LEMMA ViolationStep ==
  ASSUME IInv, NEW a \in Appends, NEW role \in Roles, Violation(a, role)
  PROVE  IInv'
<1> USE DEF Violation
<1> DEFINE where == IF attempt[a] + 1 < MaxAppendRetries THEN "begin" ELSE "exhausted"
<1>1. /\ \A b \in Appends : b # a => pc'[b] = pc[b] /\ attempt'[b] = attempt[b]
      /\ pc'[a] = where
      /\ attempt'[a] = attempt[a] + 1
      /\ attempt[a] \in Nat /\ nextIdx[a] \in Nat
      /\ pc[a] \in Active
  BY DEF IInv, TypeOK, Active, Roles
<1>2. where \in {"begin", "exhausted"}
  OBVIOUS
<1>3. nextIdx[a] \in Indices /\ attempt[a] <= nextIdx[a]
  BY <1>1 DEF Conflict, Indices, IInv, Below
<1>4. Indices' = Indices
  BY DEF Indices
<1>5. attempt[a] \in Indices
  BY <1>1, <1>3 DEF IInv, Below
<1>6. RetriesAreRivals'
  <2>1. \A i \in 0..(attempt'[a] - 1) : i = attempt[a] \/ i \in 0..(attempt[a] - 1)
    BY <1>1
  <2>2. \A i \in 0..(attempt'[a] - 1) : i \in Indices
    BY <2>1, <1>5 DEF IInv, RetriesAreRivals
  <2> QED
    BY <1>1, <1>4, <2>2 DEF IInv, RetriesAreRivals
<1>7. TypeOK'
  <2>1. attempt[a] + 1 \in 0..MaxAppendRetries
    <3>1. attempt[a] < MaxAppendRetries
      BY <1>1 DEF IInv, Attempting, Active, Finished
    <3> QED
      BY <3>1, <1>1, MemoryBounds
  <2> QED
    BY <1>2, <2>1 DEF IInv, TypeOK, RolledBack, Finished
<1>8. PendingPhase'
  BY <1>2, RollbackKeeps DEF RolledBack
<1>9. KeysUnique'
  BY DEF IInv, KeysUnique, RolledBack
<1>10. RowsOwned' /\ RowsPaired'
  BY <1>1, <1>2 DEF IInv, RowsOwned, RowsPaired, TypeOK, RowSet, Active
<1>11. Contiguous'
  BY <1>4 DEF IInv, Contiguous
<1>12. Below'
  BY <1>1, <1>2, <1>4 DEF IInv, Below, Active
<1>13. Attempting'
  BY <1>1, <1>2, MemoryBounds DEF IInv, TypeOK, Attempting, Finished
<1> QED
  BY <1>6, <1>7, <1>8, <1>9, <1>10, <1>11, <1>12, <1>13 DEF IInv

(* An Append that fails leaves nothing of its own behind.                   *)
LEMMA FailStep ==
  ASSUME IInv, NEW a \in Appends, Fails(a)
  PROVE  IInv'
<1> USE DEF Fails
<1>1. /\ \A b \in Appends : b # a => pc'[b] = pc[b]
      /\ pc'[a] = "failed"
      /\ pc[a] \notin Finished
  BY DEF IInv, TypeOK
<1>2. TypeOK'
  BY DEF IInv, TypeOK, RolledBack, Finished
<1>3. PendingPhase'
  <2>1. "failed" \notin {"assistant", "commit"}
    OBVIOUS
  <2> QED
    BY <2>1, RollbackKeeps DEF RolledBack
<1>4. KeysUnique'
  BY DEF IInv, KeysUnique, RolledBack
<1>5. RowsOwned' /\ RowsPaired'
  BY <1>1 DEF IInv, RowsOwned, RowsPaired, TypeOK, RowSet, Finished
<1>6. Indices' = Indices
  BY DEF Indices
<1>7. Contiguous' /\ RetriesAreRivals'
  BY <1>6 DEF IInv, Contiguous, RetriesAreRivals
<1>8. Below' /\ Attempting'
  BY <1>1, <1>6 DEF IInv, Below, Active, Attempting, Finished
<1> QED
  BY <1>2, <1>3, <1>4, <1>5, <1>7, <1>8 DEF IInv

(* What a committing transaction holds: both rows of its turn.              *)
LEMMA HoldsTurn ==
  ASSUME IInv, NEW a \in Appends, pc[a] = "commit"
  PROVE  Mine(a) = {Row(a, "user"), Row(a, "assistant")}
<1> DEFINE u == Row(a, "user")
           v == Row(a, "assistant")
<1>1. u \in pending /\ v \in pending
  BY DEF IInv, PendingPhase, HeldByPhase
<1>2. /\ u.idx = nextIdx[a] /\ u.role = "user" /\ u.by = a
      /\ v.idx = nextIdx[a] /\ v.role = "assistant" /\ v.by = a
  BY DEF Row
<1>3. \A r \in pending : r.by = a => r.idx = nextIdx[a] /\ r.role \in {"user", "assistant"}
  BY DEF IInv, PendingPhase, HeldByPhase, TypeOK, RowSet, Roles
<1>4. \A r \in pending : r.by = a => r = u \/ r = v
  BY <1>1, <1>2, <1>3 DEF IInv, KeysUnique
<1> QED
  BY <1>1, <1>2, <1>4 DEF Mine

(* A commit adds a whole turn at the first free index: the transaction      *)
(* holds both rows, and its index has not been taken since it was read.     *)
LEMMA CommitStep ==
  ASSUME IInv, NEW a \in Appends, Commit(a)
  PROVE  IInv'
<1> USE DEF Commit
<1>1. PICK outcome \in {"ok", "lost"} : pc' = [pc EXCEPT ![a] = outcome]
  OBVIOUS
<1>2. /\ \A b \in Appends : b # a => pc'[b] = pc[b]
      /\ pc'[a] = outcome
      /\ pc[a] = "commit"
      /\ nextIdx[a] \in Nat
  BY <1>1 DEF IInv, TypeOK
<1> DEFINE u == Row(a, "user")
           v == Row(a, "assistant")
<1>3. u \in pending /\ v \in pending
  BY <1>2 DEF IInv, PendingPhase, HeldByPhase
<1>4. /\ u.idx = nextIdx[a] /\ u.role = "user" /\ u.by = a
      /\ v.idx = nextIdx[a] /\ v.role = "assistant" /\ v.by = a
  BY DEF Row
<1>5. Mine(a) = {u, v}
  BY <1>2, HoldsTurn
<1> HIDE DEF u, v
<1>6. rows' = rows \cup {u, v} /\ pending' = pending \ {u, v}
  BY <1>5 DEF RolledBack
<1>7. nextIdx[a] \notin Indices
  BY <1>2, HeldIsFree
<1>8. \A r \in rows : r.by # a /\ r.idx # nextIdx[a]
  BY <1>2, <1>7 DEF IInv, RowsOwned, Indices
<1>9. TypeOK'
  BY <1>1, <1>3, <1>6 DEF IInv, TypeOK, Finished
<1>10. PendingPhase'
  BY <1>1, RollbackKeeps DEF RolledBack
<1>11. KeysUnique'
  <2>1. rows' \cup pending' \subseteq rows \cup pending
    BY <1>3, <1>6
  <2> QED
    BY <2>1 DEF IInv, KeysUnique
<1>12. RowsOwned'
  <2>1. \A r \in rows : r.by \in Appends
    BY DEF IInv, TypeOK, RowSet
  <2> QED
    BY <1>2, <1>4, <1>6, <1>8, <2>1 DEF IInv, RowsOwned
<1>13. RowsPaired'
  <2>1. \A r \in rows' : \E s \in rows' : s.idx = r.idx /\ s.by = r.by /\ s.role # r.role
    BY <1>4, <1>6 DEF IInv, RowsPaired
  <2>2. \A r \in rows', s \in rows' : (r.idx = s.idx \/ r.by = s.by) => (r.idx = s.idx /\ r.by = s.by)
    BY <1>4, <1>6, <1>8 DEF IInv, RowsPaired
  <2> QED
    BY <2>1, <2>2 DEF RowsPaired
<1>14. Indices' = Indices \cup {nextIdx[a]}
  BY <1>4, <1>6 DEF Indices
<1>15. Contiguous'
  <2>1. PICK n \in Nat : Indices = 0..(n - 1)
    BY DEF IInv, Contiguous
  <2>2. \A i \in 0..(nextIdx[a] - 1) : i \in 0..(n - 1)
    BY <1>2, <2>1 DEF IInv, Below, Active
  <2>3. nextIdx[a] = n
    <3>1. nextIdx[a] \notin 0..(n - 1)
      BY <1>7, <2>1
    <3>2. nextIdx[a] >= n
      BY <3>1, <1>2
    <3>3. CASE nextIdx[a] > n
      BY <1>2, <2>2, <3>3
    <3> QED
      BY <1>2, <3>2, <3>3
  <2>4. Indices' = 0..((n + 1) - 1)
    BY <1>14, <2>1, <2>3
  <2> QED
    BY <2>4 DEF Contiguous
<1>16. RetriesAreRivals'
  BY <1>14 DEF IInv, RetriesAreRivals
<1>17. Below' /\ Attempting'
  BY <1>2, <1>14 DEF IInv, Below, Active, Attempting, Finished
<1> QED
  BY <1>9, <1>10, <1>11, <1>12, <1>13, <1>15, <1>16, <1>17 DEF IInv

(* Every step of the specification keeps the invariant.                     *)
LEMMA InvStep == IInv /\ [Next]_vars => IInv'
<1> SUFFICES ASSUME IInv, [Next]_vars PROVE IInv'
  OBVIOUS
<1>1. CASE Next
  <2>1. PICK a \in Appends : Progress(a) \/ Fails(a)
    BY <1>1 DEF Next
  <2>2. CASE BeginAndSelect(a)
    BY <2>2, BeginStep
  <2>3. ASSUME NEW role \in Roles, InsertOK(a, role) \/ Violation(a, role) PROVE IInv'
    BY <2>3, InsertStep, ViolationStep
  <2>4. CASE Commit(a)
    BY <2>4, CommitStep
  <2>5. CASE Fails(a)
    BY <2>5, FailStep
  <2> QED
    BY <2>1, <2>2, <2>3, <2>4, <2>5 DEF Progress
<1>2. CASE UNCHANGED vars
  BY <1>2 DEF vars, IInv, TypeOK, PendingPhase, HeldByPhase, KeysUnique, RowsOwned, RowsPaired,
     Contiguous, Below, Attempting, RetriesAreRivals, Indices, Row
<1> QED
  BY <1>1, <1>2

(* IInv holds of every reachable state.                                     *)
LEMMA IInvHolds == Spec => []IInv
  BY InitIInv, InvStep, PTL DEF Spec

-----------------------------------------------------------------------------
(* The types of the model's variables, for any number of Append calls.      *)
THEOREM TypeCorrect == Spec => []TypeOK
<1>1. IInv => TypeOK
  BY DEF IInv
<1> QED
  BY <1>1, IInvHolds, PTL

(* Turns are stored whole, each at an index of its own, with no gap,        *)
(* however many Append calls race (appendOnce's transaction and the UNIQUE  *)
(* constraint).                                                             *)
THEOREM WholeTurns == Spec => []TurnsWhole
<1>1. IInv => TurnsWhole
  <2> SUFFICES ASSUME IInv PROVE TurnsWhole
    OBVIOUS
  <2>1. PICK n \in Nat : Indices = 0..(n - 1)
    BY DEF IInv, Contiguous
  <2>2. \A r \in rows : r.idx \in 0..(n - 1)
    BY <2>1 DEF Indices
  <2>3. \A r \in rows : \A i \in 0..(r.idx) : i \in Indices
    BY <2>1, <2>2
  <2> QED
    BY <2>3 DEF IInv, RowsPaired, TurnsWhole
<1> QED
  BY <1>1, IInvHolds, PTL

(* What Append returns agrees with what is stored.                          *)
THEOREM TrueOutcome == Spec => []OutcomeTrue
<1>1. IInv => OutcomeTrue
  BY DEF IInv, OutcomeTrue, RowsOwned, PendingPhase, HeldByPhase
<1> QED
  BY <1>1, IInvHolds, PTL

(* An Append loses an attempt only to a turn another Append stored, so with *)
(* at most maxAppendRetries - 1 rivals contention never makes it fail.      *)
THEOREM RetriesSpentOnRivals == Spec => []RetriesAreRivals
<1>1. IInv => RetriesAreRivals
  BY DEF IInv
<1> QED
  BY <1>1, IInvHolds, PTL

-----------------------------------------------------------------------------
(* Postgres behind the choice of a memory: what is proved of it above holds *)
(* of the composition, which adds only steps that leave it alone.           *)
LEMMA MemoriesStep == [MemoriesNext]_mvars => [Next]_vars
BY DEF MemoriesNext, OnPostgres, OnDynamo, mvars

(* The composition is a behaviour of the Postgres memory.                   *)
LEMMA MemoriesIsPg == MemoriesSpec => Spec
<1>1. MemoriesInit => Init
  BY DEF MemoriesInit
<1> QED BY <1>1, MemoriesStep, PTL DEF MemoriesSpec, Spec

(* The Postgres memory's invariant holds in the composition.                *)
LEMMA AlwaysIInv == MemoriesSpec => []IInv
BY MemoriesIsPg, IInvHolds, PTL

-----------------------------------------------------------------------------
(* Why an Append on Postgres returns: nobody waits in a circle, and nobody  *)
(* can go on for ever.                                                      *)

\* The statement an Append is at returns, with success or with a violation:
\* it waits for no open transaction.
Ready(a) ==
  \/ pc[a] \in {"begin", "commit"}
  \/ pc[a] \in Roles /\ (Conflict(rows \cup pending, a, pc[a]) => Conflict(rows, a, pc[a]))

\* Only the insert of the user's row ever waits or is in violation, and the
\* transaction it waits for does not wait itself.
WaitsEnd ==
  \A a \in Appends : pc[a] \notin Finished =>
    /\ pc[a] = "assistant" => ~Conflict(rows \cup pending, a, "assistant")
    /\ \/ Ready(a)
       \/ \E b \in Appends \ {a} : Ready(b) /\ Row(b, "user") \in pending /\ nextIdx[b] = nextIdx[a]

\* The statements an Append has left, if it loses every race it still can.
StatementsLeft(a) ==
  IF pc[a] \in Finished THEN 0
  ELSE 4 * (MaxAppendRetries - attempt[a] - 1)
         + (CASE pc[a] = "begin" -> 4 [] pc[a] = "user" -> 3 [] pc[a] = "assistant" -> 2 [] pc[a] = "commit" -> 1)

\* A statement uses up some of its own Append's, and none of another's.
CountsDown ==
  \A a \in Appends : Progress(a) \/ Fails(a) =>
    /\ StatementsLeft(a)' < StatementsLeft(a)
    /\ \A b \in Appends \ {a} : StatementsLeft(b)' = StatementsLeft(b)

(* The row of an Append in the middle of its transaction.                   *)
LEMMA AssistantFree ==
  ASSUME IInv, NEW a \in Appends, pc[a] = "assistant"
  PROVE  ~Conflict(rows \cup pending, a, "assistant")
<1> SUFFICES ASSUME NEW r \in rows \cup pending, r.idx = nextIdx[a], r.role = "assistant"
             PROVE  FALSE
  BY DEF Conflict
<1>1. Row(a, "user") \in pending
  BY DEF IInv, PendingPhase
<1>2. Row(a, "user").idx = nextIdx[a] /\ Row(a, "user").role = "user" /\ Row(a, "user").by = a
  BY DEF Row
<1>3. r \in RowSet /\ r.by \in Appends
  BY DEF IInv, TypeOK, RowSet
<1>4. CASE r \in pending
  <2>1. pc[r.by] = "commit" /\ r.idx = nextIdx[r.by]
    BY <1>4 DEF IInv, PendingPhase, HeldByPhase
  <2>2. Row(r.by, "user") \in pending
    BY <1>3, <2>1 DEF IInv, PendingPhase
  <2>3. Row(r.by, "user").idx = nextIdx[r.by] /\ Row(r.by, "user").role = "user" /\ Row(r.by, "user").by = r.by
    BY DEF Row
  <2>4. Row(r.by, "user") = Row(a, "user")
    BY <1>1, <1>2, <2>1, <2>2, <2>3 DEF IInv, KeysUnique
  <2> QED BY <1>2, <2>1, <2>3, <2>4
<1>5. CASE r \in rows
  <2>1. PICK s \in rows : s.idx = r.idx /\ s.by = r.by /\ s.role # r.role
    BY <1>5 DEF IInv, RowsPaired
  <2>2. s.role = "user"
    BY <2>1 DEF IInv, TypeOK, RowSet, Roles
  <2>3. s = Row(a, "user")
    BY <1>1, <1>2, <2>1, <2>2 DEF IInv, KeysUnique
  <2>4. pc[a] \in {"ok", "lost"}
    BY <1>2, <2>1, <2>3 DEF IInv, RowsOwned
  <2> QED BY <2>4
<1> QED BY <1>4, <1>5

(* However many Appends race, they never wait for each other in a circle:   *)
(* an insert only ever waits for a transaction that can go on, because both *)
(* rows of a turn are inserted in the same order at the same index          *)
(* (appendOnce), and the second insert never meets another's row at all.    *)
THEOREM NoLockCycle == MemoriesSpec => []WaitsEnd
<1>1. IInv => WaitsEnd
  <2> SUFFICES ASSUME IInv, NEW a \in Appends, pc[a] \notin Finished
               PROVE  /\ pc[a] = "assistant" => ~Conflict(rows \cup pending, a, "assistant")
                      /\ \/ Ready(a)
                         \/ \E b \in Appends \ {a} : Ready(b) /\ Row(b, "user") \in pending /\ nextIdx[b] = nextIdx[a]
    BY DEF WaitsEnd
  <2>1. pc[a] \in {"begin", "user", "assistant", "commit"}
    BY DEF IInv, TypeOK
  <2>2. CASE pc[a] \in {"begin", "commit"}
    BY <2>2 DEF Ready
  <2>3. CASE pc[a] = "assistant"
    BY <2>3, AssistantFree DEF Ready, Roles
  <2>4. CASE pc[a] = "user" /\ ~Ready(a)
    <3>1. PICK r \in pending : r.idx = nextIdx[a] /\ r.role = "user"
      BY <2>4 DEF Ready, Roles, Conflict
    <3>2. r.by \in Appends /\ pc[r.by] \in {"assistant", "commit"} /\ r.idx = nextIdx[r.by]
      BY <3>1 DEF IInv, TypeOK, RowSet, PendingPhase, HeldByPhase
    <3>3. Row(r.by, "user") \in pending
      BY <3>2 DEF IInv, PendingPhase
    <3>4. Ready(r.by)
      BY <3>2, AssistantFree DEF Ready, Roles
    <3> QED BY <2>4, <3>1, <3>2, <3>3, <3>4
  <2> QED BY <2>1, <2>2, <2>3, <2>4
<1> QED BY <1>1, MemoriesIsPg, IInvHolds, PTL

(* An Append takes at most four statements for each of its attempts,        *)
(* whatever its rivals do: it begins, inserts twice and commits, and every  *)
(* way back to the beginning costs it one of maxAppendRetries.              *)
THEOREM AppendsBounded ==
  MemoriesSpec =>
    /\ [](\A a \in Appends : StatementsLeft(a) \in 0..(4 * MaxAppendRetries))
    /\ [][CountsDown]_vars
<1>1. IInv => \A a \in Appends : StatementsLeft(a) \in 0..(4 * MaxAppendRetries)
  <2> SUFFICES ASSUME IInv, NEW a \in Appends PROVE StatementsLeft(a) \in 0..(4 * MaxAppendRetries)
    OBVIOUS
  <2>1. /\ MaxAppendRetries \in Nat /\ attempt[a] \in Nat
        /\ pc[a] \notin Finished => attempt[a] < MaxAppendRetries
        /\ pc[a] \in {"begin", "user", "assistant", "commit"} \cup Finished
    BY MemoryBounds DEF IInv, TypeOK, Attempting
  <2> QED BY <2>1 DEF StatementsLeft
<1>2. IInv /\ [Next]_vars => [CountsDown]_vars
  <2> SUFFICES ASSUME IInv, NEW a \in Appends, Progress(a) \/ Fails(a)
               PROVE  /\ StatementsLeft(a)' < StatementsLeft(a)
                      /\ \A b \in Appends \ {a} : StatementsLeft(b)' = StatementsLeft(b)
    BY DEF CountsDown
  <2>1. /\ MaxAppendRetries \in Nat /\ attempt[a] \in Nat /\ attempt[a] < MaxAppendRetries
        /\ pc \in [Appends -> {"begin", "user", "assistant", "commit"} \cup Finished]
        /\ attempt \in [Appends -> 0..MaxAppendRetries] /\ pc[a] \notin Finished
    BY MemoryBounds DEF IInv, TypeOK, Attempting, Progress, BeginAndSelect, InsertOK, Violation,
                        Commit, Fails, Finished, Roles
  <2>2. PICK n : n = MaxAppendRetries - attempt[a] - 1
    OBVIOUS
  <2>3. n \in Nat
    BY <2>1, <2>2
  <2>4. ASSUME NEW b \in Appends \ {a} PROVE StatementsLeft(b)' = StatementsLeft(b)
    <3>1. pc'[b] = pc[b] /\ attempt'[b] = attempt[b]
      BY <2>1, <2>4 DEF Progress, BeginAndSelect, InsertOK, Violation, Commit, Fails
    <3> QED BY <3>1 DEF StatementsLeft
  <2>5. CASE Fails(a) \/ Commit(a)
    <3>1. pc'[a] \in Finished
      BY <2>1, <2>5 DEF Fails, Commit, Finished
    <3>2. StatementsLeft(a)' = 0
      BY <3>1 DEF StatementsLeft
    <3>3. StatementsLeft(a) > 0
      BY <2>1, <2>2, <2>3 DEF StatementsLeft
    <3> QED BY <2>4, <3>2, <3>3
  <2>6. CASE BeginAndSelect(a)
    <3>1. pc[a] = "begin" /\ pc'[a] = "user" /\ attempt' = attempt
      BY <2>1, <2>6 DEF BeginAndSelect
    <3>2. StatementsLeft(a) = 4 * n + 4 /\ StatementsLeft(a)' = 4 * n + 3
      BY <2>2, <3>1 DEF StatementsLeft, Finished
    <3> QED BY <2>3, <2>4, <3>2
  <2>7. ASSUME NEW role \in Roles, InsertOK(a, role)
        PROVE  StatementsLeft(a)' < StatementsLeft(a)
    <3>1. pc[a] = role /\ pc'[a] = After(role) /\ attempt' = attempt
      BY <2>1, <2>7 DEF InsertOK
    <3>2. CASE role = "user"
      <4>1. StatementsLeft(a) = 4 * n + 3 /\ StatementsLeft(a)' = 4 * n + 2
        BY <2>2, <3>1, <3>2 DEF StatementsLeft, Finished, After
      <4> QED BY <2>3, <4>1
    <3>3. CASE role = "assistant"
      <4>1. StatementsLeft(a) = 4 * n + 2 /\ StatementsLeft(a)' = 4 * n + 1
        BY <2>2, <3>1, <3>3 DEF StatementsLeft, Finished, After
      <4> QED BY <2>3, <4>1
    <3> QED BY <3>2, <3>3 DEF Roles
  <2>8. ASSUME NEW role \in Roles, Violation(a, role)
        PROVE  StatementsLeft(a)' < StatementsLeft(a)
    <3>1. /\ pc[a] = role /\ attempt'[a] = attempt[a] + 1
          /\ pc'[a] = IF attempt[a] + 1 < MaxAppendRetries THEN "begin" ELSE "exhausted"
      BY <2>1, <2>8 DEF Violation
    <3>2. StatementsLeft(a) >= 4 * n + 2
      BY <2>2, <2>3, <3>1 DEF StatementsLeft, Finished, Roles
    <3>3. CASE attempt[a] + 1 < MaxAppendRetries
      <4>1. StatementsLeft(a)' = 4 * (MaxAppendRetries - (attempt[a] + 1) - 1) + 4
        BY <3>1, <3>3 DEF StatementsLeft, Finished
      <4>2. MaxAppendRetries - (attempt[a] + 1) - 1 = n - 1
        BY <2>1, <2>2
      <4>3. StatementsLeft(a)' = 4 * n
        BY <2>3, <4>1, <4>2
      <4>4. StatementsLeft(a) \in Int
        BY <1>1, <2>1
      <4> QED BY <2>3, <3>2, <4>3, <4>4
    <3>4. CASE ~(attempt[a] + 1 < MaxAppendRetries)
      <4>1. StatementsLeft(a)' = 0
        BY <3>1, <3>4 DEF StatementsLeft, Finished
      <4>2. StatementsLeft(a) \in Int
        BY <1>1, <2>1
      <4> QED BY <2>3, <3>2, <4>1, <4>2
    <3> QED BY <3>3, <3>4
  <2> QED BY <2>4, <2>5, <2>6, <2>7, <2>8 DEF Progress
<1> QED BY <1>1, <1>2, MemoriesIsPg, IInvHolds, PTL DEF Spec

-----------------------------------------------------------------------------
(* Dynamo.  An instance that is past the table's check finds it active, and *)
(* one that waits for TTL has met another consumer or waits for its own.    *)
PastTable == {"ttl", "update", "waitTTL", "up"}
BootInv ==
  /\ boot \in [Writers -> {"describe", "create", "waitTable", "failed"} \cup PastTable]
  /\ \A w \in Writers : boot[w] \in PastTable => table = "active"
  /\ \A w \in Writers : boot[w] = "waitTTL" => ttl \in {"enabling", "on"} \/ w \in foreign
  /\ D!BootedReady

(* ChatOrder rests on what is true of a timestamp from the moment it is     *)
(* read: it is not ahead of its writer's clock, it is the one its items     *)
(* carry, and it is no smaller than those of the turns that had returned    *)
(* before, by a clock that is not ahead of this one.                        *)
DTypeOK ==
  /\ clock \in Nat /\ skew \in [Writers -> Nat]
  /\ writer \in [DynamoAppends -> Writers \cup {D!NoWriter}]
  /\ items \subseteq [ts : Nat, role : Roles, by : DynamoAppends] /\ IsFiniteSet(items)
  /\ dpc \in [DynamoAppends -> {"begin", "write"} \cup Finished]
  /\ ts \in [DynamoAppends -> Nat] /\ tries \in [DynamoAppends -> Nat]
  /\ earlier \in [DynamoAppends -> SUBSET DynamoAppends]

ItemsOwned == \A i \in items : i.ts = ts[i.by] /\ dpc[i.by] \in {"ok", "lost"}
ClockRead  ==
  \A a \in DynamoAppends : dpc[a] # "begin" =>
    writer[a] \in Writers /\ ts[a] <= clock + skew[writer[a]]
FirstDone  == \A b \in DynamoAppends : \A a \in earlier[b] : dpc[a] = "ok"
InOrder    ==
  \A b \in DynamoAppends : \A a \in earlier[b] :
    (dpc[b] # "begin" /\ skew[writer[a]] <= skew[writer[b]]) => ts[a] <= ts[b]
ItemsWhole == expired = {} =>
  \A i \in items : \E j \in items : j.ts = i.ts /\ j.by = i.by /\ j.role # i.role

DInv == DTypeOK /\ ItemsOwned /\ ClockRead /\ FirstDone /\ InOrder /\ ItemsWhole /\ ChatOrder

(* The memory that does not serve stays empty.                              *)
Idle ==
  /\ backend \in {"postgres", "dynamo"}
  /\ backend = "postgres" => items = {} /\ \A a \in DynamoAppends : dpc[a] = "begin"
  /\ backend = "dynamo" => rows = {} /\ \A a \in Appends : pc[a] = "begin"

(* Dynamo's invariants hold at first.                                       *)
LEMMA InitDInv == MemoriesInit => BootInv /\ DInv /\ Idle
<1> SUFFICES ASSUME MemoriesInit PROVE BootInv /\ DInv /\ Idle
  OBVIOUS
<1> USE DEF MemoriesInit, D!DynamoInit
<1>1. BootInv
  BY DEF BootInv, PastTable, D!BootedReady
<1>2. IsFiniteSet(items)
  BY FS_EmptySet
<1>3. DTypeOK
  BY <1>2, DynamoBounds DEF DTypeOK
<1>4. ItemsOwned /\ ClockRead /\ FirstDone /\ InOrder /\ ItemsWhole /\ ChatOrder
  BY DEF ItemsOwned, ClockRead, FirstDone, InOrder, ItemsWhole, ChatOrder, D!ChatOrder
<1>5. Idle
  BY DEF Idle, Init
<1> QED BY <1>1, <1>3, <1>4, <1>5 DEF DInv

(* Provisioning: the table is only ever created, and TTL only switched on.  *)
LEMMA BootStep ==
  ASSUME BootInv, D!DynamoNext
  PROVE  BootInv'
<1>1. ASSUME NEW w \in Writers, D!Provisioning(w) \/ D!provisionFails(w) PROVE BootInv'
  <2> USE DEF BootInv, PastTable, D!BootedReady, D!Boots, D!Meets
  <2>1. CASE D!ensureTable(w)
    BY <2>1 DEF D!ensureTable
  <2>2. CASE D!CreateTable(w)
    BY <2>2 DEF D!CreateTable
  <2>3. CASE D!waitTableActive(w)
    BY <2>3 DEF D!waitTableActive
  <2>4. CASE D!ensureTTL(w)
    BY <2>4 DEF D!ensureTTL
  <2>5. CASE D!UpdateTTL(w)
    BY <2>5 DEF D!UpdateTTL
  <2>6. CASE D!waitTTLEnabled(w)
    BY <2>6 DEF D!waitTTLEnabled
  <2>7. CASE D!provisionFails(w)
    BY <2>7 DEF D!provisionFails
  <2> QED BY <1>1, <2>1, <2>2, <2>3, <2>4, <2>5, <2>6, <2>7 DEF D!Provisioning
<1>2. CASE UNCHANGED <<table, ttl, boot, foreign>>
  BY <1>2 DEF BootInv, D!BootedReady
<1>3. CASE D!ServiceSettles \/ D!OtherConsumer
  BY <1>3 DEF BootInv, D!BootedReady, PastTable, D!ServiceSettles, D!OtherConsumer
<1> QED BY <1>1, <1>2, <1>3 DEF D!DynamoNext, D!Appending, D!AppendFails, D!appendOnce,
       D!TransactWrites, D!CondCheckFailed, D!TTLDeletes, D!ClockTicks, D!schema

(* Steps that touch neither an Append nor an item.                          *)
LEMMA AsideStep ==
  ASSUME DInv, UNCHANGED <<skew, writer, items, expired, dpc, ts, tries, earlier>>,
         clock' \in Nat, clock <= clock'
  PROVE  DInv'
<1>1. DTypeOK' /\ ItemsOwned' /\ FirstDone' /\ InOrder' /\ ItemsWhole' /\ ChatOrder'
  BY DEF DInv, DTypeOK, ItemsOwned, FirstDone, InOrder, ItemsWhole, ChatOrder, D!ChatOrder
<1>2. ClockRead'
  <2> SUFFICES ASSUME NEW a \in DynamoAppends, dpc[a] # "begin"
               PROVE  writer[a] \in Writers /\ ts[a] <= clock' + skew[writer[a]]
    BY DEF ClockRead
  <2>1. writer[a] \in Writers /\ ts[a] <= clock + skew[writer[a]] /\ ts[a] \in Nat
        /\ skew[writer[a]] \in Nat /\ clock \in Nat
    BY DEF DInv, ClockRead, DTypeOK
  <2> QED BY <2>1
<1> QED BY <1>1, <1>2 DEF DInv

(* appendOnce reads its writer's clock: no turn that has returned carries a *)
(* later time by a clock that is not ahead.                                 *)
LEMMA AppendStep ==
  ASSUME DInv, NEW a \in DynamoAppends, D!appendOnce(a)
  PROVE  DInv'
<1> USE DEF DInv
<1>1. PICK w \in Writers : /\ writer' = [writer EXCEPT ![a] = w]
                           /\ ts' = [ts EXCEPT ![a] = clock + skew[w]]
  BY DEF D!appendOnce
<1> DEFINE E == IF tries[a] = 0 THEN D!Returned ELSE earlier[a]
<1>2. /\ dpc[a] = "begin" /\ dpc' = [dpc EXCEPT ![a] = "write"]
      /\ earlier' = [earlier EXCEPT ![a] = E]
      /\ UNCHANGED <<clock, skew, items, expired, tries>>
  BY DEF D!appendOnce, D!store, DTypeOK
<1>3. E \subseteq DynamoAppends /\ \A b \in E : dpc[b] = "ok"
  BY DEF D!Returned, DTypeOK, FirstDone
<1> HIDE DEF E
<1>4. /\ clock \in Nat /\ skew[w] \in Nat /\ clock + skew[w] \in Nat
      /\ writer'[a] = w /\ ts'[a] = clock + skew[w] /\ dpc'[a] = "write" /\ earlier'[a] = E
      /\ \A b \in DynamoAppends : b # a => /\ writer'[b] = writer[b] /\ ts'[b] = ts[b]
                                           /\ dpc'[b] = dpc[b] /\ earlier'[b] = earlier[b]
  BY <1>1, <1>2 DEF DTypeOK
<1>5. DTypeOK'
  BY <1>1, <1>2, <1>3, <1>4 DEF DTypeOK
<1>6. \A i \in items : i.by \in DynamoAppends /\ i.by # a
  BY <1>2 DEF DTypeOK, ItemsOwned
<1>7. ItemsOwned' /\ ItemsWhole'
  BY <1>2, <1>4, <1>6 DEF ItemsOwned, ItemsWhole
<1>8. ClockRead'
  BY <1>2, <1>4 DEF ClockRead
<1>9. FirstDone'
  <2> SUFFICES ASSUME NEW b \in DynamoAppends, NEW c \in earlier'[b] PROVE dpc'[c] = "ok"
    BY DEF FirstDone
  <2>1. dpc[c] = "ok" /\ c \in DynamoAppends
    BY <1>3, <1>4 DEF FirstDone, DTypeOK
  <2> QED BY <1>2, <1>4, <2>1
<1>10. InOrder'
  <2> SUFFICES ASSUME NEW b \in DynamoAppends, NEW c \in earlier'[b],
                      dpc'[b] # "begin", skew[writer'[c]] <= skew[writer'[b]]
               PROVE  ts'[c] <= ts'[b]
    BY <1>2 DEF InOrder
  <2>1. c \in DynamoAppends /\ dpc[c] = "ok"
    BY <1>3, <1>4 DEF FirstDone, DTypeOK
  <2>2. c # a /\ writer'[c] = writer[c] /\ ts'[c] = ts[c]
    BY <1>2, <1>4, <2>1
  <2>3. CASE b = a
    <3>1. ts[c] <= clock + skew[writer[c]] /\ writer[c] \in Writers
      BY <2>1 DEF ClockRead
    <3>2. skew[writer[c]] \in Nat /\ ts[c] \in Nat
      BY <3>1, <2>1 DEF DTypeOK
    <3> QED BY <1>4, <2>2, <2>3, <3>1, <3>2
  <2>4. CASE b # a
    BY <1>4, <2>2, <2>4 DEF InOrder
  <2> QED BY <2>3, <2>4
<1>11. ChatOrder'
  BY <1>2, <1>4, <1>6 DEF ChatOrder, D!ChatOrder
<1> QED BY <1>5, <1>7, <1>8, <1>9, <1>10, <1>11

(* The transaction: both items, at a time nobody else holds.                *)
LEMMA WriteStep ==
  ASSUME DInv, NEW a \in DynamoAppends, D!TransactWrites(a)
  PROVE  DInv'
<1> USE DEF DInv
<1>1. PICK outcome \in {"ok", "lost"} : dpc' = [dpc EXCEPT ![a] = outcome]
  BY DEF D!TransactWrites
<1>2. /\ dpc[a] = "write" /\ items' = items \cup D!Items(a) /\ \A i \in items : i.ts # ts[a]
      /\ UNCHANGED <<clock, skew, writer, expired, ts, tries, earlier>>
  BY DEF D!TransactWrites, D!Taken, D!machine
<1> DEFINE u == [ts |-> ts[a], role |-> "user", by |-> a]
           v == [ts |-> ts[a], role |-> "assistant", by |-> a]
<1>3. D!Items(a) = {u, v}
  <2>1. \A x \in D!Items(a) : x = u \/ x = v
    BY DEF D!Items, D!Roles
  <2>2. u \in D!Items(a) /\ v \in D!Items(a)
    BY DEF D!Items, D!Roles
  <2> QED BY <2>1, <2>2
<1>4. /\ u.ts = ts[a] /\ u.role = "user" /\ u.by = a
      /\ v.ts = ts[a] /\ v.role = "assistant" /\ v.by = a
      /\ ts[a] \in Nat
      /\ u \in [ts : Nat, role : Roles, by : DynamoAppends]
      /\ v \in [ts : Nat, role : Roles, by : DynamoAppends]
  BY DEF DTypeOK, Roles
<1> HIDE DEF u, v
<1>5. items' = (items \cup {u}) \cup {v}
  BY <1>2, <1>3
<1>6. IsFiniteSet(items')
  <2>1. IsFiniteSet(items \cup {u})
    BY FS_AddElement DEF DTypeOK
  <2> QED BY <1>5, <2>1, FS_AddElement
<1>7. /\ dpc'[a] = outcome
      /\ \A b \in DynamoAppends : b # a => dpc'[b] = dpc[b]
  BY <1>1 DEF DTypeOK
<1>8. DTypeOK'
  BY <1>1, <1>2, <1>4, <1>5, <1>6 DEF DTypeOK, Finished
<1>9. \A i \in items : i.by \in DynamoAppends /\ i.by # a /\ i.ts = ts[i.by]
  BY <1>2 DEF DTypeOK, ItemsOwned
<1>10. ItemsOwned'
  BY <1>2, <1>4, <1>5, <1>7, <1>9 DEF ItemsOwned
<1>11. ClockRead'
  BY <1>2, <1>7 DEF ClockRead
<1>12. FirstDone'
  <2> SUFFICES ASSUME NEW b \in DynamoAppends, NEW c \in earlier[b] PROVE dpc'[c] = "ok"
    BY <1>2 DEF FirstDone
  <2>1. dpc[c] = "ok" /\ c \in DynamoAppends
    BY DEF FirstDone, DTypeOK
  <2> QED BY <1>2, <1>7, <2>1
<1>13. InOrder'
  BY <1>2, <1>7 DEF InOrder
<1>14. ItemsWhole'
  <2> SUFFICES ASSUME expired = {}, NEW i \in items'
               PROVE  \E j \in items' : j.ts = i.ts /\ j.by = i.by /\ j.role # i.role
    BY <1>2 DEF ItemsWhole
  <2>1. CASE i \in items
    BY <1>5, <2>1 DEF ItemsWhole
  <2>2. CASE i \notin items
    BY <1>4, <1>5, <2>2
  <2> QED BY <2>1, <2>2
<1>15. ChatOrder'
  <2> SUFFICES ASSUME NEW i \in items', NEW j \in items'
               PROVE  /\ i.ts = j.ts => i.by = j.by
                      /\ (i.by \in earlier[j.by] /\ skew[writer[i.by]] <= skew[writer[j.by]])
                           => i.ts < j.ts
    BY <1>2 DEF ChatOrder, D!ChatOrder
  <2>1. CASE i \in items /\ j \in items
    BY <2>1 DEF ChatOrder, D!ChatOrder
  <2>2. CASE i \notin items
    <3>1. i.by = a /\ i.ts = ts[a]
      BY <1>4, <1>5, <2>2
    <3>2. j.by \in DynamoAppends => a \notin earlier[j.by]
      BY <1>2 DEF FirstDone
    <3> QED BY <1>2, <1>4, <1>5, <1>9, <3>1, <3>2
  <2>3. CASE i \in items /\ j \notin items
    <3>1. j.by = a /\ j.ts = ts[a] /\ i.ts # ts[a] /\ i.ts = ts[i.by] /\ i.ts \in Nat
      BY <1>2, <1>4, <1>5, <1>9, <2>3 DEF DTypeOK
    <3>2. (i.by \in earlier[a] /\ skew[writer[i.by]] <= skew[writer[a]]) => ts[i.by] <= ts[a]
      BY <1>2 DEF InOrder
    <3> QED BY <1>4, <3>1, <3>2
  <2> QED BY <2>1, <2>2, <2>3
<1> QED BY <1>8, <1>10, <1>11, <1>12, <1>13, <1>14, <1>15

(* An attempt that meets a stored item, or fails.                           *)
LEMMA RefuseStep ==
  ASSUME DInv, NEW a \in DynamoAppends, D!CondCheckFailed(a) \/ D!AppendFails(a)
  PROVE  DInv'
<1> USE DEF DInv
<1>1. PICK where \in {"begin", "exhausted", "failed"} : dpc' = [dpc EXCEPT ![a] = where]
  BY DEF D!CondCheckFailed, D!AppendFails
<1>2. /\ dpc[a] = "write"
      /\ UNCHANGED <<clock, skew, writer, items, expired, ts, earlier>>
      /\ tries' = tries \/ tries' = [tries EXCEPT ![a] = tries[a] + 1]
  BY DEF D!CondCheckFailed, D!AppendFails, D!machine, D!store, DTypeOK
<1>3. /\ dpc'[a] = where
      /\ \A b \in DynamoAppends : b # a => dpc'[b] = dpc[b]
  BY <1>1 DEF DTypeOK
<1>4. DTypeOK'
  BY <1>1, <1>2 DEF DTypeOK, Finished
<1>5. ItemsOwned' /\ ItemsWhole'
  BY <1>2, <1>3 DEF ItemsOwned, ItemsWhole, DTypeOK
<1>6. ClockRead' /\ InOrder'
  BY <1>2, <1>3 DEF ClockRead, InOrder
<1>7. FirstDone'
  <2> SUFFICES ASSUME NEW b \in DynamoAppends, NEW c \in earlier[b] PROVE dpc'[c] = "ok"
    BY <1>2 DEF FirstDone
  <2>1. dpc[c] = "ok" /\ c \in DynamoAppends
    BY DEF FirstDone, DTypeOK
  <2> QED BY <1>2, <1>3, <2>1
<1>8. ChatOrder'
  BY <1>2 DEF ChatOrder, D!ChatOrder
<1> QED BY <1>4, <1>5, <1>6, <1>7, <1>8

(* TTL only takes items away.                                               *)
LEMMA ForgetStep ==
  ASSUME DInv, NEW i \in items, D!TTLDeletes(i)
  PROVE  DInv'
<1> USE DEF DInv
<1>1. /\ items' = items \ {i} /\ expired' # {}
      /\ UNCHANGED <<clock, skew, writer, dpc, ts, tries, earlier>>
  BY DEF D!TTLDeletes, D!machine, D!calls
<1>2. IsFiniteSet(items')
  BY <1>1, FS_RemoveElement DEF DTypeOK
<1>3. DTypeOK'
  BY <1>1, <1>2 DEF DTypeOK
<1>4. ItemsOwned' /\ ClockRead' /\ FirstDone' /\ InOrder' /\ ItemsWhole' /\ ChatOrder'
  BY <1>1 DEF ItemsOwned, ClockRead, FirstDone, InOrder, ItemsWhole, ChatOrder, D!ChatOrder
<1> QED BY <1>3, <1>4

(* Every step of the Dynamo memory keeps DInv.                              *)
LEMMA DynamoStep ==
  ASSUME DInv, D!DynamoNext
  PROVE  DInv'
<1>1. ASSUME NEW a \in DynamoAppends, D!Appending(a) \/ D!AppendFails(a) PROVE DInv'
  BY <1>1, AppendStep, WriteStep, RefuseStep DEF D!Appending
<1>2. ASSUME NEW i \in items, D!TTLDeletes(i) PROVE DInv'
  BY <1>2, ForgetStep
<1>3. clock \in Nat
  BY DEF DInv, DTypeOK
<1>4. CASE UNCHANGED <<D!machine, D!store, D!calls>>
  BY <1>3, <1>4, AsideStep DEF D!machine, D!store, D!calls
<1>5. CASE D!ClockTicks
  BY <1>3, <1>5, AsideStep DEF D!ClockTicks, D!store, D!calls
<1>6. ASSUME NEW w \in Writers, D!Provisioning(w) \/ D!provisionFails(w) PROVE DInv'
  BY <1>4, <1>6 DEF D!Provisioning, D!ensureTable, D!CreateTable, D!waitTableActive, D!ensureTTL,
       D!UpdateTTL, D!waitTTLEnabled, D!provisionFails
<1>7. CASE D!ServiceSettles \/ D!OtherConsumer
  BY <1>4, <1>7 DEF D!ServiceSettles, D!OtherConsumer
<1> QED BY <1>1, <1>2, <1>5, <1>6, <1>7 DEF D!DynamoNext

(* The composition.                                                         *)
MInv == IInv /\ BootInv /\ DInv /\ Idle

(* Every step of the composition keeps MInv.                                *)
LEMMA NextMInv == MInv /\ [MemoriesNext]_mvars => MInv'
<1> SUFFICES ASSUME MInv, [MemoriesNext]_mvars PROVE MInv'
  OBVIOUS
<1> USE DEF MInv
<1>1. IInv'
  BY InvStep, MemoriesStep
<1>2. CASE UNCHANGED <<dynamo, backend>>
  <2>1. BootInv'
    BY <1>2 DEF BootInv, D!BootedReady, dynamo
  <2>2. DInv'
    <3>1. UNCHANGED <<clock, skew, writer, items, expired, dpc, ts, tries, earlier>> /\ clock \in Nat
      BY <1>2 DEF dynamo, DInv, DTypeOK
    <3> QED BY <3>1, AsideStep
  <2>3. backend = "dynamo" => UNCHANGED <<rows, pc>>
    BY <1>2 DEF MemoriesNext, OnPostgres, OnDynamo, mvars, vars
  <2>4. Idle'
    BY <1>2, <2>3 DEF Idle, dynamo
  <2> QED BY <1>1, <2>1, <2>2, <2>4
<1>3. CASE OnDynamo(D!DynamoNext)
  <2>1. BootInv' /\ DInv'
    BY <1>3, BootStep, DynamoStep DEF OnDynamo
  <2>2. Idle'
    BY <1>3 DEF OnDynamo, vars, Idle
  <2> QED BY <1>1, <2>1, <2>2
<1> QED BY <1>2, <1>3 DEF MemoriesNext, OnPostgres, mvars

(* MInv holds of every reachable state.                                     *)
LEMMA AlwaysMInv == MemoriesSpec => []MInv
<1>1. MemoriesInit => MInv
  BY InitIInv, InitDInv DEF MemoriesInit, MInv
<1> QED BY <1>1, NextMInv, PTL DEF MemoriesSpec

(* Postgres turns are whole, behind either choice of a memory.              *)
THEOREM TurnsAreWhole == MemoriesSpec => []TurnsWhole
BY MemoriesIsPg, WholeTurns, PTL

(* However many instances boot together, whatever another consumer of the   *)
(* table asks for and in whatever order the service settles, one that is up *)
(* finds its table active and TTL on expires_at, or TTL on the attribute    *)
(* whose enabling it met on the way (provision).                            *)
THEOREM BootsReady == MemoriesSpec => []BootedReady
<1>1. MInv => BootedReady
  BY DEF MInv, BootInv, BootedReady
<1> QED BY <1>1, AlwaysMInv, PTL

(* For any instances, clocks, retries and TTL, no two turns share a sort    *)
(* key, and a turn that began after another one had returned sorts after it *)
(* unless its writer's clock is behind (appendOnce of dynamomemory).        *)
THEOREM ChatInOrder == MemoriesSpec => []ChatOrder
<1>1. MInv => ChatOrder
  BY DEF MInv, DInv
<1> QED BY <1>1, AlwaysMInv, PTL

-----------------------------------------------------------------------------
(* On Dynamo nobody waits for anybody; an Append that keeps meeting stored  *)
(* items, on a clock that stands still, runs out of attempts.               *)

\* The calls an Append has left, if it meets a stored item in each of them.
CallsLeft(a) ==
  IF dpc[a] \in D!Finished THEN 0
  ELSE 2 * (MaxAppendRetries - tries[a] - 1) + (IF dpc[a] = "begin" THEN 2 ELSE 1)

\* A call uses up some of its own Append's and nothing else does.
CallsCountDown ==
  \A a \in DynamoAppends :
    /\ OnDynamo(D!Appending(a) \/ D!AppendFails(a)) => CallsLeft(a)' < CallsLeft(a)
    /\ ~OnDynamo(D!Appending(a) \/ D!AppendFails(a)) => CallsLeft(a)' = CallsLeft(a)

\* An Append at work has attempts left.
Trying == \A a \in DynamoAppends : dpc[a] \notin D!Finished => tries[a] < MaxAppendRetries

(* What a step does to the progress of one Append.                          *)
LEMMA CallSteps ==
  ASSUME DTypeOK, [MemoriesNext]_mvars, NEW a \in DynamoAppends
  PROVE  \/ /\ OnDynamo(D!Appending(a) \/ D!AppendFails(a))
            /\ \/ dpc[a] = "begin" /\ dpc'[a] = "write" /\ tries'[a] = tries[a]
               \/ dpc[a] = "write" /\ dpc'[a] \in D!Finished
               \/ /\ dpc[a] = "write" /\ dpc'[a] = "begin"
                  /\ tries'[a] = tries[a] + 1 /\ tries[a] + 1 < MaxAppendRetries
         \/ /\ ~OnDynamo(D!Appending(a) \/ D!AppendFails(a))
            /\ dpc'[a] = dpc[a] /\ tries'[a] = tries[a]
<1>1. /\ dpc \in [DynamoAppends -> {"begin", "write"} \cup Finished]
      /\ tries \in [DynamoAppends -> Nat]
  BY DEF DTypeOK
<1>2. ASSUME NEW b \in DynamoAppends, D!Appending(b) \/ D!AppendFails(b)
      PROVE  /\ \/ dpc[b] = "begin" /\ dpc'[b] = "write" /\ tries'[b] = tries[b]
                \/ dpc[b] = "write" /\ dpc'[b] \in D!Finished
                \/ /\ dpc[b] = "write" /\ dpc'[b] = "begin"
                   /\ tries'[b] = tries[b] + 1 /\ tries[b] + 1 < MaxAppendRetries
             /\ \A c \in DynamoAppends \ {b} : dpc'[c] = dpc[c] /\ tries'[c] = tries[c]
  <2>1. CASE D!appendOnce(b)
    BY <1>1, <2>1 DEF D!appendOnce
  <2>2. CASE D!TransactWrites(b)
    BY <1>1, <2>2 DEF D!TransactWrites, D!Finished
  <2>3. CASE D!CondCheckFailed(b)
    BY <1>1, <2>3 DEF D!CondCheckFailed, D!Finished
  <2>4. CASE D!AppendFails(b)
    BY <1>1, <2>4 DEF D!AppendFails, D!Finished
  <2> QED BY <1>2, <2>1, <2>2, <2>3, <2>4 DEF D!Appending
<1>3. CASE OnDynamo(D!Appending(a) \/ D!AppendFails(a))
  BY <1>2, <1>3 DEF OnDynamo
<1>4. CASE ~OnDynamo(D!Appending(a) \/ D!AppendFails(a))
  <2>1. CASE UNCHANGED <<dpc, tries>>
    BY <1>4, <2>1
  <2>2. ASSUME NEW b \in DynamoAppends, OnDynamo(D!Appending(b) \/ D!AppendFails(b))
        PROVE  dpc'[a] = dpc[a] /\ tries'[a] = tries[a]
    <3>1. b # a
      BY <1>4, <2>2
    <3> QED BY <1>2, <2>2, <3>1 DEF OnDynamo
  <2>3. CASE OnDynamo(D!DynamoNext)
    <3>1. CASE \E w \in Writers : D!Provisioning(w) \/ D!provisionFails(w)
      BY <2>1, <3>1 DEF D!Provisioning, D!provisionFails, D!ensureTable, D!CreateTable, D!waitTableActive,
                        D!ensureTTL, D!UpdateTTL, D!waitTTLEnabled, D!calls
    <3>2. CASE (\E i \in items : D!TTLDeletes(i)) \/ D!OtherConsumer \/ D!ServiceSettles \/ D!ClockTicks
      BY <2>1, <3>2 DEF D!TTLDeletes, D!OtherConsumer, D!ServiceSettles, D!ClockTicks, D!calls
    <3>3. CASE \E b \in DynamoAppends : D!Appending(b) \/ D!AppendFails(b)
      BY <1>4, <2>2, <2>3, <3>3 DEF OnDynamo
    <3> QED BY <2>3, <3>1, <3>2, <3>3 DEF OnDynamo, D!DynamoNext
  <2>4. CASE OnPostgres(Next) \/ UNCHANGED mvars
    BY <2>1, <2>4 DEF OnPostgres, mvars, dynamo
  <2> QED BY <2>3, <2>4 DEF MemoriesNext
<1> QED BY <1>3, <1>4

(* An Append on Dynamo makes at most two calls for each of its attempts     *)
(* (the clock it reads and the transaction it sends), however often the     *)
(* condition fails, and TTL, provisioning and other Appends add none.       *)
THEOREM DynamoAppendsBounded ==
  MemoriesSpec =>
    /\ [](\A a \in DynamoAppends : CallsLeft(a) \in 0..(2 * MaxAppendRetries))
    /\ [][CallsCountDown]_mvars
<1>1. MemoriesInit => Trying
  BY MemoryBounds DEF MemoriesInit, D!DynamoInit, Trying
<1>2. MInv /\ Trying /\ [MemoriesNext]_mvars => Trying'
  <2> SUFFICES ASSUME DTypeOK, Trying, [MemoriesNext]_mvars, NEW a \in DynamoAppends,
                      dpc'[a] \notin D!Finished
               PROVE  tries'[a] < MaxAppendRetries
    BY DEF MInv, DInv, Trying
  <2>1. \/ dpc[a] = "begin" /\ tries'[a] = tries[a]
        \/ tries'[a] = tries[a] + 1 /\ tries[a] + 1 < MaxAppendRetries
        \/ dpc'[a] = dpc[a] /\ tries'[a] = tries[a]
    BY CallSteps
  <2>2. "begin" \notin D!Finished
    BY DEF D!Finished
  <2> QED BY <2>1, <2>2 DEF Trying
<1>3. MInv /\ Trying => \A a \in DynamoAppends : CallsLeft(a) \in 0..(2 * MaxAppendRetries)
  <2> SUFFICES ASSUME MInv, Trying, NEW a \in DynamoAppends
               PROVE  CallsLeft(a) \in 0..(2 * MaxAppendRetries)
    OBVIOUS
  <2>1. /\ MaxAppendRetries \in Nat /\ tries[a] \in Nat
        /\ dpc[a] \notin D!Finished => tries[a] < MaxAppendRetries
    BY MemoryBounds DEF MInv, DInv, DTypeOK, Trying
  <2> QED BY <2>1 DEF CallsLeft
<1>4. MInv /\ Trying /\ [MemoriesNext]_mvars => [CallsCountDown]_mvars
  <2> SUFFICES ASSUME DTypeOK, Trying, [MemoriesNext]_mvars, NEW a \in DynamoAppends
               PROVE  /\ OnDynamo(D!Appending(a) \/ D!AppendFails(a)) => CallsLeft(a)' < CallsLeft(a)
                      /\ ~OnDynamo(D!Appending(a) \/ D!AppendFails(a)) => CallsLeft(a)' = CallsLeft(a)
    BY DEF MInv, DInv, CallsCountDown
  <2>1. MaxAppendRetries \in Nat /\ tries[a] \in Nat
    BY MemoryBounds DEF DTypeOK
  <2>2. "begin" \notin D!Finished /\ "write" \notin D!Finished
    BY DEF D!Finished
  <2>3. CASE dpc'[a] = dpc[a] /\ tries'[a] = tries[a] /\ ~OnDynamo(D!Appending(a) \/ D!AppendFails(a))
    BY <2>3 DEF CallsLeft
  <2>4. PICK n : n = MaxAppendRetries - tries[a] - 1
    OBVIOUS
  <2>5. n \in Int /\ (dpc[a] \notin D!Finished => n >= 0)
    BY <2>1, <2>4 DEF Trying
  <2>6. CASE dpc[a] = "begin" /\ dpc'[a] = "write" /\ tries'[a] = tries[a]
             /\ OnDynamo(D!Appending(a) \/ D!AppendFails(a))
    <3>1. CallsLeft(a) = 2 * n + 2 /\ CallsLeft(a)' = 2 * n + 1
      BY <2>2, <2>4, <2>6 DEF CallsLeft
    <3> QED BY <2>5, <2>6, <3>1
  <2>7. CASE dpc[a] = "write" /\ dpc'[a] \in D!Finished
             /\ OnDynamo(D!Appending(a) \/ D!AppendFails(a))
    <3>1. CallsLeft(a) = 2 * n + 1 /\ CallsLeft(a)' = 0
      BY <2>2, <2>4, <2>7 DEF CallsLeft
    <3> QED BY <2>2, <2>5, <2>7, <3>1
  <2>8. CASE dpc[a] = "write" /\ dpc'[a] = "begin" /\ tries'[a] = tries[a] + 1
             /\ OnDynamo(D!Appending(a) \/ D!AppendFails(a))
    <3>1. CallsLeft(a) = 2 * n + 1 /\ CallsLeft(a)' = 2 * (MaxAppendRetries - (tries[a] + 1) - 1) + 2
      BY <2>2, <2>4, <2>8 DEF CallsLeft
    <3>2. MaxAppendRetries - (tries[a] + 1) - 1 = n - 1
      BY <2>1, <2>4
    <3> QED BY <2>5, <2>8, <3>1, <3>2
  <2> QED BY <2>3, <2>6, <2>7, <2>8, CallSteps
<1> QED BY <1>1, <1>2, <1>3, <1>4, AlwaysMInv, PTL DEF MemoriesSpec

-----------------------------------------------------------------------------
(* Load.  On Postgres the rows before a given one are counted by a          *)
(* bijection with 1..n: the position of a row is its index and its role.    *)
Position(r) == 2 * r.idx + (IF r.role = "user" THEN 1 ELSE 2)
RowsBefore(r) == {s \in rows : Before(s, r)}

(* As many rows precede a row as its position says.                         *)
LEMMA RowsCounted ==
  ASSUME IInv, NEW r \in rows
  PROVE  Cardinality(RowsBefore(r)) = Position(r) - 1
<1> DEFINE S == RowsBefore(r)
           m == Position(r) - 1
           T == 1..m
           f == [s \in S |-> Position(s)]
<1>1. /\ \A s \in rows : s.idx \in Nat /\ s.role \in {"user", "assistant"} /\ Position(s) \in Nat
      /\ S \subseteq rows
      /\ m \in Nat
  BY DEF IInv, TypeOK, RowSet, Roles, Position, RowsBefore
<1>2. \A s \in rows : s \in S <=> Position(s) \in 1..m
  <2> SUFFICES ASSUME NEW s \in rows PROVE Before(s, r) <=> Position(s) < Position(r)
    BY <1>1 DEF RowsBefore, Position
  <2> QED BY <1>1 DEF Before, Position
<1>3. \A s \in rows, t \in rows : Position(s) = Position(t) => s = t
  <2> SUFFICES ASSUME NEW s \in rows, NEW t \in rows, Position(s) = Position(t) PROVE s = t
    OBVIOUS
  <2>1. \A k \in Nat, l \in Nat :
          /\ 2 * k + 1 # 2 * l + 2
          /\ 2 * k + 1 = 2 * l + 1 => k = l
          /\ 2 * k + 2 = 2 * l + 2 => k = l
    OBVIOUS
  <2>2. \A q \in rows : Position(q) = IF q.role = "user" THEN 2 * q.idx + 1 ELSE 2 * q.idx + 2
    BY DEF Position
  <2>3. s.role = t.role /\ s.idx = t.idx
    <3> HIDE DEF S, m, T, f
    <3>1. /\ s.idx \in Nat /\ t.idx \in Nat
          /\ s.role \in {"user", "assistant"} /\ t.role \in {"user", "assistant"}
      BY <1>1
    <3>2. CASE s.role = "user" /\ t.role = "user"
      BY <2>1, <2>2, <3>1, <3>2, Zenon
    <3>3. CASE s.role # "user" /\ t.role # "user"
      <4>1. t.role = "assistant" /\ s.role = "assistant"
        BY <3>1, <3>3
      <4>2. Position(s) = 2 * s.idx + 2 /\ Position(t) = 2 * t.idx + 2
        BY <2>2, <4>1
      <4>3. s.idx = t.idx
        BY <2>1, <3>1, <4>2, Zenon
      <4> QED BY <4>1, <4>3
    <3>4. CASE s.role = "user" /\ t.role # "user"
      BY <2>1, <2>2, <3>1, <3>4, Zenon
    <3>5. CASE s.role # "user" /\ t.role = "user"
      BY <2>1, <2>2, <3>1, <3>5, Zenon
    <3> QED BY <3>2, <3>3, <3>4, <3>5
  <2> QED BY <2>3 DEF IInv, KeysUnique
<1>4. \A n \in T : \E s \in S : Position(s) = n
  <2> SUFFICES ASSUME NEW n \in T PROVE \E s \in rows : Position(s) = n
    BY <1>2
  <2>1. PICK k \in Nat : n = 2 * k + 1 \/ n = 2 * k + 2
    <3>1. (n - 1) \div 2 \in Nat /\ n - 1 \in Nat
      BY <1>1
    <3>2. n = 2 * ((n - 1) \div 2) + 1 \/ n = 2 * ((n - 1) \div 2) + 2
      BY <1>1
    <3> QED BY <3>1, <3>2
  <2>2. k \in 0..(r.idx)
    BY <1>1, <2>1 DEF Position
  <2>3. k \in Indices
    <3>1. PICK l \in Nat : Indices = 0..(l - 1)
      BY DEF IInv, Contiguous
    <3>2. r.idx \in Indices
      BY DEF Indices
    <3> QED BY <2>2, <3>1, <3>2
  <2>4. PICK s \in rows : s.idx = k
    BY <2>3 DEF Indices
  <2>5. PICK t \in rows : t.idx = k /\ t.role # s.role
    BY <2>4 DEF IInv, RowsPaired
  <2> QED BY <1>1, <2>1, <2>4, <2>5 DEF Position
<1> HIDE DEF S, m, T
<1>5. f \in [S -> T]
  BY <1>1, <1>2 DEF T
<1>6. f \in Injection(S, T)
  BY <1>1, <1>3, <1>5 DEF Injection, IsInjective
<1>7. f \in Surjection(S, T)
  BY <1>4, <1>5 DEF Surjection
<1>8. IsFiniteSet(T) /\ Cardinality(T) = m
  BY <1>1, FS_Interval DEF T
<1>9. Cardinality(S) = Cardinality(T)
  <2> HIDE DEF f
  <2> QED BY <1>6, <1>7, <1>8, FS_Injection
<1> QED BY <1>8, <1>9 DEF S, m

(* So Load is the turns below MaxTurns, whole.                              *)
LEMMA LoadIsFirst == ASSUME IInv PROVE Load = {r \in rows : r.idx < MaxTurns}
<1> SUFFICES ASSUME NEW r \in rows
             PROVE  Cardinality({s \in rows : Before(s, r)}) < MaxTurns * 2 <=> r.idx < MaxTurns
  BY DEF Load
<1>1. Cardinality({s \in rows : Before(s, r)}) = Position(r) - 1
  BY RowsCounted DEF RowsBefore
<1>2. r.idx \in Nat
  BY DEF IInv, TypeOK, RowSet
<1> QED BY <1>1, <1>2, MemoryBounds DEF Position

(* The first rows, twice the window of them, are whole turns (pgmemory's    *)
(* Load).                                                                   *)
LEMMA PgLoads == IInv => LoadIsTurns
<1> SUFFICES ASSUME IInv PROVE LoadIsTurns
  OBVIOUS
<1>1. Load = {r \in rows : r.idx < MaxTurns}
  BY LoadIsFirst
<1>2. \A r \in Load : \E s \in Load : s.idx = r.idx /\ s.role # r.role
  BY <1>1 DEF IInv, RowsPaired
<1>3. ASSUME NEW r \in Load, NEW i \in 0..(r.idx) PROVE \E s \in Load : s.idx = i
  <2>1. PICK l \in Nat : Indices = 0..(l - 1)
    BY DEF IInv, Contiguous
  <2>2. r.idx \in Indices /\ r.idx < MaxTurns
    BY <1>1 DEF Indices
  <2>3. i \in Indices /\ i < MaxTurns
    BY <2>1, <2>2, MemoryBounds
  <2> QED BY <1>1, <2>3 DEF Indices
<1> QED BY <1>2, <1>3 DEF LoadIsTurns

(* On Dynamo the items that a Query finds after a given one are a final     *)
(* segment, and where it finds whole turns an even number follow an         *)
(* assistant's: as many users' as assistants'.                              *)
Later(view, i) == {j \in view : D!Precedes(i, j)}

(* The instance's Cardinality is the module's own.                          *)
LEMMA SameCount == ASSUME NEW S PROVE D!Cardinality(S) = Cardinality(S)
BY DEF D!Cardinality, Cardinality

(* Load is the items that few enough follow.                                *)
LEMMA LoadIsWindow ==
  ASSUME NEW view
  PROVE  D!DynamoLoad(view) = {i \in view : Cardinality(Later(view, i)) < DynamoTurns * 2}
BY SameCount DEF D!DynamoLoad, Later

(* What is known of the items found: of one turn, two at most.              *)
LEMMA ViewTyped ==
  ASSUME DInv, NEW view \in SUBSET items
  PROVE  /\ IsFiniteSet(view)
         /\ \A k \in view : k \in [ts : Nat, role : {"user", "assistant"}, by : DynamoAppends]
         /\ \A k, l \in view : k.ts = l.ts => k.by = l.by
<1>1. IsFiniteSet(view)
  BY FS_Subset DEF DInv, DTypeOK
<1> QED BY <1>1 DEF DInv, DTypeOK, Roles, ChatOrder, D!ChatOrder

(* Finitely many items follow one.                                          *)
LEMMA AfterIsFinite ==
  ASSUME DInv, NEW view \in SUBSET items, NEW i \in view
  PROVE  IsFiniteSet(Later(view, i)) /\ Cardinality(Later(view, i)) \in Nat
<1>1. Later(view, i) \in SUBSET view /\ IsFiniteSet(view)
  BY ViewTyped DEF Later
<1>2. IsFiniteSet(Later(view, i))
  BY <1>1, FS_Subset
<1> QED BY <1>2, FS_CardinalityType

(* What is found after a loaded item is loaded.                             *)
LEMMA LoadIsLast ==
  ASSUME DInv, NEW view \in SUBSET items, NEW i \in D!DynamoLoad(view), NEW j \in view, D!Precedes(i, j)
  PROVE  j \in D!DynamoLoad(view)
<1>1. i \in view /\ Cardinality(Later(view, i)) < DynamoTurns * 2
  BY LoadIsWindow
<1>2. \A k \in view : k.ts \in Nat
  BY ViewTyped
<1>3. Later(view, j) \subseteq Later(view, i)
  BY <1>1, <1>2 DEF Later, D!Precedes
<1>4. Cardinality(Later(view, j)) <= Cardinality(Later(view, i))
  BY <1>1, <1>3, AfterIsFinite, FS_Subset
<1>5. Cardinality(Later(view, j)) < DynamoTurns * 2
  BY <1>1, <1>4, AfterIsFinite, DynamoBounds
<1> QED BY <1>5, LoadIsWindow

(* An even number of items follows an assistant's, among whole turns.       *)
LEMMA AfterIsEven ==
  ASSUME DInv, NEW view \in SUBSET items, \A k \in view : D!Paired(k, view),
         NEW i \in view, i.role = "assistant"
  PROVE  \E n \in Nat : Cardinality(Later(view, i)) = 2 * n
<1> DEFINE U == {k \in view : k.ts > i.ts /\ k.role = "user"}
           V == {k \in view : k.ts > i.ts /\ k.role = "assistant"}
           g(k) == [ts |-> k.ts, role |-> "assistant", by |-> k.by]
           f == [k \in U |-> g(k)]
<1>1. /\ \A k \in view : k \in [ts : Nat, role : {"user", "assistant"}, by : DynamoAppends]
      /\ IsFiniteSet(view)
      /\ \A k \in view : \E j \in view : j.ts = k.ts /\ j.by = k.by /\ j.role # k.role
  BY ViewTyped DEF D!Paired
<1>2. Later(view, i) = U \cup V /\ U \cap V = {}
  BY <1>1 DEF Later, D!Precedes
<1>3. IsFiniteSet(U) /\ IsFiniteSet(V)
  BY <1>1, FS_Subset
<1>4. \A k \in U : g(k) \in V
  <2> SUFFICES ASSUME NEW k \in U PROVE g(k) \in V
    OBVIOUS
  <2>1. PICK j \in view : j.ts = k.ts /\ j.by = k.by /\ j.role # k.role
    BY <1>1
  <2>2. j = g(k)
    BY <1>1, <2>1
  <2> QED BY <2>1, <2>2
<1>5. \A j \in V : \E k \in U : g(k) = j
  <2> SUFFICES ASSUME NEW j \in V PROVE \E k \in U : g(k) = j
    OBVIOUS
  <2>1. PICK k \in view : k.ts = j.ts /\ k.by = j.by /\ k.role # j.role
    BY <1>1
  <2>2. j = g(k) /\ k \in U
    BY <1>1, <2>1
  <2> QED BY <2>2
<1>6. \A k \in U, l \in U : g(k) = g(l) => k = l
  <2> SUFFICES ASSUME NEW k \in U, NEW l \in U, g(k) = g(l) PROVE k = l
    OBVIOUS
  <2>1. k.ts = l.ts /\ k.by = l.by
    OBVIOUS
  <2> QED BY <1>1, <2>1
<1> HIDE DEF U, V, g
<1>7. f \in Injection(U, V) /\ f \in Surjection(U, V)
  BY <1>4, <1>5, <1>6 DEF Injection, IsInjective, Surjection
<1>8. Cardinality(U) = Cardinality(V)
  <2> HIDE DEF f
  <2> QED BY <1>3, <1>7, FS_Injection
<1>9. Cardinality(U \cup V) = Cardinality(U) + Cardinality(V) - Cardinality(U \cap V)
  BY <1>3, FS_Union
<1>10. Cardinality(U \cap V) = 0 /\ Cardinality(U) \in Nat
  BY <1>2, <1>3, FS_EmptySet, FS_CardinalityType
<1> QED BY <1>2, <1>8, <1>9, <1>10

(* Of whole turns, the newest items, twice the window of them, are whole    *)
(* turns (dynamomemory's Load).                                             *)
LEMMA WholeWindow ==
  ASSUME DInv, NEW view \in SUBSET items, \A k \in view : D!Paired(k, view),
         NEW i \in D!DynamoLoad(view)
  PROVE  D!Paired(i, D!DynamoLoad(view))
<1>1. i \in view /\ Cardinality(Later(view, i)) < DynamoTurns * 2
  BY LoadIsWindow
<1>2. /\ \A k \in view : k \in [ts : Nat, role : {"user", "assistant"}, by : DynamoAppends]
      /\ \A k, l \in view : k.ts = l.ts => k.by = l.by
  BY ViewTyped
<1>3. PICK j \in view : j.ts = i.ts /\ j.role # i.role
  BY <1>1 DEF D!Paired
<1>4. CASE i.role = "user"
  <2>1. D!Precedes(i, j)
    BY <1>1, <1>2, <1>3, <1>4 DEF D!Precedes
  <2> QED BY <1>3, <2>1, LoadIsLast DEF D!Paired
<1>5. CASE i.role = "assistant"
  <2>1. PICK n \in Nat : Cardinality(Later(view, i)) = 2 * n
    BY <1>1, <1>5, AfterIsEven
  <2>2. Later(view, j) = Later(view, i) \cup {i} /\ i \notin Later(view, i)
    <3>1. \A k \in view : k.ts = i.ts /\ k.role = "assistant" => k = i
      BY <1>1, <1>2, <1>5
    <3>2. j.role = "user"
      BY <1>2, <1>3, <1>5
    <3> QED BY <1>1, <1>2, <1>3, <1>5, <3>1, <3>2 DEF Later, D!Precedes
  <2>3. Cardinality(Later(view, j)) = 2 * n + 1
    BY <1>1, <2>1, <2>2, AfterIsFinite, FS_AddElement
  <2>4. Cardinality(Later(view, j)) < DynamoTurns * 2
    BY <1>1, <2>1, <2>3, DynamoBounds
  <2> QED BY <1>3, <2>4, LoadIsWindow DEF D!Paired
<1> QED BY <1>1, <1>2, <1>4, <1>5

(* A loaded item whose other half was found and not loaded is an answer:    *)
(* what follows a question is loaded with it.                               *)
LEMMA CutIsAnswer ==
  ASSUME DInv, NEW view \in SUBSET items, NEW i \in D!DynamoLoad(view),
         D!Paired(i, view), ~D!Paired(i, D!DynamoLoad(view))
  PROVE  /\ i \in view /\ i.role = "assistant"
         /\ \E k \in view : k.ts = i.ts /\ k.role = "user" /\ k \notin D!DynamoLoad(view)
<1>1. i \in view
  BY LoadIsWindow
<1>2. \A k \in view : k \in [ts : Nat, role : {"user", "assistant"}, by : DynamoAppends]
  BY ViewTyped
<1>3. PICK k \in view : k.ts = i.ts /\ k.role # i.role /\ k \notin D!DynamoLoad(view)
  BY DEF D!Paired
<1>4. ~D!Precedes(i, k)
  BY <1>3, LoadIsLast
<1> QED BY <1>1, <1>2, <1>3, <1>4 DEF D!Precedes

(* Dynamo's half of LoadsWhole.                                             *)
LEMMA DynamoLoads == DInv => D!DynamoRecent
<1> SUFFICES ASSUME DInv PROVE D!DynamoRecent
  OBVIOUS
<1>1. ASSUME NEW view \in SUBSET items, NEW i \in D!DynamoLoad(view), NEW j \in D!DynamoLoad(view),
             D!Paired(i, view), ~D!Paired(i, D!DynamoLoad(view)),
             D!Paired(j, view), ~D!Paired(j, D!DynamoLoad(view))
      PROVE  i = j /\ i.role = "assistant"
  <2>1. /\ \A k \in view : k \in [ts : Nat, role : {"user", "assistant"}, by : DynamoAppends]
        /\ \A k, l \in view : k.ts = l.ts => k.by = l.by
    BY ViewTyped
  <2>2. i \in view /\ j \in view /\ i.role = "assistant" /\ j.role = "assistant"
    BY <1>1, CutIsAnswer
  <2>3. PICK k \in view : k.ts = i.ts /\ k.role = "user" /\ k \notin D!DynamoLoad(view)
    BY <1>1, CutIsAnswer
  <2>4. PICK l \in view : l.ts = j.ts /\ l.role = "user" /\ l \notin D!DynamoLoad(view)
    BY <1>1, CutIsAnswer
  <2>5. ~D!Precedes(i, l) /\ ~D!Precedes(j, k)
    BY <1>1, <2>3, <2>4, LoadIsLast
  <2>6. i.ts = j.ts
    BY <2>1, <2>2, <2>3, <2>4, <2>5 DEF D!Precedes
  <2> QED BY <2>1, <2>2, <2>6
<1>2. \A view \in SUBSET items : \A i \in D!DynamoLoad(view), j \in view :
        D!Precedes(i, j) => j \in D!DynamoLoad(view)
  BY LoadIsLast
<1>3. \A view \in SUBSET items : (\A i \in view : D!Paired(i, view)) =>
        \A i \in D!DynamoLoad(view) : D!Paired(i, D!DynamoLoad(view))
  BY WholeWindow
<1>4. expired = {} => \A i \in items : D!Paired(i, items)
  BY DEF DInv, ItemsWhole, D!Paired
<1> QED BY <1>1, <1>2, <1>3, <1>4 DEF D!DynamoRecent, D!Views

(* For any window, Load shows the model turns in order: Postgres the first  *)
(* ones, whole and with no gap (pgmemory's Load); Dynamo, whose Query may   *)
(* miss any of the items, the most recent ones it found, whole if it found  *)
(* whole turns, and otherwise with one turn at most cut by the window       *)
(* (dynamomemory's Load).                                                   *)
THEOREM LoadsAreWhole == MemoriesSpec => []LoadsWhole
<1>1. MInv => LoadsWhole
  BY PgLoads, DynamoLoads DEF MInv, LoadsWhole
<1> QED BY <1>1, AlwaysMInv, PTL

-----------------------------------------------------------------------------
(* The refinement: the two values ConversationMemory is given, and what a   *)
(* step has to do to them to be one of its steps.                           *)
Kept    == [a \in Appends |-> RolesOf(rows \cup items, a)]
PcOf(a) == IF backend = "dynamo" /\ a \in DynamoAppends THEN dpc[a] ELSE pc[a]
Answers == [a \in Appends |-> OutcomeOf(PcOf(a))]

(* What changes neither what is kept nor an answer is a stutter.            *)
LEMMA Stutters ==
  ASSUME Kept' = Kept, Answers' = Answers, backend' = backend
  PROVE  UNCHANGED A!memory
BY DEF A!memory, Kept, Answers, PcOf

(* A whole turn that appears with its outcome is Store.                     *)
LEMMA Stores ==
  ASSUME NEW a \in Appends, NEW r \in {"ok", "lost"}, backend' = backend,
         Answers[a] = "nothing", Answers' = [Answers EXCEPT ![a] = r],
         Kept' = [Kept EXCEPT ![a] = Roles]
  PROVE  A!Next
<1>1. A!Store(a)
  BY DEF A!Store, A!Roles, Roles, Kept, Answers, PcOf
<1> QED BY <1>1 DEF A!Next

(* An error that leaves nothing behind is Refuse.                           *)
LEMMA Refuses ==
  ASSUME NEW a \in Appends, NEW r \in {"failed", "exhausted"}, backend' = backend,
         Answers[a] = "nothing", Answers' = [Answers EXCEPT ![a] = r], Kept' = Kept
  PROVE  A!Next
<1>1. A!Refuse(a)
  BY DEF A!Refuse, A!Errors, Kept, Answers, PcOf
<1> QED BY <1>1 DEF A!Next

(* A deletion by TTL is Forget.                                             *)
LEMMA Forgets ==
  ASSUME NEW a \in Appends, NEW role \in Kept[a], backend = "dynamo", backend' = backend,
         Answers' = Answers, Kept' = [Kept EXCEPT ![a] = Kept[a] \ {role}]
  PROVE  A!Next
<1>1. A!Forget(a)
  BY DEF A!Forget, Kept, Answers, PcOf
<1> QED BY <1>1 DEF A!Next

(* Where one Append moves, only its own answer can change.                  *)
LEMMA AnswersMove ==
  ASSUME NEW a \in Appends, NEW where, backend' = backend,
         PcOf(a)' = where, \A b \in Appends : b # a => PcOf(b)' = PcOf(b)
  PROVE  Answers' = [Answers EXCEPT ![a] = OutcomeOf(where)]
<1>1. \A b \in Appends : Answers'[b] = IF b = a THEN OutcomeOf(where) ELSE Answers[b]
  BY DEF Answers
<1> QED BY <1>1 DEF Answers

(* The initial states map to initial states.                                *)
LEMMA InitRefines == MemoriesInit => A!Init
<1> SUFFICES ASSUME MemoriesInit PROVE A!Init
  OBVIOUS
<1>1. rows \cup items = {}
  BY DEF MemoriesInit, Init, D!DynamoInit
<1>2. \A a \in Appends : RolesOf(rows \cup items, a) = {}
  BY <1>1 DEF RolesOf
<1>3. \A a \in Appends : OutcomeOf(PcOf(a)) = "nothing"
  BY DEF MemoriesInit, Init, D!DynamoInit, OutcomeOf, PcOf, Finished
<1> QED BY <1>2, <1>3 DEF A!Init, PcOf

(* Postgres: rows appear at commit.                                         *)
LEMMA PgRefines ==
  ASSUME MInv, NEW a \in Appends, Progress(a) \/ Fails(a), OnPostgres(Next)
  PROVE  A!Next \/ UNCHANGED A!memory
<1>1. /\ backend = "postgres" /\ backend' = backend /\ items = {} /\ items' = {}
      /\ pc \in [Appends -> {"begin", "user", "assistant", "commit"} \cup Finished]
  BY DEF OnPostgres, dynamo, MInv, Idle, IInv, TypeOK
<1>2. \A b \in Appends : PcOf(b) = pc[b] /\ PcOf(b)' = pc'[b]
  BY <1>1 DEF PcOf
<1>3. ASSUME NEW where, pc' = [pc EXCEPT ![a] = where]
      PROVE  Answers' = [Answers EXCEPT ![a] = OutcomeOf(where)]
  <2>1. PcOf(a)' = where /\ \A b \in Appends : b # a => PcOf(b)' = PcOf(b)
    BY <1>1, <1>2, <1>3
  <2> QED BY <1>1, <2>1, AnswersMove
<1>4. rows' = rows => Kept' = Kept
  BY <1>1 DEF Kept
<1>5. pc[a] \notin Finished => Answers[a] = "nothing"
  BY <1>2 DEF Answers, OutcomeOf
<1>6. ASSUME NEW where \in {"begin", "user", "assistant", "commit"},
             pc[a] \notin Finished, pc' = [pc EXCEPT ![a] = where], rows' = rows
      PROVE  UNCHANGED A!memory
  <2>1. OutcomeOf(where) = Answers[a]
    BY <1>5, <1>6 DEF OutcomeOf, Finished
  <2>2. Answers' = Answers
    BY <1>3, <1>6, <2>1 DEF Answers
  <2> QED BY <1>1, <1>4, <1>6, <2>2, Stutters
<1>7. ASSUME NEW where \in {"failed", "exhausted"},
             pc[a] \notin Finished, pc' = [pc EXCEPT ![a] = where], rows' = rows
      PROVE  A!Next
  <2>1. OutcomeOf(where) = where
    BY DEF OutcomeOf, Finished
  <2> QED BY <1>1, <1>3, <1>4, <1>5, <1>7, <2>1, Refuses
<1>8. CASE BeginAndSelect(a)
  BY <1>6, <1>8 DEF BeginAndSelect, Finished
<1>9. ASSUME NEW role \in Roles, InsertOK(a, role) PROVE UNCHANGED A!memory
  BY <1>6, <1>9 DEF InsertOK, Roles, Finished, After
<1>10. ASSUME NEW role \in Roles, Violation(a, role) PROVE A!Next \/ UNCHANGED A!memory
  BY <1>6, <1>7, <1>10 DEF Violation, Roles, Finished
<1>11. CASE Fails(a)
  BY <1>7, <1>11 DEF Fails
<1>12. CASE Commit(a)
  <2>1. PICK outcome \in {"ok", "lost"} : pc' = [pc EXCEPT ![a] = outcome]
    BY <1>12 DEF Commit
  <2>2. pc[a] = "commit" /\ rows' = rows \cup {Row(a, "user"), Row(a, "assistant")}
    BY <1>12, HoldsTurn DEF Commit, MInv
  <2>3. \A r \in rows : r.by # a
    BY <2>2 DEF MInv, IInv, RowsOwned
  <2>4. /\ Row(a, "user").by = a /\ Row(a, "user").role = "user"
        /\ Row(a, "assistant").by = a /\ Row(a, "assistant").role = "assistant"
    BY DEF Row
  <2>5. RolesOf(rows \cup items, a)' = Roles
    BY <1>1, <2>2, <2>3, <2>4 DEF RolesOf, Roles
  <2>6. ASSUME NEW b \in Appends, b # a
        PROVE  RolesOf(rows \cup items, b)' = RolesOf(rows \cup items, b)
    BY <1>1, <2>2, <2>4, <2>6 DEF RolesOf
  <2>7. Kept' = [Kept EXCEPT ![a] = Roles]
    BY <2>5, <2>6 DEF Kept
  <2>8. OutcomeOf(outcome) = outcome
    BY DEF OutcomeOf, Finished
  <2>9. Answers' = [Answers EXCEPT ![a] = outcome] /\ Answers[a] = "nothing"
    BY <1>3, <1>5, <2>1, <2>2, <2>8 DEF Finished
  <2> QED BY <1>1, <2>7, <2>9, Stores
<1> QED BY <1>8, <1>9, <1>10, <1>11, <1>12 DEF Progress

(* Dynamo: items appear with the transaction, and go one by one.            *)
LEMMA DynamoRefines ==
  ASSUME MInv, OnDynamo(D!DynamoNext)
  PROVE  A!Next \/ UNCHANGED A!memory
<1>1. /\ backend = "dynamo" /\ backend' = backend /\ rows = {} /\ rows' = {} /\ pc' = pc
      /\ D!DynamoNext /\ DynamoAppends \subseteq Appends
      /\ dpc \in [DynamoAppends -> {"begin", "write"} \cup Finished]
  BY DynamoBounds DEF OnDynamo, vars, MInv, Idle, DInv, DTypeOK
<1>2. \A b \in Appends : /\ PcOf(b) = IF b \in DynamoAppends THEN dpc[b] ELSE pc[b]
                         /\ PcOf(b)' = IF b \in DynamoAppends THEN dpc'[b] ELSE pc[b]
  BY <1>1 DEF PcOf
<1>3. ASSUME NEW a \in DynamoAppends, NEW where, dpc' = [dpc EXCEPT ![a] = where]
      PROVE  Answers' = [Answers EXCEPT ![a] = OutcomeOf(where)]
  <2>1. PcOf(a)' = where /\ \A b \in Appends : b # a => PcOf(b)' = PcOf(b)
    BY <1>1, <1>2, <1>3
  <2> QED BY <1>1, <2>1, AnswersMove
<1>4. items' = items => Kept' = Kept
  BY <1>1 DEF Kept
<1>5. dpc' = dpc => Answers' = Answers
  BY <1>1, <1>2 DEF Answers
<1>6. ASSUME NEW a \in DynamoAppends, dpc[a] \notin Finished PROVE Answers[a] = "nothing"
  BY <1>1, <1>2, <1>6 DEF Answers, OutcomeOf
<1>7. CASE UNCHANGED <<items, dpc>>
  BY <1>1, <1>4, <1>5, <1>7, Stutters
<1>8. ASSUME NEW a \in DynamoAppends, NEW where \in {"begin", "write"},
             dpc[a] \notin Finished, dpc' = [dpc EXCEPT ![a] = where], items' = items
      PROVE  UNCHANGED A!memory
  <2>1. OutcomeOf(where) = Answers[a]
    BY <1>6, <1>8 DEF OutcomeOf, Finished
  <2>2. Answers' = Answers
    BY <1>1, <1>3, <1>8, <2>1 DEF Answers
  <2> QED BY <1>1, <1>4, <1>8, <2>2, Stutters
<1>9. ASSUME NEW a \in DynamoAppends, NEW where \in {"failed", "exhausted"},
             dpc[a] \notin Finished, dpc' = [dpc EXCEPT ![a] = where], items' = items
      PROVE  A!Next
  <2>1. OutcomeOf(where) = where
    BY DEF OutcomeOf, Finished
  <2> QED BY <1>1, <1>3, <1>4, <1>6, <1>9, <2>1, Refuses
<1>10. ASSUME NEW a \in DynamoAppends, D!appendOnce(a) PROVE UNCHANGED A!memory
  BY <1>8, <1>10 DEF D!appendOnce, D!store, Finished
<1>11. ASSUME NEW a \in DynamoAppends, D!CondCheckFailed(a) PROVE A!Next \/ UNCHANGED A!memory
  BY <1>8, <1>9, <1>11 DEF D!CondCheckFailed, D!store, Finished
<1>12. ASSUME NEW a \in DynamoAppends, D!AppendFails(a) PROVE A!Next
  BY <1>9, <1>12 DEF D!AppendFails, D!store, Finished
<1>13. ASSUME NEW a \in DynamoAppends, D!TransactWrites(a) PROVE A!Next
  <2>1. PICK outcome \in {"ok", "lost"} : dpc' = [dpc EXCEPT ![a] = outcome]
    BY <1>13 DEF D!TransactWrites
  <2>2. dpc[a] = "write" /\ items' = items \cup D!Items(a)
    BY <1>13 DEF D!TransactWrites
  <2>3. \A i \in items : i.by # a
    BY <2>2 DEF MInv, DInv, ItemsOwned
  <2>4. /\ \A i \in D!Items(a) : i.by = a /\ i.role \in Roles
        /\ \A role \in Roles : \E i \in D!Items(a) : i.by = a /\ i.role = role
    <3>1. \A role \in Roles : [ts |-> ts[a], role |-> role, by |-> a] \in D!Items(a)
      BY DEF D!Items, D!Roles, Roles
    <3> QED BY <3>1 DEF D!Items, D!Roles, Roles
  <2>5. RolesOf(rows \cup items, a)' = Roles
    BY <1>1, <2>2, <2>3, <2>4 DEF RolesOf
  <2>6. ASSUME NEW b \in Appends, b # a
        PROVE  RolesOf(rows \cup items, b)' = RolesOf(rows \cup items, b)
    BY <1>1, <2>2, <2>4, <2>6 DEF RolesOf
  <2>7. Kept' = [Kept EXCEPT ![a] = Roles]
    BY <1>1, <2>5, <2>6 DEF Kept
  <2>8. OutcomeOf(outcome) = outcome
    BY DEF OutcomeOf, Finished
  <2>9. Answers' = [Answers EXCEPT ![a] = outcome] /\ Answers[a] = "nothing"
    BY <1>3, <1>6, <2>1, <2>2, <2>8 DEF Finished
  <2> QED BY <1>1, <2>7, <2>9, Stores
<1>14. ASSUME NEW i \in items, D!TTLDeletes(i) PROVE A!Next
  <2>1. items' = items \ {i} /\ dpc' = dpc
    BY <1>14 DEF D!TTLDeletes, D!calls
  <2>2. i.by \in Appends
    BY <1>1 DEF MInv, DInv, DTypeOK
  <2>3. \A j \in items : j.by = i.by /\ j.role = i.role => j = i
    BY DEF MInv, DInv, DTypeOK, ItemsOwned
  <2>4. RolesOf(rows \cup items, i.by)' = RolesOf(rows \cup items, i.by) \ {i.role}
    BY <1>1, <2>1, <2>3 DEF RolesOf
  <2>5. ASSUME NEW b \in Appends, b # i.by
        PROVE  RolesOf(rows \cup items, b)' = RolesOf(rows \cup items, b)
    BY <1>1, <2>1, <2>5 DEF RolesOf
  <2>6. Kept' = [Kept EXCEPT ![i.by] = Kept[i.by] \ {i.role}]
    BY <2>2, <2>4, <2>5 DEF Kept
  <2>7. i.role \in Kept[i.by]
    BY <2>2 DEF Kept, RolesOf
  <2> QED BY <1>1, <1>5, <2>1, <2>2, <2>6, <2>7, Forgets
<1>15. ASSUME NEW w \in Writers, D!Provisioning(w) \/ D!provisionFails(w)
       PROVE  A!Next \/ UNCHANGED A!memory
  BY <1>7, <1>15 DEF D!Provisioning, D!ensureTable, D!CreateTable, D!waitTableActive, D!ensureTTL,
       D!UpdateTTL, D!waitTTLEnabled, D!provisionFails, D!store, D!calls
<1>16. CASE D!OtherConsumer \/ D!ServiceSettles \/ D!ClockTicks
  BY <1>7, <1>16 DEF D!OtherConsumer, D!ServiceSettles, D!ClockTicks, D!store, D!calls
<1> QED BY <1>1, <1>10, <1>11, <1>12, <1>13, <1>14, <1>15, <1>16 DEF D!DynamoNext, D!Appending

(* Every step maps to a step of the abstract memory or to a stutter.        *)
LEMMA NextRefines == MInv /\ [MemoriesNext]_mvars => [A!Next]_A!memory
<1> SUFFICES ASSUME MInv, [MemoriesNext]_mvars PROVE A!Next \/ UNCHANGED A!memory
  OBVIOUS
<1>1. CASE OnPostgres(Next)
  <2>1. PICK a \in Appends : Progress(a) \/ Fails(a)
    BY <1>1 DEF OnPostgres, Next
  <2> QED BY <1>1, <2>1, PgRefines
<1>2. CASE OnDynamo(D!DynamoNext)
  BY <1>2, DynamoRefines
<1>3. CASE UNCHANGED mvars
  <2>1. Kept' = Kept /\ Answers' = Answers /\ backend' = backend
    BY <1>3 DEF mvars, vars, dynamo, Kept, Answers, PcOf
  <2> QED BY <2>1, Stutters
<1> QED BY <1>1, <1>2, <1>3 DEF MemoriesNext

(* Both memories implement the one abstract memory, for any number of       *)
(* Appends, instances and retries: a turn appears whole, in the step that   *)
(* decides what its Append returns, and only TTL takes anything away.       *)
THEOREM MemoryImplemented == MemoriesSpec => ImplementsMemory
<1> QED BY InitRefines, NextRefines, AlwaysMInv, PTL DEF MemoriesSpec, ImplementsMemory, A!Spec
=============================================================================
