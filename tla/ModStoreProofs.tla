--------------------------- MODULE ModStoreProofs ---------------------------
(***************************************************************************)
(* Proofs about ModStore for every set of requests, every assignment of    *)
(* names and versions, every pipeline of sections and every bound.         *)
(*                                                                         *)
(* IInv is inductive: TypeOK and HoldersInv keep each other, the other     *)
(* conjuncts rest on both.  The state properties follow from IInv, and the *)
(* refinement maps the two commit actions to Publish of ModCatalog.        *)
(***************************************************************************)
EXTENDS ModStore, TLAPS

(***************************************************************************)
(* Types and locks                                                         *)
(***************************************************************************)

LEMMA InitTypeOK == Init => TypeOK
  BY PipelineAssumption, BoundsAssumption
  DEF Init, TypeOK, PCs, Working, Answered

\* The end of a transaction leaves well-typed handler variables.
LEMMA EndTransactionTypeOK ==
  ASSUME TypeOK, NEW q \in Requests, EndTransaction(q)
  PROVE  /\ holders' \subseteq Requests
         /\ toExpire' \in [Requests -> SUBSET (1..MaxId)]
         /\ modId' \in [Requests -> 0..MaxId]
         /\ done' \in [Requests -> 0..Len(Pipeline)]
  BY PipelineAssumption, BoundsAssumption DEF TypeOK, EndTransaction

\* What a commit makes visible is well typed once the handler has its id.
LEMMA MakeVisibleTypeOK ==
  ASSUME TypeOK, NEW q \in Requests, modId[q] # 0, MakeVisible(q)
  PROVE  /\ modRows' \subseteq Row
         /\ expired' \subseteq 1..MaxId
         /\ content' \subseteq (1..MaxId) \X Sections
         /\ holders' \subseteq Requests
         /\ toExpire' \in [Requests -> SUBSET (1..MaxId)]
         /\ modId' \in [Requests -> 0..MaxId]
         /\ done' \in [Requests -> 0..Len(Pipeline)]
<1> USE PipelineAssumption, BoundsAssumption DEF TypeOK, MakeVisible
<1>1. modId[q] \in 1..MaxId
  OBVIOUS
<1>2. modRows' \subseteq Row
  BY <1>1 DEF NewRow, Row
<1>3. content' \subseteq (1..MaxId) \X Sections
  BY <1>1 DEF Sections
<1>4. expired' \subseteq 1..MaxId
  OBVIOUS
<1>5. QED
  BY <1>2, <1>3, <1>4 DEF EndTransaction

\* Every step keeps the types, given that an inserted row has an id.
LEMMA StepTypeOK == TypeOK /\ HoldersInv /\ [Next]_vars => TypeOK'
<1> SUFFICES ASSUME TypeOK, HoldersInv, [Next]_vars PROVE TypeOK'
  OBVIOUS
<1> USE PipelineAssumption, BoundsAssumption
<1> USE DEF TypeOK, PCs, Working, Answered, store, handler, doubt, Goto
<1>1. ASSUME NEW q \in Requests, Send(q) PROVE TypeOK'
  BY <1>1 DEF Send
<1>2. ASSUME NEW q \in Requests, Expire(q) PROVE TypeOK'
  <2>1. RowsToExpire(q) \in SUBSET (1..MaxId)
    BY DEF RowsToExpire, RowsByName, Row
  <2>2. QED BY <1>2, <2>1 DEF Expire
<1>3. ASSUME NEW q \in Requests, Insert(q) PROVE TypeOK'
  BY <1>3 DEF Insert, IdsLeft
<1>4. ASSUME NEW q \in Requests, IdsExhausted(q) PROVE TypeOK'
  BY <1>4 DEF IdsExhausted
<1>5. ASSUME NEW q \in Requests, DeadlockVictim(q) PROVE TypeOK'
  BY <1>5 DEF DeadlockVictim, EndTransaction
<1>6. ASSUME NEW q \in Requests, Submit(q) PROVE TypeOK'
  BY <1>6 DEF Submit
<1>7. ASSUME NEW q \in Requests, Commit(q) PROVE TypeOK'
  BY <1>7, MakeVisibleTypeOK DEF Commit, HoldersInv
<1>8. ASSUME NEW q \in Requests, CommitUnanswered(q) PROVE TypeOK'
  BY <1>8, MakeVisibleTypeOK DEF CommitUnanswered, HoldersInv
<1>9. ASSUME NEW q \in Requests, StatementFails(q) PROVE TypeOK'
  BY <1>9 DEF StatementFails
<1>10. ASSUME NEW q \in Requests, ConnectionLost(q) \/ Rollback(q) PROVE TypeOK'
  BY <1>10, EndTransactionTypeOK DEF ConnectionLost, Rollback
<1>11. ASSUME NEW q \in Requests, Reply(q) \/ ReplyLost(q) PROVE TypeOK'
  BY <1>11 DEF Reply, ReplyLost
<1>12. CASE Crash
  BY <1>12 DEF Crash
<1>13. CASE AllAnswered \/ UNCHANGED vars
  BY <1>13 DEF AllAnswered, vars
<1>14. QED
  BY <1>1, <1>2, <1>3, <1>4, <1>5, <1>6, <1>7, <1>8, <1>9, <1>10, <1>11, <1>12, <1>13
  DEF Next, Request, Step

\* Locks are taken by the UPDATE, kept through the INSERT, and gone at the end
\* of the transaction; an INSERT excludes every other holder.
LEMMA StepHolders == TypeOK /\ HoldersInv /\ [Next]_vars => HoldersInv'
<1> SUFFICES ASSUME TypeOK, HoldersInv, [Next]_vars PROVE HoldersInv'
  OBVIOUS
<1> USE DEF TypeOK, HoldersInv, handler, Goto
<1>1. ASSUME NEW q \in Requests, Send(q) PROVE HoldersInv'
  BY <1>1 DEF Send
<1>2. ASSUME NEW q \in Requests, Expire(q) PROVE HoldersInv'
  BY <1>2 DEF Expire, CanScan
<1>3. ASSUME NEW q \in Requests, Insert(q) PROVE HoldersInv'
  <2>1. nextId # 0
    BY BoundsAssumption
  <2>2. QED BY <1>3, <2>1 DEF Insert, CanInsert
<1>4. ASSUME NEW q \in Requests, IdsExhausted(q) PROVE HoldersInv'
  BY <1>4 DEF IdsExhausted
<1>5. ASSUME NEW q \in Requests, DeadlockVictim(q) PROVE HoldersInv'
  BY <1>5 DEF DeadlockVictim, EndTransaction
<1>6. ASSUME NEW q \in Requests, Submit(q) PROVE HoldersInv'
  BY <1>6 DEF Submit
<1>7. ASSUME NEW q \in Requests, Commit(q) \/ CommitUnanswered(q) PROVE HoldersInv'
  BY <1>7 DEF Commit, CommitUnanswered, MakeVisible, EndTransaction
<1>8. ASSUME NEW q \in Requests, StatementFails(q) PROVE HoldersInv'
  BY <1>8 DEF StatementFails
<1>9. ASSUME NEW q \in Requests, ConnectionLost(q) \/ Rollback(q) PROVE HoldersInv'
  BY <1>9 DEF ConnectionLost, Rollback, EndTransaction
<1>10. ASSUME NEW q \in Requests, Reply(q) \/ ReplyLost(q) PROVE HoldersInv'
  BY <1>10 DEF Reply, ReplyLost
<1>11. CASE Crash
  BY <1>11 DEF Crash, Working
<1>12. CASE AllAnswered \/ UNCHANGED vars
  BY <1>12 DEF AllAnswered, vars
<1>13. QED
  BY <1>1, <1>2, <1>3, <1>4, <1>5, <1>6, <1>7, <1>8, <1>9, <1>10, <1>11, <1>12
  DEF Next, Request, Step

(***************************************************************************)
(* What a step does to the store                                           *)
(***************************************************************************)

\* The committed rows change in the two commit actions only.
LEMMA StoreSteps ==
  ASSUME [Next]_vars
  PROVE  \/ UNCHANGED store
         \/ \E q \in Requests : Commit(q) \/ CommitUnanswered(q)
  BY DEF Next, vars, Request, Step, Send, Expire, Insert, IdsExhausted, DeadlockVictim,
     Submit, StatementFails, ConnectionLost, Rollback, Reply, ReplyLost, Crash,
     AllAnswered, store

\* A handler that commits is the only holder, its id is above all committed
\* ones, and it expires exactly the unexpired rows of its name.
LEMMA Committing ==
  ASSUME IInv, NEW q \in Requests, Commit(q) \/ CommitUnanswered(q)
  PROVE  /\ pc[q] = "inserted"
         /\ AllSubmitted(q)
         /\ MakeVisible(q)
         /\ holders = {q}
         /\ modId[q] \in 1..MaxId
         /\ modId[q] < nextId
         /\ \A r \in modRows : r.id < modId[q]
         /\ toExpire[q] = RowsToExpire(q)
         /\ nextId' = nextId
<1>1. pc[q] = "inserted" /\ AllSubmitted(q) /\ MakeVisible(q) /\ nextId' = nextId
  BY DEF Commit, CommitUnanswered
<1>2. modId[q] # 0 /\ holders = {q}
  BY <1>1 DEF IInv, HoldersInv
<1>3. modId[q] \in 1..MaxId
  BY <1>2, BoundsAssumption DEF IInv, TypeOK
<1>4. QED
  BY <1>1, <1>2, <1>3 DEF IInv, IdsInv, ExpiryInv

\* Ids are numbers.
LEMMA RowIds ==
  ASSUME modRows \subseteq Row
  PROVE  \A r \in modRows : r.id \in Nat
  BY BoundsAssumption DEF Row

\* Ids stay unique and ordered by commit, and only ids of rows are expired.
LEMMA StepIds == IInv /\ [Next]_vars => IdsInv'
<1> SUFFICES ASSUME IInv, [Next]_vars PROVE IdsInv'
  OBVIOUS
<1> USE DEF IInv, TypeOK, IdsInv, store, handler, doubt
<1>1. ASSUME NEW q \in Requests, Commit(q) \/ CommitUnanswered(q) PROVE IdsInv'
  <2>1. /\ modRows' = modRows \cup {NewRow(q)}
        /\ expired' = expired \cup RowsToExpire(q)
        /\ NewRow(q).id = modId[q]
        /\ modId' = [modId EXCEPT ![q] = 0]
    BY <1>1, Committing DEF MakeVisible, NewRow, EndTransaction
  <2>2. \A p \in Requests : modId'[p] = 0
    BY <1>1, <2>1, Committing DEF HoldersInv
  <2>3. \A e \in RowsToExpire(q) : \E r \in modRows : r.id = e
    BY DEF RowsToExpire, RowsByName
  <2>4. \A r \in modRows' : r.id < nextId'
    BY <1>1, <2>1, Committing
  <2>5. \A r, s \in modRows' : r.id = s.id => r = s
    <3>1. \A r \in modRows : r.id \in Nat /\ r.id < modId[q]
      BY <1>1, Committing, RowIds
    <3>2. modId[q] \in Nat
      BY <1>1, Committing, BoundsAssumption
    <3>3. \A r \in modRows : r.id # NewRow(q).id
      BY <2>1, <3>1, <3>2
    <3>4. \A r, s \in modRows : r.id = s.id => r = s
      OBVIOUS
    <3>5. QED
      BY <2>1, <3>3, <3>4
  <2>6. \A e \in expired' : \E r \in modRows' : r.id = e
    BY <2>1, <2>3
  <2>7. QED
    BY <2>2, <2>4, <2>5, <2>6
<1>2. ASSUME NEW q \in Requests, Insert(q) PROVE IdsInv'
  <2>1. \A r \in modRows : r.id \in Nat
    BY DEF Row
  <2>2. nextId \in Nat
    BY BoundsAssumption
  <2>3. \A p \in Requests : modId[p] \in Nat
    BY BoundsAssumption
  <2>4. QED
    BY <1>2, <2>1, <2>2, <2>3 DEF Insert
<1>3. ASSUME UNCHANGED <<store, nextId>>,
             \A p \in Requests : modId'[p] \in {0, modId[p]}
      PROVE  IdsInv'
  BY <1>3
<1>4. ASSUME NEW q \in Requests,
             \/ Send(q) \/ Expire(q) \/ IdsExhausted(q) \/ DeadlockVictim(q) \/ Submit(q)
             \/ StatementFails(q) \/ ConnectionLost(q) \/ Rollback(q)
             \/ Reply(q) \/ ReplyLost(q)
      PROVE  IdsInv'
  BY <1>3, <1>4 DEF Send, Expire, IdsExhausted, DeadlockVictim, Submit, StatementFails,
     ConnectionLost, Rollback, Reply, ReplyLost, EndTransaction
<1>5. CASE Crash
  BY <1>3, <1>5 DEF Crash
<1>6. CASE AllAnswered \/ UNCHANGED vars
  BY <1>3, <1>6 DEF AllAnswered, vars
<1>7. QED
  BY <1>1, <1>2, <1>4, <1>5, <1>6 DEF Next, Request, Step

\* What a handler will expire stays what is unexpired, because others commit
\* only while it holds no lock.
LEMMA StepExpiry == IInv /\ [Next]_vars => ExpiryInv'
<1> SUFFICES ASSUME IInv, [Next]_vars PROVE ExpiryInv'
  OBVIOUS
<1> USE DEF IInv, TypeOK, ExpiryInv, HoldersInv, store, handler, doubt, Goto
<1>1. ASSUME NEW q \in Requests, Commit(q) \/ CommitUnanswered(q) PROVE ExpiryInv'
  <2>1. holders = {q} /\ holders' = {}
    BY <1>1, Committing DEF MakeVisible, EndTransaction
  <2>2. \A p \in Requests : pc'[p] \notin {"expired", "inserted"}
    <3>1. pc' = [pc EXCEPT ![q] = "committed"] \/ pc' = [pc EXCEPT ![q] = "unwinding"]
      BY <1>1 DEF Commit, CommitUnanswered
    <3>2. \A p \in Requests : pc[p] \in {"expired", "inserted"} => p = q
      BY <2>1
    <3>3. QED
      BY <3>1, <3>2
  <2>3. QED
    BY <2>1, <2>2
<1>2. ASSUME NEW q \in Requests, Expire(q) PROVE ExpiryInv'
  BY <1>2 DEF Expire, CanScan, RowsToExpire, RowsByName
<1>3. ASSUME NEW q \in Requests,
             Send(q) \/ Insert(q) \/ IdsExhausted(q) \/ Submit(q) \/ StatementFails(q)
             \/ Reply(q) \/ ReplyLost(q)
      PROVE  ExpiryInv'
  BY <1>3 DEF Send, Insert, IdsExhausted, Submit, StatementFails, Reply, ReplyLost,
     RowsToExpire, RowsByName
<1>4. ASSUME NEW q \in Requests, DeadlockVictim(q) \/ ConnectionLost(q) \/ Rollback(q)
      PROVE  ExpiryInv'
  <2>1. holders' \subseteq holders /\ UNCHANGED store
    BY <1>4 DEF DeadlockVictim, ConnectionLost, Rollback, EndTransaction
  <2>2. pc'[q] \notin {"expired", "inserted"}
    BY <1>4 DEF DeadlockVictim, ConnectionLost, Rollback
  <2>3. \A p \in Requests \ {q} : pc'[p] = pc[p] /\ toExpire'[p] = toExpire[p]
    BY <1>4 DEF DeadlockVictim, ConnectionLost, Rollback, EndTransaction
  <2>4. \A p \in Requests : RowsToExpire(p)' = RowsToExpire(p)
    BY <2>1 DEF RowsToExpire, RowsByName
  <2>5. \A p, r \in holders' : p # r => modRows' = {}
    BY <2>1
  <2>6. QED
    BY <2>2, <2>3, <2>4, <2>5
<1>5. CASE Crash
  BY <1>5 DEF Crash, Working, RowsToExpire, RowsByName
<1>6. CASE AllAnswered \/ UNCHANGED vars
  BY <1>6 DEF AllAnswered, vars, RowsToExpire, RowsByName
<1>7. QED
  BY <1>1, <1>2, <1>3, <1>4, <1>5, <1>6 DEF Next, Request, Step

\* A commit makes its own row the newest and only current one of its name.
LEMMA StepCurrent == IInv /\ [Next]_vars => CurrentInv'
<1> SUFFICES ASSUME IInv, [Next]_vars PROVE CurrentInv'
  OBVIOUS
<1> USE DEF IInv, TypeOK, CurrentInv, IdsInv
<1>1. ASSUME NEW q \in Requests, Commit(q) \/ CommitUnanswered(q) PROVE CurrentInv'
  <2> DEFINE new == NewRow(q)
  <2>1. /\ modRows' = modRows \cup {new}
        /\ expired' = expired \cup RowsToExpire(q)
        /\ new.id = modId[q]
        /\ new.name = NameOf[q]
    BY <1>1, Committing DEF MakeVisible, NewRow
  <2>2. \A r \in modRows : r.id \in Nat /\ r.id < new.id
    BY <1>1, <2>1, Committing, RowIds
  <2>3. new.id \in Nat /\ new.id \notin expired'
    <3>1. modId[q] \in Nat
      BY <1>1, Committing, BoundsAssumption
    <3>2. \A e \in expired' : \E r \in modRows : r.id = e
      BY <2>1 DEF RowsToExpire, RowsByName
    <3>3. ASSUME modId[q] \in expired' PROVE FALSE
      <4>1. PICK r \in modRows : r.id = modId[q]
        BY <3>2, <3>3
      <4>2. r.id \in Nat /\ r.id < modId[q]
        BY <2>1, <2>2
      <4>3. QED
        BY <4>1, <4>2, <3>1
    <3>4. QED
      BY <2>1, <3>1, <3>3
  <2>4. \A r \in modRows : r.name = NameOf[q] => r.id \in expired'
    BY <2>1 DEF RowsToExpire, RowsByName
  <2>5. \A r \in modRows : r.name # NameOf[q] => (r.id \in expired' <=> r.id \in expired)
    BY <2>1 DEF RowsToExpire, RowsByName
  <2> HIDE DEF new
  <2>6. \A r \in modRows' : r.id \notin expired' =>
          \A s \in modRows' : s.name = r.name => s.id <= r.id
    BY <2>1, <2>2, <2>3, <2>4, <2>5
  <2>7. \A s \in modRows' : \E r \in modRows' : r.name = s.name /\ r.id \notin expired'
    BY <2>1, <2>3, <2>5
  <2>8. QED
    BY <2>6, <2>7
<1>2. CASE UNCHANGED store
  BY <1>2 DEF store
<1>3. QED
  BY <1>1, <1>2, StoreSteps

\* Nothing but a commit adds rows, and it adds all sections with its row.
LEMMA StepStoredWhole == IInv /\ [Next]_vars => StoredWhole'
<1> SUFFICES ASSUME IInv, [Next]_vars PROVE StoredWhole'
  OBVIOUS
<1> USE DEF IInv, StoredWhole
<1>1. ASSUME NEW q \in Requests, Commit(q) \/ CommitUnanswered(q) PROVE StoredWhole'
  <2>1. /\ modRows' = modRows \cup {NewRow(q)}
        /\ NewRow(q).id = modId[q]
        /\ content' = content \cup {<<modId[q], Pipeline[i]>> : i \in 1..Len(Pipeline)}
    BY <1>1, Committing DEF MakeVisible, NewRow, AllSubmitted
  <2>2. Sections = {Pipeline[i] : i \in 1..Len(Pipeline)}
    BY PipelineAssumption DEF Sections
  <2>3. QED
    BY <2>1, <2>2
<1>2. CASE UNCHANGED store
  BY <1>2 DEF store, Sections
<1>3. QED
  BY <1>1, <1>2, StoreSteps

\* A request whose handler is still before its COMMIT owns no row.
LEMMA OwnsNothing ==
  ASSUME OwnersInv, NEW q \in Requests,
         pc[q] \in {"idle", "received", "expired", "inserted"}
  PROVE  q \notin inDoubt /\ \A r \in modRows : r.by # q
  BY DEF OwnersInv

\* A row belongs to the request whose COMMIT wrote it, for good.
LEMMA StepOwners == IInv /\ [Next]_vars => OwnersInv'
<1> SUFFICES ASSUME IInv, [Next]_vars PROVE OwnersInv'
  OBVIOUS
<1>1. ASSUME NEW q \in Requests, Commit(q) \/ CommitUnanswered(q) PROVE OwnersInv'
  <2> DEFINE new == NewRow(q)
  <2>1. /\ modRows' = modRows \cup {new}
        /\ new.by = q
        /\ new.name = NameOf[q]
        /\ holders' = {}
    BY <1>1, Committing DEF MakeVisible, NewRow, EndTransaction
  <2>2. q \notin inDoubt /\ \A r \in modRows : r.by # q
    BY <1>1, Committing, OwnsNothing DEF IInv
  <2>3. \/ /\ pc' = [pc EXCEPT ![q] = "committed"]
           /\ inDoubt' = inDoubt
        \/ /\ pc' = [pc EXCEPT ![q] = "unwinding"]
           /\ inDoubt' = inDoubt \cup {q}
    BY <1>1 DEF Commit, CommitUnanswered, Goto, doubt
  <2>4. pc \in [Requests -> PCs] /\ inDoubt \subseteq Requests
    BY DEF IInv, TypeOK
  <2>5. \A r \in modRows : r.by \in Requests
    BY DEF IInv, TypeOK, Row
  <2>6. OwnersInv
    BY DEF IInv
  <2> HIDE DEF new
  <2>7. CASE pc' = [pc EXCEPT ![q] = "committed"] /\ inDoubt' = inDoubt
    BY <2>1, <2>2, <2>4, <2>5, <2>6, <2>7 DEF OwnersInv
  <2>8. CASE pc' = [pc EXCEPT ![q] = "unwinding"] /\ inDoubt' = inDoubt \cup {q}
    BY <2>1, <2>2, <2>4, <2>5, <2>6, <2>8 DEF OwnersInv
  <2>9. QED
    BY <2>3, <2>7, <2>8
<1> USE DEF IInv, TypeOK, OwnersInv, store, handler, doubt, Goto, Row
<1>2. ASSUME NEW q \in Requests, Send(q) \/ Expire(q) \/ Insert(q) \/ Submit(q)
      PROVE  OwnersInv'
  BY <1>2 DEF Send, Expire, Insert, Submit
<1>3. ASSUME NEW q \in Requests,
             \/ IdsExhausted(q) \/ DeadlockVictim(q) \/ StatementFails(q)
             \/ ConnectionLost(q) \/ Rollback(q)
      PROVE  OwnersInv'
  BY <1>3 DEF IdsExhausted, DeadlockVictim, StatementFails, ConnectionLost, Rollback,
     EndTransaction
<1>4. ASSUME NEW q \in Requests, Reply(q) \/ ReplyLost(q) PROVE OwnersInv'
  BY <1>4 DEF Reply, ReplyLost
<1>5. CASE Crash
  BY <1>5 DEF Crash, Working
<1>6. CASE AllAnswered \/ UNCHANGED vars
  BY <1>6 DEF AllAnswered, vars
<1>7. QED
  BY <1>1, <1>2, <1>3, <1>4, <1>5, <1>6 DEF Next, Request, Step

(***************************************************************************)
(* The invariant and what follows from it                                  *)
(***************************************************************************)

\* Over an empty store, without handlers, all of it holds.
LEMMA InitIInv == Init => IInv
<1> SUFFICES ASSUME Init PROVE IInv
  OBVIOUS
<1>1. TypeOK
  BY InitTypeOK
<1>2. HoldersInv /\ ExpiryInv /\ OwnersInv
  BY DEF Init, HoldersInv, ExpiryInv, OwnersInv
<1>3. IdsInv /\ CurrentInv /\ StoredWhole
  BY DEF Init, IdsInv, CurrentInv, StoredWhole
<1>4. QED
  BY <1>1, <1>2, <1>3 DEF IInv

\* IInv is inductive.
LEMMA StepIInv == IInv /\ [Next]_vars => IInv'
<1> SUFFICES ASSUME IInv, [Next]_vars PROVE IInv'
  OBVIOUS
<1>1. TypeOK' /\ HoldersInv'
  BY StepTypeOK, StepHolders DEF IInv
<1>2. ExpiryInv' /\ IdsInv' /\ CurrentInv' /\ OwnersInv' /\ StoredWhole'
  BY StepExpiry, StepIds, StepCurrent, StepOwners, StepStoredWhole
<1>3. QED
  BY <1>1, <1>2 DEF IInv

\* Locks are held by transactions only, what is uncommitted belongs to a lock
\* holder, ids follow commits, the newest row of a name is its current one, and
\* every row belongs to one request: the inductive invariant of db::upload_mod.
THEOREM Invariance == Spec => []IInv
  BY InitIInv, StepIInv, PTL DEF Spec

\* Every variable keeps its type: no upload writes an id outside the column.
THEOREM TypeCorrect == Spec => []TypeOK
<1>1. IInv => TypeOK
  BY DEF IInv
<1>2. QED
  BY <1>1, Invariance, PTL

\* However uploads interleave, fail or die, no two unexpired rows of DATA.MOD
\* have the same name.
THEOREM CurrentUnique == Spec => []OneCurrentPerName
<1>1. IInv => OneCurrentPerName
  <2> SUFFICES ASSUME IInv, NEW r \in GetMods(FALSE, AllNames),
                      NEW s \in GetMods(FALSE, AllNames), r.name = s.name
               PROVE  r = s
    BY DEF OneCurrentPerName
  <2>1. r \in modRows /\ s \in modRows /\ r.id \notin expired /\ s.id \notin expired
    BY DEF GetMods
  <2>2. s.id <= r.id /\ r.id <= s.id
    BY <2>1 DEF IInv, CurrentInv
  <2>3. r.id \in Nat /\ s.id \in Nat
    BY <2>1, RowIds DEF IInv, TypeOK
  <2>4. r.id = s.id
    BY <2>2, <2>3
  <2>5. QED
    BY <2>1, <2>4 DEF IInv, IdsInv
<1>2. QED
  BY <1>1, Invariance, PTL

\* A committed mod has all the sections upload_mod submits.
THEOREM Whole == Spec => []StoredWhole
<1>1. IInv => StoredWhole
  BY DEF IInv
<1>2. QED
  BY <1>1, Invariance, PTL

\* A client told "ok" finds its mod, current or replaced by a newer one of its
\* name; one told "error" left nothing unless its COMMIT went unanswered; and
\* no request is stored twice.
THEOREM Truthful == Spec => []AnswersAreTrue
<1>1. IInv => AnswersAreTrue
  <2> SUFFICES ASSUME IInv PROVE AnswersAreTrue
    OBVIOUS
  <2>1. ASSUME NEW q \in Requests, pc[q] = "ok"
        PROVE  \E r \in modRows : r.by = q /\ \E s \in RowsByName(NameOf[q]) : r.id <= s.id
    <3>1. PICK r \in modRows : r.by = q /\ r.name = NameOf[q]
      BY <2>1 DEF IInv, OwnersInv
    <3>2. PICK s \in modRows : s.name = r.name /\ s.id \notin expired
      BY <3>1 DEF IInv, CurrentInv
    <3>3. r.id <= s.id
      BY <3>1, <3>2 DEF IInv, CurrentInv
    <3>4. QED
      BY <3>1, <3>2, <3>3 DEF RowsByName
  <2>2. ASSUME NEW q \in Requests, pc[q] = "error"
        PROVE  q \in inDoubt \/ \A r \in modRows : r.by # q
    BY <2>2 DEF IInv, OwnersInv
  <2>3. \A r, s \in modRows : r.by = s.by => r = s
    BY DEF IInv, OwnersInv
  <2>4. QED
    BY <2>1, <2>2, <2>3 DEF AnswersAreTrue
<1>2. QED
  BY <1>1, Invariance, PTL

\* get_mod_metadata asked by name and version gives the current mod of the
\* name when that has the version asked for.
THEOREM FindsCurrent == Spec => []VersionFindsCurrent
<1>1. IInv => VersionFindsCurrent
  <2> SUFFICES ASSUME IInv, NEW r \in GetMods(FALSE, AllNames)
               PROVE  FirstRow(RowsByVersion(r.name, r.version)) = r
    BY DEF VersionFindsCurrent
  <2> DEFINE found == RowsByVersion(r.name, r.version)
  <2>1. r \in modRows /\ r.id \notin expired
    BY DEF GetMods
  <2>2. r \in found /\ found \subseteq modRows
    BY <2>1 DEF RowsByVersion
  <2>3. \A s \in found : s.id <= r.id
    BY <2>1 DEF RowsByVersion, IInv, CurrentInv
  <2>4. \A s \in found : s.id \in Nat
    BY <2>2, RowIds DEF IInv, TypeOK
  <2>5. \A s, t \in found : s.id = t.id => s = t
    BY <2>2 DEF IInv, IdsInv
  <2> HIDE DEF found
  <2>6. \A x \in found : (\A s \in found : s.id <= x.id) => x = r
    BY <2>2, <2>3, <2>4, <2>5
  <2>7. FirstRow(found) \in found /\ \A s \in found : s.id <= FirstRow(found).id
    BY <2>2, <2>3 DEF FirstRow
  <2>8. FirstRow(found) = r
    BY <2>6, <2>7
  <2>9. QED
    BY <2>8 DEF found
<1>2. QED
  BY <1>1, Invariance, PTL

\* No step takes away the current mod of a name without a newer one to take its
\* place.
THEOREM Advances == Spec => CurrentOnlyAdvances
<1> DEFINE Advance == \A n \in AllNames : \A r \in RowsByName(n) :
                        \E s \in RowsByName(n)' : r.id <= s.id
<1>1. IInv /\ IInv' /\ [Next]_vars => [Advance]_vars
  <2> SUFFICES ASSUME IInv, IInv', [Next]_vars, NEW n \in AllNames, NEW r \in RowsByName(n)
               PROVE  \E s \in RowsByName(n)' : r.id <= s.id
    OBVIOUS
  <2>1. r \in modRows /\ r.name = n
    BY DEF RowsByName
  <2>2. r \in modRows'
    <3>1. ASSUME NEW q \in Requests, Commit(q) \/ CommitUnanswered(q) PROVE r \in modRows'
      BY <2>1, <3>1, Committing DEF MakeVisible
    <3>2. QED
      BY <2>1, <3>1, StoreSteps DEF store
  <2>3. PICK s \in modRows' : s.name = r.name /\ s.id \notin expired'
    BY <2>2 DEF IInv, CurrentInv
  <2>4. r.id <= s.id
    BY <2>2, <2>3 DEF IInv, CurrentInv
  <2>5. QED
    BY <2>1, <2>3, <2>4 DEF RowsByName
<1>2. QED
  BY <1>1, Invariance, PTL DEF Spec, CurrentOnlyAdvances

(***************************************************************************)
(* The refinement                                                          *)
(***************************************************************************)

\* The initial store is the empty catalogue.
LEMMA InitCatalog == Init => Catalog!Init
  BY DEF Init, Catalog!Init, Answer, LiveIds, Answered

\* A COMMIT, answered or not, publishes the mod and retires the one it replaces.
LEMMA CatalogCommit ==
  ASSUME IInv, NEW q \in Requests, Commit(q) \/ CommitUnanswered(q)
  PROVE  Catalog!Publish(q)
<1>1. /\ pc[q] = "inserted"
      /\ modRows' = modRows \cup {NewRow(q)}
      /\ expired' = expired \cup RowsToExpire(q)
      /\ modId[q] \in 1..MaxId
      /\ \A r \in modRows : r.id < modId[q]
  BY Committing DEF MakeVisible
<1>2. \/ pc' = [pc EXCEPT ![q] = "committed"] /\ inDoubt' = inDoubt
      \/ pc' = [pc EXCEPT ![q] = "unwinding"] /\ inDoubt' = inDoubt \cup {q}
  BY DEF Commit, CommitUnanswered, Goto, doubt
<1>3. Answer[q] = "none" /\ UNCHANGED Answer
  BY <1>1, <1>2 DEF Answer, Answered, IInv, TypeOK
<1>4. \A r \in modRows : r.by # q
  BY <1>1, OwnsNothing DEF IInv
<1>5. LiveIds' = (LiveIds \ Catalog!IdsNamed(NameOf[q])) \cup {modId[q]}
  <2>1. \A r \in modRows : r.id \in Nat /\ r.id < modId[q]
    BY <1>1, RowIds DEF IInv, TypeOK
  <2>2. modId[q] \in Nat
    BY <1>1, BoundsAssumption
  <2>3. \A e \in expired \cup RowsToExpire(q) : \E r \in modRows : r.id = e
    BY DEF IInv, IdsInv, RowsToExpire, RowsByName
  <2>4. modId[q] \notin expired \cup RowsToExpire(q)
    BY <2>1, <2>2, <2>3
  <2>5. \A r, s \in modRows : r.id = s.id => r = s
    BY DEF IInv, IdsInv
  <2>6. {r.id : r \in modRows'} = {r.id : r \in modRows} \cup {modId[q]}
    <3>1. NewRow(q).id = modId[q]
      BY DEF NewRow
    <3>2. QED
      BY <1>1, <3>1
  <2>7. \A x \in {r.id : r \in modRows} \ expired :
          x \in RowsToExpire(q) <=> x \in Catalog!IdsNamed(NameOf[q])
    BY <2>5 DEF RowsToExpire, RowsByName, Catalog!IdsNamed
  <2>8. QED
    BY <1>1, <2>4, <2>6, <2>7 DEF LiveIds
<1>6. QED
  BY <1>1, <1>2, <1>3, <1>4, <1>5 DEF Catalog!Publish, NewRow

\* A reply is the answer the catalogue allows, a lost one is lost there too,
\* and everything else is invisible.
LEMMA StepCatalog == IInv /\ [Next]_vars => [Catalog!Next]_Catalog!vars
<1> SUFFICES ASSUME IInv, [Next]_vars PROVE [Catalog!Next]_Catalog!vars
  OBVIOUS
<1>1. ASSUME NEW q \in Requests, Commit(q) \/ CommitUnanswered(q)
      PROVE  Catalog!Next
  BY <1>1, CatalogCommit DEF Catalog!Next
<1>2. ASSUME NEW q \in Requests, Reply(q) PROVE Catalog!Next
  <2>1. UNCHANGED <<modRows, LiveIds, inDoubt>>
    BY <1>2 DEF Reply, store, doubt, LiveIds
  <2>2. CASE pc[q] = "committed" /\ Goto(q, "ok")
    <3>1. Answer[q] = "none" /\ Answer' = [Answer EXCEPT ![q] = "ok"]
      BY <2>2 DEF Goto, Answer, Answered, IInv, TypeOK
    <3>2. \E r \in modRows : r.by = q
      BY <2>2 DEF IInv, OwnersInv
    <3>3. Catalog!Tell(q)
      BY <2>1, <3>1, <3>2 DEF Catalog!Tell
    <3>4. QED
      BY <3>3 DEF Catalog!Next
  <2>3. CASE pc[q] = "failed" /\ Goto(q, "error")
    <3>1. Answer[q] = "none" /\ Answer' = [Answer EXCEPT ![q] = "error"]
      BY <2>3 DEF Goto, Answer, Answered, IInv, TypeOK
    <3>2. q \in inDoubt \/ \A r \in modRows : r.by # q
      BY <2>3 DEF IInv, OwnersInv
    <3>3. Catalog!Tell(q)
      BY <2>1, <3>1, <3>2 DEF Catalog!Tell
    <3>4. QED
      BY <3>3 DEF Catalog!Next
  <2>4. QED
    BY <1>2, <2>2, <2>3 DEF Reply
<1>3. ASSUME NEW q \in Requests, ReplyLost(q) PROVE Catalog!Next
  <2>1. UNCHANGED <<modRows, LiveIds, inDoubt>>
    BY <1>3 DEF ReplyLost, store, doubt, LiveIds
  <2>2. Answer[q] = "none" /\ Answer' = [p \in Requests |-> IF p \in {q} THEN "lost" ELSE Answer[p]]
    BY <1>3 DEF ReplyLost, Goto, Answer, Answered, IInv, TypeOK
  <2>3. {q} \in SUBSET {p \in Requests : Answer[p] = "none"}
    BY <2>2
  <2>4. QED
    BY <2>1, <2>2, <2>3 DEF Catalog!Next, Catalog!Lose
<1>4. ASSUME Crash PROVE Catalog!Next
  <2> DEFINE Q == {q \in Requests : pc[q] \in Working \cup {"committed", "failed"}}
  <2>1. UNCHANGED <<modRows, LiveIds, inDoubt>>
    BY <1>4 DEF Crash, store, LiveIds
  <2>2. Answer' = [q \in Requests |-> IF q \in Q THEN "lost" ELSE Answer[q]]
    BY <1>4 DEF Crash, Answer, Answered, Working, IInv, TypeOK
  <2>3. Q \in SUBSET {q \in Requests : Answer[q] = "none"}
    BY DEF Answer, Answered, Working
  <2> HIDE DEF Q
  <2>4. QED
    BY <2>1, <2>2, <2>3 DEF Catalog!Next, Catalog!Lose
<1>5. ASSUME NEW q \in Requests,
             \/ Send(q) \/ Expire(q) \/ Insert(q) \/ IdsExhausted(q) \/ DeadlockVictim(q)
             \/ Submit(q) \/ StatementFails(q) \/ ConnectionLost(q) \/ Rollback(q)
      PROVE  UNCHANGED Catalog!vars
  <2>1. UNCHANGED <<modRows, LiveIds, inDoubt>>
    BY <1>5 DEF Send, Expire, Insert, IdsExhausted, DeadlockVictim, Submit, StatementFails,
       ConnectionLost, Rollback, store, doubt, LiveIds
  <2>2. /\ pc[q] \notin Answered
        /\ \E label \in PCs \ Answered : pc' = [pc EXCEPT ![q] = label]
    BY <1>5 DEF Send, Expire, Insert, IdsExhausted, DeadlockVictim, Submit, StatementFails,
       ConnectionLost, Rollback, Goto, PCs, Working, Answered, IInv, TypeOK
  <2>3. UNCHANGED Answer
    BY <2>2 DEF Answer, IInv, TypeOK
  <2>4. QED
    BY <2>1, <2>3 DEF Catalog!vars
<1>6. CASE AllAnswered \/ UNCHANGED vars
  BY <1>6 DEF AllAnswered, vars, Catalog!vars, Answer, LiveIds
<1>7. QED
  BY <1>1, <1>2, <1>3, <1>4, <1>5, <1>6 DEF Next, Request, Step

\* The store of concurrent transactions is the catalogue of ModCatalog: a
\* commit publishes in one step, an answer tells the truth about it.
THEOREM Implements == Spec => ImplementsCatalog
  BY Invariance, InitCatalog, StepCatalog, PTL DEF Spec, ImplementsCatalog, Catalog!Spec
=============================================================================
