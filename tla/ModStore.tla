------------------------------ MODULE ModStore ------------------------------
(***************************************************************************)
(* Uploading a mod: db::upload_mod and the submit functions of             *)
(* src/db/Data.cpp, run by concurrent REST handlers, each on a MySQL       *)
(* session and a transaction of its own (src/SQLUtil.cpp).                 *)
(*                                                                         *)
(* A handler expires the unexpired rows of its name in DATA.MOD, inserts   *)
(* its own row, submits one section of the mod after the other and         *)
(* commits.  An exception unwinds the handler: ~Transaction rolls back.    *)
(* Of MySQL (external) the model keeps what the code relies on.  DATA.MOD  *)
(* has no index on NAME, so the UPDATE of submitMetaData locks every row   *)
(* it scans and the gap after the last one until its transaction ends;     *)
(* over an empty table there are only gap locks, which any number of       *)
(* transactions may hold, and which stop the INSERTs of all the others.    *)
(*                                                                         *)
(* Where a definition has a sibling just above it under another name       *)
(* (ExpireByVersion, RollbackForgotten, ...), the sibling is a wrong       *)
(* coding of the same thing: no behaviour uses it, and some property below *)
(* fails when it takes the place of the right one.                         *)
(***************************************************************************)
EXTENDS Naturals, Sequences

CONSTANTS Requests,   \* the upload requests; a retry is a request of its own
          NameOf,     \* the name of the mod a request carries
          VersionOf,  \* and its version
          Pipeline,   \* the sections of a mod in the order they are submitted
          MaxId,      \* the largest value of DATA.MOD.ID
          MaxFaults   \* bound on process deaths and on COMMITs left unanswered

ASSUME PipelineAssumption == Pipeline \in Seq(STRING)
ASSUME BoundsAssumption == MaxId \in Nat /\ MaxFaults \in Nat

\* The sections in upload_mod's order; the first one is still submitMetaData's.
SubmitOrder == <<"defaultPacks", "units", "weapons", "terrains", "movements",
  "movementRules", "commanders", "players", "passiveUnitEffects",
  "passiveTerrainEffects", "passiveGlobalEffects", "activeUnitEffects",
  "activeTerrainEffects", "activeGlobalEffects", "settings", "config">>

VARIABLES
  modRows,   \* committed rows of DATA.MOD: [id, name, version, by]
  expired,   \* the ids among them with EXPIRED set
  content,   \* committed rows of the section tables: <<MOD_ID, section>>
  nextId,    \* AUTO_INCREMENT of DATA.MOD; a rollback does not give ids back
  holders,   \* transactions holding the locks of submitMetaData's UPDATE
  pc,        \* where the handler of each request is, then what its client got
  toExpire,  \* uncommitted: the rows its UPDATE has expired
  modId,     \* uncommitted: the id of its own row, 0 before the INSERT
  done,      \* uncommitted: how many sections it has submitted
  inDoubt,   \* requests whose COMMIT took effect without an answer
  faults     \* deaths and unanswered COMMITs so far

store == <<modRows, expired, content>>
handler == <<toExpire, modId, done>>
doubt == <<inDoubt, faults>>
vars == <<modRows, expired, content, nextId, holders, pc, toExpire, modId,
          done, inDoubt, faults>>

Sections == {Pipeline[i] : i \in DOMAIN Pipeline}

Working == {"received", "expired", "inserted", "unwinding"}
Answered == {"ok", "error", "lost"}
PCs == Working \cup Answered \cup {"idle", "committed", "failed"}

Init ==
  /\ modRows = {}
  /\ expired = {}
  /\ content = {}
  /\ nextId = 1
  /\ holders = {}
  /\ pc = [q \in Requests |-> "idle"]
  /\ toExpire = [q \in Requests |-> {}]
  /\ modId = [q \in Requests |-> 0]
  /\ done = [q \in Requests |-> 0]
  /\ inDoubt = {}
  /\ faults = 0

(***************************************************************************)
(* Reading DATA.MOD: each is one SELECT outside any transaction            *)
(***************************************************************************)

\* get_mods: the rows of a filter on the name (a set of names), those
\* expired only on demand.
GetMods(showExpired, names) ==
  {r \in modRows : r.name \in names /\ (showExpired \/ r.id \notin expired)}

\* get_mod_metadata by name alone and by name and version ...
RowsByName(name) == {r \in modRows : r.name = name /\ r.id \notin expired}
RowsByVersion(name, version) ==
  {r \in modRows : r.name = name /\ r.version = version}

\* ... takes the first row in descending order of ID.
OldestFirst(rows) == CHOOSE r \in rows : \A s \in rows : r.id <= s.id
FirstRow(rows) == CHOOSE r \in rows : \A s \in rows : s.id <= r.id

(***************************************************************************)
(* The handler of an upload request                                        *)
(***************************************************************************)

Goto(q, label) == pc' = [pc EXCEPT ![q] = label]

\* The end of a transaction, committed or not: its locks and what it alone saw
\* are gone.
EndTransaction(q) ==
  /\ holders' = holders \ {q}
  /\ toExpire' = [toExpire EXCEPT ![q] = {}]
  /\ modId' = [modId EXCEPT ![q] = 0]
  /\ done' = [done EXCEPT ![q] = 0]

\* The rows the UPDATE finds: NAME = ? and EXPIRED is null.
ExpireEverything(q) == {r.id : r \in modRows}
ExpireByVersion(q) == {r.id : r \in RowsByVersion(NameOf[q], VersionOf[q])}
RowsToExpire(q) == {r.id : r \in RowsByName(NameOf[q])}

\* Row locks conflict, gap locks do not: a second scan passes only over a
\* table without a row, committed or not.
CanScan ==
  \/ holders = {}
  \/ modRows = {} /\ \A p \in holders : modId[p] = 0

\* An INSERT waits for the gap locks of all other transactions.
CanInsert(q) == holders = {q}

IdsLeftIgnored == TRUE
IdsLeft == nextId <= MaxId

\* The POST reaches a worker thread.
Send(q) ==
  /\ pc[q] = "idle"
  /\ Goto(q, "received")
  /\ UNCHANGED <<store, nextId, holders, handler, doubt>>

\* Session, START TRANSACTION and the UPDATE of submitMetaData.
Expire(q) ==
  /\ pc[q] = "received"
  /\ CanScan
  /\ holders' = holders \cup {q}
  /\ toExpire' = [toExpire EXCEPT ![q] = RowsToExpire(q)]
  /\ Goto(q, "expired")
  /\ UNCHANGED <<store, nextId, modId, done, doubt>>

\* The INSERT of submitMetaData and last_insert_id.
InsertAutocommitted(q) ==
  /\ pc[q] = "expired"
  /\ CanInsert(q)
  /\ IdsLeft
  /\ modId' = [modId EXCEPT ![q] = nextId]
  /\ nextId' = nextId + 1
  /\ modRows' = modRows \cup
       {[id |-> nextId, name |-> NameOf[q], version |-> VersionOf[q], by |-> q]}
  /\ Goto(q, "inserted")
  /\ UNCHANGED <<expired, content, holders, toExpire, done, doubt>>
Insert(q) ==
  /\ pc[q] = "expired"
  /\ CanInsert(q)
  /\ IdsLeft
  /\ modId' = [modId EXCEPT ![q] = nextId]
  /\ nextId' = nextId + 1
  /\ Goto(q, "inserted")
  /\ UNCHANGED <<store, holders, toExpire, done, doubt>>

\* The same INSERT when the ID column has no value left.
IdsExhausted(q) ==
  /\ pc[q] = "expired"
  /\ CanInsert(q)
  /\ ~IdsLeft
  /\ Goto(q, "unwinding")
  /\ UNCHANGED <<store, nextId, holders, handler, doubt>>

\* Two transactions that both hold the gap lock both wait to insert: MySQL
\* rolls one of them back at once, and its handler gets the error.
DeadlockVictim(q) ==
  /\ pc[q] = "expired"
  /\ \E p \in holders \ {q} : pc[p] = "expired"
  /\ EndTransaction(q)
  /\ Goto(q, "unwinding")
  /\ UNCHANGED <<store, nextId, doubt>>

\* The default packs and the fifteen submit functions, one section a step.
Submit(q) ==
  /\ pc[q] = "inserted"
  /\ done[q] < Len(Pipeline)
  /\ done' = [done EXCEPT ![q] = @ + 1]
  /\ UNCHANGED <<store, nextId, holders, pc, toExpire, modId, doubt>>

OneSectionShort(q) == done[q] + 1 >= Len(Pipeline)
AllSubmitted(q) == done[q] = Len(Pipeline)

\* Transaction::commit makes everything the transaction wrote visible.
NewRow(q) == [id |-> modId[q], name |-> NameOf[q], version |-> VersionOf[q], by |-> q]

MakeVisible(q) ==
  /\ modRows' = modRows \cup {NewRow(q)}
  /\ expired' = expired \cup toExpire[q]
  /\ content' = content \cup {<<modId[q], Pipeline[i]>> : i \in 1..done[q]}
  /\ EndTransaction(q)

Commit(q) ==
  /\ pc[q] = "inserted"
  /\ AllSubmitted(q)
  /\ MakeVisible(q)
  /\ Goto(q, "committed")
  /\ UNCHANGED <<nextId, doubt>>

\* The connection breaks after MySQL has committed and before it says so: the
\* handler gets an exception like any other, and `committed' stays false.
CommitUnanswered(q) ==
  /\ pc[q] = "inserted"
  /\ AllSubmitted(q)
  /\ faults < MaxFaults
  /\ MakeVisible(q)
  /\ inDoubt' = inDoubt \cup {q}
  /\ faults' = faults + 1
  /\ Goto(q, "unwinding")
  /\ UNCHANGED nextId

\* Any statement may fail: connecting, a lock wait that times out, data the
\* tables do not take, COMMIT itself.
StatementFails(q) ==
  /\ pc[q] \in {"received", "expired", "inserted"}
  /\ Goto(q, "unwinding")
  /\ UNCHANGED <<store, nextId, holders, handler, doubt>>

\* When it fails because the connection is gone, MySQL has already rolled the
\* transaction back.
ConnectionLost(q) ==
  /\ pc[q] \in {"expired", "inserted"}
  /\ EndTransaction(q)
  /\ Goto(q, "unwinding")
  /\ UNCHANGED <<store, nextId, doubt>>

\* ~Transaction while the exception unwinds the handler; upload_mod rethrows
\* it as the RestError that becomes the reply.
RollbackForgotten(q) ==
  /\ pc[q] = "unwinding"
  /\ Goto(q, "failed")
  /\ UNCHANGED <<store, nextId, holders, handler, doubt>>
ErrorSwallowed(q) ==
  /\ pc[q] = "unwinding"
  /\ EndTransaction(q)
  /\ Goto(q, "committed")
  /\ UNCHANGED <<store, nextId, doubt>>
Rollback(q) ==
  /\ pc[q] = "unwinding"
  /\ EndTransaction(q)
  /\ Goto(q, "failed")
  /\ UNCHANGED <<store, nextId, doubt>>

Reply(q) ==
  /\ \/ pc[q] = "committed" /\ Goto(q, "ok")
     \/ pc[q] = "failed" /\ Goto(q, "error")
  /\ UNCHANGED <<store, nextId, holders, handler, doubt>>

\* The client is gone, or the stream's deadline passed while the handler ran.
ReplyLost(q) ==
  /\ pc[q] \in {"committed", "failed"}
  /\ Goto(q, "lost")
  /\ UNCHANGED <<store, nextId, holders, handler, doubt>>

\* The server process dies (~Session that cannot close its connection ends in
\* std::terminate) and is started again; MySQL rolls open transactions back.
Crash ==
  /\ faults < MaxFaults
  /\ faults' = faults + 1
  /\ holders' = {}
  /\ toExpire' = [q \in Requests |-> {}]
  /\ modId' = [q \in Requests |-> 0]
  /\ done' = [q \in Requests |-> 0]
  /\ pc' = [q \in Requests |->
              IF pc[q] \in Working \cup {"committed", "failed"} THEN "lost" ELSE pc[q]]
  /\ UNCHANGED <<store, nextId, inDoubt>>

Step(q) ==
  \/ Expire(q) \/ Insert(q) \/ IdsExhausted(q) \/ DeadlockVictim(q)
  \/ Submit(q) \/ Commit(q) \/ Rollback(q) \/ Reply(q)

Request(q) ==
  \/ Send(q) \/ Step(q) \/ StatementFails(q) \/ ConnectionLost(q)
  \/ CommitUnanswered(q) \/ ReplyLost(q)

\* Nothing is left to do once every request has its answer.
AllAnswered == (\A q \in Requests : pc[q] \in Answered) /\ UNCHANGED vars

Next == (\E q \in Requests : Request(q)) \/ Crash \/ AllAnswered

Spec == Init /\ [][Next]_vars

\* The worker threads run and MySQL serves waiting statements; nobody has to
\* send a request, and nothing has to fail.
Fairness == \A q \in Requests : WF_vars(Step(q))

LiveSpec == Spec /\ Fairness
-----------------------------------------------------------------------------
Row == [id : 1..MaxId, name : {NameOf[q] : q \in Requests},
        version : {VersionOf[q] : q \in Requests}, by : Requests]

\* Every variable keeps its type, and ids stay within the ID column.
TypeOK ==
  /\ modRows \subseteq Row
  /\ expired \subseteq 1..MaxId
  /\ content \subseteq (1..MaxId) \X Sections
  /\ nextId \in 1..(MaxId + 1)
  /\ holders \subseteq Requests
  /\ pc \in [Requests -> PCs]
  /\ toExpire \in [Requests -> SUBSET (1..MaxId)]
  /\ modId \in [Requests -> 0..MaxId]
  /\ done \in [Requests -> 0..Len(Pipeline)]
  /\ inDoubt \subseteq Requests
  /\ faults \in 0..MaxFaults

AllNames == {NameOf[q] : q \in Requests}

\* No interleaving of uploads, deadlocks, rollbacks and crashes leaves two
\* unexpired mods of one name: get_mods never lists a name twice.
OneCurrentPerName ==
  \A r, s \in GetMods(FALSE, AllNames) : r.name = s.name => r = s

\* A mod is in the store with all its sections or not at all, whatever failed
\* or died on the way.
StoredWhole == \A r \in modRows : \A s \in Sections : <<r.id, s>> \in content

\* A client told "ok" has its mod in the store, current or replaced by a newer
\* one; a client told "error" left nothing, unless its COMMIT went unanswered;
\* no request is stored twice.
AnswersAreTrue ==
  /\ \A q \in Requests : pc[q] = "ok" =>
       \E r \in modRows : r.by = q /\
         \E s \in RowsByName(NameOf[q]) : r.id <= s.id
  /\ \A q \in Requests :
       pc[q] = "error" => q \in inDoubt \/ \A r \in modRows : r.by # q
  /\ \A r, s \in modRows : r.by = s.by => r = s

\* Asking get_mod_metadata for the current mod of a name by its version gives
\* that mod, not an earlier upload of the same version.
VersionFindsCurrent ==
  \A r \in GetMods(FALSE, AllNames) :
    FirstRow(RowsByVersion(r.name, r.version)) = r

\* A name that has a current mod keeps having one, and the ids of its current
\* mods only go up: a failed upload never un-publishes the mod it would replace.
CurrentOnlyAdvances ==
  [][\A n \in AllNames : \A r \in RowsByName(n) :
       \E s \in RowsByName(n)' : r.id <= s.id]_vars

\* Every request that reached the server ends in an answer, or its client
\* learns that it is lost: no upload waits for the others' locks forever.
EveryUploadAnswered ==
  <>[](\A q \in Requests : pc[q] \in Answered \cup {"idle"})
-----------------------------------------------------------------------------
(***************************************************************************)
(* The inductive invariant behind OneCurrentPerName, AnswersAreTrue and    *)
(* the refinement: who can hold locks, and what a holder may rely on.      *)
(***************************************************************************)

\* Handlers hold locks from their UPDATE to the end of their transaction, and
\* what is uncommitted belongs to a holder.
HoldersInv ==
  \A q \in Requests :
    /\ pc[q] \in {"expired", "inserted"} => q \in holders
    /\ q \in holders => pc[q] \in {"expired", "inserted", "unwinding"}
    /\ pc[q] = "inserted" => modId[q] # 0
    /\ pc[q] = "expired" => modId[q] = 0
    /\ modId[q] # 0 => holders = {q}

\* Two handlers get past the UPDATE together only over an empty table, so the
\* rows a handler expires are still the unexpired ones when it commits.
ExpiryInv ==
  /\ \A p, q \in holders : p # q => modRows = {}
  /\ \A q \in Requests :
       pc[q] \in {"expired", "inserted"} => toExpire[q] = RowsToExpire(q)

\* Ids are given in the order of commits.
IdsInv ==
  /\ \A r \in modRows : r.id < nextId
  /\ \A q \in Requests : modId[q] # 0 =>
       modId[q] < nextId /\ \A r \in modRows : r.id < modId[q]
  /\ \A r, s \in modRows : r.id = s.id => r = s
  /\ \A e \in expired : \E r \in modRows : r.id = e

\* The current mod of a name is the newest one, and every stored name has one.
CurrentInv ==
  /\ \A r \in modRows : r.id \notin expired =>
       \A s \in modRows : s.name = r.name => s.id <= r.id
  /\ \A s \in modRows : \E r \in modRows : r.name = s.name /\ r.id \notin expired

\* A request owns a row exactly if its COMMIT took effect.
OwnersInv ==
  /\ \A r \in modRows : /\ r.name = NameOf[r.by]
                        /\ \/ pc[r.by] \in {"committed", "ok", "lost"}
                           \/ r.by \in inDoubt
  /\ \A q \in Requests :
       pc[q] \in {"committed", "ok"} \/ q \in inDoubt => \E r \in modRows : r.by = q
  /\ \A q \in inDoubt : pc[q] \in {"unwinding", "failed", "error", "lost"} /\ q \notin holders
  /\ \A r, s \in modRows : r.by = s.by => r = s

IInv ==
  /\ TypeOK /\ HoldersInv /\ ExpiryInv /\ IdsInv /\ CurrentInv /\ OwnersInv
  /\ StoredWhole
-----------------------------------------------------------------------------
\* To the clients all this is a catalogue: a commit publishes, what precedes
\* it is invisible, and an answer is the label a handler ends in.
Answer == [q \in Requests |-> IF pc[q] \in Answered THEN pc[q] ELSE "none"]

LiveIds == {r.id : r \in modRows} \ expired

Catalog == INSTANCE ModCatalog
  WITH published <- modRows,
       live <- LiveIds,
       answer <- Answer

\* The store implements ModCatalog.
ImplementsCatalog == Catalog!Spec
=============================================================================
