# AWCustomServer in TLA+

AWCustomServer (`src/AWCustomServer`) is the server of a turn-based war game: a
C++ program on boost.beast that stores *mods* (the rules of a game), *resource
packs* (texts and images), maps and games in MySQL and serves them over HTTP.
This directory holds TLA+ modules of its stateful parts and of its battle
calculator, the TLC configurations that check them, and proofs that TLAPS checks
of all their safety properties.

Paths below are relative to `src/AWCustomServer`.

## 1. The system and its parts

| Part | Source | State | Operations | Module |
|---|---|---|---|---|
| Mod upload, mod store | `src/db/Data.cpp`, `src/SQLUtil.cpp`, `src/RestFunctions.cpp` | `DATA.MOD` and 43 section tables; per request a session, a transaction, `last_insert_id` | `upload_mod`, `get_mods`, `get_mod_metadata` | `ModStore` |
| Mod download | `src/db/Data.cpp`, `src/GameManager.cpp` | `cacheMutex`, the futures of one `get_mod` | `GameManager::getMod`, `db::get_mod` | `ModReads` |
| Resource packs | `src/db/Resource.cpp`, `src/ResourcePacks.cpp` | `RESOURCE.PACK`, `TEXT_RESOURCE`, `IMAGE_RESOURCE` | `upload_pack(2)`, `get_pack_metadata`, `get_resource_pack`, `list_packs` | `PackStore` |
| REST server | `src/RestServer.cpp`, `src/Main.cpp` | threads, acceptor, sessions, `shouldStop` | construct, `start`, accept, read, handle, write, `stop`, destroy | `RestServer` |
| Schema rebuild, version check | `src/db/DBTablesV0.0.1.cpp`, `src/db/General.cpp`, `src/Main.cpp`, `src/Cli.cpp` | the schemas and tables, `GENERAL.META` | `buildDatabase`, `check_db_version` | `SchemaBuild` |
| Games | `src/db/MapsAndGames.cpp`, `src/db/State.cpp`, `src/StateLookup.cpp`, `src/GameManager.cpp` | `STATE.*`, `cacheMutex` | `createGame`; `getGame` behind the `/state/get` endpoints | `GameStore`, `GameReads` |
| Maps | `src/db/MapsAndGames.cpp` | `DATA.MAP_*` | `uploadMap`, `getMap` | `MapStore` |
| Battle calculator | `src/Calculator.cpp` | none, it is given a game and a mod | range, vision, firepower, defence, luck, cost, movement, capture, variant | `Calculator` |
| Properties, zip, base64, message types | `src/Properties.cpp`, ... | none | text and library wrappers | not modelled |

How they interact: the REST server's threads call the handler of an endpoint
synchronously; each handler opens MySQL sessions of its own, so handlers meet
only in the database and at `cacheMutex`. `main` runs the rebuild, the version
check and the server one after the other in one process. `PackStore` and
`ModReads` EXTEND `ModStore` and run beside its uploads, `GameReads` EXTENDS
`GameStore` likewise; `MapStore` has both sides, and
`Calculator` is called by nobody but a test program; `RestServer` treats the handler as a step of unknown
length. Nothing in the server creates games or maps: `createGame`
and `uploadMap` are called by a test program (`src/test/ChangeTestGame.cpp`), a
process beside the server.

What makes it hard: several uploads of one name interleave statement by
statement under InnoDB's locks; a statement, a connection, a COMMIT or the
whole process can fail at any point; a download is put together from sixteen
sessions; a handler blocks its thread while a deadline runs that was set once
per connection; DDL statements cannot be rolled back; the ids of a map's units
are only known once the rows are there, so they are linked afterwards; the
calculator collects effects from all players through hash maps and rounds each
share by itself.

What makes each part correct:

- mod store: one current mod per name; a mod is there whole or not at all; an
  answer says what happened; a failed upload does not take the old mod away;
- download: what is served under an id the server gave out is complete, and
  nobody is locked out;
- packs: the images come back in the encoding they went in with; an id given
  out stays good;
- REST server: no handler runs after destruction; clients are accepted and
  those that fall silent lose their session; SIGTERM ends the process;
- games: a game is replaced as a whole or not at all, and is never gone for a
  reader meanwhile;
- maps: a map is in all its tables or in none, one per name and version is
  current, and a reader gets all of it;
- calculator: an answer is near the exact value, and depends on who gives an
  effect to whom, not on hash order or on whose turn it is;
- schema: a rebuild clashes with nothing an earlier one left behind and returns
  NONE only when it got through; a database that is not whole is not served (it
  is: see the findings).

## 2. Modules

### ModCatalog, the abstract store

A catalogue of published mods, at most one of them live per name. `Publish`
publishes and retires in one step, `Tell` answers, `Lose` loses answers. A
server may be in doubt whether it has published (`inDoubt`) and may then say
"error". There is no transaction, lock, section or thread in it.

### ModStore, the detailed store

One action per step of `upload_mod`, for any number of concurrent requests:

| Action | Code |
|---|---|
| `Send` | `rest::data::upload_mod` is called with the body |
| `Expire` | `Session`, `START TRANSACTION`, the UPDATE of `submitMetaData` |
| `Insert`, `IdsExhausted` | the INSERT into `DATA.MOD` and `last_insert_id` |
| `Submit` | the default packs, then the fifteen submit functions, one section per step |
| `Commit` | `Transaction::commit` |
| `CommitUnanswered` | COMMIT took effect, its answer did not arrive |
| `StatementFails`, `ConnectionLost`, `DeadlockVictim` | a statement throws; with the connection, or by the deadlock detector, the transaction is gone too |
| `Rollback` | `~Transaction` during unwinding; `upload_mod` turns the error into a RestError |
| `Reply`, `ReplyLost` | the response is written, or cannot be |
| `Crash` | the process dies (for instance in `~Session`, whose `close` may throw) and is started again |

`modRows`, `expired` and `content` are what is committed, `toExpire`, `modId`
and `done` what one transaction alone sees. A row carries the request it came
from (`by`), which the code does not store: a history field for the properties.

What is assumed of MySQL (the database is not part of the repository; the
definitions are marked external):

- InnoDB in its default isolation level, REPEATABLE READ. Plain SELECTs outside
  a transaction read the last committed state and wait for nobody.
- `DATA.MOD` has its primary key only (`include/SQLUtil.h`, `createColumns`), so
  the UPDATE by NAME scans the table and locks every row and the gap after the
  last until the transaction ends. A second UPDATE waits for it (`CanScan`),
  unless there is no row at all: gap locks do not conflict with each other, but
  each stops the INSERTs of the others (`CanInsert`).
- Of transactions that wait for each other one is rolled back at once.
- AUTO_INCREMENT never gives an id twice, also not after a rollback.
- The end of a connection rolls its transaction back.

Abstracted: the contents of a section (one pair of mod id and section stands
for its rows), the wording of errors, time. A retry of a client is a request
of its own with the same name and version.

### ModReads, downloads beside uploads

`AskListed` takes an id from what `/data/getMods` or `/data/getModData` answer
at that moment, `AskById` any number. `Lock` is `GameManager::getMod` taking
`cacheMutex`, `ReadPart` one of the sixteen `std::async` readers finishing its
SELECT, in any order and between any steps of the uploads (the default packs
are read by the thread that has read the row, after it), `PartFails` a session
that fails, `Finish` the collection of the futures and the release of the
mutex. The cache itself is left out: `getMod` looks into `cachedMods` and never
puts anything in, and nothing calls `cleanup`.

### PackStore, resource packs

`upload_pack` and `upload_pack2` run the same protocol as `upload_mod` on
`RESOURCE.PACK` (expire, insert, texts, images, commit), so the uploads are
`ModStore`'s actions with the pipeline `PackSections`; what is read as `mod` is
a pack there. New are the two encodings of images (chunks of text for a JSON
body, blobs for an archive), the protocol stored in the row, which for JSON is
the client's, and the readers: lookup by name and version, listing, and the
download that reads the row first, then the texts, then the images with the
reader the protocol asks for.

### RestServer

The life of the server as `main` drives it (`server`), the acceptor, the worker
threads inside and outside `io_context::run`, and one session per connection:
pending, handshake, reading, handling, writing, closed. `ThreadFree` is the
heart: a handler only runs if a thread inside `run` is not busy with an
endpoint, and the timeout of a session is such a handler as well. `Expire` is
the clock passing the deadline, set once per connection. A connection carries any
number of requests: `sent`, `handled` and `answered`, history for
`OnlyLastUnanswered`, begin anew at `MaxRequests`, where all three agree. `CloseThrows` is
`shutdown` throwing in `do_close`: the exception leaves `run` and `workFunc`
comes back to it. TLS is left out; `main` has it commented out.

### SchemaBuild

`Build` is the list of all statements of the rebuild in order, with the real
table names: drop, create, tables, and for GENERAL the version row. `Execute`
runs one, `StatementFails` ends the rebuild with code UNKNOWN, `Die` ends the
process anywhere, `Check` is the version check. DDL takes effect at once
(MySQL commits implicitly). Initially the server is new or holds the database
of an older program. Columns are not modelled. `Created` are the tables that the
build functions create; `AllTables`, those that the header declares and the SQL
of the server names, has one more, `DATA.MAP_PLAYERSLOT`. `NoneMeansBuilt` can
only promise the former. That `uploadMap` and `getMap` miss the other is in
`MapStore`, which runs with and without it.

### GameStore, games created and replaced

| Action | Code |
|---|---|
| `Call` | `createGame` is called, with the id of a game or without; session and transaction |
| `OpenFails` | session or transaction cannot be opened: before the try block, so the exception reaches the caller |
| `Wipe` | one DELETE of the loop over `tablesToWipe`, in the order of a `std::map` |
| `ReadMap` | `getMap` and the choice of the variant |
| `FillGame`, `IdsExhausted` | the INSERT into `STATE.GAME`, with the id given or a new one |
| `Fill` | one of the other inserts, in the order of the code; no users, no insert |
| `FillEmpty` | `doInsert` of an empty range, an SQL error |
| `Reject` | what `createGame` and the functions it calls throw that is no SQL error |
| `StatementFails`, `DeadlockVictim` | an SQL error: caught, printed, and the call returns |
| `Commit`, `Rollback`, `Die` | the end of the transaction |

A row is the id of its game and the call it came from; the number of rows of a
table counts only as "some" or "none" (`lists`). The locks follow from how far a
call has come (`Wiped`, `Inserted`), so there is no variable for them. All tables
but GAME are deleted from by a column without an index: the whole table and its
end are locked. `WaitsFor` is the relation from which MySQL detects deadlocks;
they do happen, between two calls for the same missing game, and between a call
that wipes and one that only fills, since the two orders differ.

Assumed, besides the above: the table `MAP_PLAYERSLOT`, which `getMap` reads and
the rebuild does not create, is there. Without it every call ends as in
`StatementFails`.

### GameReads, games read beside that

`Ask` is a request to one of the five endpoints, `Lock` and `Finish` are
`GameManager::getGame`, `Read` is one SELECT of one of its five readers, in any
order but that the player order comes after the game and the variants after the
settings. `seen` keeps whose rows were found. `disturbed` is a history variable.
A failed read is one whatever else was found, so `seen` is emptied then. The
server dying is left out: it keeps nothing.

### MapStore, maps uploaded and read

| Action | Code |
|---|---|
| `Call` | `uploadMap` is called; session and transaction |
| `Expire` | the UPDATE of the maps of the same name and version |
| `InsertDefinition` | the INSERT into `MAP_DEFINITION` and `last_insert_id` |
| `InsertUnit` | one INSERT of the first loop and its `last_insert_id` |
| `Link`, `Dangles` | one turn of the second loop: what is carried is linked, or a transporter that is not there throws |
| `InsertTerrains`, `InsertSlots` | the last two inserts; an empty list is an SQL error, and so is a missing `MAP_PLAYERSLOT` |
| `Commit`, `StatementFails`, `DeadlockVictim`, `Rollback`, `Die` | the end of the transaction; out of ids, the INSERT of the definition fails |
| `Ask`, `ReadDefinition`, `ReadSlots`, `ReadUnits`, `ReadTerrains`, `ReadFails` | `getMap`: definition, slots, units and terrains, one SELECT each |

A unit is its place in the upload's list, the row it has got and the link in
that row. Links are bound as the code binds them, which is the other way round
(see the findings). `MapsWhole` does not take a side in that: a link is between a
carried unit and its transporter, in whichever of the two rows, and there is at
least one for each carried unit; with the two ids bound in the right order it
would hold as well. Which row is right, and that no link is lost, is `CargoKept`. Whether
the table of player slots is there is chosen initially.

### Calculator

Every function of namespace `calc`, as operators on a game, which is a record,
and on the tables of a mod, which are functions (`ModData`). They are joined by
a small machine: it starts with a stored game and plays moves (`PassTurn`,
`UsePower`, `Earn`, `SetHitPoints`, `MoveUnit`, `Capture`) or meets the players
in another order (`Rehash`, for the unordered maps of `Game`). Properties of one
answer are invariants of that machine, properties that relate two answers are
action properties. Division truncates towards zero as in C++.
`StrengthNearExact` is the comparison with a reference. `ExactStrength` does not
use the filters of the code: it takes every effect that reaches with any field
that a side adds (`Fields`), and the terrain stars before they are cut off
(`ExactStars`), and adds all shares up without rounding. The answer may be off by
less than two for each effect (two quotients) and one more for each of its points
per star (the stars are a quotient themselves). What the filters are known to
lack, effects with nothing but a flat share of the stars, may be in the sum or
not; a field that is picked and not added, or added and not picked, is found.
`OnlyGiversCount` and `TurnAndHashingDoNotMatter` compare answers in the same
variant, since anyone's power may change that. Funds and hit points are integers
without bound, and so are the sums. The place of a terrain is the key for both
maps of terrains of a `Game`; in the games here the two have the same entries.

### Wrong siblings

Just above some definitions stands another one (`ExpireByVersion` above
`RowsToExpire`, `FinishLocked` above `Finish`): a plausible wrong coding of the
same thing, which no behaviour uses. PROJECT.json pairs each checked property
with one; with it in the place of the right one the property fails, which
shows that the property depends on what the code does.

## 3. Runs and their bounds

| Run | Instance | States | Shows |
|---|---|---|---|
| `mod_store` | 4 requests: three of one name with versions v1, v1, v2, one of another name; the first and the last of the 16 sections; 3 ids; 1 fault | 374,304 | safety of the store, the inductive invariant, that `ModStore` implements `ModCatalog`, and that every upload ends |
| `mod_reads` | 2 uploads, 2 readers, 1 section | 597,954 | downloads are whole and end |
| `rest_server` | 2 clients, 1 thread, any number of requests, counted to 2 | 87,745 | life of server and sessions |
| `schema_build` | the 61 tables, 3 starts | 50,207 | rebuild and check |
| `schema_served` | the same | violation | a half-built database is served |
| `pack_store` | 2 uploads by all routes and protocols 0 to 2, 1 reader | 980,064 | downloads of packs |
| `pack_missing` | the same | violation | an unknown id reaches the line that "shouldn't happen" |
| `game_store` | 2 calls for the games -1 and 1 or a new one, 3 inputs, 2 ids | 237,812 | games are replaced whole, and calls end |
| `game_reads` | 2 calls for the game -1 or a new one, 1 reader | 1,184,879 | a known game is always found whole |
| `map_store` | 3 uploads of six maps, 1 reader, 3 ids, with and without player slots | 1,348,332 | maps are whole, current and served whole |
| `map_cargo` | 2 uploads of the same maps | violation | links are stored in the transporter's row |
| `calculator` | 6 games with 3 players, 12 effects and one move | 1,098 | answers are near exact and depend on the right things |

Why the bounds are enough: three requests of one name are the least with which
a third can see what two that raced have left, two of them share a version (a
retry), and the fourth shows that names do not disturb each other; with fewer
ids than requests the column runs out. Two sections give a state in which one
is submitted and the other is not. A fault is the death of the process or an
unanswered COMMIT, bounded by `MaxFaults`; failing statements are not bounded.
`mod_reads` has one section so that "row without section" and "section without
row" can both be seen; the order between row and default packs is then not
exercised. One worker thread in `rest_server` is the case in which a handler
blocks everything; with more threads there is more progress. The requests of a
client have no bound there, so a session may read for ever and liveness does not
rest on the end of requests; `MaxRequests` is only where counting starts over. Three starts let
a rebuild follow a rebuild that failed, and a plain start follow both.
In `game_store` the game -1 is the one of the test program, 1 is an explicit id
that MySQL may also give by itself, and two calls already meet in every table
and deadlock; the inputs are a full one, one for which `doInsert` fails late and
one whose slots have no users. `game_reads` has one reader because readers meet
at `cacheMutex` only; two calls allow two replacements during one read.
In `map_store` two uploads race and the third sees what they left; the maps are
one without units, a tower, a unit that carries two, and three that fail at the
second loop, at the slots and at the terrains. In `calculator` every rule of
the calculator has an effect that meets it, the turn order is not that of the
ids, two of three players are a team, and one move is all that the action
properties need, since the initial games differ in much more.
`schema_build` may deadlock because starts are bounded, so its configuration
says CHECK_DEADLOCK FALSE; so does that of `calculator`, where moves are bounded.
All other runs check deadlock.

`MCMapStore.cfg` uses symmetry between the uploads, which any map may come with;
no liveness property is checked there. No other run uses symmetry.

### Fairness

- `ModStore`: weak fairness of `Step(q)`, the steps of the handler itself. The
  worker threads run, and InnoDB serves waiting statements: a lock wait ends
  when the holders end, which they do. No fairness of `Send` (a client need not
  ask) or of failures.
- `ModReads`: weak fairness of the steps of each reader, none of the uploads:
  readers do not wait for locks. A mutex promises no order, but each
  reader makes one request, so nobody can be overtaken forever.
- `GameStore`: weak fairness of `Step(c)`, as for `ModStore`.
- `RestServer`: weak fairness of main's steps, of the threads and of the clock,
  strong fairness of each session's handlers. `io_context` runs completed handlers
  first in, first out, so one that is ready again and again has its turn although
  functions of other sessions take the thread in between. It does not choose
  among the handlers of one session: of an overdue session whose client always has
  the next request ready the read may end before the timeout each time, and such
  a session may live on. `SilentSessionsEnd` therefore is about clients that send
  nothing more. `Respond` is among them: a handler of an endpoint
  returns, which `EveryUploadAnswered` and `EveryReadAnswered` justify. `Stop`
  (SIGTERM) and the clients are not fair.

### Where the code does not do what it says

- `schema_served`: `main` ignores the result of `buildDatabase` (`src/Main.cpp:25`)
  and the version row is written first, so a rebuild that fails later is taken
  for a good database.
- `pack_missing`: `results.size()` in `get_pack_metadata` counts result sets, not
  rows (`src/db/Resource.cpp:470`, `:488`), so NOT_FOUND is never answered; an
  unknown id ends at "This shouldn't happen...!" (`:504`).
- `map_cargo`: `uploadMap` binds the two ids of its UPDATE in the wrong order
  (`src/db/MapsAndGames.cpp:309`, statement at `:293`): the row of the transporter
  gets the id of its cargo, and of several units inside one only the last is
  remembered. The comment at `:311` describes what should be possible.

Met on the way, without a document that says otherwise, and so not among the
violations: settings without variants, which `createGame` provides for
(`src/db/MapsAndGames.cpp:35`), always end in a rollback at `:185`, and the
caller is not told; pieces of a game read while it is replaced may not fit
together (`UndisturbedFitsTogether` excludes exactly that case); no map can be
stored in a database that `buildDatabase` made, for want of `MAP_PLAYERSLOT`
(`:329`; the last conjunct of `MapsWhole`); what `getMap` returns cannot be
uploaded again, since it gives row ids, or -1, as `transportedBy` where
`uploadMap` takes places in the list; the lists of fields that pick the effects
for firepower and defence lack `terrainStarsFlatFirepower` and
`terrainStarsFlatDefense`, so an effect with nothing else is ignored; the
multiplier of the terrain stars starts at 0 (`src/Calculator.cpp:834`), so a unit has
none unless an effect has `terrainStarsMod`; what a unit pays to move depends on
whose turn it is if the rules that replace the variant build on one another, or
if nobody owns the unit (`SameMovementCost` excludes exactly these cases).

## 4. Proofs

For every value of the constants, under the named assumptions of the modules:

| Module | Theorems (the property of a run each proves) |
|---|---|
| `ModStoreProofs` | `Invariance` (`IInv`), `TypeCorrect` (`TypeOK`), `CurrentUnique` (`OneCurrentPerName`), `Whole` (`StoredWhole`), `Truthful` (`AnswersAreTrue`), `FindsCurrent` (`VersionFindsCurrent`), `Advances` (`CurrentOnlyAdvances`), `Implements` (`ImplementsCatalog`, the refinement) |
| `ModReadsProofs` | `ReadsInvariance`, `ServedWhole` (`KnownModServedWhole`), `ServedStored` (`ServedIsStored`), `ReadsTyped` (`ReadsTypeOK`) |
| `PackStoreProofs` | `PackInvariance`, `PacksServedWhole` (`PackServedWhole`), `ServesAsked` (`LookupServesAsked`), `KnownFound` (`KnownPackFound`) |
| `GameProofs` | of `GameStore`: `Invariance`, `Whole` (`GamesWhole`), `Stay` (`GamesStay`), `Typed` (`TypeOK`); of `GameReads`: `ReadsInvariance`, `KnownServedWhole` (`KnownGameServedWhole`), `UndisturbedFits` (`UndisturbedFitsTogether`) |
| `MapStoreProofs` | `Invariance`, `Whole` (`MapsWhole`), `Current` (`OneCurrentPerVersion`), `Served` (`KnownMapServedWhole`) |
| `RestServerProofs` | `Invariance`, `Quiet` (`QuietWhenDestroyed`), `LastOnly` (`OnlyLastUnanswered`), `Typed` (`TypeOK`) |
| `SchemaBuildProofs` | `Invariance`, `NeverClashes` (`RebuildNeverClashes`), `BuiltWhenNone` (`NoneMeansBuilt`), `Typed` (`TypeOK`) |
| `CalculatorProofs` | `Typed`, `TurnAndHashing` (`TurnAndHashingDoNotMatter`), `GiversCount` (`OnlyGiversCount`), `DamageNeverHelps` (`DamageNeverHelpsCapture`), `LatestDecides` (`LatestTurnDecidesVariant`), `StrengthIsNear` (`StrengthNearExact`) |

So every safety invariant and every action property of a run is a theorem, and
so is the refinement of `ModCatalog`.

Assumptions: the pipeline is a sequence of names (`PipelineAssumption`), that of
packs is the texts and the images (`PackPipelineAssumption`); the bounds are natural
numbers; there are finitely many clients of the REST server (`SizesAssumption`);
an input of `createGame` has a game and settings, and `Old` is no call
(`InputsAssumption`); what a map may look like (`MapsAssumption`); what the members
of a mod and of a game are (`ModAssumption`, `GamesAssumption`), with hit points
that are not negative and no player twice in the order of turns, and that a call
that throws answers with no list of effects (`ThrowsAssumption`). What section 2
says of MySQL is in the actions.

### ModStore

The argument. `OneCurrentPerName` is not inductive: that two uploads of one name
never both publish over the same old mod depends on who holds which locks. The
strengthening `IInv` says

- `HoldersInv`: a handler past its UPDATE holds the locks, what is uncommitted
  belongs to a holder, and whoever has inserted is the only holder;
- `ExpiryInv`: two holders at once exist only over an empty table, and the rows
  a handler has expired are still all unexpired rows of its name;
- `IdsInv`, `CurrentInv`: ids grow with commits, and the current mod of a name is
  its newest;
- `OwnersInv`: a request has a row exactly if its COMMIT took effect;
- `TypeOK` and `StoredWhole`.

`TypeOK` and `HoldersInv` keep each other (`StepTypeOK`, `StepHolders`); the rest
builds on them, one lemma per conjunct (`StepExpiry`, `StepIds`, `StepCurrent`,
`StepOwners`, `StepStoredWhole`). Almost all of it happens at the commit, of
which lemma `Committing` says once what it finds and does. For the refinement,
`Commit` and `CommitUnanswered` map to `Publish`, `Reply` to `Tell`, `ReplyLost`
and `Crash` to `Lose`, and every other step stutters (`StepCatalog`).

### ModReads, PackStore, GameReads

The readers need little of each other and much of the store. That is in the
store's own invariant, to which `ReadsIInv`, `PackIInv` and `GameReadsIInv` add
one conjunct about each reader: the row it is after is there, and it has what
the SELECTs behind it must have found. Two facts carry the proofs: a step of a
reader leaves the store alone (so the store's lemma applies to every step), and
rows are never taken away (`StoreGrows`, `PacksStay`, `GamesStayThere`), so what
a reader has found remains true while the store moves on. `FirstRowFound` of
`ModReadsProofs` is a well-founded argument: the newest row of a name exists
because ids are natural numbers. `UndisturbedFitsTogether` needs that a reader of
a game nobody replaces has seen exactly what is there now, so that the wholeness
of games says it at the end.

### GameStore

`GamesWhole` says that each game is in all tables once and from one call. What
could break it is two calls for one game, or for ids that coincide, so the
invariant has to say what the locks exclude: `CallsInv` (whoever inserts has
wiped first, and has rows for every table by the time it commits), `NewIdsInv`
(an inserted id is the argument or new, and below the next id) and `GameLocksInv`
(no two calls have inserted the same id, none has wiped the game another inserts,
and two that have wiped the same game found none). `Committing` and
`CommitReplaces` say once what a commit does to every table.

### MapStore

As in `ModStore` the locks of the UPDATE make the uploads of existing maps exclude
each other (`HoldersInv`, `ExpiryInv`, `IdsInv`). New is `LinksInv`, which says how
far the two loops over the units are and which links they have made; `LinkOne` and
`InsertOne` keep it, and `RowsFit` turns it into `MapsWhole` at the commit.

### RestServer

`ThreadsInv`: the handlers that run are at most as many as the threads inside
`io_context::run`, and when the server is destroyed all threads have been joined;
finite cardinalities do the rest. `TurnsInv`: what a client has sent, the session
has handled and the session has answered differ by at most one, and by how much
depends on where the session is.

### SchemaBuild

What the rebuild relies on is the order of its statements: none is repeated, a
drop comes before everything else about its schema, and what a statement needs
comes before it (`Ordered`). That is shown of each build function and kept by
putting scripts of different schemas one after the other; the rest of the proof
knows nothing else of the statements. `RebuildInv` is then the state of a
database in the middle of a rebuild, over whatever was there: what has been
dropped is there only if created since, and what has been created is there
still. At the end all drops and creations are behind it, hence `NoneMeansBuilt`.

### Calculator

The invariant is `TypeOK` (what is played stays a game, and the walk meets each
player once), which the run does not list, since it is the ground of the other
properties; those are about one game, or about two that are a step apart.

An answer about a unit is a fold over the effects of all players that reach it.
What a sequence of effects is worth, if each has a value, is a sum (`Worth`), and
the lemmas say that this sum goes over concatenation, over leaving out what does
not reach and over any order in which the map is walked (`WorthConcat`,
`WorthKeep`, `WorthFlatten`, `WorthOfWalks`). So two games give the same answers
where each player gives the same effects that reach, or none that does
(`AlikeAround`), and what those are multiplied by is the same (`SameAround`,
`SameUnitAnswers`). What remains for each property is what a step changes:

- `TurnAndHashing`: nothing of that. For the cost of movement, rules that do not
  build on one another act like one rule for the variant, whatever their order
  (`RulesUnchained`).
- `GiversCount`: who is touched by the step gives nothing that reaches, before
  and after, because all that a player may give is in the repertoire
  (`InRepertoire`); nobody else's effects, funds and terrains have changed
  (`PeopleStay`, `LeftMeans`).
- `DamageNeverHelps`: a rate that is negative yields no points, so that fewer hit
  points cannot help (`ProductsGrow`). This needs hit points that are not
  negative: two negative factors would capture.
- `LatestDecides`: the last of all effects is the last of the last player in turn
  with any (`FlattenLast`, `KeepLast`), and the place in turn is the number of
  turns until then (`RankInTurn`).
- `StrengthIsNear`: the two quotients of a share and the one of the stars stray
  from the exact value by no more than the share's slack (`StarsNear`,
  `ShareNear`), and that adds up (`WorthNear`). The fields that are added are those
  of the filter and the flat share (`SidesFlat`), so the effects that the code
  picks are those of the exact sum (`CountedWorth`).

The provers have no induction over data, since the library's theorems take an
operator as a parameter. What these proofs need of it is done with sets: a set
of natural numbers with 0 and with every successor is all of them (`Induction`,
from the well-founded order on them), applied to the set of lengths for which a
fact holds. The recursive functions inside `Total`, `Keep`, `FlattenSeq` and
`MovementVariant` are shown to exist and unfolded one element at a time
(`Recursion`, `Alike` and the lemmas named `...Unfold`).

### Only model-checked

All liveness (`EveryUploadAnswered`, `EveryReadAnswered`, `EveryCallEnds`,
`ClientsAccepted`, `SilentSessionsEnd`, `StopEnds`), which is beyond the prover, and the
three violations. The theorems about the calculator are about integers of any
size; that the sums stay within the 64 bits of the code is not stated.

## 5. Not modelled

- What rows say: the columns each submit function of `Data.cpp` writes and each
  get function reads, and those of STATE. A section, a game's rows in a table or
  an image is there or not. The hazards that lie in columns (owner and
  activation count of a terrain are exchanged at `src/db/State.cpp:177`; the rules of a
  movement class are read without an order; chunks of two variants of an image
  are mixed) are listed in PROJECT.json without a property: no document says
  what the columns are to be, so a property could only repeat the SQL.
- The parsing of `app.properties`, zip and base64 (library wrappers), the message
  types (boost::json descriptions of structures), the `findMaps` stub, which
  returns nothing, TLS, which `main` does not use, and the programs outside the
  server (`ConvertFilesToBase64`, `ConvertTemplatesToClass`, `Dijkstra Test`,
  `SQLTesting`, ...), which keep no state of the server.
