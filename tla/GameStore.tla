------------------------------ MODULE GameStore ------------------------------
(***************************************************************************)
(* Creating a game: db::createGame of src/db/MapsAndGames.cpp.  Called     *)
(* with the id of a game it replaces that game, called without one it adds *)
(* a game; both in one transaction over the tables of STATE.  Its callers  *)
(* (src/test/ChangeTestGame.cpp) are processes beside the server, so calls *)
(* may overlap with each other and with the server's reads.                *)
(*                                                                         *)
(* An SQL error of a statement is caught, printed, and the call returns as *)
(* if it had created the game; any other error leaves it as an exception.  *)
(*                                                                         *)
(* Left out: PLAYER_BANNEDUNITS_REFERENCE and UNIT_TRANSPORT_REFERENCE,    *)
(* which are wiped and never filled; what the rows say beyond whose game   *)
(* they belong to; and which table getMap fails on (MAP_PLAYERSLOT is not  *)
(* among the tables buildDatabase creates, so the games here are those of  *)
(* a database that got it otherwise).                                      *)
(*                                                                         *)
(* Of InnoDB (external): the tables have their primary keys only.  A       *)
(* DELETE by GAME_ID scans its table and locks every row and every gap; of *)
(* GAME, deleted from by ID, it locks the row, or the gap where the row    *)
(* would be.  Gap locks go together with each other and stop the INSERTs   *)
(* of others.  An uncommitted row stops the DELETEs that meet it.          *)
(***************************************************************************)
EXTENDS Integers, Sequences, Relation

CONSTANTS Calls,    \* the calls of createGame
          GameIds,  \* the ids calls may name
          Inputs,   \* for each input, the tables it has rows for
          Old,      \* in the place of a call: who made the games at the start
          MaxId     \* bound on STATE.GAME.ID

NoId == 0           \* no gameId, or none assigned yet

WipeOrderWithoutPlayers == <<"GAME", "GAME_PLAYERORDER_REFERENCE", "SETTINGS",
               "SETTINGS_VARIANT_REFERENCE", "TERRAIN", "UNIT">>
\* The tables in the order of tablesToWipe, a std::map by table name.
WipeOrder == <<"GAME", "GAME_PLAYERORDER_REFERENCE", "PLAYER", "SETTINGS",
               "SETTINGS_VARIANT_REFERENCE", "TERRAIN", "UNIT">>

\* And in the order of the inserts.
FillOrder == <<"GAME", "PLAYER", "GAME_PLAYERORDER_REFERENCE", "UNIT",
               "TERRAIN", "SETTINGS", "SETTINGS_VARIANT_REFERENCE">>

Tables == {FillOrder[i] : i \in DOMAIN FillOrder}

\* An input always has one game and one SettingsState; the lists may be empty.
ASSUME InputsAssumption ==
  /\ \A i \in Inputs : {"GAME", "SETTINGS"} \subseteq i /\ i \subseteq Tables
  /\ GameIds \subseteq Int \ {NoId}
  /\ MaxId \in Nat
  /\ Old \notin Calls

VARIABLES
  rows,       \* committed rows of each table: [game, by]
  nextId,     \* AUTO_INCREMENT of GAME
  pc,         \* where each call is, then how it ended
  gameId,     \* its argument, or NoId
  lists,      \* its input
  wiped,      \* uncommitted: how many tables it has wiped
  filled,     \* uncommitted: how many inserts are behind it
  newGameId   \* uncommitted: the id of its row of GAME

vars == <<rows, nextId, pc, gameId, lists, wiped, filled, newGameId>>

Ended == {"returned", "thrown", "died"}
Working == {"begun", "filling", "caught", "throwing"}

\* STATE may hold games from earlier runs of the program.
Init ==
  /\ \E there \in SUBSET GameIds :
       /\ rows = [t \in Tables |-> {[game |-> g, by |-> Old] : g \in there}]
       /\ nextId \in 1..MaxId
       /\ \A g \in there : g < nextId
  /\ pc = [c \in Calls |-> "idle"]
  /\ gameId = [c \in Calls |-> NoId]
  /\ lists = [c \in Calls |-> {}]
  /\ wiped = [c \in Calls |-> 0]
  /\ filled = [c \in Calls |-> 0]
  /\ newGameId = [c \in Calls |-> NoId]
-----------------------------------------------------------------------------
Goto(c, label) == pc' = [pc EXCEPT ![c] = label]

RowsOf(t, g) == {x \in rows[t] : x.game = g}
GamesIn(t) == {x.game : x \in rows[t]}

Wiped(c) == {WipeOrder[i] : i \in 1..wiped[c]}
Inserted(c) == {FillOrder[i] : i \in 1..filled[c]} \cap lists[c]

\* All a transaction has done and locked is gone.
EndTransaction(c) ==
  /\ wiped' = [wiped EXCEPT ![c] = 0]
  /\ filled' = [filled EXCEPT ![c] = 0]
  /\ newGameId' = [newGameId EXCEPT ![c] = NoId]

\* The next statement of a call, if its next step is one.
WipesNext(c) == pc[c] = "begun" /\ gameId[c] # NoId /\ wiped[c] < Len(WipeOrder)
FillsNext(c) == pc[c] = "filling" /\ filled[c] < Len(FillOrder)
NextWipe(c) == WipeOrder[wiped[c] + 1]
NextFill(c) == FillOrder[filled[c] + 1]

\* No row of GAME lies between the ids g and h.
SameGap(g, h) ==
  LET uncommitted == {newGameId[d] : d \in {e \in Calls : "GAME" \in Inserted(e)}}
  IN \A i \in GamesIn("GAME") \cup uncommitted : ~(g < i /\ i < h) /\ ~(h < i /\ i < g)

IdToInsert(c) == IF gameId[c] # NoId THEN gameId[c] ELSE nextId

\* The call d stops the DELETE of c ...
StopsWipe(d, c) ==
  LET t == NextWipe(c)
  IN IF t = "GAME"
     THEN \/ t \in Inserted(d) /\ newGameId[d] = gameId[c]
          \/ t \in Wiped(d) /\ gameId[d] = gameId[c] /\ gameId[c] \in GamesIn(t)
     ELSE t \in Inserted(d) \/ (t \in Wiped(d) /\ rows[t] # {})

\* ... or its INSERT.  New rows other than GAME's are always at the end.
StopsFill(d, c) ==
  LET t == NextFill(c)
  IN /\ t \in lists[c]
     /\ t \in Wiped(d)
     /\ t = "GAME" => /\ gameId[d] \notin GamesIn(t)
                      /\ SameGap(gameId[d], IdToInsert(c))

WaitsFor(c, d) ==
  /\ d # c
  /\ \/ WipesNext(c) /\ StopsWipe(d, c)
     \/ FillsNext(c) /\ StopsFill(d, c)

Waits(c) == \E d \in Calls : WaitsFor(c, d)
InWaitCycle(c) ==
  /\ Waits(c)
  /\ TransitiveClosure([x, y \in Calls |-> WaitsFor(x, y)], Calls)[<<c, c>>]
-----------------------------------------------------------------------------
\* createGame is called.
Call(c) ==
  /\ pc[c] = "idle"
  /\ \E g \in GameIds \cup {NoId} : gameId' = [gameId EXCEPT ![c] = g]
  /\ \E i \in Inputs : lists' = [lists EXCEPT ![c] = i]
  /\ Goto(c, "begun")
  /\ UNCHANGED <<rows, nextId, wiped, filled, newGameId>>

\* The transaction started after the wiping: every DELETE commits by itself.
WipeAutocommit(c) ==
  /\ WipesNext(c)
  /\ ~Waits(c)
  /\ rows' = [rows EXCEPT ![NextWipe(c)] = @ \ RowsOf(NextWipe(c), gameId[c])]
  /\ wiped' = [wiped EXCEPT ![c] = @ + 1]
  /\ UNCHANGED <<nextId, pc, gameId, lists, filled, newGameId>>
\* One DELETE.
Wipe(c) ==
  /\ WipesNext(c)
  /\ ~Waits(c)
  /\ wiped' = [wiped EXCEPT ![c] = @ + 1]
  /\ UNCHANGED <<rows, nextId, pc, gameId, lists, filled, newGameId>>

\* getMap finds the map, in a session of its own; the variant is chosen.
ReadMap(c) ==
  /\ pc[c] = "begun"
  /\ ~WipesNext(c)
  /\ Goto(c, "filling")
  /\ UNCHANGED <<rows, nextId, gameId, lists, wiped, filled, newGameId>>

\* The insert of GAME, with the id given or with the next one.
FillGame(c) ==
  /\ FillsNext(c)
  /\ NextFill(c) = "GAME"
  /\ ~Waits(c)
  /\ IdToInsert(c) <= MaxId
  /\ newGameId' = [newGameId EXCEPT ![c] = IdToInsert(c)]
  /\ nextId' = IF IdToInsert(c) < nextId THEN nextId ELSE IdToInsert(c) + 1
  /\ filled' = [filled EXCEPT ![c] = @ + 1]
  /\ UNCHANGED <<rows, pc, gameId, lists, wiped>>

\* Of no users no one is inserted, and there is no error.
Skips(c) == NextFill(c) = "PLAYER"

\* Slots that certainly have no user.
SlotsWithoutUsers(c) ==
  /\ FillsNext(c)
  /\ NextFill(c) = "GAME_PLAYERORDER_REFERENCE"
  /\ NextFill(c) \in lists[c] /\ "PLAYER" \notin lists[c]

\* One of the other inserts.
Fill(c) ==
  /\ FillsNext(c)
  /\ NextFill(c) # "GAME"
  /\ ~Waits(c)
  /\ NextFill(c) \in lists[c] \/ Skips(c)
  /\ ~SlotsWithoutUsers(c)
  /\ filled' = [filled EXCEPT ![c] = @ + 1]
  /\ UNCHANGED <<rows, nextId, pc, gameId, lists, wiped, newGameId>>

\* doInsert of an empty range: "values" is followed by nothing.
EmptyIgnored(c) ==
  /\ FillsNext(c)
  /\ NextFill(c) \notin lists[c]
  /\ ~Skips(c)
  /\ filled' = [filled EXCEPT ![c] = @ + 1]
  /\ UNCHANGED <<rows, nextId, pc, gameId, lists, wiped, newGameId>>
FillEmpty(c) ==
  /\ FillsNext(c)
  /\ NextFill(c) \notin lists[c]
  /\ ~Skips(c)
  /\ Goto(c, "caught")
  /\ UNCHANGED <<rows, nextId, gameId, lists, wiped, filled, newGameId>>

\* STATE.GAME has no id left.
IdsExhausted(c) ==
  /\ FillsNext(c)
  /\ NextFill(c) = "GAME"
  /\ IdToInsert(c) > MaxId
  /\ Goto(c, "caught")
  /\ UNCHANGED <<rows, nextId, gameId, lists, wiped, filled, newGameId>>

\* COMMIT.  If it takes effect and its answer is lost, the error is caught and
\* the call returns all the same.
Commit(c) ==
  /\ pc[c] = "filling"
  /\ filled[c] = Len(FillOrder)
  /\ rows' = [t \in Tables |->
                (rows[t] \ (IF t \in Wiped(c) THEN RowsOf(t, gameId[c]) ELSE {}))
                \cup {[game |-> newGameId[c], by |-> c] : x \in {t} \cap Inserted(c)}]
  /\ EndTransaction(c)
  /\ Goto(c, "returned")
  /\ UNCHANGED <<nextId, gameId, lists>>

\* No Session or no Transaction: they are made before the try block, so the
\* error leaves the call as an exception.
OpenFails(c) ==
  /\ pc[c] = "begun"
  /\ wiped[c] = 0
  /\ Goto(c, "throwing")
  /\ UNCHANGED <<rows, nextId, gameId, lists, wiped, filled, newGameId>>

\* A statement of the call's session fails, or getMap's session.
StatementFails(c) ==
  /\ pc[c] \in {"begun", "filling"}
  /\ Goto(c, "caught")
  /\ UNCHANGED <<rows, nextId, gameId, lists, wiped, filled, newGameId>>

\* A map that is not there, a slot without a user, a mod that getMod does not
\* find, a unit, a terrain or an owner the mod or the input does not know.
MayReject(c) ==
  \/ pc[c] = "begun" /\ ~WipesNext(c)
  \/ /\ FillsNext(c)
     /\ \/ NextFill(c) = "UNIT"
        \/ NextFill(c) \in {"GAME_PLAYERORDER_REFERENCE", "TERRAIN"} \cap lists[c]
Reject(c) ==
  /\ MayReject(c)
  /\ Goto(c, "throwing")
  /\ UNCHANGED <<rows, nextId, gameId, lists, wiped, filled, newGameId>>

\* MySQL ends a transaction on a cycle of waits.  Retried: the call starts over.
DeadlockRetried(c) ==
  /\ InWaitCycle(c)
  /\ EndTransaction(c)
  /\ Goto(c, "begun")
  /\ UNCHANGED <<rows, nextId, gameId, lists>>
DeadlockVictim(c) ==
  /\ InWaitCycle(c)
  /\ EndTransaction(c)
  /\ Goto(c, "caught")
  /\ UNCHANGED <<rows, nextId, gameId, lists>>

RollbackForgotten(c) ==
  /\ pc[c] \in {"caught", "throwing"}
  /\ Goto(c, IF pc[c] = "caught" THEN "returned" ELSE "thrown")
  /\ UNCHANGED <<rows, nextId, gameId, lists, wiped, filled, newGameId>>
\* ~Transaction, at the end of the function or while it unwinds.
Rollback(c) ==
  /\ pc[c] \in {"caught", "throwing"}
  /\ EndTransaction(c)
  /\ Goto(c, IF pc[c] = "caught" THEN "returned" ELSE "thrown")
  /\ UNCHANGED <<rows, nextId, gameId, lists>>

\* The calling process dies; the end of the connection ends the transaction.
Die(c) ==
  /\ pc[c] \in Working
  /\ EndTransaction(c)
  /\ Goto(c, "died")
  /\ UNCHANGED <<rows, nextId, gameId, lists>>

Step(c) ==
  \/ Wipe(c) \/ ReadMap(c) \/ FillGame(c) \/ Fill(c) \/ FillEmpty(c)
  \/ IdsExhausted(c) \/ Commit(c) \/ DeadlockVictim(c) \/ Rollback(c)
  \/ SlotsWithoutUsers(c) /\ Reject(c)

CreateGame(c) ==
  Call(c) \/ Step(c) \/ OpenFails(c) \/ StatementFails(c) \/ Reject(c) \/ Die(c)

AllEnded == (\A c \in Calls : pc[c] \in Ended) /\ UNCHANGED vars

Next == (\E c \in Calls : CreateGame(c)) \/ AllEnded

Spec == Init /\ [][Next]_vars

\* Calls run and MySQL serves who waits; nobody has to call, nothing has to fail.
Fairness == \A c \in Calls : WF_vars(Step(c))
LiveSpec == Spec /\ Fairness
-----------------------------------------------------------------------------
\* Each variable has its type, and a transaction that has ended holds nothing.
TypeOK ==
  /\ rows \in [Tables -> SUBSET [game : GameIds \cup 1..MaxId, by : Calls \cup {Old}]]
  /\ nextId \in 1..(MaxId + 1)
  /\ pc \in [Calls -> {"idle"} \cup Working \cup Ended]
  /\ gameId \in [Calls -> GameIds \cup {NoId}]
  /\ lists \in [Calls -> Inputs \cup {{}}]
  /\ wiped \in [Calls -> 0..Len(WipeOrder)]
  /\ filled \in [Calls -> 0..Len(FillOrder)]
  /\ newGameId \in [Calls -> GameIds \cup 0..MaxId]
  /\ \A c \in Calls : pc[c] \in Ended => wiped[c] = 0 /\ filled[c] = 0

\* A game that is in STATE is there in all its tables, once, and from one call:
\* createGame replaces it as a whole, whatever lists its input lacks and
\* whichever calls for the same game overlap.
GamesWhole ==
  \A t \in Tables :
    /\ rows[t] = rows["GAME"]
    /\ \A x, y \in rows[t] : x.game = y.game => x = y

\* Games do not disappear: a createGame that fails, however late, leaves the
\* game it was to replace.
GamesStay == [][GamesIn("GAME") \subseteq GamesIn("GAME")']_vars

\* Calls end although they lock whole tables in one order and fill them in
\* another: MySQL ends one of those that wait for each other, and once is enough.
EveryCallEnds == \A c \in Calls : pc[c] = "begun" ~> pc[c] \in Ended
-----------------------------------------------------------------------------
(***************************************************************************)
(* The inductive invariant behind GamesWhole.                              *)
(***************************************************************************)

\* Who inserts has wiped first, with an id all, and has a row for every table.
CallsInv ==
  \A c \in Calls :
    /\ pc[c] \in {"idle"} \cup Ended => wiped[c] = 0 /\ filled[c] = 0
    /\ pc[c] = "begun" => filled[c] = 0
    /\ pc[c] # "idle" => lists[c] \in Inputs
    /\ wiped[c] # 0 => gameId[c] # NoId
    /\ pc[c] = "filling" /\ gameId[c] # NoId => wiped[c] = Len(WipeOrder)
    /\ filled[c] # 0 /\ gameId[c] # NoId => wiped[c] # 0
    /\ \A i \in 1..filled[c] : FillOrder[i] \in lists[c] \cup {"PLAYER"}
    /\ filled[c] > 2 => "PLAYER" \in lists[c]

\* An id that a call inserts is its argument or new.
NewIdsInv ==
  /\ \A g \in GamesIn("GAME") : g < nextId
  /\ \A c \in Calls :
       filled[c] # 0 =>
         /\ newGameId[c] # NoId /\ newGameId[c] < nextId
         /\ gameId[c] # NoId => newGameId[c] = gameId[c]
         /\ gameId[c] = NoId => newGameId[c] \notin GamesIn("GAME")

\* What the locks on GAME keep apart: two calls with the same new row, one that
\* has wiped what the other inserts, and two that have wiped the same game.
GameLocksInv ==
  \A c, d \in Calls : c # d =>
    /\ filled[c] # 0 /\ filled[d] # 0 => newGameId[c] # newGameId[d]
    /\ wiped[c] # 0 /\ filled[d] # 0 => newGameId[d] # gameId[c]
    /\ wiped[c] # 0 /\ wiped[d] # 0 /\ gameId[c] = gameId[d] =>
         gameId[c] \notin GamesIn("GAME")

IInv == TypeOK /\ CallsInv /\ NewIdsInv /\ GameLocksInv /\ GamesWhole
=============================================================================
