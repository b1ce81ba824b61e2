----------------------------- MODULE GameProofs -----------------------------
(***************************************************************************)
(* Proofs about GameStore and GameReads for any calls, readers, ids,       *)
(* inputs and bound.  A game is in STATE as a whole and from one call, and *)
(* no call makes one disappear.  Of the locks only those on GAME are       *)
(* needed: what they keep apart is GameLocksInv, and the other tables are  *)
(* wiped and filled after it.                                              *)
(*                                                                         *)
(* A game that is there is served whole however often it is replaced       *)
(* meanwhile, and one that is left alone is served from one createGame.    *)
(* The readers take no snapshot together; it is enough that commits are    *)
(* whole, that games stay, and that a reader of an undisturbed game has    *)
(* seen what is there.                                                     *)
(***************************************************************************)
EXTENDS GameReads, TLAPS

\* The two orders in which a call goes through the tables.
LEMMA Orders ==
  /\ Len(WipeOrder) = 7 /\ Len(FillOrder) = 7
  /\ Tables = {"GAME", "PLAYER", "GAME_PLAYERORDER_REFERENCE", "UNIT",
               "TERRAIN", "SETTINGS", "SETTINGS_VARIANT_REFERENCE"}
  /\ {WipeOrder[i] : i \in 1..7} = Tables
  /\ {FillOrder[i] : i \in 1..7} = Tables
  /\ WipeOrder[1] = "GAME" /\ FillOrder[1] = "GAME"
  /\ FillOrder[2] = "PLAYER" /\ FillOrder[3] = "GAME_PLAYERORDER_REFERENCE"
  /\ \A i \in 1..7 : FillOrder[i] = "GAME" => i = 1
  /\ \A i \in 1..7 : FillOrder[i] = "PLAYER" => i = 2
<1> DEFINE T == {"GAME", "PLAYER", "GAME_PLAYERORDER_REFERENCE", "UNIT",
                 "TERRAIN", "SETTINGS", "SETTINGS_VARIANT_REFERENCE"}
<1>1. Len(WipeOrder) = 7 /\ Len(FillOrder) = 7 /\ DOMAIN FillOrder = 1..7
  BY DEF WipeOrder, FillOrder
<1>2. /\ FillOrder[1] = "GAME" /\ FillOrder[2] = "PLAYER"
      /\ FillOrder[3] = "GAME_PLAYERORDER_REFERENCE" /\ FillOrder[4] = "UNIT"
      /\ FillOrder[5] = "TERRAIN" /\ FillOrder[6] = "SETTINGS"
      /\ FillOrder[7] = "SETTINGS_VARIANT_REFERENCE"
  BY DEF FillOrder
<1>3. /\ WipeOrder[1] = "GAME" /\ WipeOrder[2] = "GAME_PLAYERORDER_REFERENCE"
      /\ WipeOrder[3] = "PLAYER" /\ WipeOrder[4] = "SETTINGS"
      /\ WipeOrder[5] = "SETTINGS_VARIANT_REFERENCE" /\ WipeOrder[6] = "TERRAIN"
      /\ WipeOrder[7] = "UNIT"
  BY DEF WipeOrder
<1>4. \A i \in 1..7 : i = 1 \/ i = 2 \/ i = 3 \/ i = 4 \/ i = 5 \/ i = 6 \/ i = 7
  OBVIOUS
<1>5. {FillOrder[i] : i \in 1..7} = T
  BY <1>2, <1>4
<1>6. {WipeOrder[i] : i \in 1..7} = T
  BY <1>3, <1>4
<1>7. Tables = T
  BY <1>1, <1>5 DEF Tables
<1>8. QED
  BY <1>1, <1>2, <1>3, <1>4, <1>5, <1>6, <1>7

\* The games of one row each.
LEMMA IdsOfRows ==
  ASSUME NEW S, rows["GAME"] = {[game |-> g, by |-> Old] : g \in S}
  PROVE  GamesIn("GAME") = S
<1>1. \A g \in S : [game |-> g, by |-> Old] \in rows["GAME"]
  OBVIOUS
<1>2. S \subseteq GamesIn("GAME")
  <2>1. ASSUME NEW g \in S PROVE g \in GamesIn("GAME")
    <3> DEFINE x == [game |-> g, by |-> Old]
    <3>1. x \in rows["GAME"] /\ x.game = g
      BY <1>1
    <3> HIDE DEF x
    <3>2. QED
      BY <3>1 DEF GamesIn
  <2>2. QED
    BY <2>1
<1>3. \A x \in rows["GAME"] : x.game \in S
  OBVIOUS
<1>4. GamesIn("GAME") \subseteq S
  BY <1>3 DEF GamesIn
<1>5. QED
  BY <1>2, <1>4

LEMMA InitIInv == Init => IInv
<1> SUFFICES ASSUME Init PROVE IInv
  OBVIOUS
<1> USE InputsAssumption, Orders DEF Init, NoId
<1>1. PICK there \in SUBSET GameIds :
        /\ rows = [t \in Tables |-> {[game |-> g, by |-> Old] : g \in there}]
        /\ nextId \in 1..MaxId
        /\ \A g \in there : g < nextId
  OBVIOUS
<1>2. "GAME" \in Tables
  OBVIOUS
<1>3. GamesIn("GAME") = there
  <2>1. rows["GAME"] = {[game |-> g, by |-> Old] : g \in there}
    BY <1>1, <1>2
  <2>2. QED
    BY <2>1, IdsOfRows
<1>4. rows \in [Tables -> SUBSET [game : GameIds \cup 1..MaxId, by : Calls \cup {Old}]]
  BY <1>1
<1>5. TypeOK
  BY <1>1, <1>4 DEF TypeOK, Working, Ended
<1>6. CallsInv /\ GameLocksInv
  BY DEF CallsInv, GameLocksInv, Ended
<1>7. NewIdsInv
  BY <1>1, <1>3 DEF NewIdsInv
<1>8. GamesWhole
  BY <1>1, <1>2 DEF GamesWhole
<1>9. QED
  BY <1>5, <1>6, <1>7, <1>8 DEF IInv

(***************************************************************************)
(* What a step of a call is                                                *)
(***************************************************************************)

\* A call that only goes on to a statement or an error.
Moves(c) ==
  /\ \/ pc[c] = "begun" /\ ~WipesNext(c) /\ Goto(c, "filling")
     \/ /\ pc[c] \in {"begun", "filling"}
        /\ Goto(c, "caught") \/ Goto(c, "throwing")
  /\ UNCHANGED <<rows, nextId, gameId, lists, wiped, filled, newGameId>>

\* A transaction that leaves nothing.
EndsEmpty(c) ==
  /\ pc[c] # "idle"
  /\ EndTransaction(c)
  /\ \E label \in {"caught"} \cup Ended : Goto(c, label)
  /\ UNCHANGED <<rows, nextId, gameId, lists>>

LEMMA Steps ==
  ASSUME [Next]_vars
  PROVE  \/ UNCHANGED vars
         \/ \E c \in Calls : \/ Call(c) \/ Wipe(c) \/ FillGame(c) \/ Fill(c) \/ Commit(c)
                             \/ Moves(c) \/ EndsEmpty(c)
<1>1. ASSUME NEW c \in Calls,
             \/ ReadMap(c) \/ FillEmpty(c) \/ IdsExhausted(c)
             \/ OpenFails(c) \/ StatementFails(c) \/ Reject(c)
      PROVE  Moves(c)
  BY <1>1 DEF ReadMap, FillEmpty, IdsExhausted, OpenFails, StatementFails, Reject, MayReject,
     Moves, FillsNext
<1>2. ASSUME NEW c \in Calls, DeadlockVictim(c) \/ Rollback(c) \/ Die(c)
      PROVE  EndsEmpty(c)
  <2>1. CASE DeadlockVictim(c)
    <3>1. WipesNext(c) \/ FillsNext(c)
      <4>1. Waits(c)
        BY <2>1 DEF DeadlockVictim, InWaitCycle
      <4>2. QED
        BY <4>1 DEF Waits, WaitsFor
    <3>2. pc[c] # "idle"
      BY <3>1 DEF WipesNext, FillsNext
    <3>3. QED
      BY <2>1, <3>2 DEF DeadlockVictim, EndsEmpty
  <2>2. CASE Rollback(c)
    BY <2>2 DEF Rollback, EndsEmpty, Ended
  <2>3. CASE Die(c)
    BY <2>3 DEF Die, Working, EndsEmpty, Ended
  <2>4. QED
    BY <1>2, <2>1, <2>2, <2>3
<1>3. QED
  BY <1>1, <1>2 DEF Next, CreateGame, Step, AllEnded

\* What a call has wiped and inserted in GAME.
LEMMA GameTouched ==
  ASSUME TypeOK, CallsInv, NEW c \in Calls
  PROVE  /\ filled[c] # 0 => "GAME" \in Inserted(c)
         /\ wiped[c] # 0 => "GAME" \in Wiped(c)
<1>1. filled[c] \in 0..7 /\ wiped[c] \in 0..7
  BY Orders DEF TypeOK
<1>2. filled[c] # 0 => lists[c] \in Inputs
  <2>1. pc[c] \in {"idle"} \cup Ended => filled[c] = 0
    BY DEF CallsInv
  <2>2. pc[c] # "idle" => lists[c] \in Inputs
    BY DEF CallsInv
  <2>3. QED
    BY <2>1, <2>2
<1>3. filled[c] # 0 => "GAME" \in lists[c]
  BY <1>2, InputsAssumption
<1>4. filled[c] # 0 => 1 \in 1..filled[c]
  BY <1>1
<1>5. wiped[c] # 0 => 1 \in 1..wiped[c]
  BY <1>1
<1>6. QED
  BY <1>3, <1>4, <1>5, Orders DEF Inserted, Wiped

\* The INSERT into GAME is the first.
LEMMA FirstFill ==
  ASSUME TypeOK, NEW c \in Calls, FillGame(c)
  PROVE  filled[c] = 0
<1>1. filled[c] \in 0..6
  BY Orders DEF TypeOK, FillGame, FillsNext
<1>2. filled[c] + 1 \in 1..7 /\ FillOrder[filled[c] + 1] = "GAME"
  BY <1>1 DEF FillGame, NextFill
<1>3. filled[c] + 1 = 1
  BY <1>2, Orders
<1>4. QED
  BY <1>1, <1>3

LEMMA LaterFill ==
  ASSUME TypeOK, NEW c \in Calls, Fill(c)
  PROVE  filled[c] \in 1..6
<1>1. filled[c] \in 0..6 /\ NextFill(c) # "GAME"
  BY Orders DEF TypeOK, Fill, FillsNext
<1>2. QED
  BY <1>1, Orders DEF NextFill

(***************************************************************************)
(* The parts of the inductive invariant                                    *)
(***************************************************************************)

LEMMA StepTypeOK == IInv /\ [Next]_vars => TypeOK'
<1> SUFFICES ASSUME IInv, [Next]_vars PROVE TypeOK'
  OBVIOUS
<1> USE InputsAssumption DEF Goto, NoId, Ended, Working
<1>1. TypeOK /\ CallsInv /\ NewIdsInv
  BY DEF IInv
<1>2. CASE UNCHANGED vars
  BY <1>1, <1>2 DEF TypeOK, vars
<1>3. ASSUME NEW c \in Calls, Call(c) PROVE TypeOK'
  BY <1>1, <1>3 DEF TypeOK, Call
<1>4. ASSUME NEW c \in Calls, Wipe(c) PROVE TypeOK'
  <2>1. wiped' \in [Calls -> 0..Len(WipeOrder)]
    BY <1>1, <1>4, Orders DEF TypeOK, Wipe, WipesNext
  <2>2. QED
    BY <1>1, <1>4, <2>1 DEF TypeOK, Wipe, WipesNext
<1>5. ASSUME NEW c \in Calls, FillGame(c) PROVE TypeOK'
  <2>1. filled' \in [Calls -> 0..Len(FillOrder)]
    BY <1>1, <1>5, Orders DEF TypeOK, FillGame, FillsNext
  <2>2. IdToInsert(c) \in GameIds \cup 1..(MaxId + 1) /\ nextId \in 1..(MaxId + 1)
    BY <1>1 DEF TypeOK, IdToInsert
  <2>3. IdToInsert(c) \in Int /\ IdToInsert(c) <= MaxId
    <3>1. \A i \in GameIds \cup 1..(MaxId + 1) : i \in Int
      OBVIOUS
    <3>2. QED
      BY <1>5, <2>2, <3>1 DEF FillGame
  <2>4. newGameId' \in [Calls -> GameIds \cup 0..MaxId]
    BY <1>1, <1>5, <2>2, <2>3 DEF TypeOK, FillGame
  <2>5. nextId' \in 1..(MaxId + 1)
    BY <1>5, <2>2, <2>3 DEF FillGame
  <2>6. QED
    BY <1>1, <1>5, <2>1, <2>4, <2>5 DEF TypeOK, FillGame, FillsNext
<1>6. ASSUME NEW c \in Calls, Fill(c) PROVE TypeOK'
  <2>1. filled' \in [Calls -> 0..Len(FillOrder)]
    BY <1>1, <1>6, Orders DEF TypeOK, Fill, FillsNext
  <2>2. QED
    BY <1>1, <1>6, <2>1 DEF TypeOK, Fill, FillsNext
<1>7. ASSUME NEW c \in Calls, Commit(c) PROVE TypeOK'
  <2>1. newGameId[c] \in GameIds \cup 1..MaxId
    <3>1. filled[c] # 0
      BY <1>7, Orders DEF Commit
    <3>2. newGameId[c] # NoId
      BY <1>1, <3>1 DEF NewIdsInv
    <3>3. QED
      BY <1>1, <3>2 DEF TypeOK
  <2>2. [game |-> newGameId[c], by |-> c] \in [game : GameIds \cup 1..MaxId, by : Calls \cup {Old}]
    BY <2>1
  <2>3. rows' \in [Tables -> SUBSET [game : GameIds \cup 1..MaxId, by : Calls \cup {Old}]]
    BY <1>1, <1>7, <2>2 DEF TypeOK, Commit
  <2>4. QED
    BY <1>1, <1>7, <2>3 DEF TypeOK, Commit, EndTransaction
<1>8. ASSUME NEW c \in Calls, Moves(c) PROVE TypeOK'
  BY <1>1, <1>8 DEF TypeOK, Moves
<1>9. ASSUME NEW c \in Calls, EndsEmpty(c) PROVE TypeOK'
  BY <1>1, <1>9 DEF TypeOK, EndsEmpty, EndTransaction
<1>10. QED
  BY <1>2, <1>3, <1>4, <1>5, <1>6, <1>7, <1>8, <1>9, Steps

\* How far a call is with its wiping and filling.
LEMMA StepCalls == IInv /\ [Next]_vars => CallsInv'
<1> SUFFICES ASSUME IInv, [Next]_vars PROVE CallsInv'
  OBVIOUS
<1> USE DEF Goto, NoId, Ended
<1>1. TypeOK /\ CallsInv
  BY DEF IInv
<1>2. CASE UNCHANGED vars
  BY <1>1, <1>2 DEF CallsInv, vars
<1>3. ASSUME NEW c \in Calls, Call(c) PROVE CallsInv'
  BY <1>1, <1>3 DEF TypeOK, CallsInv, Call
<1>4. ASSUME NEW c \in Calls, Wipe(c) PROVE CallsInv'
  BY <1>1, <1>4, Orders DEF TypeOK, CallsInv, Wipe, WipesNext
<1>5. ASSUME NEW c \in Calls, FillGame(c) \/ Fill(c) PROVE CallsInv'
  <2>1. /\ pc[c] = "filling" /\ filled[c] \in 0..6 /\ filled' = [filled EXCEPT ![c] = @ + 1]
        /\ UNCHANGED <<pc, gameId, lists, wiped>>
    BY <1>1, <1>5, Orders DEF TypeOK, FillGame, Fill, FillsNext
  <2>2. FillOrder[filled[c] + 1] \in lists[c] \cup {"PLAYER"}
    <3>1. CASE FillGame(c)
      BY <1>1, <2>1, <3>1, InputsAssumption DEF CallsInv, FillGame, NextFill
    <3>2. CASE Fill(c)
      BY <3>2 DEF Fill, NextFill, Skips
    <3>3. QED
      BY <1>5, <3>1, <3>2
  <2>3. filled[c] = 2 => "PLAYER" \in lists[c]
    <3>1. SUFFICES ASSUME filled[c] = 2 PROVE "PLAYER" \in lists[c]
      OBVIOUS
    <3>2. NextFill(c) = "GAME_PLAYERORDER_REFERENCE"
      BY <3>1, Orders DEF NextFill
    <3>3. Fill(c)
      BY <1>5, <3>2 DEF FillGame
    <3>4. QED
      BY <3>2, <3>3 DEF Fill, Skips, SlotsWithoutUsers
  <2>4. \A d \in Calls : d # c => filled'[d] = filled[d]
    BY <1>1, <2>1 DEF TypeOK
  <2>5. filled'[c] = filled[c] + 1
    BY <1>1, <2>1 DEF TypeOK
  <2>6. \A i \in 1..filled'[c] : FillOrder[i] \in lists[c] \cup {"PLAYER"}
    <3>1. \A i \in 1..filled'[c] : i \in 1..filled[c] \/ i = filled[c] + 1
      BY <2>1, <2>5
    <3>2. QED
      BY <1>1, <2>2, <3>1 DEF CallsInv
  <2>7. filled'[c] > 2 => "PLAYER" \in lists[c]
    <3>1. filled'[c] > 2 => filled[c] > 2 \/ filled[c] = 2
      BY <2>1, <2>5
    <3>2. QED
      BY <1>1, <2>3, <3>1 DEF CallsInv
  <2>8. gameId[c] # NoId => wiped[c] # 0
    BY <1>1, <2>1, Orders DEF CallsInv
  <2>9. QED
    BY <1>1, <2>1, <2>4, <2>6, <2>7, <2>8 DEF CallsInv
<1>6. ASSUME NEW c \in Calls, Commit(c) PROVE CallsInv'
  BY <1>1, <1>6 DEF TypeOK, CallsInv, Commit, EndTransaction
<1>7. ASSUME NEW c \in Calls, Moves(c) PROVE CallsInv'
  <2>1. pc[c] = "begun" /\ ~WipesNext(c) /\ gameId[c] # NoId => wiped[c] = Len(WipeOrder)
    BY <1>1, Orders DEF TypeOK, WipesNext
  <2>2. QED
    BY <1>1, <1>7, <2>1 DEF TypeOK, CallsInv, Moves
<1>8. ASSUME NEW c \in Calls, EndsEmpty(c) PROVE CallsInv'
  BY <1>1, <1>8 DEF TypeOK, CallsInv, EndsEmpty, EndTransaction
<1>9. QED
  BY <1>2, <1>3, <1>4, <1>5, <1>6, <1>7, <1>8, Steps

(***************************************************************************)
(* What a commit stores                                                    *)
(***************************************************************************)

\* A call that commits has wiped all tables or none, and has filled all.
LEMMA Committing ==
  ASSUME IInv, NEW c \in Calls, Commit(c)
  PROVE  /\ filled[c] # 0 /\ Inserted(c) = Tables
         /\ gameId[c] # NoId => Wiped(c) = Tables /\ newGameId[c] = gameId[c]
         /\ gameId[c] = NoId => Wiped(c) = {} /\ newGameId[c] \notin GamesIn("GAME")
         /\ newGameId[c] < nextId
<1>1. TypeOK /\ CallsInv /\ NewIdsInv
  BY DEF IInv
<1>2. pc[c] = "filling" /\ filled[c] = 7
  BY Orders DEF Commit
<1>3. filled[c] # 0 /\ newGameId[c] < nextId
  BY <1>1, <1>2 DEF NewIdsInv
<1>4. Inserted(c) = Tables
  <2>1. lists[c] \in Inputs
    BY <1>1, <1>2 DEF CallsInv
  <2>2. lists[c] \subseteq Tables
    BY <2>1, InputsAssumption
  <2>3. "PLAYER" \in lists[c]
    BY <1>1, <1>2 DEF CallsInv
  <2>4. \A i \in 1..7 : FillOrder[i] \in lists[c] \cup {"PLAYER"}
    BY <1>1, <1>2 DEF CallsInv
  <2>5. {FillOrder[i] : i \in 1..7} = Tables
    BY Orders
  <2>6. Inserted(c) = Tables \cap lists[c]
    BY <1>2, <2>5 DEF Inserted
  <2>7. \A t \in Tables : t \in lists[c]
    BY <2>3, <2>4, <2>5
  <2>8. QED
    BY <2>2, <2>6, <2>7
<1>5. CASE gameId[c] # NoId
  <2>1. wiped[c] = 7
    BY <1>1, <1>2, <1>5, Orders DEF CallsInv
  <2>2. Wiped(c) = Tables
    BY <2>1, Orders DEF Wiped
  <2>3. newGameId[c] = gameId[c]
    BY <1>1, <1>3, <1>5 DEF NewIdsInv
  <2>4. QED
    BY <1>3, <1>4, <1>5, <2>2, <2>3
<1>6. CASE gameId[c] = NoId
  <2>1. wiped[c] = 0
    BY <1>1, <1>6 DEF CallsInv
  <2>2. 1..wiped[c] = {}
    BY <2>1
  <2>3. Wiped(c) = {}
    BY <2>2 DEF Wiped
  <2>4. newGameId[c] \notin GamesIn("GAME")
    BY <1>1, <1>3, <1>6 DEF NewIdsInv
  <2>5. QED
    BY <1>3, <1>4, <1>6, <2>3, <2>4
<1>7. QED
  BY <1>5, <1>6

\* Either way the new game takes the place of the one of its id.
LEMMA CommitReplaces ==
  ASSUME IInv, NEW c \in Calls, Commit(c), NEW t \in Tables
  PROVE  rows'[t] = {x \in rows["GAME"] : x.game # newGameId[c]}
                    \cup {[game |-> newGameId[c], by |-> c]}
<1> DEFINE new == [game |-> newGameId[c], by |-> c]
<1>1. rows[t] = rows["GAME"]
  BY DEF IInv, GamesWhole
<1>2. rows'[t] = (rows[t] \ (IF t \in Wiped(c) THEN RowsOf(t, gameId[c]) ELSE {}))
                 \cup {new : x \in {t} \cap Inserted(c)}
  BY DEF Commit
<1> HIDE DEF new
<1>3. {new : x \in {t} \cap Inserted(c)} = {new}
  BY Committing
<1>4. CASE gameId[c] # NoId
  <2>1. t \in Wiped(c) /\ newGameId[c] = gameId[c]
    BY <1>4, Committing
  <2>2. rows'[t] = (rows[t] \ RowsOf(t, newGameId[c])) \cup {new}
    BY <1>2, <1>3, <2>1
  <2>3. rows[t] \ RowsOf(t, newGameId[c]) = {x \in rows["GAME"] : x.game # newGameId[c]}
    BY <1>1 DEF RowsOf
  <2>4. QED
    BY <2>2, <2>3 DEF new
<1>5. CASE gameId[c] = NoId
  <2>1. t \notin Wiped(c) /\ newGameId[c] \notin GamesIn("GAME")
    BY <1>5, Committing
  <2>2. rows'[t] = rows[t] \cup {new}
    BY <1>2, <1>3, <2>1
  <2>3. \A x \in rows["GAME"] : x.game # newGameId[c]
    BY <2>1 DEF GamesIn
  <2>4. {x \in rows["GAME"] : x.game # newGameId[c]} = rows["GAME"]
    BY <2>3
  <2>5. QED
    BY <1>1, <2>2, <2>4 DEF new
<1>6. QED
  BY <1>4, <1>5

LEMMA CommitAddsGame ==
  ASSUME IInv, NEW c \in Calls, Commit(c)
  PROVE  GamesIn("GAME")' = GamesIn("GAME") \cup {newGameId[c]}
<1> DEFINE new == [game |-> newGameId[c], by |-> c]
<1>1. new.game = newGameId[c]
  OBVIOUS
<1>2. "GAME" \in Tables
  BY Orders
<1>3. rows'["GAME"] = {x \in rows["GAME"] : x.game # newGameId[c]} \cup {new}
  BY <1>2, CommitReplaces
<1> HIDE DEF new
<1>4. QED
  BY <1>1, <1>3 DEF GamesIn

LEMMA IdsAreInts ==
  ASSUME TypeOK
  PROVE  /\ GamesIn("GAME") \subseteq Int
         /\ nextId \in Int /\ nextId > 0
         /\ \A c \in Calls : newGameId[c] \in Int /\ IdToInsert(c) \in Int
<1>1. "GAME" \in Tables /\ MaxId \in Nat /\ GameIds \subseteq Int
  BY Orders, InputsAssumption
<1>2. \A i \in GameIds \cup 0..MaxId : i \in Int
  BY <1>1
<1>3. \A i \in GameIds \cup 1..MaxId : i \in Int
  BY <1>1
<1>4. \A x \in rows["GAME"] : x.game \in GameIds \cup 1..MaxId
  <2>1. rows["GAME"] \subseteq [game : GameIds \cup 1..MaxId, by : Calls \cup {Old}]
    BY <1>1 DEF TypeOK
  <2>2. QED
    BY <2>1
<1>5. GamesIn("GAME") \subseteq Int
  BY <1>3, <1>4 DEF GamesIn
<1>6. \A c \in Calls : newGameId[c] \in GameIds \cup 0..MaxId
  BY DEF TypeOK
<1>7. nextId \in 1..(MaxId + 1)
  BY DEF TypeOK
<1>8. nextId \in Int /\ nextId > 0
  BY <1>1, <1>7
<1>9. ASSUME NEW c \in Calls PROVE IdToInsert(c) \in Int
  <2>1. gameId[c] \in GameIds \/ gameId[c] = NoId
    BY DEF TypeOK
  <2>2. gameId[c] # NoId => gameId[c] \in Int
    BY <1>1, <2>1
  <2>3. QED
    BY <1>8, <2>2 DEF IdToInsert
<1>10. QED
  BY <1>2, <1>5, <1>6, <1>8, <1>9

LEMMA StepNewIds == IInv /\ [Next]_vars => NewIdsInv'
<1> SUFFICES ASSUME IInv, [Next]_vars PROVE NewIdsInv'
  OBVIOUS
<1> USE DEF Goto, NoId
<1>1. TypeOK /\ CallsInv /\ NewIdsInv /\ GameLocksInv
  BY DEF IInv
<1>2. UNCHANGED rows => GamesIn("GAME")' = GamesIn("GAME")
  BY DEF GamesIn
<1>3. CASE UNCHANGED vars
  BY <1>1, <1>2, <1>3 DEF NewIdsInv, vars
<1>4. ASSUME NEW c \in Calls, Call(c) PROVE NewIdsInv'
  BY <1>1, <1>2, <1>4 DEF TypeOK, CallsInv, NewIdsInv, Call
<1>5. ASSUME NEW c \in Calls, Wipe(c) \/ Moves(c) PROVE NewIdsInv'
  BY <1>1, <1>2, <1>5 DEF NewIdsInv, Wipe, Moves
<1>6. ASSUME NEW c \in Calls, Fill(c) PROVE NewIdsInv'
  <2>1. filled[c] # 0
    BY <1>1, <1>6, LaterFill
  <2>2. \A d \in Calls : filled'[d] # 0 => filled[d] # 0
    BY <1>1, <1>6, <2>1 DEF TypeOK, Fill
  <2>3. QED
    BY <1>1, <1>2, <1>6, <2>2 DEF NewIdsInv, Fill
<1>7. ASSUME NEW c \in Calls, EndsEmpty(c) PROVE NewIdsInv'
  BY <1>1, <1>2, <1>7 DEF TypeOK, NewIdsInv, EndsEmpty, EndTransaction
<1>8. ASSUME NEW c \in Calls, FillGame(c) PROVE NewIdsInv'
  <2> DEFINE id == IdToInsert(c)
  <2>1. id \in Int /\ nextId \in Int /\ nextId > 0
    BY <1>1, IdsAreInts
  <2>2. id # NoId
    BY <2>1 DEF IdToInsert
  <2>3. /\ newGameId' = [newGameId EXCEPT ![c] = id]
        /\ nextId' = (IF id < nextId THEN nextId ELSE id + 1)
        /\ UNCHANGED <<rows, gameId>>
    BY <1>8 DEF FillGame
  <2>4. id < nextId' /\ nextId <= nextId'
    BY <2>1, <2>3
  <2>5. newGameId'[c] = id /\ \A d \in Calls : d # c => newGameId'[d] = newGameId[d]
    BY <1>1, <2>3 DEF TypeOK
  <2>6. \A d \in Calls : d # c => filled'[d] = filled[d]
    BY <1>1, <1>8 DEF TypeOK, FillGame
  <2>7. /\ gameId[c] # NoId => id = gameId[c]
        /\ gameId[c] = NoId => id = nextId
    BY DEF IdToInsert
  <2>8. GamesIn("GAME") \subseteq Int
    BY <1>1, IdsAreInts
  <2> HIDE DEF id
  <2>9. \A g \in GamesIn("GAME") : g < nextId'
    BY <1>1, <2>1, <2>3, <2>4, <2>8 DEF NewIdsInv
  <2>10. gameId[c] = NoId => id \notin GamesIn("GAME")
    BY <1>1, <2>1, <2>7, <2>8 DEF NewIdsInv
  <2>11. ASSUME NEW d \in Calls, d # c, filled[d] # 0
         PROVE  newGameId[d] < nextId'
    <3>1. newGameId[d] \in Int
      BY <1>1, IdsAreInts
    <3>2. nextId' \in Int
      BY <2>1, <2>3
    <3>3. QED
      BY <1>1, <2>1, <2>4, <2>11, <3>1, <3>2 DEF NewIdsInv
  <2>12. QED
    BY <1>1, <1>2, <2>2, <2>3, <2>4, <2>5, <2>6, <2>7, <2>9, <2>10, <2>11 DEF NewIdsInv
<1>9. ASSUME NEW c \in Calls, Commit(c) PROVE NewIdsInv'
  <2>1. GamesIn("GAME")' = GamesIn("GAME") \cup {newGameId[c]}
    BY <1>9, CommitAddsGame
  <2>2. UNCHANGED <<nextId, gameId>> /\ filled' = [filled EXCEPT ![c] = 0]
        /\ newGameId' = [newGameId EXCEPT ![c] = NoId]
    BY <1>9 DEF Commit, EndTransaction
  <2>3. filled[c] # 0 /\ newGameId[c] < nextId
    BY <1>9, Committing
  <2>4. \A g \in GamesIn("GAME")' : g < nextId'
    BY <1>1, <2>1, <2>2, <2>3 DEF NewIdsInv
  <2>5. filled'[c] = 0 /\ \A d \in Calls : d # c => /\ filled'[d] = filled[d]
                                                   /\ newGameId'[d] = newGameId[d]
    BY <1>1, <2>2 DEF TypeOK
  <2>6. \A d \in Calls : d # c /\ filled[d] # 0 => newGameId[d] # newGameId[c]
    BY <1>1, <2>3 DEF GameLocksInv
  <2>7. QED
    BY <1>1, <2>1, <2>2, <2>4, <2>5, <2>6 DEF NewIdsInv
<1>10. QED
  BY <1>3, <1>4, <1>5, <1>6, <1>7, <1>8, <1>9, Steps

\* The locks on the rows of GAME and on the gaps between them.
LEMMA StepLocks == IInv /\ [Next]_vars => GameLocksInv'
<1> SUFFICES ASSUME IInv, [Next]_vars PROVE GameLocksInv'
  OBVIOUS
<1> USE DEF Goto, NoId
<1>1. TypeOK /\ CallsInv /\ NewIdsInv /\ GameLocksInv
  BY DEF IInv
<1>2. UNCHANGED rows => GamesIn("GAME")' = GamesIn("GAME")
  BY DEF GamesIn
<1>3. CASE UNCHANGED vars
  BY <1>1, <1>2, <1>3 DEF GameLocksInv, vars
<1>4. ASSUME NEW c \in Calls, Call(c) PROVE GameLocksInv'
  <2>1. wiped[c] = 0 /\ UNCHANGED <<wiped, filled, newGameId>>
    BY <1>1, <1>4 DEF CallsInv, Call
  <2>2. \A d \in Calls : d # c => gameId'[d] = gameId[d]
    BY <1>1, <1>4 DEF TypeOK, Call
  <2>3. QED
    BY <1>1, <1>2, <1>4, <2>1, <2>2 DEF GameLocksInv, Call
<1>5. ASSUME NEW c \in Calls, Moves(c) PROVE GameLocksInv'
  BY <1>1, <1>2, <1>5 DEF GameLocksInv, Moves
<1>6. ASSUME NEW c \in Calls, Fill(c) PROVE GameLocksInv'
  <2>1. filled[c] # 0
    BY <1>1, <1>6, LaterFill
  <2>2. \A d \in Calls : filled'[d] # 0 => filled[d] # 0
    BY <1>1, <1>6, <2>1 DEF TypeOK, Fill
  <2>3. UNCHANGED <<rows, gameId, wiped, newGameId>>
    BY <1>6 DEF Fill
  <2>4. QED
    BY <1>1, <1>2, <2>2, <2>3 DEF GameLocksInv
<1>7. ASSUME NEW c \in Calls, EndsEmpty(c) PROVE GameLocksInv'
  BY <1>1, <1>2, <1>7 DEF TypeOK, GameLocksInv, EndsEmpty, EndTransaction
\* The first DELETE meets the uncommitted row, and the lock on a stored one.
<1>8. ASSUME NEW c \in Calls, Wipe(c) PROVE GameLocksInv'
  <2>1. UNCHANGED <<rows, gameId, filled, newGameId>> /\ WipesNext(c) /\ ~Waits(c)
    BY <1>8 DEF Wipe
  <2>2. CASE wiped[c] # 0
    <3>1. \A d \in Calls : wiped'[d] # 0 => wiped[d] # 0
      BY <1>1, <1>8, <2>2 DEF TypeOK, Wipe
    <3>2. QED
      BY <1>1, <1>2, <2>1, <3>1 DEF GameLocksInv
  <2>3. CASE wiped[c] = 0
    <3>1. NextWipe(c) = "GAME"
      BY <2>3, Orders DEF NextWipe
    <3>2. \A d \in Calls : d # c => ~StopsWipe(d, c)
      BY <2>1 DEF Waits, WaitsFor
    <3>3. \A d \in Calls : d # c /\ filled[d] # 0 => newGameId[d] # gameId[c]
      BY <1>1, <3>1, <3>2, GameTouched DEF StopsWipe
    <3>4. \A d \in Calls : d # c /\ wiped[d] # 0 /\ gameId[d] = gameId[c] =>
                           gameId[c] \notin GamesIn("GAME")
      BY <1>1, <3>1, <3>2, GameTouched DEF StopsWipe
    <3>5. \A d \in Calls : d # c => wiped'[d] = wiped[d]
      BY <1>1, <1>8 DEF TypeOK, Wipe
    <3>6. QED
      BY <1>1, <1>2, <2>1, <3>3, <3>4, <3>5 DEF GameLocksInv
  <2>4. QED
    BY <2>2, <2>3
\* The INSERT waits for who has locked the gap its id falls into.
<1>9. ASSUME NEW c \in Calls, FillGame(c) PROVE GameLocksInv'
  <2> DEFINE id == IdToInsert(c)
  <2>1. /\ UNCHANGED <<rows, gameId, wiped>> /\ FillsNext(c) /\ ~Waits(c)
        /\ NextFill(c) = "GAME" /\ newGameId' = [newGameId EXCEPT ![c] = id]
        /\ pc[c] = "filling"
    BY <1>9 DEF FillGame, FillsNext
  <2>2. newGameId'[c] = id /\ \A d \in Calls : d # c => newGameId'[d] = newGameId[d]
    BY <1>1, <2>1 DEF TypeOK
  <2>3. \A d \in Calls : d # c => filled'[d] = filled[d]
    BY <1>1, <1>9 DEF TypeOK, FillGame
  <2>4. "GAME" \in lists[c]
    BY <1>1, <2>1, InputsAssumption DEF CallsInv
  <2>5. id \in Int
    BY <1>1, IdsAreInts
  \* Nobody else has wiped the id and inserts nothing there.
  <2>6. ASSUME NEW d \in Calls, d # c, wiped[d] # 0, gameId[d] = id
        PROVE  id \in GamesIn("GAME")
    <3>1. ~StopsFill(d, c)
      BY <2>1, <2>6 DEF Waits, WaitsFor
    <3>2. "GAME" \in Wiped(d)
      BY <1>1, <2>6, GameTouched
    <3>3. SameGap(gameId[d], id)
      <4>1. \A i : ~(id < i /\ i < id) \/ i \notin Int
        BY <2>5
      <4>2. GamesIn("GAME") \subseteq Int
        BY <1>1, IdsAreInts
      <4>3. \A e \in Calls : newGameId[e] \in Int
        BY <1>1, IdsAreInts
      <4>4. QED
        BY <2>6, <4>1, <4>2, <4>3 DEF SameGap
    <3>4. QED
      BY <2>1, <2>4, <2>6, <3>1, <3>2, <3>3 DEF StopsFill
  <2>7. gameId[c] = NoId => id = nextId /\ id \notin GamesIn("GAME")
    <3>1. \A g \in GamesIn("GAME") : g < nextId /\ g \in Int
      BY <1>1, IdsAreInts DEF NewIdsInv
    <3>2. nextId \in Int
      BY <1>1, InputsAssumption DEF TypeOK
    <3>3. QED
      BY <3>1, <3>2 DEF IdToInsert
  <2>8. gameId[c] # NoId => id = gameId[c] /\ wiped[c] # 0
    BY <1>1, <2>1, Orders DEF CallsInv, IdToInsert
  <2> HIDE DEF id
  <2>9. ASSUME NEW d \in Calls, d # c, wiped[d] # 0
        PROVE  id # gameId[d]
    <3>1. CASE gameId[c] = NoId
      BY <2>6, <2>7, <2>9, <3>1
    <3>2. CASE gameId[c] # NoId
      BY <1>1, <2>6, <2>8, <2>9, <3>2 DEF GameLocksInv
    <3>3. QED
      BY <3>1, <3>2
  <2>10. ASSUME NEW d \in Calls, d # c, filled[d] # 0
         PROVE  newGameId[d] # id
    <3>1. CASE gameId[c] = NoId
      <4>1. newGameId[d] < nextId /\ nextId \in Int /\ newGameId[d] \in Int
        BY <1>1, <2>10, InputsAssumption, IdsAreInts DEF NewIdsInv, TypeOK
      <4>2. QED
        BY <2>7, <3>1, <4>1
    <3>2. CASE gameId[c] # NoId
      BY <1>1, <2>8, <2>10, <3>2 DEF GameLocksInv
    <3>3. QED
      BY <3>1, <3>2
  <2>11. QED
    BY <1>1, <1>2, <2>1, <2>2, <2>3, <2>9, <2>10 DEF GameLocksInv
<1>10. ASSUME NEW c \in Calls, Commit(c) PROVE GameLocksInv'
  <2>1. GamesIn("GAME")' = GamesIn("GAME") \cup {newGameId[c]} /\ filled[c] # 0
    BY <1>10, Committing, CommitAddsGame
  <2>2. /\ filled'[c] = 0 /\ wiped'[c] = 0 /\ UNCHANGED gameId
        /\ \A d \in Calls : d # c => /\ filled'[d] = filled[d] /\ wiped'[d] = wiped[d]
                                    /\ newGameId'[d] = newGameId[d]
    BY <1>1, <1>10 DEF TypeOK, Commit, EndTransaction
  <2>3. \A d \in Calls : d # c /\ wiped[d] # 0 => newGameId[c] # gameId[d]
    BY <1>1, <2>1 DEF GameLocksInv
  <2>4. QED
    BY <1>1, <2>1, <2>2, <2>3 DEF GameLocksInv
<1>11. QED
  BY <1>3, <1>4, <1>5, <1>6, <1>7, <1>8, <1>9, <1>10, Steps

LEMMA StepGames == IInv /\ [Next]_vars => GamesWhole'
<1> SUFFICES ASSUME IInv, [Next]_vars PROVE GamesWhole'
  OBVIOUS
<1>1. GamesWhole /\ "GAME" \in Tables
  BY Orders DEF IInv
<1>2. CASE UNCHANGED rows
  BY <1>1, <1>2 DEF GamesWhole
<1>3. ASSUME NEW c \in Calls, Commit(c) PROVE GamesWhole'
  <2> DEFINE new == [game |-> newGameId[c], by |-> c]
             kept == {x \in rows["GAME"] : x.game # newGameId[c]}
  <2>1. \A t \in Tables : rows'[t] = kept \cup {new}
    BY <1>3, CommitReplaces
  <2>2. new.game = newGameId[c]
    OBVIOUS
  <2>3. \A x, y \in kept : x.game = y.game => x = y
    BY <1>1 DEF GamesWhole
  <2>4. \A x \in kept : x.game # newGameId[c]
    OBVIOUS
  <2> HIDE DEF new, kept
  <2>5. \A x, y \in kept \cup {new} : x.game = y.game => x = y
    BY <2>2, <2>3, <2>4
  <2>6. QED
    BY <1>1, <2>1, <2>5 DEF GamesWhole
<1>4. QED
  BY <1>2, <1>3, Steps DEF Call, Wipe, FillGame, Fill, Moves, EndsEmpty, vars

(***************************************************************************)
(* The theorems                                                            *)
(***************************************************************************)

THEOREM Invariance == Spec => []IInv
<1>1. Init => IInv
  BY InitIInv
<1>2. IInv /\ [Next]_vars => IInv'
  BY StepTypeOK, StepCalls, StepNewIds, StepLocks, StepGames DEF IInv
<1>3. QED
  BY <1>1, <1>2, PTL DEF Spec

\* createGame replaces games as a whole, for any calls, also of the same game.
THEOREM Whole == Spec => []GamesWhole
<1>1. IInv => GamesWhole
  BY DEF IInv
<1>2. QED
  BY <1>1, Invariance, PTL

\* A game is there until one of the same id takes its place, in the same step.
THEOREM Stay == Spec => GamesStay
<1>1. IInv /\ [Next]_vars => [GamesIn("GAME") \subseteq GamesIn("GAME")']_vars
  <2> SUFFICES ASSUME IInv, [Next]_vars PROVE GamesIn("GAME") \subseteq GamesIn("GAME")'
    OBVIOUS
  <2>1. CASE UNCHANGED rows
    BY <2>1 DEF GamesIn
  <2>2. ASSUME NEW c \in Calls, Commit(c)
        PROVE  GamesIn("GAME") \subseteq GamesIn("GAME")'
    BY <2>2, CommitAddsGame
  <2>3. QED
    BY <2>1, <2>2, Steps DEF Call, Wipe, FillGame, Fill, Moves, EndsEmpty, vars
<1>2. QED
  BY <1>1, Invariance, PTL DEF Spec, GamesStay

\* Each variable keeps its type, and ended transactions hold nothing.
THEOREM Typed == Spec => []TypeOK
<1>1. IInv => TypeOK
  BY DEF IInv
<1>2. QED
  BY <1>1, Invariance, PTL

-----------------------------------------------------------------------------
(* Reading a game while it is created anew.                                *)

LEMMA InitGameReadsIInv == ReadsInit => GameReadsIInv
<1> SUFFICES ASSUME ReadsInit PROVE GameReadsIInv
  OBVIOUS
<1> USE DEF ReadsInit, Nothing
<1>1. IInv
  BY InitIInv
<1>2. ReadersTypeOK
  BY DEF ReadersTypeOK, NoId
<1>3. ReadingInv
  BY DEF ReadingInv
<1>4. KnownGameServedWhole /\ UndisturbedFitsTogether
  BY DEF KnownGameServedWhole, UndisturbedFitsTogether
<1>5. QED
  BY <1>1, <1>2, <1>3, <1>4 DEF GameReadsIInv

(***************************************************************************)
(* The games under the readers                                             *)
(***************************************************************************)

LEMMA GamesRun == ReadsNext => [Next]_vars
<1>1. ASSUME NEW r \in Readers, Reader(r) PROVE UNCHANGED vars
  BY <1>1 DEF Reader, ReaderStep, Ask, Lock, Read, Finish, ReadFails
<1>2. QED
  BY <1>1 DEF ReadsNext, Beside, Next, AllEnded

LEMMA GamesStayThere ==
  ASSUME IInv, [Next]_vars
  PROVE  GamesIn("GAME") \subseteq GamesIn("GAME")'
<1>1. CASE UNCHANGED rows
  BY <1>1 DEF GamesIn
<1>2. ASSUME NEW c \in Calls, Commit(c)
      PROVE  GamesIn("GAME") \subseteq GamesIn("GAME")'
  BY <1>2, CommitAddsGame
<1>3. QED
  BY <1>1, <1>2, Steps DEF Call, Wipe, FillGame, Fill, Moves, EndsEmpty, vars

\* A SELECT finds the rows of one call for a game that is there, and none else.
LEMMA FoundOf ==
  ASSUME IInv, NEW r \in Readers, NEW t \in Tables
  PROVE  /\ Found(t, r) = Found("GAME", r)
         /\ Found(t, r) \subseteq Calls \cup {Old}
         /\ wanted[r] \in GamesIn("GAME") => Found(t, r) # {}
         /\ Found(t, r) # {} => \E c \in Calls \cup {Old} : Found(t, r) = {c}
<1>1. "GAME" \in Tables
  BY Orders
<1>2. rows[t] = rows["GAME"] /\ \A x, y \in rows[t] : x.game = y.game => x = y
  BY DEF IInv, GamesWhole
<1>3. \A x \in rows[t] : x.by \in Calls \cup {Old}
  BY DEF IInv, TypeOK
<1>4. QED
  BY <1>1, <1>2, <1>3 DEF Found, RowsOf, GamesIn

(***************************************************************************)
(* Steps of a reader                                                       *)
(***************************************************************************)

\* What the invariant says of one reader.
Good(r) ==
  /\ rpc[r] = "idle" => r \notin known
  /\ rpc[r] \in {"idle", "asked"} => r \notin broken /\ seen[r] = Nothing
  /\ r \in known => wanted[r] \in GamesIn("GAME")
  /\ \A t \in unread[r] : seen[r][t] = {}
  /\ rpc[r] = "reading" /\ r \notin broken => \A t \in Tables \ unread[r] :
       /\ r \in known => seen[r][t] # {}
       /\ r \notin disturbed => seen[r][t] = Found(t, r)
  /\ r \in known => /\ rpc[r] = "error" => r \in broken
                    /\ rpc[r] = "served" => \A t \in Tables : seen[r][t] # {}
  /\ r \notin disturbed /\ rpc[r] = "served" =>
       \E c \in Calls \cup {Old} : \A t \in Tables : seen[r][t] = {c}

LEMMA GoodIsInv ==
  ASSUME ReadersTypeOK
  PROVE  (\A r \in Readers : Good(r)) <=>
           ReadingInv /\ KnownGameServedWhole /\ UndisturbedFitsTogether
  BY DEF ReadersTypeOK, Good, ReadingInv, KnownGameServedWhole, UndisturbedFitsTogether

\* The other readers keep all they have, and so does the store.
LEMMA ReaderAlone ==
  ASSUME GameReadsIInv, NEW r \in Readers, Reader(r), NEW s \in Readers \ {r}
  PROVE  Good(s)'
<1>1. Good(s)
  BY GoodIsInv DEF GameReadsIInv
<1>2. UNCHANGED rows
  BY DEF Reader, ReaderStep, Ask, Lock, Read, ReadFails, Finish, vars
<1>3. /\ rpc'[s] = rpc[s] /\ wanted'[s] = wanted[s] /\ unread'[s] = unread[s]
      /\ seen'[s] = seen[s] /\ (s \in known' <=> s \in known)
      /\ (s \in broken' <=> s \in broken) /\ (s \in disturbed' <=> s \in disturbed)
  BY DEF Reader, ReaderStep, Ask, Lock, Read, ReadFails, Finish, RGoto,
     GameReadsIInv, ReadersTypeOK
<1>4. \A t \in Tables : Found(t, s)' = Found(t, s)
  BY <1>2, <1>3 DEF Found, RowsOf
<1>5. GamesIn("GAME")' = GamesIn("GAME")
  BY <1>2 DEF GamesIn
<1>6. QED
  BY <1>1, <1>3, <1>4, <1>5 DEF Good, Nothing

LEMMA AskGood ==
  ASSUME GameReadsIInv, NEW r \in Readers, Ask(r)
  PROVE  Good(r)' /\ ReadersTypeOK'
<1>1. Good(r) /\ ReadersTypeOK
  BY GoodIsInv DEF GameReadsIInv
<1>2. PICK g \in GameIds \cup 1..MaxId :
        /\ wanted' = [wanted EXCEPT ![r] = g]
        /\ known' = IF g \in GamesIn("GAME") THEN known \cup {r} ELSE known
  BY DEF Ask
<1>3. g \in Int
  BY InputsAssumption
<1>4. ReadersTypeOK'
  BY <1>1, <1>2, <1>3 DEF ReadersTypeOK, Ask, RGoto
<1>5. rpc[r] = "idle" /\ rpc'[r] = "asked" /\ wanted'[r] = g
  BY <1>1, <1>2 DEF ReadersTypeOK, Ask, RGoto
<1>6. UNCHANGED <<rows, unread, seen, broken, disturbed>>
  BY DEF Ask, vars
<1>7. GamesIn("GAME")' = GamesIn("GAME")
  BY <1>6 DEF GamesIn
<1>8. QED
  BY <1>1, <1>2, <1>4, <1>5, <1>6, <1>7 DEF Good, Nothing

LEMMA LockGood ==
  ASSUME GameReadsIInv, NEW r \in Readers, Lock(r)
  PROVE  Good(r)' /\ ReadersTypeOK'
<1>1. Good(r) /\ ReadersTypeOK
  BY GoodIsInv DEF GameReadsIInv
<1>2. ReadersTypeOK'
  BY <1>1 DEF ReadersTypeOK, Lock, RGoto
<1>3. rpc[r] = "asked" /\ rpc'[r] = "reading" /\ unread'[r] = Tables
  BY <1>1 DEF ReadersTypeOK, Lock, RGoto
<1>4. UNCHANGED <<rows, wanted, known, seen, broken, disturbed>>
  BY DEF Lock, vars
<1>5. GamesIn("GAME")' = GamesIn("GAME")
  BY <1>4 DEF GamesIn
<1>6. \A t \in Tables : seen[r][t] = {}
  BY <1>1, <1>3 DEF Good, Nothing
<1>7. QED
  BY <1>1, <1>2, <1>3, <1>4, <1>5, <1>6 DEF Good

LEMMA ReadGood ==
  ASSUME GameReadsIInv, NEW r \in Readers, NEW t \in Tables, Read(r, t)
  PROVE  Good(r)' /\ ReadersTypeOK'
<1>1. Good(r) /\ ReadersTypeOK /\ IInv
  BY GoodIsInv DEF GameReadsIInv
<1>2. Found(t, r) \subseteq Calls \cup {Old}
  BY <1>1, FoundOf
<1>3. ReadersTypeOK'
  <2>1. seen' \in [Readers -> [Tables -> SUBSET (Calls \cup {Old})]]
    BY <1>1, <1>2 DEF ReadersTypeOK, Read
  <2>2. QED
    BY <1>1, <2>1 DEF ReadersTypeOK, Read
<1>4. rpc[r] = "reading" /\ UNCHANGED <<rows, rpc, wanted, known, broken, disturbed>>
  BY DEF Read, CanRead, vars
<1>5. \A u \in Tables : Found(u, r)' = Found(u, r)
  BY <1>4 DEF Found, RowsOf
<1>6. GamesIn("GAME")' = GamesIn("GAME")
  BY <1>4 DEF GamesIn
<1>7. /\ t \in unread[r]
      /\ unread'[r] = unread[r] \ ({t} \cup (IF Found(t, r) = {} THEN Followers(t) ELSE {}))
  BY <1>1 DEF ReadersTypeOK, Read, CanRead
<1>8. CASE r \in broken
  <2>1. seen' = seen /\ unread'[r] \subseteq unread[r]
    BY <1>7, <1>8 DEF Read
  <2>2. QED
    BY <1>1, <1>3, <1>4, <1>6, <1>8, <2>1 DEF Good
<1>9. CASE r \notin broken
  <2>1. seen'[r] = [seen[r] EXCEPT ![t] = Found(t, r)]
    BY <1>1, <1>9 DEF ReadersTypeOK, Read
  <2>2. seen'[r][t] = Found(t, r) /\ \A u \in Tables \ {t} : seen'[r][u] = seen[r][u]
    BY <1>1, <2>1 DEF ReadersTypeOK
  <2>3. ASSUME NEW u \in Tables \ unread'[r]
        PROVE  /\ r \in known => seen'[r][u] # {}
               /\ r \notin disturbed => seen'[r][u] = Found(u, r)
    <3>1. CASE u = t
      BY <1>1, <2>2, <3>1, FoundOf DEF Good
    <3>2. CASE u # t /\ u \notin unread[r]
      BY <1>1, <1>4, <1>9, <2>2, <3>2 DEF Good
    <3>3. CASE u # t /\ u \in unread[r]
      <4>1. Found(t, r) = {} /\ seen'[r][u] = {}
        BY <1>1, <1>7, <2>2, <3>3 DEF Good
      <4>2. Found(u, r) = {} /\ r \notin known
        BY <1>1, <4>1, FoundOf DEF Good
      <4>3. QED
        BY <4>1, <4>2
    <3>4. QED
      BY <3>1, <3>2, <3>3
  <2>4. \A u \in unread'[r] : seen'[r][u] = {}
    BY <1>1, <1>7, <2>2 DEF Good, ReadersTypeOK
  <2>5. QED
    BY <1>1, <1>3, <1>4, <1>5, <1>6, <1>9, <2>3, <2>4 DEF Good
<1>10. QED
  BY <1>8, <1>9

LEMMA ReadFailsGood ==
  ASSUME GameReadsIInv, NEW r \in Readers, NEW t \in Tables, ReadFails(r, t)
  PROVE  Good(r)' /\ ReadersTypeOK'
<1>1. Good(r) /\ ReadersTypeOK
  BY GoodIsInv DEF GameReadsIInv
<1>2. ReadersTypeOK'
  BY <1>1 DEF ReadersTypeOK, ReadFails, Nothing
<1>3. rpc[r] = "reading" /\ UNCHANGED <<rows, rpc, wanted, known, disturbed>>
  BY DEF ReadFails, CanRead, vars
<1>4. r \in broken' /\ seen'[r] = Nothing /\ unread'[r] \subseteq Tables
  BY <1>1 DEF ReadersTypeOK, ReadFails
<1>5. GamesIn("GAME")' = GamesIn("GAME")
  BY <1>3 DEF GamesIn
<1>6. QED
  BY <1>1, <1>2, <1>3, <1>4, <1>5 DEF Good, Nothing

LEMMA FinishGood ==
  ASSUME GameReadsIInv, NEW r \in Readers, Finish(r)
  PROVE  Good(r)' /\ ReadersTypeOK'
<1>1. Good(r) /\ ReadersTypeOK /\ IInv
  BY GoodIsInv DEF GameReadsIInv
<1>2. ReadersTypeOK'
  BY <1>1 DEF ReadersTypeOK, Finish, RGoto, RDone, Nothing
<1>3. /\ rpc[r] = "reading" /\ unread[r] = {}
      /\ rpc'[r] = IF Succeeds(r) THEN "served" ELSE "error"
  BY <1>1 DEF ReadersTypeOK, Finish, RGoto
<1>4. UNCHANGED <<rows, wanted, known, unread, broken, disturbed>>
  BY DEF Finish, vars
<1>5. GamesIn("GAME")' = GamesIn("GAME")
  BY <1>4 DEF GamesIn
<1>6. "GAME" \in Tables /\ "PLAYER" \in Tables
  BY Orders
<1>7. CASE ~Succeeds(r)
  <2>1. r \in known => r \in broken
    BY <1>1, <1>3, <1>6, <1>7 DEF Good, Succeeds
  <2>2. QED
    BY <1>1, <1>2, <1>3, <1>4, <1>5, <1>7, <2>1 DEF Good
<1>8. CASE Succeeds(r)
  <2>1. seen' = seen /\ rpc'[r] = "served" /\ r \notin broken /\ seen[r]["GAME"] # {}
    BY <1>3, <1>8 DEF Finish, Succeeds
  <2>2. ASSUME r \notin disturbed
        PROVE  \E c \in Calls \cup {Old} : \A t \in Tables : seen[r][t] = {c}
    <3>1. \A t \in Tables : seen[r][t] = Found(t, r)
      BY <1>1, <1>3, <2>1, <2>2 DEF Good
    <3>2. PICK c \in Calls \cup {Old} : Found("GAME", r) = {c}
      BY <1>1, <1>6, <2>1, <3>1, FoundOf
    <3>3. QED
      BY <1>1, <3>1, <3>2, FoundOf
  <2>3. QED
    BY <1>1, <1>2, <1>3, <1>4, <1>5, <2>1, <2>2 DEF Good
<1>9. QED
  BY <1>7, <1>8

(***************************************************************************)
(* Steps of createGame beside them                                         *)
(***************************************************************************)

LEMMA BesideGood ==
  ASSUME GameReadsIInv, NEW c \in Calls, Beside(c), NEW r \in Readers
  PROVE  Good(r)'
<1>1. Good(r) /\ IInv /\ [Next]_vars
  BY GoodIsInv DEF GameReadsIInv, Beside, Next
<1>2. UNCHANGED <<rpc, wanted, known, unread, seen, broken>> /\ disturbed \subseteq disturbed'
  BY DEF Beside
<1>3. GamesIn("GAME") \subseteq GamesIn("GAME")'
  BY <1>1, GamesStayThere
<1>4. ASSUME rpc[r] = "reading", r \notin disturbed'
      PROVE  \A t \in Tables : Found(t, r)' = Found(t, r)
  BY <1>4 DEF Beside
<1>5. QED
  BY <1>1, <1>2, <1>3, <1>4 DEF Good, Nothing

LEMMA GameReadsStepIInv == GameReadsIInv /\ [ReadsNext]_allVars => GameReadsIInv'
<1> SUFFICES ASSUME GameReadsIInv, [ReadsNext]_allVars PROVE GameReadsIInv'
  OBVIOUS
<1>1. IInv'
  <2>1. [Next]_vars
    BY GamesRun DEF allVars
  <2>2. QED
    BY <2>1, StepTypeOK, StepCalls, StepNewIds, StepLocks, StepGames DEF IInv, GameReadsIInv
<1>2. ReadersTypeOK' /\ \A r \in Readers : Good(r)'
  <2>1. CASE UNCHANGED <<vars, readers>>
    <3>1. ReadersTypeOK'
      BY <2>1 DEF GameReadsIInv, ReadersTypeOK, readers
    <3>2. ASSUME NEW r \in Readers PROVE Good(r)'
      <4>1. Good(r)
        BY GoodIsInv DEF GameReadsIInv
      <4>2. GamesIn("GAME")' = GamesIn("GAME") /\ \A t \in Tables : Found(t, r)' = Found(t, r)
        BY <2>1 DEF GamesIn, Found, RowsOf, vars, readers
      <4>3. QED
        BY <2>1, <4>1, <4>2 DEF Good, Nothing, readers
    <3>3. QED
      BY <3>1, <3>2
  <2>2. ASSUME NEW c \in Calls, Beside(c)
        PROVE  ReadersTypeOK' /\ \A r \in Readers : Good(r)'
    <3>1. ReadersTypeOK'
      BY <2>2 DEF Beside, GameReadsIInv, ReadersTypeOK
    <3>2. QED
      BY <2>2, <3>1, BesideGood
  <2>3. ASSUME NEW r \in Readers, Reader(r)
        PROVE  ReadersTypeOK' /\ \A s \in Readers : Good(s)'
    <3>1. Good(r)' /\ ReadersTypeOK'
      BY <2>3, AskGood, LockGood, ReadGood, ReadFailsGood, FinishGood DEF Reader, ReaderStep
    <3>2. \A s \in Readers \ {r} : Good(s)'
      BY <2>3, ReaderAlone
    <3>3. QED
      BY <3>1, <3>2
  <2>4. QED
    BY <2>1, <2>2, <2>3 DEF ReadsNext, allVars, AllEnded
<1>3. (ReadingInv /\ KnownGameServedWhole /\ UndisturbedFitsTogether)'
  BY <1>2 DEF ReadersTypeOK, Good, ReadingInv, KnownGameServedWhole, UndisturbedFitsTogether
<1>4. QED
  BY <1>1, <1>2, <1>3 DEF GameReadsIInv

(***************************************************************************)
(* The theorems                                                            *)
(***************************************************************************)

\* The games are whole, and what each reader has seen of its game is all that
\* was there and, if nobody replaced it, is there still.
THEOREM ReadsInvariance == ReadsSpec => []GameReadsIInv
BY InitGameReadsIInv, GameReadsStepIInv, PTL DEF ReadsSpec

\* getGame, its five readers on sessions of their own, serves a game that was
\* there when it was asked for with rows from every table.
THEOREM KnownServedWhole == ReadsSpec => []KnownGameServedWhole
<1>1. GameReadsIInv => KnownGameServedWhole
  BY DEF GameReadsIInv
<1>2. QED
  BY <1>1, ReadsInvariance, PTL

\* A game that is not replaced while getGame reads it is served as one call of
\* createGame wrote it.
THEOREM UndisturbedFits == ReadsSpec => []UndisturbedFitsTogether
<1>1. GameReadsIInv => UndisturbedFitsTogether
  BY DEF GameReadsIInv
<1>2. QED
  BY <1>1, ReadsInvariance, PTL
=============================================================================
