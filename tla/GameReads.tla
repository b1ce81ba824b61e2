----------------------------- MODULE GameReads ------------------------------
(***************************************************************************)
(* Reading a game while it is created anew.  Each endpoint under           *)
(* /state/get (src/StateLookup.cpp) calls GameManager::getGame, which      *)
(* reads the whole game with five std::async readers, each with a session  *)
(* of its own and one or two SELECTs (src/db/State.cpp), and keeps         *)
(* cacheMutex meanwhile.  As with mods, nothing is ever put into the cache *)
(* the mutex protects, so the cache is left out, and the gameMutex of the  *)
(* new object has one user.                                                *)
(***************************************************************************)
EXTENDS GameStore

CONSTANT Readers   \* requests to one of the endpoints

VARIABLES
  cacheMutex,  \* the readers inside getGame: none or one
  rpc,         \* where each reader is, then what its client got
  wanted,      \* the id it asks for
  known,       \* readers whose game was there when they asked
  unread,      \* the tables whose SELECT is still to come
  seen,        \* from each table, who wrote the rows it found there
  broken,      \* readers one of whose sessions failed
  disturbed    \* history: readers whose game was replaced while they read

readers == <<cacheMutex, rpc, wanted, known, unread, seen, broken, disturbed>>
allVars == <<vars, readers>>

Nothing == [t \in Tables |-> {}]

RDone == {"served", "error"}

ReadsInit ==
  /\ Init
  /\ cacheMutex = {}
  /\ rpc = [r \in Readers |-> "idle"]
  /\ wanted = [r \in Readers |-> NoId]
  /\ known = {}
  /\ unread = [r \in Readers |-> {}]
  /\ seen = [r \in Readers |-> Nothing]
  /\ broken = {}
  /\ disturbed = {}

RGoto(r, label) == rpc' = [rpc EXCEPT ![r] = label]

\* The SELECTs that another one must precede, in the same reader: the rows it
\* finds are those the second SELECT is for.
Leader(t) ==
  CASE t = "GAME_PLAYERORDER_REFERENCE" -> "GAME"
    [] t = "SETTINGS_VARIANT_REFERENCE" -> "SETTINGS"
    [] OTHER -> t
Followers(t) == {u \in Tables \ {t} : Leader(u) = t}

\* get_id, getGame.
Ask(r) ==
  /\ rpc[r] = "idle"
  /\ \E g \in GameIds \cup 1..MaxId :
       /\ wanted' = [wanted EXCEPT ![r] = g]
       /\ known' = IF g \in GamesIn("GAME") THEN known \cup {r} ELSE known
  /\ RGoto(r, "asked")
  /\ UNCHANGED <<vars, cacheMutex, unread, seen, broken, disturbed>>

Lock(r) ==
  /\ rpc[r] = "asked"
  /\ cacheMutex = {}
  /\ cacheMutex' = {r}
  /\ unread' = [unread EXCEPT ![r] = Tables]
  /\ RGoto(r, "reading")
  /\ UNCHANGED <<vars, wanted, known, seen, broken, disturbed>>

\* What a SELECT of the readers finds: committed rows with the game's id.
AnyGame(t, r) == {x.by : x \in rows[t]}
Found(t, r) == {x.by : x \in RowsOf(t, wanted[r])}

CanRead(r, t) ==
  /\ rpc[r] = "reading"
  /\ t \in unread[r]
  /\ t # Leader(t) => Leader(t) \notin unread[r]

\* One SELECT.  Without a row of GAME or SETTINGS the second is not made.
Read(r, t) ==
  /\ CanRead(r, t)
  /\ seen' = IF r \in broken THEN seen ELSE [seen EXCEPT ![r][t] = Found(t, r)]
  /\ unread' = [unread EXCEPT ![r] =
                 @ \ ({t} \cup (IF Found(t, r) = {} THEN Followers(t) ELSE {}))]
  /\ UNCHANGED <<vars, cacheMutex, rpc, wanted, known, broken, disturbed>>

\* A session cannot be opened, or fails; that reader ends, and nothing of what
\* the others find will be used.
ReadFails(r, t) ==
  /\ CanRead(r, t)
  /\ unread' = [unread EXCEPT ![r] = @ \ ({t} \cup Followers(t))]
  /\ broken' = broken \cup {r}
  /\ seen' = [seen EXCEPT ![r] = Nothing]
  /\ UNCHANGED <<vars, cacheMutex, rpc, wanted, known, disturbed>>

\* get_gamestate and get_playerstates throw without a row, the other readers
\* do not.  The destructors of the futures wait for all readers.
Succeeds(r) ==
  r \notin broken /\ seen[r]["GAME"] # {} /\ seen[r]["PLAYER"] # {}

Finish(r) ==
  /\ rpc[r] = "reading"
  /\ unread[r] = {}
  /\ cacheMutex' = {}
  /\ RGoto(r, IF Succeeds(r) THEN "served" ELSE "error")
  /\ seen' = IF Succeeds(r) THEN seen ELSE [seen EXCEPT ![r] = Nothing]
  /\ UNCHANGED <<vars, wanted, known, unread, broken, disturbed>>

ReaderStep(r) == Lock(r) \/ (\E t \in Tables : Read(r, t)) \/ Finish(r)

Reader(r) ==
  Ask(r) \/ ReaderStep(r) \/ \E t \in Tables : ReadFails(r, t)

\* A step of createGame beside the readers.
Beside(c) ==
  /\ CreateGame(c)
  /\ UNCHANGED <<cacheMutex, rpc, wanted, known, unread, seen, broken>>
  /\ disturbed' = disturbed \cup
       {r \in Readers : rpc[r] \in {"asked", "reading"} /\
          \E t \in Tables : Found(t, r) # Found(t, r)'}

ReadsNext ==
  \/ \E c \in Calls : Beside(c)
  \/ \E r \in Readers : Reader(r)
  \/ AllEnded /\ (\A r \in Readers : rpc[r] \in RDone) /\ UNCHANGED readers

ReadsSpec == ReadsInit /\ [][ReadsNext]_allVars
-----------------------------------------------------------------------------
\* Who asks for a game that is there is not told "No Game Found" or served a
\* game without players, units, terrains or settings because somebody is
\* replacing it: the request fails only if a session does.
KnownGameServedWhole ==
  \A r \in known :
    /\ rpc[r] = "error" => r \in broken
    /\ rpc[r] = "served" => \A t \in Tables : seen[r][t] # {}

\* The pieces come from sessions of their own.  They fit together, the player
\* order with the players and the owners of the units, if the game was not
\* replaced while they were read.
UndisturbedFitsTogether ==
  \A r \in Readers \ disturbed : rpc[r] = "served" =>
    \E c \in Calls \cup {Old} : \A t \in Tables : seen[r][t] = {c}
-----------------------------------------------------------------------------
(***************************************************************************)
(* The inductive invariant behind both, on top of that of GameStore.       *)
(***************************************************************************)

ReadersTypeOK ==
  /\ rpc \in [Readers -> {"idle", "asked", "reading"} \cup RDone]
  /\ wanted \in [Readers -> Int]
  /\ known \subseteq Readers
  /\ unread \in [Readers -> SUBSET Tables]
  /\ seen \in [Readers -> [Tables -> SUBSET (Calls \cup {Old})]]

\* What is known of a game stays so, and every table that was read had it; of
\* a game left alone, the tables say now what they said when they were read.
ReadingInv ==
  \A r \in Readers :
    /\ rpc[r] = "idle" => r \notin known
    /\ rpc[r] \in {"idle", "asked"} => r \notin broken /\ seen[r] = Nothing
    /\ r \in known => wanted[r] \in GamesIn("GAME")
    /\ \A t \in unread[r] : seen[r][t] = {}
    /\ rpc[r] = "reading" /\ r \notin broken => \A t \in Tables \ unread[r] :
         /\ r \in known => seen[r][t] # {}
         /\ r \notin disturbed => seen[r][t] = Found(t, r)

GameReadsIInv ==
  /\ IInv /\ ReadersTypeOK /\ ReadingInv
  /\ KnownGameServedWhole /\ UndisturbedFitsTogether
=============================================================================
