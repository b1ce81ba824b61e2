------------------------------ MODULE MapStore ------------------------------
(***************************************************************************)
(* Maps: db::uploadMap and db::getMap of src/db/MapsAndGames.cpp.  Their   *)
(* callers (src/test/ChangeTestGame.cpp, and createGame for getMap) are    *)
(* programs beside the server, so calls may overlap.                       *)
(*                                                                         *)
(* An upload, in one transaction, expires the maps of its name and         *)
(* version, inserts its definition, then its units one by one to learn     *)
(* their ids, then links the units that are carried, then inserts terrains *)
(* and player slots.  A reader takes four SELECTs, each by itself.         *)
(*                                                                         *)
(* No function creates the table of the player slots, MAP_PLAYERSLOT: the  *)
(* database may or may not have got it otherwise.  What a unit is beyond   *)
(* its place in the list and who carries it is left out; terrains and      *)
(* slots are each there for a map or not.  InnoDB's locks (external) are   *)
(* those of ModStore: MAP_DEFINITION has no index on NAME and VERSION.     *)
(* As in ModStore, some definitions have a wrong coding just above them.   *)
(***************************************************************************)
EXTENDS Integers, Sequences

CONSTANTS Calls,    \* the calls of uploadMap
          Readers,  \* the calls of getMap
          Maps,     \* the maps a call may bring
          MaxId     \* bound on MAP_DEFINITION.ID

\* carriedBy gives for each unit the place of its transporter in the list, or
\* 0; nothing stops it from naming a place that is not there.
ASSUME MapsAssumption ==
  /\ \A m \in Maps : /\ m.carriedBy \in Seq(Int)
                     /\ m.hasTerrains \in BOOLEAN /\ m.hasSlots \in BOOLEAN
  /\ MaxId \in Nat

NoLink == -1   \* TRANSPORTED_BY of a unit as it is inserted
NoId == 0

VARIABLES
  slotsTable,   \* whether DATA.MAP_PLAYERSLOT is there
  definitions,  \* committed rows of MAP_DEFINITION: [id, of], of the map sent
  expired,      \* the ids among them with EXPIRED set
  units,        \* of MAP_INITIAL_UNIT: [id, map, unit, link], unit the place
  terrains,     \* the maps with rows in MAP_INITIAL_TERRAIN
  slots,        \* and in MAP_PLAYERSLOT
  nextMapId,    \* AUTO_INCREMENT of MAP_DEFINITION
  nextUnitId,   \* and of MAP_INITIAL_UNIT
  holders,      \* transactions holding the locks of the UPDATE
  pc,           \* where each upload is, then how it ended
  map,          \* the map it was called with
  toExpire,     \* uncommitted: the rows its UPDATE has expired
  mapId,        \* uncommitted: the id of its definition
  own,          \* uncommitted: its units' [id, link], by place
  linked,       \* how many units its second loop is past
  rpc,          \* where each reader is, then what it returned
  wanted,       \* the id it asks for
  known,        \* readers whose map was stored when they asked
  seen          \* the units each reader found

store == <<slotsTable, definitions, expired, units, terrains, slots>>
ids == <<nextMapId, nextUnitId>>
upload == <<map, toExpire, mapId, own, linked>>
reads == <<rpc, wanted, known, seen>>
vars == <<store, ids, holders, pc, upload, reads>>

Ended == {"returned", "thrown", "died"}
Working == {"begun", "expired", "inserting", "slots", "full"}
NoMap == [name |-> "", version |-> "", carriedBy |-> <<>>,
          hasTerrains |-> FALSE, hasSlots |-> FALSE]

Init ==
  /\ slotsTable \in BOOLEAN
  /\ definitions = {} /\ expired = {} /\ units = {} /\ terrains = {} /\ slots = {}
  /\ nextMapId = 1 /\ nextUnitId = 1
  /\ holders = {}
  /\ pc = [c \in Calls |-> "idle"]
  /\ map = [c \in Calls |-> NoMap]
  /\ toExpire = [c \in Calls |-> {}]
  /\ mapId = [c \in Calls |-> NoId]
  /\ own = [c \in Calls |-> <<>>]
  /\ linked = [c \in Calls |-> 0]
  /\ rpc = [r \in Readers |-> "idle"]
  /\ wanted = [r \in Readers |-> NoId]
  /\ known = {}
  /\ seen = [r \in Readers |-> {}]
-----------------------------------------------------------------------------
Goto(c, label) == pc' = [pc EXCEPT ![c] = label]

MapIds == {d.id : d \in definitions}
UnitsOf(id) == {u \in units : u.map = id}
CarriedBy(c) == map[c].carriedBy
Places(c) == DOMAIN CarriedBy(c)

\* What a transaction alone saw goes with it, and so do its locks.
EndTransaction(c) ==
  /\ holders' = holders \ {c}
  /\ toExpire' = [toExpire EXCEPT ![c] = {}]
  /\ mapId' = [mapId EXCEPT ![c] = NoId]
  /\ own' = [own EXCEPT ![c] = <<>>]
  /\ linked' = [linked EXCEPT ![c] = 0]
  /\ map' = [map EXCEPT ![c] = NoMap]

\* See ModStore: only over an empty table do two UPDATEs not meet, and then
\* neither may insert.
CanScan == holders = {} \/ (definitions = {} /\ \A d \in holders : mapId[d] = NoId)
CanInsert(c) == holders = {c}

\* uploadMap is called: Session and Transaction.
Call(c) ==
  /\ pc[c] = "idle"
  /\ \E m \in Maps : map' = [map EXCEPT ![c] = m]
  /\ Goto(c, "begun")
  /\ UNCHANGED <<store, ids, holders, toExpire, mapId, own, linked, reads>>

\* The rows of its name and version, expired already or not.
BindSwapped(c) ==
  {d.id : d \in {e \in definitions : e.of.name = map[c].version
                                     /\ e.of.version = map[c].name}}
SameVersion(c) ==
  {d.id : d \in {e \in definitions : e.of.name = map[c].name
                                     /\ e.of.version = map[c].version}}

Expire(c) ==
  /\ pc[c] = "begun"
  /\ CanScan
  /\ holders' = holders \cup {c}
  /\ toExpire' = [toExpire EXCEPT ![c] = SameVersion(c)]
  /\ Goto(c, "expired")
  /\ UNCHANGED <<store, ids, map, mapId, own, linked, reads>>

InsertAutocommitted(c) ==
  /\ pc[c] = "expired"
  /\ CanInsert(c)
  /\ nextMapId <= MaxId
  /\ mapId' = [mapId EXCEPT ![c] = nextMapId]
  /\ nextMapId' = nextMapId + 1
  /\ definitions' = definitions \cup {[id |-> nextMapId, of |-> map[c]]}
  /\ Goto(c, "inserting")
  /\ UNCHANGED <<slotsTable, expired, units, terrains, slots, nextUnitId,
                 holders, map, toExpire, own, linked, reads>>
\* The INSERT of the definition and last_insert_id.
InsertDefinition(c) ==
  /\ pc[c] = "expired"
  /\ CanInsert(c)
  /\ nextMapId <= MaxId
  /\ mapId' = [mapId EXCEPT ![c] = nextMapId]
  /\ nextMapId' = nextMapId + 1
  /\ Goto(c, "inserting")
  /\ UNCHANGED <<store, nextUnitId, holders, map, toExpire, own, linked, reads>>

\* One unit; last_insert_id goes to unitIndexToId.
InsertUnit(c) ==
  /\ pc[c] = "inserting"
  /\ Len(own[c]) < Len(CarriedBy(c))
  /\ own' = [own EXCEPT ![c] = Append(@, [id |-> nextUnitId, link |-> NoLink])]
  /\ nextUnitId' = nextUnitId + 1
  /\ UNCHANGED <<store, nextMapId, holders, pc, map, toExpire, mapId, linked, reads>>

\* The unit whose turn it is in the second loop, and its transporter.
Turn(c) == linked[c] + 1
Carrier(c) == CarriedBy(c)[Turn(c)]
LinksNext(c) ==
  /\ pc[c] = "inserting"
  /\ Len(own[c]) = Len(CarriedBy(c))
  /\ linked[c] < Len(CarriedBy(c))

\* The values are bound as (unitId, transportedById), so it is the carrier's
\* row that gets a link, to its cargo; of several the last one stays.
WithLinkByPlace(c) == [own[c] EXCEPT ![Carrier(c)].link = Turn(c)]
WithLink(c) == [own[c] EXCEPT ![Carrier(c)].link = own[c][Turn(c)].id]

Link(c) ==
  /\ LinksNext(c)
  /\ \/ Carrier(c) = 0 /\ UNCHANGED own
     \/ Carrier(c) \in Places(c) /\ own' = [own EXCEPT ![c] = WithLink(c)]
  /\ linked' = [linked EXCEPT ![c] = @ + 1]
  /\ UNCHANGED <<store, ids, holders, pc, map, toExpire, mapId, reads>>

\* "Map Unit List references transport unit that does not exist".
Dangles(c) ==
  /\ LinksNext(c)
  /\ Carrier(c) \notin Places(c) \cup {0}
  /\ Goto(c, "unwinding")
  /\ UNCHANGED <<store, ids, holders, upload, reads>>

\* doInsert of no rows is an SQL error, and so is one without its table.
InsertTerrains(c) ==
  /\ pc[c] = "inserting"
  /\ linked[c] = Len(CarriedBy(c))
  /\ Goto(c, IF map[c].hasTerrains THEN "slots" ELSE "unwinding")
  /\ UNCHANGED <<store, ids, holders, upload, reads>>

InsertSlots(c) ==
  /\ pc[c] = "slots"
  /\ Goto(c, IF map[c].hasSlots /\ slotsTable THEN "full" ELSE "unwinding")
  /\ UNCHANGED <<store, ids, holders, upload, reads>>

UnitRows(c) ==
  {[id |-> own[c][i].id, map |-> mapId[c], unit |-> i, link |-> own[c][i].link] :
     i \in DOMAIN own[c]}

\* COMMIT, with or without its answer reaching the caller.
Commit(c) ==
  /\ pc[c] = "full"
  /\ definitions' = definitions \cup {[id |-> mapId[c], of |-> map[c]]}
  /\ expired' = expired \cup toExpire[c]
  /\ units' = units \cup UnitRows(c)
  /\ terrains' = terrains \cup {mapId[c]}
  /\ slots' = slots \cup {mapId[c]}
  /\ EndTransaction(c)
  /\ \E label \in {"returned", "unwinding"} : Goto(c, label)
  /\ UNCHANGED <<slotsTable, ids, reads>>

\* Any statement may fail; out of ids, the INSERT of the definition does.
StatementFails(c) ==
  /\ pc[c] \in Working
  /\ Goto(c, "unwinding")
  /\ UNCHANGED <<store, ids, holders, upload, reads>>

\* Two that hold the gap locks wait for each other to insert.
DeadlockVictim(c) ==
  /\ pc[c] = "expired"
  /\ \E d \in holders \ {c} : pc[d] = "expired"
  /\ EndTransaction(c)
  /\ Goto(c, "unwinding")
  /\ UNCHANGED <<store, ids, reads>>

\* An SQL error is printed and thrown on, other errors pass; ~Transaction.
Rollback(c) ==
  /\ pc[c] = "unwinding"
  /\ EndTransaction(c)
  /\ Goto(c, "thrown")
  /\ UNCHANGED <<store, ids, reads>>

\* The calling program dies; its connection ends and its transaction with it.
Die(c) ==
  /\ pc[c] \in Working \cup {"unwinding"}
  /\ EndTransaction(c)
  /\ Goto(c, "died")
  /\ UNCHANGED <<store, ids, reads>>

UploadMap(c) ==
  \/ Call(c) \/ Expire(c) \/ InsertDefinition(c) \/ InsertUnit(c)
  \/ Link(c) \/ Dangles(c) \/ InsertTerrains(c) \/ InsertSlots(c) \/ Commit(c)
  \/ StatementFails(c) \/ DeadlockVictim(c) \/ Rollback(c) \/ Die(c)
-----------------------------------------------------------------------------
RGoto(r, label) == rpc' = [rpc EXCEPT ![r] = label]

\* getMap is called with some id.
Ask(r) ==
  /\ rpc[r] = "idle"
  /\ \E id \in 1..MaxId :
       /\ wanted' = [wanted EXCEPT ![r] = id]
       /\ known' = IF id \in MapIds THEN known \cup {r} ELSE known
  /\ RGoto(r, "definition")
  /\ UNCHANGED <<store, ids, holders, pc, upload, seen>>

\* definitions.size() != 1, or the one that is there.
ReadDefinition(r) ==
  /\ rpc[r] = "definition"
  /\ RGoto(r, IF wanted[r] \in MapIds THEN "slots" ELSE "unknown")
  /\ UNCHANGED <<store, ids, holders, pc, upload, wanted, known, seen>>

\* A SELECT on a table that is not there fails.
ReadSlots(r) ==
  /\ rpc[r] = "slots"
  /\ RGoto(r, IF ~slotsTable THEN "failed"
              ELSE IF wanted[r] \in slots THEN "units" ELSE "partial")
  /\ UNCHANGED <<store, ids, holders, pc, upload, wanted, known, seen>>

ReadUnits(r) ==
  /\ rpc[r] = "units"
  /\ seen' = [seen EXCEPT ![r] = UnitsOf(wanted[r])]
  /\ RGoto(r, "terrains")
  /\ UNCHANGED <<store, ids, holders, pc, upload, wanted, known>>

ReadTerrains(r) ==
  /\ rpc[r] = "terrains"
  /\ RGoto(r, IF wanted[r] \in terrains THEN "served" ELSE "partial")
  /\ UNCHANGED <<store, ids, holders, pc, upload, wanted, known, seen>>

ReadFails(r) ==
  /\ rpc[r] \in {"definition", "slots", "units", "terrains"}
  /\ RGoto(r, "failed")
  /\ UNCHANGED <<store, ids, holders, pc, upload, wanted, known, seen>>

GetMap(r) ==
  \/ Ask(r) \/ ReadDefinition(r) \/ ReadSlots(r) \/ ReadUnits(r)
  \/ ReadTerrains(r) \/ ReadFails(r)

RDone == {"served", "unknown", "failed", "partial"}

AllEnded ==
  /\ \A c \in Calls : pc[c] \in Ended
  /\ \A r \in Readers : rpc[r] \in RDone
  /\ UNCHANGED vars

Next == (\E c \in Calls : UploadMap(c)) \/ (\E r \in Readers : GetMap(r)) \/ AllEnded

Spec == Init /\ [][Next]_vars
-----------------------------------------------------------------------------
\* rows are the units of a map, each once, and their links are between a unit
\* and its transporter, one at least for each that is carried.  Which of the
\* two rows should hold the link is not said here: see CargoKept.
UnitsFit(rows, carriedBy) ==
  /\ {u.unit : u \in rows} = DOMAIN carriedBy
  /\ \A u, v \in rows :
       /\ u.unit = v.unit => u = v
       /\ carriedBy[u.unit] = v.unit => u.link # NoLink \/ v.link # NoLink
  /\ \A u \in rows : u.link # NoLink =>
       \E v \in rows : /\ u.link = v.id
                       /\ carriedBy[u.unit] = v.unit \/ carriedBy[v.unit] = u.unit

\* A map is in all its tables or in none, whatever failed or died on the way
\* and whatever ids others took; no link leads from one map to another, or to
\* a unit that is neither the transporter nor carried.
MapsWhole ==
  /\ \A d \in definitions : UnitsFit(UnitsOf(d.id), d.of.carriedBy)
  /\ \A u \in units : u.map \in MapIds
  /\ terrains = MapIds /\ slots = MapIds
  /\ definitions # {} => slotsTable

\* However uploads overlap, fail or die: of the maps of one name and version,
\* one is current.
OneCurrentPerVersion ==
  \A d, e \in definitions :
    /\ d.id \notin expired /\ e.id \notin expired
    /\ d.of.name = e.of.name /\ d.of.version = e.of.version
    => d = e

\* Who asks for a stored map, expired meanwhile or not, gets it with its slots,
\* its terrains and every unit, unless a statement fails; nobody gets a part.
KnownMapServedWhole ==
  \A r \in Readers :
    /\ rpc[r] # "partial"
    /\ r \in known => rpc[r] # "unknown"
    /\ rpc[r] = "served" =>
         \E d \in definitions :
           d.id = wanted[r] /\ {u.unit : u \in seen[r]} = DOMAIN d.of.carriedBy

\* What the comment in uploadMap says of mapmakers' weird maps: towers of units
\* and any number of units inside one are stored as they are.  Each carried unit
\* names its transporter.  The code, which binds the ids the other way round,
\* does not keep this.
CargoKept ==
  \A d \in definitions : \A u, v \in UnitsOf(d.id) :
    d.of.carriedBy[u.unit] = v.unit => u.link = v.id
-----------------------------------------------------------------------------
(***************************************************************************)
(* The inductive invariant behind the three invariants above.              *)
(***************************************************************************)

Row == [id : Nat, map : Nat, unit : Nat, link : Int]

TypeOK ==
  /\ slotsTable \in BOOLEAN
  /\ definitions \subseteq [id : Nat \ {NoId}, of : Maps]
  /\ expired \subseteq Nat
  /\ units \subseteq Row
  /\ terrains \subseteq Nat /\ slots \subseteq Nat
  /\ nextMapId \in Nat \ {NoId} /\ nextUnitId \in Nat \ {NoId}
  /\ holders \subseteq Calls
  /\ pc \in [Calls -> {"idle", "unwinding"} \cup Working \cup Ended]
  /\ map \in [Calls -> Maps \cup {NoMap}]
  /\ toExpire \in [Calls -> SUBSET Nat]
  /\ mapId \in [Calls -> Nat]
  /\ own \in [Calls -> Seq([id : Nat, link : Int])]
  /\ linked \in [Calls -> Nat]
  /\ rpc \in [Readers -> {"idle", "definition", "slots", "units", "terrains"} \cup RDone]
  /\ wanted \in [Readers -> Nat]
  /\ known \subseteq Readers
  /\ seen \in [Readers -> SUBSET Row]

Filling == {"inserting", "slots", "full"}

\* A transaction holds its locks from the UPDATE on, alone once it has an id.
HoldersInv ==
  \A c \in Calls :
    /\ pc[c] \in {"expired"} \cup Filling => c \in holders
    /\ c \in holders => pc[c] \in {"expired", "unwinding"} \cup Filling
    /\ pc[c] \in {"begun", "expired"} \cup Filling => map[c] \in Maps
    /\ pc[c] \in Filling => mapId[c] # NoId
    /\ pc[c] \in {"idle", "begun", "expired"} =>
         mapId[c] = NoId /\ own[c] = <<>> /\ linked[c] = 0
    /\ mapId[c] # NoId => holders = {c}

\* Of two transactions past the UPDATE neither met a row, and what they found
\* to expire is what is there.
ExpiryInv ==
  /\ \A c, d \in holders : c # d => definitions = {}
  /\ \A c \in Calls : pc[c] \in {"expired"} \cup Filling => toExpire[c] = SameVersion(c)

\* The ids of maps are given once, and only stored maps are expired.
IdsInv ==
  /\ \A d \in definitions : d.id < nextMapId
  /\ \A c \in Calls : mapId[c] # NoId => mapId[c] < nextMapId /\ mapId[c] \notin MapIds
  /\ \A d, e \in definitions : d.id = e.id => d = e
  /\ expired \subseteq MapIds

\* How far the two loops over the units are, and what links they have made.
LinksMade(c) ==
  /\ Len(own[c]) <= Len(CarriedBy(c))
  /\ linked[c] <= Len(own[c])
  /\ linked[c] # 0 => Len(own[c]) = Len(CarriedBy(c))
  /\ \A i \in 1..Len(own[c]) :
       /\ own[c][i].link = NoLink <=> \A k \in 1..linked[c] : CarriedBy(c)[k] # i
       /\ own[c][i].link # NoLink => \E k \in 1..linked[c] :
                                        /\ own[c][i].link = own[c][k].id
                                        /\ CarriedBy(c)[k] = i

LinksInv ==
  \A c \in Calls :
    /\ pc[c] \in Filling => LinksMade(c)
    /\ pc[c] \in {"slots", "full"} => /\ Len(own[c]) = Len(CarriedBy(c))
                                      /\ linked[c] = Len(CarriedBy(c))
    /\ pc[c] = "full" => slotsTable

\* A reader past the first SELECT has found its map, which stays.
ReadersInv ==
  \A r \in Readers :
    /\ r \in known => rpc[r] # "idle" /\ wanted[r] \in MapIds
    /\ rpc[r] \in {"slots", "units", "terrains", "served"} => wanted[r] \in MapIds
    /\ rpc[r] \in {"terrains", "served"} =>
         \E d \in definitions :
           d.id = wanted[r] /\ {u.unit : u \in seen[r]} = DOMAIN d.of.carriedBy
    /\ rpc[r] # "partial"
    /\ r \in known => rpc[r] # "unknown"

IInv ==
  /\ TypeOK /\ HoldersInv /\ ExpiryInv /\ IdsInv /\ LinksInv /\ ReadersInv
  /\ MapsWhole /\ OneCurrentPerVersion
=============================================================================
