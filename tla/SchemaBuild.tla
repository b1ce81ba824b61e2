---------------------------- MODULE SchemaBuild ----------------------------
(***************************************************************************)
(* The life of the server's database: buildDatabase (src/db/               *)
(* DBTablesV0.0.1.cpp), asked for with the argument DatabaseRebuild, and   *)
(* check_db_version (src/db/General.cpp), which decides in src/Main.cpp    *)
(* whether a process serves.                                               *)
(*                                                                         *)
(* External: DDL statements of MySQL end the transaction they are in and   *)
(* take effect at once, so buildDatabase's Transaction undoes nothing.     *)
(*                                                                         *)
(* ScriptWithoutDrop and the like, above another definition, are wrong     *)
(* codings of it that no behaviour uses; some property tells them apart.   *)
(***************************************************************************)
EXTENDS Naturals, Sequences

CONSTANT MaxStarts   \* bound on starts of the process

ASSUME StartsAssumption == MaxStarts \in Nat

Schemas == {"GENERAL", "RESOURCE", "STATE", "DATA"}

\* The tables in the order of the build functions.
GeneralTables == <<"META">>
ResourceTables == <<
    "TEXT_RESOURCE", "IMAGE_RESOURCE", "PACK">>
StateTables == <<
    "GAME", "GAME_PLAYERORDER_REFERENCE", "PLAYER",
    "PLAYER_BANNEDUNITS_REFERENCE", "UNIT", "UNIT_TRANSPORT_REFERENCE",
    "TERRAIN", "SETTINGS", "SETTINGS_VARIANT_REFERENCE">>
DataTables == <<
    "MOD", "MOD_DEFAULTPACK_REFERENCE", "UNIT_TYPE", "UNIT_WEAPON_REFERENCE",
    "UNIT_CLASSIFICATION_REFERENCE", "UNIT_TRANSPORTLIST_REFERENCE",
    "WEAPON_TYPE", "WEAPON_BASEDAMAGE_REFERENCE",
    "WEAPON_STEALTHTARGET_REFERENCE", "TERRAIN_TYPE",
    "TERRAIN_BUILDREPAIR_REFERENCE", "TERRAIN_ACTIVATIONLIST_REFERENCE",
    "TERRAIN_ACTIVATIONEFFECT_REFERENCE", "COMMANDER_TYPE",
    "COMMANDER_EFFECT_REFERENCE", "MOVEMENT_TYPE", "MOVEMENT_COST_REFERENCE",
    "MOVEMENT_RULE_REFERENCE", "MOVEMENT_RULE", "PLAYER_TYPE",
    "PLAYER_PERMITTEDPLAYERSLOT_REFERENCE",
    "PLAYER_PERMITTEDCOMMANDERTYPE_REFERENCE", "EFFECT_TARGET_REFERENCE",
    "EFFECT_AFFECT_REFERENCE", "EFFECT_CLASSIFICATION_REFERENCE",
    "EFFECT_TERRAIN_REFERENCE", "EFFECT_UNITTYPEREQUIRED_REFERENCE",
    "PASSIVE_UNIT_EFFECT", "PUE_FIREPOWERFROMTERRAIN_REFERENCE",
    "PUE_DEFENSEFROMTERRAIN_REFERENCE", "PUE_VISIONVARIANT_REFERENCE",
    "PUE_FIREPOWERVARIANT_REFERENCE", "PUE_DEFENSEVARIANT_REFERENCE",
    "PUE_INTEL_REFERENCE", "ACTIVE_UNIT_EFFECT", "PASSIVE_TERRAIN_EFFECT",
    "PTE_BUILDLISTMOD_REFERENCE", "ACTIVE_TERRAIN_EFFECT",
    "PASSIVE_GLOBAL_EFFECT", "PGE_VARIANTHINTMOD_REFERENCE",
    "ACTIVE_GLOBAL_EFFECT", "AGE_MISSILETARGETMETHOD_REFERENCE",
    "DEFAULT_GAME_SETTINGS", "DEFAULTSETTINGS_VARIANT_REFERENCE", "CONFIG",
    "MAP_DEFINITION", "MAP_INITIAL_UNIT", "MAP_INITIAL_TERRAIN">>

TablesOf(schema) ==
  CASE schema = "GENERAL" -> GeneralTables
    [] schema = "RESOURCE" -> ResourceTables
    [] schema = "STATE" -> StateTables
    [] schema = "DATA" -> DataTables

Statement(op, schema, table) == [op |-> op, schema |-> schema, table |-> table]

\* createTable for each of its tables.
CreateTablesInData(schema) ==
  [i \in DOMAIN TablesOf(schema) |-> Statement("table", "DATA", TablesOf(schema)[i])]
CreateTables(schema) ==
  [i \in DOMAIN TablesOf(schema) |-> Statement("table", schema, TablesOf(schema)[i])]

\* A build function; buildGeneralSchema also inserts the version.
ScriptWithoutDrop(schema) ==
  <<Statement("schema", schema, "")>> \o CreateTables(schema)
  \o (IF schema = "GENERAL" THEN <<Statement("version", schema, "META")>> ELSE <<>>)
ScriptOneShort(schema) ==
  <<Statement("drop", schema, ""), Statement("schema", schema, "")>>
  \o (IF schema = "GENERAL"
      THEN CreateTables(schema) \o <<Statement("version", schema, "META")>>
      ELSE SubSeq(CreateTables(schema), 1, Len(TablesOf(schema)) - 1))
Script(schema) ==
  <<Statement("drop", schema, ""), Statement("schema", schema, "")>>
  \o CreateTables(schema)
  \o (IF schema = "GENERAL" THEN <<Statement("version", schema, "META")>> ELSE <<>>)

\* buildDatabase, one build function after the other.
Build == Script("GENERAL") \o Script("RESOURCE") \o Script("STATE") \o Script("DATA")

Created ==
  UNION {{<<s, TablesOf(s)[i]>> : i \in DOMAIN TablesOf(s)} : s \in Schemas}

\* The tables that the header declares and the server's SQL names.  No build
\* function creates the one of the player slots of maps.
AllTables == Created \cup {<<"DATA", "MAP_PLAYERSLOT">>}

VARIABLES
  schemas,  \* schemas of the database
  tables,   \* its tables: <<schema, table>>
  version,  \* what GENERAL.META says: "none", "old" or "current"
  process,  \* "down", "building", "built", "serving" or "exited"
  at,       \* the statement of Build to execute next
  code,     \* what buildDatabase returned, which main does not look at
  starts    \* starts so far

database == <<schemas, tables, version>>
vars == <<schemas, tables, version, process, at, code, starts>>

\* No database yet, or one of an older version of the server.
Init ==
  /\ \/ schemas = {} /\ tables = {} /\ version = "none"
     \/ /\ schemas = Schemas
        /\ tables = {<<"GENERAL", "META">>, <<"DATA", "MOD">>, <<"DATA", "MAP">>}
        /\ version = "old"
  /\ process = "down"
  /\ at = 1
  /\ code = "NONE"
  /\ starts = 0

\* main, with or without a confirmed DatabaseRebuild.
Start ==
  /\ process \in {"down", "exited"}
  /\ starts < MaxStarts
  /\ starts' = starts + 1
  /\ process' \in {"building", "built"}
  /\ at' = 1
  /\ code' = IF process' = "building" THEN "NONE" ELSE "NOT_RUN"
  /\ UNCHANGED database

\* What MySQL demands of a statement.
Applicable(s) ==
  CASE s.op = "drop" -> TRUE
    [] s.op = "schema" -> s.schema \notin schemas
    [] s.op = "table" -> s.schema \in schemas /\ <<s.schema, s.table>> \notin tables
    [] s.op = "version" -> <<s.schema, s.table>> \in tables

Apply(s) ==
  CASE s.op = "drop" ->
         /\ schemas' = schemas \ {s.schema}
         /\ tables' = {t \in tables : t[1] # s.schema}
         /\ version' = IF s.schema = "GENERAL" THEN "none" ELSE version
    [] s.op = "schema" -> schemas' = schemas \cup {s.schema} /\ UNCHANGED <<tables, version>>
    [] s.op = "table" ->
         tables' = tables \cup {<<s.schema, s.table>>} /\ UNCHANGED <<schemas, version>>
    [] s.op = "version" -> version' = "current" /\ UNCHANGED <<schemas, tables>>

Execute ==
  /\ process = "building"
  /\ at <= Len(Build)
  /\ Applicable(Build[at])
  /\ Apply(Build[at])
  /\ at' = at + 1
  /\ UNCHANGED <<process, code, starts>>

\* A statement fails, also one that cannot apply: what is built stays built.
StatementFails ==
  /\ process = "building"
  /\ at <= Len(Build)
  /\ code' = "UNKNOWN"
  /\ process' = "built"
  /\ UNCHANGED <<database, at, starts>>

BuildEnds ==
  /\ process = "building"
  /\ at > Len(Build)
  /\ process' = "built"
  /\ UNCHANGED <<database, at, code, starts>>

\* check_db_version and main's comparison; main exits when they fail.
Check ==
  /\ process = "built"
  /\ process' = IF version = "current" THEN "serving" ELSE "exited"
  /\ UNCHANGED <<database, at, code, starts>>

\* SIGTERM, a crash, or an error outside buildDatabase's try block.
Die ==
  /\ process \in {"building", "built", "serving"}
  /\ process' = "down"
  /\ UNCHANGED <<database, at, code, starts>>

Next == Start \/ Execute \/ StatementFails \/ BuildEnds \/ Check \/ Die

Spec == Init /\ [][Next]_vars
-----------------------------------------------------------------------------
\* Every variable keeps its type.
TypeOK ==
  /\ schemas \subseteq Schemas
  /\ tables \subseteq AllTables \cup {<<"DATA", "MAP">>}
  /\ version \in {"none", "old", "current"}
  /\ process \in {"down", "building", "built", "serving", "exited"}
  /\ at \in 1..(Len(Build) + 1)
  /\ code \in {"NONE", "UNKNOWN", "NOT_RUN"}
  /\ starts \in 0..MaxStarts

\* A rebuild applies over whatever an older version, a failed rebuild or a
\* killed one has left: no statement of it can clash with what is there.
RebuildNeverClashes ==
  process = "building" /\ at <= Len(Build) => Applicable(Build[at])

\* After a buildDatabase that returned NONE, and so in any process that serves
\* after one, every table the build functions create is there, none that is not
\* the header's was left, and the version is the current one.  (main would serve
\* complete builds only if it asked for NONE.  Not every table of the header is
\* there: see AllTables.)
NoneMeansBuilt ==
  process \in {"built", "serving"} /\ code = "NONE" =>
    Created \subseteq tables /\ tables \subseteq AllTables /\ version = "current"

\* What the messages of main promise: a database that "requires
\* reconstructing", because a build has not got through, is not served.
ServesWholeDatabase == process = "serving" => Created \subseteq tables

-----------------------------------------------------------------------------
(* What the proofs need: the state in the middle of a rebuild.             *)

Drop(schema) == Statement("drop", schema, "")
Create(schema) == Statement("schema", schema, "")
CreateTable(table) == Statement("table", table[1], table[2])

\* The statements this start of the server has executed.
Executed == {Build[k] : k \in 1..(at - 1)}

\* A rebuild that goes on, or that has ended without an error.
Rebuilt == process = "building" \/ (process \in {"built", "serving"} /\ code = "NONE")

\* What was dropped is there only if created since, and what was created
\* is there still.
RebuildInv ==
  Rebuilt =>
    /\ \A s \in schemas : Drop(s) \in Executed => Create(s) \in Executed
    /\ \A t \in tables : Drop(t[1]) \in Executed => CreateTable(t) \in Executed
    /\ \A e \in Executed :
         /\ e.op = "schema" => e.schema \in schemas
         /\ e.op = "table" => <<e.schema, e.table>> \in tables
         /\ e.op = "version" => version = "current"

VersionInv ==
  /\ version # "none" => <<"GENERAL", "META">> \in tables
  /\ process \in {"built", "serving"} /\ code = "NONE" => at = Len(Build) + 1

IInv == TypeOK /\ RebuildInv /\ VersionInv
=============================================================================
