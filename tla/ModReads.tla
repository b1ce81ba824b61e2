------------------------------ MODULE ModReads ------------------------------
(***************************************************************************)
(* Downloading mods while others are uploaded.  A client learns the id of  *)
(* a mod from /data/getMods or /data/getModData, or asks for an id it has  *)
(* from elsewhere, and calls /data/getMod: GameManager::getMod reads the   *)
(* mod through db::get_mod, which starts sixteen std::async readers, each  *)
(* with a MySQL session of its own, so that every part of the answer is    *)
(* read from another state of the store.                                   *)
(*                                                                         *)
(* cacheMutex is held all the while.  The cache it protects is left out:   *)
(* getMod looks into it and never puts anything there, so the branch that  *)
(* reads the database is the only one ever taken.                          *)
(***************************************************************************)
EXTENDS ModStore

CONSTANT Readers   \* requests for /data/getMod

VARIABLES
  cacheMutex,  \* the readers inside GameManager::getMod: none or one
  rpc,         \* where each reader is, then what its client got
  modid,       \* the id it asks for, 0 before
  known,       \* readers that have the id from an answer of the server
  unread,      \* parts of the mod still to be read
  found,       \* parts that were there when they were read
  broken       \* readers one of whose sessions failed

readers == <<cacheMutex, rpc, modid, known, unread, found, broken>>
allVars == <<vars, readers>>

\* The row of DATA.MOD and the sections.
Parts == {"mod"} \cup Sections

ReadsInit ==
  /\ Init
  /\ cacheMutex = {}
  /\ rpc = [r \in Readers |-> "idle"]
  /\ modid = [r \in Readers |-> 0]
  /\ known = {}
  /\ unread = [r \in Readers |-> {}]
  /\ found = [r \in Readers |-> {}]
  /\ broken = {}

RGoto(r, label) == rpc' = [rpc EXCEPT ![r] = label]

\* The ids a client can learn: get_mods lists rows, get_mod_metadata gives the
\* newest one by name or by name and version.  All of them read what is
\* committed.
IdsInProgress == {m.id : m \in modRows} \cup ({modId[q] : q \in Requests} \ {0})
IdsListed ==
  {m.id : m \in UNION {GetMods(all, AllNames) : all \in BOOLEAN}}
  \cup {FirstRow(RowsByName(n)).id : n \in {m.name : m \in GetMods(FALSE, AllNames)}}
  \cup {FirstRow(RowsByVersion(m.name, m.version)).id : m \in modRows}

\* /data/getMods or /data/getModData, then /data/getMod with that id.
AskListed(r) ==
  /\ rpc[r] = "idle"
  /\ \E id \in IdsListed : modid' = [modid EXCEPT ![r] = id]
  /\ known' = known \cup {r}
  /\ RGoto(r, "asked")
  /\ UNCHANGED <<vars, cacheMutex, unread, found, broken>>

\* An id from elsewhere: a client may ask for any number.
AskById(r) ==
  /\ rpc[r] = "idle"
  /\ \E id \in 1..MaxId : modid' = [modid EXCEPT ![r] = id]
  /\ RGoto(r, "asked")
  /\ UNCHANGED <<vars, cacheMutex, known, unread, found, broken>>

\* getMod takes the mutex and db::get_mod starts its readers.
Lock(r) ==
  /\ rpc[r] = "asked"
  /\ cacheMutex = {}
  /\ cacheMutex' = {r}
  /\ unread' = [unread EXCEPT ![r] = Parts]
  /\ RGoto(r, "reading")
  /\ UNCHANGED <<vars, modid, known, found, broken>>

Visible(id, part) ==
  IF part = "mod" THEN \E m \in modRows : m.id = id ELSE <<id, part>> \in content

\* One SELECT.  The default packs are read by the thread that has read the row.
ReadPart(r, part) ==
  /\ rpc[r] = "reading"
  /\ part \in unread[r]
  /\ part = "defaultPacks" => "mod" \notin unread[r]
  /\ unread' = [unread EXCEPT ![r] = @ \ {part}]
  /\ found' = [found EXCEPT ![r] =
                IF Visible(modid[r], part) THEN @ \cup {part} ELSE @]
  /\ UNCHANGED <<vars, cacheMutex, rpc, modid, known, broken>>

\* Its session cannot be opened, or fails.
PartFails(r, part) ==
  /\ rpc[r] = "reading"
  /\ part \in unread[r]
  /\ part = "defaultPacks" => "mod" \notin unread[r]
  /\ unread' = [unread EXCEPT ![r] = @ \ {part}]
  /\ broken' = broken \cup {r}
  /\ UNCHANGED <<vars, cacheMutex, rpc, modid, known, found>>

\* The first future whose get() throws ends db::get_mod, and the destructors of
\* the others still wait for their threads; the mutex is released either way.
\* An empty section is no error, a missing row is.
RowRead(r) == "mod" \notin unread[r]
AllRead(r) == unread[r] = {}

IgnoresMissingRow(r) == r \notin broken
Succeeds(r) == r \notin broken /\ "mod" \in found[r]

Result(r) ==
  /\ RGoto(r, IF Succeeds(r) THEN "served" ELSE "error")
  /\ found' = [found EXCEPT ![r] = IF Succeeds(r) THEN @ ELSE {}]

FinishLocked(r) ==
  /\ rpc[r] = "reading"
  /\ AllRead(r)
  /\ cacheMutex' = IF Succeeds(r) THEN {} ELSE cacheMutex
  /\ Result(r)
  /\ UNCHANGED <<vars, modid, known, unread, broken>>
Finish(r) ==
  /\ rpc[r] = "reading"
  /\ AllRead(r)
  /\ cacheMutex' = {}
  /\ Result(r)
  /\ UNCHANGED <<vars, modid, known, unread, broken>>

\* The process dies with all its handlers.
CrashAll ==
  /\ Crash
  /\ cacheMutex' = {}
  /\ LET dying == {r \in Readers : rpc[r] \in {"asked", "reading"}}
     IN /\ rpc' = [r \in Readers |-> IF r \in dying THEN "lost" ELSE rpc[r]]
        /\ modid' = [r \in Readers |-> IF r \in dying THEN 0 ELSE modid[r]]
        /\ unread' = [r \in Readers |-> {}]
        /\ found' = [r \in Readers |-> IF r \in dying THEN {} ELSE found[r]]
        /\ known' = known \ dying
        /\ broken' = broken \ dying

ReaderStep(r) == Lock(r) \/ (\E part \in Parts : ReadPart(r, part)) \/ Finish(r)

Reader(r) ==
  \/ AskListed(r) \/ AskById(r) \/ ReaderStep(r)
  \/ \E part \in Parts : PartFails(r, part)

RDone == {"served", "error", "lost"}

ReadsNext ==
  \/ (\E q \in Requests : Request(q)) /\ UNCHANGED readers
  \/ \E r \in Readers : Reader(r)
  \/ CrashAll
  \/ AllAnswered /\ (\A r \in Readers : rpc[r] \in RDone) /\ UNCHANGED readers

ReadsSpec == ReadsInit /\ [][ReadsNext]_allVars

\* Readers run; nothing is assumed of the uploads.
ReadsFairness == \A r \in Readers : WF_allVars(ReaderStep(r))
ReadsLiveSpec == ReadsSpec /\ ReadsFairness
-----------------------------------------------------------------------------
\* Each reader variable has its type, and cacheMutex is held by the one reader
\* that is inside getMod: there are never two.
ReadsTypeOK ==
  /\ cacheMutex \in SUBSET Readers
  /\ \A r, s \in cacheMutex : r = s
  /\ \A r \in Readers : r \in cacheMutex <=> rpc[r] = "reading"
  /\ rpc \in [Readers -> RDone \cup {"idle", "asked", "reading"}]
  /\ modid \in [Readers -> 0..MaxId]
  /\ known \subseteq Readers
  /\ unread \in [Readers -> SUBSET Parts]
  /\ found \in [Readers -> SUBSET Parts]
  /\ broken \subseteq Readers

\* Although its parts come from different states of the store, a mod whose id
\* the client got from the server is served with its row and all its sections,
\* or fails only because a session did.
KnownModServedWhole ==
  \A r \in known :
    /\ rpc[r] = "served" => found[r] = Parts
    /\ rpc[r] = "error" => r \in broken

\* What was served under any id has its row in MOD, now and later: an id
\* answered once never dangles, and an id that was rolled back is never served.
\* (Of the sections it says nothing: an id that the server has not told yet may
\* be served in pieces, if its upload commits in between.)
ServedIsStored ==
  \A r \in Readers : rpc[r] = "served" =>
    \E m \in modRows : m.id = modid[r] /\ \A q \in Requests : modId[q] # m.id

\* Every getMod is answered, whatever the uploads do: readers wait for one
\* another at cacheMutex only, never for an upload's locks.
EveryReadAnswered ==
  \A r \in Readers : rpc[r] = "asked" ~> rpc[r] \in RDone
-----------------------------------------------------------------------------
(***************************************************************************)
(* The inductive invariant behind the three invariants above, on top of    *)
(* that of ModStore: what a reader has found so far.                       *)
(***************************************************************************)

ReadersInv ==
  \A r \in Readers :
    /\ rpc[r] = "idle" => r \notin known
    /\ r \in known \/ "mod" \in found[r] => \E m \in modRows : m.id = modid[r]
    /\ r \in known /\ rpc[r] = "reading" =>
         r \in broken \/ found[r] \cup unread[r] = Parts
    /\ rpc[r] \in {"idle", "asked"} => found[r] = {}
    /\ rpc[r] = "served" => "mod" \in found[r]

ReadsIInv == IInv /\ ReadsTypeOK /\ ReadersInv /\ KnownModServedWhole
=============================================================================
