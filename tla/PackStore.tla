----------------------------- MODULE PackStore -----------------------------
(***************************************************************************)
(* Resource packs: db::upload_pack and upload_pack2, get_pack_metadata,    *)
(* get_resource_pack and list_packs of src/db/Resource.cpp with their REST *)
(* functions in src/ResourcePacks.cpp.                                     *)
(*                                                                         *)
(* Both uploads follow the protocol of ModStore on RESOURCE.PACK instead   *)
(* of DATA.MOD: submitPackMetadata expires and inserts, then come the text *)
(* and the image resources, then the commit, on the same Session and       *)
(* Transaction.  This module takes them from there, with PackSections as   *)
(* the pipeline.  What it adds is the two encodings of images and the      *)
(* readers, which are nothing like those of mods: get_resource_pack reads  *)
(* the row first and then, one after the other and each on a session of    *)
(* its own, the resources.                                                 *)
(*                                                                         *)
(* As in ModStore, a definition just above another one of a similar name   *)
(* that no behaviour uses is a wrong coding of it.                         *)
(***************************************************************************)
EXTENDS ModStore

CONSTANTS Readers,   \* clients that download a pack
          Protocols  \* what a client may put into packMetadata.protocol

PackSections == <<"text", "images">>

ASSUME PackPipelineAssumption == Pipeline = PackSections

VARIABLES
  zipped,    \* requests whose body is no JSON and goes to upload_pack2
  protocol,  \* the protocol in the metadata of each request
  rpc,       \* where each reader is, then what its client got
  wanted,    \* the id of the pack it is after, 0 before
  asked,     \* the name and version it looks up, if it does
  known,     \* readers that have the id from an answer of the server
  read       \* the sections it got in full

uploads == <<zipped, protocol>>
readers == <<rpc, wanted, asked, known, read>>
allVars == <<vars, uploads, readers>>

PackInit ==
  /\ Init
  /\ zipped \in SUBSET Requests
  /\ protocol \in [Requests -> Protocols]
  /\ rpc = [r \in Readers |-> "idle"]
  /\ wanted = [r \in Readers |-> 0]
  /\ asked = [r \in Readers |-> <<>>]
  /\ known = {}
  /\ read = [r \in Readers |-> {}]

RGoto(r, label) == rpc' = [rpc EXCEPT ![r] = label]

\* upload_pack stores the client's protocol, upload_pack2 always 1.
ClientProtocol(q) == protocol[q]
StoredProtocol(q) == IF q \in zipped THEN 1 ELSE protocol[q]

\* submitImageResources writes chunks of text, submitImageResources2 blobs.
Encoding(q) == IF q \in zipped THEN "blobs" ELSE "chunks"

\* get_resource_pack: what it reads the images as.  There is no third branch.
ReadAs(q) ==
  CASE StoredProtocol(q) = 0 -> "chunks"
    [] StoredProtocol(q) = 1 -> "blobs"
    [] OTHER -> "nothing"

Stored(id) == \E p \in modRows : p.id = id
Uploader(id) == (CHOOSE p \in modRows : p.id = id).by

\* /resource/getMetadata with a name and a version.
AskByVersion(r) ==
  /\ rpc[r] = "idle"
  /\ \E q \in Requests : asked' = [asked EXCEPT ![r] = <<NameOf[q], VersionOf[q]>>]
  /\ RGoto(r, "lookup")
  /\ UNCHANGED <<vars, uploads, wanted, known, read>>

\* The first SELECT of get_pack_metadata.  It has no order, so any of the rows
\* may come first, those expired long ago included.
RowsOfName(name, version) == RowsByName(name)
RowsAsked(name, version) == RowsByVersion(name, version)

LookUp(r) ==
  /\ rpc[r] = "lookup"
  /\ \E p \in RowsAsked(asked[r][1], asked[r][2]) :
       wanted' = [wanted EXCEPT ![r] = p.id]
  /\ RGoto(r, "describe")
  /\ UNCHANGED <<vars, uploads, asked, known, read>>

\* The check for NOT_FOUND counts result sets, of which there is always one,
\* and lets an empty one pass: rows().at(0) throws out_of_range.
LookUpFindsNone(r) ==
  /\ rpc[r] = "lookup"
  /\ RowsAsked(asked[r][1], asked[r][2]) = {}
  /\ RGoto(r, "outOfRange")
  /\ UNCHANGED <<vars, uploads, wanted, asked, known, read>>

\* /resource/getMetadata or /resource/getPack with an id from elsewhere.
AskById(r) ==
  /\ rpc[r] = "idle"
  /\ \E id \in 1..MaxId : wanted' = [wanted EXCEPT ![r] = id]
  /\ RGoto(r, "describe") \/ RGoto(r, "metadata")
  /\ UNCHANGED <<vars, uploads, asked, known, read>>

\* /resource/listPacks, with or without the old ones; the client picks one.
IdsInProgress(old) ==
  {p.id : p \in GetMods(old, AllNames)} \cup ({modId[q] : q \in Requests} \ {0})
IdsListed(old) == {p.id : p \in GetMods(old, AllNames)}

ListPacks(r) ==
  /\ rpc[r] = "idle"
  /\ \E old \in BOOLEAN : \E id \in IdsListed(old) : wanted' = [wanted EXCEPT ![r] = id]
  /\ known' = known \cup {r}
  /\ RGoto(r, "described")
  /\ UNCHANGED <<vars, uploads, asked, read>>

\* The second SELECT of get_pack_metadata, which ends /resource/getMetadata.
Describe(r) ==
  /\ rpc[r] = "describe"
  /\ Stored(wanted[r])
  /\ known' = known \cup {r}
  /\ RGoto(r, "described")
  /\ UNCHANGED <<vars, uploads, wanted, asked, read>>

\* /resource/getPack with the id from the answer, any time later.
GetDescribed(r) ==
  /\ rpc[r] = "described"
  /\ RGoto(r, "metadata")
  /\ UNCHANGED <<vars, uploads, wanted, asked, known, read>>

\* The same SELECT at the start of get_resource_pack.
ReadMetadata(r) ==
  /\ rpc[r] = "metadata"
  /\ Stored(wanted[r])
  /\ RGoto(r, "text")
  /\ UNCHANGED <<vars, uploads, wanted, asked, known, read>>

\* Its check for NOT_FOUND is as blind as the first: the loop over no rows
\* falls through to the last line of get_pack_metadata.
FindsNone(r) ==
  /\ rpc[r] \in {"describe", "metadata"}
  /\ ~Stored(wanted[r])
  /\ RGoto(r, "shouldNotHappen")
  /\ UNCHANGED <<vars, uploads, wanted, asked, known, read>>

\* get_text_resources.
ReadText(r) ==
  /\ rpc[r] = "text"
  /\ read' = [read EXCEPT ![r] = IF <<wanted[r], "text">> \in content THEN {"text"} ELSE {}]
  /\ RGoto(r, "images")
  /\ UNCHANGED <<vars, uploads, wanted, asked, known>>

\* get_image_resources or get_image_resources2.  Blobs read as chunks are
\* images without data; chunks read as blobs are NULLs, and as_blob throws.
ReadImages(r) ==
  LET q == Uploader(wanted[r])
      whole == ReadAs(q) = Encoding(q) /\ <<wanted[r], "images">> \in content
  IN /\ rpc[r] = "images"
     /\ ReadAs(q) = "blobs" => Encoding(q) = "blobs"
     /\ read' = [read EXCEPT ![r] = IF whole THEN @ \cup {"images"} ELSE @]
     /\ RGoto(r, "served")
     /\ UNCHANGED <<vars, uploads, wanted, asked, known>>

ImagesAreNull(r) ==
  LET q == Uploader(wanted[r])
  IN /\ rpc[r] = "images"
     /\ ReadAs(q) = "blobs" /\ Encoding(q) = "chunks"
     /\ read' = [read EXCEPT ![r] = {}]
     /\ RGoto(r, "error")
     /\ UNCHANGED <<vars, uploads, wanted, asked, known>>

InCall == {"lookup", "describe", "metadata", "text", "images"}

\* A session cannot be opened, or a SELECT fails.
ReadFails(r) ==
  /\ rpc[r] \in InCall
  /\ RGoto(r, "error")
  /\ read' = [read EXCEPT ![r] = {}]
  /\ UNCHANGED <<vars, uploads, wanted, asked, known>>

\* The death of the server ends every call; a client between two calls is none
\* the wiser.
CrashAll ==
  /\ Crash
  /\ rpc' = [r \in Readers |-> IF rpc[r] \in InCall THEN "lost" ELSE rpc[r]]
  /\ read' = [r \in Readers |-> IF rpc[r] \in InCall THEN {} ELSE read[r]]
  /\ UNCHANGED <<uploads, wanted, asked, known>>

Reader(r) ==
  \/ AskByVersion(r) \/ LookUp(r) \/ LookUpFindsNone(r) \/ AskById(r) \/ ListPacks(r)
  \/ Describe(r) \/ GetDescribed(r) \/ ReadMetadata(r) \/ FindsNone(r)
  \/ ReadText(r) \/ ReadImages(r) \/ ImagesAreNull(r) \/ ReadFails(r)

Finished == {"served", "error", "outOfRange", "shouldNotHappen", "lost"}

AllDone ==
  /\ AllAnswered
  /\ \A r \in Readers : rpc[r] \in Finished
  /\ UNCHANGED <<uploads, readers>>

PackNext ==
  \/ (\E q \in Requests : Request(q)) /\ UNCHANGED <<uploads, readers>>
  \/ \E r \in Readers : Reader(r)
  \/ CrashAll
  \/ AllDone

PackSpec == PackInit /\ [][PackNext]_allVars
-----------------------------------------------------------------------------
\* A pack that is served has its text and its images, by whatever route it was
\* uploaded, under whatever id it was asked for and however its upload was
\* under way; only a pack of a protocol above 1 is served without its images.
PackServedWhole ==
  \A r \in Readers : rpc[r] = "served" =>
    /\ "text" \in read[r]
    /\ StoredProtocol(Uploader(wanted[r])) \in {0, 1} => "images" \in read[r]

\* A client that looks a pack up by name and version and then downloads it
\* gets one of that name and version, whatever was uploaded in between.
LookupServesAsked ==
  \A r \in Readers : rpc[r] \in {"described", "served"} /\ asked[r] # <<>> =>
    \E p \in modRows : p.id = wanted[r] /\ <<p.name, p.version>> = asked[r]

\* An id the server has told a client stays good: get_pack_metadata finds its
\* row whatever is replaced, fails or dies before the client uses it.
KnownPackFound == \A r \in known : rpc[r] # "shouldNotHappen"

\* What the last line of get_pack_metadata says of itself.
ShouldNotHappen == \A r \in Readers : rpc[r] # "shouldNotHappen"
-----------------------------------------------------------------------------
(***************************************************************************)
(* The inductive invariant behind the three invariants above, on top of    *)
(* that of ModStore.                                                       *)
(***************************************************************************)

PackTypeOK ==
  /\ rpc \in [Readers -> InCall \cup Finished \cup {"idle", "described"}]
  /\ wanted \in [Readers -> Nat]
  /\ asked \in [Readers -> {<<>>} \cup {<<NameOf[q], VersionOf[q]>> : q \in Requests}]
  /\ known \subseteq Readers
  /\ read \in [Readers -> SUBSET {"text", "images"}]

\* A reader past a SELECT that found its pack is after a stored one.
FoundInv ==
  \A r \in Readers :
    /\ rpc[r] \in {"described", "text", "images", "served"} => Stored(wanted[r])
    /\ r \in known => /\ Stored(wanted[r])
                      /\ rpc[r] \notin {"idle", "lookup", "describe", "shouldNotHappen"}

\* One that looked a pack up is after one of that name and version.
AskedInv ==
  \A r \in Readers :
    /\ rpc[r] = "idle" => asked[r] = <<>>
    /\ rpc[r] = "lookup" => \E q \in Requests : asked[r] = <<NameOf[q], VersionOf[q]>>
    /\ rpc[r] \in {"describe", "described", "metadata", "text", "images", "served"}
       /\ asked[r] # <<>> =>
         \E p \in modRows : p.id = wanted[r] /\ <<p.name, p.version>> = asked[r]

PackReadInv == \A r \in Readers : rpc[r] = "images" => "text" \in read[r]

PackIInv ==
  IInv /\ PackTypeOK /\ FoundInv /\ AskedInv /\ PackReadInv /\ PackServedWhole
=============================================================================
