-------------------------- MODULE PackStoreProofs ---------------------------
(***************************************************************************)
(* Proofs about PackStore for any requests, readers and protocols: packs   *)
(* are served with their text and images, lookups serve what was asked     *)
(* for, and ids that were given out stay good.  As for ModReads, all of it *)
(* rests on commits that are whole and on rows that stay.                  *)
(***************************************************************************)
EXTENDS PackStore, ModStoreProofs

LEMMA PackInitIInv == PackInit => PackIInv
<1> SUFFICES ASSUME PackInit PROVE PackIInv
  OBVIOUS
<1>1. IInv
  BY InitIInv DEF PackInit
<1>2. PackTypeOK
  BY DEF PackInit, PackTypeOK
<1>3. FoundInv /\ AskedInv /\ PackReadInv /\ PackServedWhole
  BY DEF PackInit, FoundInv, AskedInv, PackReadInv, PackServedWhole
<1>4. QED
  BY <1>1, <1>2, <1>3 DEF PackIInv

(***************************************************************************)
(* The store under the readers                                             *)
(***************************************************************************)

LEMMA PackStoreRuns == PackNext => [Next]_vars
<1>1. ASSUME NEW r \in Readers, Reader(r) PROVE UNCHANGED vars
  BY <1>1 DEF Reader, AskByVersion, LookUp, LookUpFindsNone, AskById, ListPacks, Describe,
     GetDescribed, ReadMetadata, FindsNone, ReadText, ReadImages, ImagesAreNull, ReadFails
<1>2. QED
  BY <1>1 DEF PackNext, Next, CrashAll, AllDone

LEMMA PacksStay ==
  ASSUME [Next]_vars
  PROVE  modRows \subseteq modRows'
  BY StoreSteps DEF store, Commit, CommitUnanswered, MakeVisible

\* A row has its id for itself, so who uploaded a stored pack is clear ...
LEMMA UploaderOf ==
  ASSUME IInv, NEW p \in modRows
  PROVE  Uploader(p.id) = p.by
<1>1. \A r, s \in modRows : r.id = s.id => r = s
  BY DEF IInv, IdsInv
<1>2. (CHOOSE r \in modRows : r.id = p.id) = p
  BY <1>1
<1>3. QED
  BY <1>2 DEF Uploader

\* ... and stays so for a reader that is after it.
LEMMA UploaderStays ==
  ASSUME IInv, [Next]_vars, NEW r, wanted'[r] = wanted[r], Stored(wanted[r])
  PROVE  Stored(wanted[r])' /\ Uploader(wanted[r])' = Uploader(wanted[r])
<1>1. PICK p \in modRows : p.id = wanted[r]
  BY DEF Stored
<1>2. p \in modRows' /\ p.id = wanted'[r]
  BY <1>1, PacksStay
<1>3. \A a, b \in modRows' : a.id = b.id => a = b
  BY StepIInv DEF IInv, IdsInv
<1>4. (CHOOSE a \in modRows' : a.id = wanted'[r]) = p
  BY <1>2, <1>3
<1>5. Uploader(wanted[r]) = p.by
  BY <1>1, UploaderOf
<1>6. QED
  BY <1>2, <1>4, <1>5 DEF Stored, Uploader

\* Both sections of a stored pack are there.
LEMMA SectionsStored ==
  ASSUME IInv, NEW id, Stored(id)
  PROVE  <<id, "text">> \in content /\ <<id, "images">> \in content
<1>1. "text" \in Sections /\ "images" \in Sections
  <2>1. Pipeline[1] = "text" /\ Pipeline[2] = "images" /\ DOMAIN Pipeline = 1..2
    BY PackPipelineAssumption DEF PackSections
  <2>2. QED
    BY <2>1 DEF Sections
<1>2. PICK p \in modRows : p.id = id
  BY DEF Stored
<1>3. QED
  BY <1>1, <1>2 DEF IInv, StoredWhole

(***************************************************************************)
(* Steps of others                                                         *)
(***************************************************************************)

\* What a reader has is as good as before while it does not move itself.
Rests(r) ==
  /\ rpc'[r] = rpc[r] /\ wanted'[r] = wanted[r] /\ asked'[r] = asked[r]
  /\ read'[r] = read[r] /\ (r \in known' <=> r \in known)

\* The three invariants and what else holds of one reader.
Good(r) ==
  /\ rpc[r] \in {"described", "text", "images", "served"} => Stored(wanted[r])
  /\ r \in known => /\ Stored(wanted[r])
                    /\ rpc[r] \notin {"idle", "lookup", "describe", "shouldNotHappen"}
  /\ rpc[r] = "idle" => asked[r] = <<>>
  /\ rpc[r] = "lookup" => \E q \in Requests : asked[r] = <<NameOf[q], VersionOf[q]>>
  /\ rpc[r] \in {"describe", "described", "metadata", "text", "images", "served"}
     /\ asked[r] # <<>> =>
       \E p \in modRows : p.id = wanted[r] /\ <<p.name, p.version>> = asked[r]
  /\ rpc[r] = "images" => "text" \in read[r]
  /\ rpc[r] = "served" =>
       /\ "text" \in read[r]
       /\ StoredProtocol(Uploader(wanted[r])) \in {0, 1} => "images" \in read[r]

LEMMA GoodIsInv ==
  (\A r \in Readers : Good(r)) <=> FoundInv /\ AskedInv /\ PackReadInv /\ PackServedWhole
  BY DEF Good, FoundInv, AskedInv, PackReadInv, PackServedWhole

LEMMA RestsGood ==
  ASSUME PackIInv, [Next]_vars, UNCHANGED uploads, NEW r \in Readers, Rests(r)
  PROVE  Good(r)'
<1>1. IInv /\ Good(r)
  BY GoodIsInv DEF PackIInv
<1>2. modRows \subseteq modRows'
  BY PacksStay
<1>3. ASSUME Stored(wanted[r])
      PROVE  Stored(wanted[r])' /\ Uploader(wanted[r])' = Uploader(wanted[r])
  BY <1>1, <1>3, UploaderStays DEF Rests
<1>4. rpc'[r] \in {"described", "text", "images", "served"} => Stored(wanted[r])'
  BY <1>1, <1>3 DEF Good, Rests
<1>5. r \in known' => Stored(wanted[r])'
  BY <1>1, <1>3 DEF Good, Rests
<1>6. rpc'[r] = "served" => StoredProtocol(Uploader(wanted[r]))' = StoredProtocol(Uploader(wanted[r]))
  BY <1>1, <1>3 DEF Good, Rests, StoredProtocol, uploads
<1>7. rpc'[r] = "served" =>
        /\ "text" \in read'[r]
        /\ StoredProtocol(Uploader(wanted[r]))' \in {0, 1} => "images" \in read'[r]
  <2>1. rpc'[r] = rpc[r] /\ read'[r] = read[r]
    BY DEF Rests
  <2>2. QED
    BY <1>1, <1>6, <2>1 DEF Good
<1>8. (rpc[r] = "images" => "text" \in read[r])'
  BY <1>1 DEF Good, Rests
<1>9. /\ rpc'[r] = "idle" => asked'[r] = <<>>
      /\ rpc'[r] = "lookup" => \E q \in Requests : asked'[r] = <<NameOf[q], VersionOf[q]>>
      /\ rpc'[r] \in {"describe", "described", "metadata", "text", "images", "served"}
         /\ asked'[r] # <<>> =>
           \E p \in modRows' : p.id = wanted'[r] /\ <<p.name, p.version>> = asked'[r]
  BY <1>1, <1>2 DEF Good, Rests
<1>10. r \in known' => rpc'[r] \notin {"idle", "lookup", "describe", "shouldNotHappen"}
  BY <1>1 DEF Good, Rests
<1>11. QED
  BY <1>4, <1>5, <1>7, <1>8, <1>9, <1>10 DEF Good

(***************************************************************************)
(* Steps of a reader                                                       *)
(***************************************************************************)

\* A step of a reader moves that reader alone, and every reader keeps its type.
LEMMA ReaderAlone ==
  ASSUME PackIInv, NEW r \in Readers, Reader(r)
  PROVE  /\ PackTypeOK'
         /\ UNCHANGED vars /\ UNCHANGED uploads
         /\ \A s \in Readers \ {r} : Rests(s)
<1> USE DEF PackIInv, PackTypeOK, Rests, RGoto, InCall, Finished
<1>1. \A p \in modRows : p.id \in Nat
  BY BoundsAssumption DEF IInv, TypeOK, Row
<1>2. CASE AskByVersion(r)
  BY <1>2 DEF AskByVersion
<1>3. CASE LookUp(r)
  BY <1>1, <1>3 DEF LookUp, RowsAsked, RowsByVersion
<1>4. CASE LookUpFindsNone(r)
  BY <1>4 DEF LookUpFindsNone
<1>5. CASE AskById(r)
  BY <1>5, BoundsAssumption DEF AskById
<1>6. CASE ListPacks(r)
  BY <1>1, <1>6 DEF ListPacks, IdsListed, GetMods
<1>7. CASE Describe(r) \/ GetDescribed(r) \/ ReadMetadata(r) \/ FindsNone(r)
  <2>1. CASE Describe(r)
    BY <2>1 DEF Describe
  <2>2. CASE GetDescribed(r)
    BY <2>2 DEF GetDescribed
  <2>3. CASE ReadMetadata(r)
    BY <2>3 DEF ReadMetadata
  <2>4. CASE FindsNone(r)
    BY <2>4 DEF FindsNone
  <2>5. QED
    BY <1>7, <2>1, <2>2, <2>3, <2>4
<1>8. CASE ReadText(r)
  BY <1>8 DEF ReadText
<1>9. CASE ReadImages(r)
  <2>1. read[r] \in SUBSET {"text", "images"}
    OBVIOUS
  <2>2. \E S \in SUBSET {"text", "images"} : read' = [read EXCEPT ![r] = S]
    BY <1>9, <2>1 DEF ReadImages
  <2>3. QED
    BY <1>9, <2>2 DEF ReadImages
<1>10. CASE ImagesAreNull(r) \/ ReadFails(r)
  BY <1>10 DEF ImagesAreNull, ReadFails
<1>11. QED
  BY <1>2, <1>3, <1>4, <1>5, <1>6, <1>7, <1>8, <1>9, <1>10 DEF Reader

\* Looking a pack up, by name, in a list or by an id.
LEMMA SearchGood ==
  ASSUME PackIInv, NEW r \in Readers,
         \/ AskByVersion(r) \/ LookUp(r) \/ LookUpFindsNone(r) \/ AskById(r) \/ ListPacks(r)
         \/ Describe(r) \/ GetDescribed(r) \/ ReadMetadata(r) \/ FindsNone(r) \/ ReadFails(r)
  PROVE  Good(r)'
<1>1. Good(r)
  BY GoodIsInv DEF PackIInv
<1> USE <1>1 DEF PackIInv, PackTypeOK, Good, RGoto, Stored, vars, uploads, store
<1>2. CASE AskByVersion(r)
  BY <1>2 DEF AskByVersion
<1>3. CASE LookUp(r)
  BY <1>3 DEF LookUp, RowsAsked, RowsByVersion
<1>4. CASE LookUpFindsNone(r)
  BY <1>4 DEF LookUpFindsNone
<1>5. CASE AskById(r)
  BY <1>5 DEF AskById
<1>6. CASE ListPacks(r)
  BY <1>6 DEF ListPacks, IdsListed, GetMods
<1>7. CASE Describe(r)
  BY <1>7 DEF Describe
<1>8. CASE GetDescribed(r)
  BY <1>8 DEF GetDescribed
<1>9. CASE ReadMetadata(r)
  BY <1>9 DEF ReadMetadata
<1>10. CASE FindsNone(r)
  BY <1>10 DEF FindsNone
<1>11. CASE ReadFails(r)
  BY <1>11 DEF ReadFails, InCall
<1>12. QED
  BY <1>2, <1>3, <1>4, <1>5, <1>6, <1>7, <1>8, <1>9, <1>10, <1>11

\* Reading its resources.
LEMMA ReadGood ==
  ASSUME PackIInv, NEW r \in Readers, ReadText(r) \/ ReadImages(r) \/ ImagesAreNull(r)
  PROVE  Good(r)'
<1>1. Good(r) /\ IInv
  BY GoodIsInv DEF PackIInv
<1>2. UNCHANGED <<modRows, content, wanted, asked, known, zipped, protocol>>
  BY DEF ReadText, ReadImages, ImagesAreNull, vars, uploads, store
<1>3. ASSUME rpc[r] \in {"text", "images"}
      PROVE  /\ Stored(wanted[r])
             /\ <<wanted[r], "text">> \in content /\ <<wanted[r], "images">> \in content
  BY <1>1, <1>3, SectionsStored DEF Good
<1> USE DEF PackIInv, PackTypeOK, RGoto
<1>4. CASE ReadText(r)
  <2>1. rpc'[r] = "images" /\ read'[r] = {"text"} /\ rpc[r] = "text"
    BY <1>3, <1>4 DEF ReadText
  <2>2. QED
    BY <1>1, <1>2, <2>1 DEF Good, Stored
<1>5. CASE ImagesAreNull(r)
  <2>1. rpc'[r] = "error" /\ rpc[r] = "images"
    BY <1>5 DEF ImagesAreNull
  <2>2. QED
    BY <1>1, <1>2, <2>1 DEF Good, Stored
<1>6. CASE ReadImages(r)
  <2> DEFINE q == Uploader(wanted[r])
  <2>1. rpc'[r] = "served" /\ rpc[r] = "images"
    BY <1>6 DEF ReadImages
  <2>2. "text" \in read'[r]
    BY <1>1, <1>6, <2>1 DEF ReadImages, Good
  <2>3. StoredProtocol(q) \in {0, 1} => ReadAs(q) = Encoding(q)
    BY <1>6 DEF ReadImages, StoredProtocol, ReadAs, Encoding
  <2>4. StoredProtocol(q) \in {0, 1} => "images" \in read'[r]
    BY <1>3, <1>6, <2>1, <2>3 DEF ReadImages
  <2>5. StoredProtocol(Uploader(wanted[r]))' = StoredProtocol(q)
    <3>1. [Next]_vars /\ wanted'[r] = wanted[r] /\ Stored(wanted[r])
      BY <1>2, <1>3, <1>6, <2>1 DEF ReadImages
    <3>2. Uploader(wanted[r])' = q
      BY <1>1, <3>1, UploaderStays
    <3>3. QED
      BY <1>2, <3>2 DEF StoredProtocol
  <2>6. QED
    BY <1>1, <1>2, <2>1, <2>2, <2>4, <2>5 DEF Good, Stored
<1>7. QED
  BY <1>4, <1>5, <1>6

(***************************************************************************)
(* Every step                                                              *)
(***************************************************************************)

LEMMA CrashGood ==
  ASSUME PackIInv, CrashAll
  PROVE  PackTypeOK' /\ \A r \in Readers : Good(r)'
<1>1. PackTypeOK'
  BY DEF PackIInv, PackTypeOK, CrashAll, InCall, Finished
<1>2. [Next]_vars /\ UNCHANGED uploads
  BY DEF CrashAll, Next
<1>3. ASSUME NEW r \in Readers PROVE Good(r)'
  <2>1. CASE rpc[r] \notin InCall
    <3>1. Rests(r)
      BY <2>1 DEF Rests, CrashAll, PackIInv, PackTypeOK
    <3>2. QED
      BY <1>2, <3>1, RestsGood
  <2>2. CASE rpc[r] \in InCall
    <3>1. rpc'[r] = "lost" /\ UNCHANGED <<wanted, known>>
      BY <2>2 DEF CrashAll
    <3>2. r \in known => Stored(wanted[r])
      BY GoodIsInv DEF Good, PackIInv
    <3>3. r \in known' => Stored(wanted[r])'
      BY <1>2, <3>1, <3>2, PacksStay DEF Stored
    <3>4. QED
      BY <3>1, <3>3 DEF Good
  <2>3. QED
    BY <2>1, <2>2
<1>4. QED
  BY <1>1, <1>3

LEMMA PackStepIInv == PackIInv /\ [PackNext]_allVars => PackIInv'
<1> SUFFICES ASSUME PackIInv, [PackNext]_allVars PROVE PackIInv'
  OBVIOUS
<1>1. [Next]_vars
  BY PackStoreRuns DEF allVars
<1>2. IInv'
  BY <1>1, StepIInv DEF PackIInv
<1>3. PackTypeOK' /\ \A r \in Readers : Good(r)'
  <2>1. ASSUME UNCHANGED <<uploads, readers>>
        PROVE  PackTypeOK' /\ \A r \in Readers : Good(r)'
    <3>1. \A r \in Readers : Rests(r)
      BY <2>1 DEF Rests, readers
    <3>2. PackTypeOK'
      BY <2>1 DEF PackIInv, PackTypeOK, readers
    <3>3. QED
      BY <1>1, <2>1, <3>1, <3>2, RestsGood
  <2>2. ASSUME NEW r \in Readers, Reader(r)
        PROVE  PackTypeOK' /\ \A s \in Readers : Good(s)'
    <3>1. /\ PackTypeOK' /\ UNCHANGED uploads
          /\ \A s \in Readers \ {r} : Rests(s)
      BY <2>2, ReaderAlone
    <3>2. \A s \in Readers \ {r} : Good(s)'
      BY <1>1, <3>1, RestsGood
    <3>3. Good(r)'
      BY <2>2, SearchGood, ReadGood DEF Reader
    <3>4. QED
      BY <3>1, <3>2, <3>3
  <2>3. QED
    BY <2>1, <2>2, CrashGood DEF PackNext, AllDone, allVars
<1>4. (FoundInv /\ AskedInv /\ PackReadInv /\ PackServedWhole)'
  BY <1>3 DEF Good, FoundInv, AskedInv, PackReadInv, PackServedWhole
<1>5. QED
  BY <1>2, <1>3, <1>4 DEF PackIInv

\* The inductive invariant of the store, the types of the readers and what
\* each reader has found and read so far hold in every reachable state.
THEOREM PackInvariance == PackSpec => []PackIInv
BY PackInitIInv, PackStepIInv, PTL DEF PackSpec

\* get_resource_pack serves text and images of every pack it serves, but for
\* the images of protocols above 1, which neither of its two branches reads.
THEOREM PacksServedWhole == PackSpec => []PackServedWhole
<1>1. PackIInv => PackServedWhole
  BY DEF PackIInv
<1>2. QED
  BY <1>1, PackInvariance, PTL

\* What a client downloads after get_pack_metadata found it by name and
\* version is of that name and version.
THEOREM ServesAsked == PackSpec => []LookupServesAsked
<1>1. PackIInv => LookupServesAsked
  BY DEF PackIInv, AskedInv, LookupServesAsked
<1>2. QED
  BY <1>1, PackInvariance, PTL

\* get_pack_metadata finds the row of every id the server has told a client.
THEOREM KnownFound == PackSpec => []KnownPackFound
<1>1. PackIInv => KnownPackFound
  BY DEF PackIInv, PackTypeOK, FoundInv, KnownPackFound
<1>2. QED
  BY <1>1, PackInvariance, PTL
=============================================================================
