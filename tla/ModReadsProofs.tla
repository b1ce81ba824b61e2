--------------------------- MODULE ModReadsProofs ---------------------------
(***************************************************************************)
(* Proofs about ModReads for any requests, readers, sections and bounds:   *)
(* sixteen readers without a common snapshot give a client a whole mod.    *)
(* The argument: rows and sections are committed in one step and never go  *)
(* away (StoreGrows), so what an answer named is found part by part.       *)
(* The invariant of the store is that of ModStoreProofs.                   *)
(***************************************************************************)
EXTENDS ModReads, ModStoreProofs, WellFoundedInduction

(***************************************************************************)
(* The ids the server gives out                                            *)
(***************************************************************************)

\* A set of numbers has a least one.
LEMMA LeastNat ==
  ASSUME NEW T, T \subseteq Nat, T # {}
  PROVE  \E x \in T : \A y \in T : x <= y
<1> DEFINE R == {ss \in Nat \X Nat : ss[1] < ss[2]}
<1>1. IsWellFoundedOn(R, Nat)
  BY NatLessThanWellFounded DEF OpToRel
<1> HIDE DEF R
<1>2. PICK x \in T : \A y \in T : ~ (<<y, x>> \in R)
  BY <1>1, WFMin
<1>3. \A y \in T : ~ (y < x)
  BY <1>2 DEF R
<1>4. QED
  BY <1>3

\* The SELECT with the descending order gives one of the rows it finds.
LEMMA FirstRowFound ==
  ASSUME TypeOK, NEW found_rows, found_rows \subseteq modRows, found_rows # {}
  PROVE  FirstRow(found_rows) \in found_rows
<1> DEFINE T == {MaxId - s.id : s \in found_rows}
<1>1. \A s \in found_rows : s.id \in 1..MaxId
  BY DEF TypeOK, Row
<1>2. T \subseteq Nat /\ T # {}
  BY <1>1, BoundsAssumption
<1>3. PICK x \in T : \A y \in T : x <= y
  BY <1>2, LeastNat
<1>4. PICK s \in found_rows : x = MaxId - s.id
  OBVIOUS
<1>5. \A r \in found_rows : r.id <= s.id
  BY <1>1, <1>3, <1>4, BoundsAssumption
<1>6. QED
  BY <1>5 DEF FirstRow

\* All of them are ids of stored mods.
LEMMA ListedIsStored ==
  ASSUME IInv, NEW id \in IdsListed
  PROVE  id \in 1..MaxId /\ \E m \in modRows : m.id = id
<1>1. TypeOK
  BY DEF IInv
<1> SUFFICES \E m \in modRows : m.id = id
  BY <1>1 DEF TypeOK, Row
<1>2. CASE id \in {m.id : m \in UNION {GetMods(all, AllNames) : all \in BOOLEAN}}
  BY <1>2 DEF GetMods
<1>3. CASE id \in {FirstRow(RowsByName(n)).id : n \in {m.name : m \in GetMods(FALSE, AllNames)}}
  <2>1. PICK m \in GetMods(FALSE, AllNames) : id = FirstRow(RowsByName(m.name)).id
    BY <1>3
  <2>2. RowsByName(m.name) \subseteq modRows /\ m \in RowsByName(m.name)
    BY DEF RowsByName, GetMods
  <2>3. FirstRow(RowsByName(m.name)) \in RowsByName(m.name)
    BY <1>1, <2>2, FirstRowFound
  <2>4. QED
    BY <2>1, <2>2, <2>3
<1>4. CASE id \in {FirstRow(RowsByVersion(m.name, m.version)).id : m \in modRows}
  <2>1. PICK m \in modRows : id = FirstRow(RowsByVersion(m.name, m.version)).id
    BY <1>4
  <2>2. /\ RowsByVersion(m.name, m.version) \subseteq modRows
        /\ m \in RowsByVersion(m.name, m.version)
    BY DEF RowsByVersion
  <2>3. FirstRow(RowsByVersion(m.name, m.version)) \in RowsByVersion(m.name, m.version)
    BY <1>1, <2>2, FirstRowFound
  <2>4. QED
    BY <2>1, <2>2, <2>3
<1>5. QED
  BY <1>2, <1>3, <1>4 DEF IdsListed

(***************************************************************************)
(* The store under the readers                                             *)
(***************************************************************************)

LEMMA StoreRuns == ReadsNext => [Next]_vars
<1>1. ASSUME NEW r \in Readers, Reader(r) PROVE UNCHANGED vars
  BY <1>1 DEF Reader, ReaderStep, AskListed, AskById, Lock, ReadPart, PartFails, Finish
<1>2. QED
  BY <1>1 DEF ReadsNext, Next, CrashAll

\* What is stored stays, so later readers find what earlier ones did.
LEMMA StoreGrows ==
  ASSUME [Next]_vars
  PROVE  modRows \subseteq modRows' /\ content \subseteq content'
  BY StoreSteps DEF store, Commit, CommitUnanswered, MakeVisible

\* Of a stored mod everything is visible.
LEMMA AllVisible ==
  ASSUME IInv, NEW m \in modRows, NEW part \in Parts
  PROVE  Visible(m.id, part)
  BY DEF IInv, StoredWhole, Visible, Parts

LEMMA InitReadsIInv == ReadsInit => ReadsIInv
<1> SUFFICES ASSUME ReadsInit PROVE ReadsIInv
  OBVIOUS
<1>1. IInv
  BY InitIInv DEF ReadsInit
<1>2. ReadsTypeOK
  BY BoundsAssumption DEF ReadsInit, ReadsTypeOK, RDone
<1>3. ReadersInv /\ KnownModServedWhole
  BY DEF ReadsInit, ReadersInv, KnownModServedWhole
<1>4. QED
  BY <1>1, <1>2, <1>3 DEF ReadsIInv

LEMMA StepReadsTypeOK == ReadsIInv /\ [ReadsNext]_allVars => ReadsTypeOK'
<1> SUFFICES ASSUME ReadsIInv, [ReadsNext]_allVars PROVE ReadsTypeOK'
  OBVIOUS
<1> USE DEF RGoto, RDone
<1>1. ReadsTypeOK /\ ReadersInv /\ IInv
  BY DEF ReadsIInv
<1>2. CASE UNCHANGED readers
  BY <1>1, <1>2 DEF readers, ReadsTypeOK
<1>3. ASSUME NEW r \in Readers, AskListed(r) PROVE ReadsTypeOK'
  BY <1>1, <1>3, ListedIsStored DEF ReadsTypeOK, AskListed
<1>4. ASSUME NEW r \in Readers, AskById(r) PROVE ReadsTypeOK'
  BY <1>1, <1>4 DEF ReadsTypeOK, AskById
<1>5. ASSUME NEW r \in Readers, Lock(r) PROVE ReadsTypeOK'
  BY <1>1, <1>5 DEF ReadsTypeOK, Lock
<1>6. ASSUME NEW r \in Readers, NEW part \in Parts, ReadPart(r, part) PROVE ReadsTypeOK'
  <2>1. found' \in [Readers -> SUBSET Parts] /\ unread' \in [Readers -> SUBSET Parts]
    BY <1>1, <1>6 DEF ReadsTypeOK, ReadPart
  <2>2. QED
    BY <1>1, <1>6, <2>1 DEF ReadsTypeOK, ReadPart
<1>7. ASSUME NEW r \in Readers, NEW part \in Parts, PartFails(r, part) PROVE ReadsTypeOK'
  BY <1>1, <1>7 DEF ReadsTypeOK, PartFails
<1>8. ASSUME NEW r \in Readers, Finish(r) PROVE ReadsTypeOK'
  <2>1. cacheMutex = {r}
    BY <1>1, <1>8 DEF ReadsTypeOK, ReadersInv, Finish
  <2>2. \A s \in Readers : s # r => rpc[s] # "reading" /\ rpc'[s] = rpc[s]
    BY <1>1, <1>8, <2>1 DEF ReadsTypeOK, Finish, Result
  <2>3. rpc'[r] \in {"served", "error"} /\ rpc' \in [Readers -> RDone \cup {"idle", "asked", "reading"}]
    BY <1>1, <1>8 DEF ReadsTypeOK, Finish, Result
  <2>4. found' \in [Readers -> SUBSET Parts]
    BY <1>1, <1>8 DEF ReadsTypeOK, Finish, Result
  <2>5. cacheMutex' = {} /\ UNCHANGED <<modid, known, unread, broken>>
    BY <1>8 DEF Finish
  <2>6. \A s \in Readers : rpc'[s] # "reading"
    BY <2>2, <2>3
  <2>7. QED
    BY <1>1, <2>3, <2>4, <2>5, <2>6 DEF ReadsTypeOK
<1>9. CASE CrashAll
  BY <1>1, <1>9, BoundsAssumption DEF ReadsTypeOK, CrashAll
<1>10. QED
  BY <1>2, <1>3, <1>4, <1>5, <1>6, <1>7, <1>8, <1>9
  DEF ReadsNext, Reader, ReaderStep, allVars

(***************************************************************************)
(* The readers                                                             *)
(***************************************************************************)

\* What a reader knows or has found is still stored after any step of others.
LEMMA FoundStays ==
  ASSUME ReadsIInv, [Next]_vars, NEW r \in Readers,
         r \in known \/ "mod" \in found[r]
  PROVE  \E m \in modRows' : m.id = modid[r]
  BY StoreGrows DEF ReadsIInv, ReadersInv

LEMMA StepReaders ==
  ReadsIInv /\ [ReadsNext]_allVars => ReadersInv' /\ KnownModServedWhole'
<1> SUFFICES ASSUME ReadsIInv, [ReadsNext]_allVars
             PROVE  ReadersInv' /\ KnownModServedWhole'
  OBVIOUS
<1> USE DEF RGoto
<1>1. ReadsTypeOK /\ ReadersInv /\ KnownModServedWhole /\ IInv
  BY DEF ReadsIInv
<1>2. [Next]_vars
  BY StoreRuns DEF allVars
<1>3. CASE UNCHANGED readers
  BY <1>1, <1>2, <1>3, FoundStays DEF readers, ReadersInv, KnownModServedWhole
<1>4. ASSUME NEW r \in Readers, AskListed(r) PROVE ReadersInv' /\ KnownModServedWhole'
  <2>1. /\ rpc[r] = "idle" /\ rpc' = [rpc EXCEPT ![r] = "asked"] /\ known' = known \cup {r}
        /\ UNCHANGED <<modRows, cacheMutex, unread, found, broken>>
    BY <1>4 DEF AskListed, vars
  <2>2. PICK id \in IdsListed : modid' = [modid EXCEPT ![r] = id]
    BY <1>4 DEF AskListed
  <2>3. \E m \in modRows : m.id = modid'[r]
    BY <1>1, <2>2, ListedIsStored DEF ReadsTypeOK
  <2>4. found[r] = {}
    BY <1>1, <2>1 DEF ReadersInv
  <2>5. \A s \in Readers : s # r => modid'[s] = modid[s] /\ rpc'[s] = rpc[s]
    BY <1>1, <2>1, <2>2 DEF ReadsTypeOK
  <2>6. rpc'[r] = "asked"
    BY <1>1, <2>1 DEF ReadsTypeOK
  <2>7. QED
    BY <1>1, <2>1, <2>3, <2>4, <2>5, <2>6 DEF ReadersInv, KnownModServedWhole, ReadsTypeOK
<1>5. ASSUME NEW r \in Readers, AskById(r) PROVE ReadersInv' /\ KnownModServedWhole'
  <2>1. rpc[r] = "idle" /\ found[r] = {} /\ r \notin known
    BY <1>1, <1>5 DEF AskById, ReadersInv
  <2>2. /\ rpc' = [rpc EXCEPT ![r] = "asked"]
        /\ UNCHANGED <<modRows, cacheMutex, known, unread, found, broken>>
    BY <1>5 DEF AskById, vars
  <2>3. \A s \in Readers : s # r => modid'[s] = modid[s]
    BY <1>1, <1>5 DEF AskById, ReadsTypeOK
  <2>4. QED
    BY <1>1, <2>1, <2>2, <2>3 DEF ReadersInv, KnownModServedWhole, ReadsTypeOK
<1>6. ASSUME NEW r \in Readers, Lock(r) PROVE ReadersInv' /\ KnownModServedWhole'
  <2>1. /\ rpc[r] = "asked" /\ rpc' = [rpc EXCEPT ![r] = "reading"] /\ cacheMutex' = {r}
        /\ unread' = [unread EXCEPT ![r] = Parts]
        /\ UNCHANGED <<modRows, modid, known, found, broken>>
    BY <1>6 DEF Lock, vars
  <2>2. found[r] \cup unread'[r] = Parts
    BY <1>1, <2>1 DEF ReadsTypeOK
  <2>3. QED
    BY <1>1, <2>1, <2>2 DEF ReadersInv, KnownModServedWhole, ReadsTypeOK
<1>7. ASSUME NEW r \in Readers, NEW part \in Parts, ReadPart(r, part)
      PROVE  ReadersInv' /\ KnownModServedWhole'
  <2>1. /\ rpc[r] = "reading" /\ part \in unread[r]
        /\ unread' = [unread EXCEPT ![r] = @ \ {part}]
        /\ found' = [found EXCEPT ![r] =
                      IF Visible(modid[r], part) THEN @ \cup {part} ELSE @]
        /\ UNCHANGED <<modRows, cacheMutex, rpc, modid, known, broken>>
    BY <1>7 DEF ReadPart, vars
  <2>2. \A s \in Readers : s # r => found'[s] = found[s] /\ unread'[s] = unread[s]
    BY <1>1, <2>1 DEF ReadsTypeOK
  <2>3. /\ unread'[r] = unread[r] \ {part}
        /\ found'[r] = IF Visible(modid[r], part) THEN found[r] \cup {part} ELSE found[r]
    BY <1>1, <2>1 DEF ReadsTypeOK
  <2>4. r \in known => Visible(modid[r], part)
    BY <1>1, AllVisible DEF ReadersInv
  <2>5. r \in known => r \in broken \/ found'[r] \cup unread'[r] = Parts
    <3>1. r \in known => r \in broken \/ found[r] \cup unread[r] = Parts
      BY <1>1, <2>1 DEF ReadersInv
    <3>2. QED
      BY <2>3, <2>4, <3>1
  <2>6. "mod" \in found'[r] => \E m \in modRows : m.id = modid[r]
    <3>1. CASE part = "mod"
      BY <1>1, <2>3, <3>1 DEF ReadersInv, Visible
    <3>2. CASE part # "mod"
      BY <1>1, <2>3, <3>2 DEF ReadersInv
    <3>3. QED
      BY <3>1, <3>2
  <2>7. ReadersInv'
    BY <1>1, <2>1, <2>2, <2>5, <2>6 DEF ReadersInv
  <2>8. KnownModServedWhole'
    BY <1>1, <2>1, <2>2 DEF KnownModServedWhole, ReadsTypeOK
  <2>9. QED
    BY <2>7, <2>8
<1>8. ASSUME NEW r \in Readers, NEW part \in Parts, PartFails(r, part)
      PROVE  ReadersInv' /\ KnownModServedWhole'
  <2>1. /\ rpc[r] = "reading" /\ broken' = broken \cup {r}
        /\ UNCHANGED <<modRows, cacheMutex, rpc, modid, known, found>>
    BY <1>8 DEF PartFails, vars
  <2>2. \A s \in Readers : s # r => unread'[s] = unread[s]
    BY <1>1, <1>8 DEF PartFails, ReadsTypeOK
  <2>3. QED
    BY <1>1, <2>1, <2>2 DEF ReadersInv, KnownModServedWhole, ReadsTypeOK
<1>9. ASSUME NEW r \in Readers, Finish(r) PROVE ReadersInv' /\ KnownModServedWhole'
  <2>1. /\ rpc[r] = "reading" /\ unread[r] = {} /\ cacheMutex' = {}
        /\ rpc' = [rpc EXCEPT ![r] = IF Succeeds(r) THEN "served" ELSE "error"]
        /\ found' = [found EXCEPT ![r] = IF Succeeds(r) THEN @ ELSE {}]
        /\ UNCHANGED <<modRows, modid, known, unread, broken>>
    BY <1>9 DEF Finish, AllRead, Result, vars
  <2>2. \A s \in Readers : s # r => found'[s] = found[s] /\ rpc'[s] = rpc[s]
    BY <1>1, <2>1 DEF ReadsTypeOK
  <2>3. r \in known => r \in broken \/ found[r] = Parts
    BY <1>1, <2>1 DEF ReadersInv
  <2>4. CASE Succeeds(r)
    <3>1. rpc'[r] = "served" /\ found'[r] = found[r] /\ "mod" \in found[r] /\ r \notin broken
      BY <1>1, <2>1, <2>4 DEF ReadsTypeOK, Succeeds
    <3>2. QED
      BY <1>1, <2>1, <2>2, <2>3, <3>1 DEF ReadersInv, KnownModServedWhole, ReadsTypeOK
  <2>5. CASE ~Succeeds(r)
    <3>1. rpc'[r] = "error" /\ found'[r] = {}
      BY <1>1, <2>1, <2>5 DEF ReadsTypeOK
    <3>2. r \in known => r \in broken
      BY <2>3, <2>5 DEF Succeeds, Parts
    <3>3. QED
      BY <1>1, <2>1, <2>2, <3>1, <3>2 DEF ReadersInv, KnownModServedWhole, ReadsTypeOK
  <2>6. QED
    BY <2>4, <2>5
<1>10. CASE CrashAll
  <2> DEFINE dying == {r \in Readers : rpc[r] \in {"asked", "reading"}}
  <2>1. /\ cacheMutex' = {} /\ modRows' = modRows
        /\ known' = known \ dying /\ broken' = broken \ dying
    BY <1>10 DEF CrashAll, Crash, store
  <2>2. \A r \in dying : rpc'[r] = "lost" /\ found'[r] = {}
    BY <1>10 DEF CrashAll
  <2>3. \A r \in Readers \ dying :
          rpc'[r] = rpc[r] /\ modid'[r] = modid[r] /\ found'[r] = found[r]
    BY <1>10 DEF CrashAll
  <2>4. \A r \in Readers \ dying : rpc[r] # "reading"
    OBVIOUS
  <2>5. known \subseteq Readers
    BY <1>1 DEF ReadsTypeOK
  <2> HIDE DEF dying
  <2>6. QED
    BY <1>1, <2>1, <2>2, <2>3, <2>4, <2>5 DEF ReadersInv, KnownModServedWhole
<1>11. QED
  BY <1>3, <1>4, <1>5, <1>6, <1>7, <1>8, <1>9, <1>10
  DEF ReadsNext, Reader, ReaderStep, allVars

(***************************************************************************)
(* The theorems                                                            *)
(***************************************************************************)

THEOREM ReadsInvariance == ReadsSpec => []ReadsIInv
<1>1. ReadsInit => ReadsIInv
  BY InitReadsIInv
<1>2. ReadsIInv /\ [ReadsNext]_allVars => ReadsIInv'
  <2> SUFFICES ASSUME ReadsIInv, [ReadsNext]_allVars PROVE ReadsIInv'
    OBVIOUS
  <2>1. IInv'
    BY StoreRuns, StepIInv DEF ReadsIInv, allVars
  <2>2. QED
    BY <2>1, StepReadsTypeOK, StepReaders DEF ReadsIInv
<1>3. QED
  BY <1>1, <1>2, PTL DEF ReadsSpec

\* GameManager::getMod and db::get_mod give a client that has an id from the
\* server the whole mod, whatever the order of their SELECTs and the uploads.
THEOREM ServedWhole == ReadsSpec => []KnownModServedWhole
<1>1. ReadsIInv => KnownModServedWhole
  BY DEF ReadsIInv
<1>2. QED
  BY <1>1, ReadsInvariance, PTL

\* Under any id, a mod is served only if its row in MOD is committed: no id
\* that is served is one that was rolled back or still may be.
THEOREM ServedStored == ReadsSpec => []ServedIsStored
<1>1. ReadsIInv => ServedIsStored
  <2> SUFFICES ASSUME ReadsIInv, NEW r \in Readers, rpc[r] = "served"
               PROVE  \E m \in modRows : m.id = modid[r] /\ \A q \in Requests : modId[q] # m.id
    BY DEF ServedIsStored
  <2>1. PICK m \in modRows : m.id = modid[r]
    BY DEF ReadsIInv, ReadersInv
  <2>2. m.id \in Nat /\ m.id # 0
    BY BoundsAssumption DEF ReadsIInv, IInv, TypeOK, Row
  <2>3. \A q \in Requests : modId[q] # 0 => m.id < modId[q]
    BY DEF ReadsIInv, IInv, IdsInv
  <2>4. ASSUME NEW q \in Requests, modId[q] = m.id PROVE FALSE
    <3>1. m.id < m.id
      BY <2>2, <2>3, <2>4
    <3>2. QED
      BY <2>2, <3>1
  <2>5. QED
    BY <2>1, <2>4
<1>2. QED
  BY <1>1, ReadsInvariance, PTL

\* cacheMutex is held by the one reader that is inside getMod, never by two.
THEOREM ReadsTyped == ReadsSpec => []ReadsTypeOK
<1>1. ReadsIInv => ReadsTypeOK
  BY DEF ReadsIInv
<1>2. QED
  BY <1>1, ReadsInvariance, PTL
=============================================================================
