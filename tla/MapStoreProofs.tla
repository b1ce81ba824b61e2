--------------------------- MODULE MapStoreProofs ---------------------------
(***************************************************************************)
(* Proofs about MapStore for any calls, readers, maps and bound: maps are  *)
(* stored whole, one is current per name and version, and readers get all  *)
(* of it.  IInv is inductive; only Commit touches the store, so the        *)
(* properties of the store need an argument for that action alone.         *)
(***************************************************************************)
EXTENDS MapStore, SequenceTheorems, TLAPS

LEMMA InitIInv == Init => IInv
<1> SUFFICES ASSUME Init PROVE IInv
  OBVIOUS
<1> USE DEF Init, NoId
<1>1. TypeOK
  BY DEF TypeOK, Working, Ended, RDone, Row
<1>2. HoldersInv /\ ExpiryInv /\ IdsInv /\ LinksInv
  BY DEF HoldersInv, ExpiryInv, IdsInv, LinksInv, Filling, MapIds
<1>3. ReadersInv /\ MapsWhole /\ OneCurrentPerVersion
  BY DEF ReadersInv, MapsWhole, OneCurrentPerVersion, MapIds, UnitsOf
<1>4. QED
  BY <1>1, <1>2, <1>3 DEF IInv

\* The lists of a map a call works on are lists, whether it has one or not.
LEMMA Lists ==
  ASSUME TypeOK, NEW c \in Calls
  PROVE  /\ CarriedBy(c) \in Seq(Int)
         /\ own[c] \in Seq([id : Nat, link : Int])
<1>1. own[c] \in Seq([id : Nat, link : Int]) /\ map[c] \in Maps \cup {NoMap}
  BY DEF TypeOK
<1>2. NoMap.carriedBy \in Seq(Int)
  BY EmptySeq DEF NoMap
<1>3. QED
  BY <1>1, <1>2, MapsAssumption DEF CarriedBy

\* The end of a transaction leaves well-typed variables.
LEMMA EndTypeOK ==
  ASSUME TypeOK, NEW c \in Calls, EndTransaction(c)
  PROVE  /\ holders' \subseteq Calls
         /\ toExpire' \in [Calls -> SUBSET Nat]
         /\ mapId' \in [Calls -> Nat]
         /\ own' \in [Calls -> Seq([id : Nat, link : Int])]
         /\ linked' \in [Calls -> Nat]
         /\ map' \in [Calls -> Maps \cup {NoMap}]
<1>1. <<>> \in Seq([id : Nat, link : Int])
  OBVIOUS
<1>2. QED
  BY <1>1 DEF EndTransaction, TypeOK, NoId

\* A link changes one unit of the list.
LEMMA WithLinkType ==
  ASSUME TypeOK, NEW c \in Calls, LinksNext(c), Carrier(c) \in Places(c)
  PROVE  /\ Turn(c) \in 1..Len(own[c])
         /\ Carrier(c) \in 1..Len(own[c])
         /\ WithLink(c) \in Seq([id : Nat, link : Int])
         /\ Len(WithLink(c)) = Len(own[c])
         /\ \A i \in 1..Len(own[c]) :
              /\ WithLink(c)[i].id = own[c][i].id
              /\ WithLink(c)[i].link =
                   IF i = Carrier(c) THEN own[c][Turn(c)].id ELSE own[c][i].link
<1> DEFINE s == own[c]
           U == [id : Nat, link : Int]
           e == [s[Carrier(c)] EXCEPT !.link = s[Turn(c)].id]
<1>1. s \in Seq(U) /\ CarriedBy(c) \in Seq(Int) /\ linked[c] \in Nat
  BY Lists DEF TypeOK
<1>2. Turn(c) \in 1..Len(s) /\ Carrier(c) \in 1..Len(s)
  <2>1. Len(s) \in Nat /\ DOMAIN CarriedBy(c) = 1..Len(CarriedBy(c))
    BY <1>1, LenProperties
  <2>2. Len(s) = Len(CarriedBy(c)) /\ linked[c] < Len(s)
    BY DEF LinksNext
  <2>3. Turn(c) \in 1..Len(s)
    <3>1. \A n, k \in Nat : k < n => k + 1 \in 1..n
      OBVIOUS
    <3>2. QED
      BY <1>1, <2>1, <2>2, <3>1 DEF Turn
  <2>4. Places(c) = 1..Len(s)
    BY <2>1, <2>2 DEF Places
  <2>5. QED
    BY <2>3, <2>4
<1>3. s[Turn(c)] \in U /\ s[Carrier(c)] \in U
  BY <1>1, <1>2, ElementOfSeq
<1>4. e \in U /\ e.id = s[Carrier(c)].id /\ e.link = s[Turn(c)].id
  BY <1>3
<1>5. WithLink(c) = [s EXCEPT ![Carrier(c)] = e]
  BY DEF WithLink
<1> HIDE DEF s, U, e
<1>6. /\ WithLink(c) \in Seq(U) /\ Len(WithLink(c)) = Len(s)
      /\ \A i \in 1..Len(s) : WithLink(c)[i] = IF i = Carrier(c) THEN e ELSE s[i]
  BY <1>1, <1>2, <1>4, <1>5, ExceptSeq
<1>7. \A i \in 1..Len(s) :
        /\ WithLink(c)[i].id = s[i].id
        /\ WithLink(c)[i].link = IF i = Carrier(c) THEN s[Turn(c)].id ELSE s[i].link
  BY <1>4, <1>6
<1>8. QED
  BY <1>2, <1>6, <1>7 DEF s, U

\* What a commit adds to the store.
LEMMA UnitRowsType ==
  ASSUME TypeOK, NEW c \in Calls
  PROVE  UnitRows(c) \subseteq Row
<1>1. ASSUME NEW i \in DOMAIN own[c]
      PROVE  [id |-> own[c][i].id, map |-> mapId[c], unit |-> i,
              link |-> own[c][i].link] \in Row
  <2>1. own[c] \in Seq([id : Nat, link : Int]) /\ mapId[c] \in Nat
    BY Lists DEF TypeOK
  <2>2. i \in 1..Len(own[c]) /\ Len(own[c]) \in Nat
    BY <2>1, LenProperties
  <2>3. own[c][i] \in [id : Nat, link : Int]
    BY <2>1, <2>2, ElementOfSeq
  <2>4. QED
    BY <2>1, <2>2, <2>3 DEF Row
<1>2. QED
  BY <1>1 DEF UnitRows

LEMMA StepTypeOK == TypeOK /\ HoldersInv /\ [Next]_vars => TypeOK'
<1> SUFFICES ASSUME TypeOK, HoldersInv, [Next]_vars PROVE TypeOK'
  OBVIOUS
<1> USE DEF store, ids, upload, reads, Goto, RGoto, Working, Ended, RDone, NoId
<1>1. ASSUME NEW c \in Calls, Call(c) PROVE TypeOK'
  BY <1>1 DEF TypeOK, Call
<1>2. ASSUME NEW c \in Calls, Expire(c) PROVE TypeOK'
  <2>1. SameVersion(c) \subseteq Nat
    BY DEF SameVersion, TypeOK
  <2>2. QED
    BY <1>2, <2>1 DEF TypeOK, Expire
<1>3. ASSUME NEW c \in Calls, InsertDefinition(c) PROVE TypeOK'
  BY <1>3 DEF TypeOK, InsertDefinition
<1>4. ASSUME NEW c \in Calls, InsertUnit(c) PROVE TypeOK'
  <2>1. Append(own[c], [id |-> nextUnitId, link |-> NoLink])
          \in Seq([id : Nat, link : Int])
    BY Lists DEF TypeOK, NoLink
  <2>2. own' \in [Calls -> Seq([id : Nat, link : Int])]
    BY <1>4, <2>1 DEF TypeOK, InsertUnit
  <2>3. nextUnitId' \in Nat \ {NoId}
    BY <1>4 DEF TypeOK, InsertUnit
  <2>4. UNCHANGED <<store, nextMapId, holders, pc, map, toExpire, mapId, linked, reads>>
    BY <1>4 DEF InsertUnit
  <2>5. QED
    BY <2>2, <2>3, <2>4 DEF TypeOK
<1>5. ASSUME NEW c \in Calls, Link(c) PROVE TypeOK'
  <2>1. own' \in [Calls -> Seq([id : Nat, link : Int])]
    BY <1>5, WithLinkType DEF TypeOK, Link
  <2>2. linked' \in [Calls -> Nat]
    BY <1>5 DEF TypeOK, Link
  <2>3. UNCHANGED <<store, ids, holders, pc, map, toExpire, mapId, reads>>
    BY <1>5 DEF Link
  <2>4. QED
    BY <2>1, <2>2, <2>3 DEF TypeOK
<1>6. ASSUME NEW c \in Calls, Dangles(c) \/ StatementFails(c) PROVE TypeOK'
  BY <1>6 DEF TypeOK, Dangles, StatementFails
<1>7. ASSUME NEW c \in Calls, InsertTerrains(c) \/ InsertSlots(c) PROVE TypeOK'
  BY <1>7 DEF TypeOK, InsertTerrains, InsertSlots
<1>8. ASSUME NEW c \in Calls, Commit(c) PROVE TypeOK'
  <2>1. mapId[c] \in Nat \ {NoId} /\ map[c] \in Maps
    BY <1>8 DEF TypeOK, HoldersInv, Filling, Commit
  <2>2. definitions' \subseteq [id : Nat \ {NoId}, of : Maps]
    BY <1>8, <2>1 DEF TypeOK, Commit
  <2>3. units' \subseteq Row
    BY <1>8, UnitRowsType DEF TypeOK, Commit
  <2>4. expired' \subseteq Nat /\ terrains' \subseteq Nat /\ slots' \subseteq Nat
    BY <1>8, <2>1 DEF TypeOK, Commit
  <2>5. EndTransaction(c) /\ UNCHANGED <<slotsTable, ids, reads>>
    BY <1>8 DEF Commit
  <2>6. pc' \in [Calls -> {"idle", "unwinding"} \cup Working \cup Ended]
    BY <1>8 DEF TypeOK, Commit
  <2>7. QED
    BY <2>2, <2>3, <2>4, <2>5, <2>6, EndTypeOK DEF TypeOK
<1>9. ASSUME NEW c \in Calls, DeadlockVictim(c) \/ Rollback(c) \/ Die(c) PROVE TypeOK'
  <2>1. EndTransaction(c) /\ UNCHANGED <<store, ids, reads>>
    BY <1>9 DEF DeadlockVictim, Rollback, Die
  <2>2. pc' \in [Calls -> {"idle", "unwinding"} \cup Working \cup Ended]
    BY <1>9 DEF TypeOK, DeadlockVictim, Rollback, Die
  <2>3. QED
    BY <2>1, <2>2, EndTypeOK DEF TypeOK
<1>10. ASSUME NEW r \in Readers, Ask(r) PROVE TypeOK'
  BY <1>10 DEF TypeOK, Ask
<1>11. ASSUME NEW r \in Readers,
              ReadDefinition(r) \/ ReadSlots(r) \/ ReadTerrains(r) \/ ReadFails(r)
       PROVE  TypeOK'
  BY <1>11 DEF TypeOK, ReadDefinition, ReadSlots, ReadTerrains, ReadFails
<1>12. ASSUME NEW r \in Readers, ReadUnits(r) PROVE TypeOK'
  BY <1>12 DEF TypeOK, ReadUnits, UnitsOf
<1>13. CASE UNCHANGED vars
  BY <1>13 DEF TypeOK, vars
<1>14. QED
  BY <1>1, <1>2, <1>3, <1>4, <1>5, <1>6, <1>7, <1>8, <1>9, <1>10, <1>11, <1>12, <1>13
  DEF Next, UploadMap, GetMap, AllEnded

(***************************************************************************)
(* What the transactions rely on                                           *)
(***************************************************************************)

\* Locks come with the UPDATE and go with the transaction.
LEMMA StepHolders == TypeOK /\ HoldersInv /\ [Next]_vars => HoldersInv'
<1> SUFFICES ASSUME TypeOK, HoldersInv, [Next]_vars PROVE HoldersInv'
  OBVIOUS
<1> USE DEF HoldersInv, TypeOK, Goto, upload, NoId, Filling
<1>1. ASSUME NEW c \in Calls, Call(c) PROVE HoldersInv'
  BY <1>1 DEF Call
<1>2. ASSUME NEW c \in Calls, Expire(c) PROVE HoldersInv'
  BY <1>2 DEF Expire, CanScan
<1>3. ASSUME NEW c \in Calls, InsertDefinition(c) PROVE HoldersInv'
  <2>1. nextMapId # NoId
    OBVIOUS
  <2>2. /\ pc' = [pc EXCEPT ![c] = "inserting"] /\ mapId' = [mapId EXCEPT ![c] = nextMapId]
        /\ UNCHANGED <<holders, map, own, linked>>
        /\ pc[c] = "expired" /\ holders = {c}
    BY <1>3 DEF InsertDefinition, CanInsert
  <2>3. \A d \in Calls : d # c => pc'[d] = pc[d] /\ mapId'[d] = mapId[d]
    BY <2>2
  <2>4. pc'[c] = "inserting" /\ mapId'[c] # NoId
    BY <2>1, <2>2
  <2>5. QED
    BY <2>2, <2>3, <2>4
<1>4. ASSUME NEW c \in Calls, InsertUnit(c) PROVE HoldersInv'
  BY <1>4 DEF InsertUnit
<1>5. ASSUME NEW c \in Calls, Link(c) PROVE HoldersInv'
  BY <1>5 DEF Link, LinksNext
<1>6. ASSUME NEW c \in Calls, Dangles(c) \/ StatementFails(c) PROVE HoldersInv'
  <2>1. pc[c] \in {"begun", "expired"} \cup Filling
    BY <1>6 DEF Dangles, StatementFails, LinksNext, Working
  <2>2. pc' = [pc EXCEPT ![c] = "unwinding"] /\ UNCHANGED <<holders, map, mapId, own, linked>>
    BY <1>6 DEF Dangles, StatementFails
  <2>3. QED
    BY <2>1, <2>2
<1>7. ASSUME NEW c \in Calls, InsertTerrains(c) \/ InsertSlots(c) PROVE HoldersInv'
  BY <1>7 DEF InsertTerrains, InsertSlots
<1>8. ASSUME NEW c \in Calls,
             Commit(c) \/ DeadlockVictim(c) \/ Rollback(c) \/ Die(c)
      PROVE  HoldersInv'
  <2>1. EndTransaction(c)
    BY <1>8 DEF Commit, DeadlockVictim, Rollback, Die
  <2>2. \E label \in {"returned", "unwinding", "thrown", "died"} :
          pc' = [pc EXCEPT ![c] = label]
    BY <1>8 DEF Commit, DeadlockVictim, Rollback, Die
  <2>3. QED
    BY <2>1, <2>2 DEF EndTransaction
<1>9. CASE UNCHANGED <<holders, pc, upload>>
  BY <1>9
<1>10. QED
  BY <1>1, <1>2, <1>3, <1>4, <1>5, <1>6, <1>7, <1>8, <1>9
  DEF Next, UploadMap, GetMap, AllEnded, vars, Ask, ReadDefinition, ReadSlots,
      ReadUnits, ReadTerrains, ReadFails

\* Commit is the only action that touches the store.
LEMMA StoreSteps ==
  ASSUME [Next]_vars
  PROVE  UNCHANGED store \/ \E c \in Calls : Commit(c)
<1>1. ASSUME NEW c \in Calls, UploadMap(c) PROVE UNCHANGED store \/ Commit(c)
  BY <1>1 DEF UploadMap, Call, Expire, InsertDefinition, InsertUnit, Link, Dangles,
     InsertTerrains, InsertSlots, StatementFails, DeadlockVictim, Rollback, Die
<1>2. ASSUME NEW r \in Readers, GetMap(r) PROVE UNCHANGED store
  BY <1>2 DEF GetMap, Ask, ReadDefinition, ReadSlots, ReadUnits, ReadTerrains, ReadFails
<1>3. QED
  BY <1>1, <1>2 DEF Next, AllEnded, vars, store

\* What a call that commits can rely on.
LEMMA Committing ==
  ASSUME IInv, NEW c \in Calls, Commit(c)
  PROVE  /\ slotsTable
         /\ holders = {c}
         /\ mapId[c] \in Nat \ {NoId} /\ mapId[c] \notin MapIds
         /\ mapId[c] < nextMapId
         /\ map[c] \in Maps
         /\ toExpire[c] = SameVersion(c)
         /\ Len(own[c]) = Len(CarriedBy(c)) /\ linked[c] = Len(own[c])
         /\ MapIds' = MapIds \cup {mapId[c]}
<1>1. pc[c] = "full" /\ pc[c] \in Filling
  BY DEF Commit, Filling
<1>2. mapId[c] # NoId /\ holders = {c} /\ map[c] \in Maps
  BY <1>1 DEF IInv, HoldersInv
<1>3. mapId[c] \in Nat
  BY DEF IInv, TypeOK
<1>4. definitions' = definitions \cup {[id |-> mapId[c], of |-> map[c]]}
  BY DEF Commit
<1>5. MapIds' = MapIds \cup {mapId[c]}
  <2> DEFINE new == [id |-> mapId[c], of |-> map[c]]
  <2>1. new.id = mapId[c] /\ definitions' = definitions \cup {new}
    BY <1>4
  <2> HIDE DEF new
  <2>2. QED
    BY <2>1 DEF MapIds
<1>6. mapId[c] < nextMapId /\ mapId[c] \notin MapIds
  BY <1>2 DEF IInv, IdsInv
<1>7. toExpire[c] = SameVersion(c)
  BY <1>1 DEF IInv, ExpiryInv
<1>8. slotsTable /\ Len(own[c]) = Len(CarriedBy(c)) /\ linked[c] = Len(own[c])
  BY <1>1 DEF IInv, LinksInv
<1>9. QED
  BY <1>1, <1>2, <1>3, <1>5, <1>6, <1>7, <1>8

\* Ids of maps are not given twice.
LEMMA StepIds == IInv /\ [Next]_vars => IdsInv'
<1> SUFFICES ASSUME IInv, [Next]_vars PROVE IdsInv'
  OBVIOUS
<1> USE DEF IInv, IdsInv, TypeOK, NoId, store, ids, upload
<1>1. ASSUME NEW c \in Calls, Commit(c) PROVE IdsInv'
  <2>1. /\ definitions' = definitions \cup {[id |-> mapId[c], of |-> map[c]]}
        /\ expired' = expired \cup SameVersion(c)
        /\ UNCHANGED ids
        /\ mapId' = [mapId EXCEPT ![c] = NoId]
    <3>1. toExpire[c] = SameVersion(c)
      BY <1>1, Committing
    <3>2. QED
      BY <1>1, <3>1 DEF Commit, EndTransaction
  <2>2. \A d \in Calls : mapId'[d] = NoId
    <3>1. \A d \in Calls : d # c => mapId[d] = NoId
      BY <1>1, Committing DEF HoldersInv
    <3>2. QED
      BY <2>1, <3>1
  <2>3. SameVersion(c) \subseteq MapIds
    BY DEF SameVersion, MapIds
  <2>4. \A d \in definitions : d.id # mapId[c]
    BY <1>1, Committing DEF MapIds
  <2>5. \A d, e \in definitions' : d.id = e.id => d = e
    <3> DEFINE new == [id |-> mapId[c], of |-> map[c]]
    <3>1. new.id = mapId[c] /\ definitions' = definitions \cup {new}
      BY <2>1
    <3>2. \A d, e \in definitions : d.id = e.id => d = e
      OBVIOUS
    <3> HIDE DEF new
    <3>3. QED
      BY <2>4, <3>1, <3>2
  <2>6. MapIds' = MapIds \cup {mapId[c]} /\ mapId[c] < nextMapId
    BY <1>1, Committing
  <2>7. \A d \in definitions' : d.id < nextMapId'
    BY <2>1, <2>6
  <2>8. expired' \subseteq MapIds'
    BY <2>1, <2>3, <2>6
  <2>9. QED
    BY <2>2, <2>5, <2>7, <2>8
<1>2. ASSUME NEW c \in Calls, InsertDefinition(c) PROVE IdsInv'
  <2>1. UNCHANGED store /\ MapIds' = MapIds
    BY <1>2 DEF InsertDefinition, MapIds
  <2>2. nextMapId \notin MapIds /\ \A d \in definitions : d.id \in Nat
    BY DEF MapIds
  <2>3. QED
    BY <1>2, <2>1, <2>2 DEF InsertDefinition
<1>3. ASSUME UNCHANGED <<store, nextMapId>>,
             \A c \in Calls : mapId'[c] \in {NoId, mapId[c]}
      PROVE  IdsInv'
  BY <1>3 DEF MapIds
<1>4. ASSUME NEW c \in Calls, DeadlockVictim(c) \/ Rollback(c) \/ Die(c) PROVE IdsInv'
  BY <1>3, <1>4 DEF DeadlockVictim, Rollback, Die, EndTransaction
<1>5. ASSUME NEW c \in Calls,
             \/ Call(c) \/ Expire(c) \/ InsertUnit(c) \/ Link(c) \/ Dangles(c)
             \/ InsertTerrains(c) \/ InsertSlots(c) \/ StatementFails(c)
      PROVE  IdsInv'
  BY <1>3, <1>5 DEF Call, Expire, InsertUnit, Link, Dangles, InsertTerrains,
     InsertSlots, StatementFails
<1>6. ASSUME NEW r \in Readers, GetMap(r) PROVE IdsInv'
  BY <1>3, <1>6 DEF GetMap, Ask, ReadDefinition, ReadSlots, ReadUnits, ReadTerrains,
     ReadFails
<1>7. CASE UNCHANGED vars
  BY <1>3, <1>7 DEF vars
<1>8. QED
  BY <1>1, <1>2, <1>4, <1>5, <1>6, <1>7 DEF Next, UploadMap, AllEnded

\* What a transaction found to expire is still there when it commits.
LEMMA StepExpiry == IInv /\ [Next]_vars => ExpiryInv'
<1> SUFFICES ASSUME IInv, [Next]_vars PROVE ExpiryInv'
  OBVIOUS
<1> USE DEF IInv, ExpiryInv, TypeOK, HoldersInv, NoId, store, ids, upload, Goto, Filling
<1>1. ASSUME NEW c \in Calls, Commit(c) PROVE ExpiryInv'
  <2>1. holders = {c} /\ holders' = {}
    BY <1>1, Committing DEF Commit, EndTransaction
  <2>2. \A d \in Calls : pc'[d] \notin {"expired", "inserting", "slots", "full"}
    <3>1. \A d \in Calls : pc[d] \in {"expired", "inserting", "slots", "full"} => d = c
      BY <2>1
    <3>2. \E label \in {"returned", "unwinding"} : pc' = [pc EXCEPT ![c] = label]
      BY <1>1 DEF Commit
    <3>3. QED
      BY <3>1, <3>2
  <2>3. QED
    BY <2>1, <2>2
<1>2. ASSUME NEW c \in Calls, Expire(c) PROVE ExpiryInv'
  <2>1. \A d \in Calls : SameVersion(d)' = SameVersion(d)
    BY <1>2 DEF Expire, SameVersion
  <2>2. holders = {} \/ definitions = {}
    BY <1>2 DEF Expire, CanScan
  <2>3. QED
    BY <1>2, <2>1, <2>2 DEF Expire
<1>3. ASSUME NEW c \in Calls,
             \/ InsertDefinition(c) \/ InsertUnit(c) \/ Link(c)
             \/ Dangles(c) \/ InsertTerrains(c) \/ InsertSlots(c) \/ StatementFails(c)
      PROVE  ExpiryInv'
  <2>1. UNCHANGED <<store, holders, map, toExpire>>
    BY <1>3 DEF InsertDefinition, InsertUnit, Link, Dangles, InsertTerrains,
       InsertSlots, StatementFails
  <2>2. \A d \in Calls : SameVersion(d)' = SameVersion(d)
    BY <2>1 DEF SameVersion
  <2>3. \A d \in Calls : pc'[d] \in {"expired", "inserting", "slots", "full"} =>
                         pc[d] \in {"expired", "inserting", "slots", "full"}
    BY <1>3 DEF InsertDefinition, InsertUnit, Link, Dangles, LinksNext, InsertTerrains,
       InsertSlots, StatementFails
  <2>4. QED
    BY <2>1, <2>2, <2>3
<1>4. ASSUME NEW c \in Calls, Call(c) PROVE ExpiryInv'
  <2>1. \A d \in Calls : d # c => SameVersion(d)' = SameVersion(d)
    BY <1>4 DEF Call, SameVersion
  <2>2. QED
    BY <1>4, <2>1 DEF Call
<1>5. ASSUME NEW c \in Calls, DeadlockVictim(c) \/ Rollback(c) \/ Die(c) PROVE ExpiryInv'
  <2>1. EndTransaction(c) /\ UNCHANGED store
    BY <1>5 DEF DeadlockVictim, Rollback, Die
  <2>2. \A d \in Calls : d # c => SameVersion(d)' = SameVersion(d)
    BY <2>1 DEF EndTransaction, SameVersion
  <2>3. \E label \in {"unwinding", "thrown", "died"} : pc' = [pc EXCEPT ![c] = label]
    BY <1>5 DEF DeadlockVictim, Rollback, Die
  <2>4. QED
    BY <2>1, <2>2, <2>3 DEF EndTransaction
<1>6. CASE UNCHANGED <<store, holders, pc, upload>>
  <2>1. \A d \in Calls : SameVersion(d)' = SameVersion(d)
    BY <1>6 DEF SameVersion
  <2>2. QED
    BY <1>6, <2>1
<1>7. QED
  BY <1>1, <1>2, <1>3, <1>4, <1>5, <1>6
  DEF Next, UploadMap, GetMap, AllEnded, vars, Ask, ReadDefinition, ReadSlots,
      ReadUnits, ReadTerrains, ReadFails

(***************************************************************************)
(* The links between units                                                 *)
(***************************************************************************)

\* A loop that has linked the unit whose turn it is has done one more.
LEMMA LinkOne ==
  ASSUME TypeOK, NEW c \in Calls, LinksMade(c), Link(c)
  PROVE  LinksMade(c)'
<1> DEFINE s == own[c]
           n == linked[c]
           by == CarriedBy(c)
<1>1. s \in Seq([id : Nat, link : Int]) /\ by \in Seq(Int) /\ n \in Nat
  BY Lists DEF TypeOK
<1>2. Len(s) = Len(by) /\ n < Len(by) /\ Len(by) \in Nat
  BY <1>1, LenProperties DEF Link, LinksNext
<1>3. own \in [Calls -> Seq([id : Nat, link : Int])] /\ linked \in [Calls -> Nat]
  BY DEF TypeOK
<1>4. linked'[c] = n + 1 /\ CarriedBy(c)' = by
  BY <1>3 DEF Link, CarriedBy
<1>5. \A i \in 1..Len(s) :
        /\ s[i].link = NoLink <=> \A k \in 1..n : by[k] # i
        /\ s[i].link # NoLink => \E k \in 1..n : s[i].link = s[k].id /\ by[k] = i
  BY DEF LinksMade
<1>6. Carrier(c) = by[n + 1]
  BY DEF Carrier, Turn
<1>7. CASE Carrier(c) = 0 /\ UNCHANGED own
  <2>1. own'[c] = s
    BY <1>7
  <2>2. \A i \in 1..Len(s) : by[n + 1] # i
    BY <1>6, <1>7
  <2>3. \A k \in 1..(n + 1) : k \in 1..n \/ k = n + 1
    BY <1>1
  <2>4. 1..n \subseteq 1..(n + 1)
    BY <1>1
  <2> HIDE DEF s, n, by
  <2>5. \A i \in 1..Len(s) :
          /\ s[i].link = NoLink <=> \A k \in 1..(n + 1) : by[k] # i
          /\ s[i].link # NoLink => \E k \in 1..(n + 1) : s[i].link = s[k].id /\ by[k] = i
    BY <1>5, <2>2, <2>3, <2>4
  <2>6. Len(s) <= Len(by) /\ n + 1 <= Len(s)
    BY <1>1, <1>2
  <2>7. QED
    BY <1>2, <1>4, <2>1, <2>5, <2>6 DEF LinksMade
<1>8. CASE Carrier(c) \in Places(c) /\ own' = [own EXCEPT ![c] = WithLink(c)]
  <2> DEFINE t == WithLink(c)
  <2>1. own'[c] = t
    BY <1>3, <1>8
  <2>2. LinksNext(c)
    BY DEF Link
  <2>3. /\ Carrier(c) \in 1..Len(s) /\ Turn(c) = n + 1 /\ Turn(c) \in 1..Len(s)
        /\ Len(t) = Len(s)
        /\ \A i \in 1..Len(s) :
             /\ t[i].id = s[i].id
             /\ t[i].link = IF i = Carrier(c) THEN s[Turn(c)].id ELSE s[i].link
    BY <1>8, <2>2, WithLinkType DEF Turn
  <2>4. s[n + 1].id \in Nat
    <3>1. s[n + 1] \in [id : Nat, link : Int]
      BY <1>1, <2>3, ElementOfSeq
    <3>2. QED
      BY <3>1
  <2>5. s[n + 1].id # NoLink
    BY <2>4 DEF NoLink
  <2>6. \A k \in 1..(n + 1) : k \in 1..n \/ k = n + 1
    BY <1>1
  <2>7. 1..n \subseteq 1..(n + 1) /\ n + 1 \in 1..(n + 1) /\ 1..(n + 1) \subseteq 1..Len(s)
    BY <1>1, <1>2
  <2> HIDE DEF s, n, by, t
  <2>8. ASSUME NEW i \in 1..Len(s)
        PROVE  /\ t[i].link = NoLink <=> \A k \in 1..(n + 1) : by[k] # i
               /\ t[i].link # NoLink =>
                    \E k \in 1..(n + 1) : t[i].link = t[k].id /\ by[k] = i
    <3>1. CASE i = Carrier(c)
      <4>1. t[i].link = s[n + 1].id /\ t[n + 1].id = s[n + 1].id /\ by[n + 1] = i
        BY <1>6, <2>3, <3>1
      <4>2. QED
        BY <2>5, <2>7, <4>1
    <3>2. CASE i # Carrier(c)
      <4>1. t[i].link = s[i].link /\ by[n + 1] # i
        BY <1>6, <2>3, <3>2
      <4>2. \A k \in 1..n : t[k].id = s[k].id
        BY <2>3, <2>7
      <4>3. QED
        BY <1>5, <2>6, <2>7, <4>1, <4>2
    <3>3. QED
      BY <3>1, <3>2
  <2>9. Len(t) <= Len(by) /\ n + 1 <= Len(t) /\ Len(t) = Len(by)
    BY <1>1, <1>2, <2>3
  <2>10. QED
    BY <1>4, <2>1, <2>3, <2>8, <2>9 DEF LinksMade
<1>9. QED
  BY <1>7, <1>8 DEF Link

\* A unit that was just inserted has no link, and nothing is linked yet.
LEMMA InsertOne ==
  ASSUME TypeOK, NEW c \in Calls, LinksMade(c), InsertUnit(c)
  PROVE  LinksMade(c)'
<1> DEFINE s == own[c]
           by == CarriedBy(c)
           e == [id |-> nextUnitId, link |-> NoLink]
           t == Append(s, e)
           U == [id : Nat, link : Int]
<1>1. s \in Seq(U) /\ by \in Seq(Int) /\ linked[c] \in Nat
  BY Lists DEF TypeOK
<1>2. Len(s) \in Nat /\ Len(by) \in Nat /\ Len(s) < Len(by)
  BY <1>1, LenProperties DEF InsertUnit
<1>3. linked[c] = 0
  BY <1>1, <1>2 DEF LinksMade
<1>4. own'[c] = t /\ linked'[c] = linked[c] /\ CarriedBy(c)' = by
  BY DEF InsertUnit, CarriedBy, TypeOK
<1>5. e \in U /\ e.link = NoLink
  BY DEF TypeOK, NoLink
<1>6. \A i \in 1..Len(s) : s[i].link = NoLink
  BY <1>3 DEF LinksMade
<1> HIDE DEF s, by, e, U
<1>7. /\ Len(t) = Len(s) + 1
      /\ \A i \in 1..Len(t) : t[i] = IF i <= Len(s) THEN s[i] ELSE e
  BY <1>1, <1>2, <1>5, AppendProperties
<1>8. \A i \in 1..Len(t) : t[i].link = NoLink
  BY <1>2, <1>5, <1>6, <1>7
<1> HIDE DEF t
<1>9. QED
  BY <1>2, <1>3, <1>4, <1>7, <1>8 DEF LinksMade

LEMMA StepLinks == IInv /\ [Next]_vars => LinksInv'
<1> SUFFICES ASSUME IInv, [Next]_vars PROVE LinksInv'
  OBVIOUS
<1> USE DEF Goto, upload, store, Filling
<1>1. TypeOK /\ HoldersInv /\ LinksInv
  BY DEF IInv
<1>2. pc \in [Calls -> {"idle", "unwinding"} \cup Working \cup Ended]
  BY <1>1 DEF TypeOK
\* A call keeps what it has made unless it acts, and slotsTable is never lost.
<1>3. ASSUME NEW d \in Calls, pc'[d] = pc[d], own'[d] = own[d],
             linked'[d] = linked[d], map'[d] = map[d], slotsTable' = slotsTable
      PROVE  /\ pc'[d] \in Filling => LinksMade(d)'
             /\ pc'[d] \in {"slots", "full"} => /\ Len(own'[d]) = Len(CarriedBy(d)')
                                                /\ linked'[d] = Len(CarriedBy(d)')
             /\ pc'[d] = "full" => slotsTable'
  BY <1>1, <1>3 DEF LinksInv, LinksMade, CarriedBy
<1>4. ASSUME UNCHANGED <<pc, upload, slotsTable>> PROVE LinksInv'
  BY <1>3, <1>4 DEF LinksInv
\* It is enough to look at the call that acts.
<1>5. ASSUME NEW c \in Calls, UploadMap(c),
             /\ pc'[c] \in Filling => LinksMade(c)'
             /\ pc'[c] \in {"slots", "full"} => /\ Len(own'[c]) = Len(CarriedBy(c)')
                                                /\ linked'[c] = Len(CarriedBy(c)')
             /\ pc'[c] = "full" => slotsTable'
      PROVE  LinksInv'
  <2>1. \A d \in Calls : d # c => /\ pc'[d] = pc[d] /\ own'[d] = own[d]
                                  /\ linked'[d] = linked[d] /\ map'[d] = map[d]
    <3>1. ASSUME NEW d \in Calls, d # c,
                 \/ Call(c) \/ Expire(c) \/ InsertDefinition(c) \/ InsertUnit(c)
                 \/ Link(c) \/ Dangles(c) \/ InsertTerrains(c) \/ InsertSlots(c)
                 \/ StatementFails(c)
          PROVE  /\ pc'[d] = pc[d] /\ own'[d] = own[d]
                 /\ linked'[d] = linked[d] /\ map'[d] = map[d]
      BY <1>1, <1>2, <3>1 DEF TypeOK, Call, Expire, InsertDefinition, InsertUnit, Link,
         Dangles, InsertTerrains, InsertSlots, StatementFails
    <3>2. ASSUME NEW d \in Calls, d # c,
                 Commit(c) \/ DeadlockVictim(c) \/ Rollback(c) \/ Die(c)
          PROVE  /\ pc'[d] = pc[d] /\ own'[d] = own[d]
                 /\ linked'[d] = linked[d] /\ map'[d] = map[d]
      BY <1>1, <1>2, <3>2 DEF TypeOK, Commit, DeadlockVictim, Rollback, Die, EndTransaction
    <3>3. QED
      BY <1>5, <3>1, <3>2 DEF UploadMap
  <2>2. slotsTable' = slotsTable
    BY <1>5, StoreSteps DEF Commit, Next
  <2>3. QED
    BY <1>3, <1>5, <2>1, <2>2 DEF LinksInv
<1>6. ASSUME NEW c \in Calls, UploadMap(c), pc'[c] \notin Filling PROVE LinksInv'
  BY <1>5, <1>6
<1>7. ASSUME NEW c \in Calls,
             \/ Call(c) \/ Expire(c) \/ Dangles(c) \/ Commit(c) \/ StatementFails(c)
             \/ DeadlockVictim(c) \/ Rollback(c) \/ Die(c)
      PROVE  LinksInv'
  <2>1. UploadMap(c)
    BY <1>7 DEF UploadMap
  <2>2. pc'[c] \notin Filling
    BY <1>2, <1>7 DEF Call, Expire, Dangles, Commit, StatementFails, DeadlockVictim,
       Rollback, Die
  <2>3. QED
    BY <1>6, <2>1, <2>2
<1>8. ASSUME NEW c \in Calls, InsertDefinition(c) PROVE LinksInv'
  <2>1. own[c] = <<>> /\ linked[c] = 0
    BY <1>1, <1>8 DEF HoldersInv, InsertDefinition
  <2>2. UNCHANGED <<own, linked, map>> /\ pc'[c] = "inserting"
    BY <1>2, <1>8 DEF InsertDefinition
  <2>3. Len(CarriedBy(c)) \in Nat /\ Len(own[c]) = 0
    BY <1>1, <2>1, Lists, LenProperties
  <2>4. LinksMade(c)'
    BY <2>1, <2>2, <2>3 DEF LinksMade, CarriedBy
  <2>5. QED
    BY <1>5, <1>8, <2>2, <2>4 DEF UploadMap
<1>9. ASSUME NEW c \in Calls, InsertUnit(c) \/ Link(c) PROVE LinksInv'
  <2>1. pc[c] = "inserting" /\ pc' = pc
    BY <1>9 DEF InsertUnit, Link, LinksNext
  <2>2. LinksMade(c)
    BY <1>1, <2>1 DEF LinksInv
  <2>3. LinksMade(c)'
    BY <1>1, <1>9, <2>2, LinkOne, InsertOne
  <2>4. QED
    BY <1>5, <1>9, <2>1, <2>3 DEF UploadMap
<1>10. ASSUME NEW c \in Calls, InsertTerrains(c) \/ InsertSlots(c) PROVE LinksInv'
  <2>1. pc[c] \in {"inserting", "slots"} /\ UNCHANGED <<own, linked, map, slotsTable>>
    BY <1>10 DEF InsertTerrains, InsertSlots
  <2>2. LinksMade(c)
    BY <1>1, <2>1 DEF LinksInv
  <2>3. LinksMade(c)'
    BY <2>1, <2>2 DEF LinksMade, CarriedBy
  <2>4. linked[c] = Len(CarriedBy(c))
    BY <1>1, <1>10 DEF InsertTerrains, InsertSlots, LinksInv
  <2>5. Len(own[c]) = Len(CarriedBy(c))
    <3>1. Len(own[c]) \in Nat /\ Len(CarriedBy(c)) \in Nat /\ linked[c] \in Nat
      BY <1>1, Lists, LenProperties DEF TypeOK
    <3>2. QED
      BY <2>2, <2>4, <3>1 DEF LinksMade
  <2>6. pc'[c] = "full" => slotsTable
    BY <1>2, <1>10 DEF InsertTerrains, InsertSlots
  <2>7. QED
    BY <1>5, <1>10, <2>1, <2>3, <2>4, <2>5, <2>6 DEF UploadMap, CarriedBy
<1>11. ASSUME NEW r \in Readers, GetMap(r) PROVE LinksInv'
  BY <1>4, <1>11 DEF GetMap, Ask, ReadDefinition, ReadSlots, ReadUnits, ReadTerrains,
     ReadFails
<1>12. CASE UNCHANGED vars
  BY <1>4, <1>12 DEF vars
<1>13. QED
  BY <1>7, <1>8, <1>9, <1>10, <1>11, <1>12 DEF Next, UploadMap, AllEnded

(***************************************************************************)
(* What a commit stores                                                    *)
(***************************************************************************)

\* The units of a call that is done with both loops fit its map.
LEMMA RowsFit ==
  ASSUME TypeOK, NEW c \in Calls, LinksMade(c),
         Len(own[c]) = Len(CarriedBy(c)), linked[c] = Len(own[c])
  PROVE  UnitsFit(UnitRows(c), CarriedBy(c))
<1> DEFINE s == own[c]
           by == CarriedBy(c)
           row(i) == [id |-> s[i].id, map |-> mapId[c], unit |-> i, link |-> s[i].link]
           D == 1..Len(s)
<1>1. DOMAIN s = D /\ DOMAIN by = D
  BY Lists, LenProperties
<1>2. UnitRows(c) = {row(i) : i \in D}
  BY <1>1 DEF UnitRows
<1>3. \A i \in D : row(i).id = s[i].id /\ row(i).unit = i /\ row(i).link = s[i].link
  OBVIOUS
<1>4. \A i \in D : /\ s[i].link = NoLink <=> \A k \in D : by[k] # i
                   /\ s[i].link # NoLink => \E k \in D : s[i].link = s[k].id /\ by[k] = i
  BY DEF LinksMade
<1> HIDE DEF row, s, by, D
<1>5. {u.unit : u \in UnitRows(c)} = D
  BY <1>2, <1>3
<1>6. \A u \in UnitRows(c) : \A v \in UnitRows(c) : u.unit = v.unit => u = v
  BY <1>2, <1>3
<1>7. \A u \in UnitRows(c) :
        /\ u.link = NoLink <=> \A k \in D : by[k] # u.unit
        /\ u.link # NoLink => \E v \in UnitRows(c) : u.link = v.id /\ by[v.unit] = u.unit
  BY <1>2, <1>3, <1>4
<1>8. ASSUME NEW u \in UnitRows(c), NEW v \in UnitRows(c), by[u.unit] = v.unit
      PROVE  v.link # NoLink
  BY <1>2, <1>3, <1>7, <1>8
<1>9. ASSUME NEW u \in UnitRows(c), u.link # NoLink
      PROVE  \E v \in UnitRows(c) :
               u.link = v.id /\ (by[u.unit] = v.unit \/ by[v.unit] = u.unit)
  BY <1>7, <1>9
<1>10. QED
  BY <1>1, <1>5, <1>6, <1>8, <1>9 DEF UnitsFit, by

\* The units that were there belong to maps that were there.
LEMMA StepWhole == IInv /\ [Next]_vars => MapsWhole'
<1> SUFFICES ASSUME IInv, [Next]_vars PROVE MapsWhole'
  OBVIOUS
<1>1. CASE UNCHANGED store
  BY <1>1 DEF IInv, MapsWhole, MapIds, UnitsOf, store
<1>2. ASSUME NEW c \in Calls, Commit(c) PROVE MapsWhole'
  <2> DEFINE new == [id |-> mapId[c], of |-> map[c]]
             rows == UnitRows(c)
             id == mapId[c]
  <2>1. /\ slotsTable /\ id \notin MapIds /\ MapIds' = MapIds \cup {id}
        /\ Len(own[c]) = Len(CarriedBy(c)) /\ linked[c] = Len(own[c])
    BY <1>2, Committing
  <2>2. /\ definitions' = definitions \cup {new} /\ units' = units \cup rows
        /\ terrains' = terrains \cup {id} /\ slots' = slots \cup {id}
        /\ slotsTable' = slotsTable
    BY <1>2 DEF Commit
  <2>3. new.id = id /\ new.of.carriedBy = CarriedBy(c)
    BY DEF CarriedBy
  <2>4. \A u \in rows : u.map = id
    BY DEF UnitRows
  <2>5. UnitsFit(rows, CarriedBy(c))
    <3>1. LinksMade(c)
      BY <1>2 DEF Commit, IInv, LinksInv, Filling
    <3>2. QED
      BY <2>1, <3>1, RowsFit DEF IInv
  <2>6. /\ \A u \in units : u.map \in MapIds
        /\ \A d \in definitions : UnitsFit(UnitsOf(d.id), d.of.carriedBy)
        /\ terrains = MapIds /\ slots = MapIds
    BY DEF IInv, MapsWhole
  <2>7. \A d \in definitions : d.id \in MapIds
    BY DEF MapIds
  <2> HIDE DEF new, rows, id
  <2>8. ASSUME NEW d \in definitions' PROVE UnitsFit(UnitsOf(d.id)', d.of.carriedBy)
    <3>1. CASE d \in definitions
      <4>1. d.id # id
        BY <2>1, <2>7, <3>1
      <4>2. UnitsOf(d.id)' = UnitsOf(d.id)
        BY <2>2, <2>4, <4>1 DEF UnitsOf
      <4>3. QED
        BY <2>6, <3>1, <4>2
    <3>2. CASE d = new
      <4>1. UnitsOf(d.id)' = rows
        BY <2>1, <2>2, <2>3, <2>4, <2>6, <3>2 DEF UnitsOf
      <4>2. QED
        BY <2>3, <2>5, <3>2, <4>1 DEF rows
    <3>3. QED
      BY <2>2, <3>1, <3>2
  <2>9. \A u \in units' : u.map \in MapIds'
    BY <2>1, <2>2, <2>4, <2>6
  <2>10. terrains' = MapIds' /\ slots' = MapIds' /\ slotsTable'
    BY <2>1, <2>2, <2>6
  <2>11. QED
    BY <2>8, <2>9, <2>10 DEF MapsWhole
<1>3. QED
  BY <1>1, <1>2, StoreSteps

\* What is not expired of the version of a new map is the new map.
LEMMA StepCurrent == IInv /\ [Next]_vars => OneCurrentPerVersion'
<1> SUFFICES ASSUME IInv, [Next]_vars PROVE OneCurrentPerVersion'
  OBVIOUS
<1>1. CASE UNCHANGED store
  BY <1>1 DEF IInv, OneCurrentPerVersion, store
<1>2. ASSUME NEW c \in Calls, Commit(c) PROVE OneCurrentPerVersion'
  <2> DEFINE new == [id |-> mapId[c], of |-> map[c]]
  <2>1. definitions' = definitions \cup {new} /\ expired' = expired \cup SameVersion(c)
    <3>1. toExpire[c] = SameVersion(c)
      BY <1>2, Committing
    <3>2. QED
      BY <1>2, <3>1 DEF Commit
  <2>2. new.of = map[c]
    OBVIOUS
  <2> HIDE DEF new
  <2>3. \A d \in definitions :
          d.id \notin expired' => \/ d.of.name # new.of.name
                                 \/ d.of.version # new.of.version
    BY <2>1, <2>2 DEF SameVersion
  <2>4. \A d, e \in definitions :
          /\ d.id \notin expired /\ e.id \notin expired
          /\ d.of.name = e.of.name /\ d.of.version = e.of.version
          => d = e
    BY DEF IInv, OneCurrentPerVersion
  <2>5. QED
    BY <2>1, <2>3, <2>4 DEF OneCurrentPerVersion
<1>3. QED
  BY <1>1, <1>2, StoreSteps

(***************************************************************************)
(* The readers                                                             *)
(***************************************************************************)

\* Maps that are stored stay, with the id they have.
LEMMA MapsStay ==
  ASSUME IInv, [Next]_vars
  PROVE  MapIds \subseteq MapIds' /\ definitions \subseteq definitions'
<1>1. definitions \subseteq definitions'
  BY StoreSteps DEF store, Commit
<1>2. QED
  BY <1>1 DEF MapIds

LEMMA StepReaders == IInv /\ [Next]_vars => ReadersInv'
<1> SUFFICES ASSUME IInv, [Next]_vars PROVE ReadersInv'
  OBVIOUS
<1>1. TypeOK /\ ReadersInv /\ MapsWhole
  BY DEF IInv
<1>2. MapIds \subseteq MapIds' /\ definitions \subseteq definitions'
  BY MapsStay
<1>3. CASE UNCHANGED reads
  BY <1>1, <1>2, <1>3 DEF ReadersInv, reads
<1>4. ASSUME NEW r \in Readers, GetMap(r) PROVE ReadersInv'
  <2> USE DEF RGoto
  <2>1. UNCHANGED store /\ definitions' = definitions /\ MapIds' = MapIds
    BY <1>4 DEF GetMap, Ask, ReadDefinition, ReadSlots, ReadUnits, ReadTerrains,
       ReadFails, store, MapIds
  <2>2. CASE Ask(r)
    BY <1>1, <2>1, <2>2 DEF ReadersInv, TypeOK, Ask
  <2>3. CASE ReadDefinition(r)
    BY <1>1, <2>1, <2>3 DEF ReadersInv, TypeOK, ReadDefinition
  <2>4. CASE ReadSlots(r)
    <3>1. wanted[r] \in MapIds
      BY <1>1, <2>4 DEF ReadersInv, ReadSlots
    <3>2. slots = MapIds
      BY <1>1 DEF MapsWhole
    <3>3. rpc' = [rpc EXCEPT ![r] = "failed"] \/ rpc' = [rpc EXCEPT ![r] = "units"]
      BY <2>4, <3>1, <3>2 DEF ReadSlots
    <3>4. UNCHANGED <<wanted, known, seen>> /\ rpc[r] = "slots"
      BY <2>4 DEF ReadSlots
    <3>5. QED
      BY <1>1, <2>1, <3>1, <3>3, <3>4 DEF ReadersInv, TypeOK
  <2>5. CASE ReadUnits(r)
    <3>1. wanted[r] \in MapIds
      BY <1>1, <2>5 DEF ReadersInv, ReadUnits
    <3>2. PICK d \in definitions : d.id = wanted[r]
      BY <3>1 DEF MapIds
    <3>3. {u.unit : u \in UnitsOf(wanted[r])} = DOMAIN d.of.carriedBy
      BY <1>1, <3>2 DEF MapsWhole, UnitsFit
    <3>4. /\ rpc' = [rpc EXCEPT ![r] = "terrains"]
          /\ seen' = [seen EXCEPT ![r] = UnitsOf(wanted[r])]
          /\ UNCHANGED <<wanted, known>> /\ rpc[r] = "units"
      BY <2>5 DEF ReadUnits
    <3>5. seen'[r] = UnitsOf(wanted[r]) /\ rpc'[r] = "terrains"
      BY <1>1, <3>4 DEF TypeOK
    <3>6. \A q \in Readers : q # r => seen'[q] = seen[q] /\ rpc'[q] = rpc[q]
      BY <1>1, <3>4 DEF TypeOK
    <3>7. {u.unit : u \in seen'[r]} = DOMAIN d.of.carriedBy
      BY <3>3, <3>5
    <3>8. \E e \in definitions' :
            e.id = wanted'[r] /\ {u.unit : u \in seen'[r]} = DOMAIN e.of.carriedBy
      BY <2>1, <3>2, <3>4, <3>7
    <3>9. ASSUME NEW q \in Readers, q # r, rpc[q] \in {"terrains", "served"}
          PROVE  \E e \in definitions' :
                   e.id = wanted'[q] /\ {u.unit : u \in seen'[q]} = DOMAIN e.of.carriedBy
      <4>1. PICK e \in definitions :
              e.id = wanted[q] /\ {u.unit : u \in seen[q]} = DOMAIN e.of.carriedBy
        BY <1>1, <3>9 DEF ReadersInv
      <4>2. seen'[q] = seen[q]
        BY <3>6, <3>9
      <4>3. {u.unit : u \in seen'[q]} = DOMAIN e.of.carriedBy
        BY <4>1, <4>2
      <4>4. QED
        BY <2>1, <3>4, <4>1, <4>3
    <3>10. \A q \in Readers : rpc'[q] \in {"terrains", "served"} =>
             \E e \in definitions' :
               e.id = wanted'[q] /\ {u.unit : u \in seen'[q]} = DOMAIN e.of.carriedBy
      BY <3>6, <3>8, <3>9
    <3>11. \A q \in Readers :
             /\ q \in known' => rpc'[q] # "idle" /\ wanted'[q] \in MapIds'
             /\ rpc'[q] \in {"slots", "units", "terrains", "served"} => wanted'[q] \in MapIds'
             /\ rpc'[q] # "partial"
             /\ q \in known' => rpc'[q] # "unknown"
      BY <1>1, <2>1, <3>1, <3>4, <3>5, <3>6 DEF ReadersInv
    <3>12. QED
      BY <3>10, <3>11 DEF ReadersInv
  <2>6. CASE ReadTerrains(r)
    <3>1. wanted[r] \in MapIds
      BY <1>1, <2>6 DEF ReadersInv, ReadTerrains
    <3>2. terrains = MapIds
      BY <1>1 DEF MapsWhole
    <3>3. /\ rpc' = [rpc EXCEPT ![r] = "served"] /\ rpc[r] = "terrains"
          /\ UNCHANGED <<wanted, known, seen>>
      BY <2>6, <3>1, <3>2 DEF ReadTerrains
    <3>4. QED
      BY <1>1, <2>1, <3>1, <3>3 DEF ReadersInv, TypeOK
  <2>7. CASE ReadFails(r)
    BY <1>1, <2>1, <2>7 DEF ReadersInv, TypeOK, ReadFails
  <2>8. QED
    BY <1>4, <2>2, <2>3, <2>4, <2>5, <2>6, <2>7 DEF GetMap
<1>5. ASSUME NEW c \in Calls, UploadMap(c) PROVE UNCHANGED reads
  BY <1>5 DEF UploadMap, Call, Expire, InsertDefinition, InsertUnit, Link, Dangles,
     InsertTerrains, InsertSlots, Commit, StatementFails, DeadlockVictim, Rollback, Die
<1>6. QED
  BY <1>3, <1>4, <1>5 DEF Next, AllEnded, vars, reads

(***************************************************************************)
(* The theorems                                                            *)
(***************************************************************************)

\* Whatever calls there are, however they interleave, fail or die.
THEOREM Invariance == Spec => []IInv
<1>1. Init => IInv
  BY InitIInv
<1>2. IInv /\ [Next]_vars => IInv'
  <2> SUFFICES ASSUME IInv, [Next]_vars PROVE IInv'
    OBVIOUS
  <2>1. TypeOK' /\ HoldersInv'
    BY StepTypeOK, StepHolders DEF IInv
  <2>2. QED
    BY <2>1, StepExpiry, StepIds, StepLinks, StepReaders, StepWhole, StepCurrent DEF IInv
<1>3. QED
  BY <1>1, <1>2, PTL DEF Spec

\* uploadMap stores a map in all its tables or in none, with links that are
\* between a carried unit and its transporter, in the one or the other's row,
\* for any lists of units and any number of calls.
THEOREM Whole == Spec => []MapsWhole
<1>1. IInv => MapsWhole
  BY DEF IInv
<1>2. QED
  BY <1>1, Invariance, PTL

\* The UPDATE of uploadMap leaves one map current per name and version.
THEOREM Current == Spec => []OneCurrentPerVersion
<1>1. IInv => OneCurrentPerVersion
  BY DEF IInv
<1>2. QED
  BY <1>1, Invariance, PTL

\* getMap, with four SELECTs and no transaction, returns all of a stored map.
THEOREM Served == Spec => []KnownMapServedWhole
<1>1. IInv => KnownMapServedWhole
  BY DEF IInv, ReadersInv, KnownMapServedWhole
<1>2. QED
  BY <1>1, Invariance, PTL
=============================================================================
