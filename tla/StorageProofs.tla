--------------------------- MODULE StorageProofs ---------------------------
(***************************************************************************)
(* Theorems about what the Host keeps on disk: the cutover from the        *)
(* database of an earlier release (LegacyCutover), for any releases, marks *)
(* and bounds in CutoverAssumption, and the blobs and recovery points      *)
(* beside it (RecoveryPoints), for any set of objects and the bounds of    *)
(* RecoveryAssumption.                                                     *)
(***************************************************************************)
EXTENDS LegacyCutover, RecoveryPoints, FiniteSetTheorems, WellFoundedInduction, TLAPS

\* The record of a sealed generation, and that of the legacy database.
Entry ==
  [index : Ids, pred : {Legacy, Initial}, release : Releases, objects : SUBSET Writes,
   main : SUBSET Writes, wal : SUBSET Writes, blobs : SUBSET Writes,
   marks : SUBSET Marks, intact : BOOLEAN]
Database ==
  [there : BOOLEAN, main : SUBSET Writes, wal : SUBSET Writes, blobs : SUBSET Writes]

\* The generations are the initial one, then the cleanup one, which follows it.
GenInv ==
  /\ Sealed \in {{}, {Initial}, Ids} /\ gen \in [Sealed -> Entry]
  /\ \A g \in Sealed : gen[g].index = g /\ gen[g].pred = (IF g = Initial THEN Legacy ELSE Initial)

\* The rest of the types.
FilesOK ==
  /\ legacy \in Database /\ objects \subseteq Writes /\ torn \subseteq Writes \ objects
  /\ selector \in {0} \union Sealed
  /\ \A p \in {proof, granted} : p.nonce \in Nat /\ p.ids \in {{}, Ids}
  /\ release \in Releases /\ copy \subseteq Writes
  /\ written \in 0..MaxWrites /\ losses \in 0..MaxLosses
FlagsOK == frozen \in BOOLEAN /\ floor \in BOOLEAN

\* Where the tool is, and what it has found or made by then.
ToolInv ==
  /\ (op = "none") = (at = "idle") /\ op \in {"none", "migrate", "cleanup", "delete"}
  /\ op = "migrate" => at \in {"begin", "freeze", "backup", "objects", "publish", "select"}
  /\ op = "cleanup" => at \in {"begin", "publish", "floor", "select"}
  /\ op = "delete" => at \in {"begin", "blobs"}
  /\ op = "migrate" /\ at \in {"freeze", "backup", "objects", "publish"} => Sealed = {}
  /\ op = "migrate" /\ at \in {"backup", "objects", "publish"} => frozen
  /\ op = "cleanup" /\ at = "publish" => Sealed = {Initial}
  /\ at \in {"floor", "blobs"} => Sealed = Ids
  /\ at = "select" => Sealed # {}

\* Which database a running Host has open, and beside which steps of the tool.
HostInv ==
  /\ host \in {Legacy, Down} \union Sealed
  /\ host = Legacy => op = "none" /\ Sealed = {} /\ ~frozen
  /\ host = Initial => Sealed = {Initial}
  /\ host \in Ids => op \notin {"cleanup", "delete"}

\* Where the rows are that the Hosts accepted.
RowsInv ==
  /\ Sealed = {} => 1..written \subseteq Rows(legacy)
  /\ op = "migrate" /\ at \in {"objects", "publish"} => copy = Rows(legacy)
  /\ \A g \in Sealed : Rows(legacy) \subseteq gen[g].main
  /\ Sealed = {Initial} => 1..written \subseteq Rows(gen[Initial])
  /\ Sealed = Ids => 1..written \subseteq Rows(gen[Cleanup]) \union gen[Initial].wal

\* And where the bytes are of the blobs they refer to.
BlobsInv ==
  /\ Sealed = {} => Rows(legacy) \subseteq legacy.blobs
  /\ \A g \in Sealed : gen[g].objects \subseteq objects
  /\ \A g \in Sealed : Rows(gen[g]) \subseteq objects \union UNION {gen[h].blobs : h \in Sealed}

Typed == GenInv /\ FilesOK /\ FlagsOK /\ ToolInv /\ HostInv

-----------------------------------------------------------------------------
(* What the steps do to a record. *)

LEMMA EntryAccepted ==
  ASSUME NEW d \in Entry, written \in 0..MaxWrites, written < MaxWrites, MaxWrites \in Nat
  PROVE  /\ Accepted(d) \in Entry
         /\ Accepted(d).index = d.index
         /\ Accepted(d).pred = d.pred
         /\ Accepted(d).objects = d.objects
         /\ Accepted(d).marks = d.marks
         /\ Accepted(d).main = d.main
         /\ Accepted(d).wal = d.wal \union {written + 1}
         /\ Accepted(d).blobs = d.blobs \union {written + 1}
<1>1. d.wal \union {written + 1} \in SUBSET Writes /\ d.blobs \union {written + 1} \in SUBSET Writes
  BY DEF Entry, Writes
<1>. QED BY <1>1 DEF Entry, Accepted

LEMMA EntryCheckpointed ==
  ASSUME NEW d \in Entry
  PROVE  /\ Checkpointed(d) \in Entry
         /\ Checkpointed(d).index = d.index
         /\ Checkpointed(d).pred = d.pred
         /\ Checkpointed(d).objects = d.objects
         /\ Checkpointed(d).marks = d.marks
         /\ Checkpointed(d).main = d.main \union d.wal
         /\ Checkpointed(d).wal = {}
         /\ Checkpointed(d).blobs = d.blobs
BY DEF Entry, Checkpointed, Rows

LEMMA DatabaseAccepted ==
  ASSUME NEW d \in Database, written \in 0..MaxWrites, written < MaxWrites, MaxWrites \in Nat
  PROVE  /\ Accepted(d) \in Database
         /\ Accepted(d).there = d.there
         /\ Accepted(d).main = d.main
         /\ Accepted(d).wal = d.wal \union {written + 1}
         /\ Accepted(d).blobs = d.blobs \union {written + 1}
<1>1. d.wal \union {written + 1} \in SUBSET Writes /\ d.blobs \union {written + 1} \in SUBSET Writes
  BY DEF Database, Writes
<1>. QED BY <1>1 DEF Database, Accepted

LEMMA DatabaseCheckpointed ==
  ASSUME NEW d \in Database
  PROVE  /\ Checkpointed(d) \in Database
         /\ Checkpointed(d).there = d.there
         /\ Checkpointed(d).main = d.main \union d.wal
         /\ Checkpointed(d).wal = {}
         /\ Checkpointed(d).blobs = d.blobs
BY DEF Database, Checkpointed, Rows

LEMMA NewestIs ==
  ASSUME GenInv
  PROVE  /\ Sealed = {Initial} => Newest = Initial
         /\ Sealed = Ids => Newest = Cleanup
<1>1. ASSUME Sealed = {Initial} PROVE Newest = Initial
  <2>1. Initial \in Sealed /\ \A h \in Sealed : gen[h].index <= gen[Initial].index
    BY <1>1 DEF GenInv, Initial
  <2>. QED BY <1>1, <2>1 DEF Newest
<1>2. ASSUME Sealed = Ids PROVE Newest = Cleanup
  <2>1. Cleanup \in Sealed /\ \A h \in Sealed : gen[h].index <= gen[Cleanup].index
    BY <1>2 DEF GenInv, Initial, Cleanup, Ids
  <2>2. ~(gen[Cleanup].index <= gen[Initial].index) /\ Initial \in Sealed
    BY <1>2 DEF GenInv, Initial, Cleanup, Ids
  <2>3. \A g \in Sealed : (\A h \in Sealed : gen[h].index <= gen[g].index) => g = Cleanup
    BY <1>2, <2>1, <2>2 DEF Ids
  <2>. QED BY <2>1, <2>3 DEF Newest
<1>. QED BY <1>1, <1>2

LEMMA BothSealed ==
  ASSUME GenInv, NEW r, Provable(r)
  PROVE  Sealed = Ids
<1>1. Cardinality({}) = 0 /\ Cardinality({Initial}) = 1
  BY FS_EmptySet, FS_Singleton
<1>. QED BY <1>1 DEF GenInv, Provable, Cleanup

LEMMA ProofTyped ==
  ASSUME GenInv, NEW r, Provable(r)
  PROVE  Proof.nonce \in Nat /\ Proof.ids \in {{}, Ids}
<1>1. \E n \in 1..3 : n \notin {proof.nonce, granted.nonce}
  <2>1. 1 # 2 /\ 2 # 3 /\ 1 # 3 /\ {1, 2, 3} \subseteq 1..3
    OBVIOUS
  <2>. QED BY <2>1
<1>2. (CHOOSE n \in 1..3 : n \notin {proof.nonce, granted.nonce}) \in 1..3
  BY <1>1
<1>. QED BY <1>2, BothSealed DEF Proof

\* How a generation that is sealed may change in one step.
Grown(g) ==
  /\ gen'[g].objects = gen[g].objects
  /\ gen[g].main \subseteq gen'[g].main /\ gen[g].blobs \subseteq gen'[g].blobs
  /\ Rows(gen[g]) \subseteq Rows(gen'[g])
  /\ Rows(gen'[g]) \subseteq Rows(gen[g]) \union gen'[g].blobs
  /\ Sealed = Ids /\ g = Initial => gen'[g].wal = gen[g].wal

LEMMA MaxIsNat == MaxWrites \in Nat /\ MaxLosses \in Nat
BY CutoverAssumption DEF CutoverAssumption

\* The two steps that seal a generation.
SealsGenesis ==
  /\ op = "migrate" /\ at = "publish"
  /\ <<op', at'>> \in {<<"migrate", "select">>, <<"none", "idle">>}
  /\ Sealed = {} /\ Sealed' = {Initial}
  /\ gen'[Initial].main = copy /\ gen'[Initial].wal = {}
  /\ gen'[Initial].objects = legacy.blobs /\ legacy.blobs \subseteq objects
  /\ UNCHANGED <<legacy, objects, host, written>>

SealsSuccessor ==
  /\ op = "cleanup" /\ at = "publish"
  /\ <<op', at'>> \in {<<"cleanup", "floor">>, <<"none", "idle">>}
  /\ Sealed = {Initial} /\ Sealed' = Ids /\ gen'[Initial] = gen[Initial]
  /\ gen'[Cleanup].main = gen[Initial].main /\ gen'[Cleanup].wal = {}
  /\ gen'[Cleanup].objects = gen[Initial].objects
  /\ UNCHANGED <<legacy, objects, host, written>>

LEMMA GenesisSealed ==
  ASSUME Typed, op = "migrate", at = "publish", Sealing(Initial, Genesis)
  PROVE  /\ GenInv' /\ Sealed = {} /\ Sealed' = {Initial}
         /\ gen'[Initial].main = copy /\ gen'[Initial].wal = {}
         /\ gen'[Initial].objects = legacy.blobs
<1>1. Sealed = {}
  BY DEF Typed, ToolInv
<1>2. Genesis \in Entry /\ Genesis.index = Initial /\ Genesis.pred = Legacy
  BY DEF Typed, FilesOK, Database, Genesis, Entry, Ids
<1>3. Sealed' = {Initial} /\ gen'[Initial] = Genesis /\ gen' = [h \in {Initial} |-> Genesis]
  BY <1>1 DEF Sealing, Sealed
<1>. QED BY <1>1, <1>2, <1>3 DEF GenInv, Genesis

LEMMA SuccessorSealed ==
  ASSUME Typed, op = "cleanup", at = "publish", Sealing(Cleanup, Successor)
  PROVE  /\ GenInv' /\ Sealed = {Initial} /\ Sealed' = Ids
         /\ gen'[Initial] = gen[Initial]
         /\ gen'[Cleanup].main = gen[Initial].main /\ gen'[Cleanup].wal = {}
         /\ gen'[Cleanup].objects = gen[Initial].objects
<1>1. Sealed = {Initial} /\ Newest = Initial /\ gen[Initial] \in Entry /\ release \in Releases
  BY NewestIs DEF Typed, ToolInv, GenInv, FilesOK
<1>2. /\ Successor \in Entry /\ Successor.index = Cleanup /\ Successor.pred = Initial
      /\ Successor.main = gen[Initial].main /\ Successor.wal = {}
      /\ Successor.objects = gen[Initial].objects
  BY <1>1 DEF Successor, Entry, Ids
<1>3. gen' = [h \in Ids |-> IF h = Cleanup THEN Successor ELSE gen[h]] /\ Sealed' = Ids
  BY <1>1 DEF Sealing, Ids, Sealed
<1>4. gen'[Initial] = gen[Initial] /\ gen'[Cleanup] = Successor
  BY <1>3 DEF Ids, Initial, Cleanup
<1>5. \A g \in Ids : gen'[g] \in Entry
  BY <1>1, <1>2, <1>4 DEF Ids
<1>6. gen' \in [Ids -> Entry]
  BY <1>3, <1>5
<1>7. \A g \in Ids : gen'[g].index = g /\ gen'[g].pred = (IF g = Initial THEN Legacy ELSE Initial)
  BY <1>1, <1>2, <1>4 DEF Typed, GenInv, Ids, Initial, Cleanup
<1>. QED BY <1>1, <1>2, <1>3, <1>4, <1>6, <1>7 DEF GenInv

\* A step that replaces the record of one sealed generation.
LEMMA EntryReplaced ==
  ASSUME GenInv, NEW g \in Sealed, NEW d \in Entry, gen' = [gen EXCEPT ![g] = d],
         d.index = gen[g].index, d.pred = gen[g].pred
  PROVE  GenInv' /\ Sealed' = Sealed /\ gen'[g] = d /\ \A h \in Sealed \ {g} : gen'[h] = gen[h]
<1>1. gen \in [DOMAIN gen -> Entry]
  BY DEF GenInv, Sealed
<1>2. DOMAIN gen' = DOMAIN gen /\ gen' \in [DOMAIN gen -> Entry] /\ gen'[g] = d
      /\ \A h \in DOMAIN gen \ {g} : gen'[h] = gen[h]
  BY <1>1 DEF Sealed
<1>. QED BY <1>2 DEF GenInv, Sealed

LEMMA GenStep ==
  ASSUME Typed, [Next]_vars
  PROVE  GenInv' /\ (SealsGenesis \/ SealsSuccessor \/ (Sealed' = Sealed /\ \A g \in Sealed : Grown(g)))
<1> USE DEF Typed, disk, tool
<1> DEFINE Goal == GenInv' /\ (SealsGenesis \/ SealsSuccessor \/ (Sealed' = Sealed /\ \A g \in Sealed : Grown(g)))
<1>u. ASSUME UNCHANGED gen PROVE Goal
  BY <1>u DEF GenInv, Grown, Rows, Sealed
<1>d. ASSUME NEW g \in Sealed, NEW d \in Entry, gen' = [gen EXCEPT ![g] = d],
             d.index = gen[g].index, d.pred = gen[g].pred, d.objects = gen[g].objects,
             gen[g].main \subseteq d.main, gen[g].blobs \subseteq d.blobs, Rows(gen[g]) \subseteq Rows(d),
             Rows(d) \subseteq Rows(gen[g]) \union d.blobs,
             Sealed = Ids /\ g = Initial => d.wal = gen[g].wal
      PROVE  Goal
  <2>1. GenInv' /\ Sealed' = Sealed /\ gen'[g] = d /\ \A h \in Sealed \ {g} : gen'[h] = gen[h]
    BY <1>d, EntryReplaced
  <2>2. \A h \in Sealed : Grown(h)
    BY <1>d, <2>1 DEF Grown, Rows
  <2>. QED BY <2>1, <2>2
<1>g. \A g \in Sealed : gen[g] \in Entry
  BY DEF GenInv
<1>h. host \notin {Legacy, Down} => host \in Sealed /\ (host = Initial => Sealed # Ids)
  BY DEF HostInv, Ids, Initial, Cleanup
<1>1. ASSUME NEW r \in Releases, OpenBridge(r) PROVE Goal
  BY <1>1, <1>u DEF OpenBridge
<1>2. ASSUME Accept PROVE Goal
  <2>1. CASE host = Legacy
    BY <1>2, <2>1, <1>u DEF Accept, Open
  <2>2. CASE host # Legacy
    <3>1. host \in Sealed /\ gen[host] \in Entry /\ written < MaxWrites
          /\ gen' = [gen EXCEPT ![host] = Accepted(gen[host])]
      BY <1>2, <2>2, <1>g, <1>h DEF Accept, Open
    <3>2. /\ Accepted(gen[host]) \in Entry /\ Accepted(gen[host]).index = gen[host].index
          /\ Accepted(gen[host]).pred = gen[host].pred
          /\ Accepted(gen[host]).objects = gen[host].objects
          /\ Accepted(gen[host]).main = gen[host].main
          /\ Accepted(gen[host]).wal = gen[host].wal \union {written + 1}
          /\ Accepted(gen[host]).blobs = gen[host].blobs \union {written + 1}
      BY <3>1, EntryAccepted, MaxIsNat DEF FilesOK
    <3> DEFINE d == Accepted(gen[host])
    <3>3. Rows(gen[host]) \subseteq Rows(d) /\ Rows(d) \subseteq Rows(gen[host]) \union d.blobs
      BY <3>2 DEF Rows
    <3>4. Sealed = Ids => host # Initial
      BY DEF HostInv, Ids, Initial, Cleanup
    <3>5. gen[host].main \subseteq d.main /\ gen[host].blobs \subseteq d.blobs
      BY <3>2
    <3> HIDE DEF d
    <3>. QED BY <3>1, <3>2, <3>3, <3>4, <3>5, <1>d DEF d
  <2>. QED BY <2>1, <2>2
<1>3. ASSUME Close PROVE Goal
  <2>1. CASE host = Legacy
    BY <1>3, <2>1, <1>u DEF Close, Open
  <2>2. CASE host # Legacy
    <3>1. host \in Sealed /\ gen[host] \in Entry
          /\ gen' = [gen EXCEPT ![host] = Checkpointed(gen[host])]
      BY <1>3, <2>2, <1>g, <1>h DEF Close, Open
    <3>2. /\ Checkpointed(gen[host]) \in Entry /\ Checkpointed(gen[host]).index = gen[host].index
          /\ Checkpointed(gen[host]).pred = gen[host].pred
          /\ Checkpointed(gen[host]).objects = gen[host].objects
          /\ Checkpointed(gen[host]).main = gen[host].main \union gen[host].wal
          /\ Checkpointed(gen[host]).wal = {}
          /\ Checkpointed(gen[host]).blobs = gen[host].blobs
      BY <3>1, EntryCheckpointed
    <3> DEFINE d == Checkpointed(gen[host])
    <3>3. Rows(gen[host]) \subseteq Rows(d) /\ Rows(d) \subseteq Rows(gen[host]) \union d.blobs
      BY <3>2 DEF Rows
    <3>4. Sealed = Ids => host # Initial
      BY DEF HostInv, Ids, Initial, Cleanup
    <3>5. gen[host].main \subseteq d.main /\ gen[host].blobs \subseteq d.blobs
      BY <3>2
    <3> HIDE DEF d
    <3>. QED BY <3>1, <3>2, <3>3, <3>4, <3>5, <1>d DEF d
  <2>. QED BY <2>1, <2>2
<1>4. ASSUME HostLost PROVE Goal
  BY <1>4, <1>u DEF HostLost, OutsideHost
<1>5. ASSUME NEW o \in {"migrate", "cleanup", "delete"}, Start(o) PROVE Goal
  BY <1>5, <1>u DEF Start
<1>6. ASSUME MigrateBegin PROVE Goal
  BY <1>6, <1>u DEF MigrateBegin
<1>7. ASSUME Freeze PROVE Goal
  BY <1>7, <1>u DEF Freeze
<1>8. ASSUME Backup PROVE Goal
  BY <1>8, <1>u DEF Backup
<1>9. ASSUME PublishObjects PROVE Goal
  BY <1>9, <1>u DEF PublishObjects
<1>10. ASSUME PublishGenesis PROVE Goal
  <2>1. /\ op = "migrate" /\ at = "publish" /\ at' = "select" /\ op' = "migrate"
        /\ Sealing(Initial, Genesis) /\ legacy.blobs \subseteq objects
        /\ UNCHANGED <<legacy, objects, host, written>>
    BY <1>10 DEF PublishGenesis, Step, OutsideTool, Valid, Genesis
  <2>. QED BY <2>1, GenesisSealed DEF SealsGenesis
<1>11. ASSUME OpenCanonical PROVE Goal
  <2>1. CASE host = Newest
    BY <1>11, <2>1, <1>u DEF OpenCanonical
  <2>2. CASE host # Newest
    <3>0. Sealed # {}
      BY <1>11 DEF OpenCanonical, Selectable
    <3>1. Newest \in Sealed /\ (Sealed = Ids => Newest # Initial)
      BY <3>0, NewestIs DEF GenInv, Ids, Initial, Cleanup
    <3>2. gen[Newest] \in Entry /\ gen' = [gen EXCEPT ![Newest] = Checkpointed(gen[Newest])]
      BY <1>11, <2>2, <3>1, <1>g DEF OpenCanonical
    <3>3. /\ Checkpointed(gen[Newest]) \in Entry /\ Checkpointed(gen[Newest]).index = gen[Newest].index
          /\ Checkpointed(gen[Newest]).pred = gen[Newest].pred
          /\ Checkpointed(gen[Newest]).objects = gen[Newest].objects
          /\ Checkpointed(gen[Newest]).main = gen[Newest].main \union gen[Newest].wal
          /\ Checkpointed(gen[Newest]).wal = {}
          /\ Checkpointed(gen[Newest]).blobs = gen[Newest].blobs
      BY <3>2, EntryCheckpointed
    <3>. QED BY <3>1, <3>2, <3>3, <1>d DEF Rows
  <2>. QED BY <2>1, <2>2
<1>12. ASSUME CleanupBegin PROVE Goal
  BY <1>12, <1>u DEF CleanupBegin
<1>13. ASSUME PublishCleanup PROVE Goal
  <2>1. /\ op = "cleanup" /\ at = "publish" /\ at' = "floor" /\ op' = "cleanup"
        /\ Sealing(Cleanup, Successor)
        /\ UNCHANGED <<legacy, objects, host, written>>
    BY <1>13 DEF PublishCleanup, Step, OutsideTool
  <2>. QED BY <2>1, SuccessorSealed DEF SealsSuccessor
<1>14. ASSUME WriteFloor PROVE Goal
  BY <1>14, <1>u DEF WriteFloor
<1>15. ASSUME NEW r \in Releases, ValidateLegacyDeletion(r) PROVE Goal
  BY <1>15, <1>u DEF ValidateLegacyDeletion
<1>16. ASSUME RemoveDatabase PROVE Goal
  BY <1>16, <1>u DEF RemoveDatabase
<1>17. ASSUME RemoveBlobs PROVE Goal
  BY <1>17, <1>u DEF RemoveBlobs
<1>18. ASSUME ToolEnds PROVE Goal
  BY <1>18, <1>u DEF ToolEnds
<1>19. ASSUME CopyTorn PROVE Goal
  BY <1>19, <1>u DEF CopyTorn
<1>20. ASSUME StageSealed PROVE Goal
  <2>1. /\ at = "publish" /\ at' = "idle" /\ op' = "none"
        /\ UNCHANGED <<legacy, objects, host, written>>
    BY <1>20 DEF StageSealed, EndTool
  <2>2. CASE op = "migrate"
    <3>1. Sealing(Initial, Genesis) /\ legacy.blobs \subseteq objects
      BY <1>20, <2>2 DEF StageSealed, Valid, Genesis
    <3>. QED BY <2>1, <2>2, <3>1, GenesisSealed DEF SealsGenesis
  <2>3. CASE op # "migrate"
    <3>1. op = "cleanup" /\ Sealing(Cleanup, Successor)
      BY <1>20, <2>3 DEF StageSealed
    <3>. QED BY <2>1, <3>1, SuccessorSealed DEF SealsSuccessor
  <2>. QED BY <2>2, <2>3
<1>21. ASSUME NEW g \in Sealed, NEW m \in Marks, Mark(g, m) PROVE Goal
  <2> DEFINE d == [gen[g] EXCEPT !.marks = {m}]
  <2>1. gen' = [gen EXCEPT ![g] = d]
    BY <1>21 DEF Mark
  <2>2. d \in Entry /\ d.index = gen[g].index /\ d.pred = gen[g].pred /\ d.objects = gen[g].objects
        /\ d.main = gen[g].main /\ d.wal = gen[g].wal /\ d.blobs = gen[g].blobs
    <3>1. gen[g] \in Entry /\ {m} \in SUBSET Marks
      BY <1>g
    <3>. QED BY <3>1 DEF Entry
  <2>3. Rows(d) = Rows(gen[g])
    BY <2>2 DEF Rows
  <2> HIDE DEF d
  <2>. QED BY <2>1, <2>2, <2>3, <1>d DEF Rows
<1>22. ASSUME NEW g \in Sealed, Unmark(g) PROVE Goal
  <2> DEFINE d == [gen[g] EXCEPT !.marks = {}]
  <2>1. gen' = [gen EXCEPT ![g] = d]
    BY <1>22 DEF Unmark
  <2>2. d \in Entry /\ d.index = gen[g].index /\ d.pred = gen[g].pred /\ d.objects = gen[g].objects
        /\ d.main = gen[g].main /\ d.wal = gen[g].wal /\ d.blobs = gen[g].blobs
    <3>1. gen[g] \in Entry /\ {} \in SUBSET Marks
      BY <1>g
    <3>. QED BY <3>1 DEF Entry
  <2>3. Rows(d) = Rows(gen[g])
    BY <2>2 DEF Rows
  <2> HIDE DEF d
  <2>. QED BY <2>1, <2>2, <2>3, <1>d DEF Rows
<1>23. ASSUME NEW g \in Sealed, Damage(g) PROVE Goal
  <2> DEFINE d == [gen[g] EXCEPT !.intact = FALSE]
  <2>1. gen' = [gen EXCEPT ![g] = d]
    BY <1>23 DEF Damage
  <2>2. d \in Entry /\ d.index = gen[g].index /\ d.pred = gen[g].pred /\ d.objects = gen[g].objects
        /\ d.main = gen[g].main /\ d.wal = gen[g].wal /\ d.blobs = gen[g].blobs
    <3>1. gen[g] \in Entry /\ {} \in SUBSET Marks
      BY <1>g
    <3>. QED BY <3>1 DEF Entry
  <2>3. Rows(d) = Rows(gen[g])
    BY <2>2 DEF Rows
  <2> HIDE DEF d
  <2>. QED BY <2>1, <2>2, <2>3, <1>d DEF Rows
<1>24. CASE UNCHANGED vars
  BY <1>24, <1>u DEF vars
<1>. QED
  BY <1>1, <1>2, <1>3, <1>4, <1>5, <1>6, <1>7, <1>8, <1>9, <1>10, <1>11, <1>12,
     <1>13, <1>14, <1>15, <1>16, <1>17, <1>18, <1>19, <1>20, <1>21, <1>22, <1>23, <1>24
  DEF Next, BridgeHost, ReleaseM, ReleaseC, Environment

LEMMA ToolStep ==
  ASSUME Typed, [Next]_vars
  PROVE  ToolInv'
<1> USE DEF Typed, disk, tool, OutsideHost, OutsideTool, OutsideGeneration
<1>a. /\ GenInv' /\ ToolInv /\ HostInv
      /\ SealsGenesis \/ SealsSuccessor \/ Sealed' = Sealed
  BY GenStep
<1>b. CASE SealsGenesis
  BY <1>a, <1>b DEF SealsGenesis, ToolInv, Ids, Initial, Cleanup
<1>c. CASE SealsSuccessor
  BY <1>a, <1>c DEF SealsSuccessor, ToolInv, Ids, Initial, Cleanup
<1>d. SUFFICES ASSUME Sealed' = Sealed PROVE ToolInv'
  BY <1>a, <1>b, <1>c
<1>e. Sealed \in {{}, {Initial}, Ids} /\ Ids # {} /\ {Initial} # {} /\ Ids # {Initial}
  BY <1>a DEF GenInv, Ids, Initial, Cleanup
<1>1. ASSUME NEW r \in Releases, OpenBridge(r) PROVE ToolInv'
  BY <1>1, <1>a, <1>d, <1>e DEF OpenBridge, ToolInv
<1>2. ASSUME Accept PROVE ToolInv'
  BY <1>2, <1>a, <1>d, <1>e DEF Accept, ToolInv
<1>3. ASSUME Close PROVE ToolInv'
  BY <1>3, <1>a, <1>d, <1>e DEF Close, ToolInv
<1>4. ASSUME HostLost PROVE ToolInv'
  BY <1>4, <1>a, <1>d, <1>e DEF HostLost, ToolInv
<1>5. ASSUME NEW o \in {"migrate", "cleanup", "delete"}, Start(o) PROVE ToolInv'
  BY <1>5, <1>a, <1>d, <1>e DEF Start, ToolInv
<1>6. ASSUME MigrateBegin PROVE ToolInv'
  BY <1>6, <1>a, <1>d, <1>e DEF MigrateBegin, ToolInv, Step, Migrates
<1>7. ASSUME Freeze PROVE ToolInv'
  BY <1>7, <1>a, <1>d, <1>e DEF Freeze, ToolInv, Step
<1>8. ASSUME Backup PROVE ToolInv'
  BY <1>8, <1>a, <1>d, <1>e DEF Backup, ToolInv, Step
<1>9. ASSUME PublishObjects PROVE ToolInv'
  BY <1>9, <1>a, <1>d, <1>e DEF PublishObjects, ToolInv, Step
<1>10. ASSUME PublishGenesis PROVE ToolInv'
  <2>1. op = "migrate" /\ at = "publish" /\ Sealed' = Sealed \union {Initial}
    BY <1>10 DEF PublishGenesis, Step, Sealing, Sealed
  <2>. QED BY <1>a, <1>d, <1>e, <2>1 DEF ToolInv
<1>11. ASSUME OpenCanonical PROVE ToolInv'
  BY <1>11, <1>a, <1>d, <1>e DEF OpenCanonical, ToolInv, Step
<1>12. ASSUME CleanupBegin PROVE ToolInv'
  <2>1. Sealed # {} /\ (Sealed = Ids => Advanced)
    BY <1>12, <1>a, NewestIs DEF CleanupBegin, Selectable, Advanced, GenInv, Ids, Initial, Cleanup
  <2>. QED BY <1>12, <2>1, <1>a, <1>d, <1>e DEF CleanupBegin, Step, ToolInv
<1>13. ASSUME PublishCleanup PROVE ToolInv'
  <2>1. op = "cleanup" /\ at = "publish" /\ Sealed' = Sealed \union {Cleanup}
    BY <1>13 DEF PublishCleanup, Step, Sealing, Sealed
  <2>. QED BY <1>a, <1>d, <1>e, <2>1 DEF ToolInv, Ids, Initial, Cleanup
<1>14. ASSUME WriteFloor PROVE ToolInv'
  BY <1>14, <1>a, <1>d, <1>e DEF WriteFloor, ToolInv, Step
<1>15. ASSUME NEW r \in Releases, ValidateLegacyDeletion(r) PROVE ToolInv'
  BY <1>15, <1>a, <1>d, <1>e DEF ValidateLegacyDeletion, ToolInv
<1>16. ASSUME RemoveDatabase PROVE ToolInv'
  <2>1. Sealed = Ids
    BY <1>16, <1>a, BothSealed DEF RemoveDatabase, StillProven
  <2>. QED BY <1>16, <2>1, <1>a, <1>d DEF RemoveDatabase, Step, ToolInv
<1>17. ASSUME RemoveBlobs PROVE ToolInv'
  BY <1>17, <1>a, <1>d, <1>e DEF RemoveBlobs, ToolInv, Step
<1>18. ASSUME ToolEnds PROVE ToolInv'
  BY <1>18, <1>a, <1>d, <1>e DEF ToolEnds, ToolInv, EndTool
<1>19. ASSUME CopyTorn PROVE ToolInv'
  BY <1>19, <1>a, <1>d, <1>e DEF CopyTorn, ToolInv, EndTool
<1>20. ASSUME StageSealed PROVE ToolInv'
  BY <1>20, <1>a, <1>d, <1>e DEF StageSealed, ToolInv, EndTool
<1>21. ASSUME NEW g \in Sealed, NEW m \in Marks, Mark(g, m) PROVE ToolInv'
  BY <1>21, <1>a, <1>d, <1>e DEF Mark, ToolInv
<1>22. ASSUME NEW g \in Sealed, Unmark(g) PROVE ToolInv'
  BY <1>22, <1>a, <1>d, <1>e DEF Unmark, ToolInv
<1>23. ASSUME NEW g \in Sealed, Damage(g) PROVE ToolInv'
  BY <1>23, <1>a, <1>d, <1>e DEF Damage, ToolInv
<1>24. CASE UNCHANGED vars
  BY <1>24, <1>a, <1>d DEF vars, ToolInv
<1>. QED
  BY <1>1, <1>2, <1>3, <1>4, <1>5, <1>6, <1>7, <1>8, <1>9, <1>10, <1>11, <1>12,
     <1>13, <1>14, <1>15, <1>16, <1>17, <1>18, <1>19, <1>20, <1>21, <1>22, <1>23, <1>24
  DEF Next, BridgeHost, ReleaseM, ReleaseC, Environment

LEMMA HostStep ==
  ASSUME Typed, [Next]_vars
  PROVE  HostInv'
<1> USE DEF Typed, disk, tool, OutsideHost, OutsideTool, OutsideGeneration
<1>a. /\ GenInv' /\ ToolInv /\ HostInv
      /\ SealsGenesis \/ SealsSuccessor \/ Sealed' = Sealed
  BY GenStep
<1>b. CASE SealsGenesis
  BY <1>a, <1>b DEF SealsGenesis, HostInv, Ids, Initial, Cleanup, Legacy, Down
<1>c. CASE SealsSuccessor
  BY <1>a, <1>c DEF SealsSuccessor, HostInv, Ids, Initial, Cleanup, Legacy, Down
<1>d. SUFFICES ASSUME Sealed' = Sealed PROVE HostInv'
  BY <1>a, <1>b, <1>c
<1>e. /\ Sealed \in {{}, {Initial}, Ids} /\ Ids # {} /\ {Initial} # {} /\ Ids # {Initial}
      /\ Legacy \notin Ids /\ Down \notin Ids /\ Legacy # Down /\ Initial \in Ids
  BY <1>a DEF GenInv, Ids, Initial, Cleanup, Legacy, Down
<1>1. ASSUME NEW r \in Releases, OpenBridge(r) PROVE HostInv'
  <2>1. CASE OpensLegacy /\ host' = Legacy
    <3>1. op = "none"
      BY <1>1, <2>1, <1>a, <1>e DEF OpenBridge, OpensLegacy, Quiesced, ToolInv
    <3>. QED BY <1>1, <2>1, <3>1, <1>a, <1>d, <1>e DEF OpenBridge, OpensLegacy, HostInv
  <2>2. CASE Sealed # {} /\ host' = Newest
    <3>1. Newest \in Sealed /\ (Newest = Initial => Sealed = {Initial})
      BY <2>2, <1>e, NewestIs DEF Ids, Initial, Cleanup
    <3>. QED BY <1>1, <2>2, <3>1, <1>a, <1>d, <1>e DEF OpenBridge, HostInv
  <2>. QED BY <1>1, <2>1, <2>2 DEF OpenBridge, Selectable
<1>2. ASSUME Accept PROVE HostInv'
  BY <1>2, <1>a, <1>d, <1>e DEF Accept, HostInv
<1>3. ASSUME Close PROVE HostInv'
  BY <1>3, <1>a, <1>d, <1>e DEF Close, HostInv
<1>4. ASSUME HostLost PROVE HostInv'
  BY <1>4, <1>a, <1>d, <1>e DEF HostLost, HostInv
<1>5. ASSUME NEW o \in {"migrate", "cleanup", "delete"}, Start(o) PROVE HostInv'
  BY <1>5, <1>a, <1>d, <1>e DEF Start, HostInv
<1>6. ASSUME MigrateBegin PROVE HostInv'
  BY <1>6, <1>a, <1>d, <1>e DEF MigrateBegin, HostInv, Step, Migrates, ToolInv
<1>7. ASSUME Freeze PROVE HostInv'
  BY <1>7, <1>a, <1>d, <1>e DEF Freeze, HostInv, Step, ToolInv
<1>8. ASSUME Backup PROVE HostInv'
  BY <1>8, <1>a, <1>d, <1>e DEF Backup, HostInv, Step, ToolInv
<1>9. ASSUME PublishObjects PROVE HostInv'
  BY <1>9, <1>a, <1>d, <1>e DEF PublishObjects, HostInv, Step, ToolInv
<1>10. ASSUME PublishGenesis PROVE HostInv'
  BY <1>10, <1>a, <1>d, <1>e DEF PublishGenesis, HostInv, Step, ToolInv
<1>11. ASSUME OpenCanonical PROVE HostInv'
  BY <1>11, <1>a, <1>d, <1>e DEF OpenCanonical, HostInv, Step, ToolInv
<1>12. ASSUME CleanupBegin PROVE HostInv'
  BY <1>12, <1>a, <1>d, <1>e DEF CleanupBegin, HostInv, Step, ToolInv
<1>13. ASSUME PublishCleanup PROVE HostInv'
  BY <1>13, <1>a, <1>d, <1>e DEF PublishCleanup, HostInv, Step, ToolInv
<1>14. ASSUME WriteFloor PROVE HostInv'
  BY <1>14, <1>a, <1>d, <1>e DEF WriteFloor, HostInv, Step, ToolInv
<1>15. ASSUME NEW r \in Releases, ValidateLegacyDeletion(r) PROVE HostInv'
  BY <1>15, <1>a, <1>d, <1>e DEF ValidateLegacyDeletion, HostInv
<1>16. ASSUME RemoveDatabase PROVE HostInv'
  BY <1>16, <1>a, <1>d, <1>e DEF RemoveDatabase, HostInv, Step, ToolInv
<1>17. ASSUME RemoveBlobs PROVE HostInv'
  BY <1>17, <1>a, <1>d, <1>e DEF RemoveBlobs, HostInv, Step, ToolInv
<1>18. ASSUME ToolEnds PROVE HostInv'
  BY <1>18, <1>a, <1>d, <1>e DEF ToolEnds, HostInv, EndTool, ToolInv
<1>19. ASSUME CopyTorn PROVE HostInv'
  BY <1>19, <1>a, <1>d, <1>e DEF CopyTorn, HostInv, EndTool, ToolInv
<1>20. ASSUME StageSealed PROVE HostInv'
  BY <1>20, <1>a, <1>d, <1>e DEF StageSealed, HostInv, EndTool, ToolInv
<1>21. ASSUME NEW g \in Sealed, NEW m \in Marks, Mark(g, m) PROVE HostInv'
  BY <1>21, <1>a, <1>d, <1>e DEF Mark, HostInv
<1>22. ASSUME NEW g \in Sealed, Unmark(g) PROVE HostInv'
  BY <1>22, <1>a, <1>d, <1>e DEF Unmark, HostInv
<1>23. ASSUME NEW g \in Sealed, Damage(g) PROVE HostInv'
  BY <1>23, <1>a, <1>d, <1>e DEF Damage, HostInv
<1>24. CASE UNCHANGED vars
  BY <1>24, <1>a, <1>d DEF vars, HostInv
<1>. QED
  BY <1>1, <1>2, <1>3, <1>4, <1>5, <1>6, <1>7, <1>8, <1>9, <1>10, <1>11, <1>12,
     <1>13, <1>14, <1>15, <1>16, <1>17, <1>18, <1>19, <1>20, <1>21, <1>22, <1>23, <1>24
  DEF Next, BridgeHost, ReleaseM, ReleaseC, Environment

\* How the legacy database may change in one step.
LegacyStays == Rows(legacy') = Rows(legacy) /\ legacy'.blobs = legacy.blobs
LegacyGrows ==
  /\ host = Legacy /\ Sealed = {} /\ op = "none" /\ ~frozen
  /\ Rows(legacy') = Rows(legacy) \union {written + 1}
  /\ legacy'.blobs = legacy.blobs \union {written + 1}
  /\ written' = written + 1
LegacyGoes == Sealed = Ids /\ Rows(legacy') \in {{}, Rows(legacy)}

LEMMA LegacyStep ==
  ASSUME Typed, [Next]_vars
  PROVE  legacy' \in Database /\ (LegacyStays \/ LegacyGrows \/ LegacyGoes)
<1> USE DEF Typed, disk, tool, OutsideHost, OutsideTool, OutsideGeneration
<1> DEFINE Goal == legacy' \in Database /\ (LegacyStays \/ LegacyGrows \/ LegacyGoes)
<1>u. ASSUME UNCHANGED legacy PROVE Goal
  BY <1>u DEF FilesOK, LegacyStays, Rows
<1>c. ASSUME legacy' = Checkpointed(legacy) PROVE Goal
  <2>1. legacy \in Database
    BY DEF FilesOK
  <2>. QED BY <1>c, <2>1, DatabaseCheckpointed DEF LegacyStays, Rows
<1>l. legacy \in Database
  BY DEF FilesOK
<1>1. ASSUME NEW r \in Releases, OpenBridge(r) PROVE Goal
  <2>1. CASE legacy' = [legacy EXCEPT !.there = TRUE]
    <3>1. legacy' \in Database /\ legacy'.main = legacy.main /\ legacy'.wal = legacy.wal /\ legacy'.blobs = legacy.blobs
      BY <2>1, <1>l DEF Database
    <3>. QED BY <3>1 DEF LegacyStays, Rows
  <2>2. CASE UNCHANGED legacy
    BY <2>2, <1>u
  <2>. QED BY <1>1, <2>1, <2>2 DEF OpenBridge
<1>2. ASSUME Accept PROVE Goal
  <2>1. CASE host = Legacy
    <3>1. written < MaxWrites /\ written' = written + 1 /\ legacy' = Accepted(legacy)
      BY <1>2, <2>1 DEF Accept, Open
    <3>2. /\ Accepted(legacy) \in Database /\ Accepted(legacy).main = legacy.main
          /\ Accepted(legacy).wal = legacy.wal \union {written + 1}
          /\ Accepted(legacy).blobs = legacy.blobs \union {written + 1}
      BY <3>1, <1>l, DatabaseAccepted, MaxIsNat DEF FilesOK
    <3>3. Sealed = {} /\ op = "none" /\ ~frozen
      BY <2>1 DEF HostInv
    <3>. QED BY <2>1, <3>1, <3>2, <3>3 DEF LegacyGrows, Rows
  <2>2. CASE host # Legacy
    BY <1>2, <2>2, <1>u DEF Accept, Open
  <2>. QED BY <2>1, <2>2
<1>3. ASSUME Close PROVE Goal
  <2>1. CASE host = Legacy
    BY <1>3, <2>1, <1>c DEF Close, Open
  <2>2. CASE host # Legacy
    BY <1>3, <2>2, <1>u DEF Close, Open
  <2>. QED BY <2>1, <2>2
<1>4. ASSUME HostLost PROVE Goal
  BY <1>4, <1>u DEF HostLost
<1>5. ASSUME NEW o \in {"migrate", "cleanup", "delete"}, Start(o) PROVE Goal
  BY <1>5, <1>u DEF Start
<1>6. ASSUME MigrateBegin PROVE Goal
  BY <1>6, <1>u DEF MigrateBegin
<1>7. ASSUME Freeze PROVE Goal
  BY <1>7, <1>u DEF Freeze
<1>8. ASSUME Backup PROVE Goal
  BY <1>8, <1>c DEF Backup
<1>9. ASSUME PublishObjects PROVE Goal
  BY <1>9, <1>u DEF PublishObjects
<1>10. ASSUME PublishGenesis PROVE Goal
  BY <1>10, <1>u DEF PublishGenesis
<1>11. ASSUME OpenCanonical PROVE Goal
  BY <1>11, <1>u DEF OpenCanonical
<1>12. ASSUME CleanupBegin PROVE Goal
  BY <1>12, <1>u DEF CleanupBegin
<1>13. ASSUME PublishCleanup PROVE Goal
  BY <1>13, <1>u DEF PublishCleanup
<1>14. ASSUME WriteFloor PROVE Goal
  BY <1>14, <1>u DEF WriteFloor
<1>15. ASSUME NEW r \in Releases, ValidateLegacyDeletion(r) PROVE Goal
  BY <1>15, <1>u DEF ValidateLegacyDeletion
<1>16. ASSUME RemoveDatabase PROVE Goal
  <2>1. Sealed = Ids
    BY <1>16, BothSealed DEF RemoveDatabase, StillProven
  <2>2. legacy' = [legacy EXCEPT !.there = FALSE, !.main = {}, !.wal = {}]
    BY <1>16 DEF RemoveDatabase
  <2>3. legacy' \in Database /\ legacy'.main = {} /\ legacy'.wal = {}
    BY <2>2, <1>l DEF Database
  <2>. QED BY <2>1, <2>3 DEF LegacyGoes, Rows
<1>17. ASSUME RemoveBlobs PROVE Goal
  <2>1. Sealed = Ids /\ legacy' = [legacy EXCEPT !.blobs = {}]
    BY <1>17 DEF RemoveBlobs, Step, ToolInv
  <2>2. legacy' \in Database /\ legacy'.main = legacy.main /\ legacy'.wal = legacy.wal
    BY <2>1, <1>l DEF Database
  <2>. QED BY <2>1, <2>2 DEF LegacyGoes, Rows
<1>18. ASSUME ToolEnds PROVE Goal
  BY <1>18, <1>u DEF ToolEnds
<1>19. ASSUME CopyTorn PROVE Goal
  BY <1>19, <1>u DEF CopyTorn
<1>20. ASSUME StageSealed PROVE Goal
  BY <1>20, <1>u DEF StageSealed
<1>21. ASSUME NEW g \in Sealed, NEW m \in Marks, Mark(g, m) PROVE Goal
  BY <1>21, <1>u DEF Mark
<1>22. ASSUME NEW g \in Sealed, Unmark(g) PROVE Goal
  BY <1>22, <1>u DEF Unmark
<1>23. ASSUME NEW g \in Sealed, Damage(g) PROVE Goal
  BY <1>23, <1>u DEF Damage
<1>24. CASE UNCHANGED vars
  BY <1>24, <1>u DEF vars
<1>. QED
  BY <1>1, <1>2, <1>3, <1>4, <1>5, <1>6, <1>7, <1>8, <1>9, <1>10, <1>11, <1>12,
     <1>13, <1>14, <1>15, <1>16, <1>17, <1>18, <1>19, <1>20, <1>21, <1>22, <1>23, <1>24
  DEF Next, BridgeHost, ReleaseM, ReleaseC, Environment

\* A write goes to the legacy database, or to the newest generation.
Accepts ==
  /\ host \in Sealed /\ Sealed' = Sealed /\ written' = written + 1
  /\ host = Initial => Sealed = {Initial}
  /\ written + 1 \in Rows(gen'[host]) /\ UNCHANGED <<legacy, objects>>

LEMMA WrittenStep ==
  ASSUME Typed, [Next]_vars
  PROVE  written' = written \/ LegacyGrows \/ Accepts
<1> USE DEF Typed, disk, tool, OutsideHost, OutsideTool, OutsideGeneration
<1> DEFINE Goal == written' = written \/ LegacyGrows \/ Accepts
<1>1. ASSUME NEW r \in Releases, OpenBridge(r) PROVE Goal
  BY <1>1 DEF OpenBridge
<1>2. ASSUME Accept PROVE Goal
  <2>1. CASE host = Legacy
    <3>1. written < MaxWrites /\ written' = written + 1 /\ legacy' = Accepted(legacy)
      BY <1>2, <2>1 DEF Accept, Open
    <3>2. /\ Accepted(legacy).main = legacy.main
          /\ Accepted(legacy).wal = legacy.wal \union {written + 1}
          /\ Accepted(legacy).blobs = legacy.blobs \union {written + 1}
      BY <3>1, DatabaseAccepted, MaxIsNat DEF FilesOK
    <3>3. Sealed = {} /\ op = "none" /\ ~frozen
      BY <2>1 DEF HostInv
    <3>. QED BY <2>1, <3>1, <3>2, <3>3 DEF LegacyGrows, Rows
  <2>2. CASE host # Legacy
    <3>1. /\ written < MaxWrites /\ written' = written + 1
          /\ gen' = [gen EXCEPT ![host] = Accepted(gen[host])] /\ UNCHANGED <<legacy, objects>>
      BY <1>2, <2>2 DEF Accept, Open
    <3>2. host \in Sealed /\ (host = Initial => Sealed = {Initial})
      BY <1>2, <2>2 DEF Accept, HostInv
    <3>3. Sealed' = Sealed /\ gen'[host] = Accepted(gen[host])
      BY <3>1, <3>2 DEF Sealed
    <3>4. gen[host] \in Entry
      BY <3>2 DEF GenInv
    <3>5. Accepted(gen[host]).wal = gen[host].wal \union {written + 1}
      BY <3>1, <3>4, EntryAccepted, MaxIsNat DEF FilesOK
    <3>. QED BY <3>1, <3>2, <3>3, <3>5 DEF Accepts, Rows
  <2>. QED BY <2>1, <2>2
<1>3. ASSUME Close PROVE Goal
  BY <1>3 DEF Close
<1>4. ASSUME HostLost PROVE Goal
  BY <1>4 DEF HostLost
<1>5. ASSUME NEW o \in {"migrate", "cleanup", "delete"}, Start(o) PROVE Goal
  BY <1>5 DEF Start
<1>6. ASSUME MigrateBegin PROVE Goal
  BY <1>6 DEF MigrateBegin
<1>7. ASSUME Freeze PROVE Goal
  BY <1>7 DEF Freeze
<1>8. ASSUME Backup PROVE Goal
  BY <1>8 DEF Backup
<1>9. ASSUME PublishObjects PROVE Goal
  BY <1>9 DEF PublishObjects
<1>10. ASSUME PublishGenesis PROVE Goal
  BY <1>10 DEF PublishGenesis
<1>11. ASSUME OpenCanonical PROVE Goal
  BY <1>11 DEF OpenCanonical
<1>12. ASSUME CleanupBegin PROVE Goal
  BY <1>12 DEF CleanupBegin
<1>13. ASSUME PublishCleanup PROVE Goal
  BY <1>13 DEF PublishCleanup
<1>14. ASSUME WriteFloor PROVE Goal
  BY <1>14 DEF WriteFloor
<1>15. ASSUME NEW r \in Releases, ValidateLegacyDeletion(r) PROVE Goal
  BY <1>15 DEF ValidateLegacyDeletion
<1>16. ASSUME RemoveDatabase PROVE Goal
  BY <1>16 DEF RemoveDatabase
<1>17. ASSUME RemoveBlobs PROVE Goal
  BY <1>17 DEF RemoveBlobs
<1>18. ASSUME ToolEnds PROVE Goal
  BY <1>18 DEF ToolEnds
<1>19. ASSUME CopyTorn PROVE Goal
  BY <1>19 DEF CopyTorn
<1>20. ASSUME StageSealed PROVE Goal
  BY <1>20 DEF StageSealed
<1>21. ASSUME NEW g \in Sealed, NEW m \in Marks, Mark(g, m) PROVE Goal
  BY <1>21 DEF Mark
<1>22. ASSUME NEW g \in Sealed, Unmark(g) PROVE Goal
  BY <1>22 DEF Unmark
<1>23. ASSUME NEW g \in Sealed, Damage(g) PROVE Goal
  BY <1>23 DEF Damage
<1>24. CASE UNCHANGED vars
  BY <1>24 DEF vars
<1>. QED
  BY <1>1, <1>2, <1>3, <1>4, <1>5, <1>6, <1>7, <1>8, <1>9, <1>10, <1>11, <1>12,
     <1>13, <1>14, <1>15, <1>16, <1>17, <1>18, <1>19, <1>20, <1>21, <1>22, <1>23, <1>24
  DEF Next, BridgeHost, ReleaseM, ReleaseC, Environment

LEMMA FlagsStep ==
  ASSUME FlagsOK, [Next]_vars
  PROVE  FlagsOK'
<1> USE DEF disk, tool, OutsideHost, OutsideTool, OutsideGeneration
<1>1. ASSUME NEW r \in Releases, OpenBridge(r) PROVE FlagsOK'
  BY <1>1, Zenon DEF OpenBridge, FlagsOK
<1>2. ASSUME Accept PROVE FlagsOK'
  BY <1>2, Zenon DEF Accept, FlagsOK
<1>3. ASSUME Close PROVE FlagsOK'
  BY <1>3, Zenon DEF Close, FlagsOK
<1>4. ASSUME HostLost PROVE FlagsOK'
  BY <1>4, Zenon DEF HostLost, FlagsOK
<1>5. ASSUME NEW o \in {"migrate", "cleanup", "delete"}, Start(o) PROVE FlagsOK'
  BY <1>5, Zenon DEF Start, FlagsOK
<1>6. ASSUME MigrateBegin PROVE FlagsOK'
  BY <1>6, Zenon DEF MigrateBegin, FlagsOK
<1>7. ASSUME Freeze PROVE FlagsOK'
  BY <1>7, Zenon DEF Freeze, FlagsOK
<1>8. ASSUME Backup PROVE FlagsOK'
  BY <1>8, Zenon DEF Backup, FlagsOK
<1>9. ASSUME PublishObjects PROVE FlagsOK'
  BY <1>9, Zenon DEF PublishObjects, FlagsOK
<1>10. ASSUME PublishGenesis PROVE FlagsOK'
  BY <1>10, Zenon DEF PublishGenesis, FlagsOK
<1>11. ASSUME OpenCanonical PROVE FlagsOK'
  BY <1>11, Zenon DEF OpenCanonical, FlagsOK
<1>12. ASSUME CleanupBegin PROVE FlagsOK'
  BY <1>12, Zenon DEF CleanupBegin, FlagsOK
<1>13. ASSUME PublishCleanup PROVE FlagsOK'
  BY <1>13, Zenon DEF PublishCleanup, FlagsOK
<1>14. ASSUME WriteFloor PROVE FlagsOK'
  BY <1>14, Zenon DEF WriteFloor, FlagsOK
<1>15. ASSUME NEW r \in Releases, ValidateLegacyDeletion(r) PROVE FlagsOK'
  BY <1>15, Zenon DEF ValidateLegacyDeletion, FlagsOK
<1>16. ASSUME RemoveDatabase PROVE FlagsOK'
  BY <1>16, Zenon DEF RemoveDatabase, FlagsOK
<1>17. ASSUME RemoveBlobs PROVE FlagsOK'
  BY <1>17, Zenon DEF RemoveBlobs, FlagsOK
<1>18. ASSUME ToolEnds PROVE FlagsOK'
  BY <1>18, Zenon DEF ToolEnds, FlagsOK
<1>19. ASSUME CopyTorn PROVE FlagsOK'
  BY <1>19, Zenon DEF CopyTorn, FlagsOK
<1>20. ASSUME StageSealed PROVE FlagsOK'
  BY <1>20, Zenon DEF StageSealed, FlagsOK
<1>21. ASSUME NEW g \in Sealed, NEW m \in Marks, Mark(g, m) PROVE FlagsOK'
  BY <1>21, Zenon DEF Mark, FlagsOK
<1>22. ASSUME NEW g \in Sealed, Unmark(g) PROVE FlagsOK'
  BY <1>22, Zenon DEF Unmark, FlagsOK
<1>23. ASSUME NEW g \in Sealed, Damage(g) PROVE FlagsOK'
  BY <1>23, Zenon DEF Damage, FlagsOK
<1>24. CASE UNCHANGED vars
  BY <1>24 DEF vars, FlagsOK
<1>. QED
  BY <1>1, <1>2, <1>3, <1>4, <1>5, <1>6, <1>7, <1>8, <1>9, <1>10, <1>11, <1>12,
     <1>13, <1>14, <1>15, <1>16, <1>17, <1>18, <1>19, <1>20, <1>21, <1>22, <1>23, <1>24
  DEF Next, BridgeHost, ReleaseM, ReleaseC, Environment

LEMMA FilesStep ==
  ASSUME Typed, [Next]_vars
  PROVE  FilesOK'
<1> USE DEF Typed, disk, tool, OutsideHost, OutsideTool, OutsideGeneration
<1>a. GenInv /\ Sealed \subseteq Sealed' /\ (Sealed # {} => Newest \in Sealed)
  <2>1. Sealed \subseteq Sealed'
    BY GenStep DEF SealsGenesis, SealsSuccessor, Ids
  <2>2. Sealed # {} => Newest \in Sealed
    BY NewestIs DEF GenInv, Ids
  <2>. QED BY <2>1, <2>2
<1>b. legacy \in Database /\ legacy.blobs \subseteq Writes /\ Rows(legacy) \subseteq Writes
  BY DEF FilesOK, Database, Rows
<1>l. legacy' \in Database
  BY LegacyStep
<1> DEFINE Granted == \A p \in {proof', granted'} : p.nonce \in Nat /\ p.ids \in {{}, Ids}
<1> DEFINE Rest ==
  /\ objects' \subseteq Writes /\ torn' \subseteq Writes \ objects'
  /\ selector' \in {0} \union Sealed'
  /\ release' \in Releases /\ copy' \subseteq Writes
  /\ written' \in 0..MaxWrites /\ losses' \in 0..MaxLosses
<1>p. \A p \in {proof, granted} : p.nonce \in Nat /\ p.ids \in {{}, Ids}
  BY DEF FilesOK
<1>1. ASSUME NEW r \in Releases, OpenBridge(r) PROVE Granted /\ Rest
  BY <1>1, <1>a, <1>p, <1>b, MaxIsNat DEF OpenBridge, Selectable, FilesOK
<1>2. ASSUME Accept PROVE Granted /\ Rest
  BY <1>2, <1>a, <1>p, MaxIsNat DEF Accept, FilesOK
<1>3. ASSUME Close PROVE Granted /\ Rest
  BY <1>3, <1>a, <1>p, MaxIsNat DEF Close, FilesOK
<1>4. ASSUME HostLost PROVE Granted /\ Rest
  BY <1>4, <1>a, <1>p, <1>b, MaxIsNat DEF HostLost, Loss, FilesOK
<1>5. ASSUME NEW o \in {"migrate", "cleanup", "delete"}, Start(o) PROVE Granted /\ Rest
  BY <1>5, <1>a, <1>p, MaxIsNat DEF Start, FilesOK
<1>6. ASSUME MigrateBegin PROVE Granted /\ Rest
  BY <1>6, <1>a, <1>p, MaxIsNat DEF MigrateBegin, FilesOK
<1>7. ASSUME Freeze PROVE Granted /\ Rest
  BY <1>7, <1>a, <1>p, MaxIsNat DEF Freeze, FilesOK
<1>8. ASSUME Backup PROVE Granted /\ Rest
  BY <1>8, <1>a, <1>p, <1>b, MaxIsNat DEF Backup, BackedUp, FilesOK
<1>9. ASSUME PublishObjects PROVE Granted /\ Rest
  BY <1>9, <1>a, <1>p, <1>b DEF PublishObjects, FilesOK
<1>10. ASSUME PublishGenesis PROVE Granted /\ Rest
  BY <1>10, <1>a, <1>p, MaxIsNat DEF PublishGenesis, FilesOK
<1>11. ASSUME OpenCanonical PROVE Granted /\ Rest
  BY <1>11, <1>a, <1>p, <1>b, MaxIsNat DEF OpenCanonical, Selectable, FilesOK
<1>12. ASSUME CleanupBegin PROVE Granted /\ Rest
  BY <1>12, <1>a, <1>p, MaxIsNat DEF CleanupBegin, FilesOK
<1>13. ASSUME PublishCleanup PROVE Granted /\ Rest
  BY <1>13, <1>a, <1>p, MaxIsNat DEF PublishCleanup, FilesOK
<1>14. ASSUME WriteFloor PROVE Granted /\ Rest
  BY <1>14, <1>a, <1>p, MaxIsNat DEF WriteFloor, FilesOK
<1>15. ASSUME NEW r \in Releases, ValidateLegacyDeletion(r) PROVE Granted /\ Rest
  <2>1. Proof.nonce \in Nat /\ Proof.ids \in {{}, Ids}
    BY <1>15, <1>a, ProofTyped DEF ValidateLegacyDeletion
  <2>2. Granted
    BY <1>15, <2>1 DEF ValidateLegacyDeletion
  <2>3. Rest
    BY <1>15, <1>a DEF ValidateLegacyDeletion, FilesOK
  <2>. QED BY <2>2, <2>3
<1>16. ASSUME RemoveDatabase PROVE Granted /\ Rest
  <2>1. Proof.nonce \in Nat /\ Proof.ids \in {{}, Ids}
    BY <1>16, <1>a, ProofTyped DEF RemoveDatabase, StillProven
  <2>2. Granted
    BY <1>16, <2>1, <1>p DEF RemoveDatabase
  <2>3. Rest
    BY <1>16, <1>a DEF RemoveDatabase, FilesOK
  <2>. QED BY <2>2, <2>3
<1>17. ASSUME RemoveBlobs PROVE Granted /\ Rest
  BY <1>17, <1>a, <1>p, MaxIsNat DEF RemoveBlobs, FilesOK
<1>18. ASSUME ToolEnds PROVE Granted /\ Rest
  BY <1>18, <1>a, <1>p, <1>b, MaxIsNat DEF ToolEnds, EndTool, FilesOK
<1>19. ASSUME CopyTorn PROVE Granted /\ Rest
  BY <1>19, <1>a, <1>p, <1>b, MaxIsNat DEF CopyTorn, EndTool, Loss, FilesOK
<1>20. ASSUME StageSealed PROVE Granted /\ Rest
  BY <1>20, <1>a, <1>p, <1>b, MaxIsNat DEF StageSealed, EndTool, Loss, FilesOK
<1>21. ASSUME NEW g \in Sealed, NEW m \in Marks, Mark(g, m) PROVE Granted /\ Rest
  BY <1>21, <1>a, <1>p, MaxIsNat DEF Mark, FilesOK
<1>22. ASSUME NEW g \in Sealed, Unmark(g) PROVE Granted /\ Rest
  BY <1>22, <1>a, <1>p, MaxIsNat DEF Unmark, FilesOK
<1>23. ASSUME NEW g \in Sealed, Damage(g) PROVE Granted /\ Rest
  BY <1>23, <1>a, <1>p, <1>b, MaxIsNat DEF Damage, Loss, FilesOK
<1>24. ASSUME UNCHANGED vars PROVE Granted /\ Rest
  BY <1>24, <1>a, <1>p DEF vars, FilesOK
<1> HIDE DEF Granted, Rest
<1>25. Granted /\ Rest
  BY <1>1, <1>2, <1>3, <1>4, <1>5, <1>6, <1>7, <1>8, <1>9, <1>10, <1>11, <1>12,
     <1>13, <1>14, <1>15, <1>16, <1>17, <1>18, <1>19, <1>20, <1>21, <1>22, <1>23, <1>24
  DEF Next, BridgeHost, ReleaseM, ReleaseC, Environment
<1>. QED BY <1>l, <1>25 DEF FilesOK, Granted, Rest

\* A copy is made while nothing else changes the legacy database.
LEMMA CopyStep ==
  ASSUME Typed, RowsInv, [Next]_vars
  PROVE  op' = "migrate" /\ at' \in {"objects", "publish"} => copy' = Rows(legacy')
<1> USE DEF Typed, disk, tool, OutsideHost, OutsideTool, OutsideGeneration
<1> DEFINE Goal == op' = "migrate" /\ at' \in {"objects", "publish"} => copy' = Rows(legacy')
<1>u. ASSUME UNCHANGED <<op, at, copy>>, Rows(legacy') = Rows(legacy) PROVE Goal
  BY <1>u DEF RowsInv
<1>r. legacy' = legacy => Rows(legacy') = Rows(legacy)
  OBVIOUS
<1>h. op # "none" => (LegacyStays \/ LegacyGoes)
  BY LegacyStep DEF LegacyGrows
<1>1. ASSUME NEW r \in Releases, OpenBridge(r) PROVE Goal
  <2>1. CASE op = "migrate"
    <3>1. Sealed \in {{}, {Initial}, Ids}
      BY DEF GenInv
    <3>2. CASE LegacyStays
      BY <1>1, <3>2, <1>u DEF OpenBridge, LegacyStays
    <3>3. CASE ~LegacyStays
      <4>1. Sealed = Ids
        BY <2>1, <3>3, <1>h DEF LegacyGoes
      <4>2. ~(op = "migrate" /\ at \in {"objects", "publish"})
        BY <4>1 DEF ToolInv, Ids
      <4>. QED BY <1>1, <4>2 DEF OpenBridge
    <3>. QED BY <3>2, <3>3
  <2>2. CASE op # "migrate"
    BY <1>1, <2>2 DEF OpenBridge
  <2>. QED BY <2>1, <2>2
<1>2. ASSUME Accept PROVE Goal
  <2>1. CASE op = "migrate"
    <3>1. Sealed \in {{}, {Initial}, Ids}
      BY DEF GenInv
    <3>2. CASE LegacyStays
      BY <1>2, <3>2, <1>u DEF Accept, LegacyStays
    <3>3. CASE ~LegacyStays
      <4>1. Sealed = Ids
        BY <2>1, <3>3, <1>h DEF LegacyGoes
      <4>2. ~(op = "migrate" /\ at \in {"objects", "publish"})
        BY <4>1 DEF ToolInv, Ids
      <4>. QED BY <1>2, <4>2 DEF Accept
    <3>. QED BY <3>2, <3>3
  <2>2. CASE op # "migrate"
    BY <1>2, <2>2 DEF Accept
  <2>. QED BY <2>1, <2>2
<1>3. ASSUME Close PROVE Goal
  <2>1. CASE op = "migrate"
    <3>1. Sealed \in {{}, {Initial}, Ids}
      BY DEF GenInv
    <3>2. CASE LegacyStays
      BY <1>3, <3>2, <1>u DEF Close, LegacyStays
    <3>3. CASE ~LegacyStays
      <4>1. Sealed = Ids
        BY <2>1, <3>3, <1>h DEF LegacyGoes
      <4>2. ~(op = "migrate" /\ at \in {"objects", "publish"})
        BY <4>1 DEF ToolInv, Ids
      <4>. QED BY <1>3, <4>2 DEF Close
    <3>. QED BY <3>2, <3>3
  <2>2. CASE op # "migrate"
    BY <1>3, <2>2 DEF Close
  <2>. QED BY <2>1, <2>2
<1>4. ASSUME HostLost PROVE Goal
  BY <1>4, <1>u, <1>r DEF HostLost
<1>5. ASSUME NEW o \in {"migrate", "cleanup", "delete"}, Start(o) PROVE Goal
  BY <1>5 DEF Start, Step, ToolInv
<1>6. ASSUME MigrateBegin PROVE Goal
  BY <1>6 DEF MigrateBegin, Step, ToolInv
<1>7. ASSUME Freeze PROVE Goal
  BY <1>7 DEF Freeze, Step, ToolInv
<1>8. ASSUME Backup PROVE Goal
  <2>1. legacy' = Checkpointed(legacy) /\ copy' = Rows(legacy)
    BY <1>8 DEF Backup, BackedUp
  <2>2. legacy \in Database
    BY DEF FilesOK
  <2>. QED BY <2>1, <2>2, DatabaseCheckpointed DEF Rows
<1>9. ASSUME PublishObjects PROVE Goal
  BY <1>9, <1>r DEF PublishObjects, Step, RowsInv, ToolInv
<1>10. ASSUME PublishGenesis PROVE Goal
  BY <1>10 DEF PublishGenesis, Step, ToolInv
<1>11. ASSUME OpenCanonical PROVE Goal
  BY <1>11 DEF OpenCanonical, Step, ToolInv
<1>12. ASSUME CleanupBegin PROVE Goal
  BY <1>12 DEF CleanupBegin, Step, ToolInv
<1>13. ASSUME PublishCleanup PROVE Goal
  BY <1>13 DEF PublishCleanup, Step, ToolInv
<1>14. ASSUME WriteFloor PROVE Goal
  BY <1>14 DEF WriteFloor, Step, ToolInv
<1>15. ASSUME NEW r \in Releases, ValidateLegacyDeletion(r) PROVE Goal
  BY <1>15, <1>u, <1>r DEF ValidateLegacyDeletion
<1>16. ASSUME RemoveDatabase PROVE Goal
  BY <1>16 DEF RemoveDatabase, Step, ToolInv
<1>17. ASSUME RemoveBlobs PROVE Goal
  BY <1>17 DEF RemoveBlobs, Step, ToolInv
<1>18. ASSUME ToolEnds PROVE Goal
  BY <1>18 DEF ToolEnds, EndTool
<1>19. ASSUME CopyTorn PROVE Goal
  BY <1>19 DEF CopyTorn, EndTool
<1>20. ASSUME StageSealed PROVE Goal
  BY <1>20 DEF StageSealed, EndTool
<1>21. ASSUME NEW g \in Sealed, NEW m \in Marks, Mark(g, m) PROVE Goal
  BY <1>21, <1>u, <1>r DEF Mark
<1>22. ASSUME NEW g \in Sealed, Unmark(g) PROVE Goal
  BY <1>22, <1>u, <1>r DEF Unmark
<1>23. ASSUME NEW g \in Sealed, Damage(g) PROVE Goal
  BY <1>23, <1>u, <1>r DEF Damage
<1>24. CASE UNCHANGED vars
  BY <1>24, <1>u, <1>r DEF vars
<1>. QED
  BY <1>1, <1>2, <1>3, <1>4, <1>5, <1>6, <1>7, <1>8, <1>9, <1>10, <1>11, <1>12,
     <1>13, <1>14, <1>15, <1>16, <1>17, <1>18, <1>19, <1>20, <1>21, <1>22, <1>23, <1>24
  DEF Next, BridgeHost, ReleaseM, ReleaseC, Environment

LEMMA RowsStep ==
  ASSUME Typed, RowsInv, [Next]_vars
  PROVE  RowsInv'
<1> USE DEF Typed
<1>a. /\ GenInv' /\ written \in Nat /\ Ids # {} /\ {Initial} # {} /\ Ids # {Initial}
      /\ Initial \in Ids /\ Cleanup \in Ids /\ Ids = {Initial, Cleanup}
  BY GenStep DEF FilesOK, Ids, Initial, Cleanup
<1>n. 1..(written + 1) = (1..written) \union {written + 1}
  BY <1>a
<1>c. op' = "migrate" /\ at' \in {"objects", "publish"} => copy' = Rows(legacy')
  BY CopyStep
<1>1. CASE SealsGenesis
  <2>1. copy = Rows(legacy) /\ Rows(legacy') = Rows(legacy) /\ written' = written /\ 1..written \subseteq Rows(legacy)
    BY <1>1 DEF RowsInv, SealsGenesis
  <2>2. Rows(gen'[Initial]) = copy
    BY <1>1 DEF SealsGenesis, Rows
  <2>. QED BY <1>1, <1>a, <1>c, <2>1, <2>2 DEF SealsGenesis, RowsInv
<1>2. CASE SealsSuccessor
  <2>1. Rows(legacy') = Rows(legacy) /\ written' = written /\ Rows(legacy) \subseteq gen[Initial].main
        /\ 1..written \subseteq gen[Initial].main \union gen[Initial].wal
    BY <1>2 DEF RowsInv, SealsSuccessor, Rows
  <2>2. Rows(gen'[Cleanup]) = gen[Initial].main /\ gen'[Initial] = gen[Initial] /\ gen'[Cleanup].main = gen[Initial].main
    BY <1>2 DEF SealsSuccessor, Rows
  <2>. QED BY <1>2, <1>a, <1>c, <2>1, <2>2 DEF SealsSuccessor, RowsInv
<1>3. CASE Sealed' = Sealed /\ \A g \in Sealed : Grown(g)
  <2>1. Sealed' = {} => 1..written' \subseteq Rows(legacy')
    <3>1. SUFFICES ASSUME Sealed = {} PROVE 1..written' \subseteq Rows(legacy')
      BY <1>3
    <3>2. LegacyStays \/ LegacyGrows
      BY <3>1, <1>a, LegacyStep DEF LegacyGoes
    <3>3. written' = written \/ LegacyGrows
      BY <3>1, WrittenStep DEF Accepts
    <3>4. 1..written \subseteq Rows(legacy)
      BY <3>1 DEF RowsInv
    <3>5. CASE LegacyGrows
      BY <3>4, <3>5, <1>n DEF LegacyGrows
    <3>. QED BY <3>2, <3>3, <3>4, <3>5 DEF LegacyStays
  <2>2. \A g \in Sealed' : Rows(legacy') \subseteq gen'[g].main
    <3>1. SUFFICES ASSUME NEW g \in Sealed PROVE Rows(legacy') \subseteq gen'[g].main
      BY <1>3
    <3>2. Rows(legacy') \subseteq Rows(legacy)
      BY <3>1, LegacyStep DEF LegacyStays, LegacyGrows, LegacyGoes
    <3>3. Rows(legacy) \subseteq gen[g].main /\ gen[g].main \subseteq gen'[g].main
      BY <3>1, <1>3 DEF RowsInv, Grown
    <3>. QED BY <3>2, <3>3
  <2>3. Sealed' = {Initial} => 1..written' \subseteq Rows(gen'[Initial])
    <3>1. SUFFICES ASSUME Sealed = {Initial} PROVE 1..written' \subseteq Rows(gen'[Initial])
      BY <1>3
    <3>2. 1..written \subseteq Rows(gen[Initial]) /\ Rows(gen[Initial]) \subseteq Rows(gen'[Initial])
      BY <3>1, <1>3 DEF RowsInv, Grown
    <3>3. written' = written \/ Accepts
      BY <3>1, WrittenStep DEF LegacyGrows
    <3>4. CASE Accepts
      <4>1. host = Initial /\ written' = written + 1 /\ written + 1 \in Rows(gen'[Initial])
        BY <3>1, <3>4 DEF Accepts
      <4>. QED BY <3>2, <4>1, <1>n
    <3>. QED BY <3>2, <3>3, <3>4
  <2>4. Sealed' = Ids => 1..written' \subseteq Rows(gen'[Cleanup]) \union gen'[Initial].wal
    <3>1. SUFFICES ASSUME Sealed = Ids PROVE 1..written' \subseteq Rows(gen'[Cleanup]) \union gen'[Initial].wal
      BY <1>3
    <3>2. /\ 1..written \subseteq Rows(gen[Cleanup]) \union gen[Initial].wal
          /\ Rows(gen[Cleanup]) \subseteq Rows(gen'[Cleanup]) /\ gen'[Initial].wal = gen[Initial].wal
      BY <3>1, <1>3, <1>a DEF RowsInv, Grown
    <3>3. written' = written \/ Accepts
      BY <3>1, <1>a, WrittenStep DEF LegacyGrows
    <3>4. CASE Accepts
      <4>1. host = Cleanup /\ written' = written + 1 /\ written + 1 \in Rows(gen'[Cleanup])
        BY <3>1, <3>4, <1>a DEF Accepts
      <4>. QED BY <3>2, <4>1, <1>n
    <3>. QED BY <3>2, <3>3, <3>4
  <2>. QED BY <1>c, <2>1, <2>2, <2>3, <2>4 DEF RowsInv
<1>. QED BY <1>1, <1>2, <1>3, GenStep

LEMMA ObjectsStay ==
  ASSUME [Next]_vars
  PROVE  objects \subseteq objects'
<1> USE DEF disk, OutsideHost, OutsideTool, OutsideGeneration
<1>1. ASSUME NEW r \in Releases, OpenBridge(r) PROVE (objects \subseteq objects')
  BY <1>1 DEF OpenBridge
<1>2. ASSUME Accept PROVE (objects \subseteq objects')
  BY <1>2 DEF Accept
<1>3. ASSUME Close PROVE (objects \subseteq objects')
  BY <1>3 DEF Close
<1>4. ASSUME HostLost PROVE (objects \subseteq objects')
  BY <1>4 DEF HostLost
<1>5. ASSUME NEW o \in {"migrate", "cleanup", "delete"}, Start(o) PROVE (objects \subseteq objects')
  BY <1>5 DEF Start
<1>6. ASSUME MigrateBegin PROVE (objects \subseteq objects')
  BY <1>6 DEF MigrateBegin
<1>7. ASSUME Freeze PROVE (objects \subseteq objects')
  BY <1>7 DEF Freeze
<1>8. ASSUME Backup PROVE (objects \subseteq objects')
  BY <1>8 DEF Backup
<1>9. ASSUME PublishObjects PROVE (objects \subseteq objects')
  BY <1>9 DEF PublishObjects
<1>10. ASSUME PublishGenesis PROVE (objects \subseteq objects')
  BY <1>10 DEF PublishGenesis
<1>11. ASSUME OpenCanonical PROVE (objects \subseteq objects')
  BY <1>11 DEF OpenCanonical
<1>12. ASSUME CleanupBegin PROVE (objects \subseteq objects')
  BY <1>12 DEF CleanupBegin
<1>13. ASSUME PublishCleanup PROVE (objects \subseteq objects')
  BY <1>13 DEF PublishCleanup
<1>14. ASSUME WriteFloor PROVE (objects \subseteq objects')
  BY <1>14 DEF WriteFloor
<1>15. ASSUME NEW r \in Releases, ValidateLegacyDeletion(r) PROVE (objects \subseteq objects')
  BY <1>15 DEF ValidateLegacyDeletion
<1>16. ASSUME RemoveDatabase PROVE (objects \subseteq objects')
  BY <1>16 DEF RemoveDatabase
<1>17. ASSUME RemoveBlobs PROVE (objects \subseteq objects')
  BY <1>17 DEF RemoveBlobs
<1>18. ASSUME ToolEnds PROVE (objects \subseteq objects')
  BY <1>18 DEF ToolEnds
<1>19. ASSUME CopyTorn PROVE (objects \subseteq objects')
  BY <1>19 DEF CopyTorn
<1>20. ASSUME StageSealed PROVE (objects \subseteq objects')
  BY <1>20 DEF StageSealed
<1>21. ASSUME NEW g \in Sealed, NEW m \in Marks, Mark(g, m) PROVE (objects \subseteq objects')
  BY <1>21 DEF Mark
<1>22. ASSUME NEW g \in Sealed, Unmark(g) PROVE (objects \subseteq objects')
  BY <1>22 DEF Unmark
<1>23. ASSUME NEW g \in Sealed, Damage(g) PROVE (objects \subseteq objects')
  BY <1>23 DEF Damage
<1>24. CASE UNCHANGED vars
  BY <1>24 DEF vars
<1>. QED
  BY <1>1, <1>2, <1>3, <1>4, <1>5, <1>6, <1>7, <1>8, <1>9, <1>10, <1>11, <1>12,
     <1>13, <1>14, <1>15, <1>16, <1>17, <1>18, <1>19, <1>20, <1>21, <1>22, <1>23, <1>24
  DEF Next, BridgeHost, ReleaseM, ReleaseC, Environment

LEMMA BlobsStep ==
  ASSUME Typed, RowsInv, BlobsInv, [Next]_vars
  PROVE  BlobsInv'
<1> USE DEF Typed
<1>a. /\ GenInv' /\ Ids # {} /\ {Initial} # {} /\ Ids # {Initial} /\ Ids = {Initial, Cleanup}
      /\ objects \subseteq objects'
  BY GenStep, ObjectsStay DEF Ids, Initial, Cleanup
<1>1. CASE SealsGenesis
  <2>1. copy = Rows(legacy) /\ Rows(legacy) \subseteq legacy.blobs /\ Rows(gen'[Initial]) = copy
    BY <1>1 DEF SealsGenesis, RowsInv, BlobsInv, Rows
  <2>. QED BY <1>1, <1>a, <2>1 DEF SealsGenesis, BlobsInv
<1>2. CASE SealsSuccessor
  <2>1. /\ Sealed' = {Initial, Cleanup} /\ gen'[Initial] = gen[Initial]
        /\ Rows(gen'[Cleanup]) \subseteq Rows(gen[Initial])
        /\ gen'[Cleanup].objects = gen[Initial].objects /\ objects' = objects
    BY <1>2, <1>a DEF SealsSuccessor, Rows
  <2>2. gen[Initial].objects \subseteq objects /\ Rows(gen[Initial]) \subseteq objects \union gen[Initial].blobs
    BY <1>2 DEF SealsSuccessor, BlobsInv
  <2>3. Rows(gen'[Initial]) = Rows(gen[Initial])
    BY <2>1 DEF Rows
  <2>4. UNION {gen'[h].blobs : h \in Sealed'} = gen[Initial].blobs \union gen'[Cleanup].blobs
    BY <2>1
  <2>5. ASSUME NEW g \in Sealed'
        PROVE  gen'[g].objects \subseteq objects' /\ Rows(gen'[g]) \subseteq objects' \union UNION {gen'[h].blobs : h \in Sealed'}
    BY <2>1, <2>2, <2>3, <2>4
  <2>6. Sealed' # {}
    BY <2>1
  <2>. QED BY <2>5, <2>6 DEF BlobsInv
<1>3. CASE Sealed' = Sealed /\ \A g \in Sealed : Grown(g)
  <2>1. Sealed' = {} => Rows(legacy') \subseteq legacy'.blobs
    <3>1. SUFFICES ASSUME Sealed = {} PROVE Rows(legacy') \subseteq legacy'.blobs
      BY <1>3
    <3>2. LegacyStays \/ LegacyGrows
      BY <3>1, <1>a, LegacyStep DEF LegacyGoes
    <3>3. Rows(legacy) \subseteq legacy.blobs
      BY <3>1 DEF BlobsInv
    <3>. QED BY <3>2, <3>3 DEF LegacyStays, LegacyGrows
  <2>2. ASSUME NEW g \in Sealed
        PROVE  gen'[g].objects \subseteq objects' /\ Rows(gen'[g]) \subseteq objects' \union UNION {gen'[h].blobs : h \in Sealed}
    <3>1. gen'[g].objects = gen[g].objects /\ gen[g].objects \subseteq objects
      BY <1>3 DEF Grown, BlobsInv
    <3>2. Rows(gen'[g]) \subseteq Rows(gen[g]) \union gen'[g].blobs
      BY <1>3 DEF Grown
    <3>3. Rows(gen[g]) \subseteq objects \union UNION {gen[h].blobs : h \in Sealed}
      BY DEF BlobsInv
    <3>4. \A h \in Sealed : gen[h].blobs \subseteq gen'[h].blobs
      BY <1>3 DEF Grown
    <3>5. UNION {gen[h].blobs : h \in Sealed} \subseteq UNION {gen'[h].blobs : h \in Sealed}
      BY <3>4
    <3>6. gen'[g].blobs \subseteq UNION {gen'[h].blobs : h \in Sealed}
      OBVIOUS
    <3>. QED BY <3>1, <3>2, <3>3, <3>5, <3>6, <1>a
  <2>. QED BY <1>3, <2>1, <2>2 DEF BlobsInv
<1>. QED BY <1>1, <1>2, <1>3, GenStep

-----------------------------------------------------------------------------
\* The inductive invariant.
Inv == Typed /\ RowsInv /\ BlobsInv

LEMMA InitInv ==
  ASSUME Init
  PROVE  Inv
<1>1. Sealed = {} /\ gen \in [Sealed -> Entry]
  BY DEF Init, Sealed
<1>2. legacy \in Database /\ Rows(legacy) = {}
  BY DEF Init, Database, Rows, Writes
<1>3. 1..written = {} /\ written \in 0..MaxWrites /\ losses \in 0..MaxLosses
  BY MaxIsNat DEF Init
<1>4. GenInv /\ ToolInv
  BY <1>1 DEF Init, GenInv, ToolInv
<1>5. FilesOK
  BY <1>2, <1>3 DEF Init, FilesOK, NoProof
<1>6. HostInv
  BY DEF Init, HostInv, Ids, Initial, Cleanup, Legacy, Down
<1>7. FlagsOK
  BY DEF Init, FlagsOK
<1>8. RowsInv
  BY <1>1, <1>3 DEF Init, RowsInv, Ids
<1>9. BlobsInv
  BY <1>1, <1>2 DEF BlobsInv
<1>. QED BY <1>4, <1>5, <1>6, <1>7, <1>8, <1>9 DEF Inv, Typed

LEMMA NextInv ==
  ASSUME Inv, [Next]_vars
  PROVE  Inv'
BY GenStep, ToolStep, HostStep, FilesStep, FlagsStep, RowsStep, BlobsStep DEF Inv, Typed

\* What the code writes is of these forms.
THEOREM TypeCorrect == Spec => []TypeOK
<1>1. ASSUME Inv PROVE TypeOK
  <2>1. /\ legacy.main \union legacy.wal \union legacy.blobs \subseteq Writes /\ legacy.there \in BOOLEAN
    BY <1>1 DEF Inv, Typed, FilesOK, Database
  <2>2. ASSUME NEW g \in Sealed
        PROVE  /\ gen[g].pred \in {Legacy} \union (Sealed \ {g}) /\ gen[g].release \in Releases
               /\ gen[g].marks \subseteq Marks
               /\ Rows(gen[g]) \union gen[g].blobs \union gen[g].objects \subseteq Writes
    <3>1. gen[g] \in Entry
      BY <1>1 DEF Inv, Typed, GenInv
    <3>2. gen[g].pred \in {Legacy} \union (Sealed \ {g})
      BY <1>1 DEF Inv, Typed, GenInv, Ids, Initial, Cleanup, Legacy
    <3>. QED BY <3>1, <3>2 DEF Entry, Rows
  <2>3. \A g \in Sealed : gen[g].intact \in BOOLEAN
    <3>1. ASSUME NEW d \in Entry PROVE d.intact \in BOOLEAN
      BY Zenon DEF Entry
    <3>2. \A g \in Sealed : gen[g] \in Entry
      BY <1>1 DEF Inv, Typed, GenInv
    <3>. QED BY <3>1, <3>2
  <2>4. frozen \in BOOLEAN /\ floor \in BOOLEAN
    BY <1>1 DEF Inv, Typed, FlagsOK
  <2>5. /\ op \in {"none", "migrate", "cleanup", "delete"} /\ at \in Steps /\ (op = "none") = (at = "idle")
    BY <1>1 DEF Inv, Typed, ToolInv, Steps
  <2>. QED BY <1>1, <2>1, <2>2, <2>3, <2>4, <2>5 DEF TypeOK, Inv, Typed, FilesOK, HostInv, GenInv
<1>. QED BY <1>1, InitInv, NextInv, PTL DEF Spec

\* No copy that is older than what a Host accepted comes up, but for the rows
\* of the log that createCleanupGeneration does not copy.
THEOREM RowsSurvive == Spec => []RowsKept
<1>1. ASSUME Inv PROVE RowsKept
  <2>. SUFFICES ASSUME host # Down PROVE 1..written \subseteq Rows(Opened) \union LeftInLog
    BY DEF RowsKept
  <2>1. CASE host = Legacy
    BY <1>1, <2>1 DEF Inv, Typed, HostInv, RowsInv, Opened
  <2>2. CASE host # Legacy /\ Sealed = {Initial}
    <3>1. host = Initial /\ 1..written \subseteq Rows(gen[Initial])
      BY <1>1, <2>2 DEF Inv, Typed, HostInv, RowsInv
    <3>. QED BY <2>2, <3>1 DEF Opened
  <2>3. CASE host # Legacy /\ Sealed = Ids
    <3>1. Initial \in Sealed /\ Cleanup \in Sealed /\ Ids # {Initial} /\ Initial # Legacy
      BY <2>3 DEF Ids, Initial, Cleanup, Legacy
    <3>2. host = Cleanup /\ 1..written \subseteq Rows(gen[Cleanup]) \union gen[Initial].wal
      BY <1>1, <2>3, <3>1 DEF Inv, Typed, HostInv, RowsInv, Ids
    <3>3. gen[Cleanup].pred = Initial
      BY <1>1, <3>1 DEF Inv, Typed, GenInv, Initial, Cleanup
    <3>4. Initial \in {gen[h].pred : h \in Sealed} \ {Legacy}
      BY <3>1, <3>3
    <3>5. gen[Initial].wal \subseteq LeftInLog
      BY <3>4 DEF LeftInLog
    <3>. QED BY <2>3, <3>2, <3>5 DEF Opened
  <2>4. Sealed = {} => host = Legacy
    BY <1>1 DEF Inv, Typed, HostInv
  <2>. QED BY <1>1, <2>1, <2>2, <2>3, <2>4 DEF Inv, Typed, GenInv
<1>. QED BY <1>1, InitInv, NextInv, PTL DEF Spec

\* No deletion takes the last copy of a blob that the open authority refers to.
THEOREM BlobsSurvive == Spec => []BlobBytesKept
<1>1. ASSUME Inv PROVE BlobBytesKept
  <2>1. CASE host = Legacy
    BY <1>1, <2>1 DEF Inv, Typed, HostInv, BlobsInv, BlobBytesKept, Opened
  <2>2. CASE host \in Sealed /\ host # Legacy
    BY <1>1, <2>2 DEF Inv, BlobsInv, BlobBytesKept, Opened
  <2>. QED BY <1>1, <2>1, <2>2 DEF Inv, Typed, HostInv, BlobBytesKept
<1>. QED BY <1>1, InitInv, NextInv, PTL DEF Spec

\* What the offline tool copies after the freeze is what stays.
THEOREM FrozenRowsStay == Spec => FrozenStays
<1>1. ASSUME Inv, [Next]_vars PROVE [frozen => Rows(legacy') \in {Rows(legacy), {}}]_vars
  BY <1>1, LegacyStep DEF Inv, LegacyStays, LegacyGrows, LegacyGoes
<1>. QED BY <1>1, InitInv, NextInv, PTL DEF Spec, FrozenStays

\* The deletion finds both generations whole and unheld, with the legacy rows.
THEOREM DeletionIsProven == Spec => DeletionProven
<1> DEFINE A == legacy.there /\ ~legacy'.there =>
       /\ Sealed = Ids
       /\ \A g \in Sealed : Valid(gen[g]) /\ gen[g].marks = {} /\ Rows(legacy) \subseteq Rows(gen[g])
<1>1. ASSUME Inv, [Next]_vars PROVE A
  <2> USE <1>1 DEF disk, tool, OutsideHost, OutsideTool, OutsideGeneration
  <2>l. legacy \in Database
    BY DEF Inv, Typed, FilesOK
  <2>k. legacy'.there = legacy.there => A
    OBVIOUS
  <2>c. Checkpointed(legacy).there = legacy.there
    BY <2>l, DatabaseCheckpointed
  <2>1. ASSUME NEW r \in Releases, OpenBridge(r) PROVE A
    <3>1. CASE legacy' = [legacy EXCEPT !.there = TRUE]
      <4>1. legacy'.there
        BY <3>1, <2>l DEF Database
      <4>. QED BY <4>1
    <3>2. CASE UNCHANGED legacy
      BY <3>2, <2>k
    <3>. QED BY <2>1, <3>1, <3>2 DEF OpenBridge
  <2>2. ASSUME Accept PROVE A
    <3>1. CASE host = Legacy
      <4>1. written < MaxWrites /\ legacy' = Accepted(legacy)
        BY <2>2, <3>1 DEF Accept, Open
      <4>2. Accepted(legacy).there = legacy.there
        BY <4>1, <2>l, DatabaseAccepted, MaxIsNat DEF Inv, Typed, FilesOK
      <4>. QED BY <4>1, <4>2, <2>k
    <3>2. CASE host # Legacy
      BY <2>2, <3>2, <2>k DEF Accept, Open
    <3>. QED BY <3>1, <3>2
  <2>3. ASSUME Close PROVE A
    <3>1. CASE host = Legacy
      BY <2>3, <3>1, <2>c, <2>k DEF Close, Open
    <3>2. CASE host # Legacy
      BY <2>3, <3>2, <2>k DEF Close, Open
    <3>. QED BY <3>1, <3>2
  <2>4. ASSUME HostLost PROVE A
    BY <2>4, <2>k DEF HostLost
  <2>5. ASSUME NEW o \in {"migrate", "cleanup", "delete"}, Start(o) PROVE A
    BY <2>5, <2>k DEF Start
  <2>6. ASSUME MigrateBegin PROVE A
    BY <2>6, <2>k DEF MigrateBegin
  <2>7. ASSUME Freeze PROVE A
    BY <2>7, <2>k DEF Freeze
  <2>8. ASSUME Backup PROVE A
    BY <2>8, <2>c, <2>k DEF Backup
  <2>9. ASSUME PublishObjects PROVE A
    BY <2>9, <2>k DEF PublishObjects
  <2>10. ASSUME PublishGenesis PROVE A
    BY <2>10, <2>k DEF PublishGenesis
  <2>11. ASSUME OpenCanonical PROVE A
    BY <2>11, <2>k DEF OpenCanonical
  <2>12. ASSUME CleanupBegin PROVE A
    BY <2>12, <2>k DEF CleanupBegin
  <2>13. ASSUME PublishCleanup PROVE A
    BY <2>13, <2>k DEF PublishCleanup
  <2>14. ASSUME WriteFloor PROVE A
    BY <2>14, <2>k DEF WriteFloor
  <2>15. ASSUME NEW r \in Releases, ValidateLegacyDeletion(r) PROVE A
    BY <2>15, <2>k DEF ValidateLegacyDeletion
  <2>16. ASSUME RemoveDatabase PROVE A
    <3>1. Sealed = Ids
      BY <2>16, BothSealed DEF RemoveDatabase, StillProven, Inv, Typed
    <3>2. \A g \in Sealed : Valid(gen[g]) /\ gen[g].marks = {}
      BY <2>16 DEF RemoveDatabase, StillProven, Provable, Selectable
    <3>3. \A g \in Sealed : Rows(legacy) \subseteq Rows(gen[g])
      BY DEF Inv, RowsInv, Rows
    <3>. QED BY <3>1, <3>2, <3>3
  <2>17. ASSUME RemoveBlobs PROVE A
    <3>1. legacy'.there = legacy.there
      BY <2>17, <2>l DEF RemoveBlobs, Database
    <3>. QED BY <3>1, <2>k
  <2>18. ASSUME ToolEnds PROVE A
    BY <2>18, <2>k DEF ToolEnds
  <2>19. ASSUME CopyTorn PROVE A
    BY <2>19, <2>k DEF CopyTorn
  <2>20. ASSUME StageSealed PROVE A
    BY <2>20, <2>k DEF StageSealed
  <2>21. ASSUME NEW g \in Sealed, NEW m \in Marks, Mark(g, m) PROVE A
    BY <2>21, <2>k DEF Mark
  <2>22. ASSUME NEW g \in Sealed, Unmark(g) PROVE A
    BY <2>22, <2>k DEF Unmark
  <2>23. ASSUME NEW g \in Sealed, Damage(g) PROVE A
    BY <2>23, <2>k DEF Damage
  <2>24. CASE UNCHANGED vars
    BY <2>24, <2>k DEF vars
  <2>. QED
    BY <2>1, <2>2, <2>3, <2>4, <2>5, <2>6, <2>7, <2>8, <2>9, <2>10, <2>11, <2>12,
       <2>13, <2>14, <2>15, <2>16, <2>17, <2>18, <2>19, <2>20, <2>21, <2>22, <2>23, <2>24
    DEF Next, BridgeHost, ReleaseM, ReleaseC, Environment
<1>. QED BY <1>1, InitInv, NextInv, PTL DEF Spec, DeletionProven

-----------------------------------------------------------------------------
(* Blobs, recovery points and restores.                                    *)

USE RecoveryAssumption

\* What a synchronous block relies on: nothing else ran since it began.
BlockInv ==
  /\ up \/ busy = Idle
  /\ busy.at = "settle" => busy.of \in blobs /\ change < MaxChanges
  /\ busy.at = "maintain" => (todo.quarantined \cup todo.deleted) \cap Referenced = {}
  /\ busy.at = "rename" => point[busy.of].objects \subseteq store

\* What a restore relies on, which anything may interrupt: its directory is the
\* newest, and whatever it has still to copy, or copied, was as listed at its check.
RestoreInv ==
  /\ restore.at # "none" => \E g \in Generations : NewestSnapshot(g)
  /\ restore.at # "none" => rotten \cap restore.left \subseteq restore.since
  /\ restore.bad \subseteq restore.since

\* Directories of restores are made in order, so the newest is the last one.
GenerationsInOrder ==
  \A g, h \in Generations : g \in Fresh /\ g < h => h \in Fresh

RecoveryInv ==
  /\ RecoveryTypeOK /\ BlockInv /\ RestoreInv /\ GenerationsInOrder
  /\ ReferencedBytesKept /\ PointsKeepTheirObjects

-----------------------------------------------------------------------------
(* Types.                                                                  *)

\* The sets that RecoveryTypeOK names, one operator each.
PointStates == {"none", "copying", "copied", "kept", "torn", "gone"}
PointOK == point \in [Points -> Record]
BaseOK ==
  /\ up \in BOOLEAN
  /\ refs \subseteq Objects /\ retained \subseteq Objects /\ orphans \subseteq Objects
  /\ blobs \subseteq Objects /\ quarantine \subseteq Objects /\ missing \subseteq Objects
  /\ change \in 0..MaxChanges /\ due \in BOOLEAN
  /\ todo \in [{"restored", "quarantined", "deleted"} -> SUBSET Objects]
  /\ \/ busy \in [at : {"idle", "maintain", "collect"}, of : {NoPoint}]
     \/ busy \in [at : {"rename", "rotate", "written", "collect"}, of : Points]
     \/ busy \in [at : {"settle"}, of : Objects]
  /\ store \subseteq Objects /\ rotten \subseteq store
  /\ schedule \in 0..NoSchedule
  /\ previews \subseteq Points
  /\ generation \in [Generations -> {"none", "partial", "whole", "removed"}]
  /\ pointer \in Generations
  /\ mishaps \in 0..MaxMishaps

RestoreOK ==
  /\ restore.at \in {"none", "checked", "files"} /\ restore.of \in {NoPoint} \cup Points
  /\ restore.taken \in Record /\ restore.left \subseteq Objects
  /\ restore.bad \subseteq Objects /\ restore.since \subseteq Objects
  /\ waiting \in Record

\* RecoveryTypeOK is the type of the points, that of the restore and that of the rest.
LEMMA TypeParts == RecoveryTypeOK <=> BaseOK /\ PointOK /\ RestoreOK
BY DEF RecoveryTypeOK, BaseOK, PointOK, RestoreOK

\* What a point names is of its type.
LEMMA PointFields ==
  ASSUME PointOK, NEW p \in Points
  PROVE  /\ point[p].objects \subseteq Objects /\ point[p].refs \subseteq Objects
         /\ point[p].change \in 0..MaxChanges
BY DEF PointOK, Record

\* What the actions write for a point is a record of one.
LEMMA Requested ==
  \A kind \in Kinds, x \in SUBSET Objects, n \in 0..MaxChanges :
     [NoRecord EXCEPT !.state = "copying", !.kind = kind, !.objects = x, !.change = n] \in Record
BY DEF Record, NoRecord, PointStates, Kinds

\* Neither a point that is not there nor one that is gone names anything.
LEMMA GoneIsRecord == NoRecord \in Record /\ Gone \in Record
<1>1. NoRecord \in Record
  BY DEF Record, NoRecord, PointStates, Kinds
<1>2. \A r \in Record : [r EXCEPT !.state = "gone"] \in Record
  BY DEF Record, PointStates
<1> QED
  BY <1>1, <1>2 DEF Gone

\* A record stays one when its state, what was backed up or its database is rewritten.
LEMMA Rewritten ==
  ASSUME NEW r \in Record
  PROVE  /\ \A s \in {"copied", "kept", "torn"} : [r EXCEPT !.state = s] \in Record
         /\ \A s \in {"copied", "kept", "torn"}, intact \in BOOLEAN :
              [r EXCEPT !.state = s, !.database = intact] \in Record
         /\ \A s \in {"copied", "kept", "torn"}, x \in SUBSET Objects :
              [r EXCEPT !.state = s, !.refs = x] \in Record
<1>1. /\ r = [state |-> r.state, kind |-> r.kind, objects |-> r.objects, refs |-> r.refs,
             change |-> r.change, database |-> r.database]
      /\ r.state \in PointStates /\ r.kind \in Kinds /\ r.objects \in SUBSET Objects
      /\ r.refs \in SUBSET Objects /\ r.change \in 0..MaxChanges /\ r.database \in BOOLEAN
  BY DEF Record, PointStates
<1>2. ASSUME NEW s \in {"copied", "kept", "torn"}
      PROVE  [r EXCEPT !.state = s] \in Record
  BY <1>1 DEF Record, PointStates
<1>3. ASSUME NEW s \in {"copied", "kept", "torn"}, NEW intact \in BOOLEAN
      PROVE  [r EXCEPT !.state = s, !.database = intact] \in Record
  BY <1>1 DEF Record, PointStates
<1>4. ASSUME NEW s \in {"copied", "kept", "torn"}, NEW x \in SUBSET Objects
      PROVE  [r EXCEPT !.state = s, !.refs = x] \in Record
  BY <1>1 DEF Record, PointStates
<1> QED
  BY <1>2, <1>3, <1>4

\* While a restore is under way there is a newest directory, and it is the copy's.
LEMMA NewestExists ==
  ASSUME RestoreInv, restore.at # "none"
  PROVE  Copying \in Generations /\ NewestSnapshot(Copying)
<1>1. \E g \in Generations : NewestSnapshot(g)
  BY DEF RestoreInv
<1> QED
  BY <1>1 DEF Copying

\* Publication, references and maintenance keep the types.
LEMMA TypeOfBlobs ==
  ASSUME BaseOK, PointOK, BlockInv, Blobs
  PROVE  BaseOK' /\ PointOK'
<1> USE DEF BaseOK, live, recovery, restoring, Idle, NoSchedule, BlockInv
<1>1. ASSUME NEW o \in Objects, PublishBlob(o)
      PROVE  BaseOK' /\ PointOK'
  <2>1. BaseOK'
    BY <1>1 DEF PublishBlob, Points, NoPoint
  <2>2. PointOK'
    BY <1>1 DEF PublishBlob, PointOK
  <2> QED
    BY <2>1, <2>2
<1>2. ASSUME NEW o \in Objects, RetainObject(o)
      PROVE  BaseOK' /\ PointOK'
  <2>1. BaseOK'
    BY <1>2 DEF RetainObject, Points, NoPoint
  <2>2. PointOK'
    BY <1>2 DEF RetainObject, PointOK
  <2> QED
    BY <2>1, <2>2
<1>3. CASE Reference
  <2>1. BaseOK'
    BY <1>3 DEF Reference, Points, NoPoint
  <2>2. PointOK'
    BY <1>3 DEF Reference, PointOK
  <2> QED
    BY <2>1, <2>2
<1>4. CASE RollBack
  <2>1. BaseOK'
    BY <1>4 DEF RollBack, Mishap, Points, NoPoint
  <2>2. PointOK'
    BY <1>4 DEF RollBack, Mishap, PointOK
  <2> QED
    BY <2>1, <2>2
<1>5. ASSUME NEW aged \in SUBSET orphans, Maintain(aged)
      PROVE  BaseOK' /\ PointOK'
  <2>1. BaseOK'
    BY <1>5 DEF Maintain, Decisions, Referenced, Points, NoPoint
  <2>2. PointOK'
    BY <1>5 DEF Maintain, Decisions, Referenced, PointOK
  <2> QED
    BY <2>1, <2>2
<1>6. ASSUME NEW o \in Objects, RestoreBlob(o)
      PROVE  BaseOK' /\ PointOK'
  <2>1. BaseOK'
    BY <1>6 DEF RestoreBlob, Points, NoPoint
  <2>2. PointOK'
    BY <1>6 DEF RestoreBlob, PointOK
  <2> QED
    BY <2>1, <2>2
<1>7. ASSUME NEW o \in Objects, QuarantineBlob(o)
      PROVE  BaseOK' /\ PointOK'
  <2>1. BaseOK'
    BY <1>7 DEF QuarantineBlob, Points, NoPoint
  <2>2. PointOK'
    BY <1>7 DEF QuarantineBlob, PointOK
  <2> QED
    BY <2>1, <2>2
<1>8. ASSUME NEW o \in Objects, DeleteQuarantinedBlob(o)
      PROVE  BaseOK' /\ PointOK'
  <2>1. BaseOK'
    BY <1>8 DEF DeleteQuarantinedBlob, Points, NoPoint
  <2>2. PointOK'
    BY <1>8 DEF DeleteQuarantinedBlob, PointOK
  <2> QED
    BY <2>1, <2>2
<1>9. CASE EndMaintenance
  <2>1. BaseOK'
    BY <1>9 DEF EndMaintenance, Mishap, NoWork, Points, NoPoint
  <2>2. PointOK'
    BY <1>9 DEF EndMaintenance, Mishap, NoWork, PointOK
  <2> QED
    BY <2>1, <2>2
<1> QED
  BY <1>1, <1>2, <1>3, <1>4, <1>5, <1>6, <1>7, <1>8, <1>9 DEF Blobs

\* The making, rotation and deletion of points keep the types.
LEMMA TypeOfSnapshots ==
  ASSUME BaseOK, PointOK, BlockInv, Snapshots
  PROVE  BaseOK' /\ PointOK'
<1> USE DEF BaseOK, live, recovery, restoring, Idle, NoSchedule
<1>1. CASE FirstScheduled
  <2>1. BaseOK'
    BY <1>1 DEF FirstScheduled, Points, NoPoint
  <2>2. PointOK'
    BY <1>1 DEF FirstScheduled, PointOK
  <2> QED
    BY <2>1, <2>2
<1>2. ASSUME NEW p \in Points, RunScheduled(p)
      PROVE  BaseOK' /\ PointOK'
  <2>1. BaseOK'
    BY <1>2 DEF RunScheduled, Request
  <2>2. "scheduled" \in Kinds /\ Referenced \in SUBSET Objects
    BY DEF Kinds, Referenced
  <2>3. PointOK'
    BY <1>2, <2>2, Requested DEF RunScheduled, Request, PointOK
  <2> QED
    BY <2>1, <2>3
<1>3. ASSUME NEW p \in Points, BackUp(p)
      PROVE  BaseOK' /\ PointOK'
  <2>1. BaseOK'
    BY <1>3 DEF BackUp, Referenced, Points, NoPoint
  <2>2. PointOK'
    BY <1>3, Rewritten DEF BackUp, Referenced, PointOK
  <2> QED
    BY <2>1, <2>2
<1>4. ASSUME NEW p \in Points, CopyObjects(p)
      PROVE  BaseOK' /\ PointOK'
  <2>1. BaseOK'
    BY <1>4, PointFields DEF CopyObjects, Points, NoPoint
  <2>2. PointOK'
    BY <1>4 DEF CopyObjects, PointOK
  <2> QED
    BY <2>1, <2>2
<1>5. ASSUME NEW p \in Points, DeletePoint(p)
      PROVE  BaseOK' /\ PointOK'
  <2>1. BaseOK'
    BY <1>5 DEF DeletePoint, Kept, Points, NoPoint
  <2>2. PointOK'
    BY <1>5, GoneIsRecord DEF DeletePoint, Kept, PointOK
  <2> QED
    BY <2>1, <2>2
<1>6. ASSUME NEW p \in Points, NEW kind \in Kinds, CreateManual(p, kind)
      PROVE  BaseOK' /\ PointOK'
  <2>1. BaseOK'
    BY <1>6 DEF CreateManual, Request, Referenced, Points, NoPoint
  <2>2. PointOK'
    BY <1>6, Requested DEF CreateManual, Request, Referenced, PointOK
  <2> QED
    BY <2>1, <2>2
<1>7. ASSUME NEW p \in Points, NEW some \in SUBSET Objects, FailCreate(p, some)
      PROVE  BaseOK' /\ PointOK'
  <2>1. BaseOK'
    BY <1>7, PointFields DEF FailCreate, Mishap, Points, NoPoint
  <2>2. PointOK'
    BY <1>7, GoneIsRecord DEF FailCreate, Mishap, PointOK
  <2> QED
    BY <2>1, <2>2
<1>8. CASE Rename
  <2>1. BaseOK'
    BY <1>8 DEF Rename, Points, NoPoint
  <2>2. PointOK'
    BY <1>8, Rewritten DEF Rename, PointOK
  <2> QED
    BY <2>1, <2>2
<1>9. CASE Rotate
  <2>1. BaseOK'
    BY <1>9 DEF Rotate, Points, NoPoint
  <2>2. PointOK'
    BY <1>9, GoneIsRecord DEF Rotate, PointOK
  <2> QED
    BY <2>1, <2>2
<1>10. CASE CollectObjects
  <2>1. BaseOK'
    BY <1>10 DEF CollectObjects, Reachable, Points, NoPoint
  <2>2. PointOK'
    BY <1>10 DEF CollectObjects, Reachable, PointOK
  <2> QED
    BY <2>1, <2>2
<1>11. CASE WriteSchedule
  <2>1. busy.of \in Points
    BY <1>11 DEF WriteSchedule
  <2>2. schedule' \in 0..NoSchedule
    BY <1>11, <2>1, PointFields DEF WriteSchedule
  <2>3. BaseOK'
    BY <1>11, <2>2 DEF WriteSchedule, NoPoint
  <2>4. PointOK'
    BY <1>11 DEF WriteSchedule, PointOK
  <2> QED
    BY <2>3, <2>4
<1> QED
  BY <1>1, <1>2, <1>3, <1>4, <1>5, <1>6, <1>7, <1>8, <1>9, <1>10, <1>11 DEF Snapshots

\* Losses keep the types.
LEMMA TypeOfLosses ==
  ASSUME BaseOK, PointOK, RestoreOK, BlockInv, Losses
  PROVE  BaseOK' /\ PointOK'
<1> USE DEF BaseOK, live, recovery, restoring, Idle, NoSchedule
<1>1. CASE StopDaemon
  <2>0. mishaps' \in 0..MaxMishaps
    BY <1>1 DEF StopDaemon, Mishap
  <2>1. BaseOK'
    <3>1. todo' \in [{"restored", "quarantined", "deleted"} -> SUBSET Objects]
      BY <1>1 DEF StopDaemon, Stopped, NoWork
    <3>2. busy' \in [at : {"idle", "maintain", "collect"}, of : {NoPoint}]
      BY <1>1 DEF StopDaemon, Stopped
    <3> QED
      BY <1>1, <2>0, <3>1, <3>2 DEF StopDaemon, Stopped
  <2>2. PointOK'
    BY <1>1, GoneIsRecord DEF StopDaemon, LeftBehind, PointOK
  <2> QED
    BY <2>1, <2>2
<1>2. CASE StartDaemon
  <2>1. waiting.refs \subseteq Objects /\ waiting.objects \subseteq Objects
        /\ waiting.change \in 0..MaxChanges
    BY DEF RestoreOK, Record
  <2>2. /\ refs' \subseteq Objects /\ retained' \subseteq Objects /\ orphans' \subseteq Objects
        /\ blobs' \subseteq Objects /\ quarantine' \subseteq Objects /\ missing' \subseteq Objects
        /\ change' \in 0..MaxChanges
    <3>1. CASE waiting = NoRecord
      BY <1>2, <3>1 DEF StartDaemon
    <3>2. CASE waiting # NoRecord
      BY <1>2, <2>1, <3>2 DEF StartDaemon, OpenRestored
    <3> QED
      BY <3>1, <3>2
  <2>3. BaseOK' /\ PointOK'
    BY <1>2, <2>2 DEF StartDaemon, PointOK
  <2> QED
    BY <2>3
<1>3. CASE NextDay
  <2>1. BaseOK'
    BY <1>3 DEF NextDay, Points, NoPoint
  <2>2. PointOK'
    BY <1>3 DEF NextDay, PointOK
  <2> QED
    BY <2>1, <2>2
<1>4. ASSUME NEW p \in Points, LoseDaemon(p)
      PROVE  BaseOK' /\ PointOK'
  <2>0. mishaps' \in 0..MaxMishaps
    BY <1>4 DEF LoseDaemon, Mishap
  <2>1. BaseOK'
    <3>1. todo' \in [{"restored", "quarantined", "deleted"} -> SUBSET Objects]
      BY <1>4 DEF LoseDaemon, Stopped, NoWork
    <3>2. busy' \in [at : {"idle", "maintain", "collect"}, of : {NoPoint}]
      BY <1>4 DEF LoseDaemon, Stopped
    <3> QED
      BY <1>4, <2>0, <3>1, <3>2 DEF LoseDaemon, Stopped
  <2>2. PICK remains \in Remains(p) : point' = [LeftBehind EXCEPT ![p] = remains]
    BY <1>4 DEF LoseDaemon
  <2>3. remains \in Record
    <3>1. point[p] \in Record
      BY DEF PointOK
    <3> QED
      BY <2>2, <3>1, Rewritten DEF Remains
  <2>4. PointOK'
    BY <2>2, <2>3, GoneIsRecord DEF LeftBehind, PointOK
  <2> QED
    BY <2>1, <2>4
<1>5. ASSUME NEW o \in Objects, Rot(o)
      PROVE  BaseOK' /\ PointOK'
  <2>1. BaseOK'
    BY <1>5 DEF Rot, Mishap, Points, NoPoint
  <2>2. PointOK'
    BY <1>5 DEF Rot, Mishap, PointOK
  <2> QED
    BY <2>1, <2>2
<1> QED
  BY <1>1, <1>2, <1>3, <1>4, <1>5 DEF Losses

\* A restore changes nothing of the Host's until one starts over it.
LEMMA RestoreOutside ==
  ASSUME Restores
  PROVE  OutsideRestore
<1>1. CASE \E offered \in SUBSET Kept : Preview(offered)
  BY <1>1 DEF Preview, OutsideRestore
<1>2. CASE \E p \in Points : Restore(p)
  BY <1>2 DEF Restore
<1>3. CASE \E o \in Objects : CopyFile(o)
  BY <1>3 DEF CopyFile
<1>4. CASE CopyDatabase \/ FailRestore \/ LoseRestore \/ Activate \/ ActivateUnflushed
  BY <1>4 DEF CopyDatabase, FailRestore, LoseRestore, Activate, ActivateUnflushed
<1> QED
  BY <1>1, <1>2, <1>3, <1>4 DEF Restores

\* Restores keep the types.
LEMMA TypeOfRestores ==
  ASSUME BaseOK, PointOK, RestoreInv, Restores
  PROVE  BaseOK' /\ PointOK'
<1> USE DEF BaseOK, PointOK, OutsideRestore, live, recovery
<1>1. ASSUME NEW offered \in SUBSET Kept, Preview(offered)
      PROVE  BaseOK' /\ PointOK'
  BY <1>1 DEF Preview, Kept
<1>2. ASSUME NEW p \in Points, Restore(p)
      PROVE  BaseOK' /\ PointOK'
  BY <1>2 DEF Restore
<1>3. CASE CopyDatabase
  BY <1>3 DEF CopyDatabase
<1>4. ASSUME NEW o \in Objects, CopyFile(o)
      PROVE  BaseOK' /\ PointOK'
  BY <1>4 DEF CopyFile
<1>5. CASE FailRestore
  <2>1. generation' \in [Generations -> {"none", "partial", "whole", "removed"}]
    BY <1>5 DEF FailRestore
  <2>2. mishaps' \in 0..MaxMishaps
    BY <1>5 DEF FailRestore, Mishap
  <2> QED
    BY <1>5, <2>1, <2>2 DEF FailRestore
<1>6. CASE LoseRestore
  BY <1>6 DEF LoseRestore, Mishap
<1>7. CASE Activate
  <2>1. Copying \in Generations
    BY <1>7, NewestExists DEF Activate, Reconciled
  <2> QED
    BY <1>7, <2>1 DEF Activate, PointAt
<1>8. CASE ActivateUnflushed
  <2>1. Copying \in Generations
    BY <1>8, NewestExists DEF ActivateUnflushed, Reconciled
  <2> QED
    BY <1>8, <2>1 DEF ActivateUnflushed, PointAt, Mishap
<1> QED
  BY <1>1, <1>2, <1>3, <1>4, <1>5, <1>6, <1>7, <1>8 DEF Restores

\* What only restores, starts and rotting files change.
LEMMA RestoreFrame ==
  ASSUME RestoreOK, UNCHANGED <<restore, waiting>>
  PROVE  RestoreOK'
BY DEF RestoreOK

\* The types of the restore under way and of what waits for a start.
LEMMA TypeOfRestore ==
  ASSUME BaseOK, PointOK, RestoreOK, RecoveryNext
  PROVE  RestoreOK'
<1>1. CASE Blobs
  BY <1>1, RestoreFrame DEF Blobs, PublishBlob, RetainObject, Reference, RollBack, Maintain,
     RestoreBlob, QuarantineBlob, DeleteQuarantinedBlob, EndMaintenance, restoring
<1>2. CASE Snapshots
  BY <1>2, RestoreFrame DEF Snapshots, FirstScheduled, RunScheduled, BackUp, CopyObjects,
     DeletePoint, CreateManual, FailCreate, Rename, Rotate, CollectObjects, WriteSchedule,
     restoring
<1>3. CASE Losses
  <2>1. CASE StartDaemon
    BY <2>1, GoneIsRecord DEF StartDaemon, RestoreOK
  <2>2. ASSUME NEW o \in Objects, Rot(o)
        PROVE  RestoreOK'
    BY <2>2 DEF Rot, RestoreOK
  <2>3. CASE StopDaemon \/ NextDay \/ \E p \in Points : LoseDaemon(p)
    BY <2>3, RestoreFrame DEF StopDaemon, NextDay, LoseDaemon, Stopped, restoring
  <2> QED
    BY <1>3, <2>1, <2>2, <2>3 DEF Losses
<1>4. CASE Restores
  <2>0. NoRestore.taken \in Record /\ NoRestore.at = "none" /\ NoRestore.of = NoPoint
        /\ NoRestore.left = {} /\ NoRestore.bad = {} /\ NoRestore.since = {}
    BY GoneIsRecord DEF NoRestore
  <2>1. ASSUME NEW p \in Points, Restore(p)
        PROVE  RestoreOK'
    BY <2>0, <2>1, PointFields DEF Restore, RestoreOK, PointOK, NoRestore
  <2>2. CASE CopyDatabase
    BY <2>2 DEF CopyDatabase, RestoreOK
  <2>3. ASSUME NEW o \in Objects, CopyFile(o)
        PROVE  RestoreOK'
    BY <2>3 DEF CopyFile, RestoreOK
  <2>4. CASE FailRestore \/ LoseRestore
    BY <2>0, <2>4 DEF FailRestore, LoseRestore, RestoreOK
  <2>5. CASE Activate
    <3>1. restore.taken \in Record
      BY DEF RestoreOK
    <3>2. waiting' \in Record
      BY <2>5, <3>1, Rewritten DEF Activate
    <3> QED
      BY <2>0, <2>5, <3>2 DEF Activate, RestoreOK
  <2>6. CASE ActivateUnflushed
    BY <2>0, <2>6 DEF ActivateUnflushed, RestoreOK
  <2>7. CASE \E offered \in SUBSET Kept : Preview(offered)
    BY <2>7, RestoreFrame DEF Preview
  <2> QED
    BY <1>4, <2>1, <2>2, <2>3, <2>4, <2>5, <2>6, <2>7 DEF Restores
<1> QED
  BY <1>1, <1>2, <1>3, <1>4 DEF RecoveryNext

\* Generations are numbers, so a nonempty set of them has a first.
LEMMA GenerationsAreNumbers == Generations \subseteq Nat
BY DEF Generations

\* The order of the numbers, as a relation, is well founded.
Below == {pair \in Nat \X Nat : pair[1] < pair[2]}
LEMMA BelowIsWellFounded == IsWellFoundedOn(Below, Nat)
BY NatLessThanWellFounded, Zenon DEF OpToRel, Below

\* A nonempty set of numbers has a least one.
LEMMA LeastNumber ==
  ASSUME NEW S, S \subseteq Nat, S # {}
  PROVE  \E g \in S : \A h \in S : g <= h
<1>1. PICK g \in S : \A h \in S : ~(<<h, g>> \in Below)
  BY BelowIsWellFounded, WFMin, Zenon
<1>2. ASSUME NEW h \in S PROVE g <= h
  <2>1. g \in Nat /\ h \in Nat /\ ~(<<h, g>> \in Below)
    BY <1>1
  <2>2. <<h, g>> \in Nat \X Nat
    BY <2>1
  <2>3. ~(<<h, g>>[1] < <<h, g>>[2])
    BY <2>1, <2>2, Zenon DEF Below
  <2> QED
    BY <2>1, <2>3
<1> QED
  BY <1>2

\* A directory that a restore may take is there or the restore is refused.
LEMMA FreshHasFirst ==
  ASSUME Fresh # {}
  PROVE  \E g \in Fresh : \A h \in Fresh : g <= h
BY LeastNumber, GenerationsAreNumbers DEF Fresh

-----------------------------------------------------------------------------
(* What a synchronous block relies on.                                     *)

\* Publication and maintenance: a block's own steps leave what it relies on.
LEMMA BlockOfBlobs ==
  ASSUME RecoveryTypeOK, BlockInv, Blobs
  PROVE  BlockInv'
<1> USE DEF BlockInv, Ready, Idle, live, recovery, restoring, Referenced
<1>1. ASSUME NEW o \in Objects, PublishBlob(o)
      PROVE  BlockInv'
  BY <1>1 DEF PublishBlob
<1>2. ASSUME NEW o \in Objects, RetainObject(o)
      PROVE  BlockInv'
  BY <1>2 DEF RetainObject
<1>3. CASE Reference
  BY <1>3 DEF Reference
<1>4. CASE RollBack
  BY <1>4 DEF RollBack, Mishap
<1>5. ASSUME NEW aged \in SUBSET orphans, Maintain(aged)
      PROVE  BlockInv'
  BY <1>5 DEF Maintain, Decisions, Referenced
<1>6. ASSUME NEW o \in Objects, RestoreBlob(o)
      PROVE  BlockInv'
  BY <1>6 DEF RestoreBlob
<1>7. ASSUME NEW o \in Objects, QuarantineBlob(o)
      PROVE  BlockInv'
  BY <1>7 DEF QuarantineBlob
<1>8. ASSUME NEW o \in Objects, DeleteQuarantinedBlob(o)
      PROVE  BlockInv'
  BY <1>8 DEF DeleteQuarantinedBlob
<1>9. CASE EndMaintenance
  BY <1>9 DEF EndMaintenance, Mishap, NoWork
<1> QED
  BY <1>1, <1>2, <1>3, <1>4, <1>5, <1>6, <1>7, <1>8, <1>9 DEF Blobs

\* The steps on points.
LEMMA BlockOfSnapshots ==
  ASSUME RecoveryTypeOK, BlockInv, Snapshots
  PROVE  BlockInv'
<1> USE DEF BlockInv, Ready, Idle, live, recovery, restoring, RecoveryTypeOK
<1>1. CASE FirstScheduled
  BY <1>1 DEF FirstScheduled
<1>2. ASSUME NEW p \in Points, RunScheduled(p)
      PROVE  BlockInv'
  BY <1>2 DEF RunScheduled, Request, Referenced
<1>3. ASSUME NEW p \in Points, BackUp(p)
      PROVE  BlockInv'
  BY <1>3 DEF BackUp, Referenced
<1>4. ASSUME NEW p \in Points, CopyObjects(p)
      PROVE  BlockInv'
  BY <1>4 DEF CopyObjects
<1>5. ASSUME NEW p \in Points, DeletePoint(p)
      PROVE  BlockInv'
  BY <1>5 DEF DeletePoint, Kept
<1>6. ASSUME NEW p \in Points, NEW kind \in Kinds, CreateManual(p, kind)
      PROVE  BlockInv'
  BY <1>6 DEF CreateManual, Request, Referenced
<1>7. ASSUME NEW p \in Points, NEW some \in SUBSET Objects, FailCreate(p, some)
      PROVE  BlockInv'
  BY <1>7 DEF FailCreate, Mishap
<1>8. CASE Rename
  BY <1>8 DEF Rename
<1>9. CASE Rotate
  BY <1>9 DEF Rotate
<1>10. CASE CollectObjects
  BY <1>10 DEF CollectObjects, Reachable
<1>11. CASE WriteSchedule
  BY <1>11 DEF WriteSchedule
<1> QED
  BY <1>1, <1>2, <1>3, <1>4, <1>5, <1>6, <1>7, <1>8, <1>9, <1>10, <1>11 DEF Snapshots

\* Losses end the block they interrupt.
LEMMA BlockOfLosses ==
  ASSUME RecoveryTypeOK, BlockInv, Losses
  PROVE  BlockInv'
<1> USE DEF BlockInv, Ready, Idle, live, recovery, restoring
<1>1. CASE StopDaemon
  BY <1>1 DEF StopDaemon, Stopped, LeftBehind, NoWork, Mishap
<1>2. CASE StartDaemon
  BY <1>2 DEF StartDaemon
<1>3. CASE NextDay
  BY <1>3 DEF NextDay
<1>4. ASSUME NEW p \in Points, LoseDaemon(p)
      PROVE  BlockInv'
  BY <1>4 DEF LoseDaemon, Stopped, LeftBehind, Remains, NoWork, Mishap
<1>5. ASSUME NEW o \in Objects, Rot(o)
      PROVE  BlockInv'
  BY <1>5 DEF Rot, Referenced
<1> QED
  BY <1>1, <1>2, <1>3, <1>4, <1>5 DEF Losses

\* A restore leaves the daemon's block alone.
LEMMA BlockOfRestores ==
  ASSUME RecoveryTypeOK, BlockInv, Restores
  PROVE  BlockInv'
<1>1. OutsideRestore
  BY RestoreOutside
<1> QED
  BY <1>1 DEF OutsideRestore, BlockInv, live, recovery, Referenced

-----------------------------------------------------------------------------
(* What a restore relies on.                                               *)

\* A step outside the restore that rots nothing.
LEMMA RelianceFrame ==
  ASSUME RestoreInv, UNCHANGED <<generation, restore>>, rotten' \subseteq rotten
  PROVE  RestoreInv'
BY DEF RestoreInv, NewestSnapshot, Fresh

\* What had been found sound and is not copied yet rots only to be noted.
LEMMA RelianceStep ==
  ASSUME RecoveryTypeOK, RestoreInv, GenerationsInOrder, RecoveryNext
  PROVE  RestoreInv'
<1>1. CASE Blobs
  BY <1>1, RelianceFrame DEF Blobs, PublishBlob, RetainObject, Reference, RollBack, Maintain,
     RestoreBlob, QuarantineBlob, DeleteQuarantinedBlob, EndMaintenance, restoring, recovery
<1>2. CASE Snapshots
  BY <1>2, RelianceFrame DEF Snapshots, FirstScheduled, RunScheduled, BackUp, CopyObjects,
     DeletePoint, CreateManual, FailCreate, Rename, Rotate, CollectObjects, WriteSchedule,
     restoring
<1>3. ASSUME NEW o \in Objects, Rot(o)
      PROVE  RestoreInv'
  BY <1>3 DEF Rot, RestoreInv, RecoveryTypeOK, NewestSnapshot, Fresh
<1>4. CASE Losses /\ ~\E o \in Objects : Rot(o)
  BY <1>4, RelianceFrame DEF Losses, StopDaemon, Stopped, StartDaemon, NextDay, LoseDaemon,
     recovery, restoring
<1>5. ASSUME NEW p \in Points, Restore(p)
      PROVE  RestoreInv'
  <2> DEFINE n == NextGeneration
  <2>1. n \in Fresh /\ \A h \in Fresh : n <= h
    BY <1>5, FreshHasFirst DEF Restore, NextGeneration
  <2>2. n \in Generations /\ generation' = [generation EXCEPT ![n] = "partial"]
    BY <1>5, <2>1 DEF Restore, Fresh
  <2> HIDE DEF n
  <2>3. generation'[n] = "partial" /\ \A h \in Generations \ Fresh' : h \notin Fresh \/ h = n
    BY <2>2 DEF Fresh, RecoveryTypeOK
  <2>4. \A h \in Generations \ Fresh' : h <= n
    BY <2>1, <2>2, <2>3, GenerationsAreNumbers DEF GenerationsInOrder
  <2>5. (\E g \in Generations : NewestSnapshot(g))'
    BY <2>2, <2>3, <2>4 DEF NewestSnapshot
  <2>6. restore'.left \cap rotten' = {} /\ restore'.bad = {}
    BY <1>5 DEF Restore, Sound, NoRestore, OutsideRestore, recovery
  <2> QED
    BY <2>5, <2>6 DEF RestoreInv
<1>6. CASE CopyDatabase
  BY <1>6 DEF CopyDatabase, OutsideRestore, recovery, RestoreInv, RecoveryTypeOK, NewestSnapshot,
     Fresh
<1>7. ASSUME NEW o \in Objects, CopyFile(o)
      PROVE  RestoreInv'
  BY <1>7 DEF CopyFile, OutsideRestore, recovery, RestoreInv, RecoveryTypeOK, NewestSnapshot,
     Fresh
<1>8. CASE FailRestore \/ LoseRestore \/ Activate \/ ActivateUnflushed
  BY <1>8 DEF FailRestore, LoseRestore, Activate, ActivateUnflushed, RestoreInv, NoRestore
<1>9. CASE \E offered \in SUBSET Kept : Preview(offered)
  BY <1>9, RelianceFrame DEF Preview, recovery
<1> QED
  BY <1>1, <1>2, <1>3, <1>4, <1>5, <1>6, <1>7, <1>8, <1>9 DEF RecoveryNext, Restores

-----------------------------------------------------------------------------
(* The directories of restores.                                            *)

\* A step that makes and removes no directory keeps their order.
LEMMA OrderFrame ==
  ASSUME GenerationsInOrder, UNCHANGED generation
  PROVE  GenerationsInOrder'
BY DEF GenerationsInOrder, Fresh

\* Only a restore makes or removes a directory of its own.
LEMMA OrderStep ==
  ASSUME RecoveryTypeOK, RestoreInv, GenerationsInOrder, RecoveryNext
  PROVE  GenerationsInOrder'
<1>1. CASE \E p \in Points : Restore(p)
  <2> DEFINE n == NextGeneration
  <2>1. n \in Fresh /\ \A h \in Fresh : n <= h
    BY <1>1, FreshHasFirst DEF Restore, NextGeneration
  <2>2. n \in Generations /\ generation' = [generation EXCEPT ![n] = "partial"]
    BY <1>1, <2>1 DEF Restore, Fresh
  <2> HIDE DEF n
  <2>3. Fresh' = Fresh \ {n}
    BY <2>2 DEF Fresh, RecoveryTypeOK
  <2> QED
    BY <2>1, <2>2, <2>3, GenerationsAreNumbers DEF GenerationsInOrder, Fresh
<1>2. CASE FailRestore
  <2> DEFINE c == Copying
  <2>1. c \in Generations /\ NewestSnapshot(c)
    BY <1>2, NewestExists DEF FailRestore
  <2>2. generation' = [generation EXCEPT ![c] = "none"]
    BY <1>2 DEF FailRestore
  <2> HIDE DEF c
  <2>3. Fresh' = Fresh \cup {c}
    BY <2>1, <2>2 DEF Fresh, RecoveryTypeOK
  <2> QED
    BY <2>1, <2>3, GenerationsAreNumbers DEF GenerationsInOrder, NewestSnapshot
<1>3. CASE Activate
  <2> DEFINE c == Copying
  <2>1. c \in Generations /\ NewestSnapshot(c)
    BY <1>3, NewestExists DEF Activate, Reconciled
  <2>2. generation' = [generation EXCEPT ![c] = "whole"]
    BY <1>3 DEF Activate
  <2> HIDE DEF c
  <2>3. Fresh' = Fresh
    BY <2>1, <2>2 DEF Fresh, RecoveryTypeOK, NewestSnapshot
  <2> QED
    BY <2>3 DEF GenerationsInOrder
<1>4. CASE ActivateUnflushed
  <2> DEFINE c == Copying
  <2>1. c \in Generations /\ NewestSnapshot(c)
    BY <1>4, NewestExists DEF ActivateUnflushed, Reconciled
  <2>2. generation' = [generation EXCEPT ![c] = "removed"]
    BY <1>4 DEF ActivateUnflushed
  <2> HIDE DEF c
  <2>3. Fresh' = Fresh
    BY <2>1, <2>2 DEF Fresh, RecoveryTypeOK, NewestSnapshot
  <2> QED
    BY <2>3 DEF GenerationsInOrder
<1>5. CASE Blobs
  BY <1>5, OrderFrame DEF Blobs, PublishBlob, RetainObject, Reference, RollBack, Maintain,
     RestoreBlob, QuarantineBlob, DeleteQuarantinedBlob, EndMaintenance, restoring
<1>6. CASE Snapshots
  BY <1>6, OrderFrame DEF Snapshots, FirstScheduled, RunScheduled, BackUp, CopyObjects,
     DeletePoint, CreateManual, FailCreate, Rename, Rotate, CollectObjects, WriteSchedule,
     restoring
<1>7. CASE Losses
  BY <1>7, OrderFrame DEF Losses, StopDaemon, Stopped, StartDaemon, NextDay, LoseDaemon, Rot,
     restoring
<1>8. CASE LoseRestore \/ CopyDatabase \/ \E o \in Objects : CopyFile(o)
  BY <1>8, OrderFrame DEF LoseRestore, CopyDatabase, CopyFile
<1>9. CASE \E offered \in SUBSET Kept : Preview(offered)
  BY <1>9, OrderFrame DEF Preview
<1> QED
  BY <1>1, <1>2, <1>3, <1>4, <1>5, <1>6, <1>7, <1>8, <1>9 DEF RecoveryNext, Restores

-----------------------------------------------------------------------------
(* The bytes of what the Host refers to.                                   *)

\* A step that leaves the live blobs and their references alone.
LEMMA BytesFrame ==
  ASSUME ReferencedBytesKept, UNCHANGED <<refs, retained, blobs, quarantine, missing>>
  PROVE  ReferencedBytesKept'
BY DEF ReferencedBytesKept

\* Publication and maintenance take no bytes that something refers to.
LEMMA BytesOfBlobs ==
  ASSUME RecoveryTypeOK, BlockInv, ReferencedBytesKept, Blobs
  PROVE  ReferencedBytesKept'
<1> USE DEF ReferencedBytesKept, BlockInv, Referenced, live
<1>1. ASSUME NEW o \in Objects, PublishBlob(o)
      PROVE  ReferencedBytesKept'
  BY <1>1 DEF PublishBlob
<1>2. ASSUME NEW o \in Objects, RetainObject(o)
      PROVE  ReferencedBytesKept'
  BY <1>2 DEF RetainObject
<1>3. CASE Reference
  BY <1>3 DEF Reference
<1>4. CASE RollBack
  BY <1>4 DEF RollBack, Mishap
<1>5. ASSUME NEW aged \in SUBSET orphans, Maintain(aged)
      PROVE  ReferencedBytesKept'
  BY <1>5 DEF Maintain, Decisions, Referenced
<1>6. ASSUME NEW o \in Objects, RestoreBlob(o)
      PROVE  ReferencedBytesKept'
  BY <1>6 DEF RestoreBlob
<1>7. ASSUME NEW o \in Objects, QuarantineBlob(o)
      PROVE  ReferencedBytesKept'
  BY <1>7 DEF QuarantineBlob
<1>8. ASSUME NEW o \in Objects, DeleteQuarantinedBlob(o)
      PROVE  ReferencedBytesKept'
  BY <1>8 DEF DeleteQuarantinedBlob
<1>9. CASE EndMaintenance
  BY <1>9 DEF EndMaintenance, Mishap, NoWork
<1> QED
  BY <1>1, <1>2, <1>3, <1>4, <1>5, <1>6, <1>7, <1>8, <1>9 DEF Blobs

\* A restored Host refers to what its point brought, or knows it missing.
LEMMA BytesStep ==
  ASSUME RecoveryTypeOK, BlockInv, ReferencedBytesKept, RecoveryNext
  PROVE  ReferencedBytesKept'
<1>1. CASE Blobs
  BY <1>1, BytesOfBlobs
<1>2. CASE Snapshots
  BY <1>2, BytesFrame DEF Snapshots, FirstScheduled, RunScheduled, BackUp, CopyObjects,
     DeletePoint, CreateManual, FailCreate, Rename, Rotate, CollectObjects, WriteSchedule, live
<1>3. CASE StartDaemon
  <2>1. CASE waiting = NoRecord
    BY <1>3, <2>1, BytesFrame DEF StartDaemon, live
  <2>2. CASE waiting # NoRecord
    BY <1>3, <2>2 DEF StartDaemon, OpenRestored, ReferencedBytesKept
  <2> QED
    BY <2>1, <2>2
<1>4. CASE Losses /\ ~StartDaemon
  BY <1>4, BytesFrame DEF Losses, StopDaemon, Stopped, NextDay, LoseDaemon, Rot, live
<1>5. CASE Restores
  BY <1>5, RestoreOutside, BytesFrame DEF OutsideRestore, live
<1> QED
  BY <1>1, <1>2, <1>3, <1>4, <1>5 DEF RecoveryNext

-----------------------------------------------------------------------------
(* The objects of published points.                                        *)

\* A step that takes no object and publishes no point.
LEMMA PointsFrame ==
  ASSUME PointsKeepTheirObjects, store \subseteq store',
         \A p \in Points : point'[p].state = "kept" =>
                            p \in Kept /\ point'[p].objects = point[p].objects
  PROVE  PointsKeepTheirObjects'
BY DEF PointsKeepTheirObjects, Kept

\* Making, rotating and collecting keep the objects of every published point.
LEMMA PointsOfSnapshots ==
  ASSUME RecoveryTypeOK, PointOK, BlockInv, PointsKeepTheirObjects, Snapshots
  PROVE  PointsKeepTheirObjects'
<1> USE DEF PointOK, recovery
<1>1. CASE FirstScheduled
  BY <1>1, PointsFrame DEF FirstScheduled, Kept
<1>2. ASSUME NEW p \in Points, RunScheduled(p)
      PROVE  PointsKeepTheirObjects'
  BY <1>2, PointsFrame DEF RunScheduled, Request, NoRecord, Kept
<1>3. ASSUME NEW p \in Points, BackUp(p)
      PROVE  PointsKeepTheirObjects'
  BY <1>3, PointsFrame DEF BackUp, Kept
<1>4. ASSUME NEW p \in Points, CopyObjects(p)
      PROVE  PointsKeepTheirObjects'
  BY <1>4, PointsFrame DEF CopyObjects, Kept
<1>5. ASSUME NEW p \in Points, DeletePoint(p)
      PROVE  PointsKeepTheirObjects'
  BY <1>5, PointsFrame DEF DeletePoint, Kept, Gone, NoRecord
<1>6. ASSUME NEW p \in Points, NEW kind \in Kinds, CreateManual(p, kind)
      PROVE  PointsKeepTheirObjects'
  BY <1>6, PointsFrame DEF CreateManual, Request, NoRecord, Kept
<1>7. ASSUME NEW p \in Points, NEW some \in SUBSET Objects, FailCreate(p, some)
      PROVE  PointsKeepTheirObjects'
  BY <1>7, PointsFrame DEF FailCreate, Gone, NoRecord, Kept
<1>8. CASE Rename
  BY <1>8 DEF Rename, BlockInv, PointsKeepTheirObjects, Kept
<1>9. CASE Rotate
  BY <1>9, PointsFrame DEF Rotate, Gone, NoRecord, Kept
<1>10. CASE CollectObjects
  BY <1>10 DEF CollectObjects, Reachable, PointsKeepTheirObjects, Kept
<1>11. CASE WriteSchedule
  BY <1>11, PointsFrame DEF WriteSchedule, Kept
<1> QED
  BY <1>1, <1>2, <1>3, <1>4, <1>5, <1>6, <1>7, <1>8, <1>9, <1>10, <1>11 DEF Snapshots

\* Losses leave what is published as it was, or unpublish it.
LEMMA PointsOfLosses ==
  ASSUME RecoveryTypeOK, PointOK, BlockInv, PointsKeepTheirObjects, Losses
  PROVE  PointsKeepTheirObjects'
<1> USE DEF PointOK, recovery
<1>1. CASE StopDaemon
  BY <1>1, PointsFrame DEF StopDaemon, Stopped, LeftBehind, Gone, NoRecord, Kept
<1>2. CASE StartDaemon
  BY <1>2, PointsFrame DEF StartDaemon, Kept
<1>3. CASE NextDay
  BY <1>3, PointsFrame DEF NextDay, Kept
<1>4. ASSUME NEW p \in Points, LoseDaemon(p)
      PROVE  PointsKeepTheirObjects'
  <2>1. PICK remains \in Remains(p) : point' = [LeftBehind EXCEPT ![p] = remains]
    BY <1>4 DEF LoseDaemon
  <2>2. p \in Kept /\ remains.objects = point[p].objects
    BY <1>4, <2>1 DEF LoseDaemon, Remains, PointOK, Record
  <2> QED
    BY <1>4, <2>1, <2>2, PointsFrame DEF LoseDaemon, Stopped, LeftBehind, Gone, NoRecord, Kept
<1>5. ASSUME NEW o \in Objects, Rot(o)
      PROVE  PointsKeepTheirObjects'
  BY <1>5, PointsFrame DEF Rot, Kept
<1> QED
  BY <1>1, <1>2, <1>3, <1>4, <1>5 DEF Losses

\* Nothing else touches the recovery root.
LEMMA PointsStep ==
  ASSUME RecoveryTypeOK, BlockInv, PointsKeepTheirObjects, RecoveryNext
  PROVE  PointsKeepTheirObjects'
<1>0. PointOK
  BY TypeParts
<1>1. CASE Snapshots
  BY <1>0, <1>1, PointsOfSnapshots
<1>2. CASE Losses
  BY <1>0, <1>2, PointsOfLosses
<1>3. CASE Blobs
  BY <1>3, PointsFrame DEF Blobs, PublishBlob, RetainObject, Reference, RollBack, Maintain,
     RestoreBlob, QuarantineBlob, DeleteQuarantinedBlob, EndMaintenance, recovery, Kept
<1>4. CASE Restores
  BY <1>4, RestoreOutside, PointsFrame DEF OutsideRestore, recovery, Kept
<1> QED
  BY <1>1, <1>2, <1>3, <1>4 DEF RecoveryNext

-----------------------------------------------------------------------------
(* The theorems.                                                           *)

\* The Host starts with nothing to lose.
LEMMA RecoveryStarts == RecoveryInit => RecoveryInv
<1> SUFFICES ASSUME RecoveryInit PROVE RecoveryInv
  OBVIOUS
<1>1. BaseOK
  BY DEF RecoveryInit, BaseOK, Idle, NoPoint, NoWork, NoSchedule, Generations
<1>2. PointOK
  BY GoneIsRecord DEF RecoveryInit, PointOK
<1>3. BlockInv /\ RestoreInv /\ RestoreOK
  BY GoneIsRecord DEF RecoveryInit, BlockInv, RestoreInv, RestoreOK, NoRestore, Idle
<1>4. GenerationsInOrder
  BY DEF RecoveryInit, GenerationsInOrder, Fresh, Generations
<1>5. ReferencedBytesKept /\ PointsKeepTheirObjects
  BY DEF RecoveryInit, ReferencedBytesKept, PointsKeepTheirObjects, Kept, NoRecord
<1> QED
  BY <1>1, <1>2, <1>3, <1>4, <1>5, TypeParts DEF RecoveryInv

\* Every step keeps the invariant.
LEMMA RecoveryStep ==
  ASSUME RecoveryInv, [RecoveryNext]_recoveryVars
  PROVE  RecoveryInv'
<1> USE DEF RecoveryInv
<1>1. CASE RecoveryNext
  <2>1. BaseOK /\ PointOK /\ RestoreOK
    BY TypeParts
  <2>2. BaseOK' /\ PointOK' /\ RestoreOK'
    BY <1>1, <2>1, TypeOfBlobs, TypeOfSnapshots, TypeOfLosses, TypeOfRestores, TypeOfRestore
    DEF RecoveryNext
  <2>3. RecoveryTypeOK'
    BY <2>2, TypeParts, PTL
  <2>4. BlockInv'
    BY <1>1, BlockOfBlobs, BlockOfSnapshots, BlockOfLosses, BlockOfRestores DEF RecoveryNext
  <2> QED
    BY <1>1, <2>3, <2>4, RelianceStep, OrderStep, BytesStep, PointsStep
<1>2. CASE UNCHANGED recoveryVars
  BY <1>2 DEF RecoveryTypeOK, BlockInv, RestoreInv, Referenced, NewestSnapshot, Fresh,
     GenerationsInOrder, ReferencedBytesKept, PointsKeepTheirObjects, Kept, recoveryVars, live, recovery, restoring
<1> QED
  BY <1>1, <1>2

\* The inductive invariant, of which the types of the variables are a part,
\* holds in every reachable state.
THEOREM RecoveryInvCorrect == RecoverySpec => []RecoveryInv
<1>1. RecoveryInv /\ [RecoveryNext]_recoveryVars => RecoveryInv'
  BY RecoveryStep
<1> QED
  BY <1>1, RecoveryStarts, PTL DEF RecoverySpec

\* Maintenance never takes the bytes of something the Host still refers to.
THEOREM ReferencedBytesKeptCorrect == RecoverySpec => []ReferencedBytesKept
<1>1. RecoveryInv => ReferencedBytesKept
  BY DEF RecoveryInv
<1> QED
  BY <1>1, RecoveryInvCorrect, PTL

\* Collection never takes an object that a published point names.
THEOREM PointsKeepTheirObjectsCorrect == RecoverySpec => []PointsKeepTheirObjects
<1>1. RecoveryInv => PointsKeepTheirObjects
  BY DEF RecoveryInv
<1> QED
  BY <1>1, RecoveryInvCorrect, PTL

\* A restore makes the Host what it copied only when it has copied every file, and
\* a file it copied rotten had rotted after its own check.
THEOREM RestoresWhatItVerifiedCorrect == RecoverySpec => RestoresWhatItVerified
<1> DEFINE VerifiedStep ==
      pointer' # pointer =>
        /\ restore.left = {} /\ restore.bad \subseteq restore.since
        /\ generation'[pointer'] # "partial"
<1>1. ASSUME RecoveryInv, RecoveryNext PROVE VerifiedStep
  <2> USE DEF RecoveryInv
  <2>1. CASE Activate \/ ActivateUnflushed
    <3>1. Reconciled /\ pointer' = Copying
      BY <2>1 DEF Activate, ActivateUnflushed, PointAt
    <3>2. Copying \in Generations
      BY <1>1, <3>1, NewestExists DEF Reconciled
    <3>3. generation'[pointer'] \in {"whole", "removed"}
      BY <1>1, <2>1, <3>1, <3>2 DEF RecoveryTypeOK, Activate, ActivateUnflushed
    <3> QED
      BY <1>1, <3>1, <3>3 DEF RestoreInv, Reconciled
  <2>2. CASE Blobs
    BY <2>2 DEF Blobs, PublishBlob, RetainObject, Reference, RollBack, Maintain,
       RestoreBlob, QuarantineBlob, DeleteQuarantinedBlob, EndMaintenance, restoring
  <2>3. CASE Snapshots
    BY <2>3 DEF Snapshots, FirstScheduled, RunScheduled, BackUp, CopyObjects,
       DeletePoint, CreateManual, FailCreate, Rename, Rotate, CollectObjects, WriteSchedule,
       restoring
  <2>4. CASE Losses
    BY <2>4 DEF Losses, StopDaemon, Stopped, StartDaemon, NextDay, LoseDaemon, Rot, restoring
  <2>5. CASE Restores /\ ~Activate /\ ~ActivateUnflushed
    <3>1. CASE \E offered \in SUBSET Kept : Preview(offered)
      BY <3>1 DEF Preview
    <3>2. CASE \E p \in Points : Restore(p)
      BY <3>2 DEF Restore
    <3>3. CASE CopyDatabase \/ FailRestore \/ LoseRestore \/ \E o \in Objects : CopyFile(o)
      BY <3>3 DEF CopyDatabase, CopyFile, FailRestore, LoseRestore
    <3> QED
      BY <2>5, <3>1, <3>2, <3>3 DEF Restores
  <2> QED
    BY <1>1, <2>1, <2>2, <2>3, <2>4, <2>5 DEF RecoveryNext
<1>2. RecoveryInv /\ [RecoveryNext]_recoveryVars => [VerifiedStep]_recoveryVars
  BY <1>1
<1> QED
  BY <1>2, RecoveryInvCorrect, PTL DEF RecoverySpec, RestoresWhatItVerified
=============================================================================
