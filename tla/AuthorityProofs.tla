--------------------------- MODULE AuthorityProofs ---------------------------
(***************************************************************************)
(* Theorems about AuthorityGenerations, for any set of objects and any     *)
(* bounds in AuthorityGenerationsAssumption.                               *)
(***************************************************************************)
EXTENDS AuthorityGenerations, WellFoundedInduction, TLAPS

\* The files, and what is remembered of them.
FilesOK ==
  /\ present \subseteq Gens /\ held \subseteq Gens /\ warnings \subseteq Gens
  /\ cleared \subseteq Gens /\ opened \subseteq Gens
  /\ seen \subseteq Gens /\ proven \subseteq Gens
  /\ objects \subseteq Objects
  /\ selector \in Gens \cup {None} /\ current \in Gens \cup {None}
EnvelopesOK ==
  /\ pred \in [Gens -> Gens \cup {None}]
  /\ index \in [Gens -> Nat]
  /\ cont \in [Gens -> Gens \cup {None}]
  /\ closure \in [Gens -> SUBSET Objects]
  /\ minted \in Gens
BoundsOK ==
  /\ stray \in BOOLEAN /\ call \in Calls
  /\ crashes \in Nat /\ faults \in Nat /\ losses \in Nat

\* What a call relies on between two file-system effects: what it found is
\* still there, and it may still mint.
CallInv ==
  /\ call.at = "copied" => minted < MaxGens
  /\ call.at \in {"copied", "warn"} => call.failed \in present
  /\ call.at \in {"copied", "warn", "select"} => call.target \in present
  /\ call.at \in {"warn", "select"} => Predecessor(call.target) \subseteq present
  /\ call.at = "publish" => call.source \in Gens

\* Generations get their names in order, so a new one is no other's.
NamesInv == present \subseteq 1..minted /\ selector \in 0..minted

AuthorityInv ==
  /\ FilesOK /\ EnvelopesOK /\ BoundsOK
  /\ CallInv /\ NamesInv /\ PredecessorKept /\ EvidenceKept

LEMMA AuthorityInit == Init => AuthorityInv
<1> SUFFICES ASSUME Init PROVE AuthorityInv
  OBVIOUS
<1> USE AuthorityGenerationsAssumption DEF AuthorityGenerationsAssumption, Init, Gens, None
<1>1. FilesOK
  <2>1. 1 \in Gens
    OBVIOUS
  <2>2. closure[1] \subseteq Objects
    BY <2>1
  <2>. QED BY <2>1, <2>2 DEF FilesOK
<1>2. EnvelopesOK
  BY DEF EnvelopesOK
<1>3. BoundsOK
  BY DEF BoundsOK, Idle, Calls
<1>4. CallInv /\ NamesInv /\ PredecessorKept /\ EvidenceKept
  BY DEF CallInv, NamesInv, PredecessorKept, EvidenceKept, Idle
<1>. QED BY <1>1, <1>2, <1>3, <1>4 DEF AuthorityInv

LEMMA Minting ==
  ASSUME AuthorityInv, minted < MaxGens, NEW source \in Gens, NEW order \in Nat,
         NEW continuity \in Gens \cup {None}, NEW refs \in SUBSET Objects,
         Mint(source, order, continuity, refs)
  PROVE  /\ EnvelopesOK' /\ present' = present \cup {minted + 1} /\ present' \subseteq Gens
         /\ minted' = minted + 1 /\ minted + 1 \in Gens
         /\ pred'[minted + 1] = source /\ index'[minted + 1] = order
         /\ cont'[minted + 1] = continuity /\ closure'[minted + 1] = refs
         /\ \A g \in 1..minted : /\ pred'[g] = pred[g] /\ closure'[g] = closure[g]
                               /\ index'[g] = index[g] /\ cont'[g] = cont[g]
<1> USE AuthorityGenerationsAssumption
    DEF AuthorityGenerationsAssumption, AuthorityInv, FilesOK, EnvelopesOK, Gens, None
<1>1. minted + 1 \in Gens /\ \A g \in 1..minted : g \in Gens /\ g # minted + 1
  OBVIOUS
<1>2. pred' \in [Gens -> Gens \cup {None}] /\ index' \in [Gens -> Nat]
  BY <1>1 DEF Mint
<1>3. cont' \in [Gens -> Gens \cup {None}] /\ closure' \in [Gens -> SUBSET Objects]
  BY <1>1 DEF Mint
<1>. QED BY <1>1, <1>2, <1>3 DEF Mint

\* The two minting steps do as Minting says.
LEMMA Envelope ==
  ASSUME AuthorityInv, WriteEnvelope
  PROVE  /\ EnvelopesOK' /\ present' = present \cup {minted + 1} /\ present' \subseteq Gens
         /\ minted' = minted + 1 /\ minted + 1 \in Gens
         /\ pred'[minted + 1] = call.target
         /\ index'[minted + 1] = index[call.failed] + 1
         /\ cont'[minted + 1] = minted + 1 /\ closure'[minted + 1] = closure[call.target]
         /\ \A g \in 1..minted : /\ pred'[g] = pred[g] /\ closure'[g] = closure[g]
                               /\ index'[g] = index[g] /\ cont'[g] = cont[g]
<1>1. call.target \in Gens /\ call.failed \in Gens /\ minted < MaxGens
  BY DEF AuthorityInv, CallInv, FilesOK, WriteEnvelope
<1>2. /\ index[call.failed] + 1 \in Nat /\ closure[call.target] \in SUBSET Objects
      /\ minted + 1 \in Gens
  BY <1>1, AuthorityGenerationsAssumption DEF AuthorityInv, EnvelopesOK, Gens,
     AuthorityGenerationsAssumption
<1>. QED BY <1>1, <1>2, Minting DEF WriteEnvelope

LEMMA Publication ==
  ASSUME AuthorityInv, NEW refs \in SUBSET Objects, NEW rotate \in BOOLEAN, Publish(refs, rotate)
  PROVE  /\ EnvelopesOK' /\ present' = present \cup {minted + 1} /\ present' \subseteq Gens
         /\ minted' = minted + 1 /\ minted + 1 \in Gens
         /\ pred'[minted + 1] = call.source
         /\ index'[minted + 1] = index[call.source] + 1
         /\ cont'[minted + 1] \in {minted + 1, cont[call.source]}
         /\ \A g \in 1..minted : /\ pred'[g] = pred[g] /\ closure'[g] = closure[g]
                               /\ index'[g] = index[g] /\ cont'[g] = cont[g]
<1>1. call.source \in Gens /\ minted < MaxGens
  BY DEF AuthorityInv, CallInv, Publish
<1>2. /\ index[call.source] + 1 \in Nat
      /\ (IF rotate THEN minted + 1 ELSE cont[call.source]) \in Gens \cup {None}
  BY <1>1, AuthorityGenerationsAssumption DEF AuthorityInv, EnvelopesOK, Gens,
     AuthorityGenerationsAssumption
<1> DEFINE continuity == IF rotate THEN minted + 1 ELSE cont[call.source]
<1> DEFINE order == index[call.source] + 1
<1>3. Mint(call.source, order, continuity, refs)
  BY DEF Publish
<1>4. continuity \in {minted + 1, cont[call.source]} /\ continuity \in Gens \cup {None}
  BY <1>2
<1>5. order \in Nat
  BY <1>2
<1> HIDE DEF continuity, order
<1>6. /\ EnvelopesOK' /\ present' = present \cup {minted + 1} /\ present' \subseteq Gens
      /\ minted' = minted + 1 /\ minted + 1 \in Gens
      /\ pred'[minted + 1] = call.source /\ index'[minted + 1] = order
      /\ cont'[minted + 1] = continuity
      /\ \A g \in 1..minted : /\ pred'[g] = pred[g] /\ closure'[g] = closure[g]
                            /\ index'[g] = index[g] /\ cont'[g] = cont[g]
  BY <1>1, <1>3, <1>4, <1>5, Minting
<1>. QED BY <1>4, <1>6 DEF order

LEMMA FilesStep == AuthorityInv /\ [Next]_vars => FilesOK'
<1> SUFFICES ASSUME AuthorityInv, [Next]_vars PROVE FilesOK'
  OBVIOUS
<1> USE AuthorityGenerationsAssumption
    DEF AuthorityGenerationsAssumption, AuthorityInv, FilesOK, EnvelopesOK, Gens, None, tree,
        markers, memory, results, bounds
<1>1. ASSUME Resolve PROVE FilesOK'
  BY <1>1 DEF Resolve
<1>2. ASSUME ScanThrows PROVE FilesOK'
  BY <1>2 DEF ScanThrows
<1>3. ASSUME WriteEnvelope PROVE FilesOK'
  BY <1>3, Envelope DEF WriteEnvelope
<1>4. ASSUME WriteWarning PROVE FilesOK'
  BY <1>4 DEF WriteWarning, CallInv
<1>5. ASSUME Select PROVE FilesOK'
  BY <1>5 DEF Select, CallInv, RecordScan, ValidGens
<1>6. ASSUME Cleanup PROVE FilesOK'
  BY <1>6 DEF Cleanup
<1>7. ASSUME CallThrows PROVE FilesOK'
  <2>1. seen' \subseteq Gens /\ proven' \subseteq Gens
    <3>1. CASE call.at = "select"
      <4>1. RecordScan /\ call.target \in Gens
        BY <1>7, <3>1 DEF CallThrows, CallInv
      <4>2. ValidGens \subseteq Gens
        BY DEF ValidGens
      <4>. QED BY <4>1, <4>2 DEF RecordScan
    <3>2. CASE call.at # "select"
      BY <1>7, <3>2 DEF CallThrows
    <3>. QED BY <3>1, <3>2
  <2>2. UNCHANGED <<present, objects, markers, selector, results>>
    BY <1>7 DEF CallThrows
  <2>. QED BY <2>1, <2>2
<1>8. ASSUME ProcessDies PROVE FilesOK'
  BY <1>8 DEF ProcessDies, Forget
<1>9. ASSUME Damage PROVE FilesOK'
  BY <1>9 DEF Damage
<1>10. ASSUME NEW g \in Gens, Activate(g) PROVE FilesOK'
  BY <1>10 DEF Activate
<1>11. ASSUME NEW g \in Gens, ScanFinds(g) PROVE FilesOK'
  BY <1>11 DEF ScanFinds
<1>12. ASSUME NEW g \in Gens, Hold(g) PROVE FilesOK'
  BY <1>12 DEF Hold
<1>13. ASSUME NEW g \in Gens, ClearWarning(g) PROVE FilesOK'
  BY <1>13 DEF ClearWarning
<1>14. ASSUME NEW g \in Gens, NEW f \in Gens,
             ScanCopies(g, f)
      PROVE  FilesOK'
  BY <1>14 DEF ScanCopies
<1>15. ASSUME NEW refs \in SUBSET Objects, NEW rotate \in BOOLEAN,
             Publish(refs, rotate)
      PROVE  FilesOK'
  BY <1>15, Publication DEF Publish
<1>16. ASSUME NEW gone \in SUBSET Gens, NEW half \in BOOLEAN,
             CleanupFails(gone, half)
      PROVE  FilesOK'
  BY <1>16 DEF CleanupFails, CutCleanup
<1>17. ASSUME NEW gone \in SUBSET Gens, NEW half \in BOOLEAN,
             CleanupDies(gone, half)
      PROVE  FilesOK'
  BY <1>17 DEF CleanupDies, CutCleanup, Forget
<1>18. ASSUME NEW o \in Objects, StoreObject(o) PROVE FilesOK'
  BY <1>18 DEF StoreObject
<1>19. CASE UNCHANGED vars
  BY <1>19 DEF vars
<1>. QED
  BY <1>1, <1>2, <1>3, <1>4, <1>5, <1>6, <1>7, <1>8, <1>9, <1>10,
     <1>11, <1>12, <1>13, <1>14, <1>15, <1>16, <1>17, <1>18, <1>19
  DEF Next

LEMMA EnvelopesStep == AuthorityInv /\ [Next]_vars => EnvelopesOK'
<1> SUFFICES ASSUME AuthorityInv, [Next]_vars PROVE EnvelopesOK'
  OBVIOUS
<1> USE AuthorityGenerationsAssumption
    DEF AuthorityGenerationsAssumption, AuthorityInv, FilesOK, EnvelopesOK, Gens, None, tree,
        markers, memory, results, bounds
<1>1. ASSUME Resolve PROVE EnvelopesOK'
  BY <1>1 DEF Resolve
<1>2. ASSUME ScanThrows PROVE EnvelopesOK'
  BY <1>2 DEF ScanThrows
<1>3. ASSUME WriteEnvelope PROVE EnvelopesOK'
  BY <1>3, Envelope
<1>4. ASSUME WriteWarning PROVE EnvelopesOK'
  BY <1>4 DEF WriteWarning
<1>5. ASSUME Select PROVE EnvelopesOK'
  BY <1>5 DEF Select
<1>6. ASSUME Cleanup PROVE EnvelopesOK'
  BY <1>6 DEF Cleanup
<1>7. ASSUME CallThrows PROVE EnvelopesOK'
  BY <1>7 DEF CallThrows
<1>8. ASSUME ProcessDies PROVE EnvelopesOK'
  BY <1>8 DEF ProcessDies
<1>9. ASSUME Damage PROVE EnvelopesOK'
  BY <1>9 DEF Damage
<1>10. ASSUME NEW g \in Gens, Activate(g) PROVE EnvelopesOK'
  BY <1>10 DEF Activate
<1>11. ASSUME NEW g \in Gens, ScanFinds(g) PROVE EnvelopesOK'
  BY <1>11 DEF ScanFinds
<1>12. ASSUME NEW g \in Gens, Hold(g) PROVE EnvelopesOK'
  BY <1>12 DEF Hold
<1>13. ASSUME NEW g \in Gens, ClearWarning(g) PROVE EnvelopesOK'
  BY <1>13 DEF ClearWarning
<1>14. ASSUME NEW g \in Gens, NEW f \in Gens,
             ScanCopies(g, f)
      PROVE  EnvelopesOK'
  BY <1>14 DEF ScanCopies
<1>15. ASSUME NEW refs \in SUBSET Objects, NEW rotate \in BOOLEAN,
             Publish(refs, rotate)
      PROVE  EnvelopesOK'
  BY <1>15, Publication
<1>16. ASSUME NEW gone \in SUBSET Gens, NEW half \in BOOLEAN,
             CleanupFails(gone, half)
      PROVE  EnvelopesOK'
  BY <1>16 DEF CleanupFails, CutCleanup
<1>17. ASSUME NEW gone \in SUBSET Gens, NEW half \in BOOLEAN,
             CleanupDies(gone, half)
      PROVE  EnvelopesOK'
  BY <1>17 DEF CleanupDies, CutCleanup
<1>18. ASSUME NEW o \in Objects, StoreObject(o) PROVE EnvelopesOK'
  BY <1>18 DEF StoreObject
<1>19. CASE UNCHANGED vars
  BY <1>19 DEF vars
<1>. QED
  BY <1>1, <1>2, <1>3, <1>4, <1>5, <1>6, <1>7, <1>8, <1>9, <1>10,
     <1>11, <1>12, <1>13, <1>14, <1>15, <1>16, <1>17, <1>18, <1>19
  DEF Next

LEMMA BoundsStep == AuthorityInv /\ [Next]_vars => BoundsOK'
<1> SUFFICES ASSUME AuthorityInv, [Next]_vars PROVE BoundsOK'
  OBVIOUS
<1> USE AuthorityGenerationsAssumption
    DEF AuthorityGenerationsAssumption, AuthorityInv, FilesOK, EnvelopesOK, BoundsOK, Idle,
        Calls, Gens, None, tree, markers, memory, results, bounds
<1>1. ASSUME Resolve PROVE BoundsOK'
  BY <1>1 DEF Resolve
<1>2. ASSUME ScanThrows PROVE BoundsOK'
  BY <1>2 DEF ScanThrows
<1>3. ASSUME WriteEnvelope PROVE BoundsOK'
  <2>1. minted + 1 \in Gens /\ UNCHANGED <<stray, bounds>>
    BY <1>3, Envelope DEF WriteEnvelope
  <2>2. call' = [call EXCEPT !.at = "warn", !.target = minted + 1]
    BY <1>3 DEF WriteEnvelope
  <2>3. call' \in Calls
    BY <2>1, <2>2
  <2>. QED BY <2>1, <2>3
<1>4. ASSUME WriteWarning PROVE BoundsOK'
  BY <1>4 DEF WriteWarning
<1>5. ASSUME Select PROVE BoundsOK'
  <2>1. call' = [call EXCEPT !.at = "publish"] \/ call' = Idle
    BY <1>5 DEF Select
  <2>2. ASSUME call' = [call EXCEPT !.at = "publish"] PROVE call' \in Calls
    BY <2>2
  <2>3. ASSUME call' = Idle PROVE call' \in Calls
    BY <2>3
  <2>. QED BY <1>5, <2>1, <2>2, <2>3 DEF Select
<1>6. ASSUME Cleanup PROVE BoundsOK'
  BY <1>6 DEF Cleanup
<1>7. ASSUME CallThrows PROVE BoundsOK'
  BY <1>7 DEF CallThrows, Fault
<1>8. ASSUME ProcessDies PROVE BoundsOK'
  <2>1. stray' \in BOOLEAN
    <3>1. stray' = stray \/ stray' = (stray \/ call.at \in {"copied", "publish"})
      BY <1>8, Zenon DEF ProcessDies
    <3>2. stray \in BOOLEAN /\ (stray \/ call.at \in {"copied", "publish"}) \in BOOLEAN
      BY Zenon
    <3>. QED BY <3>1, <3>2, Zenon
  <2>2. call' = Idle /\ crashes' = crashes + 1 /\ UNCHANGED <<faults, losses>>
    BY <1>8 DEF ProcessDies, Crash
  <2>. QED BY <2>1, <2>2
<1>9. ASSUME Damage PROVE BoundsOK'
  BY <1>9 DEF Damage
<1>10. ASSUME NEW g \in Gens, Activate(g) PROVE BoundsOK'
  BY <1>10 DEF Activate
<1>11. ASSUME NEW g \in Gens, ScanFinds(g) PROVE BoundsOK'
  BY <1>11 DEF ScanFinds
<1>12. ASSUME NEW g \in Gens, Hold(g) PROVE BoundsOK'
  BY <1>12 DEF Hold
<1>13. ASSUME NEW g \in Gens, ClearWarning(g) PROVE BoundsOK'
  BY <1>13 DEF ClearWarning
<1>14. ASSUME NEW g \in Gens, NEW f \in Gens,
             ScanCopies(g, f)
      PROVE  BoundsOK'
  BY <1>14 DEF ScanCopies
<1>15. ASSUME NEW refs \in SUBSET Objects, NEW rotate \in BOOLEAN,
             Publish(refs, rotate)
      PROVE  BoundsOK'
  BY <1>15 DEF Publish, Mint, CallInv
<1>16. ASSUME NEW gone \in SUBSET Gens, NEW half \in BOOLEAN,
             CleanupFails(gone, half)
      PROVE  BoundsOK'
  BY <1>16 DEF CleanupFails, CutCleanup, Fault
<1>17. ASSUME NEW gone \in SUBSET Gens, NEW half \in BOOLEAN,
             CleanupDies(gone, half)
      PROVE  BoundsOK'
  BY <1>17 DEF CleanupDies, CutCleanup, Crash
<1>18. ASSUME NEW o \in Objects, StoreObject(o) PROVE BoundsOK'
  BY <1>18 DEF StoreObject
<1>19. CASE UNCHANGED vars
  BY <1>19 DEF vars
<1>. QED
  BY <1>1, <1>2, <1>3, <1>4, <1>5, <1>6, <1>7, <1>8, <1>9, <1>10,
     <1>11, <1>12, <1>13, <1>14, <1>15, <1>16, <1>17, <1>18, <1>19
  DEF Next

LEMMA CallStep == AuthorityInv /\ [Next]_vars => CallInv' /\ NamesInv'
<1> SUFFICES ASSUME AuthorityInv, [Next]_vars PROVE CallInv' /\ NamesInv'
  OBVIOUS
<1> USE AuthorityGenerationsAssumption
    DEF AuthorityGenerationsAssumption, AuthorityInv, FilesOK, EnvelopesOK, CallInv, NamesInv,
        Predecessor, Idle, Gens, None, tree, markers, memory, results, bounds
<1>1. ASSUME Resolve PROVE CallInv' /\ NamesInv'
  BY <1>1 DEF Resolve
<1>2. ASSUME ScanThrows PROVE CallInv' /\ NamesInv'
  BY <1>2 DEF ScanThrows
<1>3. ASSUME WriteEnvelope PROVE CallInv' /\ NamesInv'
  <2>1. call'.at = "warn" /\ call'.target = minted + 1 /\ call'.failed = call.failed
    BY <1>3 DEF WriteEnvelope, BoundsOK, Calls
  <2>2. call.target \in present /\ call.failed \in present /\ UNCHANGED selector
    BY <1>3 DEF WriteEnvelope
  <2>e. /\ present' = present \cup {minted + 1} /\ minted' = minted + 1
        /\ pred'[minted + 1] = call.target
    BY <1>3, Envelope
  <2>3. {pred'[minted + 1]} \subseteq present'
    BY <2>2, <2>e
  <2>4. CallInv'
    BY <2>1, <2>2, <2>3, <2>e
  <2>5. NamesInv'
    BY <2>2, <2>e
  <2>. QED BY <2>4, <2>5
<1>4. ASSUME WriteWarning PROVE CallInv' /\ NamesInv'
  BY <1>4 DEF WriteWarning
<1>5. ASSUME Select PROVE CallInv' /\ NamesInv'
  <2>1. UNCHANGED <<present, pred, minted>> /\ selector' = call.target /\ call.target \in present
    BY <1>5 DEF Select
  <2>2. \/ call' = Idle
        \/ call' = [call EXCEPT !.at = "publish"] /\ call.target = call.source
    BY <1>5 DEF Select
  <2>3. call.target \in Gens
    BY <2>1
  <2>n. NamesInv'
    <3>0. minted \in Nat /\ present \subseteq 1..minted
      OBVIOUS
    <3>a. 1..minted \subseteq 0..minted
      BY <3>0
    <3>b. call.target \in present
      BY <2>1, Zenon
    <3>1. call.target \in 0..minted
      BY <3>0, <3>a, <3>b, Zenon
    <3>. QED BY <2>1, <3>1
  <2>4. CASE call' = Idle
    <3>1. call'.at = "idle"
      BY <2>4
    <3>. QED BY <3>1, <2>n
  <2>5. CASE call' = [call EXCEPT !.at = "publish"] /\ call.target = call.source
    <3>1. call'.at = "publish" /\ call'.source = call.source
      BY <2>5 DEF BoundsOK, Calls
    <3>. QED BY <2>1, <2>3, <2>5, <3>1
  <2>. QED BY <2>2, <2>4, <2>5
<1>6. ASSUME Cleanup PROVE CallInv' /\ NamesInv'
  BY <1>6 DEF Cleanup, Ready
<1>7. ASSUME CallThrows PROVE CallInv' /\ NamesInv'
  BY <1>7 DEF CallThrows
<1>8. ASSUME ProcessDies PROVE CallInv' /\ NamesInv'
  BY <1>8 DEF ProcessDies
<1>9. ASSUME Damage PROVE CallInv' /\ NamesInv'
  BY <1>9 DEF Damage, Ready
<1>10. ASSUME NEW g \in Gens, Activate(g) PROVE CallInv' /\ NamesInv'
  BY <1>10 DEF Activate
<1>11. ASSUME NEW g \in Gens, ScanFinds(g) PROVE CallInv' /\ NamesInv'
  BY <1>11 DEF ScanFinds, ScanPasses, Coherent, IsNewest, ValidGens
<1>12. ASSUME NEW g \in Gens, Hold(g) PROVE CallInv' /\ NamesInv'
  BY <1>12 DEF Hold, Ready
<1>13. ASSUME NEW g \in Gens, ClearWarning(g) PROVE CallInv' /\ NamesInv'
  BY <1>13 DEF ClearWarning, Ready
<1>14. ASSUME NEW g \in Gens, NEW f \in Gens,
             ScanCopies(g, f)
      PROVE  CallInv' /\ NamesInv'
  BY <1>14 DEF ScanCopies, ScanPasses, FallsBack, IsNewest, ValidGens
<1>15. ASSUME NEW refs \in SUBSET Objects, NEW rotate \in BOOLEAN,
             Publish(refs, rotate)
      PROVE  CallInv' /\ NamesInv'
  <2>1. call'.at = "scan" /\ UNCHANGED selector
    BY <1>15 DEF Publish
  <2>2. CallInv'
    BY <2>1
  <2>p. present' = present \cup {minted + 1} /\ minted' = minted + 1
    BY <1>15, Publication
  <2>3. NamesInv'
    BY <2>1, <2>p
  <2>. QED BY <2>2, <2>3
<1>16. ASSUME NEW gone \in SUBSET Gens, NEW half \in BOOLEAN,
             CleanupFails(gone, half)
      PROVE  CallInv' /\ NamesInv'
  BY <1>16 DEF CleanupFails, CutCleanup, Ready
<1>17. ASSUME NEW gone \in SUBSET Gens, NEW half \in BOOLEAN,
             CleanupDies(gone, half)
      PROVE  CallInv' /\ NamesInv'
  BY <1>17 DEF CleanupDies, CutCleanup, Ready
<1>18. ASSUME NEW o \in Objects, StoreObject(o) PROVE CallInv' /\ NamesInv'
  BY <1>18 DEF StoreObject, Ready
<1>19. CASE UNCHANGED vars
  BY <1>19 DEF vars
<1>. QED
  BY <1>1, <1>2, <1>3, <1>4, <1>5, <1>6, <1>7, <1>8, <1>9, <1>10,
     <1>11, <1>12, <1>13, <1>14, <1>15, <1>16, <1>17, <1>18, <1>19
  DEF Next

LEMMA KeptStep == AuthorityInv /\ [Next]_vars => PredecessorKept' /\ EvidenceKept'
<1> SUFFICES ASSUME AuthorityInv, [Next]_vars PROVE PredecessorKept' /\ EvidenceKept'
  OBVIOUS
<1> USE AuthorityGenerationsAssumption
    DEF AuthorityGenerationsAssumption, AuthorityInv, FilesOK, EnvelopesOK, CallInv, NamesInv,
        Predecessor, PredecessorKept, EvidenceKept, Gens, None, tree, markers, memory, results,
        bounds
<1>1. ASSUME Resolve PROVE PredecessorKept' /\ EvidenceKept'
  BY <1>1 DEF Resolve
<1>2. ASSUME ScanThrows PROVE PredecessorKept' /\ EvidenceKept'
  BY <1>2 DEF ScanThrows
<1>3. ASSUME WriteEnvelope PROVE PredecessorKept' /\ EvidenceKept'
  BY <1>3 DEF WriteEnvelope, Mint
<1>4. ASSUME WriteWarning PROVE PredecessorKept' /\ EvidenceKept'
  BY <1>4 DEF WriteWarning
<1>5. ASSUME Select PROVE PredecessorKept' /\ EvidenceKept'
  BY <1>5 DEF Select
<1>6. ASSUME Cleanup PROVE PredecessorKept' /\ EvidenceKept'
  BY <1>6 DEF Cleanup, CleanupAllowed, Disposable, Retained, Ready
<1>7. ASSUME CallThrows PROVE PredecessorKept' /\ EvidenceKept'
  BY <1>7 DEF CallThrows
<1>8. ASSUME ProcessDies PROVE PredecessorKept' /\ EvidenceKept'
  BY <1>8 DEF ProcessDies
<1>9. ASSUME Damage PROVE PredecessorKept' /\ EvidenceKept'
  BY <1>9 DEF Damage
<1>10. ASSUME NEW g \in Gens, Activate(g) PROVE PredecessorKept' /\ EvidenceKept'
  BY <1>10 DEF Activate
<1>11. ASSUME NEW g \in Gens, ScanFinds(g) PROVE PredecessorKept' /\ EvidenceKept'
  BY <1>11 DEF ScanFinds
<1>12. ASSUME NEW g \in Gens, Hold(g) PROVE PredecessorKept' /\ EvidenceKept'
  BY <1>12 DEF Hold
<1>13. ASSUME NEW g \in Gens, ClearWarning(g) PROVE PredecessorKept' /\ EvidenceKept'
  BY <1>13 DEF ClearWarning
<1>14. ASSUME NEW g \in Gens, NEW f \in Gens,
             ScanCopies(g, f)
      PROVE  PredecessorKept' /\ EvidenceKept'
  BY <1>14 DEF ScanCopies
<1>15. ASSUME NEW refs \in SUBSET Objects, NEW rotate \in BOOLEAN,
             Publish(refs, rotate)
      PROVE  PredecessorKept' /\ EvidenceKept'
  BY <1>15 DEF Publish, Mint
<1>16. ASSUME NEW gone \in SUBSET Gens, NEW half \in BOOLEAN,
             CleanupFails(gone, half)
      PROVE  PredecessorKept' /\ EvidenceKept'
  BY <1>16 DEF CleanupFails, CutCleanup, CleanupAllowed, Disposable, Retained, Ready
<1>17. ASSUME NEW gone \in SUBSET Gens, NEW half \in BOOLEAN,
             CleanupDies(gone, half)
      PROVE  PredecessorKept' /\ EvidenceKept'
  BY <1>17 DEF CleanupDies, CutCleanup, CleanupAllowed, Disposable, Retained, Ready
<1>18. ASSUME NEW o \in Objects, StoreObject(o) PROVE PredecessorKept' /\ EvidenceKept'
  BY <1>18 DEF StoreObject
<1>19. CASE UNCHANGED vars
  BY <1>19 DEF vars
<1>. QED
  BY <1>1, <1>2, <1>3, <1>4, <1>5, <1>6, <1>7, <1>8, <1>9, <1>10,
     <1>11, <1>12, <1>13, <1>14, <1>15, <1>16, <1>17, <1>18, <1>19
  DEF Next

LEMMA ClosureStep ==
  ASSUME AuthorityInv, [Next]_vars, losses' = losses, NEW k \in present, k \in present', Valid(k)
  PROVE  Valid(k)'
<1> USE AuthorityGenerationsAssumption
    DEF AuthorityGenerationsAssumption, AuthorityInv, FilesOK, EnvelopesOK, NamesInv, Gens, None,
        Valid, tree, markers, memory, results, bounds
<1>1. ASSUME Resolve PROVE Valid(k)'
  BY <1>1 DEF Resolve
<1>2. ASSUME ScanThrows PROVE Valid(k)'
  BY <1>2 DEF ScanThrows
<1>3. ASSUME WriteEnvelope PROVE Valid(k)'
  BY <1>3 DEF WriteEnvelope, Mint, CallInv
<1>4. ASSUME WriteWarning PROVE Valid(k)'
  BY <1>4 DEF WriteWarning
<1>5. ASSUME Select PROVE Valid(k)'
  BY <1>5 DEF Select
<1>6. ASSUME Cleanup PROVE Valid(k)'
  BY <1>6 DEF Cleanup, Pinned
<1>7. ASSUME CallThrows PROVE Valid(k)'
  BY <1>7 DEF CallThrows
<1>8. ASSUME ProcessDies PROVE Valid(k)'
  BY <1>8 DEF ProcessDies
<1>9. ASSUME Damage PROVE Valid(k)'
  BY <1>9 DEF Damage, BoundsOK
<1>10. ASSUME NEW g \in Gens, Activate(g) PROVE Valid(k)'
  BY <1>10 DEF Activate
<1>11. ASSUME NEW g \in Gens, ScanFinds(g) PROVE Valid(k)'
  BY <1>11 DEF ScanFinds
<1>12. ASSUME NEW g \in Gens, Hold(g) PROVE Valid(k)'
  BY <1>12 DEF Hold
<1>13. ASSUME NEW g \in Gens, ClearWarning(g) PROVE Valid(k)'
  BY <1>13 DEF ClearWarning
<1>14. ASSUME NEW g \in Gens, NEW f \in Gens,
             ScanCopies(g, f)
      PROVE  Valid(k)'
  BY <1>14 DEF ScanCopies
<1>15. ASSUME NEW refs \in SUBSET Objects, NEW rotate \in BOOLEAN,
             Publish(refs, rotate)
      PROVE  Valid(k)'
  BY <1>15 DEF Publish, Mint
<1>16. ASSUME NEW gone \in SUBSET Gens, NEW half \in BOOLEAN,
             CleanupFails(gone, half)
      PROVE  Valid(k)'
  <2>1. k \in present \ Disposable => closure[k] \subseteq Pinned(present \ Disposable)
    BY DEF Pinned
  <2>2. k \in Disposable => UNCHANGED objects
    BY <1>16 DEF CleanupFails, CutCleanup, Disposable
  <2>3. k \in present \ Disposable => Pinned(present \ Disposable) \subseteq objects'
    BY <1>16 DEF CleanupFails, CutCleanup
  <2>. QED BY <1>16, <2>1, <2>2, <2>3 DEF CleanupFails, CutCleanup
<1>17. ASSUME NEW gone \in SUBSET Gens, NEW half \in BOOLEAN,
             CleanupDies(gone, half)
      PROVE  Valid(k)'
  <2>1. k \in present \ Disposable => closure[k] \subseteq Pinned(present \ Disposable)
    BY DEF Pinned
  <2>2. k \in Disposable => UNCHANGED objects
    BY <1>17 DEF CleanupDies, CutCleanup, Disposable
  <2>3. k \in present \ Disposable => Pinned(present \ Disposable) \subseteq objects'
    BY <1>17 DEF CleanupDies, CutCleanup
  <2>. QED BY <1>17, <2>1, <2>2, <2>3 DEF CleanupDies, CutCleanup
<1>18. ASSUME NEW o \in Objects, StoreObject(o) PROVE Valid(k)'
  BY <1>18 DEF StoreObject
<1>19. CASE UNCHANGED vars
  BY <1>19 DEF vars
<1>. QED
  BY <1>1, <1>2, <1>3, <1>4, <1>5, <1>6, <1>7, <1>8, <1>9, <1>10,
     <1>11, <1>12, <1>13, <1>14, <1>15, <1>16, <1>17, <1>18, <1>19
  DEF Next

-----------------------------------------------------------------------------
(* The chain of generations.                                               *)
(*                                                                         *)
(* An activation takes the newest generation's index plus one and names it *)
(* as predecessor; a fallback takes the failed generation's index plus one *)
(* and copies the closure of the predecessor.  So the newest generation    *)
(* can be told, its predecessor is the next one down unless it is a copy   *)
(* of it, and whatever is newer than the generation a Host has open comes  *)
(* from it or shows another continuity.                                    *)

TreeInv ==
  /\ index[1] = 1 /\ pred[1] = None
  /\ \A g \in present : index[g] \in 1 .. g /\ (g # 1 => pred[g] # None)
  /\ \A g \in present : pred[g] # None => index[pred[g]] < index[g]
  /\ \A g, h \in present : index[g] = index[h] => g = h
  /\ \A g \in present : pred[g] # None =>
        \/ closure[g] = closure[pred[g]]
        \/ \A h \in present : index[h] < index[g] => index[h] <= index[pred[g]]

OrderInv ==
  /\ \A g \in 1 .. minted : pred[g] < g /\ cont[g] <= minted
  /\ opened \subseteq 1 .. minted

\* What a call has found of the newest generation still holds.
NewestInv ==
  /\ call.at = "copied" => /\ IsNewest(call.failed, present)
                           /\ pred[call.failed] = call.target
  /\ call.at \in {"warn", "select"} => IsNewest(call.target, present)
  /\ call.at = "publish" => IsNewest(call.source, present)

\* Of the generation that is open, and after it.
Since(x) == x = current \/ index[x] > index[current]
Follows(x) == current \in Ancestors[x] \/ cont[x] \notin {cont[g] : g \in opened}

LineInv ==
  current # None =>
    /\ current \in opened
    /\ selector # None => Since(selector)
    /\ \E x \in present : Since(x)
    /\ \A x \in present : index[x] > index[current] => Follows(x)

SelectorInv == selector # None => selector \in present

ChainInv == TreeInv /\ OrderInv /\ NewestInv /\ LineInv /\ SelectorInv

\* The envelopes already sealed never change.
SealedKept ==
  \A g \in 1 .. minted : /\ pred'[g] = pred[g] /\ closure'[g] = closure[g]
                         /\ index'[g] = index[g] /\ cont'[g] = cont[g]

-----------------------------------------------------------------------------
(* Least and greatest elements, and the recursion of Ancestors.            *)

Below == {pair \in Nat \X Nat : pair[1] < pair[2]}
LEMMA BelowIsWellFounded == IsWellFoundedOn(Below, Nat)
BY NatLessThanWellFounded, Zenon DEF OpToRel, Below

\* A nonempty set of numbers has a least one.
LEMMA LeastNumber ==
  ASSUME NEW S, S \subseteq Nat, S # {}
  PROVE  \E g \in S : \A h \in S : g <= h
<1>1. PICK g \in S : \A h \in S : ~(<<h, g>> \in Below)
  BY BelowIsWellFounded, WFMin, Zenon
<1>2. ASSUME NEW h \in S PROVE g <= h
  <2>1. g \in Nat /\ h \in Nat /\ ~(<<h, g>> \in Below)
    BY <1>1
  <2>2. <<h, g>> \in Nat \X Nat
    BY <2>1
  <2>3. ~(<<h, g>>[1] < <<h, g>>[2])
    BY <2>1, <2>2, Zenon DEF Below
  <2>. QED BY <2>1, <2>3
<1>. QED BY <1>2

\* A nonempty set of generations that are there has a newest one.
LEMMA NewestExists ==
  ASSUME AuthorityInv, TreeInv, NEW S \in SUBSET present, S # {}
  PROVE  \E g \in S : IsNewest(g, S)
<1> USE AuthorityGenerationsAssumption DEF AuthorityGenerationsAssumption
<1>1. \A g \in S : index[g] \in Nat /\ index[g] <= MaxGens
  <2> TAKE g \in S
  <2>1. g \in Gens /\ index[g] \in 1 .. g
    BY DEF AuthorityInv, FilesOK, TreeInv
  <2>. QED BY <2>1 DEF Gens
<1> DEFINE Room == {b \in Nat : \E g \in S : index[g] + b = MaxGens}
<1>2. Room # {}
  <2>1. PICK g \in S : TRUE
    OBVIOUS
  <2>2. MaxGens - index[g] \in Nat /\ index[g] + (MaxGens - index[g]) = MaxGens
    BY <1>1
  <2>. QED BY <2>2
<1>3. PICK b \in Room : \A c \in Room : b <= c
  BY <1>2, LeastNumber
<1>4. PICK g \in S : index[g] + b = MaxGens
  OBVIOUS
<1>5. ASSUME NEW h \in S PROVE index[h] <= index[g]
  <2>1. MaxGens - index[h] \in Nat /\ index[h] + (MaxGens - index[h]) = MaxGens
    BY <1>1
  <2>2. MaxGens - index[h] \in Room
    BY <2>1
  <2>3. b <= MaxGens - index[h] /\ b \in Nat
    BY <1>3, <2>2
  <2>. QED BY <1>1, <1>4, <2>1, <2>3
<1>. QED BY <1>5 DEF IsNewest

Closed(T) == \A x \in T : pred[x] # None => pred[x] \in T

\* The generations every chain that starts at g has to pass.
Line(g) == {h \in Gens : \A T \in SUBSET Gens : g \in T /\ Closed(T) => h \in T}

LEMMA LineUnfolds ==
  ASSUME EnvelopesOK, NEW g \in Gens
  PROVE  Line(g) = {g} \cup (IF pred[g] = None THEN {} ELSE Line(pred[g]))
<1>1. pred[g] \in Gens \cup {None}
  BY DEF EnvelopesOK
<1>2. g \in Line(g)
  BY DEF Line
<1>3. CASE pred[g] = None
  <2>1. Closed({g}) /\ {g} \in SUBSET Gens
    BY <1>3 DEF Closed
  <2>2. \A h \in Line(g) : h \in {g}
    BY <2>1 DEF Line
  <2>. QED BY <1>2, <1>3, <2>2
<1>4. CASE pred[g] # None
  <2>1. pred[g] \in Gens
    BY <1>1, <1>4
  <2>2. ASSUME NEW h \in Line(pred[g]) PROVE h \in Line(g)
    <3>1. ASSUME NEW T \in SUBSET Gens, g \in T, Closed(T) PROVE h \in T
      <4>1. pred[g] \in T
        BY <1>4, <3>1 DEF Closed
      <4>. QED BY <2>2, <3>1, <4>1 DEF Line
    <3>. QED BY <2>2, <3>1 DEF Line
  <2>3. ASSUME NEW h \in Line(g), h # g PROVE h \in Line(pred[g])
    <3>1. ASSUME NEW T \in SUBSET Gens, pred[g] \in T, Closed(T) PROVE h \in T
      <4>1. Closed(T \cup {g}) /\ T \cup {g} \in SUBSET Gens
        BY <3>1 DEF Closed
      <4>2. h \in T \cup {g}
        BY <4>1 DEF Line
      <4>. QED BY <2>3, <4>2
    <3>. QED BY <3>1 DEF Line
  <2>. QED BY <1>2, <1>4, <2>2, <2>3
<1>. QED BY <1>3, <1>4

Unfolds ==
  \A g \in Gens \cup {None} :
    Ancestors[g] = IF g = None THEN {} ELSE {g} \cup Ancestors[pred[g]]

LEMMA AncestorsUnfold == EnvelopesOK => Unfolds
<1> SUFFICES ASSUME EnvelopesOK PROVE Unfolds
  OBVIOUS
<1> DEFINE F(f) == [g \in Gens \cup {None} |-> IF g = None THEN {} ELSE {g} \cup f[pred[g]]]
           line == [g \in Gens \cup {None} |-> IF g = None THEN {} ELSE Line(g)]
<1>1. line = F(line)
  <2>1. ASSUME NEW g \in Gens \cup {None}, g # None
        PROVE  line[g] = {g} \cup line[pred[g]]
    <3>1. g \in Gens /\ pred[g] \in Gens \cup {None}
      BY <2>1 DEF EnvelopesOK
    <3>2. line[g] = Line(g)
      BY <2>1
    <3>3. line[pred[g]] = IF pred[g] = None THEN {} ELSE Line(pred[g])
      BY <3>1
    <3>. QED BY <3>1, <3>2, <3>3, LineUnfolds
  <2>2. \A g \in Gens \cup {None} : line[g] = F(line)[g]
    BY <2>1
  <2>. QED BY <2>2, Zenon
<1>2. \E f : f = F(f)
  BY <1>1
<1> HIDE DEF line
<1>3. Ancestors = F(Ancestors)
  BY <1>2, Zenon DEF Ancestors
<1>. QED BY <1>3, Zenon DEF Unfolds

\* The same for the next state.
LEMMA AncestorsUnfoldNext == EnvelopesOK' => Unfolds'
BY AncestorsUnfold, PTL

\* A generation's ancestors are settled when it is sealed.
LEMMA AncestorsKept ==
  ASSUME AuthorityInv, OrderInv, EnvelopesOK', SealedKept
  PROVE  \A g \in 1 .. minted : Ancestors'[g] = Ancestors[g]
<1> USE AuthorityGenerationsAssumption
    DEF AuthorityGenerationsAssumption, AuthorityInv, EnvelopesOK, Gens, None
<1> DEFINE Bad == {g \in 1 .. minted : Ancestors'[g] # Ancestors[g]}
<1>1. SUFFICES ASSUME Bad # {} PROVE FALSE
  OBVIOUS
<1>2. Bad \subseteq Nat
  OBVIOUS
<1>3. PICK g \in Bad : \A h \in Bad : g <= h
  BY <1>1, <1>2, LeastNumber
<1>4. /\ g \in 1 .. minted /\ g \in Gens /\ g # None
      /\ pred[g] < g /\ pred'[g] = pred[g] /\ pred[g] \in Gens \cup {None}
  BY DEF OrderInv, SealedKept
<1>5. Ancestors[g] = {g} \cup Ancestors[pred[g]]
  BY <1>4, AncestorsUnfold DEF Unfolds
<1>6. Ancestors'[g] = {g} \cup Ancestors'[pred[g]]
  BY <1>4, AncestorsUnfoldNext DEF Unfolds
<1>7. Ancestors'[pred[g]] = Ancestors[pred[g]]
  <2>1. CASE pred[g] = None
    <3>1. Ancestors[None] = {} /\ Ancestors'[None] = {}
      BY AncestorsUnfold, AncestorsUnfoldNext DEF Unfolds
    <3>. QED BY <2>1, <3>1
  <2>2. CASE pred[g] # None
    <3>1. pred[g] \in 1 .. minted /\ ~(g <= pred[g])
      BY <1>4, <2>2
    <3>. QED BY <1>3, <3>1
  <2>. QED BY <2>1, <2>2
<1>. QED BY <1>4, <1>5, <1>6, <1>7

-----------------------------------------------------------------------------
(* The chain under a step that mints.                                      *)

\* What both minting steps do to the chain: a generation whose index follows the
\* newest one's, made from the newest one, or a copy of one it was made from.
LEMMA TreeOfMint ==
  ASSUME AuthorityInv, TreeInv, OrderInv, EnvelopesOK', SealedKept, minted + 1 \in Gens,
         present' = present \cup {minted + 1}, minted' = minted + 1, opened' = opened,
         NEW top \in present, IsNewest(top, present), NEW source \in present,
         index[source] <= index[top],
         pred'[minted + 1] = source, index'[minted + 1] = index[top] + 1,
         cont'[minted + 1] <= minted + 1,
         source = top \/ closure'[minted + 1] = closure[source]
  PROVE  TreeInv' /\ OrderInv' /\ \A h \in present : index'[h] < index'[minted + 1]
<1> DEFINE new == minted + 1
<1> USE AuthorityGenerationsAssumption DEF AuthorityGenerationsAssumption, Gens, None
<1>1. /\ minted \in Nat \ {0} /\ new \in Nat /\ \A g \in present : g \in 1 .. minted
      /\ \A g \in present : g # new
  BY DEF AuthorityInv, EnvelopesOK, NamesInv
<1>2. \A g \in present : index'[g] = index[g] /\ index[g] \in Nat /\ index[g] <= index[top]
  BY <1>1 DEF SealedKept, IsNewest, AuthorityInv, EnvelopesOK
<1>3. \A g \in present : pred'[g] = pred[g] /\ closure'[g] = closure[g]
  BY <1>1 DEF SealedKept
<1>4. \A g \in present : pred[g] # None =>
        /\ index'[pred[g]] = index[pred[g]] /\ closure'[pred[g]] = closure[pred[g]]
        /\ index[pred[g]] \in Nat
  <2> TAKE g \in present
  <2>1. g \in 1 .. minted /\ pred[g] \in Nat /\ pred[g] < g
    <3>1. g \in 1 .. minted /\ g \in Gens
      BY <1>1 DEF AuthorityInv, FilesOK
    <3>. QED BY <3>1 DEF OrderInv, AuthorityInv, EnvelopesOK
  <2>2. pred[g] # None => pred[g] \in 1 .. minted
    BY <2>1, <1>1
  <2>. QED BY <2>2 DEF SealedKept, AuthorityInv, EnvelopesOK
<1>5. index'[new] = index[top] + 1 /\ \A h \in present : index[h] < index'[new]
  BY <1>2
<1>6. index'[1] = 1 /\ pred'[1] = None
  BY <1>1 DEF TreeInv, SealedKept
<1>7. \A g \in present' : index'[g] \in 1 .. g /\ (g # 1 => pred'[g] # None)
  <2>1. index'[new] \in 1 .. new /\ pred'[new] # None
    <3>1. top \in 1 .. minted /\ index[top] \in 1 .. top /\ source \in 1 .. minted
      BY <1>1 DEF TreeInv
    <3>. QED BY <3>1, <1>1, <1>5
  <2>. QED BY <2>1, <1>2, <1>3 DEF TreeInv
<1>8. \A g \in present' : pred'[g] # None => index'[pred'[g]] < index'[g]
  <2>1. index'[pred'[new]] < index'[new]
    BY <1>2, <1>5
  <2>2. \A g \in present : pred'[g] # None => index'[pred'[g]] < index'[g]
    BY <1>2, <1>3, <1>4 DEF TreeInv
  <2>. QED BY <2>1, <2>2
<1>9. \A g, h \in present' : index'[g] = index'[h] => g = h
  <2>1. \A g, h \in present : index'[g] = index'[h] => g = h
    BY <1>2 DEF TreeInv
  <2>2. \A h \in present : index'[h] # index'[new]
    BY <1>2, <1>5
  <2>. QED BY <2>1, <2>2
<1>10. \A g \in present' : pred'[g] # None =>
         \/ closure'[g] = closure'[pred'[g]]
         \/ \A h \in present' : index'[h] < index'[g] => index'[h] <= index'[pred'[g]]
  <2>1. CASE source = top
    BY <2>1, <1>2, <1>3, <1>4, <1>5 DEF TreeInv
  <2>2. CASE closure'[new] = closure[source]
    BY <2>2, <1>2, <1>3, <1>4, <1>5 DEF TreeInv
  <2>. QED BY <2>1, <2>2
<1>11. OrderInv'
  <2>1. \A g \in 1 .. minted : pred'[g] < g /\ cont'[g] <= minted'
    <3> TAKE g \in 1 .. minted
    <3>1. pred'[g] = pred[g] /\ cont'[g] = cont[g] /\ cont[g] \in Nat /\ g \in Gens
      BY <1>1 DEF SealedKept, AuthorityInv, EnvelopesOK
    <3>. QED BY <3>1, <1>1 DEF OrderInv
  <2>2. pred'[new] < new /\ cont'[new] <= minted'
    BY <1>1
  <2>3. \A g \in 1 .. minted' : g \in 1 .. minted \/ g = new
    BY <1>1
  <2>4. opened' \subseteq 1 .. minted'
    BY <1>1 DEF OrderInv
  <2>. QED BY <2>1, <2>2, <2>3, <2>4 DEF OrderInv
<1>. QED BY <1>2, <1>5, <1>6, <1>7, <1>8, <1>9, <1>10, <1>11 DEF TreeInv

\* The generations sealed before are as they were to whoever has one open.
LEMMA FollowsKept ==
  ASSUME AuthorityInv, OrderInv, EnvelopesOK', SealedKept, opened' = opened, current' = current,
         NEW x \in 1 .. minted
  PROVE  Follows(x) <=> Follows(x)'
<1>1. Ancestors'[x] = Ancestors[x] /\ cont'[x] = cont[x]
  BY AncestorsKept DEF SealedKept
<1>2. {cont'[g] : g \in opened} = {cont[g] : g \in opened}
  BY DEF OrderInv, SealedKept
<1>. QED BY <1>1, <1>2, Zenon DEF Follows

\* The line of the open generation goes on, if the new one follows.
LEMMA LineOfMint ==
  ASSUME AuthorityInv, OrderInv, LineInv, EnvelopesOK', SealedKept,
         NEW new \in Gens, present' = present \cup {new}, new = minted + 1, minted' = minted + 1,
         opened' = opened, current' = current, selector' = selector,
         current # None => Follows(new)'
  PROVE  LineInv'
<1>1. SUFFICES ASSUME current # None PROVE LineInv'
  BY DEF LineInv
<1>2. current \in opened /\ current \in 1 .. minted
  BY <1>1 DEF LineInv, OrderInv
<1>3. ASSUME NEW x \in 1 .. minted PROVE (Since(x) <=> Since(x)') /\ (Follows(x) <=> Follows(x)')
  BY <1>2, FollowsKept DEF Since, SealedKept
<1>4. present \subseteq 1 .. minted /\ (selector # None => selector \in 1 .. minted)
  BY AuthorityGenerationsAssumption
  DEF AuthorityInv, NamesInv, EnvelopesOK, Gens, None, AuthorityGenerationsAssumption
<1>5. selector # None => selector = current \/ index'[selector] > index'[current]
  BY <1>1, <1>2, <1>4 DEF LineInv, Since, SealedKept
<1>6. \E x \in present' : Since(x)'
  BY <1>1, <1>3, <1>4 DEF LineInv
<1>7. ASSUME NEW x \in present', index'[x] > index'[current'] PROVE Follows(x)'
  <2>1. CASE x = new
    BY <1>1, <2>1
  <2>2. CASE x \in present
    BY <1>1, <1>2, <1>3, <1>4, <1>7, <2>2 DEF LineInv, SealedKept
  <2>. QED BY <1>7, <2>1, <2>2
<1>8. current' # None =>
        /\ current' \in opened'
        /\ selector' # None => selector' = current' \/ index'[selector'] > index'[current']
        /\ \E x \in present' : Since(x)'
        /\ \A x \in present' : index'[x] > index'[current'] => Follows(x)'
  BY <1>2, <1>5, <1>6, <1>7
<1>. QED BY <1>8 DEF LineInv, Since

\* The newest generation that is there came after the one that is open.
LEMMA NewestIsSince ==
  ASSUME AuthorityInv, TreeInv, LineInv, current # None, NEW g \in present, IsNewest(g, present)
  PROVE  Since(g)
<1>1. PICK x \in present : Since(x)
  BY DEF LineInv
<1>2. index[g] \in Nat /\ index[x] \in Nat /\ index[current] \in Nat /\ index[x] <= index[g]
  BY DEF AuthorityInv, EnvelopesOK, FilesOK, IsNewest
<1>. QED BY <1>1, <1>2 DEF TreeInv, Since

LEMMA MintedIsNumber == AuthorityInv => minted \in Nat \ {0}
BY AuthorityGenerationsAssumption
DEF AuthorityGenerationsAssumption, AuthorityInv, EnvelopesOK, Gens

LEMMA OpenedSealed ==
  ASSUME AuthorityInv, OrderInv, SealedKept, NEW g \in opened
  PROVE  cont'[g] = cont[g] /\ cont[g] <= minted /\ cont[g] \in Nat
<1>1. g \in Gens /\ g \in 1 .. minted
  BY DEF AuthorityInv, FilesOK, OrderInv
<1>2. cont[g] \in Nat
  BY <1>1, AuthorityGenerationsAssumption
  DEF AuthorityGenerationsAssumption, AuthorityInv, EnvelopesOK, Gens, None
<1>. QED BY <1>1, <1>2 DEF OrderInv, SealedKept

LEMMA ChainOfEnvelope ==
  ASSUME AuthorityInv, ChainInv, WriteEnvelope
  PROVE  ChainInv'
<1> USE AuthorityGenerationsAssumption DEF AuthorityGenerationsAssumption
<1>0. minted + 1 \in Gens
  BY Envelope
<1>n. PICK new \in Gens : new = minted + 1
  BY <1>0
<1>1. /\ EnvelopesOK' /\ SealedKept /\ present' = present \cup {new} /\ minted' = new
      /\ new \in Gens /\ pred'[new] = call.target /\ index'[new] = index[call.failed] + 1
      /\ cont'[new] = new /\ closure'[new] = closure[call.target]
  BY <1>n, Envelope DEF SealedKept
<1>2. UNCHANGED <<selector, opened, current>> /\ call'.at = "warn" /\ call'.target = new
  BY <1>n DEF WriteEnvelope, results, AuthorityInv, BoundsOK, Calls
<1>3. /\ call.failed \in present /\ call.target \in present
      /\ IsNewest(call.failed, present) /\ pred[call.failed] = call.target
  BY DEF WriteEnvelope, AuthorityInv, CallInv, ChainInv, NewestInv
<1>4. index[call.target] <= index[call.failed]
  <2>1. call.target # None /\ call.target \in Gens /\ call.failed \in Gens
    <3>1. present \subseteq Gens
      BY DEF AuthorityInv, FilesOK
    <3>2. \A g \in Gens : g # None
      BY DEF Gens, None
    <3>. QED BY <1>3, <3>1, <3>2, Zenon
  <2>2. index[call.target] < index[call.failed]
    BY <1>3, <2>1 DEF ChainInv, TreeInv
  <2>. QED BY <2>1, <2>2 DEF AuthorityInv, EnvelopesOK
<1>5. cont'[new] <= new
  BY <1>1 DEF Gens
<1>6. TreeInv' /\ OrderInv' /\ \A h \in present : index'[h] < index'[new]
  BY <1>1, <1>2, <1>3, <1>4, <1>5, <1>n, TreeOfMint DEF ChainInv
<1>7. NewestInv'
  <2>1. \A h \in present' : index'[h] <= index'[new]
    BY <1>1, <1>6 DEF EnvelopesOK, AuthorityInv, FilesOK
  <2>. QED BY <1>1, <1>2, <2>1 DEF NewestInv, IsNewest
<1>8. Follows(new)'
  <2>1. \A g \in opened : cont'[g] = cont[g] /\ cont[g] <= minted /\ cont[g] \in Nat
    BY <1>1, OpenedSealed DEF ChainInv
  <2>2. \A g \in opened : cont'[g] # cont'[new]
    BY <1>1, <1>n, <2>1, MintedIsNumber
  <2>. QED BY <1>1, <1>2, <2>2 DEF Follows
<1>9. LineInv'
  BY <1>1, <1>2, <1>8, <1>n, LineOfMint DEF ChainInv
<1>10. SelectorInv'
  BY <1>1, <1>2 DEF ChainInv, SelectorInv
<1>. QED BY <1>6, <1>7, <1>9, <1>10 DEF ChainInv

LEMMA ChainOfPublish ==
  ASSUME AuthorityInv, ChainInv, NEW refs \in SUBSET Objects, NEW rotate \in BOOLEAN,
         Publish(refs, rotate)
  PROVE  ChainInv'
<1> USE AuthorityGenerationsAssumption DEF AuthorityGenerationsAssumption
<1>0. minted + 1 \in Gens
  BY Publication
<1>n. PICK new \in Gens : new = minted + 1
  BY <1>0
<1>1. /\ EnvelopesOK' /\ SealedKept /\ present' = present \cup {new} /\ minted' = new
      /\ new \in Gens /\ pred'[new] = call.source /\ index'[new] = index[call.source] + 1
      /\ cont'[new] \in {new, cont[call.source]}
  BY <1>n, Publication DEF SealedKept
<1>2. UNCHANGED <<selector, opened, current>> /\ call'.at = "scan"
  BY DEF Publish, results, Idle
<1>3. call.source \in present /\ IsNewest(call.source, present)
  BY DEF Publish, ChainInv, NewestInv, IsNewest
<1>4. /\ call.source \in 1 .. minted /\ cont[call.source] \in Nat /\ minted \in Nat
      /\ cont[call.source] <= minted /\ index[call.source] \in Nat
  <2>1. call.source \in 1 .. minted /\ call.source \in Gens
    BY <1>3 DEF AuthorityInv, NamesInv, FilesOK
  <2>. QED BY <2>1 DEF AuthorityInv, EnvelopesOK, Gens, None, ChainInv, OrderInv
<1>5. cont'[new] <= new /\ index[call.source] <= index[call.source]
  BY <1>1, <1>4, <1>n
<1>6. TreeInv' /\ OrderInv'
  BY <1>1, <1>2, <1>3, <1>5, <1>n, TreeOfMint DEF ChainInv
<1>7. NewestInv'
  BY <1>2 DEF NewestInv
<1>8. ASSUME current # None PROVE Follows(new)'
  <2>1. \A g \in opened : cont'[g] = cont[g] /\ cont[g] <= minted /\ cont[g] \in Nat
    BY <1>1, OpenedSealed DEF ChainInv
  <2>2. CASE cont'[new] = new
    <3>1. \A g \in opened : cont'[g] # cont'[new]
      BY <1>4, <1>n, <2>1, <2>2
    <3>. QED BY <1>2, <3>1 DEF Follows
  <2>3. CASE cont'[new] = cont[call.source]
    <3>1. Since(call.source)
      BY <1>3, <1>8, NewestIsSince DEF ChainInv
    <3>2. new # None /\ call.source # None
      BY <1>1, <1>4 DEF Gens, None
    <3>3. Ancestors'[new] = {new} \cup Ancestors'[call.source]
      BY <1>1, <3>2, AncestorsUnfoldNext DEF Unfolds
    <3>4. Ancestors'[call.source] = Ancestors[call.source]
      BY <1>1, <1>4, AncestorsKept DEF ChainInv
    <3>5. CASE call.source = current
      <4>1. current \in Ancestors[current]
        BY <1>3, <3>5, <3>2, AncestorsUnfold DEF Unfolds, AuthorityInv, FilesOK
      <4>. QED BY <1>2, <3>3, <3>4, <3>5, <4>1 DEF Follows
    <3>6. CASE index[call.source] > index[current]
      <4>1. Follows(call.source)
        BY <1>3, <1>8, <3>6 DEF ChainInv, LineInv
      <4>2. {cont'[g] : g \in opened} = {cont[g] : g \in opened}
        BY <2>1
      <4>. QED BY <1>2, <2>3, <3>3, <3>4, <4>1, <4>2 DEF Follows
    <3>. QED BY <3>1, <3>5, <3>6 DEF Since
  <2>. QED BY <1>1, <2>2, <2>3
<1>9. LineInv'
  BY <1>1, <1>2, <1>8, <1>n, LineOfMint DEF ChainInv
<1>10. SelectorInv'
  BY <1>1, <1>2 DEF ChainInv, SelectorInv
<1>. QED BY <1>6, <1>7, <1>9, <1>10 DEF ChainInv

-----------------------------------------------------------------------------
(* The chain under the other steps.                                        *)

\* The envelopes stay as they are.
Frame == UNCHANGED <<pred, index, cont, closure, minted>>

\* The selector is lost or stays, and nothing is opened.
Quiet == UNCHANGED <<present, results>> /\ selector' \in {selector, None}

\* Generations are deleted, never the one that is selected.
Deleting ==
  /\ present' \subseteq present /\ UNCHANGED <<results, selector>>
  /\ selector # None /\ selector \in present'

Publishes == \E refs \in SUBSET Objects, rotate \in BOOLEAN : Publish(refs, rotate)

LEMMA StepKinds ==
  ASSUME AuthorityInv, ChainInv, [Next]_vars
  PROVE  \/ WriteEnvelope
         \/ Publishes
         \/ Select
         \/ Frame /\ Quiet
         \/ Frame /\ Deleting
<1> USE DEF Frame, Quiet, tree, markers, memory, results, bounds
<1>1. ASSUME Resolve PROVE \/ WriteEnvelope \/ Publishes \/ Select
             \/ (Frame /\ Quiet) \/ (Frame /\ Deleting)
  BY <1>1 DEF Resolve
<1>2. ASSUME ScanThrows PROVE \/ WriteEnvelope \/ Publishes \/ Select
             \/ (Frame /\ Quiet) \/ (Frame /\ Deleting)
  BY <1>2 DEF ScanThrows
<1>3. ASSUME WriteEnvelope PROVE \/ WriteEnvelope \/ Publishes \/ Select
             \/ (Frame /\ Quiet) \/ (Frame /\ Deleting)
  BY <1>3
<1>4. ASSUME WriteWarning PROVE \/ WriteEnvelope \/ Publishes \/ Select
             \/ (Frame /\ Quiet) \/ (Frame /\ Deleting)
  BY <1>4 DEF WriteWarning
<1>5. ASSUME Select PROVE \/ WriteEnvelope \/ Publishes \/ Select
             \/ (Frame /\ Quiet) \/ (Frame /\ Deleting)
  BY <1>5
<1>6. ASSUME Cleanup PROVE \/ WriteEnvelope \/ Publishes \/ Select
             \/ (Frame /\ Quiet) \/ (Frame /\ Deleting)
  <2>1. selector # None /\ selector \in Retained /\ Retained \subseteq present
    BY <1>6 DEF Cleanup, CutCleanup, CleanupAllowed, Retained
  <2>2. selector \in present'
    BY <1>6, <2>1 DEF Cleanup, CutCleanup, Disposable
  <2>. QED BY <1>6, <2>1, <2>2 DEF Cleanup, CutCleanup, Deleting
<1>7. ASSUME CallThrows PROVE \/ WriteEnvelope \/ Publishes \/ Select
             \/ (Frame /\ Quiet) \/ (Frame /\ Deleting)
  BY <1>7 DEF CallThrows
<1>8. ASSUME ProcessDies PROVE \/ WriteEnvelope \/ Publishes \/ Select
             \/ (Frame /\ Quiet) \/ (Frame /\ Deleting)
  BY <1>8 DEF ProcessDies
<1>9. ASSUME Damage PROVE \/ WriteEnvelope \/ Publishes \/ Select
             \/ (Frame /\ Quiet) \/ (Frame /\ Deleting)
  BY <1>9 DEF Damage
<1>10. ASSUME NEW g \in Gens, Activate(g) PROVE \/ WriteEnvelope \/ Publishes \/ Select
             \/ (Frame /\ Quiet) \/ (Frame /\ Deleting)
  BY <1>10 DEF Activate
<1>11. ASSUME NEW g \in Gens, ScanFinds(g) PROVE \/ WriteEnvelope \/ Publishes \/ Select
             \/ (Frame /\ Quiet) \/ (Frame /\ Deleting)
  BY <1>11 DEF ScanFinds
<1>12. ASSUME NEW g \in Gens, Hold(g) PROVE \/ WriteEnvelope \/ Publishes \/ Select
             \/ (Frame /\ Quiet) \/ (Frame /\ Deleting)
  BY <1>12 DEF Hold
<1>13. ASSUME NEW g \in Gens, ClearWarning(g) PROVE \/ WriteEnvelope \/ Publishes \/ Select
             \/ (Frame /\ Quiet) \/ (Frame /\ Deleting)
  BY <1>13 DEF ClearWarning
<1>14. ASSUME NEW g \in Gens, NEW f \in Gens, ScanCopies(g, f)
       PROVE  \/ WriteEnvelope \/ Publishes \/ Select
             \/ (Frame /\ Quiet) \/ (Frame /\ Deleting)
  BY <1>14 DEF ScanCopies
<1>15. ASSUME NEW refs \in SUBSET Objects, NEW rotate \in BOOLEAN, Publish(refs, rotate)
       PROVE  \/ WriteEnvelope \/ Publishes \/ Select
             \/ (Frame /\ Quiet) \/ (Frame /\ Deleting)
  BY <1>15 DEF Publishes
<1>16. ASSUME NEW gone \in SUBSET Gens, NEW half \in BOOLEAN, CleanupFails(gone, half)
       PROVE  \/ WriteEnvelope \/ Publishes \/ Select
             \/ (Frame /\ Quiet) \/ (Frame /\ Deleting)
  <2>1. selector # None /\ selector \in Retained /\ Retained \subseteq present
    BY <1>16 DEF CleanupFails, CutCleanup, CleanupAllowed, Retained
  <2>2. selector \in present'
    BY <1>16, <2>1 DEF CleanupFails, CutCleanup, Disposable
  <2>. QED BY <1>16, <2>1, <2>2 DEF CleanupFails, CutCleanup, Deleting
<1>17. ASSUME NEW gone \in SUBSET Gens, NEW half \in BOOLEAN, CleanupDies(gone, half)
       PROVE  \/ WriteEnvelope \/ Publishes \/ Select
             \/ (Frame /\ Quiet) \/ (Frame /\ Deleting)
  <2>1. selector # None /\ selector \in Retained /\ Retained \subseteq present
    BY <1>17 DEF CleanupDies, CutCleanup, CleanupAllowed, Retained
  <2>2. selector \in present'
    BY <1>17, <2>1 DEF CleanupDies, CutCleanup, Disposable
  <2>. QED BY <1>17, <2>1, <2>2 DEF CleanupDies, CutCleanup, Deleting
<1>18. ASSUME NEW o \in Objects, StoreObject(o) PROVE \/ WriteEnvelope \/ Publishes \/ Select
             \/ (Frame /\ Quiet) \/ (Frame /\ Deleting)
  BY <1>18 DEF StoreObject
<1>19. CASE UNCHANGED vars
  BY <1>19 DEF vars
<1>. QED
  BY <1>1, <1>2, <1>3, <1>4, <1>5, <1>6, <1>7, <1>8, <1>9, <1>10,
     <1>11, <1>12, <1>13, <1>14, <1>15, <1>16, <1>17, <1>18, <1>19
  DEF Next

\* What a call has found of the newest generation stays true to its end.
LEMMA NewestStep ==
  ASSUME AuthorityInv, ChainInv, [Next]_vars
  PROVE  NewestInv'
<1> USE DEF NewestInv, Idle, tree, markers, memory, results, bounds
<1>1. ASSUME Resolve PROVE NewestInv'
  BY <1>1 DEF Resolve
<1>2. ASSUME ScanThrows PROVE NewestInv'
  BY <1>2 DEF ScanThrows
<1>3. ASSUME WriteEnvelope PROVE NewestInv'
  BY <1>3, ChainOfEnvelope DEF ChainInv
<1>4. ASSUME WriteWarning PROVE NewestInv'
  <2>1. UNCHANGED <<present, index>> /\ IsNewest(call.target, present)
    BY <1>4 DEF WriteWarning, ChainInv
  <2>2. call'.at = "select" /\ call'.target = call.target
    BY <1>4 DEF WriteWarning, AuthorityInv, BoundsOK, Calls
  <2>. QED BY <2>1, <2>2 DEF IsNewest
<1>5. ASSUME Select PROVE NewestInv'
  <2>1. UNCHANGED <<present, index>> /\ IsNewest(call.target, present)
    BY <1>5 DEF Select, ChainInv
  <2>2. \/ call' = Idle
        \/ call' = [call EXCEPT !.at = "publish"] /\ call.target = call.source
    BY <1>5 DEF Select
  <2>3. \/ call'.at = "idle"
        \/ call'.at = "publish" /\ call'.source = call.target
    BY <2>2 DEF AuthorityInv, BoundsOK, Calls
  <2>. QED BY <2>1, <2>3 DEF IsNewest
<1>6. ASSUME Cleanup PROVE NewestInv'
  BY <1>6 DEF Cleanup, Ready
<1>7. ASSUME CallThrows PROVE NewestInv'
  BY <1>7 DEF CallThrows
<1>8. ASSUME ProcessDies PROVE NewestInv'
  BY <1>8 DEF ProcessDies
<1>9. ASSUME Damage PROVE NewestInv'
  BY <1>9 DEF Damage, Ready
<1>10. ASSUME NEW g \in Gens, Activate(g) PROVE NewestInv'
  BY <1>10 DEF Activate
<1>11. ASSUME NEW g \in Gens, ScanFinds(g) PROVE NewestInv'
  <2>1. UNCHANGED <<present, index>> /\ IsNewest(g, present)
    BY <1>11 DEF ScanFinds
  <2>2. call'.at = "select" /\ call'.target = g
    BY <1>11 DEF ScanFinds, AuthorityInv, BoundsOK, Calls
  <2>. QED BY <2>1, <2>2 DEF IsNewest
<1>12. ASSUME NEW g \in Gens, Hold(g) PROVE NewestInv'
  BY <1>12 DEF Hold, Ready
<1>13. ASSUME NEW g \in Gens, ClearWarning(g) PROVE NewestInv'
  BY <1>13 DEF ClearWarning, Ready
<1>14. ASSUME NEW g \in Gens, NEW f \in Gens, ScanCopies(g, f) PROVE NewestInv'
  <2>1. UNCHANGED <<present, index, pred>> /\ IsNewest(f, present) /\ pred[f] = g
    BY <1>14 DEF ScanCopies, FallsBack
  <2>2. call'.at = "copied" /\ call'.target = g /\ call'.failed = f
    BY <1>14 DEF ScanCopies, AuthorityInv, BoundsOK, Calls
  <2>. QED BY <2>1, <2>2 DEF IsNewest
<1>15. ASSUME NEW refs \in SUBSET Objects, NEW rotate \in BOOLEAN, Publish(refs, rotate)
       PROVE  NewestInv'
  BY <1>15, ChainOfPublish DEF ChainInv
<1>16. ASSUME NEW gone \in SUBSET Gens, NEW half \in BOOLEAN, CleanupFails(gone, half)
       PROVE  NewestInv'
  BY <1>16 DEF CleanupFails, CutCleanup, Ready
<1>17. ASSUME NEW gone \in SUBSET Gens, NEW half \in BOOLEAN, CleanupDies(gone, half)
       PROVE  NewestInv'
  BY <1>17 DEF CleanupDies, CutCleanup, Ready
<1>18. ASSUME NEW o \in Objects, StoreObject(o) PROVE NewestInv'
  BY <1>18 DEF StoreObject, Ready
<1>19. CASE UNCHANGED vars
  BY <1>19 DEF vars, ChainInv, IsNewest
<1>. QED
  BY <1>1, <1>2, <1>3, <1>4, <1>5, <1>6, <1>7, <1>8, <1>9, <1>10,
     <1>11, <1>12, <1>13, <1>14, <1>15, <1>16, <1>17, <1>18, <1>19
  DEF Next

LEMMA TreeKept ==
  ASSUME AuthorityInv, ChainInv, Frame, present' \subseteq present
  PROVE  TreeInv'
BY DEF ChainInv, TreeInv, Frame

LEMMA OrderKept ==
  ASSUME AuthorityInv, ChainInv, Frame, opened' \subseteq opened \cup present
  PROVE  OrderInv'
BY DEF ChainInv, OrderInv, Frame, AuthorityInv, NamesInv

LEMMA FrameKeeps ==
  ASSUME AuthorityInv, Frame
  PROVE  EnvelopesOK' /\ SealedKept
BY DEF AuthorityInv, EnvelopesOK, Frame, SealedKept

LEMMA LineKept ==
  ASSUME AuthorityInv, ChainInv, Frame, Quiet \/ Deleting
  PROVE  LineInv'
<1>1. SUFFICES ASSUME current # None PROVE LineInv'
  BY DEF LineInv, Quiet, Deleting, results
<1>2. /\ opened' = opened /\ current' = current /\ present' \subseteq present
      /\ index' = index /\ selector' \in {selector, None} /\ present \subseteq 1 .. minted
  BY DEF Quiet, Deleting, results, Frame, AuthorityInv, NamesInv
<1>3. \A x \in 1 .. minted : Follows(x) <=> Follows(x)'
  BY <1>2, FrameKeeps, FollowsKept DEF ChainInv
<1>4. \E x \in present' : Since(x)
  BY <1>1 DEF Quiet, Deleting, ChainInv, LineInv
<1>5. /\ current \in opened
      /\ selector # None => Since(selector)
      /\ \A x \in present : index[x] > index[current] => Follows(x)
  BY <1>1 DEF ChainInv, LineInv
<1>6. \A x \in present' : index'[x] > index'[current'] => Follows(x)'
  BY <1>2, <1>3, <1>5
<1>7. \A x : Since(x) <=> (x = current' \/ index'[x] > index'[current'])
  BY <1>2 DEF Since
<1>8. (selector' # None => selector' = current' \/ index'[selector'] > index'[current'])
  BY <1>2, <1>5, <1>7
<1>9. current' # None =>
        /\ current' \in opened'
        /\ selector' # None => selector' = current' \/ index'[selector'] > index'[current']
        /\ \E x \in present' : x = current' \/ index'[x] > index'[current']
        /\ \A x \in present' : index'[x] > index'[current'] => Follows(x)'
  BY <1>2, <1>4, <1>5, <1>6, <1>7, <1>8
<1>. QED BY <1>9 DEF LineInv, Since

\* What is opened is the newest generation there is.
LEMMA LineOfSelect ==
  ASSUME AuthorityInv, ChainInv, Select
  PROVE  LineInv'
<1>1. /\ Frame /\ present' = present /\ selector' = call.target
      /\ call.target \in present /\ IsNewest(call.target, present)
  BY DEF Select, Frame, tree, ChainInv, NewestInv, IsNewest
<1>2. CASE call.op = "activate"
  <2>1. SUFFICES ASSUME current # None PROVE LineInv'
    BY <1>2 DEF LineInv, Select, results
  <2>2. opened' = opened /\ current' = current
    BY <1>2 DEF Select, results
  <2>3. Since(call.target)
    BY <1>1, <2>1, NewestIsSince DEF ChainInv
  <2>4. \A x \in present : Follows(x) <=> Follows(x)'
    BY <1>1, <2>2, FrameKeeps, FollowsKept DEF ChainInv, AuthorityInv, NamesInv
  <2>5. current' # None =>
        /\ current' \in opened'
        /\ selector' # None => selector' = current' \/ index'[selector'] > index'[current']
        /\ \E x \in present' : x = current' \/ index'[x] > index'[current']
        /\ \A x \in present' : index'[x] > index'[current'] => Follows(x)'
    BY <1>1, <2>1, <2>2, <2>3, <2>4 DEF ChainInv, LineInv, Frame, Since
  <2>. QED BY <2>5 DEF LineInv, Since
<1>3. CASE call.op # "activate"
  <2>1. opened' = opened \cup {call.target} /\ current' = call.target
    BY <1>3 DEF Select
  <2>2. \A x \in present' : ~(index'[x] > index'[current'])
    BY <1>1, <2>1 DEF IsNewest, Frame, AuthorityInv, EnvelopesOK, FilesOK
  <2>. QED BY <1>1, <2>1, <2>2 DEF LineInv, Since
<1>. QED BY <1>2, <1>3

LEMMA ChainStep == AuthorityInv /\ ChainInv /\ [Next]_vars => ChainInv'
<1> SUFFICES ASSUME AuthorityInv, ChainInv, [Next]_vars PROVE ChainInv'
  OBVIOUS
<1>1. CASE WriteEnvelope
  BY <1>1, ChainOfEnvelope
<1>2. ASSUME NEW refs \in SUBSET Objects, NEW rotate \in BOOLEAN, Publish(refs, rotate)
      PROVE  ChainInv'
  BY <1>2, ChainOfPublish
<1>3. CASE Select
  <2>1. /\ Frame /\ present' = present /\ selector' = call.target /\ call.target \in present
        /\ opened' \subseteq opened \cup present
    BY <1>3 DEF Select, Frame, tree, results, ChainInv, NewestInv, IsNewest
  <2>. QED BY <1>3, <2>1, TreeKept, OrderKept, LineOfSelect, NewestStep
           DEF ChainInv, SelectorInv
<1>4. CASE Frame /\ (Quiet \/ Deleting)
  <2>1. /\ present' \subseteq present /\ opened' \subseteq opened \cup present
        /\ SelectorInv'
    BY <1>4 DEF Quiet, Deleting, results, ChainInv, SelectorInv
  <2>. QED BY <1>4, <2>1, TreeKept, OrderKept, LineKept, NewestStep DEF ChainInv
<1>. QED BY <1>1, <1>2, <1>3, <1>4, StepKinds DEF Publishes

LEMMA ChainInit == Init => ChainInv
<1> SUFFICES ASSUME Init PROVE ChainInv
  OBVIOUS
<1> USE AuthorityGenerationsAssumption DEF AuthorityGenerationsAssumption, Init, Gens, None
<1>1. 1 \in Gens /\ minted = 1
  OBVIOUS
<1>2. TreeInv
  BY <1>1 DEF TreeInv
<1>3. OrderInv
  BY <1>1 DEF OrderInv
<1>4. NewestInv /\ LineInv /\ SelectorInv
  BY DEF NewestInv, LineInv, SelectorInv, Idle
<1>. QED BY <1>2, <1>3, <1>4 DEF ChainInv

-----------------------------------------------------------------------------
(* What the chain is for.                                                  *)

\* A start whose newest generation alone is lost falls back to its predecessor.
LEMMA ChainRecovers == AuthorityInv /\ ChainInv => NewestLossRecoverable
<1> SUFFICES ASSUME AuthorityInv, ChainInv, ~stray, Coherent(present),
                    \A g \in present : Valid(g) \/ IsNewest(g, present),
                    \E g \in present : Valid(g)
             PROVE  Resolvable
  BY DEF NewestLossRecoverable
<1>1. /\ ValidGens \in SUBSET present /\ ValidGens # {} /\ present \subseteq Gens
      /\ \A g \in present : index[g] \in Nat
  BY DEF ValidGens, AuthorityInv, FilesOK, EnvelopesOK
<1>2. PICK g \in ValidGens : IsNewest(g, ValidGens)
  BY <1>1, NewestExists DEF ChainInv
<1>3. Unambiguous
  BY DEF Unambiguous, ChainInv, TreeInv
<1>4. \A h \in present \ ValidGens : IsNewest(h, present)
  BY DEF ValidGens
<1>5. Coherent(ValidGens)
  <2> SUFFICES ASSUME NEW h \in ValidGens, pred[h] # None PROVE pred[h] \in ValidGens
    BY DEF Coherent
  <2>1. pred[h] \in present /\ h \in present
    BY <1>1 DEF Coherent
  <2>2. index[pred[h]] < index[h]
    BY <2>1 DEF ChainInv, TreeInv
  <2>3. ~IsNewest(pred[h], present)
    BY <1>1, <2>1, <2>2 DEF IsNewest
  <2>. QED BY <1>4, <2>1, <2>3
<1>6. ScanPasses(g)
  BY <1>2, <1>3, <1>5 DEF ScanPasses
<1>7. CASE IsNewest(g, present)
  BY <1>1, <1>6, <1>7 DEF Resolvable
<1>8. CASE ~IsNewest(g, present)
  <2>1. PICK f \in present : ~(index[f] <= index[g])
    BY <1>1, <1>2, <1>8 DEF IsNewest
  <2>2. f \notin ValidGens /\ IsNewest(f, present) /\ f # g /\ index[g] < index[f]
    BY <1>1, <1>2, <1>4, <2>1 DEF IsNewest
  <2>3. f # 1
    <3>1. \A h \in present : h # 1 => index[h] \in 1 .. h
      BY DEF ChainInv, TreeInv
    <3>2. g \in present /\ index[g] >= 1
      BY <1>1, <1>2 DEF ChainInv, TreeInv, Gens
    <3>. QED BY <2>2, <3>2 DEF ChainInv, TreeInv
  <2>4. pred[f] # None /\ pred[f] \in present /\ index[pred[f]] < index[f]
    BY <2>1, <2>3 DEF ChainInv, TreeInv, Coherent
  <2>5. pred[f] \in ValidGens
    BY <1>1, <1>4, <2>1, <2>4 DEF IsNewest
  <2>6. closure[f] # closure[pred[f]]
    BY <2>1, <2>2, <2>5 DEF ValidGens, Valid
  <2>7. index[g] <= index[pred[f]]
    BY <1>1, <1>2, <2>1, <2>2, <2>4, <2>6 DEF ChainInv, TreeInv
  <2>8. index[pred[f]] <= index[g]
    BY <1>2, <2>5 DEF IsNewest
  <2>9. pred[f] = g
    BY <1>1, <1>2, <2>4, <2>7, <2>8 DEF ChainInv, TreeInv
  <2>. QED BY <1>1, <1>2, <1>6, <2>1, <2>2, <2>9 DEF FallsBack, Resolvable
<1>. QED BY <1>7, <1>8

\* What a Host opens after another generation follows that one.
LEMMA OpeningFollows ==
  ASSUME AuthorityInv, ChainInv, [Next]_vars, current' # current, current # None
  PROVE  current \in Ancestors'[current'] \/ cont'[current'] \notin {cont[g] : g \in opened}
<1>1. Select /\ call.op # "activate"
  BY StepKinds DEF Quiet, Deleting, results, WriteEnvelope, Publishes, Publish, Select
<1>2. /\ Frame /\ current' = call.target
      /\ call.target \in present /\ IsNewest(call.target, present)
  BY <1>1 DEF Select, Frame, tree, ChainInv, NewestInv, IsNewest
<1>3. index[call.target] > index[current]
  BY <1>2, NewestIsSince DEF ChainInv, Since
<1>4. Follows(call.target)
  BY <1>2, <1>3 DEF ChainInv, LineInv
<1>5. Ancestors'[call.target] = Ancestors[call.target]
  BY <1>2, FrameKeeps, AncestorsKept DEF ChainInv, AuthorityInv, NamesInv
<1>. QED BY <1>2, <1>4, <1>5 DEF Follows, Frame

-----------------------------------------------------------------------------
(* The theorems. *)

LEMMA AuthorityInvCorrect == Spec => []AuthorityInv
<1>1. AuthorityInv /\ [Next]_vars => AuthorityInv'
  BY FilesStep, EnvelopesStep, BoundsStep, CallStep, KeptStep DEF AuthorityInv
<1>. QED BY <1>1, AuthorityInit, PTL DEF Spec

\* Every variable of AuthorityGenerations keeps its type, whatever throws, is
\* lost or is damaged.
THEOREM AuthorityTypeCorrect == Spec => []TypeOK
<1>1. AuthorityInv => TypeOK
  BY DEF AuthorityInv, FilesOK, EnvelopesOK, BoundsOK, TypeOK
<1>. QED BY <1>1, AuthorityInvCorrect, PTL

\* No cleanup, whole or cut short, deletes the predecessor of the generation
\* the selector names (AuthorityGenerationStore.cleanup).
THEOREM PredecessorKeptCorrect == Spec => []PredecessorKept
<1>1. AuthorityInv => PredecessorKept
  BY DEF AuthorityInv
<1>. QED BY <1>1, AuthorityInvCorrect, PTL

\* The directory of a failed generation is there for as long as its recovery
\* warning (writeRecoveryWarning, cleanup).
THEOREM EvidenceKeptCorrect == Spec => []EvidenceKept
<1>1. AuthorityInv => EvidenceKept
  BY DEF AuthorityInv
<1>. QED BY <1>1, AuthorityInvCorrect, PTL

\* A generation that stays complete loses objects to damage alone, also while a
\* cleanup is cut short after any of its deletions.
THEOREM ClosureKeptCorrect == Spec => ClosureKept
<1> DEFINE Step == losses' = losses => \A g \in present \cap present' : Valid(g) => Valid(g)'
<1>a. ASSUME AuthorityInv, [Next]_vars PROVE Step
  <2> SUFFICES ASSUME losses' = losses, NEW k \in present, k \in present', Valid(k) PROVE Valid(k)'
    BY <1>a
  <2>. QED BY <1>a, ClosureStep
<1>b. AuthorityInv /\ [Next]_vars => Step
  BY <1>a
<1>. QED BY <1>b, AuthorityInvCorrect, PTL DEF Spec, ClosureKept

LEMMA ChainInvCorrect == Spec => [](AuthorityInv /\ ChainInv)
<1>1. AuthorityInv /\ [Next]_vars => AuthorityInv'
  BY FilesStep, EnvelopesStep, BoundsStep, CallStep, KeptStep DEF AuthorityInv
<1>. QED BY <1>1, AuthorityInit, ChainInit, ChainStep, PTL DEF Spec

\* Whatever was activated, opened, cleaned up, cut short or damaged: a root with
\* every predecessor there and only its newest generation lost can be started
\* from (AuthorityGenerationStore.resolve, copyForFallback, cleanup).
THEOREM NewestLossRecoverableCorrect == Spec => []NewestLossRecoverable
BY ChainInvCorrect, ChainRecovers, PTL

\* No Host opens an older state under a continuity its Clients have seen: what
\* it opens descends from what was open before, or has a continuity of its own
\* (resolve, activate, copyForFallback).
THEOREM NoSilentRegressionCorrect == Spec => NoSilentRegression
<1> DEFINE Step == current' # current /\ current # None =>
                     \/ current \in Ancestors'[current']
                     \/ cont'[current'] \notin {cont[g] : g \in opened}
<1>1. AuthorityInv /\ ChainInv /\ [Next]_vars => Step
  BY OpeningFollows
<1>. QED BY <1>1, ChainInvCorrect, PTL DEF Spec, NoSilentRegression

=============================================================================
