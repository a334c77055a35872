--------------------------- MODULE LegacyCutover ---------------------------
(***************************************************************************)
(* The cutover of the Host's authority from <data>/authority.sqlite to     *)
(* sealed generations: the bridge Host that still opens the legacy file,   *)
(* release M that migrates it, release C that adds the cleanup generation, *)
(* and the deletion of the legacy file under a proof.  A database is the   *)
(* writes in its main file and in its write-ahead log; each write has a    *)
(* row and a blob of the same number.  A process may be lost between any   *)
(* two steps.                                                              *)
(***************************************************************************)
EXTENDS Naturals, FiniteSets

CONSTANTS Releases,
          Marks,   \* HOLD, FAILED and RECOVERY-WARNING: each refuses the deletion
          MaxWrites, MaxLosses

ASSUME CutoverAssumption ==
  /\ IsFiniteSet(Releases) /\ Releases # {} /\ IsFiniteSet(Marks)
  /\ {MaxWrites, MaxLosses} \subseteq Nat

VARIABLES
  legacy,     \* authority.sqlite and blobs/ in the data directory
  frozen,     \* MIGRATION-FROZEN exists
  gen,        \* sealed generation -> its contents
  objects,    \* whole files of authority/objects
  torn,       \* files of authority/objects that a lost copy left short
  selector,   \* the file Generation, 0 when absent
  floor,      \* SupportedReleaseFloor exists
  proof,      \* LegacyDeletionProof: its nonce and generations
  host,       \* the generation the running Host has open
  op, at,     \* what the offline tool does
  release,    \* and the release it is
  copy,       \* the rows in its .legacy-backup file
  granted,    \* the proof its caller holds
  written,    \* the writes the Host accepted are 1..written
  losses

disk == <<legacy, frozen, gen, objects, torn, selector, floor, proof>>
tool == <<op, at, release, copy, granted>>
vars == <<disk, host, tool, written, losses>>

Writes == 1..MaxWrites
Legacy == 0
Initial == 1    \* INITIAL_ACTIVATION_INDEX
Cleanup == 2    \* CLEANUP_ACTIVATION_INDEX, CLEANUP_LINEAGE_LENGTH
Down == 3
Ids == {Initial, Cleanup}
Sealed == DOMAIN gen
NoProof == [nonce |-> 0, ids |-> {}]
Steps == {"idle", "begin", "freeze", "backup", "objects", "publish", "floor", "select", "rm", "blobs"}

Rows(d) == d.main \union d.wal

\* A close of the last connection moves the log into the main file.
Checkpointed(d) == [d EXCEPT !.main = Rows(d), !.wal = {}]

\* Every path, generation and proof is of the form the code writes.
TypeOK ==
  /\ legacy.there \in BOOLEAN
  /\ legacy.main \union legacy.wal \union legacy.blobs \subseteq Writes
  /\ frozen \in BOOLEAN /\ floor \in BOOLEAN
  /\ Sealed \in {{}, {Initial}, Ids}
  /\ \A g \in Sealed :
       /\ gen[g].pred \in {Legacy} \union (Sealed \ {g}) /\ gen[g].release \in Releases
       /\ gen[g].marks \subseteq Marks /\ gen[g].intact \in BOOLEAN
       /\ Rows(gen[g]) \union gen[g].blobs \union gen[g].objects \subseteq Writes
  /\ objects \subseteq Writes /\ torn \subseteq Writes \ objects
  /\ selector \in {0} \union Sealed /\ host \in {Legacy, Down} \union Sealed
  /\ \A p \in {proof, granted} : p.nonce \in Nat /\ p.ids \in {{}, Ids}
  /\ op \in {"none", "migrate", "cleanup", "delete"} /\ at \in Steps
  /\ (op = "none") = (at = "idle")
  /\ release \in Releases /\ copy \subseteq Writes
  /\ written \in 0..MaxWrites /\ losses \in 0..MaxLosses

Init ==
  /\ legacy = [there |-> TRUE, main |-> {}, wal |-> {}, blobs |-> {}]
  /\ frozen = FALSE /\ gen = [g \in {} |-> {}] /\ objects = {} /\ torn = {}
  /\ selector = 0 /\ floor = FALSE /\ proof = NoProof
  /\ host = Down /\ op = "none" /\ at = "idle" /\ release \in Releases
  /\ copy = {} /\ granted = NoProof
  /\ written = 0 /\ losses = 0

-----------------------------------------------------------------------------
(* Discovery: every sealed directory must be valid and of one lineage. *)

\* The object closure is not looked at.
ValidWithoutClosure(g) == g.intact

\* #validateDirectory, of a candidate's record.
Valid(g) == g.intact /\ g.objects \subseteq objects

Newest == CHOOSE g \in Sealed : \A h \in Sealed : gen[h].index <= gen[g].index

Lineage ==
  /\ \A g, h \in Sealed : gen[g].index = gen[h].index => g = h
  /\ Cardinality({g \in Sealed : gen[g].pred = Legacy}) = 1
  /\ \A g \in Sealed \ {Newest} : Cardinality({h \in Sealed : gen[h].pred = g}) = 1

\* #select succeeds for release r.
Selectable(r) ==
  /\ Sealed # {} /\ Lineage
  /\ \A g \in Sealed : Valid(gen[g]) /\ gen[g].release = r

-----------------------------------------------------------------------------
(* The Host: openBridge, accepted writes, and its end. *)

\* Release M is invoked only after release B has quiesced.
Quiesced == op # "none" /\ at \in {"begin", "freeze"}

OpensLegacy == Sealed = {} /\ ~frozen

OpenBridge(r) ==
  /\ host = Down /\ ~Quiesced /\ op \notin {"cleanup", "delete"}
  /\ \/ /\ OpensLegacy
        /\ host' = Legacy /\ legacy' = [legacy EXCEPT !.there = TRUE]
        /\ UNCHANGED selector
     \/ /\ Selectable(r)
        /\ host' = Newest /\ selector' = Newest
        /\ UNCHANGED legacy
  /\ UNCHANGED <<frozen, gen, objects, torn, floor, proof, tool, written, losses>>

Accepted(d) ==
  [d EXCEPT !.wal = d.wal \union {written + 1}, !.blobs = d.blobs \union {written + 1}]

Open(f(_)) ==
  IF host = Legacy THEN legacy' = f(legacy) /\ UNCHANGED gen
  ELSE gen' = [gen EXCEPT ![host] = f(gen[host])] /\ UNCHANGED legacy

OutsideHost == UNCHANGED <<frozen, objects, torn, selector, floor, proof, tool>>

Accept ==
  /\ host # Down /\ written < MaxWrites /\ written' = written + 1
  /\ Open(Accepted) /\ UNCHANGED <<host, losses>> /\ OutsideHost

Close ==
  /\ host # Down /\ host' = Down
  /\ Open(Checkpointed) /\ UNCHANGED <<written, losses>> /\ OutsideHost

Loss == losses < MaxLosses /\ losses' = losses + 1

\* The log stays where it is.
HostLost ==
  /\ host # Down /\ host' = Down /\ Loss
  /\ UNCHANGED <<legacy, gen, written>> /\ OutsideHost

-----------------------------------------------------------------------------
(* Release M: migrateLegacy. *)

Step(from, to) == at = from /\ at' = to /\ op' = (IF to = "idle" THEN "none" ELSE op)

OutsideTool == UNCHANGED <<host, written, losses>>

Start(o) ==
  /\ op = "none" /\ host = Down /\ op' = o /\ at' = "begin" /\ release' \in Releases
  /\ copy' = {} /\ UNCHANGED <<disk, granted>> /\ OutsideTool

Migrates == Sealed = {} /\ legacy.there

\* Past the cutover a retry only proves the selection.
MigrateBegin ==
  /\ op = "migrate"
  /\ IF Migrates THEN Step("begin", "freeze")
     ELSE IF Sealed # {} THEN Step("begin", "select") ELSE Step("begin", "idle")
  /\ UNCHANGED <<disk, release, copy, granted>> /\ OutsideTool

Freeze ==
  /\ Step("freeze", "backup") /\ frozen' = TRUE
  /\ UNCHANGED <<legacy, gen, objects, torn, selector, floor, proof, release, copy, granted>>
  /\ OutsideTool

\* The main file is copied, the log is not.
BackedUpMain(d) == d.main

\* SQLite's backup reads through a connection.
BackedUp(d) == Rows(d)

Backup ==
  /\ Step("backup", "objects")
  /\ copy' = BackedUp(legacy) /\ legacy' = Checkpointed(legacy)
  /\ UNCHANGED <<frozen, gen, objects, torn, selector, floor, proof, release, granted>>
  /\ OutsideTool

\* A file that exists is not copied, nor looked at.
PublishObjects ==
  /\ Step("objects", "publish")
  /\ objects' = objects \union (legacy.blobs \ torn)
  /\ UNCHANGED <<legacy, frozen, gen, torn, selector, floor, proof, release, copy, granted>>
  /\ OutsideTool

Genesis ==
  [index |-> Initial, pred |-> Legacy, release |-> release, objects |-> legacy.blobs,
   main |-> copy, wal |-> {}, blobs |-> {}, marks |-> {}, intact |-> TRUE]

\* publishValidatedTree: the stage is renamed to its generation.
Sealing(g, d) == gen' = [h \in Sealed \union {g} |-> IF h = g THEN d ELSE gen[h]]

PublishGenesis ==
  /\ op = "migrate" /\ Step("publish", "select") /\ Valid(Genesis) /\ Sealing(Initial, Genesis)
  /\ UNCHANGED <<legacy, frozen, objects, torn, selector, floor, proof, release, copy, granted>>
  /\ OutsideTool

\* #openCanonical: repair the selector, open and close the database.
OpenCanonical ==
  /\ Selectable(release) /\ Step("select", "idle") /\ selector' = Newest
  /\ gen' = IF host = Newest THEN gen ELSE [gen EXCEPT ![Newest] = Checkpointed(gen[Newest])]
  /\ copy' = {}
  /\ UNCHANGED <<legacy, frozen, objects, torn, floor, proof, release, granted>> /\ OutsideTool

-----------------------------------------------------------------------------
(* Release C: createCleanupGeneration. *)

Advanced == gen[Newest].index >= Cleanup

CleanupBegin ==
  /\ op = "cleanup" /\ Selectable(release)
  /\ Step("begin", IF Advanced THEN "idle" ELSE "publish")
  /\ UNCHANGED <<disk, release, copy, granted>> /\ OutsideTool

\* Only authority.sqlite of the selected generation is copied.
Successor ==
  [gen[Newest] EXCEPT !.index = Cleanup, !.pred = Newest, !.release = release,
                      !.wal = {}, !.blobs = {}, !.marks = {}]

PublishCleanup ==
  /\ op = "cleanup" /\ Step("publish", "floor") /\ Valid(Successor) /\ Sealing(Cleanup, Successor)
  /\ UNCHANGED <<legacy, frozen, objects, torn, selector, floor, proof, release, copy, granted>>
  /\ OutsideTool

WriteFloor ==
  /\ Step("floor", "select") /\ floor' = TRUE
  /\ UNCHANGED <<legacy, frozen, gen, objects, torn, selector, proof, release, copy, granted>>
  /\ OutsideTool

-----------------------------------------------------------------------------
(* validateLegacyDeletion and deleteLegacy. *)

Provable(r) ==
  /\ Selectable(r) /\ Cardinality(Sealed) = Cleanup /\ gen[Newest].index = Cleanup
  /\ \A g \in Sealed : gen[g].marks = {}

\* The nonce is random: one that is in neither place.
Proof == [nonce |-> CHOOSE n \in 1..3 : n \notin {proof.nonce, granted.nonce}, ids |-> Sealed]

ValidateLegacyDeletion(r) ==
  /\ op = "none" /\ Provable(r) /\ proof' = Proof /\ granted' = Proof
  /\ UNCHANGED <<legacy, frozen, gen, objects, torn, selector, floor, op, at, release, copy>>
  /\ OutsideTool

\* The proof that was granted is taken as a lease.
ProofAsLease == proof # NoProof /\ proof = granted

StillProven == proof # NoProof /\ proof = granted /\ Provable(release) /\ granted.ids = Sealed

\* The proof is checked and renewed, then the database goes.
RemoveDatabase ==
  /\ op = "delete" /\ StillProven /\ proof' = Proof
  /\ Step("begin", "blobs")
  /\ legacy' = [legacy EXCEPT !.there = FALSE, !.main = {}, !.wal = {}]
  /\ UNCHANGED <<frozen, gen, objects, torn, selector, floor, release, copy, granted>>
  /\ OutsideTool

RemoveBlobs ==
  /\ Step("blobs", "idle") /\ legacy' = [legacy EXCEPT !.blobs = {}]
  /\ UNCHANGED <<frozen, gen, objects, torn, selector, floor, proof, release, copy, granted>>
  /\ OutsideTool

-----------------------------------------------------------------------------
(* Losses, and what others do to the directories. *)

EndTool == op # "none" /\ op' = "none" /\ at' = "idle" /\ copy' = {} /\ UNCHANGED <<release, granted>>

\* A hook throws or the process is lost with nothing of the step on disk.
ToolEnds ==
  /\ EndTool /\ UNCHANGED disk /\ OutsideTool

\* Lost in copyFileSync.
CopyTorn ==
  /\ at = "objects" /\ EndTool /\ Loss
  /\ \E w \in legacy.blobs \ (objects \union torn) : torn' = torn \union {w}
  /\ UNCHANGED <<legacy, frozen, gen, objects, selector, floor, proof, host, written>>

\* Lost with SEALED in a stage whose name discovery accepts.
StageSealed ==
  /\ at = "publish" /\ EndTool /\ Loss
  /\ \/ op = "migrate" /\ Valid(Genesis) /\ Sealing(Initial, Genesis)
     \/ op = "cleanup" /\ Valid(Successor) /\ Sealing(Cleanup, Successor)
  /\ UNCHANGED <<legacy, frozen, objects, torn, selector, floor, proof, host, written>>

OutsideGeneration == UNCHANGED <<legacy, frozen, objects, torn, selector, floor, proof, tool, host, written>>

Mark(g, m) ==
  /\ m \notin gen[g].marks /\ gen[g].intact
  /\ gen' = [gen EXCEPT ![g].marks = {m}] /\ UNCHANGED losses /\ OutsideGeneration

Unmark(g) ==
  /\ gen[g].marks # {}
  /\ gen' = [gen EXCEPT ![g].marks = {}] /\ UNCHANGED losses /\ OutsideGeneration

Damage(g) ==
  /\ gen[g].intact /\ Loss
  /\ gen' = [gen EXCEPT ![g].intact = FALSE] /\ OutsideGeneration

BridgeHost == (\E r \in Releases : OpenBridge(r)) \/ Accept \/ Close \/ HostLost

ReleaseM ==
  \/ Start("migrate") \/ MigrateBegin \/ Freeze \/ Backup \/ PublishObjects
  \/ PublishGenesis \/ OpenCanonical

ReleaseC ==
  \/ Start("cleanup") \/ CleanupBegin \/ PublishCleanup \/ WriteFloor
  \/ \E r \in Releases : ValidateLegacyDeletion(r)
  \/ Start("delete") \/ RemoveDatabase \/ RemoveBlobs

Environment ==
  \/ ToolEnds \/ CopyTorn \/ StageSealed
  \/ \E g \in Sealed : (\E m \in Marks : Mark(g, m)) \/ Unmark(g) \/ Damage(g)

Next == BridgeHost \/ ReleaseM \/ ReleaseC \/ Environment

Spec == Init /\ [][Next]_vars

-----------------------------------------------------------------------------
Opened == IF host = Legacy THEN legacy ELSE gen[host]

\* The rows createCleanupGeneration left in the log of a Host that was lost.
LeftInLog == UNION {gen[g].wal : g \in {gen[h].pred : h \in Sealed} \ {Legacy}}

\* Whoever opens the authority has every write a Host accepted, but those
\* that the cleanup's copy left behind: no freeze, backup, retry or stage
\* that was sealed by a lost process may bring an older copy up.
RowsKept == host # Down => 1..written \subseteq Rows(Opened) \union LeftInLog

\* The bytes of every blob the open authority refers to are in one of the
\* four places the cutover puts them, whatever was deleted.
BlobBytesKept ==
  host # Down => Rows(Opened) \subseteq
    objects \union legacy.blobs \union UNION {gen[g].blobs : g \in Sealed}

\* After the freeze the legacy rows change no more, they only go.
FrozenStays == [][frozen => Rows(legacy') \in {Rows(legacy), {}}]_vars

\* The legacy database goes only when both generations are whole, unheld and
\* hold its rows; a HOLD placed after the proof was given stops it.
DeletionProven ==
  [][legacy.there /\ ~legacy'.there =>
       /\ Sealed = Ids
       /\ \A g \in Sealed : Valid(gen[g]) /\ gen[g].marks = {} /\ Rows(legacy) \subseteq Rows(gen[g])]_vars

\* SPEC.md:568: Sessions retain their blobs.  The rows that the open
\* authority has refer to blobs its store can read.
BlobsReadable == host # Down => Rows(Opened) \subseteq Opened.blobs

=============================================================================
