--------------------------- MODULE RecoveryPoints ---------------------------
(***************************************************************************)
(* The live blobs of a Host, the recovery points taken from them and the   *)
(* restore of a whole Host from a point.                                   *)
(*                                                                         *)
(* A Run's text and images are published as immutable blobs and then       *)
(* referenced by a Timeline entry (AuthorityStore.settleRun, RunArtifact-  *)
(* Store).  Maintenance, which a discretionary command starts when storage *)
(* is short, commits what it found unreachable and then moves the files.   *)
(* OnlineRecoverySnapshots copies the database while the daemon goes on    *)
(* committing, then the objects, and rotates.  WholeHostRestore replaces   *)
(* the Host by a point.                                                    *)
(*                                                                         *)
(* The daemon is one thread: what a synchronous block of the code does     *)
(* between two of its writes is interrupted by a loss of the process only. *)
(* `busy` is that block; the daemon's other actions wait for it.  A restore *)
(* runs in a process of its own, and nothing waits for it: it looks at the *)
(* daemon and at the point once, then copies, then activates.              *)
(***************************************************************************)
EXTENDS Naturals, FiniteSets

CONSTANTS Objects,      \* content-addressed bytes
          MaxPoints,    \* bound: recovery points requested
          Keep,         \* SCHEDULED_SNAPSHOT_RETENTION
          MaxChanges,   \* bound: Timeline commits
          MaxRestores,  \* bound: restores
          MaxMishaps    \* bound: lost processes, failed writes, rotten files

ASSUME RecoveryAssumption ==
  /\ MaxPoints \in Nat /\ MaxChanges \in Nat
  /\ MaxRestores \in Nat /\ MaxMishaps \in Nat
  /\ Keep \in Nat \ {0}

Points == 1..MaxPoints          \* in the order they were requested
NoPoint == 0
Kinds == {"scheduled", "manual", "risk-boundary"}

VARIABLES up,         \* the daemon runs
          refs,       \* objects a Timeline entry references
          retained,   \* rows of retained_object_references
          orphans,    \* rows of storage_orphans
          blobs,      \* files of blobs/
          quarantine, \* files of quarantine/blobs/
          missing,    \* referenced objects the last restore brought no file of
          change,     \* number of the last Timeline commit
          due,        \* a day has passed since the last scheduled point
          todo,       \* file moves a maintenance pass has committed to
          busy,       \* the synchronous block under way
          point,      \* recovery/snapshots
          store,      \* recovery/objects
          rotten,     \* recovery objects whose bytes no longer match
          schedule,   \* recovery/schedule.json
          previews,   \* points a restore preview has selected
          generation, \* directories restores have made
          pointer,    \* active-generation.json
          restore,    \* the restore under way
          waiting,    \* what was activated, until a daemon starts over it
          mishaps

live == <<refs, retained, orphans, blobs, quarantine, missing, change>>
recovery == <<point, store, rotten, schedule>>
restoring == <<previews, generation, pointer, restore, waiting>>
recoveryVars == <<up, live, due, todo, busy, recovery, restoring, mishaps>>

Idle == [at |-> "idle", of |-> NoPoint]
NoWork == [restored |-> {}, quarantined |-> {}, deleted |-> {}]
NoRecord == [state |-> "none", kind |-> "manual", objects |-> {}, refs |-> {},
             change |-> 0, database |-> TRUE]
Gone == [NoRecord EXCEPT !.state = "gone"]
NoSchedule == MaxChanges + 1
\* `taken` is what the point holds, `left` the files still to copy, `bad` those
\* copied rotten, `since` those that rotted after the restore's check.
NoRestore == [at |-> "none", of |-> NoPoint, taken |-> NoRecord, left |-> {}, bad |-> {},
              since |-> {}]

Generations == 0..MaxRestores   \* 0: the one the Host was created with

Record == [state : {"none", "copying", "copied", "kept", "torn", "gone"}, kind : Kinds,
           objects : SUBSET Objects, refs : SUBSET Objects, change : 0..MaxChanges,
           database : BOOLEAN]

\* The shape of every variable.
RecoveryTypeOK ==
  /\ up \in BOOLEAN
  /\ refs \subseteq Objects /\ retained \subseteq Objects /\ orphans \subseteq Objects
  /\ blobs \subseteq Objects /\ quarantine \subseteq Objects /\ missing \subseteq Objects
  /\ change \in 0..MaxChanges
  /\ due \in BOOLEAN
  /\ todo \in [{"restored", "quarantined", "deleted"} -> SUBSET Objects]
  /\ \/ busy \in [at : {"idle", "maintain", "collect"}, of : {NoPoint}]
     \/ busy \in [at : {"rename", "rotate", "written", "collect"}, of : Points]
     \/ busy \in [at : {"settle"}, of : Objects]
  /\ point \in [Points -> Record]
  /\ store \subseteq Objects /\ rotten \subseteq store
  /\ schedule \in 0..NoSchedule
  /\ previews \subseteq Points
  /\ generation \in [Generations -> {"none", "partial", "whole", "removed"}]
  /\ pointer \in Generations
  /\ restore.at \in {"none", "checked", "files"} /\ restore.of \in {NoPoint} \cup Points
  /\ restore.taken \in Record /\ restore.left \subseteq Objects
  /\ restore.bad \subseteq Objects /\ restore.since \subseteq Objects
  /\ waiting \in Record
  /\ mishaps \in 0..MaxMishaps

RecoveryInit ==
  /\ up = TRUE
  /\ refs = {} /\ retained = {} /\ orphans = {} /\ blobs = {} /\ quarantine = {}
  /\ missing = {} /\ change = 0 /\ due = TRUE
  /\ todo = NoWork /\ busy = Idle
  /\ point = [p \in Points |-> NoRecord]
  /\ store = {} /\ rotten = {} /\ schedule = NoSchedule
  /\ previews = {} /\ pointer = 0 /\ restore = NoRestore /\ waiting = NoRecord
  /\ generation = [g \in Generations |-> IF g = 0 THEN "whole" ELSE "none"]
  /\ mishaps = 0

Ready == up /\ busy = Idle
Mishap == mishaps < MaxMishaps /\ mishaps' = mishaps + 1

-----------------------------------------------------------------------------
(* Blobs: RunArtifactStore and AuthorityStore.                             *)

\* publishBlob: the bytes are in blobs/ before anything references them.
PublishBlob(o) ==
  /\ Ready /\ change < MaxChanges
  /\ blobs' = blobs \cup {o}
  /\ busy' = [at |-> "settle", of |-> o]
  /\ UNCHANGED <<up, refs, retained, orphans, quarantine, missing, change, due, todo,
                 recovery, restoring, mishaps>>

\* The transaction of settleRun or submitRun, and its rollback.
Reference ==
  /\ busy.at = "settle"
  /\ refs' = refs \cup {busy.of} /\ missing' = missing \ {busy.of}
  /\ change' = change + 1
  /\ busy' = Idle
  /\ UNCHANGED <<up, retained, orphans, blobs, quarantine, due, todo, recovery, restoring,
                 mishaps>>

RollBack ==
  /\ busy.at = "settle"
  /\ Mishap
  /\ busy' = Idle
  /\ UNCHANGED <<up, live, due, todo, recovery, restoring>>

\* retainObjectReference: a manifest outside the Timelines claims an object
\* whose bytes the Host still has.
RetainObject(o) ==
  /\ Ready
  /\ o \in (blobs \cup quarantine) \ retained
  /\ retained' = retained \cup {o}
  /\ UNCHANGED <<up, refs, orphans, blobs, quarantine, missing, change, due, todo, busy,
                 recovery, restoring, mishaps>>

\* referencedObjectIds
Referenced == refs \cup retained

\* Mutant of Decisions: a file is judged by its row alone.
DecisionsByRow(aged) ==
  [restored    |-> orphans \cap Referenced,
   deleted     |-> (orphans \ Referenced) \cap aged,
   quarantined |-> blobs \ orphans]

\* The decisions of a pass: an orphan proved once comes back when something
\* references it again, and goes when a later pass (aged: the clock has moved
\* since the first proof) still finds nothing; a file nobody references and
\* no row names is proved for the first time.
Decisions(aged) ==
  [restored    |-> orphans \cap Referenced,
   deleted     |-> (orphans \ Referenced) \cap aged,
   quarantined |-> blobs \ (Referenced \cup orphans)]

\* runMaintenance up to its COMMIT.
Maintain(aged) ==
  /\ Ready
  /\ todo' = Decisions(aged)
  /\ orphans' = (orphans \ (todo'.restored \cup todo'.deleted)) \cup todo'.quarantined
  /\ busy' = [at |-> "maintain", of |-> NoPoint]
  /\ UNCHANGED <<up, refs, retained, blobs, quarantine, missing, change, due, recovery,
                 restoring, mishaps>>

RestoreBlob(o) ==
  /\ busy.at = "maintain" /\ o \in todo.restored
  /\ todo' = [todo EXCEPT !.restored = @ \ {o}]
  /\ IF o \in quarantine
       THEN blobs' = blobs \cup {o} /\ quarantine' = quarantine \ {o}
       ELSE UNCHANGED <<blobs, quarantine>>
  /\ UNCHANGED <<up, refs, retained, orphans, missing, change, due, busy, recovery,
                 restoring, mishaps>>

QuarantineBlob(o) ==
  /\ busy.at = "maintain" /\ todo.restored = {} /\ o \in todo.quarantined
  /\ todo' = [todo EXCEPT !.quarantined = @ \ {o}]
  /\ blobs' = blobs \ {o} /\ quarantine' = quarantine \cup {o}
  /\ UNCHANGED <<up, refs, retained, orphans, missing, change, due, busy, recovery,
                 restoring, mishaps>>

DeleteQuarantinedBlob(o) ==
  /\ busy.at = "maintain" /\ todo.restored \cup todo.quarantined = {} /\ o \in todo.deleted
  /\ todo' = [todo EXCEPT !.deleted = @ \ {o}]
  /\ quarantine' = quarantine \ {o}
  /\ UNCHANGED <<up, refs, retained, orphans, blobs, missing, change, due, busy, recovery,
                 restoring, mishaps>>

\* The pass ends, or a failed move throws and abandons the moves behind it.
EndMaintenance ==
  /\ busy.at = "maintain"
  /\ IF todo = NoWork THEN UNCHANGED mishaps ELSE Mishap
  /\ todo' = NoWork /\ busy' = Idle
  /\ UNCHANGED <<up, live, due, recovery, restoring>>

-----------------------------------------------------------------------------
(* Recovery points: OnlineRecoverySnapshots.                               *)

Kept == {p \in Points : point[p].state = "kept"}
Torn == {p \in Points : point[p].state = "torn"}
Making == {p \in Points : point[p].state \in {"copying", "copied"}}
Unused == {p \in Points : point[p].state = "none"}

\* The caller names the objects the database references when it asks;
\* create() then waits for the copy of the database.
Request(p, kind) ==
  /\ Unused # {} /\ p = CHOOSE q \in Unused : \A r \in Unused : q <= r
  /\ point' = [point EXCEPT ![p] = [NoRecord EXCEPT !.state = "copying", !.kind = kind,
                                       !.objects = Referenced, !.change = change]]

\* A point somebody asks for: at once, or before a risk.
CreateManual(p, kind) ==
  /\ Ready /\ kind \in {"manual", "risk-boundary"}
  /\ Request(p, kind)
  /\ UNCHANGED <<up, live, due, todo, busy, store, rotten, schedule, restoring, mishaps>>

\* runScheduled.  Its first pass ever only notes the change it saw; observed-
\* Change and lastScheduledChange are the same number from then on.
FirstScheduled ==
  /\ Ready /\ schedule = NoSchedule
  /\ schedule' = change
  /\ UNCHANGED <<up, live, due, todo, busy, point, store, rotten, restoring, mishaps>>

RunScheduled(p) ==
  /\ Ready /\ schedule \notin {NoSchedule, change} /\ due
  /\ \A q \in Making : point[q].kind # "scheduled"
  /\ Request(p, "scheduled")
  /\ UNCHANGED <<up, live, due, todo, busy, store, rotten, schedule, restoring, mishaps>>

\* The online backup ends with what the database holds then: of a point's
\* database the objects it refers to are kept here.
BackUp(p) ==
  /\ Ready /\ point[p].state = "copying"
  /\ point' = [point EXCEPT ![p].state = "copied", ![p].refs = Referenced]
  /\ UNCHANGED <<up, live, due, todo, busy, store, rotten, schedule, restoring, mishaps>>

\* copyObject succeeds for an object that the live store has, and whose copy,
\* if the recovery store has one, is intact.
Copied(p) == point[p].objects \subseteq blobs \ rotten

\* The objects and the manifest, in the stage directory.
CopyObjects(p) ==
  /\ Ready /\ point[p].state = "copied" /\ Copied(p)
  /\ store' = store \cup point[p].objects
  /\ busy' = [at |-> "rename", of |-> p]
  /\ UNCHANGED <<up, live, due, todo, point, rotten, schedule, restoring, mishaps>>

\* A copy that throws removes the stage; the objects before it stay.
FailCreate(p, some) ==
  /\ Ready /\ point[p].state = "copied"
  /\ some \subseteq point[p].objects \cap blobs
  /\ IF Copied(p) THEN Mishap ELSE UNCHANGED mishaps
  /\ store' = store \cup some
  /\ point' = [point EXCEPT ![p] = Gone]
  /\ UNCHANGED <<up, live, due, todo, busy, rotten, schedule, restoring>>

Rename ==
  /\ busy.at = "rename"
  /\ point' = [point EXCEPT ![busy.of].state = "kept"]
  /\ busy' = [busy EXCEPT !.at = "rotate"]
  /\ UNCHANGED <<up, live, due, todo, store, rotten, schedule, restoring, mishaps>>

\* The scheduled points that come before p in a list sorted by age.
Newer(p) == {q \in Kept : q > p /\ point[q].kind = "scheduled"}

Excess == {p \in Kept : point[p].kind = "scheduled" /\ Cardinality(Newer(p)) >= Keep}
FirstExcess == CHOOSE p \in Excess : \A q \in Excess : q <= p

\* rotate: a directory whose manifest cannot be read makes the list throw,
\* and create() fail with its point published.
Rotate ==
  /\ busy.at = "rotate"
  /\ IF Torn # {} THEN busy' = Idle /\ UNCHANGED point
     ELSE IF Excess = {} THEN busy' = [busy EXCEPT !.at = "collect"] /\ UNCHANGED point
     ELSE point' = [point EXCEPT ![FirstExcess] = Gone] /\ UNCHANGED busy
  /\ UNCHANGED <<up, live, due, todo, store, rotten, schedule, restoring, mishaps>>

\* Mutant of Reachable: only what the rotation's kind of point holds.
ReachableFromScheduled ==
  UNION {point[p].objects : p \in {q \in Kept : point[q].kind = "scheduled"}}

\* The objects the manifests of the snapshots name.
Reachable == UNION {point[p].objects : p \in Kept}

CollectObjects ==
  /\ busy.at = "collect"
  /\ IF Torn # {}
       THEN UNCHANGED <<store, rotten>> /\ busy' = Idle
       ELSE /\ store' = store \cap Reachable /\ rotten' = rotten \cap Reachable
            /\ busy' = IF busy.of # NoPoint /\ point[busy.of].kind = "scheduled"
                         THEN [busy EXCEPT !.at = "written"] ELSE Idle
  /\ UNCHANGED <<up, live, due, todo, point, schedule, restoring, mishaps>>

WriteSchedule ==
  /\ busy.at = "written"
  /\ schedule' = point[busy.of].change /\ due' = FALSE
  /\ busy' = Idle
  /\ UNCHANGED <<up, live, todo, point, store, rotten, restoring, mishaps>>

DeletePoint(p) ==
  /\ Ready /\ p \in Kept /\ point[p].kind # "risk-boundary"
  /\ point' = [point EXCEPT ![p] = Gone]
  /\ busy' = [at |-> "collect", of |-> NoPoint]
  /\ UNCHANGED <<up, live, due, todo, store, rotten, schedule, restoring, mishaps>>

-----------------------------------------------------------------------------
(* Losses.                                                                 *)

\* What a lost process can leave of a point: a manifest that verify was
\* writing in place, a removal that took the database and perhaps the manifest.
Remains(p) ==
  (IF busy = Idle THEN {[point[p] EXCEPT !.state = "torn"]} ELSE {})
  \cup
  (IF (busy = Idle /\ point[p].kind # "risk-boundary") \/ (busy.at = "rotate" /\ p \in Excess)
     THEN {[point[p] EXCEPT !.state = state, !.database = FALSE] : state \in {"kept", "torn"}}
     ELSE {})

\* The daemon stops, or is lost within a block or a file operation on a point:
\* what it was making stays a stage directory, which no list reads.
Stopped ==
  /\ up /\ up' = FALSE /\ busy' = Idle /\ todo' = NoWork
  /\ UNCHANGED <<live, due, store, rotten, schedule, restoring>>
LeftBehind == [p \in Points |-> IF p \in Making THEN Gone ELSE point[p]]

StopDaemon ==
  /\ Stopped
  /\ IF busy = Idle /\ Making = {} THEN UNCHANGED mishaps ELSE Mishap
  /\ point' = LeftBehind

LoseDaemon(p) ==
  /\ Stopped /\ Mishap
  /\ p \in Kept
  /\ \E remains \in Remains(p) : point' = [LeftBehind EXCEPT ![p] = remains]

\* The daemon opens the generation the pointer names.  Which references of a
\* restored one are retained rows, and which orphan rows it has, the point does
\* not say: any.
OpenRestored(taken) ==
  /\ refs' \in SUBSET taken.refs /\ retained' \in SUBSET taken.refs
  /\ refs' \cup retained' = taken.refs
  /\ orphans' \in SUBSET (Objects \ taken.objects)
  /\ blobs' = taken.objects /\ quarantine' = {}
  /\ missing' = taken.refs \ taken.objects
  /\ change' = taken.change

\* A Host whose directory is gone does not start, and one whose blobs were copied
\* rotten is not followed.
StartDaemon ==
  /\ ~up /\ generation[pointer] = "whole" /\ waiting.database
  /\ up' = TRUE /\ waiting' = NoRecord
  /\ IF waiting = NoRecord THEN UNCHANGED live ELSE OpenRestored(waiting)
  /\ UNCHANGED <<due, todo, busy, recovery, previews, generation, pointer, restore, mishaps>>

Rot(o) ==
  /\ Mishap
  /\ o \in store /\ rotten' = rotten \cup {o}
  /\ restore' = [restore EXCEPT !.since = @ \cup ({o} \cap restore.left)]
  /\ UNCHANGED <<up, live, due, todo, busy, point, store, schedule, previews, generation, pointer,
                 waiting>>

NextDay ==
  /\ busy = Idle /\ ~due /\ due' = TRUE
  /\ UNCHANGED <<up, live, todo, busy, recovery, restoring, mishaps>>

-----------------------------------------------------------------------------
(* Restore: WholeHostRestore and DataGenerationManager.activate.           *)

\* Mutant of Sound: the database is the only thing looked at.
SoundDatabase(p) == point[p].state \in {"kept", "torn"} /\ point[p].database

\* verify of a candidate: its database and every file it lists are as listed.
Sound(p) ==
  /\ point[p].state \in {"kept", "torn"} /\ point[p].database
  /\ point[p].objects \subseteq store \ rotten

Fresh == {g \in Generations : generation[g] = "none"}
NextGeneration == CHOOSE g \in Fresh : \A h \in Fresh : g <= h

\* preview: the newest sound point of those the caller offers.  Bound: while a
\* restore may follow.
Preview(offered) ==
  /\ restore.at = "none" /\ Fresh # {}
  /\ \E p \in offered :
       /\ Sound(p) /\ \A q \in offered : q > p => ~Sound(q)
       /\ p \notin previews
       /\ previews' = previews \cup {p}
  /\ UNCHANGED <<up, live, due, todo, busy, recovery, generation, pointer, restore, waiting, mishaps>>

OutsideRestore == UNCHANGED <<up, live, due, todo, busy, recovery>>

\* restore: refused unless the daemon is stopped, the point was previewed and
\* it is still sound; then it makes a directory.
Restore(p) ==
  /\ restore.at = "none" /\ ~up /\ Fresh # {}
  /\ p \in previews /\ Sound(p)
  /\ generation' = [generation EXCEPT ![NextGeneration] = "partial"]
  /\ restore' = [NoRestore EXCEPT !.at = "checked", !.of = p, !.taken = point[p],
                                    !.left = point[p].objects]
  /\ UNCHANGED <<previews, pointer, waiting, mishaps>> /\ OutsideRestore

\* Whether the file to copy next is there; whose bytes it has nobody asks again.
DatabaseThere == point[restore.of].state \in {"kept", "torn"} /\ point[restore.of].database

CopyDatabase ==
  /\ restore.at = "checked" /\ DatabaseThere
  /\ restore' = [restore EXCEPT !.at = "files"]
  /\ UNCHANGED <<previews, generation, pointer, waiting, mishaps>> /\ OutsideRestore

CopyFile(o) ==
  /\ restore.at = "files" /\ o \in restore.left \cap store
  /\ restore' = [restore EXCEPT !.left = @ \ {o}, !.bad = @ \cup ({o} \cap rotten)]
  /\ UNCHANGED <<previews, generation, pointer, waiting, mishaps>> /\ OutsideRestore

\* The directory the restore under way has made: an abandoned one is older.
NewestSnapshot(g) == generation[g] = "partial" /\ \A h \in Generations \ Fresh : h <= g
Copying == CHOOSE g \in Generations : NewestSnapshot(g)

\* What a copy needs is gone by now.
SourceGone ==
  \/ restore.at = "checked" /\ ~DatabaseThere
  \/ restore.at = "files" /\ ~(restore.left \subseteq store)

\* No space, a source that is gone, a reconciliation that throws.
FailRestore ==
  /\ restore.at # "none"
  /\ IF SourceGone THEN UNCHANGED mishaps ELSE Mishap
  /\ generation' = [generation EXCEPT ![Copying] = "none"]
  /\ restore' = NoRestore
  /\ UNCHANGED <<previews, pointer, waiting>> /\ OutsideRestore

LoseRestore ==
  /\ restore.at # "none" /\ Mishap
  /\ previews' = {} /\ restore' = NoRestore
  /\ UNCHANGED <<generation, pointer, waiting>> /\ OutsideRestore

\* DataGenerationManager.activate: the pointer file is replaced in one step.
PointAt(g) == pointer' = g

Reconciled == restore.at = "files" /\ restore.left = {}

\* The pointer moves to the reconciled copy, which is the Host from its next
\* start on; a daemon that runs keeps what it opened.  `database` says that the
\* copy is intact.
Activate ==
  /\ Reconciled
  /\ generation' = [generation EXCEPT ![Copying] = "whole"]
  /\ PointAt(Copying)
  /\ waiting' = [restore.taken EXCEPT !.state = "kept", !.database = restore.bad = {}]
  /\ previews' = {} /\ restore' = NoRestore
  /\ UNCHANGED mishaps /\ OutsideRestore

\* The flush after the replacement throws: the catch clause removes the directory,
\* which the pointer names.
ActivateUnflushed ==
  /\ Reconciled /\ Mishap
  /\ generation' = [generation EXCEPT ![Copying] = "removed"]
  /\ PointAt(Copying)
  /\ restore' = NoRestore
  /\ UNCHANGED <<previews, waiting>> /\ OutsideRestore

-----------------------------------------------------------------------------
Blobs ==
  \/ \E o \in Objects : PublishBlob(o) \/ RetainObject(o)
  \/ Reference \/ RollBack
  \/ \E aged \in SUBSET orphans : Maintain(aged)
  \/ \E o \in Objects : RestoreBlob(o) \/ QuarantineBlob(o) \/ DeleteQuarantinedBlob(o)
  \/ EndMaintenance

Snapshots ==
  \/ FirstScheduled
  \/ \E p \in Points : RunScheduled(p) \/ BackUp(p) \/ CopyObjects(p) \/ DeletePoint(p)
  \/ \E p \in Points, kind \in Kinds : CreateManual(p, kind)
  \/ \E p \in Points, some \in SUBSET Objects : FailCreate(p, some)
  \/ Rename \/ Rotate \/ CollectObjects \/ WriteSchedule

Losses ==
  \/ StopDaemon \/ StartDaemon \/ NextDay
  \/ \E p \in Points : LoseDaemon(p)
  \/ \E o \in Objects : Rot(o)

Restores ==
  \/ \E offered \in SUBSET Kept : Preview(offered)
  \/ \E p \in Points : Restore(p)
  \/ CopyDatabase \/ \E o \in Objects : CopyFile(o)
  \/ FailRestore \/ LoseRestore \/ Activate \/ ActivateUnflushed

RecoveryNext == Blobs \/ Snapshots \/ Losses \/ Restores

RecoverySpec == RecoveryInit /\ [][RecoveryNext]_recoveryVars

-----------------------------------------------------------------------------
(* Properties.                                                             *)

\* Maintenance never takes the bytes of something the Host still refers to,
\* through crashes between its decisions and its file moves, rollbacks, new
\* references to an orphan and restores: a Timeline entry's blob is readable
\* (readReferencedBlob), a retained object at least in quarantine.  What a
\* restore brought no file of is `missing`, and another property's business.
ReferencedBytesKept ==
  /\ refs \ missing \subseteq blobs
  /\ retained \ missing \subseteq blobs \cup quarantine

\* Collection never takes an object that a published point names, whichever
\* points are being made, rotated, deleted or torn meanwhile: the objects are
\* copied after the backup the maker waits for, in one block with the rename.
PointsKeepTheirObjects == \A p \in Kept : point[p].objects \subseteq store

\* A restore makes the Host what it copied only when it has copied every file, and
\* what it copied is what it had found sound: a copy whose bytes are not as listed
\* rotted after the restore's own check, however long ago the preview was and
\* whatever the daemon made, rotated or deleted meanwhile.
RestoresWhatItVerified ==
  [][pointer' # pointer =>
       /\ restore.left = {} /\ restore.bad \subseteq restore.since
       /\ generation'[pointer'] # "partial"]_recoveryVars

\* SPEC.md:648-649 "materializes and migrates a new generation while stopped;
\* verifies and atomically activates it".  restore() looks at the daemon and at
\* the source once, before it copies.
RestoresStoppedHosts == [][pointer' # pointer => ~up /\ restore.bad = {}]_recoveryVars

\* SPEC.md:653 "Failure before the new generation accepts mutations may safely
\* return to the prior generation."  The catch clause removes what activate may
\* have made the active generation.
PointerNamesAGeneration == generation[pointer] = "whole"

\* SPEC.md:618: "Snapshot creation verifies database consistency, manifest/
\* reference closure, ...".  create() checks the database's integrity alone.
PointsAreClosed ==
  \A p \in Kept : point[p].refs \subseteq point[p].objects
=============================================================================
