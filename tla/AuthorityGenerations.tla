------------------------- MODULE AuthorityGenerations -------------------------
(***************************************************************************)
(* The sealed generations of the Host's Authority: startup selection with  *)
(* fallback to the predecessor, activation of a new generation, and the    *)
(* cleanup of old ones.  Sources: packages/host/src/authority-generations  *)
(* .ts, production-recovery.ts, packages/durability/src/index.ts.          *)
(*                                                                         *)
(* Calls are synchronous: `call' names the next file-system effect, and    *)
(* between two of them only a fault, which throws, or the loss of the      *)
(* process can strike.  Generations are named in the order they are        *)
(* minted, a continuity by the generation that minted it.                  *)
(***************************************************************************)
EXTENDS Integers

CONSTANTS
  Objects,     \* content-addressed objects that generations refer to
  MaxGens,     \* bound: generations ever minted
  Holdable,    \* bound: generations an operator may hold
  MaxCrashes,  \* bound: losses of the process
  MaxFaults,   \* bound: file-system operations that throw
  MaxLosses    \* bound: objects or selectors lost to damage

ASSUME AuthorityGenerationsAssumption ==
  /\ MaxGens \in Nat \ {0}
  /\ MaxCrashes \in Nat /\ MaxFaults \in Nat /\ MaxLosses \in Nat

None == 0
Gens == 1 .. MaxGens
Calls == [at : {"idle", "scan", "copied", "warn", "select", "publish"},
          op : {"resolve", "activate", "confirm"},
          source : Gens \cup {None},  \* what the caller of activate names
          target : Gens \cup {None},  \* what the scan selects
          failed : Gens \cup {None}]  \* what it falls back from

VARIABLES
  \* files under the Authority root
  present,   \* generations whose directory holds their own sealed envelope
  pred, index, cont, closure, \* fields of each envelope
  stray,     \* a directory under generations/ is not a generation
  objects, held, warnings, selector,
  \* memory of one AuthorityGenerationStore
  seen,      \* generations some scan has validated
  proven,    \* those already validated before the latest scan
  call,
  \* history and bounds
  minted, opened, current, cleared, crashes, faults, losses

tree    == <<present, pred, index, cont, closure, stray, minted>>
markers == <<held, warnings, cleared>>
memory  == <<seen, proven>>
results == <<opened, current>>
bounds  == <<crashes, faults, losses>>
vars == <<tree, objects, markers, selector, memory, call, results, bounds>>

Idle == [at |-> "idle", op |-> "resolve", source |-> None, target |-> None,
         failed |-> None]
Ready == call = Idle

-----------------------------------------------------------------------------
(* What a scan of the directories finds.                                   *)

Valid(g) == closure[g] \subseteq objects
ValidGens == {g \in present : Valid(g)}

\* assertCoherent: every predecessor named is among them.
Coherent(gens) == \A g \in gens : pred[g] # None => pred[g] \in gens

IsNewest(g, gens) == g \in gens /\ \A h \in gens : index[h] <= index[g]

\* The newest generation f does not validate, its predecessor g does.
FallsBack(g, f) == IsNewest(f, present) /\ f # g /\ pred[f] = g

\* enumerate: every directory is a generation, every activation index is one's own.
Unambiguous == ~stray /\ \A g, h \in present : index[g] = index[h] => g = h

ScanPasses(g) == Unambiguous /\ Coherent(ValidGens) /\ IsNewest(g, ValidGens)

\* resolve() has a generation to return.
Resolvable ==
  \E g \in Gens : ScanPasses(g) /\ (IsNewest(g, present) \/ \E f \in Gens : FallsBack(g, f))

Init ==
  /\ present = {1}
  /\ pred = [g \in Gens |-> None]
  /\ index = [g \in Gens |-> IF g = 1 THEN 1 ELSE 0]
  /\ cont = [g \in Gens |-> IF g = 1 THEN 1 ELSE None]
  /\ closure \in [Gens -> SUBSET Objects]
  /\ \A g \in Gens \ {1} : closure[g] = {}
  /\ stray = FALSE
  /\ objects = closure[1]
  /\ held = {} /\ warnings = {} /\ cleared = {}
  /\ selector = None
  /\ seen = {} /\ proven = {}
  /\ call = Idle
  /\ minted = 1
  /\ opened = {}
  /\ current = None
  /\ crashes = 0 /\ faults = 0 /\ losses = 0

-----------------------------------------------------------------------------
(* resolve(), alone or as the first and the last part of activate().       *)

Resolve ==
  /\ Ready
  /\ call' = [Idle EXCEPT !.at = "scan"]
  /\ UNCHANGED <<tree, objects, markers, selector, memory, results, bounds>>

Activate(source) ==
  /\ Ready
  /\ source \in opened
  /\ call' = [Idle EXCEPT !.at = "scan", !.op = "activate", !.source = source]
  /\ UNCHANGED <<tree, objects, markers, selector, memory, results, bounds>>

ScanThrows ==
  /\ call.at = "scan"
  /\ ~Resolvable
  /\ call' = Idle
  /\ UNCHANGED <<tree, objects, markers, selector, memory, results, bounds>>

ScanFinds(g) ==
  /\ call.at = "scan"
  /\ ScanPasses(g)
  /\ IsNewest(g, present)
  /\ call' = [call EXCEPT !.at = "select", !.target = g]
  /\ UNCHANGED <<tree, objects, markers, selector, memory, results, bounds>>

\* copyForFallback has copied the tree of g, with the envelope of g.
ScanCopies(g, f) ==
  /\ call.at = "scan"
  /\ ScanPasses(g)
  /\ FallsBack(g, f)
  /\ minted < MaxGens
  /\ call' = [call EXCEPT !.at = "copied", !.target = g, !.failed = f]
  /\ UNCHANGED <<tree, objects, markers, selector, memory, results, bounds>>

\* A generation of the given envelope gets its name and its directory.
Mint(source, order, continuity, refs) ==
  LET new == minted + 1
  IN  /\ minted' = new
      /\ present' = present \cup {new}
      /\ pred' = [pred EXCEPT ![new] = source]
      /\ index' = [index EXCEPT ![new] = order]
      /\ cont' = [cont EXCEPT ![new] = continuity]
      /\ closure' = [closure EXCEPT ![new] = refs]

\* Mutant: the copy keeps the envelope's continuity.
EnvelopeKeepsContinuity ==
  /\ call.at = "copied"
  /\ Mint(call.target, index[call.failed] + 1, cont[call.target], closure[call.target])
  /\ call' = [call EXCEPT !.at = "warn", !.target = minted + 1]
  /\ UNCHANGED <<stray, objects, markers, selector, memory, results, bounds>>

\* The copy's envelope is replaced: next index, fresh continuity.
WriteEnvelope ==
  /\ call.at = "copied"
  /\ Mint(call.target, index[call.failed] + 1, minted + 1, closure[call.target])
  /\ call' = [call EXCEPT !.at = "warn", !.target = minted + 1]
  /\ UNCHANGED <<stray, objects, markers, selector, memory, results, bounds>>

WriteWarning ==
  /\ call.at = "warn"
  /\ warnings' = warnings \cup {call.failed}
  /\ call' = [call EXCEPT !.at = "select"]
  /\ UNCHANGED <<tree, objects, held, cleared, selector, memory, results, bounds>>

\* The scan counts before the selector is replaced.
RecordScan ==
  /\ seen' = seen \cup ValidGens \cup {call.target}
  /\ proven' = seen

\* Mutant: activate does not compare its source with what is selected.
SelectAnySource ==
  /\ call.at = "select"
  /\ RecordScan
  /\ selector' = call.target
  /\ IF call.op = "activate"
     THEN call' = [call EXCEPT !.at = "publish"] /\ UNCHANGED results
     ELSE /\ call' = Idle
          /\ opened' = opened \cup {call.target}
          /\ current' = call.target
  /\ UNCHANGED <<tree, objects, markers, bounds>>

\* The selector is replaced and resolve returns; activate then goes on.
Select ==
  /\ call.at = "select"
  /\ RecordScan
  /\ selector' = call.target
  /\ IF call.op = "activate"
     THEN /\ call' = IF call.target = call.source
                     THEN [call EXCEPT !.at = "publish"] ELSE Idle
          /\ UNCHANGED results
     ELSE /\ call' = Idle
          /\ opened' = opened \cup {call.target}
          /\ current' = call.target
  /\ UNCHANGED <<tree, objects, markers, bounds>>

\* publishValidatedTree renames the validated stage, then resolve() must select it.
Publish(refs, rotate) ==
  /\ call.at = "publish"
  /\ minted < MaxGens
  /\ Mint(call.source, index[call.source] + 1,
          IF rotate THEN minted + 1 ELSE cont[call.source], refs)
  /\ call' = [Idle EXCEPT !.at = "scan", !.op = "confirm"]
  /\ UNCHANGED <<stray, objects, markers, selector, memory, results, bounds>>

-----------------------------------------------------------------------------
(* Retention.                                                              *)

Hold(g) ==
  /\ Ready
  /\ g \in present \cap Holdable
  /\ held' = IF g \in held THEN held \ {g} ELSE held \cup {g}
  /\ UNCHANGED <<tree, objects, warnings, cleared, selector, memory, call, results, bounds>>

ClearWarning(f) ==
  /\ Ready
  /\ f \in warnings
  /\ warnings' = warnings \ {f}
  /\ cleared' = cleared \cup {f}
  /\ UNCHANGED <<tree, objects, held, selector, memory, call, results, bounds>>

Predecessor(g) == {pred[g]} \ {None}

\* Mutant: only what is selected, marked or warned about is kept.
RetainedNoPredecessor == {selector} \cup warnings \cup held
Retained == {selector} \cup Predecessor(selector) \cup warnings \cup held

\* Any doubt about what is there refuses the whole cleanup.
CleanupAllowed ==
  /\ seen # {}
  /\ Unambiguous /\ ValidGens = present /\ Coherent(present)
  /\ selector # None
  /\ Retained \subseteq present

Disposable == (present \cap proven) \ Retained

\* Mutant: only the closures of retained generations pin their objects.
PinnedByRetained(gens) == UNION {closure[g] : g \in gens \cap Retained}
Pinned(gens) == UNION {closure[g] : g \in gens}

Cleanup ==
  /\ Ready
  /\ CleanupAllowed
  /\ present' = present \ Disposable
  /\ objects' = objects \cap Pinned(present \ Disposable)
  /\ UNCHANGED <<pred, index, cont, closure, stray, minted, markers, selector,
                 memory, call, results, bounds>>

\* A fault or the loss of the process in the middle of the deletions: some
\* directories are gone, one may be left without its envelope.
CutCleanup(gone, half) ==
  /\ Ready
  /\ CleanupAllowed
  /\ gone \subseteq Disposable
  /\ present' = present \ gone
  /\ stray' = half
  /\ half => gone # {}
  /\ \E kept \in SUBSET objects :
       /\ Pinned(present \ Disposable) \subseteq kept
       /\ gone # Disposable \/ half => kept = objects
       /\ objects' = kept
  /\ UNCHANGED <<pred, index, cont, closure, minted, markers, selector, call, results, losses>>

-----------------------------------------------------------------------------
(* Faults, crashes and damage.                                             *)

Fault == faults < MaxFaults /\ faults' = faults + 1 /\ UNCHANGED crashes
Crash == crashes < MaxCrashes /\ crashes' = crashes + 1 /\ UNCHANGED faults
Forget == seen' = {} /\ proven' = {}

CleanupFails(gone, half) == CutCleanup(gone, half) /\ Fault /\ UNCHANGED memory
CleanupDies(gone, half)  == CutCleanup(gone, half) /\ Crash /\ Forget

\* A call throws: publish's `finally' removes its stage, a copy is left behind.
CallThrows ==
  /\ ~Ready
  /\ Fault
  /\ call' = Idle
  /\ stray' = (stray \/ call.at = "copied")
  /\ IF call.at = "select" THEN RecordScan ELSE UNCHANGED memory
  /\ UNCHANGED <<present, pred, index, cont, closure, minted, objects, markers,
                 selector, results, losses>>

\* The process is lost and starts again: a stage directory is left behind too.
ProcessDies ==
  /\ Crash
  /\ Forget
  /\ call' = Idle
  /\ stray' \in {stray, stray \/ call.at \in {"copied", "publish"}}
  /\ call.at = "copied" => stray'
  /\ UNCHANGED <<present, pred, index, cont, closure, minted, objects, markers,
                 selector, results, losses>>

Damage ==
  /\ Ready
  /\ losses < MaxLosses
  /\ losses' = losses + 1
  /\ \/ \E o \in objects : objects' = objects \ {o} /\ UNCHANGED selector
     \/ selector # None /\ selector' = None /\ UNCHANGED objects
  /\ UNCHANGED <<tree, markers, memory, call, results, crashes, faults>>

\* An object is published, for a coming activation or as a repair.
StoreObject(o) ==
  /\ Ready
  /\ o \notin objects
  /\ objects' = objects \cup {o}
  /\ UNCHANGED <<tree, markers, selector, memory, call, results, bounds>>

-----------------------------------------------------------------------------
Next ==
  \/ Resolve \/ ScanThrows \/ WriteEnvelope \/ WriteWarning \/ Select
  \/ Cleanup \/ CallThrows \/ ProcessDies \/ Damage
  \/ \E g \in Gens :
       \/ Activate(g) \/ ScanFinds(g) \/ Hold(g) \/ ClearWarning(g)
       \/ \E f \in Gens : ScanCopies(g, f)
  \/ \E refs \in SUBSET Objects, rotate \in BOOLEAN : Publish(refs, rotate)
  \/ \E gone \in SUBSET Gens, half \in BOOLEAN :
       CleanupFails(gone, half) \/ CleanupDies(gone, half)
  \/ \E o \in Objects : StoreObject(o)

Spec == Init /\ [][Next]_vars

-----------------------------------------------------------------------------
(* Properties.                                                             *)

\* Every variable keeps its type.
TypeOK ==
  /\ present \subseteq Gens /\ held \subseteq Gens /\ warnings \subseteq Gens
  /\ cleared \subseteq Gens /\ opened \subseteq Gens
  /\ seen \subseteq Gens /\ proven \subseteq Gens
  /\ pred \in [Gens -> Gens \cup {None}]
  /\ index \in [Gens -> Nat]
  /\ cont \in [Gens -> Gens \cup {None}]
  /\ closure \in [Gens -> SUBSET Objects]
  /\ objects \subseteq Objects
  /\ stray \in BOOLEAN
  /\ selector \in Gens \cup {None} /\ current \in Gens \cup {None}
  /\ call \in Calls
  /\ minted \in Gens
  /\ crashes \in Nat /\ faults \in Nat /\ losses \in Nat

Ancestors[g \in Gens \cup {None}] ==
  IF g = None THEN {} ELSE {g} \cup Ancestors[pred[g]]

\* A Host that opens another generation than before either opens a descendant,
\* or shows its Clients a continuity no opened generation has had: no Client
\* resumes against an Authority that went back in time.
NoSilentRegression ==
  [][current' # current /\ current # None =>
       \/ current \in Ancestors'[current']
       \/ cont'[current'] \notin {cont[g] : g \in opened}]_vars

\* Whatever was opened, activated or cleaned before: as long as no predecessor was
\* deleted and no call was cut short, the loss of the newest generation alone
\* leaves a generation to start from.
NewestLossRecoverable ==
  /\ ~stray /\ Coherent(present)
  /\ \A g \in present : Valid(g) \/ IsNewest(g, present)
  /\ \E g \in present : Valid(g)
  => Resolvable

\* The predecessor of the generation the selector names, which a fallback or a
\* rollback needs, is never deleted.
PredecessorKept == selector # None => Predecessor(selector) \subseteq present

\* The evidence of a failed generation stays for as long as its warning does.
EvidenceKept == warnings \subseteq present

\* Only damage takes an object away from a generation that is kept.
ClosureKept ==
  [][losses' = losses => \A g \in present \cap present' : Valid(g) => Valid(g)']_vars

-----------------------------------------------------------------------------
(* What the repository says and the code does not keep.                    *)

\* authority-generations.ts:230, cleanup deletes only what is disposable: after
\* it, startup still finds a generation.
CleanupKeepsStartup == [][Resolvable /\ present' # present /\ present' \subseteq present
                            => Resolvable']_vars

\* SPEC.md:825, no silent rollback: a generation opened instead of a failed one
\* comes with a recovery warning that names it.
Replaced(g) == {f \in Gens : index[f] = index[g] - 1 /\ f # pred[g] /\ pred[g] # None}
NoSilentRollback == \A g \in opened : Replaced(g) # {} => Replaced(g) \cap (warnings \cup cleared) # {}
=============================================================================
