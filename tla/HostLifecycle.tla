--------------------------- MODULE HostLifecycle ---------------------------
(***************************************************************************)
(* The launcher: the supervisor that starts a release, the store that      *)
(* stages one, the planned operations that stop, restart or remove the     *)
(* Host, and the three activations of a new release.  One operation runs   *)
(* at a time; pc names the hook it is at.  Every hook may throw, also those *)
(* that the catch and finally clauses call.  A hook that throws has had no *)
(* effect, but for the removal of files.                                   *)
(***************************************************************************)
EXTENDS Naturals, FiniteSets

CONSTANTS Releases, First,   \* release identities, the one that was installed
          Attempts,          \* STARTUP_BACKOFF_MS.length + 1, 6 in the code
          MaxWork, MaxFaults, MaxOps

ASSUME LifecycleAssumption ==
  /\ First \in Releases /\ IsFiniteSet(Releases)
  /\ {Attempts, MaxWork, MaxFaults, MaxOps} \subseteq Nat /\ Attempts > 0

VARIABLES
  package,    \* release -> the downloaded bytes verify
  staging,    \* release -> how far its staging came
  copied,     \* release -> the staged bytes verify
  published,  \* the published releases
  attempt,    \* the supervisor's attempt, 0 when it does not run
  jobs,       \* the attempts whose supervision job is open
  host,       \* what the supervisor reported
  accepting,  \* the Host accepts mutations
  work,       \* accepted work that is not terminal
  data,       \* the release whose data generation is active
  running,    \* the release whose daemon runs
  pointer,    \* active-release
  op, pc, candidate,
  previous,   \* the pointer when the activation began
  undo,       \* the activation holds a rollback for the data
  fresh,      \* the candidate has accepted a mutation
  outcome,    \* how the last operation ended
  installed, durable,   \* binaries and durable data exist
  nested,     \* what the durable data lies inside of
  faults, ops

staged == <<package, staging, copied, published>>
process == <<host, jobs>>
startup == <<attempt, process>>
authority == <<accepting, work, data, running, pointer>>
activation == <<candidate, previous, undo, fresh>>
disk == <<installed, durable, nested>>
vars == <<staged, startup, authority, op, pc, activation, outcome, disk, faults, ops>>

Planned == {"stop", "restart", "uninstall", "purge"}
Shutdown == "windows-shutdown"
Updates == {"signed", "source", "runnable"}
Steps == {"idle", "reject", "force", "drain", "flush", "restart", "remove", "rm",
          "caches", "purge", "data", "start", "pointer", "caught", "undo", "repoint", "prior",
          "resume", "again", "budget"}
Outcomes == {"none", "done", "selected", "failed", "unrejected", "managed-restore-required",
             "undo-failed", "unasked", "uncertain", "unresumed"}
\* After these the next operation may begin.
Repeatable == {"none", "done", "selected", "failed", "unrejected"}
\* The operation gave up over data and a pointer that may differ.
GivenUp == {"managed-restore-required", "undo-failed", "unasked"}

\* What a BOOLEAN can say, and the rest.
FlagsOK ==
  /\ package \in [Releases -> BOOLEAN] /\ copied \in [Releases -> BOOLEAN]
  /\ accepting \in BOOLEAN /\ undo \in BOOLEAN /\ fresh \in BOOLEAN
  /\ installed \in BOOLEAN /\ durable \in BOOLEAN

PlacesOK ==
  /\ staging \in [Releases -> {"none", "validated", "copied", "checked"}]
  /\ published \subseteq Releases
  /\ attempt \in 0..Attempts /\ jobs \subseteq 1..Attempts
  /\ host \in {"down", "starting", "ready", "circuit-open"}
  /\ work \in 0..MaxWork /\ faults \in 0..MaxFaults /\ ops \in 0..MaxOps
  /\ {data, running, pointer, candidate, previous} \subseteq Releases

StepsOK ==
  /\ op \in {"none", Shutdown} \union Planned \union Updates /\ pc \in Steps
  /\ outcome \in Outcomes
  /\ nested \in {"none", "install", "cache"}

TypeOK == FlagsOK /\ PlacesOK /\ StepsOK

Init ==
  /\ package \in [Releases -> BOOLEAN] /\ copied = [r \in Releases |-> FALSE]
  /\ staging = [r \in Releases |-> "none"] /\ published = {First}
  /\ attempt = 0 /\ jobs = {} /\ host = "down"
  /\ accepting = FALSE /\ work = 0 /\ data = First /\ running = First /\ pointer = First
  /\ op = "none" /\ pc = "idle" /\ candidate = First /\ previous = First
  /\ undo = FALSE /\ fresh = FALSE /\ outcome = "none"
  /\ installed = TRUE /\ durable = TRUE /\ nested \in {"none", "install", "cache"}
  /\ faults = 0 /\ ops = 0

Fault == faults < MaxFaults /\ faults' = faults + 1

-----------------------------------------------------------------------------
(* SignedReleaseStore.stage: the download may change while it is copied. *)

Staging(r, from, to) == staging[r] = from /\ staging' = [staging EXCEPT ![r] = to]
OutsideStaging == UNCHANGED <<startup, authority, op, pc, activation, outcome, disk, faults, ops>>

PackageChanges(r) ==
  /\ r \notin published /\ package' = [package EXCEPT ![r] = ~package[r]]
  /\ UNCHANGED <<staging, copied, published>> /\ OutsideStaging

Validate(r) ==
  /\ r \notin published /\ package[r] /\ Staging(r, "none", "validated")
  /\ UNCHANGED <<package, copied, published>> /\ OutsideStaging

CopyPackage(r) ==
  /\ Staging(r, "validated", "copied") /\ copied' = [copied EXCEPT ![r] = package[r]]
  /\ UNCHANGED <<package, published>> /\ OutsideStaging

\* The copied bytes are taken as they are.
RecheckNothing(r) == Staging(r, "copied", "checked")

Recheck(r) == Staging(r, "copied", IF copied[r] THEN "checked" ELSE "none")

RecheckCopy(r) ==
  /\ Recheck(r) /\ UNCHANGED <<package, copied, published>> /\ OutsideStaging

Publish(r) ==
  /\ Staging(r, "checked", "none") /\ published' = published \union {r}
  /\ UNCHANGED <<package, copied>> /\ OutsideStaging

StageRelease(r) ==
  PackageChanges(r) \/ Validate(r) \/ CopyPackage(r) \/ RecheckCopy(r) \/ Publish(r)

-----------------------------------------------------------------------------
(* superviseStartup and retryStartup. *)

OutsideStartup == UNCHANGED <<staged, data, pointer, op, pc, activation, outcome, disk, ops>>

Supervise ==
  /\ host \in {"down", "circuit-open"} /\ installed /\ op = "none" /\ attempt = 0
  /\ attempt' = 1 /\ host' = "starting"
  /\ UNCHANGED <<jobs, accepting, work, running, faults>> /\ OutsideStartup

CreateJob ==
  /\ host = "starting" /\ attempt \notin jobs
  /\ jobs' = jobs \union {attempt}
  /\ UNCHANGED <<attempt, host, accepting, work, running, faults>> /\ OutsideStartup

\* assignDaemon, startRelease and reportStatus succeed.
Ready ==
  /\ host = "starting" /\ attempt \in jobs
  /\ host' = "ready" /\ attempt' = 0 /\ running' = pointer /\ accepting' = TRUE
  /\ UNCHANGED <<jobs, work, faults>> /\ OutsideStartup

\* Only the last failure closes its job.
JobsLeftOpen == IF attempt = Attempts THEN jobs \ {attempt} ELSE jobs

JobsAfterFailure == jobs \ {attempt}

MoreAttempts == attempt < Attempts

\* Any of the attempt's operations throws; the next attempt waits its backoff.
AttemptFails ==
  /\ host = "starting" /\ Fault
  /\ jobs' = JobsAfterFailure
  /\ IF MoreAttempts THEN attempt' = attempt + 1 /\ host' = host
                     ELSE attempt' = 0 /\ host' = "circuit-open"
  /\ UNCHANGED <<accepting, work, running>> /\ OutsideStartup

-----------------------------------------------------------------------------
(* The accepted work. *)

OutsideWork == UNCHANGED <<staged, startup, accepting, data, running, pointer, op, pc, candidate,
                           previous, undo, outcome, disk, faults, ops>>

\* While an activation is not over the candidate's daemon accepts for itself.
CandidateAccepts == op \in {"signed", "source"} /\ pc # "reject" /\ running = candidate /\ data = candidate

Accept ==
  /\ host = "ready" /\ (accepting \/ CandidateAccepts) /\ work < MaxWork
  /\ work' = work + 1 /\ fresh' = (fresh \/ CandidateAccepts)
  /\ OutsideWork

Settle ==
  /\ host = "ready" /\ work > 0 /\ work' = work - 1 /\ UNCHANGED fresh /\ OutsideWork

-----------------------------------------------------------------------------
(* The authority boundary all operations share. *)

OutsideOp == UNCHANGED <<staged, attempt, nested, ops>>
Go(next) == pc' = next /\ UNCHANGED <<op, candidate, previous>>
End(how) == pc' = "idle" /\ op' = "none" /\ outcome' = how /\ fresh' = FALSE /\ undo' = FALSE
            /\ UNCHANGED <<candidate, previous>>
\* The launcher's handle closes the job, and with it the daemon.
Down == host' = "down" /\ jobs' = {}
KeepAuthority == UNCHANGED <<accepting, work, data, running, pointer>>
KeepRest == UNCHANGED <<undo, fresh, outcome, process, installed, durable>>

\* The guards before the first hook: confirmations, identity, compatibility.
BeginOperation(kind, r) ==
  /\ host = "ready" /\ op = "none" /\ installed /\ outcome \in Repeatable
  /\ ops < MaxOps /\ ops' = ops + 1
  /\ IF kind \in Updates THEN r \in published /\ r # pointer ELSE r = pointer
  /\ op' = kind /\ pc' = "reject" /\ candidate' = r /\ previous' = pointer
  /\ undo' = FALSE /\ fresh' = FALSE /\ outcome' = "none"
  /\ UNCHANGED <<staged, startup, authority, disk, faults>>

RejectMutations ==
  /\ pc = "reject" /\ accepting' = FALSE
  /\ \E next \in IF op = Shutdown THEN {"budget"}
                  ELSE IF op \in Planned \union {"signed"} THEN {"force", "drain"} ELSE {"drain"} : Go(next)
  /\ UNCHANGED <<work, data, running, pointer, faults>> /\ KeepRest /\ OutsideOp

\* The runnable activation rejects inside its try; the others have not entered
\* theirs, and the Host goes on as it was.
RejectFails ==
  /\ pc = "reject" /\ Fault
  /\ IF op = "runnable"
       THEN Go("caught") /\ KeepRest
       ELSE End("unrejected") /\ UNCHANGED <<process, installed, durable>>
  /\ KeepAuthority /\ OutsideOp

\* The Sessions' Stop ends some of the work now, the rest in the drain.
ForceStop ==
  /\ pc = "force" /\ Go("drain")
  /\ \E left \in 0..work : work' = left
  /\ UNCHANGED <<accepting, data, running, pointer, faults>> /\ KeepRest /\ OutsideOp

Drained == pc = "drain" /\ work = 0

AfterDrain ==
  CASE op \in Planned \union {"signed"} -> "flush"
    [] OTHER -> "data"

DrainEnds ==
  /\ Drained /\ Go(AfterDrain)
  /\ UNCHANGED faults /\ KeepAuthority /\ KeepRest /\ OutsideOp

\* The deadline passes; reachQuiescence of the runnable activation throws.
DrainTimeout ==
  /\ pc = "drain" /\ work > 0 /\ Go("caught")
  /\ UNCHANGED faults /\ KeepAuthority /\ KeepRest /\ OutsideOp

AfterFlush ==
  CASE op = "restart" -> "restart" [] op \in {"uninstall", "purge"} -> "remove"
    [] op = "stop" -> "idle" [] OTHER -> "data"

\* flushAndStopWorkers; a stop ends here, and the launcher ends the daemon.
FlushWorkers ==
  /\ pc = "flush" /\ UNCHANGED faults /\ KeepAuthority /\ OutsideOp
  /\ IF op = "stop"
       THEN End("done") /\ Down /\ UNCHANGED <<installed, durable>>
       ELSE Go(AfterFlush) /\ KeepRest

\* coordinateWindowsShutdown: the flush returned, failed, or its budget passed;
\* the job is closed over whatever work remains.
CloseSupervisionJob ==
  /\ pc = "budget" /\ End("done") /\ Down
  /\ UNCHANGED <<installed, durable, faults>> /\ KeepAuthority /\ OutsideOp

\* Nothing comes after the job that does not close.
CloseFails ==
  /\ pc = "budget" /\ Fault /\ End("failed")
  /\ UNCHANGED <<process, installed, durable>> /\ KeepAuthority /\ OutsideOp

-----------------------------------------------------------------------------
(* Restart and removal. *)

\* The finally clause resumes a Host that is down, whether it throws or not: it
\* accepts when it is ready.
Restart ==
  /\ pc = "restart" /\ End("done") /\ Down
  /\ UNCHANGED <<accepting, work, data, running, pointer, installed, durable, faults>> /\ OutsideOp

\* Startup registration, firewall rules and trust are hooks before the paths.
RemoveRegistrations ==
  /\ pc = "remove" /\ Go("rm")
  /\ UNCHANGED faults /\ KeepAuthority /\ KeepRest /\ OutsideOp

\* The paths go one by one, each after it was found not to hold the durable data.
Refused == nested = IF pc = "rm" THEN "install" ELSE "cache"

RemovePaths ==
  /\ pc \in {"rm", "caches"} /\ UNCHANGED <<durable, faults>> /\ KeepAuthority /\ OutsideOp
  /\ IF Refused
       THEN Go("caught") /\ KeepRest
       ELSE /\ installed' = FALSE
            /\ IF pc = "caches" /\ op = "uninstall"
                 THEN End("done") /\ Down
                 ELSE /\ Go(IF pc = "rm" THEN "caches" ELSE "purge")
                      /\ UNCHANGED <<undo, fresh, outcome, process>>

RemoveDurable ==
  /\ pc = "purge" /\ durable' = FALSE /\ End("done") /\ Down
  /\ UNCHANGED <<installed, faults>> /\ KeepAuthority /\ OutsideOp

-----------------------------------------------------------------------------
(* The activations of a release. *)

\* activateData, prepareMigration, activateAuthority.
ActivateData ==
  /\ pc = "data" /\ data' = candidate /\ undo' = TRUE /\ Go("start")
  /\ UNCHANGED <<accepting, work, running, pointer, fresh, outcome, process, installed, durable, faults>>
  /\ OutsideOp

\* startMatchingRelease, startRelease; activateRelease also selects.
StartRelease ==
  /\ pc = "start" /\ running' = candidate /\ Go("pointer")
  /\ UNCHANGED <<accepting, work, data, pointer, faults>> /\ KeepRest /\ OutsideOp

\* The release that was started is not the one that was asked for, or does not
\* become ready in time.
StartMismatch ==
  /\ pc = "start" /\ Fault /\ Go("caught")
  /\ \E r \in {running, candidate} : running' = r
  /\ UNCHANGED <<accepting, work, data, pointer>> /\ KeepRest /\ OutsideOp

\* The pointer is the final commit.  The runnable activation leaves it to the new
\* release to accept.
WritePointer ==
  /\ pc = "pointer" /\ pointer' = candidate
  /\ IF op = "runnable"
       THEN End("selected") /\ UNCHANGED <<process, installed, durable>>
       ELSE outcome' = "done" /\ Go("resume") /\ UNCHANGED <<undo, fresh, process, installed, durable>>
  /\ UNCHANGED <<accepting, work, data, running, faults>> /\ OutsideOp

\* Once the selector's replacement has started nobody guesses its outcome.
SelectorUncertain ==
  /\ pc = "pointer" /\ op = "runnable" /\ Fault
  /\ \E r \in {pointer, candidate} : pointer' = r
  /\ End("uncertain")
  /\ UNCHANGED <<accepting, work, data, running, process, installed, durable>> /\ OutsideOp

\* Any hook of the body throws; what it was removing may be gone in part.
HookFails ==
  /\ Fault /\ Go("caught")
  /\ \/ pc \in {"force", "drain", "flush", "restart", "remove", "rm", "caches", "purge", "data"}
     \/ pc = "pointer" /\ op # "runnable"
  /\ installed' \in IF pc = "rm" THEN {installed, FALSE} ELSE {installed}
  /\ durable' \in IF pc = "purge" THEN {durable, FALSE} ELSE {durable}
  /\ UNCHANGED <<undo, fresh, outcome, process>> /\ KeepAuthority /\ OutsideOp

-----------------------------------------------------------------------------
(* The catch and finally clauses. *)

\* The catch clauses only rethrow.
CatchRethrows == "idle"

CatchOf ==
  CASE op \in Planned -> "resume"
    [] op = "runnable" -> IF undo THEN "undo" ELSE "prior"
    [] fresh -> "resume"
    [] OTHER -> IF undo THEN "undo" ELSE "repoint"

Caught ==
  /\ pc = "caught" /\ Go(CatchOf)
  /\ outcome' = IF op \in {"signed", "source"} /\ fresh THEN "managed-restore-required" ELSE "failed"
  /\ UNCHANGED <<undo, fresh, process, installed, durable, faults>> /\ KeepAuthority /\ OutsideOp

\* hasAcceptedNewMutations throws: the catch clause ends before its rollback, and
\* only the finally clause is left.
AskFails ==
  /\ pc = "caught" /\ op \in {"signed", "source"} /\ Fault
  /\ outcome' = "unasked" /\ Go("resume")
  /\ UNCHANGED <<undo, fresh, process, installed, durable>> /\ KeepAuthority /\ OutsideOp

\* The prior data is left as the candidate made it.
DataKept == data

DataBefore == previous

RollbackData ==
  /\ pc = "undo" /\ data' = DataBefore
  /\ Go(IF op = "runnable" THEN "prior" ELSE "repoint")
  /\ UNCHANGED <<accepting, work, running, pointer, faults>> /\ KeepRest /\ OutsideOp

\* The rollback throws: the finally clause resumes, the runnable activation
\* has none.
RollbackFails ==
  /\ pc = "undo" /\ Fault
  /\ IF op = "runnable"
       THEN End("unresumed") /\ UNCHANGED <<process, installed, durable>>
       ELSE outcome' = "undo-failed" /\ Go("resume") /\ UNCHANGED <<undo, fresh, process, installed, durable>>
  /\ KeepAuthority /\ OutsideOp

RestorePointer ==
  /\ pc = "repoint" /\ Go("resume")
  /\ \/ pointer' = (IF op = "signed" THEN previous ELSE pointer) /\ UNCHANGED faults
     \/ op = "signed" /\ Fault /\ UNCHANGED pointer
  /\ UNCHANGED <<accepting, work, data, running>> /\ KeepRest /\ OutsideOp

ResumePrior ==
  /\ pc = "prior" /\ running' = previous /\ Go("resume")
  /\ UNCHANGED <<accepting, work, data, pointer, faults>> /\ KeepRest /\ OutsideOp

\* The prior release does not come back, and nothing restores the acceptance.
ResumePriorFails ==
  /\ pc = "prior" /\ Fault /\ End("unresumed")
  /\ UNCHANGED <<process, installed, durable>> /\ KeepAuthority /\ OutsideOp

Resume ==
  /\ pc \in {"resume", "again"} /\ accepting' = TRUE /\ End(outcome)
  /\ UNCHANGED <<work, data, running, pointer, process, installed, durable, faults>> /\ OutsideOp

\* A planned operation's catch clause resumes, and its finally clause once more
\* when that threw; the others resume once.
ResumeFails ==
  /\ pc \in {"resume", "again"} /\ Fault
  /\ IF pc = "resume" /\ op \in Planned
       THEN Go("again") /\ KeepRest
       ELSE End("unresumed") /\ UNCHANGED <<process, installed, durable>>
  /\ KeepAuthority /\ OutsideOp

Operate ==
  \/ RejectMutations \/ RejectFails \/ ForceStop \/ DrainEnds \/ DrainTimeout \/ FlushWorkers
  \/ CloseSupervisionJob \/ CloseFails \/ Restart \/ RemoveRegistrations \/ RemovePaths \/ RemoveDurable
  \/ ActivateData \/ StartRelease \/ StartMismatch \/ WritePointer \/ SelectorUncertain
  \/ HookFails \/ Caught \/ AskFails \/ RollbackData \/ RollbackFails \/ RestorePointer
  \/ ResumePrior \/ ResumePriorFails \/ Resume \/ ResumeFails

Next ==
  \/ \E r \in Releases : StageRelease(r)
  \/ Supervise \/ CreateJob \/ Ready \/ AttemptFails \/ Accept \/ Settle
  \/ \E kind \in {Shutdown} \union Planned \union Updates : \E r \in Releases : BeginOperation(kind, r)
  \/ Operate

\* The launcher runs on: its hooks return or throw and its deadlines pass.
Spec == Init /\ [][Next]_vars /\ WF_vars(Operate)

-----------------------------------------------------------------------------
\* What is published verifies, however the download changed while it was
\* copied (SignedReleaseStore.stage).
PublishedIsVerified == \A r \in published \ {First} : copied[r]

\* While the data generation or the pointer moves, forward or back, the Host
\* rejects mutations, and a new data generation is activated over drained work
\* (SPEC 14.3).
QuietActivation ==
  [][/\ data' # data \/ pointer' # pointer => ~accepting
     /\ data' # data /\ pc = "data" => work = 0]_vars

\* When the Host accepts mutations again the pointer and the data generation
\* name the same release.  Three outcomes are excused: the candidate had accepted
\* a mutation of its own, the rollback threw, or the question before the rollback
\* threw and none was made (the commit and the catch clauses of the activations).
SelectedTogether == accepting /\ op = "none" /\ outcome \notin GivenUp => pointer = data

\* Only a purge removes durable data, and never when an installation path holds
\* it (removeInstallation).
DurableKept == [][~durable' /\ durable => op = "purge" /\ nested = "none"]_vars

\* The supervisor has at most one supervision job open, and none once the
\* circuit is (superviseStartup).
OneSupervisionJob == Cardinality(jobs) <= 1 /\ (host = "circuit-open" => jobs = {})

\* An operation that rejected mutations ends with the Host down or accepting
\* them, unless it never got to reject, could not tell which release is
\* selected, left the new release to accept, or a hook that resumes threw (the
\* catch and finally clauses).
AcceptanceReturns ==
  op \in Updates \union Planned
    ~> \/ accepting \/ host # "ready"
       \/ op = "none" /\ outcome \in {"unrejected", "uncertain", "selected", "unresumed"}

\* SPEC.md:695 "Before the new release accepts mutations, failed activation
\* rolls back release pointer and data generation", of an activation whose
\* rollback did not throw.
FailureRollsBack ==
  [][op # "none" /\ op' = "none" /\ accepting' /\ ~fresh /\ outcome' # "undo-failed"
       => pointer' = data']_vars

\* SPEC.md:695 "Before the new release accepts mutations, failed activation
\* rolls back release pointer and data generation. After acceptance, rollback
\* requires supported reverse migration or managed restore."
NoRollbackAfterAcceptance == [][data' # data /\ data = candidate /\ op # "none" => ~fresh]_vars

=============================================================================
