----------------------------- MODULE HostProofs -----------------------------
(***************************************************************************)
(* Theorems about HostLifecycle, for every set of releases and every bound *)
(* in LifecycleAssumption, and about Synchronization, for every number of  *)
(* Sessions and every bound in SynchronizationAssumption.  Each safety     *)
(* property of HostLifecycle rests on an inductive invariant of its own;   *)
(* OperationInv is the one they share.  Synchronization has one, SyncInv.  *)
(***************************************************************************)
EXTENDS HostLifecycle, Synchronization, FiniteSetTheorems, WellFoundedInduction, TLAPS

\* The steps an operation goes through before it touches the data.
Before == {"reject", "force", "drain", "flush", "data"}
PlannedSteps == {"reject", "force", "drain", "flush", "restart", "remove", "rm", "caches",
  "purge", "caught", "resume", "again"}
UpdateSteps == Before \union {"start", "pointer", "caught", "undo", "repoint", "prior", "resume"}

\* Which steps an operation may be at.
OperationInv ==
  /\ op = "none" <=> pc = "idle"
  /\ op \in Planned => pc \in PlannedSteps
  /\ op = Shutdown => pc \in {"reject", "budget"}
  /\ op \in Updates => pc \in UpdateSteps
  /\ fresh => op \in {"signed", "source"}

\* The supervisor's attempt, its one job, and that nothing else runs beside it.
StartupInv ==
  /\ host = "starting" <=> attempt # 0
  /\ op # "none" => host = "ready"
  /\ host = "starting" => jobs \subseteq {attempt}
  /\ host \in {"down", "circuit-open"} => jobs = {}
  /\ host = "ready" => \E a \in 1..Attempts : jobs \subseteq {a}

-----------------------------------------------------------------------------
(* Types. *)

LEMMA TypeInit == Init => TypeOK
<1> USE LifecycleAssumption DEF LifecycleAssumption, Init
<1>1. Init => FlagsOK
  BY DEF FlagsOK
<1>2. Init => PlacesOK
  BY DEF PlacesOK
<1>3. Init => StepsOK
  BY DEF StepsOK, Steps, Outcomes
<1>. QED BY <1>1, <1>2, <1>3 DEF TypeOK

LEMMA FlagsStep == TypeOK /\ [Next]_vars => FlagsOK'
<1> USE LifecycleAssumption DEF LifecycleAssumption
<1> SUFFICES ASSUME TypeOK, [Next]_vars PROVE FlagsOK'
  OBVIOUS
<1> USE DEF TypeOK, FlagsOK, Steps, Fault, Go, End, Down, KeepAuthority, KeepRest, OutsideOp,
            staged, process, startup, authority, activation, disk, vars
<1>1. ASSUME NEW r \in Releases, StageRelease(r) PROVE FlagsOK'
  <2>1. CASE PackageChanges(r)
    BY <2>1 DEF PackageChanges, OutsideStaging
  <2>2. CASE Validate(r)
    BY <2>2 DEF Validate, Staging, OutsideStaging
  <2>3. CASE CopyPackage(r)
    BY <2>3 DEF CopyPackage, Staging, OutsideStaging
  <2>4. CASE RecheckCopy(r)
    BY <2>4 DEF RecheckCopy, Recheck, Staging, OutsideStaging
  <2>5. CASE Publish(r)
    BY <2>5 DEF Publish, Staging, OutsideStaging
  <2>. QED BY <1>1, <2>1, <2>2, <2>3, <2>4, <2>5 DEF StageRelease
<1>2. CASE Supervise
  BY <1>2 DEF Supervise, OutsideStartup
<1>3. CASE CreateJob
  BY <1>3 DEF CreateJob, OutsideStartup, StartupInv
<1>4. CASE Ready
  BY <1>4 DEF Ready, OutsideStartup
<1>5. CASE AttemptFails
  BY <1>5 DEF AttemptFails, JobsAfterFailure, MoreAttempts, OutsideStartup
<1>6. CASE Accept
  BY <1>6 DEF Accept, CandidateAccepts, OutsideWork
<1>7. CASE Settle
  BY <1>7 DEF Settle, OutsideWork
<1>8. ASSUME NEW kind \in {Shutdown} \union Planned \union Updates, NEW r \in Releases,
             BeginOperation(kind, r)
      PROVE FlagsOK'
  BY <1>8 DEF BeginOperation
<1>9. CASE Operate
  <2>1. CASE RejectMutations \/ RejectFails
    BY <2>1 DEF RejectMutations, RejectFails
  <2>2. CASE ForceStop
    BY <2>2 DEF ForceStop
  <2>3. CASE DrainEnds
    BY <2>3 DEF DrainEnds, Drained, AfterDrain
  <2>4. CASE DrainTimeout
    BY <2>4 DEF DrainTimeout
  <2>5. CASE FlushWorkers \/ CloseFails
    BY <2>5 DEF FlushWorkers, AfterFlush, CloseFails
  <2>6. CASE CloseSupervisionJob \/ Restart \/ RemoveRegistrations \/ RemovePaths \/ RemoveDurable
    BY <2>6 DEF CloseSupervisionJob, Restart, RemoveRegistrations, RemovePaths, RemoveDurable
  <2>7. CASE ActivateData \/ StartRelease \/ StartMismatch
    BY <2>7 DEF ActivateData, StartRelease, StartMismatch
  <2>8. CASE WritePointer
    BY <2>8 DEF WritePointer
  <2>12. CASE SelectorUncertain
    BY <2>12 DEF SelectorUncertain
  <2>13. CASE HookFails
    BY <2>13 DEF HookFails
  <2>9. CASE Caught \/ AskFails
    BY <2>9 DEF Caught, CatchOf, AskFails
  <2>10. CASE RollbackData \/ RestorePointer
    BY <2>10 DEF RollbackData, DataBefore, RestorePointer
  <2>14. CASE RollbackFails
    BY <2>14 DEF RollbackFails
  <2>11. CASE ResumePrior \/ ResumePriorFails \/ Resume \/ ResumeFails
    BY <2>11 DEF ResumePrior, ResumePriorFails, Resume, ResumeFails
  <2>. QED BY <1>9, <2>1, <2>2, <2>3, <2>4, <2>5, <2>6, <2>7, <2>8, <2>9,
            <2>10, <2>11, <2>12, <2>13, <2>14 DEF Operate
<1>10. CASE UNCHANGED vars
  BY <1>10
<1>. QED BY <1>1, <1>2, <1>3, <1>4, <1>5, <1>6, <1>7, <1>8, <1>9, <1>10 DEF Next

LEMMA PlacesStep == TypeOK /\ StartupInv /\ [Next]_vars => PlacesOK'
<1> USE LifecycleAssumption DEF LifecycleAssumption
<1> SUFFICES ASSUME TypeOK, StartupInv, [Next]_vars PROVE PlacesOK'
  OBVIOUS
<1> USE DEF TypeOK, PlacesOK, Go, End, Down, KeepAuthority, KeepRest, OutsideOp,
            staged, process, startup, authority, activation, disk, vars
<1>f. Fault => faults' \in 0..MaxFaults
  BY DEF Fault
<1>1. ASSUME NEW r \in Releases, StageRelease(r) PROVE PlacesOK'
  <2>1. CASE PackageChanges(r)
    BY <2>1 DEF PackageChanges, OutsideStaging
  <2>2. CASE Validate(r)
    BY <2>2 DEF Validate, Staging, OutsideStaging
  <2>3. CASE CopyPackage(r)
    BY <2>3 DEF CopyPackage, Staging, OutsideStaging
  <2>4. CASE RecheckCopy(r)
    BY <2>4 DEF RecheckCopy, Recheck, Staging, OutsideStaging
  <2>5. CASE Publish(r)
    BY <2>5 DEF Publish, Staging, OutsideStaging
  <2>. QED BY <1>1, <2>1, <2>2, <2>3, <2>4, <2>5 DEF StageRelease
<1>2. CASE Supervise
  BY <1>2 DEF Supervise, OutsideStartup
<1>3. CASE CreateJob
  BY <1>3 DEF CreateJob, OutsideStartup, StartupInv
<1>4. CASE Ready
  BY <1>4 DEF Ready, OutsideStartup
<1>5. CASE AttemptFails
  BY <1>f, <1>5 DEF AttemptFails, JobsAfterFailure, MoreAttempts, OutsideStartup
<1>6. CASE Accept
  BY <1>6 DEF Accept, CandidateAccepts, OutsideWork
<1>7. CASE Settle
  BY <1>7 DEF Settle, OutsideWork
<1>8. ASSUME NEW kind \in {Shutdown} \union Planned \union Updates, NEW r \in Releases,
             BeginOperation(kind, r)
      PROVE PlacesOK'
  BY <1>8 DEF BeginOperation
<1>9. CASE Operate
  <2>1. CASE RejectMutations
    BY <2>1 DEF RejectMutations
  <2>15. CASE RejectFails
    <3>1. CASE op = "runnable"
      BY <1>f, <2>15, <3>1 DEF RejectFails
    <3>2. CASE op # "runnable"
      BY <1>f, <2>15, <3>2 DEF RejectFails
    <3>. QED BY <3>1, <3>2
  <2>2. CASE ForceStop
    BY <2>2 DEF ForceStop
  <2>3. CASE DrainEnds
    BY <2>3 DEF DrainEnds, Drained, AfterDrain
  <2>4. CASE DrainTimeout
    BY <2>4 DEF DrainTimeout
  <2>5. CASE FlushWorkers \/ CloseFails
    BY <1>f, <2>5 DEF FlushWorkers, AfterFlush, CloseFails
  <2>6. CASE CloseSupervisionJob \/ Restart \/ RemoveRegistrations \/ RemoveDurable
    BY <2>6 DEF CloseSupervisionJob, Restart, RemoveRegistrations, RemoveDurable
  <2>16. CASE RemovePaths
    <3>1. CASE Refused
      BY <2>16, <3>1 DEF RemovePaths
    <3>2. CASE ~Refused /\ pc = "caches" /\ op = "uninstall"
      BY <2>16, <3>2 DEF RemovePaths
    <3>3. CASE ~Refused /\ ~(pc = "caches" /\ op = "uninstall")
      BY <2>16, <3>3 DEF RemovePaths
    <3>. QED BY <3>1, <3>2, <3>3
  <2>7. CASE ActivateData \/ StartRelease \/ StartMismatch
    BY <1>f, <2>7 DEF ActivateData, StartRelease, StartMismatch
  <2>8. CASE WritePointer
    BY <2>8 DEF WritePointer
  <2>12. CASE SelectorUncertain
    BY <1>f, <2>12 DEF SelectorUncertain
  <2>13. CASE HookFails
    BY <1>f, <2>13 DEF HookFails
  <2>9. CASE Caught \/ AskFails
    BY <1>f, <2>9 DEF Caught, CatchOf, AskFails
  <2>10. CASE RollbackData
    BY <2>10 DEF RollbackData, DataBefore
  <2>17. CASE RestorePointer
    BY <1>f, <2>17 DEF RestorePointer
  <2>14. CASE RollbackFails
    BY <1>f, <2>14 DEF RollbackFails
  <2>11. CASE ResumePrior \/ ResumePriorFails \/ Resume
    BY <1>f, <2>11 DEF ResumePrior, ResumePriorFails, Resume
  <2>18. CASE ResumeFails
    <3>1. CASE pc = "resume" /\ op \in Planned
      BY <1>f, <2>18, <3>1 DEF ResumeFails
    <3>2. CASE ~(pc = "resume" /\ op \in Planned)
      BY <1>f, <2>18, <3>2 DEF ResumeFails
    <3>. QED BY <3>1, <3>2
  <2>. QED BY <1>9, <2>1, <2>2, <2>3, <2>4, <2>5, <2>6, <2>7, <2>8, <2>9,
            <2>10, <2>11, <2>12, <2>13, <2>14, <2>15, <2>16, <2>17, <2>18 DEF Operate
<1>10. CASE UNCHANGED vars
  BY <1>10
<1>. QED BY <1>1, <1>2, <1>3, <1>4, <1>5, <1>6, <1>7, <1>8, <1>9, <1>10 DEF Next

LEMMA StepsStep == TypeOK /\ [Next]_vars => StepsOK'
<1> SUFFICES ASSUME TypeOK, [Next]_vars PROVE StepsOK'
  OBVIOUS
<1> USE DEF TypeOK, StepsOK, Steps, Outcomes, Go, End, Down, KeepAuthority, KeepRest, OutsideOp,
            staged, process, startup, authority, activation, disk, vars
<1>1. ASSUME NEW r \in Releases, StageRelease(r) PROVE StepsOK'
  <2>1. CASE PackageChanges(r)
    BY <2>1 DEF PackageChanges, OutsideStaging
  <2>2. CASE Validate(r)
    BY <2>2 DEF Validate, Staging, OutsideStaging
  <2>3. CASE CopyPackage(r)
    BY <2>3 DEF CopyPackage, Staging, OutsideStaging
  <2>4. CASE RecheckCopy(r)
    BY <2>4 DEF RecheckCopy, Recheck, Staging, OutsideStaging
  <2>5. CASE Publish(r)
    BY <2>5 DEF Publish, Staging, OutsideStaging
  <2>. QED BY <1>1, <2>1, <2>2, <2>3, <2>4, <2>5 DEF StageRelease
<1>2. CASE Supervise
  BY <1>2 DEF Supervise, OutsideStartup
<1>3. CASE CreateJob
  BY <1>3 DEF CreateJob, OutsideStartup
<1>4. CASE Ready
  BY <1>4 DEF Ready, OutsideStartup
<1>5. CASE AttemptFails
  BY <1>5 DEF AttemptFails, JobsAfterFailure, MoreAttempts, OutsideStartup
<1>6. CASE Accept
  BY <1>6 DEF Accept, CandidateAccepts, OutsideWork
<1>7. CASE Settle
  BY <1>7 DEF Settle, OutsideWork
<1>8. ASSUME NEW kind \in {Shutdown} \union Planned \union Updates, NEW r \in Releases,
             BeginOperation(kind, r)
      PROVE StepsOK'
  BY <1>8 DEF BeginOperation
<1>9. CASE Operate
  <2>1. CASE RejectMutations
    BY <2>1 DEF RejectMutations
  <2>15. CASE RejectFails
    <3>1. CASE op = "runnable"
      BY <2>15, <3>1 DEF RejectFails
    <3>2. CASE op # "runnable"
      BY <2>15, <3>2 DEF RejectFails
    <3>. QED BY <3>1, <3>2
  <2>2. CASE ForceStop
    BY <2>2 DEF ForceStop
  <2>3. CASE DrainEnds
    BY <2>3 DEF DrainEnds, Drained, AfterDrain
  <2>4. CASE DrainTimeout
    BY <2>4 DEF DrainTimeout
  <2>5. CASE FlushWorkers \/ CloseFails
    BY <2>5 DEF FlushWorkers, AfterFlush, CloseFails
  <2>6. CASE CloseSupervisionJob \/ Restart \/ RemoveRegistrations \/ RemoveDurable
    BY <2>6 DEF CloseSupervisionJob, Restart, RemoveRegistrations, RemoveDurable
  <2>16. CASE RemovePaths
    <3>1. CASE Refused
      BY <2>16, <3>1 DEF RemovePaths
    <3>2. CASE ~Refused /\ pc = "caches" /\ op = "uninstall"
      BY <2>16, <3>2 DEF RemovePaths
    <3>3. CASE ~Refused /\ ~(pc = "caches" /\ op = "uninstall")
      BY <2>16, <3>3 DEF RemovePaths
    <3>. QED BY <3>1, <3>2, <3>3
  <2>7. CASE ActivateData \/ StartRelease \/ StartMismatch
    BY <2>7 DEF ActivateData, StartRelease, StartMismatch
  <2>8. CASE WritePointer
    BY <2>8 DEF WritePointer
  <2>12. CASE SelectorUncertain
    BY <2>12 DEF SelectorUncertain
  <2>13. CASE HookFails
    BY <2>13 DEF HookFails
  <2>9. CASE Caught \/ AskFails
    BY <2>9 DEF Caught, CatchOf, AskFails
  <2>10. CASE RollbackData
    BY <2>10 DEF RollbackData, DataBefore
  <2>17. CASE RestorePointer
    BY <2>17 DEF RestorePointer
  <2>14. CASE RollbackFails
    BY <2>14 DEF RollbackFails
  <2>11. CASE ResumePrior \/ ResumePriorFails \/ Resume
    BY <2>11 DEF ResumePrior, ResumePriorFails, Resume
  <2>18. CASE ResumeFails
    <3>1. CASE pc = "resume" /\ op \in Planned
      BY <2>18, <3>1 DEF ResumeFails
    <3>2. CASE ~(pc = "resume" /\ op \in Planned)
      BY <2>18, <3>2 DEF ResumeFails
    <3>. QED BY <3>1, <3>2
  <2>. QED BY <1>9, <2>1, <2>2, <2>3, <2>4, <2>5, <2>6, <2>7, <2>8, <2>9,
            <2>10, <2>11, <2>12, <2>13, <2>14, <2>15, <2>16, <2>17, <2>18 DEF Operate
<1>10. CASE UNCHANGED vars
  BY <1>10
<1>. QED BY <1>1, <1>2, <1>3, <1>4, <1>5, <1>6, <1>7, <1>8, <1>9, <1>10 DEF Next

-----------------------------------------------------------------------------
(* The shape of an operation's steps. *)

\* A step goes on within its operation, or ends it, with the Host left as it is
\* or down.
Moves ==
  \/ op' = op /\ pc' # "idle" /\ UNCHANGED <<process, candidate, previous>>
  \/ op' = "none" /\ pc' = "idle" /\ (UNCHANGED process \/ Down)

LEMMA OperateMoves == Operate => pc # "idle" /\ OutsideOp /\ Moves
<1> SUFFICES ASSUME Operate PROVE pc # "idle" /\ OutsideOp /\ Moves
  OBVIOUS
<1> USE DEF Moves, Go, End, Down, KeepAuthority, KeepRest, OutsideOp, process, authority
<1>1. CASE RejectMutations
  BY <1>1 DEF RejectMutations
<1>2. CASE ForceStop
  BY <1>2 DEF ForceStop
<1>3. CASE DrainEnds
  BY <1>3 DEF DrainEnds, Drained, AfterDrain
<1>4. CASE DrainTimeout
  BY <1>4 DEF DrainTimeout
<1>5. CASE FlushWorkers
  BY <1>5 DEF FlushWorkers, AfterFlush
<1>6. CASE CloseSupervisionJob
  BY <1>6 DEF CloseSupervisionJob
<1>7. CASE Restart
  BY <1>7 DEF Restart
<1>8. CASE RemoveRegistrations
  BY <1>8 DEF RemoveRegistrations
<1>9. CASE RemovePaths
  BY <1>9 DEF RemovePaths
<1>10. CASE RemoveDurable
  BY <1>10 DEF RemoveDurable
<1>11. CASE ActivateData
  BY <1>11 DEF ActivateData
<1>12. CASE StartRelease
  BY <1>12 DEF StartRelease
<1>13. CASE StartMismatch
  BY <1>13 DEF StartMismatch
<1>14. CASE WritePointer
  BY <1>14 DEF WritePointer
<1>15. CASE SelectorUncertain
  BY <1>15 DEF SelectorUncertain
<1>16. CASE HookFails
  BY <1>16 DEF HookFails
<1>17. CASE Caught
  BY <1>17 DEF Caught, CatchOf
<1>18. CASE RollbackData
  BY <1>18 DEF RollbackData, DataBefore
<1>19. CASE RollbackFails
  BY <1>19 DEF RollbackFails
<1>20. CASE RestorePointer
  BY <1>20 DEF RestorePointer
<1>21. CASE ResumePrior
  BY <1>21 DEF ResumePrior
<1>22. CASE Resume
  BY <1>22 DEF Resume
<1>23. CASE RejectFails
  BY <1>23 DEF RejectFails
<1>24. CASE CloseFails
  BY <1>24 DEF CloseFails
<1>25. CASE AskFails
  BY <1>25 DEF AskFails
<1>26. CASE ResumePriorFails
  BY <1>26 DEF ResumePriorFails
<1>27. CASE ResumeFails
  BY <1>27 DEF ResumeFails
<1>. QED BY <1>1, <1>2, <1>3, <1>4, <1>5, <1>6, <1>7, <1>8, <1>9, <1>10, <1>11,
            <1>12, <1>13, <1>14, <1>15, <1>16, <1>17, <1>18, <1>19, <1>20, <1>21, <1>22,
            <1>23, <1>24, <1>25, <1>26, <1>27 DEF Operate

-----------------------------------------------------------------------------
(* The supervisor. *)

LEMMA StartupInit == Init => StartupInv
BY DEF Init, StartupInv

LEMMA StartupStep == TypeOK /\ OperationInv /\ StartupInv /\ [Next]_vars => StartupInv'
<1> USE LifecycleAssumption DEF LifecycleAssumption
<1> SUFFICES ASSUME PlacesOK, OperationInv, StartupInv, [Next]_vars PROVE StartupInv'
  BY DEF TypeOK
<1> USE DEF PlacesOK, StartupInv, Go, End, Down, KeepAuthority, KeepRest, OutsideOp,
            staged, process, startup, authority, activation, disk, vars
<1>1. ASSUME NEW r \in Releases, StageRelease(r) PROVE StartupInv'
  BY <1>1 DEF StageRelease, PackageChanges, Validate, CopyPackage, RecheckCopy, Publish,
     OutsideStaging
<1>2. CASE Supervise
  BY <1>2 DEF Supervise, OutsideStartup
<1>3. CASE CreateJob
  BY <1>3 DEF CreateJob, OutsideStartup
<1>4. CASE Ready
  BY <1>4 DEF Ready, OutsideStartup
<1>5. CASE AttemptFails
  BY <1>5 DEF AttemptFails, JobsAfterFailure, MoreAttempts, OutsideStartup
<1>6. CASE Accept \/ Settle
  BY <1>6 DEF Accept, Settle, OutsideWork
<1>8. ASSUME NEW kind \in {Shutdown} \union Planned \union Updates, NEW r \in Releases,
             BeginOperation(kind, r)
      PROVE StartupInv'
  BY <1>8 DEF BeginOperation
<1>9. CASE Operate
  BY <1>9, OperateMoves DEF Moves, OperationInv
<1>10. CASE UNCHANGED vars
  BY <1>10
<1>. QED BY <1>1, <1>2, <1>3, <1>4, <1>5, <1>6, <1>8, <1>9, <1>10 DEF Next

-----------------------------------------------------------------------------
(* Operations and the data. *)

LEMMA OperationInit == Init => OperationInv
BY DEF Init, OperationInv, Planned, Updates, Shutdown

LEMMA OperationStep == TypeOK /\ OperationInv /\ [Next]_vars => OperationInv'
<1> SUFFICES ASSUME TypeOK, OperationInv, [Next]_vars PROVE OperationInv'
  OBVIOUS
<1> USE DEF Go, End, Down, KeepAuthority, KeepRest, OutsideOp,
            staged, process, startup, authority, activation, disk, vars,
            Planned, Updates, Shutdown, Before, PlannedSteps, UpdateSteps, Repeatable, GivenUp, OperationInv
<1>1. ASSUME NEW r \in Releases, StageRelease(r) PROVE OperationInv'
  BY <1>1 DEF StageRelease, PackageChanges, Validate, CopyPackage, RecheckCopy, Publish, Staging,
     OutsideStaging
<1>2. CASE Supervise \/ CreateJob \/ Ready \/ AttemptFails
  BY <1>2 DEF Supervise, CreateJob, Ready, AttemptFails, OutsideStartup
<1>6. CASE Accept
  BY <1>6 DEF Accept, CandidateAccepts, OutsideWork
<1>7. CASE Settle
  BY <1>7 DEF Settle, OutsideWork
<1>8. ASSUME NEW kind \in {Shutdown} \union Planned \union Updates, NEW r \in Releases,
             BeginOperation(kind, r)
      PROVE OperationInv'
  BY <1>8 DEF BeginOperation
<1>9. CASE Operate
  <2>1. CASE RejectMutations
    BY <2>1 DEF RejectMutations
  <2>2. CASE ForceStop
    BY <2>2 DEF ForceStop
  <2>3. CASE DrainEnds
    BY <2>3 DEF DrainEnds, Drained, AfterDrain
  <2>4. CASE DrainTimeout
    BY <2>4 DEF DrainTimeout
  <2>5. CASE FlushWorkers
    BY <2>5 DEF FlushWorkers, AfterFlush
  <2>6. CASE CloseSupervisionJob
    BY <2>6 DEF CloseSupervisionJob
  <2>7. CASE Restart
    BY <2>7 DEF Restart
  <2>8. CASE RemoveRegistrations
    BY <2>8 DEF RemoveRegistrations
  <2>9. CASE RemovePaths
    BY <2>9 DEF RemovePaths
  <2>10. CASE RemoveDurable
    BY <2>10 DEF RemoveDurable
  <2>11. CASE ActivateData
    BY <2>11 DEF ActivateData
  <2>12. CASE StartRelease
    BY <2>12 DEF StartRelease
  <2>13. CASE StartMismatch
    BY <2>13 DEF StartMismatch
  <2>14. CASE WritePointer
    BY <2>14 DEF WritePointer
  <2>15. CASE SelectorUncertain
    BY <2>15 DEF SelectorUncertain
  <2>16. CASE HookFails
    BY <2>16 DEF HookFails
  <2>17. CASE Caught
    BY <2>17 DEF Caught, CatchOf
  <2>18. CASE RollbackData
    BY <2>18 DEF RollbackData, DataBefore
  <2>19. CASE RollbackFails
    BY <2>19 DEF RollbackFails
  <2>20. CASE RestorePointer
    BY <2>20 DEF RestorePointer
  <2>21. CASE ResumePrior
    BY <2>21 DEF ResumePrior
  <2>22. CASE Resume
    BY <2>22 DEF Resume
  <2>23. CASE RejectFails
    BY <2>23 DEF RejectFails
  <2>24. CASE CloseFails
    BY <2>24 DEF CloseFails
  <2>25. CASE AskFails
    BY <2>25 DEF AskFails
  <2>26. CASE ResumePriorFails
    BY <2>26 DEF ResumePriorFails
  <2>27. CASE ResumeFails
    BY <2>27 DEF ResumeFails
  <2>. QED BY <1>9, <2>1, <2>2, <2>3, <2>4, <2>5, <2>6, <2>7, <2>8, <2>9, <2>10, <2>11,
              <2>12, <2>13, <2>14, <2>15, <2>16, <2>17, <2>18, <2>19, <2>20, <2>21,
              <2>22, <2>23, <2>24, <2>25, <2>26, <2>27 DEF Operate
<1>10. CASE UNCHANGED vars
  BY <1>10
<1>. QED BY <1>1, <1>2, <1>6, <1>7, <1>8, <1>9, <1>10 DEF Next

\* Where the data generation and the pointer stand at each step.
DataInv ==
  /\ op = "none" /\ outcome \in Repeatable => pointer = data
  /\ op = "none" /\ outcome \notin Repeatable \union GivenUp =>
       pointer = data \/ (~accepting /\ host = "ready")
  /\ op \in Planned \union {Shutdown} => pointer = data
  /\ op \in Updates =>
       /\ pc \in Before => pointer = previous /\ data = previous /\ candidate # previous /\ ~undo
       /\ pc \in {"start", "pointer", "undo"} => pointer = previous /\ data = candidate /\ undo
       /\ pc = "caught" => pointer = previous /\ (undo \/ data = previous)
       /\ pc \in {"repoint", "prior"} => pointer = previous /\ data = previous
       /\ pc = "resume" => pointer = data \/ (undo /\ outcome \in GivenUp)
       /\ pc = "caught" /\ undo => data = candidate

\* An activation drains with mutations rejected, changes the data drained, and
\* rejects mutations for as long as there is something to roll back; a purge gets
\* to the data only if no path to remove holds it.
DrainedInv ==
  /\ op \in Updates /\ (undo \/ pc \in {"force", "drain", "flush", "data", "start", "pointer"})
       => ~accepting
  /\ op \in Updates /\ pc \in {"flush", "data"} => work = 0
  /\ pc \in {"remove", "rm", "caches"} => op \in {"uninstall", "purge"}
  /\ pc = "caches" => nested # "install"
  /\ pc = "purge" => op = "purge" /\ nested = "none"

LEMMA DataInit == Init => DataInv
BY DEF Init, DataInv, Planned, Updates, Shutdown, Repeatable

LEMMA DataStep ==
  TypeOK /\ OperationInv /\ StartupInv /\ DataInv /\ DrainedInv /\ [Next]_vars => DataInv'
<1> SUFFICES ASSUME TypeOK, OperationInv, StartupInv, DataInv, DrainedInv, [Next]_vars
             PROVE DataInv'
  OBVIOUS
<1> USE DEF Go, End, Down, KeepAuthority, KeepRest, OutsideOp,
            staged, process, startup, authority, activation, disk, vars,
            Planned, Updates, Shutdown, Before, PlannedSteps, UpdateSteps, Repeatable, GivenUp,
            OperationInv, DataInv
<1>1. ASSUME NEW r \in Releases, StageRelease(r) PROVE DataInv'
  BY <1>1 DEF StageRelease, PackageChanges, Validate, CopyPackage, RecheckCopy, Publish, Staging,
     OutsideStaging
<1>2. CASE Supervise \/ CreateJob \/ Ready \/ AttemptFails
  BY <1>2 DEF Supervise, CreateJob, Ready, AttemptFails, OutsideStartup
<1>6. CASE Accept
  BY <1>6 DEF Accept, CandidateAccepts, OutsideWork
<1>7. CASE Settle
  BY <1>7 DEF Settle, OutsideWork
<1>8. ASSUME NEW kind \in {Shutdown} \union Planned \union Updates, NEW r \in Releases,
             BeginOperation(kind, r)
      PROVE DataInv'
  BY <1>8 DEF BeginOperation
<1>9. CASE Operate
  <2>1. CASE RejectMutations
    BY <2>1 DEF RejectMutations
  <2>2. CASE ForceStop
    BY <2>2 DEF ForceStop
  <2>3. CASE DrainEnds
    BY <2>3 DEF DrainEnds, Drained, AfterDrain
  <2>4. CASE DrainTimeout
    BY <2>4 DEF DrainTimeout
  <2>5. CASE FlushWorkers
    BY <2>5 DEF FlushWorkers, AfterFlush
  <2>6. CASE CloseSupervisionJob
    BY <2>6 DEF CloseSupervisionJob, TypeOK, StepsOK, Steps, Outcomes
  <2>7. CASE Restart
    BY <2>7 DEF Restart, TypeOK, StepsOK, Steps, Outcomes
  <2>8. CASE RemoveRegistrations
    BY <2>8 DEF RemoveRegistrations
  <2>9. CASE RemovePaths
    BY <2>9 DEF RemovePaths, TypeOK, StepsOK, Steps, Outcomes
  <2>10. CASE RemoveDurable
    BY <2>10 DEF RemoveDurable, TypeOK, StepsOK, Steps, Outcomes
  <2>11. CASE ActivateData
    BY <2>11 DEF ActivateData
  <2>12. CASE StartRelease
    BY <2>12 DEF StartRelease
  <2>13. CASE StartMismatch
    BY <2>13 DEF StartMismatch
  <2>14. CASE WritePointer
    BY <2>14 DEF WritePointer
  <2>15. CASE SelectorUncertain
    BY <2>15 DEF SelectorUncertain, DrainedInv, StartupInv, TypeOK, StepsOK, Steps, Outcomes
  <2>16. CASE HookFails
    BY <2>16 DEF HookFails
  <2>17. CASE Caught
    BY <2>17 DEF Caught, CatchOf
  <2>18. CASE RollbackData
    BY <2>18 DEF RollbackData, DataBefore
  <2>19. CASE RollbackFails
    BY <2>19 DEF RollbackFails, DrainedInv, StartupInv, TypeOK, StepsOK, Steps, Outcomes
  <2>20. CASE RestorePointer
    BY <2>20 DEF RestorePointer
  <2>21. CASE ResumePrior
    BY <2>21 DEF ResumePrior
  <2>22. CASE Resume
    BY <2>22 DEF Resume, TypeOK, StepsOK, Steps, Outcomes
  <2>23. CASE RejectFails
    BY <2>23 DEF RejectFails, StartupInv, TypeOK, StepsOK, Steps, Outcomes
  <2>24. CASE CloseFails
    BY <2>24 DEF CloseFails, StartupInv, TypeOK, StepsOK, Steps, Outcomes
  <2>25. CASE AskFails
    BY <2>25 DEF AskFails
  <2>26. CASE ResumePriorFails
    BY <2>26 DEF ResumePriorFails, StartupInv, TypeOK, StepsOK, Steps, Outcomes
  <2>27. CASE ResumeFails
    BY <2>27 DEF ResumeFails, DrainedInv, StartupInv, TypeOK, StepsOK, Steps, Outcomes
  <2>. QED BY <1>9, <2>1, <2>2, <2>3, <2>4, <2>5, <2>6, <2>7, <2>8, <2>9, <2>10, <2>11,
              <2>12, <2>13, <2>14, <2>15, <2>16, <2>17, <2>18, <2>19, <2>20, <2>21,
              <2>22, <2>23, <2>24, <2>25, <2>26, <2>27 DEF Operate
<1>10. CASE UNCHANGED vars
  BY <1>10
<1>. QED BY <1>1, <1>2, <1>6, <1>7, <1>8, <1>9, <1>10 DEF Next

LEMMA DrainedInit == Init => DrainedInv
BY DEF Init, DrainedInv, Planned, Updates, Shutdown

LEMMA DrainedStep ==
  TypeOK /\ OperationInv /\ StartupInv /\ DataInv /\ DrainedInv /\ [Next]_vars => DrainedInv'
<1> SUFFICES ASSUME TypeOK, OperationInv, StartupInv, DataInv, DrainedInv, [Next]_vars
             PROVE DrainedInv'
  OBVIOUS
<1> USE DEF Go, End, Down, KeepAuthority, KeepRest, OutsideOp,
            staged, process, startup, authority, activation, disk, vars,
            Planned, Updates, Shutdown, Before, PlannedSteps, UpdateSteps, Repeatable, GivenUp,
            OperationInv, StartupInv, DataInv, DrainedInv
<1>1. ASSUME NEW r \in Releases, StageRelease(r) PROVE DrainedInv'
  BY <1>1 DEF StageRelease, PackageChanges, Validate, CopyPackage, RecheckCopy, Publish, Staging,
     OutsideStaging
<1>2. CASE Supervise \/ CreateJob \/ Ready \/ AttemptFails
  BY <1>2 DEF Supervise, CreateJob, Ready, AttemptFails, OutsideStartup
<1>6. CASE Accept
  BY <1>6 DEF Accept, CandidateAccepts, OutsideWork
<1>7. CASE Settle
  BY <1>7 DEF Settle, OutsideWork
<1>8. ASSUME NEW kind \in {Shutdown} \union Planned \union Updates, NEW r \in Releases,
             BeginOperation(kind, r)
      PROVE DrainedInv'
  BY <1>8 DEF BeginOperation
<1>9. CASE Operate
  <2>1. CASE RejectMutations
    BY <2>1 DEF RejectMutations
  <2>2. CASE ForceStop
    BY <2>2 DEF ForceStop
  <2>3. CASE DrainEnds
    BY <2>3 DEF DrainEnds, Drained, AfterDrain
  <2>4. CASE DrainTimeout
    BY <2>4 DEF DrainTimeout
  <2>5. CASE FlushWorkers
    BY <2>5 DEF FlushWorkers, AfterFlush
  <2>6. CASE CloseSupervisionJob
    BY <2>6 DEF CloseSupervisionJob
  <2>7. CASE Restart
    BY <2>7 DEF Restart
  <2>8. CASE RemoveRegistrations
    BY <2>8 DEF RemoveRegistrations
  <2>9. CASE RemovePaths
    BY <2>9 DEF RemovePaths, Refused, TypeOK, StepsOK, Steps, Outcomes
  <2>10. CASE RemoveDurable
    BY <2>10 DEF RemoveDurable
  <2>11. CASE ActivateData
    BY <2>11 DEF ActivateData
  <2>12. CASE StartRelease
    BY <2>12 DEF StartRelease
  <2>13. CASE StartMismatch
    BY <2>13 DEF StartMismatch
  <2>14. CASE WritePointer
    BY <2>14 DEF WritePointer
  <2>15. CASE SelectorUncertain
    BY <2>15 DEF SelectorUncertain
  <2>16. CASE HookFails
    BY <2>16 DEF HookFails
  <2>17. CASE Caught
    BY <2>17 DEF Caught, CatchOf
  <2>18. CASE RollbackData
    BY <2>18 DEF RollbackData, DataBefore
  <2>19. CASE RollbackFails
    BY <2>19 DEF RollbackFails
  <2>20. CASE RestorePointer
    BY <2>20 DEF RestorePointer
  <2>21. CASE ResumePrior
    BY <2>21 DEF ResumePrior
  <2>22. CASE Resume
    BY <2>22 DEF Resume
  <2>23. CASE RejectFails
    BY <2>23 DEF RejectFails
  <2>24. CASE CloseFails
    BY <2>24 DEF CloseFails
  <2>25. CASE AskFails
    BY <2>25 DEF AskFails
  <2>26. CASE ResumePriorFails
    BY <2>26 DEF ResumePriorFails
  <2>27. CASE ResumeFails
    BY <2>27 DEF ResumeFails
  <2>. QED BY <1>9, <2>1, <2>2, <2>3, <2>4, <2>5, <2>6, <2>7, <2>8, <2>9, <2>10, <2>11,
              <2>12, <2>13, <2>14, <2>15, <2>16, <2>17, <2>18, <2>19, <2>20, <2>21,
              <2>22, <2>23, <2>24, <2>25, <2>26, <2>27 DEF Operate
<1>10. CASE UNCHANGED vars
  BY <1>10
<1>. QED BY <1>1, <1>2, <1>6, <1>7, <1>8, <1>9, <1>10 DEF Next

-----------------------------------------------------------------------------
(* Staging. *)

\* What was rechecked still verifies, and a release is published once.
StagingInv ==
  \A r \in Releases :
    /\ staging[r] = "checked" => copied[r]
    /\ staging[r] # "none" => r \notin published
    /\ r \in published \ {First} => copied[r]

LEMMA StagingInit == Init => StagingInv
BY DEF Init, StagingInv

LEMMA StagingStep == TypeOK /\ StagingInv /\ [Next]_vars => StagingInv'
<1> SUFFICES ASSUME TypeOK, StagingInv, [Next]_vars PROVE StagingInv'
  OBVIOUS
<1> USE DEF TypeOK, FlagsOK, PlacesOK, StagingInv
<1>1. ASSUME NEW r \in Releases, StageRelease(r) PROVE StagingInv'
  <2>1. CASE PackageChanges(r)
    BY <2>1 DEF PackageChanges
  <2>2. CASE Validate(r)
    BY <2>2 DEF Validate, Staging
  <2>3. CASE CopyPackage(r)
    BY <2>3 DEF CopyPackage, Staging
  <2>4. CASE RecheckCopy(r)
    BY <2>4 DEF RecheckCopy, Recheck, Staging
  <2>5. CASE Publish(r)
    BY <2>5 DEF Publish, Staging
  <2>. QED BY <1>1, <2>1, <2>2, <2>3, <2>4, <2>5 DEF StageRelease
<1>2. CASE UNCHANGED staged
  BY <1>2 DEF staged
<1>3. ASSUME ~(\E r \in Releases : StageRelease(r)) PROVE UNCHANGED staged
  <2>1. CASE Supervise \/ CreateJob \/ Ready \/ AttemptFails
    BY <2>1 DEF Supervise, CreateJob, Ready, AttemptFails, OutsideStartup
  <2>2. CASE Accept \/ Settle
    BY <2>2 DEF Accept, Settle, OutsideWork
  <2>3. ASSUME NEW kind \in {Shutdown} \union Planned \union Updates, NEW r \in Releases,
               BeginOperation(kind, r)
        PROVE UNCHANGED staged
    BY <2>3 DEF BeginOperation
  <2>4. CASE Operate
    BY <2>4, OperateMoves DEF OutsideOp, staged
  <2>5. CASE UNCHANGED vars
    BY <2>5 DEF vars
  <2>. QED BY <1>3, <2>1, <2>2, <2>3, <2>4, <2>5 DEF Next
<1>. QED BY <1>1, <1>2, <1>3

-----------------------------------------------------------------------------
(* The theorems. *)

LifecycleInv == TypeOK /\ OperationInv /\ StartupInv /\ DataInv /\ DrainedInv /\ StagingInv

LEMMA LifecycleInvCorrect == Spec => []LifecycleInv
<1>1. Init => LifecycleInv
  BY TypeInit, OperationInit, StartupInit, DataInit, DrainedInit, StagingInit DEF LifecycleInv
<1>2. LifecycleInv /\ [Next]_vars => LifecycleInv'
  BY FlagsStep, PlacesStep, StepsStep, OperationStep, StartupStep, DataStep, DrainedStep, StagingStep
  DEF LifecycleInv, TypeOK
<1>. QED BY <1>1, <1>2, PTL DEF Spec

\* Every variable of the launcher keeps its type, whatever fails.
THEOREM LifecycleTypeCorrect == Spec => []TypeOK
BY LifecycleInvCorrect, PTL DEF LifecycleInv

\* What is published verifies, for every package that changes while it is
\* staged (SignedReleaseStore.stage).
THEOREM PublishedIsVerifiedCorrect == Spec => []PublishedIsVerified
<1>1. LifecycleInv => PublishedIsVerified
  BY DEF LifecycleInv, StagingInv, PublishedIsVerified, TypeOK, PlacesOK
<1>. QED BY <1>1, LifecycleInvCorrect, PTL

\* superviseStartup never has two supervision jobs open, however many attempts
\* it makes.
THEOREM OneSupervisionJobCorrect == Spec => []OneSupervisionJob
<1>1. LifecycleInv => OneSupervisionJob
  <2> SUFFICES ASSUME LifecycleInv PROVE OneSupervisionJob
    OBVIOUS
  <2>1. PICK a : jobs \subseteq {a}
    BY DEF LifecycleInv, StartupInv, TypeOK, PlacesOK
  <2>2. IsFiniteSet({a}) /\ Cardinality({a}) = 1
    BY FS_Singleton
  <2>3. IsFiniteSet(jobs) /\ Cardinality(jobs) <= 1
    BY <2>1, <2>2, FS_Subset
  <2>. QED BY <2>3 DEF LifecycleInv, StartupInv, OneSupervisionJob
<1>. QED BY <1>1, LifecycleInvCorrect, PTL

\* Whatever hook of whatever operation fails, a Host that accepts mutations
\* again has the pointer and the data of one release, but after the three
\* outcomes in which the activation itself made no rollback or a partial one.
THEOREM SelectedTogetherCorrect == Spec => []SelectedTogether
<1>1. LifecycleInv => SelectedTogether
  BY DEF LifecycleInv, DataInv, SelectedTogether
<1>. QED BY <1>1, LifecycleInvCorrect, PTL

\* No step moves the data generation or the pointer while the Host accepts
\* mutations, and none activates a data generation over work that is not drained.
THEOREM QuietActivationCorrect == Spec => QuietActivation
<1>1. ASSUME LifecycleInv, [Next]_vars, data' # data \/ pointer' # pointer
      PROVE ~accepting /\ (pc = "data" => work = 0)
  <2> USE DEF LifecycleInv, OperationInv, DataInv, DrainedInv, Planned, Updates, Shutdown,
              PlannedSteps, KeepAuthority, authority
  <2>1. CASE Operate
    <3>1. CASE ActivateData
      BY <1>1, <3>1 DEF ActivateData, TypeOK, StepsOK, Steps, Outcomes, UpdateSteps, Before
    <3>2. CASE WritePointer
      BY <1>1, <3>2 DEF WritePointer, TypeOK, StepsOK, Steps, Outcomes, UpdateSteps, Before
    <3>3. CASE SelectorUncertain
      BY <1>1, <3>3 DEF SelectorUncertain
    <3>4. CASE RollbackData
      BY <1>1, <3>4 DEF RollbackData, TypeOK, StepsOK, Steps, Outcomes, UpdateSteps, Before
    <3>5. CASE RestorePointer
      BY <1>1, <3>5 DEF RestorePointer
    <3>6. CASE ~ActivateData /\ ~WritePointer /\ ~SelectorUncertain /\ ~RollbackData /\ ~RestorePointer
      BY <1>1, <2>1, <3>6 DEF Operate, RejectMutations, RejectFails, ForceStop, DrainEnds,
         DrainTimeout, FlushWorkers, CloseSupervisionJob, CloseFails, Restart, RemoveRegistrations,
         RemovePaths, RemoveDurable, StartRelease, StartMismatch, HookFails, Caught, AskFails,
         RollbackFails, ResumePrior, ResumePriorFails, Resume, ResumeFails
    <3>. QED BY <3>1, <3>2, <3>3, <3>4, <3>5, <3>6
  <2>2. CASE ~Operate
    BY <1>1, <2>2 DEF Next, vars, StageRelease, PackageChanges, Validate, CopyPackage, RecheckCopy,
       Publish, OutsideStaging, Supervise, CreateJob, Ready, AttemptFails, OutsideStartup, Accept,
       Settle, OutsideWork, BeginOperation
  <2>. QED BY <2>1, <2>2
<1>. QED BY <1>1, LifecycleInvCorrect, PTL DEF Spec, QuietActivation

\* Durable data is removed by a purge alone, and never with the installation
\* it lies in.
THEOREM DurableKeptCorrect == Spec => DurableKept
<1>1. ASSUME LifecycleInv, [Next]_vars, ~durable', durable PROVE op = "purge" /\ nested = "none"
  <2> USE DEF KeepRest, OutsideOp, disk, activation, authority
  <2>1. CASE Operate
    <3>1. CASE RemoveDurable
      BY <1>1, <3>1 DEF RemoveDurable, LifecycleInv, DrainedInv
    <3>2. CASE RemovePaths
      BY <3>2, <1>1 DEF RemovePaths, Refused
    <3>4. CASE HookFails
      BY <1>1, <3>4 DEF HookFails, LifecycleInv, DrainedInv
    <3>3. CASE ~RemoveDurable /\ ~RemovePaths /\ ~HookFails
      BY <1>1, <2>1, <3>3 DEF Operate, RejectMutations, ForceStop, DrainEnds, DrainTimeout,
         FlushWorkers,
         CloseSupervisionJob, Restart, RemoveRegistrations, ActivateData, StartRelease,
         StartMismatch,
         WritePointer, SelectorUncertain, RejectFails, CloseFails, AskFails, ResumePriorFails,
         ResumeFails, Caught, RollbackData, RollbackFails,
         RestorePointer,
         ResumePrior, Resume
    <3>. QED BY <3>1, <3>2, <3>3, <3>4
  <2>2. CASE ~Operate
    BY <1>1, <2>2 DEF Next, vars, StageRelease, PackageChanges, Validate, CopyPackage, RecheckCopy,
       Publish,
       OutsideStaging, Supervise, CreateJob, Ready, AttemptFails, OutsideStartup, Accept, Settle,
       OutsideWork, BeginOperation
  <2>. QED BY <2>1, <2>2
<1>. QED BY <1>1, LifecycleInvCorrect, PTL DEF Spec, DurableKept

-----------------------------------------------------------------------------
(* Synchronization: what the log, a delivery, a request and a Client know     *)
(* together.  f is what the Host holds, d a delivery, c a Client, q a request. *)

Facts == [meta : Nat, rev : Nat]
LogRows == [seq : Nat, kind : Kinds, of : Sessions, meta : Nat, rev : Nat]
Cursors == [epoch : Nat, seq : Nat]
Plains == [kind : {"snapshot", "current", "attention"}, epoch : Nat, seq : Nat]
Changes == [kind : Kinds, epoch : Nat, seq : Nat, of : Sessions, meta : Nat, rev : Nat]
Resets == [kind : {"reset"}, epoch : Nat, seq : Nat, facts : [Sessions -> Facts]]
Messages == Plains \cup Changes \cup Resets
Deliveries == [open : BOOLEAN, queue : Seq(Messages)]
Requests == [asked : BOOLEAN, cursor : Cursors, claims : [Sessions -> Facts]]
ClientStates == {"offline", "connecting", "connected", "asked", "current"}
Clients == [state : ClientStates, cursor : Cursors,
            known : [Sessions -> Facts], vouched : SUBSET Sessions]
Whole == {"summary", "renamed"}
Following == {"asked", "current"}

FeedTypes ==
  /\ epoch \in 1 .. MaxEpochs /\ seq \in 1 .. MaxSeq
  /\ log \in SUBSET LogRows
  /\ fact \in [Sessions -> Facts]
ClientTypes == request \in Requests /\ client \in Clients

\* Rows have numbers of their own, and of a Session that has a row left, the row of
\* its present read state is left too.
FeedInv ==
  /\ \A s \in Sessions : fact[s] # Unknown => fact[s].meta >= 1
  /\ \A r \in log : r.seq \in 1 .. seq /\ r.meta >= 1 /\ r.rev <= fact[r.of].rev
  /\ \A r, o \in log : r.seq = o.seq => r = o
  /\ \A r \in log : \E o \in log : o.seq >= r.seq /\ o.of = r.of /\ o.rev = fact[r.of].rev

\* Nothing that is sent is ahead of the Host.
SoundMessage(f, m) ==
  /\ m \in Messages
  /\ m.kind \in Kinds => m.meta >= 1 /\ m.rev <= f[m.of].rev
  /\ m.kind = "reset" => \A s \in Sessions : m.facts[s].rev <= f[s].rev
Sound(f, d) ==
  /\ d \in Deliveries
  /\ Len(d.queue) <= Limit
  /\ ~d.open => Len(d.queue) <= 1
  /\ \A i \in 1 .. Len(d.queue) : SoundMessage(f, d.queue[i])

\* The message at i is a change with the read state of s the Host holds.
Carries(f, d, i, s) ==
  d.queue[i].kind \in Kinds /\ d.queue[i].of = s /\ d.queue[i].rev = f[s].rev
Coming(f, d, i, s) == \E j \in i .. Len(d.queue) : Carries(f, d, j, s)
ComingWhole(f, d, s) ==
  \E j \in 1 .. Len(d.queue) : d.queue[j].kind \in Whole /\ Carries(f, d, j, s)
Holds(f, c, s) == c.known[s].rev = f[s].rev
\* Only changes move what the Client knows.
Steady(d, c) ==
  /\ c.state \in Following
  /\ \A i \in 1 .. Len(d.queue) : d.queue[i].kind # "reset"

\* At which moments a snapshot, a reset, a marker or a request may be under way.
Protocol(d, c, q) ==
  /\ c.state = "offline" => d = Closed /\ ~q.asked
  /\ d.open =>
       /\ q.asked => c.state = "asked"
       /\ \A i \in 1 .. Len(d.queue) :
            /\ d.queue[i].kind = "snapshot" => i = 1 /\ c.state = "connecting"
            /\ d.queue[i].kind \in {"reset", "current"} => ~q.asked /\ c.state \in Following

\* A whole Session is followed by what happened to its read state since, or by a reset;
\* or, after a replay, the Client has that already or gets it with another whole Session.
WholeFollowed(f, d, c, i) ==
  \/ Coming(f, d, i, d.queue[i].of)
  \/ \E j \in i + 1 .. Len(d.queue) : d.queue[j].kind = "reset"
  \/ /\ Steady(d, c)
     /\ Holds(f, c, d.queue[i].of) \/ ComingWhole(f, d, d.queue[i].of)
\* So is a reset.
ResetFollowed(f, d, i) ==
  \A s \in Known(d.queue[i].facts) :
     d.queue[i].facts[s].rev = f[s].rev \/ Coming(f, d, i + 1, s)
Followed(f, d, c) ==
  d.open =>
    \A i \in 1 .. Len(d.queue) :
      /\ d.queue[i].kind \in Whole => WholeFollowed(f, d, c, i)
      /\ d.queue[i].kind = "reset" => ResetFollowed(f, d, i)

KnownSound(f, c) ==
  /\ \A s \in Sessions : c.known[s].rev <= f[s].rev
  /\ c.vouched \subseteq Known(c.known)

\* The read states vouched for are the Host's or on their way; while a request
\* waits, those it claims may be behind, and the claims will tell.
Claimed(c, q, s) == q.claims[s].meta # 0 /\ q.claims[s].rev <= c.known[s].rev
Vouched(f, d, c, q) ==
  d.open /\ Steady(d, c) =>
    \A s \in c.vouched :
       Holds(f, c, s) \/ Coming(f, d, 1, s) \/ (q.asked /\ Claimed(c, q, s))

DeliveryInv == Sound(fact, delivery)
ProtocolInv == Protocol(delivery, client, request)
FollowedInv == Followed(fact, delivery, client)
KnownInv == KnownSound(fact, client)
VouchedInv == Vouched(fact, delivery, client, request)

SyncInv ==
  /\ FeedTypes /\ ClientTypes
  /\ FeedInv /\ DeliveryInv /\ ProtocolInv /\ FollowedInv /\ KnownInv /\ VouchedInv

-----------------------------------------------------------------------------
(* Sending one message. *)

\* What sending m makes of d: it was closed, it overflows, m is appended, or m
\* replaces renames of its Session that wait behind the first message.
Overflows(d, e) ==
  /\ d.open /\ e \in Deliveries /\ ~e.open
  /\ Len(e.queue) = 1 /\ Len(d.queue) >= 1 /\ e.queue[1] = d.queue[1]
Appends(d, e, m) ==
  /\ d.open /\ e \in Deliveries /\ e.open
  /\ Len(e.queue) = Len(d.queue) + 1 /\ Len(e.queue) <= Limit
  /\ e.queue[Len(e.queue)] = m
  /\ \A i \in 1 .. Len(d.queue) : e.queue[i] = d.queue[i]
Replaces(d, e, m) ==
  /\ d.open /\ e \in Deliveries /\ e.open
  /\ m.kind = "renamed"
  /\ Len(e.queue) = Len(d.queue)
  /\ \E i \in 2 .. Len(d.queue) : e.queue[i] = m
  /\ \A i \in 1 .. Len(d.queue) :
        \/ e.queue[i] = d.queue[i]
        \/ e.queue[i] = m /\ i # 1 /\ d.queue[i].kind = "renamed" /\ d.queue[i].of = m.of
Pushed(d, e, m) ==
  (~d.open /\ e = d) \/ Overflows(d, e) \/ Appends(d, e, m) \/ Replaces(d, e, m)

LEMMA KindsOfMessages ==
  ASSUME NEW m \in Messages
  PROVE  /\ m.kind \in Kinds \cup {"snapshot", "current", "attention", "reset"}
         /\ m.kind \in Kinds => m \in Changes
         /\ m.kind = "reset" => m \in Resets
         /\ m.kind \notin Kinds \cup {"reset"} => m \in Plains
         /\ m.epoch \in Nat /\ m.seq \in Nat
BY DEF Messages, Plains, Changes, Resets, Kinds

LEMMA PushIsPushed ==
  ASSUME NEW d \in Deliveries, NEW m \in Messages, Len(d.queue) <= Limit
  PROVE  Pushed(d, Push(d, m), m)
<1> USE SynchronizationAssumption DEF SynchronizationAssumption
<1> DEFINE e == Push(d, m)
<1>1. d.open \in BOOLEAN /\ d.queue \in Seq(Messages) /\ d = [open |-> d.open, queue |-> d.queue]
  BY DEF Deliveries
<1>2. CASE ~d.open
  BY <1>2 DEF Push, Pushed
<1>3. CASE d.open /\ Replaceable(d, m) # {}
  <2> DEFINE w == [i \in DOMAIN d.queue |-> IF i \in Replaceable(d, m) THEN m ELSE d.queue[i]]
  <2>1. e = [d EXCEPT !.queue = w]
    BY <1>3 DEF Push
  <2>2. w \in Seq(Messages) /\ Len(w) = Len(d.queue)
    BY <1>1
  <2>3. e.queue = w /\ e.open = d.open /\ e \in Deliveries
    BY <1>1, <2>1, <2>2 DEF Deliveries
  <2>4. \A i \in 1 .. Len(d.queue) : w[i] = IF i \in Replaceable(d, m) THEN m ELSE d.queue[i]
    BY <1>1
  <2>5. Replaces(d, e, m)
    <3> HIDE DEF e, w
    <3>1. PICK i \in 2 .. Len(d.queue) : i \in Replaceable(d, m) /\ m.kind = "renamed"
      BY <1>3 DEF Replaceable
    <3>2. i \in 1 .. Len(d.queue)
      BY <1>1, <3>1
    <3>3. w[i] = m
      BY <2>4, <3>1, <3>2
    <3>4. \A j \in Replaceable(d, m) : j # 1 /\ d.queue[j].kind = "renamed" /\ d.queue[j].of = m.of
      BY <1>1 DEF Replaceable
    <3>. QED BY <1>3, <2>2, <2>3, <2>4, <3>1, <3>3, <3>4 DEF Replaces
  <2>. QED BY <2>5 DEF Pushed
<1>4. CASE d.open /\ Replaceable(d, m) = {} /\ Len(d.queue) < Limit
  <2>1. e = [d EXCEPT !.queue = Append(d.queue, m)]
    BY <1>4 DEF Push
  <2>. HIDE DEF e
  <2>2. Append(d.queue, m) \in Seq(Messages)
    BY <1>1
  <2>3. e = [open |-> d.open, queue |-> Append(d.queue, m)]
    BY <1>1, <2>1
  <2>4. e.queue = Append(d.queue, m) /\ e.open = d.open /\ e \in Deliveries
    BY <1>1, <2>2, <2>3 DEF Deliveries
  <2>5. Appends(d, e, m)
    BY <1>1, <1>4, <2>4 DEF Appends
  <2>. QED BY <2>5 DEF Pushed, e
<1>5. CASE d.open /\ Replaceable(d, m) = {} /\ Len(d.queue) >= Limit
  <2>1. e = [open |-> FALSE, queue |-> <<Head(d.queue)>>]
    BY <1>5 DEF Push
  <2>2. Len(d.queue) >= 1 /\ Head(d.queue) = d.queue[1] /\ d.queue[1] \in Messages
    BY <1>1, <1>5
  <2>3. <<Head(d.queue)>> \in Seq(Messages)
    BY <2>2
  <2>4. e \in Deliveries
    BY <2>1, <2>3 DEF Deliveries
  <2>. QED BY <1>5, <2>1, <2>2, <2>4 DEF Pushed, Overflows
<1>. QED BY <1>1, <1>2, <1>3, <1>4, <1>5

LEMMA PushedSound ==
  ASSUME NEW f, NEW d, NEW e, NEW m, Sound(f, d), SoundMessage(f, m), Pushed(d, e, m)
  PROVE  Sound(f, e) /\ (e.open => d.open)
<1> USE SynchronizationAssumption DEF SynchronizationAssumption
<1> DEFINE L == Len(d.queue)
           M == Len(e.queue)
<1>1. /\ d \in Deliveries /\ e \in Deliveries /\ L \in Nat /\ M \in Nat /\ L <= Limit
      /\ (~d.open => L <= 1)
  BY DEF Sound, Pushed, Overflows, Appends, Replaces, Deliveries
<1>2. \A i \in 1 .. L : SoundMessage(f, d.queue[i])
  BY DEF Sound
<1>3. /\ M <= Limit /\ (~e.open => M <= 1) /\ (e.open => d.open)
      /\ \A i \in 1 .. M : (i <= L /\ e.queue[i] = d.queue[i]) \/ e.queue[i] = m
  <2>1. CASE ~d.open /\ e = d
    BY <1>1, <2>1
  <2>2. CASE Overflows(d, e)
    BY <1>1, <2>2 DEF Overflows
  <2>3. CASE Appends(d, e, m)
    BY <1>1, <2>3 DEF Appends
  <2>4. CASE Replaces(d, e, m)
    BY <1>1, <2>4 DEF Replaces
  <2>. QED BY <2>1, <2>2, <2>3, <2>4 DEF Pushed
<1>4. \A i \in 1 .. M : SoundMessage(f, e.queue[i])
  <2> HIDE DEF L, M
  <2>. QED BY <1>1, <1>2, <1>3
<1>. QED BY <1>1, <1>3, <1>4 DEF Sound

\* What is still open was open, and keeps its messages but for replaced renames.
LEMMA PushedOpen ==
  ASSUME NEW f, NEW d, NEW e, NEW m, Sound(f, d), Pushed(d, e, m), e.open
  PROVE  /\ d.open /\ Len(d.queue) \in Nat /\ Len(e.queue) \in Nat
         /\ Appends(d, e, m) \/ Replaces(d, e, m)
         /\ Len(d.queue) <= Len(e.queue)
         /\ \A i \in 1 .. Len(d.queue) :
              \/ e.queue[i] = d.queue[i]
              \/ /\ e.queue[i] = m /\ i # 1 /\ m.kind = "renamed"
                 /\ d.queue[i].kind = "renamed" /\ d.queue[i].of = m.of
         /\ \A i \in 1 .. Len(e.queue) :
              \/ i <= Len(d.queue) /\ e.queue[i] = d.queue[i]
              \/ e.queue[i] = m /\ (i = 1 => Len(d.queue) = 0)
<1>1. d \in Deliveries /\ e \in Deliveries /\ Len(d.queue) \in Nat /\ Len(e.queue) \in Nat
  BY DEF Sound, Pushed, Overflows, Appends, Replaces, Deliveries
<1>2. d.open /\ (Appends(d, e, m) \/ Replaces(d, e, m))
  BY DEF Pushed, Overflows, Appends, Replaces
<1>3. CASE Appends(d, e, m)
  BY <1>1, <1>3 DEF Appends
<1>4. CASE Replaces(d, e, m)
  BY <1>1, <1>4 DEF Replaces
<1>. QED BY <1>1, <1>2, <1>3, <1>4

\* What comes still comes, unless m replaces it with something older.
LEMMA PushedComing ==
  ASSUME NEW f, NEW d, NEW e, NEW m, Sound(f, d), Pushed(d, e, m), e.open,
         NEW s, m.kind \in Kinds /\ m.of = s => m.rev = f[s].rev
  PROVE  /\ \A i \in Nat \ {0} : Coming(f, d, i, s) => Coming(f, e, i, s)
         /\ ComingWhole(f, d, s) => ComingWhole(f, e, s)
<1>1. /\ Len(d.queue) \in Nat /\ Len(e.queue) \in Nat /\ Len(d.queue) <= Len(e.queue)
      /\ \A i \in 1 .. Len(d.queue) :
           \/ e.queue[i] = d.queue[i]
           \/ /\ e.queue[i] = m /\ i # 1 /\ m.kind = "renamed"
              /\ d.queue[i].kind = "renamed" /\ d.queue[i].of = m.of
  BY PushedOpen
<1>2. ASSUME NEW j \in 1 .. Len(d.queue), Carries(f, d, j, s)
      PROVE  Carries(f, e, j, s) /\ (d.queue[j].kind \in Whole => e.queue[j].kind \in Whole)
  BY <1>1, <1>2 DEF Carries, Kinds, Whole
<1>4. ASSUME NEW i \in Nat \ {0}, Coming(f, d, i, s) PROVE Coming(f, e, i, s)
  <2>1. PICK j \in i .. Len(d.queue) : Carries(f, d, j, s)
    BY <1>4 DEF Coming
  <2>2. j \in 1 .. Len(d.queue) /\ j \in i .. Len(e.queue)
    BY <1>1, <2>1
  <2>. QED BY <1>2, <2>1, <2>2 DEF Coming
<1>5. ComingWhole(f, d, s) => ComingWhole(f, e, s)
  <2> SUFFICES ASSUME ComingWhole(f, d, s) PROVE ComingWhole(f, e, s)
    OBVIOUS
  <2>1. PICK j \in 1 .. Len(d.queue) : d.queue[j].kind \in Whole /\ Carries(f, d, j, s)
    BY DEF ComingWhole
  <2>2. j \in 1 .. Len(e.queue)
    BY <1>1, <2>1
  <2>. QED BY <1>2, <2>1, <2>2 DEF ComingWhole
<1>. QED BY <1>4, <1>5

\* A change with the read state the Host holds comes, or comes as a whole Session.
LEMMA PushedCarries ==
  ASSUME NEW f, NEW d, NEW e, NEW m, Sound(f, d), Pushed(d, e, m), e.open,
         m.kind \in Kinds, m.rev = f[m.of].rev
  PROVE  /\ Coming(f, e, 1, m.of)
         /\ ComingWhole(f, e, m.of) \/ \A i \in 1 .. Len(e.queue) : Coming(f, e, i, m.of)
         /\ Appends(d, e, m) => \A i \in 1 .. Len(e.queue) : Coming(f, e, i, m.of)
<1>1. Len(d.queue) \in Nat /\ Len(e.queue) \in Nat /\ (Appends(d, e, m) \/ Replaces(d, e, m))
  BY PushedOpen
<1>2. CASE Appends(d, e, m)
  <2>1. Len(e.queue) >= 1 /\ Carries(f, e, Len(e.queue), m.of)
    BY <1>1, <1>2 DEF Appends, Carries
  <2>2. \A i \in 1 .. Len(e.queue) : Len(e.queue) \in i .. Len(e.queue)
    BY <1>1
  <2>. QED BY <1>1, <2>1, <2>2 DEF Coming
<1>3. CASE Replaces(d, e, m) /\ ~Appends(d, e, m)
  <2>1. PICK i \in 2 .. Len(d.queue) : e.queue[i] = m
    BY <1>3 DEF Replaces
  <2>2. i \in 1 .. Len(e.queue) /\ m.kind \in Whole
    BY <1>1, <1>3, <2>1 DEF Replaces, Whole
  <2>. QED BY <1>3, <2>1, <2>2 DEF Coming, ComingWhole, Carries
<1>. QED BY <1>1, <1>2, <1>3

\* A message that is no change leaves everything as it was followed.
LEMMA PlainFollowed ==
  ASSUME NEW f, NEW d, NEW e, NEW m, NEW c, NEW q, Sound(f, d), Pushed(d, e, m),
         m.kind \notin Kinds, m.kind # "reset",
         Followed(f, d, c), Vouched(f, d, c, q)
  PROVE  Followed(f, e, c) /\ Vouched(f, e, c, q)
<1> SUFFICES ASSUME e.open PROVE Followed(f, e, c) /\ Vouched(f, e, c, q)
  BY DEF Followed, Vouched
<1>1. /\ d.open /\ Len(d.queue) \in Nat /\ Len(e.queue) \in Nat
      /\ Len(d.queue) <= Len(e.queue)
      /\ \A i \in 1 .. Len(e.queue) :
           (i <= Len(d.queue) /\ e.queue[i] = d.queue[i]) \/ e.queue[i] = m
      /\ \A i \in 1 .. Len(d.queue) : e.queue[i] = d.queue[i]
  BY PushedOpen DEF Kinds
<1>2. \A s : /\ \A i \in Nat \ {0} : Coming(f, d, i, s) => Coming(f, e, i, s)
             /\ ComingWhole(f, d, s) => ComingWhole(f, e, s)
  BY PushedComing
<1>3. Steady(d, c) <=> Steady(e, c)
  BY <1>1 DEF Steady
<1>4. ASSUME NEW i \in 1 .. Len(e.queue)
      PROVE  /\ e.queue[i].kind \in Whole => WholeFollowed(f, e, c, i)
             /\ e.queue[i].kind = "reset" => ResetFollowed(f, e, i)
  <2>1. CASE e.queue[i] = m
    BY <2>1 DEF Whole, Kinds
  <2>2. CASE i <= Len(d.queue) /\ e.queue[i] = d.queue[i]
    <3>1. i \in 1 .. Len(d.queue) /\ i \in Nat \ {0} /\ i + 1 \in Nat \ {0}
      BY <1>1, <2>2
    <3>2. /\ d.queue[i].kind \in Whole => WholeFollowed(f, d, c, i)
          /\ d.queue[i].kind = "reset" => ResetFollowed(f, d, i)
      BY <1>1, <3>1 DEF Followed
    <3>3. d.queue[i].kind \in Whole => WholeFollowed(f, e, c, i)
      <4>1. \A j \in i + 1 .. Len(d.queue) : j \in i + 1 .. Len(e.queue) /\ e.queue[j] = d.queue[j]
        BY <1>1
      <4>. QED BY <1>2, <1>3, <2>2, <3>1, <3>2, <4>1 DEF WholeFollowed
    <3>4. d.queue[i].kind = "reset" => ResetFollowed(f, e, i)
      BY <1>2, <2>2, <3>1, <3>2 DEF ResetFollowed
    <3>. QED BY <2>2, <3>3, <3>4
  <2>. QED BY <1>1, <2>1, <2>2
<1>5. Followed(f, e, c)
  BY <1>4 DEF Followed
<1>6. Vouched(f, e, c, q)
  BY <1>1, <1>2, <1>3 DEF Vouched
<1>. QED BY <1>5, <1>6

\* The Host moves s from f to g, and says so with m.
LEMMA ChangeFollowed ==
  ASSUME NEW f, NEW g, NEW d, NEW e, NEW m, NEW c, NEW q, NEW s \in Sessions,
         Sound(g, d), Pushed(d, e, m),
         m.kind \in Kinds, m.of = s, m.rev = g[s].rev,
         m.kind = "renamed" => g[s].rev = f[s].rev,
         \A t \in Sessions \ {s} : g[t] = f[t],
         c \in Clients, Followed(f, d, c), Vouched(f, d, c, q)
  PROVE  Followed(g, e, c) /\ Vouched(g, e, c, q)
<1> SUFFICES ASSUME e.open PROVE Followed(g, e, c) /\ Vouched(g, e, c, q)
  BY DEF Followed, Vouched
<1>1. /\ d.open /\ Len(d.queue) \in Nat /\ Len(e.queue) \in Nat
      /\ Appends(d, e, m) \/ Replaces(d, e, m)
      /\ Len(d.queue) <= Len(e.queue)
      /\ \A i \in 1 .. Len(e.queue) :
           (i <= Len(d.queue) /\ e.queue[i] = d.queue[i]) \/ e.queue[i] = m
      /\ \A i \in 1 .. Len(d.queue) :
           e.queue[i] = d.queue[i] \/ (e.queue[i] = m /\ d.queue[i].kind = "renamed")
  BY PushedOpen
<1>2. /\ Coming(g, e, 1, s)
      /\ ComingWhole(g, e, s) \/ \A i \in 1 .. Len(e.queue) : Coming(g, e, i, s)
      /\ Appends(d, e, m) => \A i \in 1 .. Len(e.queue) : Coming(g, e, i, s)
  BY PushedCarries
\* Either nobody's read state moved, or the news is last.
<1>3. (\A t \in Sessions : g[t].rev = f[t].rev) \/ Appends(d, e, m)
  <2>1. CASE m.kind = "renamed"
    BY <2>1
  <2>2. CASE m.kind # "renamed"
    BY <1>1, <2>2 DEF Replaces
  <2>. QED BY <2>1, <2>2
<1>4. ASSUME NEW t \in Sessions, g[t].rev = f[t].rev
      PROVE  /\ \A i \in Nat \ {0} : Coming(f, d, i, t) => Coming(g, e, i, t)
             /\ ComingWhole(f, d, t) => ComingWhole(g, e, t)
             /\ Holds(f, c, t) => Holds(g, c, t)
  <2>1. m.of = t => m.rev = g[t].rev
    OBVIOUS
  <2>2. /\ \A i \in Nat \ {0} : Coming(g, d, i, t) => Coming(g, e, i, t)
        /\ ComingWhole(g, d, t) => ComingWhole(g, e, t)
    BY <2>1, PushedComing
  <2>3. \A j : Carries(f, d, j, t) => Carries(g, d, j, t)
    BY <1>4 DEF Carries
  <2>4. \A i : Coming(f, d, i, t) => Coming(g, d, i, t)
    BY <2>3 DEF Coming
  <2>5. ComingWhole(f, d, t) => ComingWhole(g, d, t)
    BY <2>3 DEF ComingWhole
  <2>. QED BY <1>4, <2>2, <2>4, <2>5 DEF Holds
<1>5. Steady(d, c) <=> Steady(e, c)
  BY <1>1 DEF Steady, Kinds
<1>6. ASSUME NEW i \in 1 .. Len(e.queue), e.queue[i].kind \in Whole
      PROVE  WholeFollowed(g, e, c, i)
  <2>1. CASE e.queue[i] = m
    <3>1. e.queue[i].of = s /\ Carries(g, e, i, s)
      BY <2>1 DEF Carries
    <3>2. i \in i .. Len(e.queue)
      BY <1>1
    <3>. QED BY <3>1, <3>2 DEF WholeFollowed, Coming
  <2>2. CASE i <= Len(d.queue) /\ e.queue[i] = d.queue[i]
    <3>1. i \in 1 .. Len(d.queue) /\ i \in Nat \ {0}
      BY <1>1, <2>2
    <3>2. WholeFollowed(f, d, c, i)
      BY <1>1, <1>6, <2>2, <3>1 DEF Followed
    <3>3. d.queue[i] \in Messages /\ d.queue[i].kind \in Kinds
      BY <1>6, <2>2, <3>1 DEF Sound, SoundMessage, Whole, Kinds
    <3>4. d.queue[i].of \in Sessions
      BY <3>3, KindsOfMessages DEF Changes
    <3>7. CASE \E j \in i + 1 .. Len(d.queue) : d.queue[j].kind = "reset"
      <4>1. \A j \in i + 1 .. Len(d.queue) :
               d.queue[j].kind = "reset" => j \in i + 1 .. Len(e.queue) /\ e.queue[j] = d.queue[j]
        BY <1>1
      <4>. QED BY <3>7, <4>1 DEF WholeFollowed
    <3>5. CASE g[d.queue[i].of].rev = f[d.queue[i].of].rev
      BY <1>4, <1>5, <2>2, <3>1, <3>2, <3>4, <3>5, <3>7 DEF WholeFollowed
    <3>6. CASE g[d.queue[i].of].rev # f[d.queue[i].of].rev
      <4>1. d.queue[i].of = s /\ Appends(d, e, m)
        BY <1>3, <3>4, <3>6
      <4>. QED BY <1>2, <2>2, <4>1 DEF WholeFollowed
    <3>. QED BY <3>5, <3>6
  <2>. QED BY <1>1, <2>1, <2>2
<1>7. ASSUME NEW i \in 1 .. Len(e.queue), e.queue[i].kind = "reset"
      PROVE  ResetFollowed(g, e, i)
  <2>1. i \in 1 .. Len(d.queue) /\ e.queue[i] = d.queue[i] /\ i + 1 \in Nat \ {0}
    BY <1>1, <1>7 DEF Kinds
  <2>2. ResetFollowed(f, d, i)
    BY <1>1, <1>7, <2>1 DEF Followed
  <2>3. ASSUME NEW t \in Known(e.queue[i].facts)
        PROVE  e.queue[i].facts[t].rev = g[t].rev \/ Coming(g, e, i + 1, t)
    <3>1. t \in Sessions /\ (d.queue[i].facts[t].rev = f[t].rev \/ Coming(f, d, i + 1, t))
      BY <2>1, <2>2, <2>3 DEF ResetFollowed, Known
    <3>2. CASE g[t].rev = f[t].rev
      BY <1>4, <2>1, <3>1, <3>2
    <3>3. CASE g[t].rev # f[t].rev
      <4>1. t = s /\ Appends(d, e, m)
        BY <1>3, <3>1, <3>3
      <4>2. i + 1 \in 1 .. Len(e.queue)
        BY <1>1, <2>1, <4>1 DEF Appends
      <4>. QED BY <1>2, <4>1, <4>2
    <3>. QED BY <3>2, <3>3
  <2>. QED BY <2>3 DEF ResetFollowed
<1>8. Followed(g, e, c)
  BY <1>6, <1>7 DEF Followed
<1>9. Vouched(g, e, c, q)
  <2> SUFFICES ASSUME Steady(e, c), NEW t \in c.vouched
      PROVE Holds(g, c, t) \/ Coming(g, e, 1, t) \/ (q.asked /\ Claimed(c, q, t))
    BY DEF Vouched
  <2>1. t \in Sessions /\ (Holds(f, c, t) \/ Coming(f, d, 1, t) \/ (q.asked /\ Claimed(c, q, t)))
    BY <1>1, <1>5 DEF Vouched, Clients
  <2>2. CASE t = s
    BY <1>2, <2>2
  <2>3. CASE t # s
    BY <1>4, <2>1, <2>3
  <2>. QED BY <2>2, <2>3
<1>. QED BY <1>8, <1>9

\* The rest of the protocol does not mind a message that is no snapshot.
LEMMA PushedProtocol ==
  ASSUME NEW f, NEW d, NEW e, NEW m, NEW c, NEW q, NEW r, Sound(f, d), Pushed(d, e, m),
         Protocol(d, c, q), m.kind # "snapshot",
         r = q \/ r = NoRequest,
         m.kind \in {"reset", "current"} => ~r.asked /\ c.state \in Following
  PROVE  Protocol(e, c, r)
<1>1. CASE ~e.open
  BY <1>1 DEF Protocol, Pushed, Overflows, Appends, Replaces, Closed, NoRequest
<1>2. CASE e.open
  <2>1. /\ d.open
        /\ \A i \in 1 .. Len(e.queue) :
             (i \in 1 .. Len(d.queue) /\ e.queue[i] = d.queue[i]) \/ e.queue[i] = m
    BY <1>2, PushedOpen
  <2>. QED BY <1>2, <2>1 DEF Protocol, Closed, NoRequest
<1>. QED BY <1>1, <1>2

\* A reset starts the Client over with what the Host has now.
LEMMA ResetIsFollowed ==
  ASSUME NEW f, NEW d, NEW e, NEW m, NEW c, NEW q, Sound(f, d), Pushed(d, e, m),
         m.kind = "reset", m.facts = f, Followed(f, d, c)
  PROVE  Followed(f, e, c) /\ Vouched(f, e, c, q)
<1> SUFFICES ASSUME e.open PROVE Followed(f, e, c) /\ Vouched(f, e, c, q)
  BY DEF Followed, Vouched
<1>1. /\ Appends(d, e, m) /\ d.open /\ Len(e.queue) \in Nat /\ Len(d.queue) \in Nat
      /\ \A i \in 1 .. Len(e.queue) :
           (i <= Len(d.queue) /\ e.queue[i] = d.queue[i]) \/ e.queue[i] = m
      /\ Len(e.queue) = Len(d.queue) + 1 /\ e.queue[Len(e.queue)] = m
  BY PushedOpen DEF Replaces, Appends
<1>2. ~Steady(e, c)
  BY <1>1 DEF Steady
<1>3. ASSUME NEW i \in 1 .. Len(e.queue), e.queue[i].kind \in Whole
      PROVE  WholeFollowed(f, e, c, i)
  <2>1. i # Len(e.queue)
    BY <1>1, <1>3 DEF Whole
  <2>2. Len(e.queue) \in i + 1 .. Len(e.queue)
    BY <1>1, <2>1
  <2>. QED BY <1>1, <2>2 DEF WholeFollowed
<1>4. ASSUME NEW i \in 1 .. Len(e.queue), e.queue[i].kind = "reset"
      PROVE  ResetFollowed(f, e, i)
  <2>1. CASE e.queue[i] = m
    BY <2>1 DEF ResetFollowed
  <2>2. CASE i <= Len(d.queue) /\ e.queue[i] = d.queue[i]
    <3>1. i \in 1 .. Len(d.queue) /\ i + 1 \in Nat \ {0} /\ m.kind \notin Kinds
      BY <1>1, <2>2 DEF Kinds
    <3>2. ResetFollowed(f, d, i)
      BY <1>1, <1>4, <2>2, <3>1 DEF Followed
    <3>3. \A s : Coming(f, d, i + 1, s) => Coming(f, e, i + 1, s)
      BY <3>1, PushedComing
    <3>. QED BY <2>2, <3>2, <3>3 DEF ResetFollowed
  <2>. QED BY <1>1, <2>1, <2>2
<1>. QED BY <1>2, <1>3, <1>4 DEF Followed, Vouched

-----------------------------------------------------------------------------
(* Replaying the log. *)

\* The order of the numbers, as a relation, is well founded.
Below == {pair \in Nat \X Nat : pair[1] < pair[2]}
LEMMA BelowIsWellFounded == IsWellFoundedOn(Below, Nat)
BY NatLessThanWellFounded, Zenon DEF OpToRel, Below

\* A nonempty set of numbers has a least one.
LEMMA LeastNumber ==
  ASSUME NEW S, S \subseteq Nat, S # {}
  PROVE  \E g \in S : \A h \in S : g <= h
<1>1. PICK g \in S : \A h \in S : ~(<<h, g>> \in Below)
  BY BelowIsWellFounded, WFMin, Zenon
<1>2. ASSUME NEW h \in S PROVE g <= h
  <2>1. g \in Nat /\ h \in Nat /\ ~(<<h, g>> \in Below)
    BY <1>1
  <2>2. <<h, g>> \in Nat \X Nat
    BY <2>1
  <2>3. ~(<<h, g>>[1] < <<h, g>>[2])
    BY <2>1, <2>2, Zenon DEF Below
  <2>. QED BY <2>1, <2>3
<1>. QED BY <1>2

\* The replay of the rows up to k, as a function of all numbers up to there.
Replayed(g, n, k) ==
  g = [j \in n .. k |-> IF j = n THEN delivery ELSE Offer(g[j - 1], ChangesAt(j))]

LEMMA ReplayStarts ==
  ASSUME NEW n \in Nat
  PROVE  \E g : Replayed(g, n, n)
<1> DEFINE h == [j \in n .. n |-> delivery]
<1>1. \A j \in n .. n : j = n
  OBVIOUS
<1>2. h = [j \in n .. n |-> IF j = n THEN delivery ELSE Offer(h[j - 1], ChangesAt(j))]
  <2> HIDE DEF h
  <2>1. \A j \in n .. n : (IF j = n THEN delivery ELSE Offer(h[j - 1], ChangesAt(j))) = delivery
    BY <1>1
  <2>. QED BY <2>1 DEF h
<1>. QED BY <1>2 DEF Replayed

LEMMA ReplayGoesOn ==
  ASSUME NEW n \in Nat, NEW k \in Nat, n <= k, NEW g, Replayed(g, n, k)
  PROVE  \E h : Replayed(h, n, k + 1)
<1> DEFINE F(f, j) == IF j = n THEN delivery ELSE Offer(f[j - 1], ChangesAt(j))
           h == [j \in n .. k + 1 |-> IF j = k + 1 THEN F(g, j) ELSE g[j]]
<1>1. \A j \in n .. k : g[j] = F(g, j)
  BY DEF Replayed
<1>2. \A j \in n .. k : h[j] = g[j]
  OBVIOUS
<1>3. ASSUME NEW j \in n .. k + 1 PROVE h[j] = F(h, j)
  <2>1. CASE j = n
    BY <1>1, <2>1
  <2>2. CASE j # n
    <3>1. j - 1 \in n .. k
      BY <2>2
    <3>2. h[j - 1] = g[j - 1]
      BY <1>2, <3>1
    <3>3. F(h, j) = F(g, j)
      BY <3>2
    <3>4. CASE j = k + 1
      BY <3>3, <3>4
    <3>5. CASE j # k + 1
      BY <1>1, <1>2, <3>3, <3>5
    <3>. QED BY <3>4, <3>5
  <2>. QED BY <2>1, <2>2
<1>4. h = [j \in n .. k + 1 |-> h[j]]
  OBVIOUS
<1>5. h = [j \in n .. k + 1 |-> F(h, j)]
  <2> HIDE DEF h, F
  <2>. QED BY <1>3, <1>4
<1>. QED BY <1>5 DEF Replayed

\* The recursive function satisfies its equation, since some function does.
LEMMA ReplayUnfolds ==
  ASSUME NEW n \in Nat, seq \in Nat, n <= seq
  PROVE  /\ Replay(n)[n] = delivery
         /\ \A k \in n + 1 .. seq : Replay(n)[k] = Offer(Replay(n)[k - 1], ChangesAt(k))
<1> DEFINE Stuck == {k \in Nat : n <= k /\ ~\E g : Replayed(g, n, k)}
<1>1. Stuck = {}
  <2> SUFFICES ASSUME Stuck # {} PROVE FALSE
    OBVIOUS
  <2>1. PICK k \in Stuck : \A j \in Stuck : k <= j
    BY LeastNumber
  <2>2. CASE k = n
    BY <2>2, ReplayStarts
  <2>3. CASE k # n
    <3>1. k - 1 \in Nat /\ n <= k - 1 /\ k - 1 \notin Stuck /\ (k - 1) + 1 = k
      BY <2>1, <2>3
    <3>2. PICK g : Replayed(g, n, k - 1)
      BY <3>1
    <3>3. \E h : Replayed(h, n, (k - 1) + 1)
      BY <3>1, <3>2, ReplayGoesOn
    <3>. QED BY <3>1, <3>3
  <2>. QED BY <2>2, <2>3
<1>2. \E g : Replayed(g, n, seq)
  BY <1>1
<1>3. Replay(n) = CHOOSE g : Replayed(g, n, seq)
  BY DEF Replay, Replayed
<1>4. Replayed(Replay(n), n, seq)
  BY <1>2, <1>3, Zenon
<1> DEFINE g == Replay(n)
<1>5. g = [j \in n .. seq |-> IF j = n THEN delivery ELSE Offer(g[j - 1], ChangesAt(j))]
  BY <1>4 DEF Replayed
<1>. HIDE DEF g
<1>6. \A k \in n .. seq : g[k] = IF k = n THEN delivery ELSE Offer(g[k - 1], ChangesAt(k))
  BY <1>5
<1>. QED BY <1>6 DEF g

\* A row that is sent is sound, and says what the row says.
LEMMA ChangeIsSound ==
  ASSUME FeedTypes, FeedInv, NEW r \in log
  PROVE  /\ SoundMessage(fact, Change(r))
         /\ Change(r).kind = r.kind /\ Change(r).of = r.of /\ Change(r).rev = r.rev
         /\ r.kind \in Kinds /\ r.of \in Sessions
<1>1. r \in LogRows /\ epoch \in Nat
  BY DEF FeedTypes
<1>2. Change(r) \in Changes
  BY <1>1 DEF Change, Changes, LogRows
<1>3. r.meta >= 1 /\ r.rev <= fact[r.of].rev
  BY DEF FeedInv
<1>. QED BY <1>1, <1>2, <1>3 DEF SoundMessage, Messages, Change, LogRows, Kinds

\* What is sent for a number: its row, if it has one.
LEMMA OfferAt ==
  ASSUME FeedTypes, FeedInv, NEW k \in Nat, NEW d
  PROVE  \/ /\ \A r \in log : r.seq # k
            /\ Offer(d, ChangesAt(k)) = d
         \/ \E r \in log : r.seq = k /\ Offer(d, ChangesAt(k)) = Push(d, Change(r))
<1>1. CASE \A r \in log : r.seq # k
  <2>1. ChangesAt(k) = {}
    BY <1>1 DEF ChangesAt
  <2>. QED BY <1>1, <2>1 DEF Offer
<1>2. CASE ~\A r \in log : r.seq # k
  <2>1. PICK r \in log : r.seq = k
    BY <1>2
  <2>2. {row \in log : row.seq = k} = {r}
    BY <2>1 DEF FeedInv
  <2>3. ChangesAt(k) = {Change(r)}
    BY <2>2, Zenon DEF ChangesAt
  <2>4. (CHOOSE m \in {Change(r)} : TRUE) = Change(r)
    OBVIOUS
  <2>5. Offer(d, ChangesAt(k)) = Push(d, Change(r))
    BY <2>3, <2>4 DEF Offer
  <2>. QED BY <2>1, <2>5
<1>. QED BY <1>1, <1>2

\* A row after k has the read state of s the Host holds.
ToCome(k, s) == \E r \in log : r.seq > k /\ r.of = s /\ r.rev = fact[s].rev

\* Once the rows up to k are replayed: as when all are, but for rows still to come.
ReplayInv(d, k) ==
  /\ Sound(fact, d)
  /\ client.state # "offline"
  /\ d.open =>
       /\ \A i \in 1 .. Len(d.queue) :
            /\ d.queue[i].kind \in Kinds \cup {"attention"}
            /\ d.queue[i].kind \in Whole =>
                 \/ Coming(fact, d, i, d.queue[i].of)
                 \/ Holds(fact, client, d.queue[i].of)
                 \/ ComingWhole(fact, d, d.queue[i].of)
                 \/ ToCome(k, d.queue[i].of)
       /\ \A s \in client.vouched :
            Holds(fact, client, s) \/ Coming(fact, d, 1, s) \/ ToCome(k, s)

LEMMA ReplayStep ==
  ASSUME FeedTypes, FeedInv, NEW k \in Nat \ {0}, NEW d, ReplayInv(d, k - 1)
  PROVE  ReplayInv(Offer(d, ChangesAt(k)), k)
<1>1. CASE /\ \A r \in log : r.seq # k
           /\ Offer(d, ChangesAt(k)) = d
  <2>1. \A s : ToCome(k - 1, s) => ToCome(k, s)
    BY <1>1 DEF ToCome, FeedInv, FeedTypes
  <2>. QED BY <1>1, <2>1 DEF ReplayInv
<1>2. ASSUME NEW r \in log, r.seq = k, Offer(d, ChangesAt(k)) = Push(d, Change(r))
      PROVE  ReplayInv(Offer(d, ChangesAt(k)), k)
  <2> DEFINE m == Change(r)
             e == Push(d, Change(r))
             f == fact
  <2>1. /\ SoundMessage(f, m) /\ m.kind = r.kind /\ m.of = r.of /\ m.rev = r.rev
        /\ r.kind \in Kinds /\ r.of \in Sessions
    BY ChangeIsSound
  <2>2. Sound(f, d)
    BY DEF ReplayInv
  <2>3. Pushed(d, e, m)
    BY <2>1, <2>2, PushIsPushed DEF Sound, SoundMessage
  <2>. HIDE DEF e, m, f
  <2>4. Sound(f, e) /\ (e.open => d.open)
    BY <2>1, <2>2, <2>3, PushedSound
  <2>5. ASSUME e.open
        PROVE  /\ \A i \in 1 .. Len(e.queue) :
                    /\ e.queue[i].kind \in Kinds \cup {"attention"}
                    /\ e.queue[i].kind \in Whole =>
                         \/ Coming(f, e, i, e.queue[i].of)
                         \/ Holds(f, client, e.queue[i].of)
                         \/ ComingWhole(f, e, e.queue[i].of)
                         \/ ToCome(k, e.queue[i].of)
               /\ \A s \in client.vouched :
                    Holds(f, client, s) \/ Coming(f, e, 1, s) \/ ToCome(k, s)
    <3>1. /\ d.open /\ Len(d.queue) \in Nat
          /\ \A i \in 1 .. Len(e.queue) :
               (i <= Len(d.queue) /\ e.queue[i] = d.queue[i]) \/ e.queue[i] = m
      BY <2>2, <2>3, <2>5, PushedOpen
    \* The Session of the row: the row has the present read state, or a later one has.
    <3>2. \/ /\ Coming(f, e, 1, r.of)
             /\ ComingWhole(f, e, r.of) \/ \A i \in 1 .. Len(e.queue) : Coming(f, e, i, r.of)
          \/ ToCome(k, r.of)
      <4>1. PICK o \in log : o.seq >= r.seq /\ o.of = r.of /\ o.rev = fact[r.of].rev
        BY DEF FeedInv
      <4>2. CASE o.seq = r.seq
        <5>1. o = r
          BY <4>2 DEF FeedInv
        <5>2. m.rev = f[m.of].rev
          BY <2>1, <4>1, <5>1 DEF f
        <5>. QED BY <2>1, <2>2, <2>3, <2>5, <5>2, PushedCarries
      <4>3. CASE o.seq # r.seq
        <5>1. o.seq > k
          BY <1>2, <4>1, <4>3 DEF FeedInv, FeedTypes
        <5>. QED BY <4>1, <5>1 DEF ToCome
      <4>. QED BY <4>2, <4>3
    \* Any other Session.
    <3>3. ASSUME NEW s, s # r.of
          PROVE  /\ \A i \in Nat \ {0} : Coming(f, d, i, s) => Coming(f, e, i, s)
                 /\ ComingWhole(f, d, s) => ComingWhole(f, e, s)
                 /\ ToCome(k - 1, s) => ToCome(k, s)
      <4>1. /\ \A i \in Nat \ {0} : Coming(f, d, i, s) => Coming(f, e, i, s)
            /\ ComingWhole(f, d, s) => ComingWhole(f, e, s)
        BY <2>1, <2>2, <2>3, <2>5, <3>3, PushedComing
      <4>2. ASSUME ToCome(k - 1, s) PROVE ToCome(k, s)
        <5>1. PICK o \in log : o.seq > k - 1 /\ o.of = s /\ o.rev = fact[s].rev
          BY <4>2 DEF ToCome
        <5>2. o.seq \in Nat /\ o.seq # k
          BY <1>2, <3>3, <5>1 DEF FeedInv, FeedTypes
        <5>. QED BY <5>1, <5>2 DEF ToCome
      <4>. QED BY <4>1, <4>2
    <3>4. ASSUME NEW i \in 1 .. Len(e.queue)
          PROVE  /\ e.queue[i].kind \in Kinds \cup {"attention"}
                 /\ e.queue[i].kind \in Whole =>
                      \/ Coming(f, e, i, e.queue[i].of)
                      \/ Holds(f, client, e.queue[i].of)
                      \/ ComingWhole(f, e, e.queue[i].of)
                      \/ ToCome(k, e.queue[i].of)
      <4>1. CASE e.queue[i] = m
        BY <2>1, <3>2, <4>1
      <4>2. CASE i <= Len(d.queue) /\ e.queue[i] = d.queue[i]
        <5>1. i \in 1 .. Len(d.queue) /\ i \in Nat \ {0}
          BY <3>1, <4>2
        <5>2. /\ d.queue[i].kind \in Kinds \cup {"attention"}
              /\ d.queue[i].kind \in Whole =>
                   \/ Coming(f, d, i, d.queue[i].of)
                   \/ Holds(f, client, d.queue[i].of)
                   \/ ComingWhole(f, d, d.queue[i].of)
                   \/ ToCome(k - 1, d.queue[i].of)
          BY <3>1, <5>1 DEF ReplayInv, f
        <5>3. CASE d.queue[i].of = r.of
          BY <3>2, <4>2, <5>2, <5>3
        <5>4. CASE d.queue[i].of # r.of
          BY <3>3, <4>2, <5>1, <5>2, <5>4
        <5>. QED BY <5>3, <5>4
      <4>. QED BY <3>1, <4>1, <4>2
    <3>5. ASSUME NEW s \in client.vouched
          PROVE  Holds(f, client, s) \/ Coming(f, e, 1, s) \/ ToCome(k, s)
      <4>1. Holds(f, client, s) \/ Coming(f, d, 1, s) \/ ToCome(k - 1, s)
        BY <3>1 DEF ReplayInv, f
      <4>. QED BY <3>2, <3>3, <4>1
    <3>. QED BY <3>4, <3>5
  <2>6. client.state # "offline"
    BY DEF ReplayInv
  <2>7. ReplayInv(e, k)
    BY <2>4, <2>5, <2>6 DEF ReplayInv, f
  <2>. QED BY <1>2, <2>7 DEF e
<1>. QED BY <1>1, <1>2, OfferAt

LEMMA ReplayBegins ==
  ASSUME ClientTypes, DeliveryInv, ProtocolInv, FollowedInv, KnownInv, VouchedInv,
         request.asked, delivery.open, ClaimsHold(request), NEW n
  PROVE  ReplayInv(delivery, n)
<1>1. /\ client.state = "asked"
      /\ \A i \in 1 .. Len(delivery.queue) :
            delivery.queue[i].kind \notin {"snapshot", "reset", "current"}
  BY DEF ProtocolInv, Protocol
<1>2. \A i \in 1 .. Len(delivery.queue) : delivery.queue[i].kind \in Kinds \cup {"attention"}
  <2> TAKE i \in 1 .. Len(delivery.queue)
  <2>1. delivery.queue[i] \in Messages
    BY DEF DeliveryInv, Sound, SoundMessage
  <2>. QED BY <1>1, <2>1, KindsOfMessages
<1>3. Steady(delivery, client)
  BY <1>1 DEF Steady, Following
<1>4. ASSUME NEW i \in 1 .. Len(delivery.queue), delivery.queue[i].kind \in Whole
      PROVE  \/ Coming(fact, delivery, i, delivery.queue[i].of)
             \/ Holds(fact, client, delivery.queue[i].of)
             \/ ComingWhole(fact, delivery, delivery.queue[i].of)
  <2>1. WholeFollowed(fact, delivery, client, i)
    BY <1>4 DEF FollowedInv, Followed
  <2>2. delivery.queue \in Seq(Messages)
    BY DEF DeliveryInv, Sound, Deliveries
  <2>3. \A j \in i + 1 .. Len(delivery.queue) : j \in 1 .. Len(delivery.queue)
    BY <2>2
  <2>. QED BY <1>1, <2>1, <2>3 DEF WholeFollowed
<1>5. ASSUME NEW s \in client.vouched
      PROVE  Holds(fact, client, s) \/ Coming(fact, delivery, 1, s)
  <2>1. s \in Sessions /\ client.known[s] \in Facts
    BY DEF ClientTypes, Clients
  <2>2. Holds(fact, client, s) \/ Coming(fact, delivery, 1, s) \/ Claimed(client, request, s)
    BY <1>3 DEF VouchedInv, Vouched
  <2>3. ASSUME Claimed(client, request, s) PROVE Holds(fact, client, s)
    <3>1. request.claims[s] = fact[s]
      BY <2>1, <2>3 DEF Claimed, ClaimsHold, Known
    <3>2. fact[s].rev <= client.known[s].rev /\ client.known[s].rev <= fact[s].rev
      BY <2>1, <2>3, <3>1 DEF Claimed, KnownInv, KnownSound
    <3>3. request.claims[s] \in Facts
      BY <2>1 DEF ClientTypes, Requests
    <3>. QED BY <2>1, <3>1, <3>2, <3>3 DEF Holds, Facts
  <2>. QED BY <2>2, <2>3
<1>. QED BY <1>1, <1>2, <1>4, <1>5 DEF ReplayInv, DeliveryInv

LEMMA ReplayEnds ==
  ASSUME SyncInv, request.asked, delivery.open, ClaimsHold(request),
         NEW n \in Nat, n <= seq
  PROVE  ReplayInv(Replay(n)[seq], seq)
<1> DEFINE Wrong == {k \in Nat : n <= k /\ k <= seq /\ ~ReplayInv(Replay(n)[k], k)}
<1>1. seq \in Nat
  BY DEF SyncInv, FeedTypes
<1>2. Wrong = {}
  <2> SUFFICES ASSUME Wrong # {} PROVE FALSE
    OBVIOUS
  <2>1. PICK k \in Wrong : \A j \in Wrong : k <= j
    BY LeastNumber
  <2>2. CASE k = n
    BY <1>1, <2>1, <2>2, ReplayUnfolds, ReplayBegins DEF SyncInv
  <2>3. CASE k # n
    <3>1. k - 1 \in Nat /\ n <= k - 1 /\ k - 1 <= seq /\ k - 1 \notin Wrong
      BY <1>1, <2>1, <2>3
    <3>2. ReplayInv(Replay(n)[k - 1], k - 1)
      BY <3>1
    <3>3. k \in Nat \ {0} /\ k \in n + 1 .. seq
      BY <1>1, <2>1, <3>1
    <3>4. Replay(n)[k] = Offer(Replay(n)[k - 1], ChangesAt(k))
      BY <1>1, <3>3, ReplayUnfolds
    <3>5. ReplayInv(Replay(n)[k], k)
      BY <3>2, <3>3, <3>4, ReplayStep DEF SyncInv
    <3>. QED BY <2>1, <3>5
  <2>. QED BY <2>2, <2>3
<1>. QED BY <1>1, <1>2

\* With nothing to come, a replay that is over leaves the Client followed.
LEMMA ReplayFollowed ==
  ASSUME FeedTypes, FeedInv, ClientTypes, client.state \in Following,
         NEW d, ReplayInv(d, seq)
  PROVE  /\ Sound(fact, d)
         /\ Followed(fact, d, client)
         /\ Vouched(fact, d, client, NoRequest)
         /\ Protocol(d, client, NoRequest)
<1>0. seq \in Nat /\ \A r \in log : r.seq \in 1 .. seq
  BY DEF FeedInv, FeedTypes
<1>1. \A s : ~ToCome(seq, s)
  BY <1>0 DEF ToCome
<1>2. Steady(d, client) \/ ~d.open
  BY DEF ReplayInv, Steady, Kinds
<1>3. Followed(fact, d, client)
  BY <1>1, <1>2 DEF ReplayInv, Followed, WholeFollowed, Kinds
<1>4. Vouched(fact, d, client, NoRequest)
  BY <1>1 DEF ReplayInv, Vouched
<1>5. Protocol(d, client, NoRequest)
  BY DEF ReplayInv, Protocol, NoRequest, Kinds
<1>. QED BY <1>3, <1>4, <1>5 DEF ReplayInv

-----------------------------------------------------------------------------
(* The steps. *)

LEMMA SynchronizeKeeps ==
  ASSUME SyncInv, Synchronize
  PROVE  SyncInv'
<1>1. /\ request.asked /\ delivery.open /\ request' = NoRequest
      /\ UNCHANGED <<epoch, seq, log, fact, client>>
  BY DEF Synchronize, feed
<1>2. /\ client.state = "asked" /\ client.state \in Following
      /\ epoch \in Nat /\ seq \in Nat /\ request.cursor.seq \in Nat
      /\ fact \in [Sessions -> Facts] /\ client \in Clients
  BY <1>1 DEF SyncInv, ProtocolInv, Protocol, Following, FeedTypes, ClientTypes, Requests, Cursors
<1>3. FeedTypes' /\ FeedInv'
  BY <1>1 DEF SyncInv, FeedTypes, FeedInv
<1>4. NoRequest \in Requests
  <2>1. Nothing \in [Sessions -> Facts]
    BY DEF Nothing, Unknown, Facts
  <2>. QED BY <2>1 DEF NoRequest, None, Requests, Cursors
<1>5. ClientTypes'
  BY <1>1, <1>4 DEF SyncInv, ClientTypes
<1>6. KnownInv'
  BY <1>1 DEF SyncInv, KnownInv, KnownSound
<1>7. ASSUME NEW e, Sound(fact, e), Followed(fact, e, client),
             Vouched(fact, e, client, NoRequest), Protocol(e, client, NoRequest),
             delivery' = e
      PROVE  SyncInv'
  BY <1>1, <1>3, <1>5, <1>6, <1>7
     DEF SyncInv, DeliveryInv, FollowedInv, VouchedInv, ProtocolInv
<1>8. CASE Resumable(request)
  <2> DEFINE d == Replay(request.cursor.seq)[seq]
             m == Plain("current", seq)
  <2>1. delivery' = Push(d, m)
    BY <1>8 DEF Synchronize
  <2>2. ReplayInv(d, seq)
    BY <1>1, <1>2, <1>8, ReplayEnds DEF Resumable, Covers
  <2>3. /\ Sound(fact, d) /\ Followed(fact, d, client)
        /\ Vouched(fact, d, client, NoRequest) /\ Protocol(d, client, NoRequest)
    BY <1>2, <2>2, ReplayFollowed DEF SyncInv
  <2>4. m \in Plains /\ m.kind = "current"
    BY <1>2 DEF Plain, Plains
  <2>. HIDE DEF d, m
  <2>5. SoundMessage(fact, m) /\ m.kind \notin Kinds
    BY <2>4 DEF SoundMessage, Messages, Kinds
  <2>6. Pushed(d, Push(d, m), m)
    BY <2>3, <2>5, PushIsPushed DEF Sound, SoundMessage
  <2>7. Sound(fact, Push(d, m))
    BY <2>3, <2>5, <2>6, PushedSound
  <2>8. Followed(fact, Push(d, m), client) /\ Vouched(fact, Push(d, m), client, NoRequest)
    BY <2>3, <2>4, <2>5, <2>6, PlainFollowed
  <2>9. ~NoRequest.asked
    BY DEF NoRequest
  <2>10. Protocol(Push(d, m), client, NoRequest)
    BY <1>2, <2>3, <2>4, <2>6, <2>9, PushedProtocol
  <2>. QED BY <1>7, <2>1, <2>7, <2>8, <2>10
<1>9. CASE ~Resumable(request)
  <2> DEFINE d == delivery
             m == Reset
  <2>1. delivery' = Push(d, m)
    BY <1>9 DEF Synchronize
  <2>2. Sound(fact, d) /\ Followed(fact, d, client) /\ Protocol(d, client, request)
    BY DEF SyncInv, DeliveryInv, FollowedInv, ProtocolInv
  <2>3. m.kind = "reset" /\ m.facts = fact
    BY DEF Reset
  <2>4. m \in Resets
    BY <1>2 DEF Reset, Resets
  <2>. HIDE DEF d, m
  <2>5. \A s \in Sessions : fact[s].rev <= fact[s].rev
    BY <1>2 DEF Facts
  <2>6. SoundMessage(fact, m)
    BY <2>3, <2>4, <2>5 DEF SoundMessage, Messages, Kinds
  <2>7. Pushed(d, Push(d, m), m)
    BY <2>2, <2>6, PushIsPushed DEF Sound, SoundMessage
  <2>8. Sound(fact, Push(d, m))
    BY <2>2, <2>6, <2>7, PushedSound
  <2>9. Followed(fact, Push(d, m), client) /\ Vouched(fact, Push(d, m), client, NoRequest)
    BY <2>2, <2>3, <2>7, ResetIsFollowed
  <2>10. ~NoRequest.asked
    BY DEF NoRequest
  <2>11. Protocol(Push(d, m), client, NoRequest)
    BY <1>2, <2>2, <2>3, <2>7, <2>10, PushedProtocol
  <2>. QED BY <1>7, <2>1, <2>8, <2>9, <2>11
<1>. QED BY <1>8, <1>9

\* What the Client makes of a change.
LEMMA NewerIs ==
  ASSUME NEW h \in Facts, NEW m \in Changes, m.meta >= 1
  PROVE  /\ Newer(h, m) \in Facts
         /\ h.rev <= Newer(h, m).rev
         /\ Newer(h, m).rev = h.rev \/ Newer(h, m).rev = m.rev
         /\ h.meta # 0 => Newer(h, m).meta # 0
         /\ m.kind # "read" => Newer(h, m).meta # 0
         /\ m.kind # "read" \/ h.meta # 0 => m.rev <= Newer(h, m).rev
<1>1. h.meta \in Nat /\ h.rev \in Nat /\ m.meta \in Nat /\ m.rev \in Nat
  BY DEF Facts, Changes
<1>2. CASE m.kind = "read"
  BY <1>1, <1>2 DEF Newer, Facts
<1>3. CASE m.kind # "read"
  BY <1>1, <1>3 DEF Newer, Facts
<1>. QED BY <1>2, <1>3

\* What the Client makes of a message, by its kind.
Installs(c, b, m) ==
  m.kind = "reset" /\ b.state = "current" /\ b.known = m.facts /\ b.vouched = Known(m.facts)
Keeps(c, b, m) ==
  /\ b.known = c.known /\ b.vouched = c.vouched
  /\ \/ m.kind = "current" /\ b.state = "current"
     \/ m.kind = "snapshot" /\ b.state = "connected"
     \/ m.kind = "attention" /\ b.state = c.state
     \/ m.kind \in Kinds /\ b.state = c.state /\ c.state \notin Following
Learns(c, b, m) ==
  /\ m.kind \in Kinds /\ c.state \in Following /\ b.state = c.state
  /\ b.known = [c.known EXCEPT ![m.of] = Newer(c.known[m.of], m)]
  /\ b.vouched = IF m.kind = "read" THEN c.vouched ELSE c.vouched \cup {m.of}

LEMMA ReceivedIs ==
  ASSUME NEW c \in Clients, NEW m \in Messages, m.kind \in Kinds => m.meta >= 1
  PROVE  /\ Received(c, m) \in Clients
         /\ \/ Installs(c, Received(c, m), m)
            \/ Keeps(c, Received(c, m), m)
            \/ Learns(c, Received(c, m), m)
<1> DEFINE at == [epoch |-> m.epoch, seq |-> m.seq]
           position == IF c.state = "current" THEN at ELSE c.cursor
           b == Received(c, m)
<1>1. /\ c.state \in ClientStates /\ c.cursor \in Cursors
      /\ c.known \in [Sessions -> Facts] /\ c.vouched \in SUBSET Sessions
      /\ c = [state |-> c.state, cursor |-> c.cursor, known |-> c.known, vouched |-> c.vouched]
  BY DEF Clients
<1>2. at \in Cursors /\ position \in Cursors
  BY <1>1, KindsOfMessages DEF Cursors
<1>3. CASE m.kind = "reset"
  <2>1. m.facts \in [Sessions -> Facts]
    BY <1>3, KindsOfMessages DEF Resets
  <2>2. b = [c EXCEPT !.state = "current", !.cursor = at,
                      !.known = m.facts, !.vouched = Known(m.facts)]
    BY <1>3 DEF Received, Kinds
  <2>3. Known(m.facts) \in SUBSET Sessions
    BY DEF Known
  <2>. HIDE DEF b, at, position
  <2>4. b \in Clients /\ Installs(c, b, m)
    BY <1>1, <1>2, <1>3, <2>1, <2>2, <2>3 DEF Clients, ClientStates, Installs
  <2>. QED BY <2>4 DEF b
<1>4. CASE m.kind \in {"current", "snapshot", "attention"}
  <2>1. b = IF m.kind = "current" THEN [c EXCEPT !.state = "current", !.cursor = at]
            ELSE IF m.kind = "snapshot" THEN [c EXCEPT !.state = "connected"]
            ELSE [c EXCEPT !.cursor = position]
    BY <1>4 DEF Received, Kinds
  <2>. HIDE DEF b, at, position
  <2>2. b \in Clients /\ Keeps(c, b, m)
    BY <1>1, <1>2, <1>4, <2>1 DEF Clients, ClientStates, Keeps
  <2>. QED BY <2>2 DEF b
<1>5. CASE m.kind \in Kinds /\ c.state \notin Following
  <2>1. b = c
    BY <1>5 DEF Received, Kinds, Following
  <2>. QED BY <1>5, <2>1 DEF Keeps
<1>6. CASE m.kind \in Kinds /\ c.state \in Following
  <2> DEFINE known == [c.known EXCEPT ![m.of] = Newer(c.known[m.of], m)]
             vouched == IF m.kind = "read" THEN c.vouched ELSE c.vouched \cup {m.of}
  <2>1. m \in Changes /\ m.of \in Sessions
    BY <1>6, KindsOfMessages DEF Changes
  <2>2. b = [c EXCEPT !.cursor = position, !.known = known, !.vouched = vouched]
    <3>1. b = [c EXCEPT !.cursor = position, !.known[m.of] = Newer(@, m),
                        !.vouched = IF m.kind = "read" THEN @ ELSE @ \cup {m.of}]
      BY <1>6 DEF Received, Kinds, Following
    <3>. QED BY <1>1, <3>1
  <2>3. Newer(c.known[m.of], m) \in Facts
    BY <1>1, <1>6, <2>1, NewerIs
  <2>4. known \in [Sessions -> Facts] /\ vouched \in SUBSET Sessions
    BY <1>1, <2>1, <2>3
  <2>. HIDE DEF b, at, position, known, vouched
  <2>5. /\ b.state = c.state /\ b.cursor = position /\ b.known = known /\ b.vouched = vouched
        /\ b \in Clients
    BY <1>1, <1>2, <2>2, <2>4 DEF Clients
  <2>6. Learns(c, b, m)
    BY <1>6, <2>5 DEF Learns, known, vouched
  <2>. QED BY <2>5, <2>6 DEF b
<1>. QED BY <1>3, <1>4, <1>5, <1>6, KindsOfMessages

\* Taking the head of a queue.
Taken(d) == [d EXCEPT !.queue = Tail(@)]

LEMMA TakenIs ==
  ASSUME NEW f, NEW d, Sound(f, d), d.queue # <<>>
  PROVE  /\ Sound(f, Taken(d)) /\ Taken(d).open = d.open
         /\ Head(d.queue) = d.queue[1] /\ SoundMessage(f, d.queue[1])
         /\ Len(d.queue) \in Nat \ {0} /\ Len(Taken(d).queue) = Len(d.queue) - 1
         /\ \A i \in 1 .. Len(Taken(d).queue) : Taken(d).queue[i] = d.queue[i + 1]
<1> DEFINE w == Tail(d.queue)
<1>1. d.queue \in Seq(Messages) /\ d.open \in BOOLEAN /\ d = [open |-> d.open, queue |-> d.queue]
  BY DEF Sound, Deliveries
<1>2. Len(d.queue) \in Nat \ {0} /\ Head(d.queue) = d.queue[1] /\ 1 \in 1 .. Len(d.queue)
  BY <1>1
<1>3. /\ w \in Seq(Messages) /\ Len(w) = Len(d.queue) - 1
      /\ \A i \in 1 .. Len(w) : w[i] = d.queue[i + 1] /\ i + 1 \in 1 .. Len(d.queue)
  BY <1>1, <1>2
<1>. HIDE DEF w
<1>4. Taken(d).queue = w /\ Taken(d).open = d.open /\ Taken(d) \in Deliveries
  BY <1>1, <1>3 DEF Taken, Deliveries, w
<1>5. \A i \in 1 .. Len(w) : SoundMessage(f, w[i])
  BY <1>3 DEF Sound
<1>6. Len(w) <= Limit /\ (~d.open => Len(w) <= 1)
  BY <1>2, <1>3, SynchronizationAssumption DEF Sound, SynchronizationAssumption
<1>. QED BY <1>2, <1>3, <1>4, <1>5, <1>6 DEF Sound

\* What comes has arrived with the head, or still comes.
LEMMA TakenComing ==
  ASSUME NEW f, NEW d, Sound(f, d), d.queue # <<>>, NEW s
  PROVE  /\ \A i \in Nat \ {0} : Coming(f, d, i + 1, s) => Coming(f, Taken(d), i, s)
         /\ Coming(f, d, 1, s) => Carries(f, d, 1, s) \/ Coming(f, Taken(d), 1, s)
         /\ ComingWhole(f, d, s) =>
              \/ d.queue[1].kind \in Whole /\ Carries(f, d, 1, s)
              \/ ComingWhole(f, Taken(d), s) /\ Coming(f, Taken(d), 1, s)
<1> DEFINE e == Taken(d)
<1>1. /\ Len(d.queue) \in Nat \ {0} /\ Len(e.queue) = Len(d.queue) - 1
      /\ \A i \in 1 .. Len(e.queue) : e.queue[i] = d.queue[i + 1]
  BY TakenIs
<1>. HIDE DEF e
<1>2. ASSUME NEW j \in 2 .. Len(d.queue)
      PROVE  j - 1 \in 1 .. Len(e.queue) /\ e.queue[j - 1] = d.queue[j]
  BY <1>1
<1>3. ASSUME NEW j \in 2 .. Len(d.queue), Carries(f, d, j, s)
      PROVE  Carries(f, e, j - 1, s)
  BY <1>2, <1>3 DEF Carries
<1>4. ASSUME NEW i \in Nat \ {0}, Coming(f, d, i + 1, s) PROVE Coming(f, e, i, s)
  <2>1. PICK j \in i + 1 .. Len(d.queue) : Carries(f, d, j, s)
    BY <1>4 DEF Coming
  <2>2. j \in 2 .. Len(d.queue) /\ j - 1 \in i .. Len(e.queue)
    BY <1>1, <2>1
  <2>. QED BY <1>3, <2>1, <2>2 DEF Coming
<1>5. ASSUME Coming(f, d, 1, s) PROVE Carries(f, d, 1, s) \/ Coming(f, e, 1, s)
  <2>1. PICK j \in 1 .. Len(d.queue) : Carries(f, d, j, s)
    BY <1>5 DEF Coming
  <2>2. j = 1 \/ (j \in 2 .. Len(d.queue) /\ j - 1 \in 1 .. Len(e.queue))
    BY <1>1, <2>1
  <2>. QED BY <1>3, <2>1, <2>2 DEF Coming
<1>6. ASSUME ComingWhole(f, d, s)
      PROVE  \/ d.queue[1].kind \in Whole /\ Carries(f, d, 1, s)
             \/ ComingWhole(f, e, s) /\ Coming(f, e, 1, s)
  <2>1. PICK j \in 1 .. Len(d.queue) : d.queue[j].kind \in Whole /\ Carries(f, d, j, s)
    BY <1>6 DEF ComingWhole
  <2>2. j = 1 \/ (j \in 2 .. Len(d.queue) /\ j - 1 \in 1 .. Len(e.queue))
    BY <1>1, <2>1
  <2>. QED BY <1>2, <1>3, <2>1, <2>2 DEF Coming, ComingWhole
<1>. QED BY <1>4, <1>5, <1>6 DEF e

LEMMA ReceivedKnown ==
  ASSUME NEW f \in [Sessions -> Facts], NEW c \in Clients, NEW m, SoundMessage(f, m),
         KnownSound(f, c)
  PROVE  /\ KnownSound(f, Received(c, m))
         /\ m.kind # "reset" =>
              \A s \in Sessions : /\ c.known[s].rev <= Received(c, m).known[s].rev
                                  /\ Holds(f, c, s) => Holds(f, Received(c, m), s)
         /\ c.state \in Following =>
              \A s \in Sessions :
                 /\ m.kind \in Kinds /\ m.of = s /\ m.rev = f[s].rev
                 /\ m.kind \in Whole \/ s \in Known(c.known)
                 => Holds(f, Received(c, m), s)
<1> DEFINE b == Received(c, m)
<1>1. /\ m \in Messages
      /\ (m.kind \in Kinds => m \in Changes /\ m.meta >= 1 /\ m.rev <= f[m.of].rev)
      /\ m.kind = "reset" => m \in Resets /\ \A s \in Sessions : m.facts[s].rev <= f[s].rev
  BY KindsOfMessages DEF SoundMessage
<1>2. b \in Clients /\ (Installs(c, b, m) \/ Keeps(c, b, m) \/ Learns(c, b, m))
  BY <1>1, ReceivedIs
<1>. HIDE DEF b
<1>3. /\ c.known \in [Sessions -> Facts] /\ c.vouched \subseteq Sessions
      /\ b.known \in [Sessions -> Facts] /\ b.vouched \subseteq Sessions
  BY <1>2 DEF Clients
<1>4. \A s \in Sessions : c.known[s].rev \in Nat /\ f[s].rev \in Nat /\ c.known[s].rev <= f[s].rev
  BY <1>3 DEF Facts, KnownSound
<1>5. CASE Installs(c, b, m)
  BY <1>1, <1>5 DEF Installs, KnownSound, Kinds, b
<1>6. CASE Keeps(c, b, m)
  <2>1. b.known = c.known /\ b.vouched = c.vouched /\ ~(m.kind \in Kinds /\ c.state \in Following)
    BY <1>6 DEF Keeps, Kinds
  <2>2. KnownSound(f, b)
    BY <2>1 DEF KnownSound
  <2>. QED BY <1>4, <2>1, <2>2 DEF Holds, b
<1>7. CASE Learns(c, b, m)
  <2>1. /\ m \in Changes /\ m.of \in Sessions /\ m.meta >= 1
        /\ m.rev <= f[m.of].rev /\ m.rev \in Nat
        /\ m.kind \in Kinds
    BY <1>1, <1>7 DEF Learns, Changes
  <2>2. /\ b.known[m.of] = Newer(c.known[m.of], m)
        /\ \A s \in Sessions : s # m.of => b.known[s] = c.known[s]
    BY <1>3, <1>7, <2>1 DEF Learns
  <2>3. c.known[m.of] \in Facts
    BY <1>3, <2>1
  <2>4. /\ c.known[m.of].rev <= b.known[m.of].rev
        /\ b.known[m.of].rev <= f[m.of].rev
        /\ c.known[m.of].meta # 0 => b.known[m.of].meta # 0
        /\ m.kind # "read" => b.known[m.of].meta # 0
        /\ m.kind # "read" \/ c.known[m.of].meta # 0 => m.rev <= b.known[m.of].rev
        /\ b.known[m.of].rev \in Nat
    <3> DEFINE h == c.known[m.of]
               n == b.known[m.of]
    <3>1. /\ Newer(h, m) \in Facts /\ h.rev <= Newer(h, m).rev
          /\ Newer(h, m).rev = h.rev \/ Newer(h, m).rev = m.rev
          /\ h.meta # 0 => Newer(h, m).meta # 0
          /\ m.kind # "read" => Newer(h, m).meta # 0
          /\ m.kind # "read" \/ h.meta # 0 => m.rev <= Newer(h, m).rev
      BY <2>1, <2>3, NewerIs
    <3>2. n = Newer(h, m)
      BY <2>2
    <3>3. h.rev <= f[m.of].rev /\ h.rev \in Nat /\ f[m.of].rev \in Nat
      BY <1>4, <2>1
    <3>4. n.rev \in Nat
      BY <3>1, <3>2 DEF Facts
    <3>. HIDE DEF h, n
    <3>5. /\ h.rev <= n.rev /\ n.rev <= f[m.of].rev /\ (h.meta # 0 => n.meta # 0)
          /\ (m.kind # "read" => n.meta # 0)
          /\ (m.kind # "read" \/ h.meta # 0 => m.rev <= n.rev)
      BY <2>1, <3>1, <3>2, <3>3
    <3>. QED BY <3>4, <3>5 DEF h, n
  <2>5. KnownSound(f, b)
    BY <1>3, <1>4, <1>7, <2>1, <2>2, <2>4 DEF KnownSound, Known, Learns
  <2>6. \A s \in Sessions : /\ c.known[s].rev <= b.known[s].rev
                            /\ Holds(f, c, s) => Holds(f, b, s)
    <3> TAKE s \in Sessions
    <3>1. CASE s = m.of
      BY <1>4, <2>4, <3>1 DEF Holds
    <3>2. CASE s # m.of
      BY <1>4, <2>2, <3>2 DEF Holds
    <3>. QED BY <3>1, <3>2
  <2>7. \A s \in Sessions : m.of = s /\ m.rev = f[s].rev
                    /\ (m.kind \in Whole \/ s \in Known(c.known))
                            => Holds(f, b, s)
    BY <1>4, <2>1, <2>4 DEF Holds, Whole, Known
  <2>. QED BY <2>5, <2>6, <2>7 DEF b
<1>. QED BY <1>2, <1>5, <1>6, <1>7

\* The Client follows after a message only if it did before.
LEMMA ReceivedState ==
  ASSUME NEW d, NEW c \in Clients, NEW q, NEW f, Sound(f, d), d.queue # <<>>,
         Protocol(d, c, q), d.open
  PROVE  LET m == d.queue[1]  b == Received(c, m)
         IN  /\ b \in Clients /\ b.state # "offline"
             /\ b.state \in Following <=> c.state \in Following
             /\ q.asked => c.state = "asked" /\ b.state = "asked"
                           /\ m.kind \notin {"reset", "current"}
             /\ m.kind # "snapshot" => (b.state = c.state \/ m.kind \in {"reset", "current"})
<1> DEFINE m == d.queue[1]
           b == Received(c, m)
<1>0. Len(d.queue) \in Nat \ {0} /\ SoundMessage(f, m)
  BY TakenIs
<1>1. 1 \in 1 .. Len(d.queue) /\ SoundMessage(f, m)
  BY <1>0
<1>2. b \in Clients /\ (Installs(c, b, m) \/ Keeps(c, b, m) \/ Learns(c, b, m))
  BY <1>1, ReceivedIs DEF SoundMessage
<1>3. /\ c.state # "offline"
      /\ q.asked => c.state = "asked"
      /\ m.kind = "snapshot" => c.state = "connecting"
      /\ m.kind \in {"reset", "current"} => ~q.asked /\ c.state \in Following
  <2>1. c.state # "offline"
    BY DEF Protocol, Closed
  <2>. QED BY <1>1, <2>1 DEF Protocol
<1>. HIDE DEF m, b
<1>4. /\ b.state # "offline"
      /\ b.state \in Following <=> c.state \in Following
      /\ q.asked => b.state = "asked"
      /\ m.kind # "snapshot" => (b.state = c.state \/ m.kind \in {"reset", "current"})
  <2>1. CASE Installs(c, b, m)
    BY <1>3, <2>1 DEF Installs, Following
  <2>2. CASE Keeps(c, b, m)
    BY <1>3, <2>2 DEF Keeps, Following, Kinds
  <2>3. CASE Learns(c, b, m)
    BY <1>3, <2>3 DEF Learns, Following, Kinds
  <2>. QED BY <1>2, <2>1, <2>2, <2>3
<1>. QED BY <1>2, <1>3, <1>4 DEF b, m

LEMMA ReceivedProtocol ==
  ASSUME NEW d, NEW c \in Clients, NEW q, NEW f, Sound(f, d), d.queue # <<>>, Protocol(d, c, q)
  PROVE  Protocol(Taken(d), Received(c, d.queue[1]), q)
<1> DEFINE m == d.queue[1]
           b == Received(c, m)
           e == Taken(d)
<1>0. /\ Len(d.queue) \in Nat \ {0} /\ Len(e.queue) = Len(d.queue) - 1 /\ SoundMessage(f, m)
      /\ \A i \in 1 .. Len(e.queue) : e.queue[i] = d.queue[i + 1]
      /\ e.open = d.open
  BY TakenIs
<1>1. /\ Len(e.queue) \in Nat
      /\ \A i \in 1 .. Len(e.queue) :
            e.queue[i] = d.queue[i + 1] /\ i + 1 \in 1 .. Len(d.queue) /\ i + 1 # 1
  BY <1>0
<1>2. c.state # "offline"
  BY DEF Protocol, Closed
<1>3. b.state # "offline"
  <2>1. Installs(c, b, m) \/ Keeps(c, b, m) \/ Learns(c, b, m)
    BY <1>0, ReceivedIs DEF SoundMessage
  <2>. QED BY <1>2, <2>1 DEF Installs, Keeps, Learns
<1>4. d.open => /\ b.state \in Following <=> c.state \in Following
                /\ q.asked => b.state = "asked"
  BY ReceivedState
<1>5. ASSUME d.open, NEW i \in 1 .. Len(e.queue)
      PROVE  /\ e.queue[i].kind # "snapshot"
             /\ e.queue[i].kind \in {"reset", "current"} => ~q.asked /\ c.state \in Following
  BY <1>1, <1>5 DEF Protocol
<1>. HIDE DEF b, e
<1>6. Protocol(e, b, q)
  BY <1>0, <1>1, <1>3, <1>4, <1>5 DEF Protocol
<1>. QED BY <1>6 DEF b, e

LEMMA ReceivedFollowed ==
  ASSUME NEW f \in [Sessions -> Facts], NEW d, NEW c \in Clients, NEW q, Sound(f, d),
         d.queue # <<>>,
         Protocol(d, c, q), KnownSound(f, c), Followed(f, d, c)
  PROVE  Followed(f, Taken(d), Received(c, d.queue[1]))
<1> DEFINE m == d.queue[1]
           b == Received(c, m)
           e == Taken(d)
<1>0. /\ e.open = d.open /\ Len(d.queue) \in Nat \ {0} /\ Len(e.queue) = Len(d.queue) - 1
      /\ \A i \in 1 .. Len(e.queue) : e.queue[i] = d.queue[i + 1]
      /\ SoundMessage(f, m) /\ Sound(f, e)
  BY TakenIs
<1>1. /\ e.open = d.open /\ Len(e.queue) \in Nat /\ Len(d.queue) \in Nat
      /\ Len(e.queue) = Len(d.queue) - 1 /\ Len(d.queue) >= 1
      /\ \A i \in 1 .. Len(e.queue) :
           e.queue[i] = d.queue[i + 1] /\ i + 1 \in 1 .. Len(d.queue) /\ SoundMessage(f, e.queue[i])
      /\ SoundMessage(f, m)
  <2>1. \A i \in 1 .. Len(e.queue) : SoundMessage(f, e.queue[i])
    BY <1>0 DEF Sound
  <2>2. /\ Len(e.queue) \in Nat /\ Len(d.queue) \in Nat /\ Len(d.queue) >= 1
        /\ \A i \in 1 .. Len(e.queue) : i + 1 \in 1 .. Len(d.queue)
    BY <1>0
  <2>. HIDE DEF e, m
  <2>. QED BY <1>0, <2>1, <2>2
<1>2. /\ m.kind # "reset" => \A s \in Sessions : Holds(f, c, s) => Holds(f, b, s)
      /\ c.state \in Following =>
              \A s \in Sessions :
                 m.kind \in Kinds /\ m.of = s /\ m.rev = f[s].rev /\ m.kind \in Whole
                 => Holds(f, b, s)
  BY <1>1, ReceivedKnown
<1>3. \A s : /\ \A i \in Nat \ {0} : Coming(f, d, i + 1, s) => Coming(f, e, i, s)
             /\ ComingWhole(f, d, s) =>
                  (m.kind \in Whole /\ Carries(f, d, 1, s)) \/ ComingWhole(f, e, s)
  BY TakenComing
<1>4. d.open => (b.state \in Following <=> c.state \in Following)
  BY ReceivedState
<1>. HIDE DEF b, e, m
<1>. SUFFICES ASSUME d.open PROVE Followed(f, e, b)
  BY <1>1 DEF Followed, b, e, m
<1>5. ASSUME NEW i \in 1 .. Len(e.queue), e.queue[i].kind \in Whole
      PROVE  WholeFollowed(f, e, b, i)
  <2> DEFINE s == e.queue[i].of
  <2>1. i \in Nat \ {0} /\ i + 1 \in 1 .. Len(d.queue) /\ e.queue[i] = d.queue[i + 1]
    BY <1>1
  <2>2. s \in Sessions
    BY <1>1, <1>5, KindsOfMessages DEF SoundMessage, Whole, Kinds, Changes
  <2>3. WholeFollowed(f, d, c, i + 1)
    BY <1>5, <2>1 DEF Followed
  <2>4. CASE Coming(f, d, i + 1, s)
    BY <1>3, <2>1, <2>4 DEF WholeFollowed
  <2>5. CASE \E j \in (i + 1) + 1 .. Len(d.queue) : d.queue[j].kind = "reset"
    <3>1. PICK j \in (i + 1) + 1 .. Len(d.queue) : d.queue[j].kind = "reset"
      BY <2>5
    <3>2. j - 1 \in i + 1 .. Len(e.queue) /\ e.queue[j - 1] = d.queue[j]
      BY <1>1, <2>1, <3>1
    <3>. QED BY <3>1, <3>2 DEF WholeFollowed
  <2>6. CASE Steady(d, c) /\ (Holds(f, c, s) \/ ComingWhole(f, d, s))
    <3>1. m.kind # "reset"
      BY <1>1, <2>6 DEF Steady, m
    <3>2. Steady(e, b)
      BY <1>1, <1>4, <2>6 DEF Steady
    <3>3. Holds(f, b, s) \/ ComingWhole(f, e, s)
      <4>1. CASE Holds(f, c, s)
        BY <1>2, <2>2, <3>1, <4>1
      <4>2. CASE m.kind \in Whole /\ Carries(f, d, 1, s)
        BY <1>2, <2>2, <2>6, <4>2 DEF Carries, Steady, m
      <4>. QED BY <1>3, <2>6, <4>1, <4>2
    <3>. QED BY <3>2, <3>3 DEF WholeFollowed
  <2>. QED BY <2>1, <2>3, <2>4, <2>5, <2>6 DEF WholeFollowed
<1>6. ASSUME NEW i \in 1 .. Len(e.queue), e.queue[i].kind = "reset"
      PROVE  ResetFollowed(f, e, i)
  <2>1. i + 1 \in Nat \ {0} /\ i + 1 \in 1 .. Len(d.queue) /\ e.queue[i] = d.queue[i + 1]
    BY <1>1
  <2>2. ResetFollowed(f, d, i + 1)
    BY <1>6, <2>1 DEF Followed
  <2>. QED BY <1>3, <2>1, <2>2 DEF ResetFollowed
<1>. QED BY <1>5, <1>6 DEF Followed

LEMMA ReceivedVouched ==
  ASSUME NEW f \in [Sessions -> Facts], NEW d, NEW c \in Clients, NEW q, Sound(f, d),
         d.queue # <<>>,
         Protocol(d, c, q), KnownSound(f, c), Followed(f, d, c), Vouched(f, d, c, q),
         q \in Requests
  PROVE  Vouched(f, Taken(d), Received(c, d.queue[1]), q)
<1> DEFINE m == d.queue[1]
           b == Received(c, m)
           e == Taken(d)
<1>0. /\ e.open = d.open /\ Len(d.queue) \in Nat \ {0} /\ Len(e.queue) = Len(d.queue) - 1
      /\ \A i \in 1 .. Len(e.queue) : e.queue[i] = d.queue[i + 1]
      /\ SoundMessage(f, m)
  BY TakenIs
<1>1. /\ e.open = d.open /\ Len(e.queue) \in Nat /\ Len(d.queue) \in Nat /\ Len(d.queue) >= 1
      /\ Len(e.queue) = Len(d.queue) - 1
      /\ \A i \in 1 .. Len(e.queue) : e.queue[i] = d.queue[i + 1]
      /\ SoundMessage(f, m)
  BY <1>0
<1>2. /\ m.kind # "reset" => \A s \in Sessions : /\ c.known[s].rev <= b.known[s].rev
                                                 /\ Holds(f, c, s) => Holds(f, b, s)
      /\ c.state \in Following =>
              \A s \in Sessions :
                 /\ m.kind \in Kinds /\ m.of = s /\ m.rev = f[s].rev
                 /\ m.kind \in Whole \/ s \in Known(c.known)
                 => Holds(f, b, s)
  BY <1>1, ReceivedKnown
<1>3. \A s : /\ \A i \in Nat \ {0} : Coming(f, d, i + 1, s) => Coming(f, e, i, s)
             /\ Coming(f, d, 1, s) => Carries(f, d, 1, s) \/ Coming(f, e, 1, s)
             /\ ComingWhole(f, d, s) =>
                  (m.kind \in Whole /\ Carries(f, d, 1, s)) \/ Coming(f, e, 1, s)
  BY TakenComing
<1>4. d.open => /\ b.state \in Following <=> c.state \in Following
                /\ b \in Clients
  BY ReceivedState
<1>5. Installs(c, b, m) \/ Keeps(c, b, m) \/ Learns(c, b, m)
  BY <1>1, ReceivedIs DEF SoundMessage
<1>6. m \in Messages
  BY <1>1 DEF SoundMessage
<1>. SUFFICES ASSUME d.open, Steady(e, b), NEW s \in b.vouched
              PROVE  Holds(f, b, s) \/ Coming(f, e, 1, s) \/ (q.asked /\ Claimed(b, q, s))
  BY <1>1 DEF Vouched
<1>. HIDE DEF b, e
<1>7. c.state \in Following /\ s \in Sessions /\ c.vouched \subseteq Known(c.known)
  BY <1>4 DEF Steady, Clients, KnownSound
<1>8. CASE Installs(c, b, m)
  <2>1. m.kind = "reset" /\ b.known = m.facts /\ s \in Known(m.facts)
    BY <1>8 DEF Installs
  <2>2. ResetFollowed(f, d, 1)
    BY <1>1, <2>1 DEF Followed
  <2>3. m.facts[s].rev = f[s].rev \/ Coming(f, d, 1 + 1, s)
    BY <2>1, <2>2 DEF ResetFollowed
  <2>4. 1 \in Nat \ {0}
    OBVIOUS
  <2>5. Coming(f, d, 1 + 1, s) => Coming(f, e, 1, s)
    BY <1>3, <2>4
  <2>. QED BY <2>1, <2>3, <2>5 DEF Holds
<1>9. CASE m.kind # "reset"
  <2>1. Steady(d, c)
    <3>1. \A i \in 1 .. Len(d.queue) : d.queue[i].kind # "reset"
      <4> TAKE i \in 1 .. Len(d.queue)
      <4>1. CASE i = 1
        BY <1>9, <4>1
      <4>2. CASE i # 1
        <5>1. i - 1 \in 1 .. Len(e.queue) /\ d.queue[i] = e.queue[i - 1]
          BY <1>1, <4>2
        <5>. QED BY <5>1 DEF Steady
      <4>. QED BY <4>1, <4>2
    <3>. QED BY <1>7, <3>1 DEF Steady
  <2>2. CASE s \in c.vouched
    <3>1. Holds(f, c, s) \/ Coming(f, d, 1, s) \/ (q.asked /\ Claimed(c, q, s))
      BY <2>1, <2>2 DEF Vouched
    <3>2. ASSUME Carries(f, d, 1, s) PROVE Holds(f, b, s)
      BY <1>2, <1>7, <2>2, <3>2 DEF Carries
    <3>3. ASSUME Claimed(c, q, s) PROVE Claimed(b, q, s)
      <4>1. c.known[s].rev <= b.known[s].rev
        BY <1>2, <1>7, <1>9
      <4>2. c.known[s].rev \in Nat /\ b.known[s].rev \in Nat /\ q.claims[s].rev \in Nat
        BY <1>4, <1>7 DEF Clients, Requests, Facts
      <4>. QED BY <3>3, <4>1, <4>2 DEF Claimed
    <3>. QED BY <1>2, <1>3, <1>7, <1>9, <3>1, <3>2, <3>3
  <2>3. CASE s \notin c.vouched
    <3>1. m.kind \in Kinds /\ m.kind # "read" /\ s = m.of
      BY <1>5, <1>9, <2>3 DEF Installs, Keeps, Learns
    <3>2. m.kind \in Whole /\ 1 \in 1 .. Len(d.queue)
      BY <1>1, <3>1 DEF Kinds, Whole
    <3>3. WholeFollowed(f, d, c, 1)
      BY <3>2 DEF Followed
    <3>4. \A j \in 1 + 1 .. Len(d.queue) : d.queue[j].kind # "reset"
      BY <1>1, <2>1 DEF Steady
    <3>5. Coming(f, d, 1, s) \/ Holds(f, c, s) \/ ComingWhole(f, d, s)
      BY <3>1, <3>3, <3>4 DEF WholeFollowed
    <3>6. ASSUME Carries(f, d, 1, s) PROVE Holds(f, b, s)
      BY <1>2, <1>7, <3>2, <3>6 DEF Carries
    <3>. QED BY <1>2, <1>3, <1>7, <1>9, <3>5, <3>6
  <2>. QED BY <2>2, <2>3
<1>. QED BY <1>5, <1>8, <1>9 DEF Keeps, Learns, Kinds

LEMMA ReceiveKeeps ==
  ASSUME SyncInv, Receive
  PROVE  SyncInv'
<1> DEFINE m == delivery.queue[1]
<1>1. /\ delivery.queue # <<>> /\ UNCHANGED <<epoch, seq, log, fact, request>>
      /\ delivery' = Taken(delivery) /\ client' = Received(client, Head(delivery.queue))
  BY DEF Receive, feed, Taken
<1>2. /\ Sound(fact, delivery) /\ Protocol(delivery, client, request)
      /\ KnownSound(fact, client) /\ Followed(fact, delivery, client)
      /\ Vouched(fact, delivery, client, request)
      /\ client \in Clients /\ request \in Requests /\ fact \in [Sessions -> Facts]
  BY DEF SyncInv, DeliveryInv, ProtocolInv, KnownInv, FollowedInv, VouchedInv, ClientTypes,
     FeedTypes
<1>3. Head(delivery.queue) = m /\ SoundMessage(fact, m) /\ Sound(fact, Taken(delivery))
  BY <1>1, <1>2, TakenIs
<1>4. Received(client, m) \in Clients
  BY <1>2, <1>3, ReceivedIs DEF SoundMessage
<1>5. FeedTypes' /\ FeedInv'
  BY <1>1 DEF SyncInv, FeedTypes, FeedInv
<1>6. ClientTypes'
  BY <1>1, <1>2, <1>3, <1>4 DEF ClientTypes
<1>7. KnownSound(fact, Received(client, m))
  BY <1>2, <1>3, ReceivedKnown
<1>8. Protocol(Taken(delivery), Received(client, m), request)
  BY <1>1, <1>2, ReceivedProtocol
<1>9. Followed(fact, Taken(delivery), Received(client, m))
  BY <1>1, <1>2, ReceivedFollowed
<1>10. Vouched(fact, Taken(delivery), Received(client, m), request)
  BY <1>1, <1>2, ReceivedVouched
<1>. HIDE DEF m
<1>11. DeliveryInv' /\ ProtocolInv' /\ FollowedInv' /\ KnownInv' /\ VouchedInv'
  BY <1>1, <1>3, <1>7, <1>8, <1>9, <1>10
     DEF DeliveryInv, ProtocolInv, KnownInv, FollowedInv, VouchedInv
<1>. QED BY <1>5, <1>6, <1>11 DEF SyncInv

\* A transaction that takes s to g and logs it.
LEMMA RecordKeeps ==
  ASSUME FeedTypes, FeedInv, NEW s \in Sessions, NEW kind \in Kinds, NEW g \in Facts,
         g.meta >= 1, fact[s].rev <= g.rev, NEW more \in {0, 1}, Record(kind, s, g, more)
  PROVE  /\ FeedTypes' /\ FeedInv'
         /\ fact' = [fact EXCEPT ![s] = g] /\ epoch' = epoch
         /\ log' \ log = {Row(kind, s, g, seq + 1)}
         /\ Row(kind, s, g, seq + 1) \in log'
<1> USE SynchronizationAssumption DEF SynchronizationAssumption
<1> DEFINE n == Row(kind, s, g, seq + 1)
<1>1. /\ seq \in Nat /\ seq' \in 1 .. MaxSeq /\ seq' >= seq + 1 /\ epoch' = epoch
      /\ log' = log \cup {n} /\ fact' = [fact EXCEPT ![s] = g]
      /\ fact \in [Sessions -> Facts] /\ log \subseteq LogRows
  BY DEF Record, FeedTypes
<1>2. /\ n.seq = seq + 1 /\ n.kind = kind /\ n.of = s /\ n.meta = g.meta
      /\ n.rev = g.rev /\ n \in LogRows
  BY <1>1 DEF Row, LogRows, Facts
<1>. HIDE DEF n
<1>3. fact' \in [Sessions -> Facts]
  BY <1>1
<1>4. /\ fact'[s] = g
      /\ \A t \in Sessions : t # s => fact'[t] = fact[t]
      /\ \A t \in Sessions :
           fact[t].rev \in Nat /\ fact'[t].rev \in Nat /\ fact[t].rev <= fact'[t].rev
  BY <1>1 DEF Facts
<1>5. FeedTypes'
  BY <1>1, <1>2, <1>3 DEF FeedTypes
<1>6. \A r \in log :
        r.seq \in 1 .. seq /\ r.seq # n.seq /\ r \in LogRows /\ r.of \in Sessions /\ r.rev \in Nat
  BY <1>1, <1>2 DEF FeedInv, LogRows
<1>7. \A r \in log' : r.seq \in 1 .. seq' /\ r.meta >= 1 /\ r.rev <= fact'[r.of].rev
  <2>1. \A r \in log : r.seq \in 1 .. seq' /\ r.meta >= 1 /\ r.rev <= fact'[r.of].rev
    BY <1>1, <1>4, <1>6 DEF FeedInv
  <2>2. n.seq \in 1 .. seq' /\ n.meta >= 1 /\ n.rev <= fact'[n.of].rev
    BY <1>1, <1>2, <1>4 DEF Facts
  <2>. QED BY <1>1, <2>1, <2>2
<1>8. \A r, o \in log' : r.seq = o.seq => r = o
  BY <1>1, <1>6 DEF FeedInv
<1>9. ASSUME NEW r \in log'
      PROVE  \E o \in log' : o.seq >= r.seq /\ o.of = r.of /\ o.rev = fact'[r.of].rev
  <2>1. CASE r.of = s
    <3>1. n.seq >= r.seq
      BY <1>1, <1>2, <1>6
    <3>. QED BY <1>1, <1>2, <1>4, <2>1, <3>1
  <2>2. CASE r.of # s
    <3>1. r \in log /\ r.of \in Sessions
      BY <1>1, <1>2, <1>6, <2>2
    <3>2. PICK o \in log : o.seq >= r.seq /\ o.of = r.of /\ o.rev = fact[r.of].rev
      BY <3>1 DEF FeedInv
    <3>. QED BY <1>1, <1>4, <2>2, <3>1, <3>2
  <2>. QED BY <2>1, <2>2
<1>12. \A t \in Sessions : fact'[t] # Unknown => fact'[t].meta >= 1
  BY <1>4 DEF FeedInv
<1>10. FeedInv'
  BY <1>7, <1>8, <1>9, <1>12 DEF FeedInv
<1>11. n \in log' /\ log' \ log = {n}
  BY <1>1, <1>6
<1>. QED BY <1>1, <1>5, <1>10, <1>11 DEF n

\* A row that tells of s, and a read state that only a "read" row or a Session's first
\* row moves.
News(s) ==
  \E r \in LogRows :
    /\ log' \ log = {r}
    /\ r \in log' /\ r.of = s /\ r.rev = fact'[s].rev
    /\ r.kind = "renamed" => fact'[s].rev = fact[s].rev
    /\ \A t \in Sessions \ {s} : fact'[t] = fact[t]
    /\ \A t \in Sessions : fact[t].rev <= fact'[t].rev
    /\ epoch' = epoch

LEMMA NewsKeeps ==
  ASSUME FeedTypes, FeedInv, NEW s \in Sessions,
         \/ Appear(s)
         \/ \E kind \in {"summary", "renamed"} : Describe(s, kind)
         \/ \E more \in {0, 1} : ChangeReadState(s, more)
  PROVE  FeedTypes' /\ FeedInv' /\ News(s)
<1>1. /\ fact \in [Sessions -> Facts] /\ fact[s] \in Facts /\ fact[s].rev \in Nat
      /\ fact[s].meta \in Nat
  BY DEF FeedTypes, Facts
<1>2. PICK kind \in Kinds, g \in Facts, more \in {0, 1} :
         /\ Record(kind, s, g, more)
         /\ g.meta >= 1 /\ fact[s].rev <= g.rev
         /\ kind = "renamed" => g.rev = fact[s].rev
  <2>1. CASE Appear(s)
    <3>1. [meta |-> 1, rev |-> 1] \in Facts /\ fact[s].rev = 0
      BY <2>1 DEF Appear, Unknown, Facts
    <3>. QED BY <2>1, <3>1 DEF Appear, Kinds
  <2>2. ASSUME NEW kind \in {"summary", "renamed"}, Describe(s, kind)
        PROVE  \E g \in Facts : /\ Record(kind, s, g, 0) /\ g.meta >= 1 /\ fact[s].rev <= g.rev
                                /\ g.rev = fact[s].rev /\ kind \in Kinds
    <3> DEFINE g == [fact[s] EXCEPT !.meta = @ + 1]
    <3>1. g \in Facts /\ g.meta >= 1 /\ g.rev = fact[s].rev
      BY <1>1 DEF Facts
    <3>2. Record(kind, s, g, 0)
      BY <2>2 DEF Describe
    <3>. HIDE DEF g
    <3>. QED BY <1>1, <3>1, <3>2 DEF Kinds
  <2>3. ASSUME NEW more \in {0, 1}, ChangeReadState(s, more)
        PROVE  \E g \in Facts : /\ Record("read", s, g, more) /\ g.meta >= 1 /\ fact[s].rev <= g.rev
    <3> DEFINE g == [fact[s] EXCEPT !.rev = @ + 1]
    <3>1. g \in Facts /\ g.meta = fact[s].meta /\ g.rev = fact[s].rev + 1
      BY <1>1 DEF Facts
    <3>2. Record("read", s, g, more)
      BY <2>3 DEF ChangeReadState
    <3>3. fact[s].meta >= 1
      BY <2>3 DEF ChangeReadState, FeedInv
    <3>. HIDE DEF g
    <3>. QED BY <1>1, <3>1, <3>2, <3>3
  <2>. QED BY <2>1, <2>2, <2>3 DEF Kinds
<1>3. /\ FeedTypes' /\ FeedInv'
      /\ fact' = [fact EXCEPT ![s] = g] /\ epoch' = epoch
      /\ log' \ log = {Row(kind, s, g, seq + 1)}
      /\ Row(kind, s, g, seq + 1) \in log'
  BY <1>1, <1>2, RecordKeeps
<1> DEFINE r == Row(kind, s, g, seq + 1)
<1>4. r.kind = kind /\ r.of = s /\ r.rev = g.rev /\ r \in LogRows
  BY <1>3 DEF Row, FeedTypes
<1>5. /\ fact'[s] = g /\ \A t \in Sessions \ {s} : fact'[t] = fact[t]
      /\ \A t \in Sessions : fact[t].rev <= fact'[t].rev
  BY <1>1, <1>2, <1>3 DEF Facts
<1>. HIDE DEF r
<1>6. News(s)
  BY <1>2, <1>3, <1>4, <1>5 DEF News, r
<1>. QED BY <1>3, <1>6

LEMMA SkipKeeps ==
  ASSUME FeedTypes, FeedInv, Skip \/ UNCHANGED feed
  PROVE  FeedTypes' /\ FeedInv' /\ fact' = fact /\ epoch' = epoch /\ log' = log
<1> USE SynchronizationAssumption DEF SynchronizationAssumption
<1>1. /\ seq \in 1 .. MaxSeq /\ seq' \in 1 .. MaxSeq /\ seq' >= seq
      /\ fact' = fact /\ epoch' = epoch /\ log' = log
  BY DEF Skip, feed, FeedTypes
<1>2. FeedTypes'
  BY <1>1 DEF FeedTypes
<1>3. \A r \in log : r.seq \in 1 .. seq'
  BY <1>1 DEF FeedInv
<1>4. FeedInv'
  BY <1>1, <1>3 DEF FeedInv
<1>. QED BY <1>1, <1>2, <1>4

LEMMA HousekeepKeepsFeed ==
  ASSUME FeedTypes, FeedInv, Forget \/ Rotate
  PROVE  FeedTypes' /\ FeedInv' /\ fact' = fact
<1> USE SynchronizationAssumption DEF SynchronizationAssumption
<1>1. CASE Forget
  <2>1. /\ log' \subseteq log /\ UNCHANGED <<epoch, seq, fact>>
        /\ \A r \in log', o \in log : o \notin log' => o.seq < r.seq
    BY <1>1 DEF Forget
  <2>2. FeedTypes'
    BY <2>1 DEF FeedTypes
  <2>3. ASSUME NEW r \in log'
        PROVE  \E o \in log' : o.seq >= r.seq /\ o.of = r.of /\ o.rev = fact[r.of].rev
    <3>1. r \in log
      BY <2>1
    <3>2. PICK o \in log : o.seq >= r.seq /\ o.of = r.of /\ o.rev = fact[r.of].rev
      BY <3>1 DEF FeedInv
    <3>3. o.seq \in Nat /\ r.seq \in Nat
      BY <3>1 DEF FeedTypes, LogRows
    <3>4. o \in log'
      BY <2>1, <3>2, <3>3
    <3>. QED BY <3>2, <3>4
  <2>4. FeedInv'
    BY <2>1, <2>3 DEF FeedInv
  <2>. QED BY <2>1, <2>2, <2>4
<1>2. CASE Rotate
  BY <1>2 DEF Rotate, FeedTypes, FeedInv
<1>. QED BY <1>1, <1>2

\* The Host only moves on.
LEMMA GrownSound ==
  ASSUME NEW f \in [Sessions -> Facts], NEW g \in [Sessions -> Facts],
         \A s \in Sessions : f[s].rev <= g[s].rev
  PROVE  /\ \A d : Sound(f, d) => Sound(g, d)
         /\ \A c \in Clients : KnownSound(f, c) => KnownSound(g, c)
<1>1. \A s \in Sessions : f[s].rev \in Nat /\ g[s].rev \in Nat
  BY DEF Facts
<1>2. ASSUME NEW m, SoundMessage(f, m) PROVE SoundMessage(g, m)
  <2>1. m \in Messages /\ (m.kind \in Kinds => m \in Changes) /\ (m.kind = "reset" => m \in Resets)
    BY <1>2, KindsOfMessages DEF SoundMessage
  <2>2. CASE m.kind \in Kinds
    <3>1. m.of \in Sessions /\ m.rev \in Nat
      BY <2>1, <2>2 DEF Changes
    <3>. QED BY <1>1, <1>2, <2>1, <2>2, <3>1 DEF SoundMessage, Kinds
  <2>3. CASE m.kind = "reset"
    <3>1. \A s \in Sessions : m.facts[s].rev \in Nat
      BY <2>1, <2>3 DEF Resets, Facts
    <3>2. \A s \in Sessions : m.facts[s].rev <= f[s].rev
      BY <1>2, <2>3 DEF SoundMessage
    <3>3. ASSUME NEW s \in Sessions PROVE m.facts[s].rev <= g[s].rev
      <4>1. m.facts[s].rev \in Nat /\ f[s].rev \in Nat /\ g[s].rev \in Nat
        BY <1>1, <3>1
      <4>2. m.facts[s].rev <= f[s].rev /\ f[s].rev <= g[s].rev
        BY <3>2
      <4>. QED BY <4>1, <4>2
    <3>. QED BY <2>1, <2>3, <3>3 DEF SoundMessage, Kinds
  <2>4. CASE m.kind \notin Kinds /\ m.kind # "reset"
    BY <2>1, <2>4 DEF SoundMessage
  <2>. QED BY <2>2, <2>3, <2>4
<1>3. \A d : Sound(f, d) => Sound(g, d)
  BY <1>2 DEF Sound
<1>4. ASSUME NEW c \in Clients, KnownSound(f, c) PROVE KnownSound(g, c)
  <2>1. \A s \in Sessions : c.known[s].rev \in Nat
    BY DEF Clients, Facts
  <2>. QED BY <1>1, <1>4, <2>1 DEF KnownSound
<1>. QED BY <1>3, <1>4

\* What the rest of the system knows of a delivery.
Served(f, d) ==
  /\ Sound(f, d) /\ Protocol(d, client, request)
  /\ Followed(f, d, client) /\ Vouched(f, d, client, request)

\* An attention summary changes nothing.
LEMMA AttentionServed ==
  ASSUME NEW d, Served(fact, d), NEW told \in Attention,
         epoch \in Nat, seq' \in Nat
  PROVE  Served(fact, Offer(d, told))
<1> DEFINE m == [kind |-> "attention", epoch |-> epoch, seq |-> seq']
<1>1. CASE told = {}
  BY <1>1 DEF Offer
<1>2. CASE told = {m}
  <2>1. (CHOOSE x \in {m} : TRUE) = m
    OBVIOUS
  <2>2. Offer(d, told) = Push(d, m)
    BY <1>2, <2>1 DEF Offer
  <2>3. m \in Plains /\ m.kind = "attention"
    BY DEF Plains
  <2>. HIDE DEF m
  <2>4. SoundMessage(fact, m) /\ m.kind \notin Kinds /\ m \in Messages
    BY <2>3 DEF SoundMessage, Messages, Kinds
  <2>5. Pushed(d, Push(d, m), m) /\ Sound(fact, d)
    BY <2>4, PushIsPushed DEF Served, Sound
  <2>6. Sound(fact, Push(d, m))
    BY <2>4, <2>5, PushedSound
  <2>7. Followed(fact, Push(d, m), client) /\ Vouched(fact, Push(d, m), client, request)
    BY <2>3, <2>4, <2>5, PlainFollowed DEF Served
  <2>8. Protocol(Push(d, m), client, request)
    BY <2>3, <2>5, PushedProtocol DEF Served
  <2>. QED BY <2>2, <2>6, <2>7, <2>8 DEF Served
<1>. QED BY <1>1, <1>2 DEF Attention

\* The news of a Session goes out with its new read state.
LEMMA NewsServed ==
  ASSUME FeedTypes, FeedTypes', FeedInv', ClientTypes, NEW s \in Sessions, News(s),
         NEW d, Served(fact, d)
  PROVE  Served(fact', Offer(d, NewChanges))
<1>1. PICK r \in LogRows :
        /\ log' \ log = {r}
        /\ r \in log' /\ r.of = s /\ r.rev = fact'[s].rev
        /\ r.kind = "renamed" => fact'[s].rev = fact[s].rev
        /\ \A t \in Sessions \ {s} : fact'[t] = fact[t]
        /\ \A t \in Sessions : fact[t].rev <= fact'[t].rev
        /\ epoch' = epoch
  BY DEF News
<1> DEFINE m == Change(r)
           g == fact'
<1>2. NewChanges = {m}
  BY <1>1 DEF NewChanges
<1>3. (CHOOSE x \in {m} : TRUE) = m
  OBVIOUS
<1>4. Offer(d, NewChanges) = Push(d, m)
  BY <1>2, <1>3 DEF Offer
<1>5. /\ epoch \in Nat /\ fact \in [Sessions -> Facts] /\ g \in [Sessions -> Facts]
      /\ r.meta >= 1 /\ r.rev <= g[r.of].rev
  BY <1>1 DEF FeedTypes, FeedInv
<1>6. /\ m \in Changes /\ m.kind = r.kind /\ m.of = r.of /\ m.rev = r.rev
      /\ m.meta = r.meta /\ r.kind \in Kinds
  BY <1>5 DEF Change, Changes, LogRows
<1>. HIDE DEF m, g
<1>7. SoundMessage(g, m) /\ m \in Messages
  BY <1>5, <1>6 DEF SoundMessage, Messages, Kinds
<1>8. Sound(g, d)
  BY <1>1, <1>5, GrownSound DEF Served, g
<1>9. Pushed(d, Push(d, m), m)
  BY <1>7, <1>8, PushIsPushed DEF Sound
<1>10. Sound(g, Push(d, m))
  BY <1>7, <1>8, <1>9, PushedSound
<1>11. client \in Clients
  BY DEF ClientTypes
<1>12. Followed(g, Push(d, m), client) /\ Vouched(g, Push(d, m), client, request)
  <2>1. m.kind \in Kinds /\ m.of = s /\ m.rev = g[s].rev
    BY <1>1, <1>6 DEF g
  <2>2. m.kind = "renamed" => g[s].rev = fact[s].rev
    BY <1>1, <1>6 DEF g
  <2>3. \A t \in Sessions \ {s} : g[t] = fact[t]
    BY <1>1 DEF g
  <2>4. Followed(fact, d, client) /\ Vouched(fact, d, client, request)
    BY DEF Served
  <2>. QED BY <1>8, <1>9, <1>11, <2>1, <2>2, <2>3, <2>4, ChangeFollowed
<1>13. Protocol(Push(d, m), client, request)
  BY <1>6, <1>8, <1>9, PushedProtocol DEF Served, Kinds
<1>14. Served(g, Push(d, m))
  BY <1>10, <1>12, <1>13 DEF Served
<1>. QED BY <1>4, <1>14 DEF g

\* Together with the feed, what is served and what the Client knows is all there is.
LEMMA ServedIsAll ==
  ASSUME FeedTypes', FeedInv', NEW g, NEW d, g = fact', d = delivery',
         UNCHANGED <<request, client>>, ClientTypes, Served(g, d), KnownSound(g, client)
  PROVE  SyncInv'
<1>1. ClientTypes'
  BY DEF ClientTypes
<1>2. DeliveryInv' /\ ProtocolInv' /\ FollowedInv' /\ KnownInv' /\ VouchedInv'
  BY DEF Served, DeliveryInv, ProtocolInv, KnownInv, FollowedInv, VouchedInv
<1>. QED BY <1>1, <1>2 DEF SyncInv

LEMMA PublishKeeps ==
  ASSUME SyncInv, NEW s \in Sessions, PublishChange(s) \/ PublishProgress(s)
  PROVE  SyncInv'
<1>1. /\ FeedTypes /\ FeedInv /\ ClientTypes /\ KnownSound(fact, client) /\ Served(fact, delivery)
      /\ client \in Clients /\ fact \in [Sessions -> Facts] /\ epoch \in Nat
  BY DEF SyncInv, Served, DeliveryInv, ProtocolInv, KnownInv, FollowedInv, VouchedInv,
         ClientTypes, FeedTypes
<1>2. UNCHANGED <<request, client>>
  BY DEF PublishChange, PublishProgress
<1>3. \E told \in Attention \cup {{}} : delivery' = Offer(Offer(delivery, told), NewChanges)
  <2>1. CASE PublishChange(s)
    <3>1. Offer(delivery, {}) = delivery
      BY DEF Offer
    <3>. QED BY <2>1, <3>1 DEF PublishChange
  <2>2. CASE PublishProgress(s)
    BY <2>2 DEF PublishProgress
  <2>. QED BY <2>1, <2>2
<1>4. PICK told \in Attention : delivery' = Offer(Offer(delivery, told), NewChanges)
  BY <1>3 DEF Attention
<1> DEFINE d == Offer(delivery, told)
<1>5. ASSUME FeedTypes' PROVE Served(fact, d)
  <2>1. seq' \in Nat
    BY <1>5 DEF FeedTypes
  <2>. QED BY <1>1, <2>1, AttentionServed
<1>. HIDE DEF d
<1>6. CASE \/ Appear(s)
           \/ \E kind \in {"summary", "renamed"} : Describe(s, kind)
           \/ \E more \in {0, 1} : ChangeReadState(s, more)
  <2>1. FeedTypes' /\ FeedInv' /\ News(s)
    BY <1>1, <1>6, NewsKeeps
  <2>2. Served(fact', Offer(d, NewChanges))
    BY <1>1, <1>5, <2>1, NewsServed
  <2>3. fact' \in [Sessions -> Facts] /\ \A t \in Sessions : fact[t].rev <= fact'[t].rev
    BY <2>1 DEF FeedTypes, News
  <2>4. KnownSound(fact', client)
    BY <1>1, <2>3, GrownSound
  <2>. QED BY <1>1, <1>2, <1>4, <2>1, <2>2, <2>4, ServedIsAll DEF d
<1>7. CASE Skip \/ UNCHANGED feed
  <2>1. FeedTypes' /\ FeedInv' /\ fact' = fact /\ log' = log
    BY <1>1, <1>7, SkipKeeps
  <2>2. NewChanges = {}
    BY <2>1 DEF NewChanges
  <2>3. delivery' = d
    BY <1>4, <2>2 DEF Offer, d
  <2>4. Served(fact', d) /\ KnownSound(fact', client)
    BY <1>1, <1>5, <2>1
  <2>. QED BY <1>1, <1>2, <2>1, <2>3, <2>4, ServedIsAll
<1>. QED BY <1>6, <1>7 DEF PublishChange, PublishProgress

LEMMA HousekeepKeeps ==
  ASSUME SyncInv, Housekeep \/ UNCHANGED syncVars
  PROVE  SyncInv'
<1>1. FeedTypes' /\ FeedInv' /\ fact' = fact /\ UNCHANGED <<delivery, request, client>>
  <2>1. CASE Housekeep
    BY <2>1, HousekeepKeepsFeed DEF Housekeep, SyncInv
  <2>2. CASE UNCHANGED syncVars
    BY <2>2, SkipKeeps DEF syncVars, SyncInv
  <2>. QED BY <2>1, <2>2
<1>2. ClientTypes /\ Served(fact, delivery) /\ KnownSound(fact, client)
  BY DEF SyncInv, Served, DeliveryInv, ProtocolInv, KnownInv, FollowedInv, VouchedInv
<1>3. Served(fact', delivery') /\ KnownSound(fact', client)
  BY <1>1, <1>2
<1>. QED BY <1>1, <1>2, <1>3, ServedIsAll

LEMMA ConnectKeeps ==
  ASSUME SyncInv, Connect \/ Disconnect
  PROVE  SyncInv'
<1> USE SynchronizationAssumption DEF SynchronizationAssumption
<1> DEFINE m == Plain("snapshot", seq)
           opened == [open |-> TRUE, queue |-> <<m>>]
<1>1. /\ epoch \in Nat /\ seq \in Nat /\ client \in Clients /\ request \in Requests
      /\ KnownSound(fact, client) /\ Protocol(delivery, client, request)
      /\ UNCHANGED <<epoch, seq, log, fact>>
  BY DEF SyncInv, FeedTypes, ClientTypes, KnownInv, ProtocolInv, Connect, Disconnect, feed
<1>2. FeedTypes' /\ FeedInv'
  BY <1>1 DEF SyncInv, FeedTypes, FeedInv
<1>3. CASE Connect
  <2>1. /\ client.state = "offline" /\ delivery' = opened /\ request' = request
        /\ client' = [client EXCEPT !.state = "connecting"] /\ ~request.asked
    BY <1>1, <1>3 DEF Connect, Protocol
  <2>2. m \in Plains /\ m.kind = "snapshot"
    BY <1>1 DEF Plain, Plains
  <2>3. <<m>> \in Seq(Messages) /\ Len(<<m>>) = 1 /\ <<m>>[1] = m
    BY <2>2 DEF Messages
  <2>4. SoundMessage(fact, m)
    BY <2>2 DEF SoundMessage, Messages, Kinds
  <2>5. client' \in Clients /\ client'.state = "connecting"
        /\ client'.known = client.known /\ client'.vouched = client.vouched
    BY <1>1, <2>1 DEF Clients, ClientStates
  <2>. HIDE DEF m
  <2>6. /\ opened.open /\ Len(opened.queue) = 1 /\ opened.queue[1] = m
        /\ opened \in Deliveries
    BY <2>3 DEF Deliveries
  <2>. HIDE DEF opened
  <2>7. Sound(fact, opened)
    BY <2>4, <2>6 DEF Sound
  <2>8. ClientTypes' /\ KnownInv'
    BY <1>1, <2>1, <2>5 DEF ClientTypes, KnownInv, KnownSound
  <2>9. DeliveryInv'
    BY <1>1, <2>1, <2>7 DEF DeliveryInv
  <2>10. ProtocolInv'
    BY <2>1, <2>2, <2>5, <2>6 DEF ProtocolInv, Protocol
  <2>11. FollowedInv'
    BY <2>1, <2>2, <2>6 DEF FollowedInv, Followed, Whole
  <2>12. VouchedInv'
    BY <2>1, <2>5 DEF VouchedInv, Vouched, Steady, Following
  <2>. QED BY <1>2, <2>8, <2>9, <2>10, <2>11, <2>12 DEF SyncInv
<1>4. CASE Disconnect
  <2>1. /\ delivery' = Closed /\ request' = NoRequest
        /\ client' = [client EXCEPT !.state = "offline", !.vouched = {}]
    BY <1>4 DEF Disconnect
  <2>2. client' \in Clients /\ client'.state = "offline"
        /\ client'.known = client.known /\ client'.vouched = {}
    BY <1>1, <2>1 DEF Clients, ClientStates
  <2>3. NoRequest \in Requests /\ ~NoRequest.asked
    <3>1. Nothing \in [Sessions -> Facts]
      BY DEF Nothing, Unknown, Facts
    <3>. QED BY <3>1 DEF NoRequest, None, Requests, Cursors
  <2>4. Closed \in Deliveries /\ ~Closed.open /\ Len(Closed.queue) = 0
    <3>1. <<>> \in Seq(Messages)
      OBVIOUS
    <3>. QED BY <3>1 DEF Closed, Deliveries
  <2>5. Sound(fact, Closed)
    BY <2>4 DEF Sound
  <2>6. ClientTypes' /\ KnownInv'
    BY <1>1, <2>1, <2>2, <2>3 DEF ClientTypes, KnownInv, KnownSound
  <2>7. DeliveryInv'
    BY <1>1, <2>1, <2>5 DEF DeliveryInv
  <2>8. ProtocolInv'
    BY <2>1, <2>3, <2>4 DEF ProtocolInv, Protocol
  <2>9. FollowedInv' /\ VouchedInv'
    BY <2>1, <2>4 DEF FollowedInv, Followed, VouchedInv, Vouched
  <2>. QED BY <1>2, <2>6, <2>7, <2>8, <2>9 DEF SyncInv
<1>. QED BY <1>3, <1>4

LEMMA SetScopeKeeps ==
  ASSUME SyncInv, SetScope
  PROVE  SyncInv'
<1>1. /\ client.state = "connected" /\ delivery.open
      /\ UNCHANGED <<epoch, seq, log, fact, delivery>>
      /\ client \in Clients /\ request \in Requests /\ fact \in [Sessions -> Facts]
      /\ Sound(fact, delivery) /\ Protocol(delivery, client, request)
      /\ KnownSound(fact, client) /\ Followed(fact, delivery, client)
  BY DEF SyncInv, DeliveryInv, ProtocolInv, KnownInv, FollowedInv, ClientTypes, FeedTypes,
         SetScope, feed
<1>2. FeedTypes' /\ FeedInv'
  BY <1>1 DEF SyncInv, FeedTypes, FeedInv
<1>3. DeliveryInv'
  BY <1>1 DEF DeliveryInv
<1>4. \A i \in 1 .. Len(delivery.queue) :
           delivery.queue[i].kind \notin {"snapshot", "reset", "current"}
  BY <1>1 DEF Protocol, Following
<1>5. ASSUME NEW c \in Clients, client' = c, c.state = "asked" PROVE ProtocolInv' /\ FollowedInv'
  <2>1. Protocol(delivery, c, request')
    BY <1>1, <1>4, <1>5 DEF Protocol
  <2>2. ~Steady(delivery, client)
    BY <1>1 DEF Steady, Following
  <2>3. \A i : WholeFollowed(fact, delivery, client, i) => WholeFollowed(fact, delivery, c, i)
    BY <2>2 DEF WholeFollowed
  <2>4. Followed(fact, delivery, c)
    BY <1>1, <2>3 DEF Followed
  <2>. QED BY <1>1, <1>5, <2>1, <2>4 DEF ProtocolInv, FollowedInv
<1>6. CASE /\ request' = [asked |-> TRUE, cursor |-> client.cursor, claims |-> client.known]
           /\ client' = [client EXCEPT !.state = "asked", !.vouched = Known(client.known)]
  <2> DEFINE c == [client EXCEPT !.state = "asked", !.vouched = Known(client.known)]
  <2>1. c \in Clients /\ c.state = "asked" /\ c.known = client.known
        /\ c.vouched = Known(client.known)
    <3>1. Known(client.known) \subseteq Sessions
      BY DEF Known
    <3>. QED BY <1>1, <3>1 DEF Clients, ClientStates
  <2>2. client' = c
    BY <1>6
  <2>. HIDE DEF c
  <2>3. request' \in Requests /\ request'.asked /\ request'.claims = client.known
    BY <1>1, <1>6 DEF Requests, Clients
  <2>4. ClientTypes' /\ KnownInv'
    BY <1>1, <2>1, <2>2, <2>3 DEF ClientTypes, KnownInv, KnownSound
  <2>5. \A s \in c.vouched : client.known[s].meta # 0 /\ client.known[s].rev \in Nat
    BY <1>1, <2>1 DEF Known, Clients, Facts
  <2>6. VouchedInv'
    BY <2>1, <2>2, <2>3, <2>5 DEF VouchedInv, Vouched, Claimed
  <2>. QED BY <1>2, <1>3, <1>5, <2>1, <2>2, <2>4, <2>6 DEF SyncInv
<1>7. CASE /\ request' = [NoRequest EXCEPT !.asked = TRUE]
           /\ client' = [Blank EXCEPT !.state = "asked"]
  <2> DEFINE c == [Blank EXCEPT !.state = "asked"]
  <2>1. Nothing \in [Sessions -> Facts] /\ \A s \in Sessions : Nothing[s].rev = 0
    BY DEF Nothing, Unknown, Facts
  <2>2. c \in Clients /\ c.state = "asked" /\ c.known = Nothing /\ c.vouched = {}
    BY <2>1 DEF Blank, None, Clients, ClientStates, Cursors
  <2>3. client' = c
    BY <1>7
  <2>. HIDE DEF c
  <2>4. request' \in Requests
    BY <1>7, <2>1 DEF NoRequest, None, Requests, Cursors
  <2>5. KnownSound(fact, c)
    <3>1. \A s \in Sessions : 0 <= fact[s].rev
      BY <1>1 DEF Facts
    <3>. QED BY <2>1, <2>2, <3>1 DEF KnownSound
  <2>6. ClientTypes' /\ KnownInv'
    BY <1>1, <2>2, <2>3, <2>4, <2>5 DEF ClientTypes, KnownInv
  <2>7. VouchedInv'
    BY <2>2, <2>3 DEF VouchedInv, Vouched
  <2>. QED BY <1>2, <1>3, <1>5, <2>2, <2>3, <2>6, <2>7 DEF SyncInv
<1>. QED BY <1>6, <1>7 DEF SetScope

LEMMA SyncInvInit == SyncInit => SyncInv
<1> SUFFICES ASSUME SyncInit PROVE SyncInv
  OBVIOUS
<1> USE SynchronizationAssumption DEF SynchronizationAssumption
<1>1. /\ epoch = 1 /\ seq = 1 /\ log = {} /\ fact = Nothing
      /\ delivery = Closed /\ request = NoRequest /\ client = Blank
  BY DEF SyncInit, FeedInit, Nothing
<1>2. /\ Nothing \in [Sessions -> Facts]
      /\ \A s \in Sessions : Nothing[s] = Unknown /\ Nothing[s].rev = 0
  BY DEF Nothing, Unknown, Facts
<1>3. FeedTypes /\ FeedInv
  BY <1>1, <1>2 DEF FeedTypes, FeedInv
<1>4. NoRequest \in Requests /\ ~NoRequest.asked
  BY <1>2 DEF NoRequest, None, Requests, Cursors
<1>5. Blank \in Clients /\ Blank.known = Nothing /\ Blank.vouched = {} /\ Blank.state = "offline"
  BY <1>2 DEF Blank, None, Clients, ClientStates, Cursors
<1>6. ClientTypes /\ KnownInv
  BY <1>1, <1>2, <1>4, <1>5 DEF ClientTypes, KnownInv, KnownSound
<1>7. Closed \in Deliveries /\ ~Closed.open /\ Len(Closed.queue) = 0
  <2>1. <<>> \in Seq(Messages)
    OBVIOUS
  <2>. QED BY <2>1 DEF Closed, Deliveries
<1>8. DeliveryInv
  BY <1>1, <1>7 DEF DeliveryInv, Sound
<1>9. ProtocolInv /\ FollowedInv /\ VouchedInv
  BY <1>1, <1>4, <1>7 DEF ProtocolInv, Protocol, FollowedInv, Followed, VouchedInv, Vouched
<1>. QED BY <1>3, <1>6, <1>8, <1>9 DEF SyncInv

\* What the log, a delivery, a request and a Client know together, for any number of
\* Sessions and any bounds.
THEOREM SyncInvCorrect == SyncSpec => []SyncInv
<1>1. SyncInv /\ [SyncNext]_syncVars => SyncInv'
  <2> SUFFICES ASSUME SyncInv, [SyncNext]_syncVars PROVE SyncInv'
    OBVIOUS
  <2>1. ASSUME NEW s \in Sessions, PublishChange(s) \/ PublishProgress(s) PROVE SyncInv'
    BY <2>1, PublishKeeps
  <2>2. CASE Housekeep \/ UNCHANGED syncVars
    BY <2>2, HousekeepKeeps
  <2>3. CASE Synchronize
    BY <2>3, SynchronizeKeeps
  <2>4. CASE Connect \/ Disconnect
    BY <2>4, ConnectKeeps
  <2>5. CASE SetScope
    BY <2>5, SetScopeKeeps
  <2>6. CASE Receive
    BY <2>6, ReceiveKeeps
  <2>. QED BY <2>1, <2>2, <2>3, <2>4, <2>5, <2>6 DEF SyncNext
<1>. QED BY <1>1, SyncInvInit, PTL DEF SyncSpec

\* Deliveries stay within maxOutboundBytes, and everything keeps its type.
THEOREM SyncTypeCorrect == SyncSpec => []SyncTypeOK
<1>1. SyncInv => SyncTypeOK
  <2> SUFFICES ASSUME SyncInv PROVE SyncTypeOK
    OBVIOUS
  <2>1. \A r \in log : r.kind \in Kinds /\ r.seq \in 1 .. seq
    BY DEF SyncInv, FeedTypes, FeedInv, LogRows
  <2>2. delivery.open \in BOOLEAN /\ Len(delivery.queue) <= Limit
        /\ (~delivery.open => Len(delivery.queue) <= 1)
    BY DEF SyncInv, DeliveryInv, Sound, Deliveries
  <2>3. /\ request.asked \in BOOLEAN /\ client.vouched \subseteq Sessions
        /\ client.state \in {"offline", "connecting", "connected", "asked", "current"}
    BY DEF SyncInv, ClientTypes, Requests, Clients, ClientStates
  <2>4. /\ epoch \in 1 .. MaxEpochs /\ seq \in 1 .. MaxSeq
        /\ fact \in [Sessions -> [meta : Nat, rev : Nat]]
    BY DEF SyncInv, FeedTypes, Facts
  <2>. QED BY <2>1, <2>2, <2>3, <2>4 DEF SyncTypeOK
<1>. QED BY <1>1, SyncInvCorrect, PTL

\* SPEC.md:362: a Client that was told it is current and has received everything holds
\* the read states the Host holds.
THEOREM CurrentReadCorrect == SyncSpec => []CurrentReadIsTrue
<1>1. SyncInv => CurrentReadIsTrue
  <2> SUFFICES ASSUME SyncInv, Settled, NEW s \in client.vouched
               PROVE  client.known[s].rev = fact[s].rev
    BY DEF CurrentReadIsTrue
  <2>1. /\ client.state = "current" /\ delivery.open /\ delivery.queue = <<>>
        /\ Len(delivery.queue) = 0
    BY DEF Settled
  <2>2. Steady(delivery, client) /\ ~request.asked
    BY <2>1 DEF Steady, Following, SyncInv, ProtocolInv, Protocol
  <2>3. ~Coming(fact, delivery, 1, s)
    BY <2>1 DEF Coming
  <2>. QED BY <2>1, <2>2, <2>3 DEF SyncInv, VouchedInv, Vouched, Holds
<1>. QED BY <1>1, SyncInvCorrect, PTL

=============================================================================
