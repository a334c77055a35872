--------------------------- MODULE SessionProofs ---------------------------
(***************************************************************************)
(* A Session, in the Host and in the PWA.                                  *)
(*                                                                         *)
(* For every number of Runs, crashes and faults: the types of SessionRuns, *)
(* that no prompt is dispatched twice, that an accepted Stop is escalated  *)
(* and quotes the generation of the Run it names, that an archived Session *)
(* stays quiet, and that the Session implements RunContract.               *)
(*                                                                         *)
(* For every number of Sessions, changes, calls and mishaps: that what a   *)
(* View of ClientView has marked read was on the screen, and that the      *)
(* attention it shows does not fall behind its basis.                      *)
(***************************************************************************)
EXTENDS SessionRuns, ClientView, SequenceTheorems, WellFoundedInduction, TLAPS

USE DEF At, Ready

-----------------------------------------------------------------------------
(* Types.  The sets of states and handlers stay opaque behind these facts. *)

\* The states Runs and interactions can be in, and that the terminal ones are among them.
LEMMA States ==
  /\ {"none", "queued", "executing", "cancelling", "held"} \subseteq RunStates
  /\ {"completed", "failed", "cancelled", "interrupted"} \subseteq RunStates
  /\ {"none", "open", "resolving", "closed"} \subseteq AskStates
BY DEF RunStates, Terminal, AskStates

\* Runs are numbers from 1, so 0 names no Run.
LEMMA RunsAreNumbers ==
  /\ Runs \subseteq 0 .. MaxRuns
  /\ 0 \in 0 .. MaxRuns
  /\ \A p \in 0 .. MaxRuns : p # 0 => p \in Runs
BY SessionRunsAssumption DEF Runs

\* The names of the steps of a callback.
LEMMA StepNames ==
  \A at \in {"idle", "dispatch", "stage", "settle", "cancel", "next", "catch",
             "fail", "lost", "interrupt", "recover", "hold", "sleep", "escalate",
             "answer", "reconcile"} : at \in Steps
BY DEF Steps

\* Every handler value the actions assign is well formed.
LEMMA Handling ==
  /\ WellFormed(Idle)
  /\ \A at \in Steps, r \in Runs : WellFormed(Step(at, r))
  /\ \A p \in 0 .. MaxRuns : WellFormed(Step("reconcile", p))
  /\ \A p \in 0 .. MaxRuns : WellFormed(Rethrow(p))
  /\ \A r \in Runs, p \in 0 .. MaxRuns : WellFormed([at |-> "dispatch", run |-> r, by |-> p])
BY RunsAreNumbers, StepNames DEF WellFormed, Handlers, Idle, Step, Rethrow

\* A pending callback belongs to a Run, and moving it to another step keeps it well formed.
LEMMA Pending ==
  ASSUME NEW h, WellFormed(h)
  PROVE  /\ h.run \in 0 .. MaxRuns
         /\ h.by \in 0 .. MaxRuns
         /\ h.at \notin {"idle", "reconcile"} =>
              h.run \in Runs /\ \A at \in Steps : WellFormed([h EXCEPT !.at = at])
BY DEF WellFormed, Handlers

\* The variables start within their types.
LEMMA TypeInit == Init => TypeOK
<1> SUFFICES ASSUME Init PROVE TypeOK
  OBVIOUS
<1> USE SessionRunsAssumption, RunsAreNumbers, States DEF Init
<1>1. run \in [Runs -> RunStates] /\ ask \in [Runs -> AskStates]
  OBVIOUS
<1>2. steering \in [Runs -> {"none", "accepted", "applied", "unapplied"}]
  OBVIOUS
<1>3. worker \in [Runs -> 0 .. MaxRuns] /\ stopGen \in [Runs -> 0 .. MaxRuns]
  OBVIOUS
<1>4. timer \in [Runs -> {"off", "cooperative", "reconcile"}]
  OBVIOUS
<1>5. crashes \in Nat /\ faults \in Nat
  OBVIOUS
<1> QED
  BY <1>1, <1>2, <1>3, <1>4, <1>5, Handling DEF TypeOK

\* A client's command on a Run keeps the types.
LEMMA TypeCommand ==
  ASSUME TypeOK, NEW r \in Runs, Command(r)
  PROVE  TypeOK'
<1> USE States, RunsAreNumbers, StepNames, Handling, Pending
    DEF TypeOK, durable, volatile, history
<1>1. CASE Submit(r)
  BY <1>1 DEF Submit, Accept
<1>2. CASE FollowUp(r)
  BY <1>2 DEF FollowUp, Accept
<1>3. CASE Release(r)
  BY <1>3 DEF Release
<1>4. CASE CancelQueued(r)
  BY <1>4 DEF CancelQueued
<1>5. CASE Stop(r)
  BY <1>5 DEF Stop, Unapplied, Closed
<1>6. CASE Steer(r)
  BY <1>6 DEF Steer
<1>7. CASE Resolve(r)
  BY <1>7 DEF Resolve
<1> QED
  BY <1>1, <1>2, <1>3, <1>4, <1>5, <1>6, <1>7 DEF Command

\* A step of an execution, or a timer, keeps the types.
LEMMA TypeExecution ==
  ASSUME TypeOK, NEW r \in Runs, Execution(r) \/ Timeout(r)
  PROVE  TypeOK'
<1> USE States, RunsAreNumbers, StepNames, Handling, Pending
    DEF TypeOK, durable, volatile, history
<1>1. CASE PiReturns(r)
  BY <1>1 DEF PiReturns, Ends
<1>2. CASE PiFails(r)
  BY <1>2 DEF PiFails, Ends
<1>3. CASE PiLost(r)
  BY <1>3 DEF PiLost, Ends
<1>4. CASE AskOpens(r)
  BY <1>4 DEF AskOpens
<1>5. CASE \E outcome \in {"applied", "unapplied"} : SteerSettles(r, outcome)
  BY <1>5 DEF SteerSettles
<1>6. CASE CooperativeTimeout(r)
  BY <1>6 DEF CooperativeTimeout
<1>7. CASE ReconcileTimeout(r)
  <2>1. run' \in [Runs -> RunStates] /\ timer' \in [Runs -> {"off", "cooperative", "reconcile"}]
    BY <1>7 DEF ReconcileTimeout
  <2>2. gen' \in 0 .. MaxRuns /\ resolver' \subseteq Runs /\ ask' \in [Runs -> AskStates]
    BY <1>7 DEF ReconcileTimeout, Invalidate, Closed
  <2> QED
    BY <1>7, <2>1, <2>2 DEF ReconcileTimeout
<1>8. CASE Expire(r)
  BY <1>8 DEF Expire, Closed
<1> QED
  BY <1>1, <1>2, <1>3, <1>4, <1>5, <1>6, <1>7, <1>8 DEF Execution, Timeout

\* Every step of a started callback keeps the types.
LEMMA TypeHandlerStep ==
  ASSUME TypeOK, HandlerStep
  PROVE  TypeOK'
<1> USE States, RunsAreNumbers, StepNames, Handling, Pending
    DEF TypeOK, durable, volatile, history
<1>1. CASE DispatchUncontained
  BY <1>1 DEF DispatchUncontained
<1>2. CASE DispatchContained
  BY <1>2 DEF DispatchContained
<1>3. CASE Stage
  BY <1>3 DEF Stage
<1>4. CASE SettleCompleted
  BY <1>4 DEF SettleCompleted, Settle
<1>5. CASE SettleCooperative
  BY <1>5 DEF SettleCooperative, Settle
<1>6. CASE DispatchNext
  <2>1. CASE UNCHANGED run
    BY <1>6, <2>1 DEF DispatchNext
  <2>2. CASE ~UNCHANGED run
    <3>1. PICK s \in Runs :
            /\ run' = [run EXCEPT ![s] = "executing"]
            /\ handler' = [at |-> "dispatch", run |-> s, by |-> handler.run]
      BY <1>6, <2>2 DEF DispatchNext
    <3>2. WellFormed(handler')
      BY <3>1
    <3> QED
      BY <1>6, <3>1, <3>2 DEF DispatchNext
  <2> QED
    BY <2>1, <2>2
<1>7. CASE CatchCancelling
  BY <1>7 DEF CatchCancelling, Invalidate, Closed
<1>8. CASE CatchError
  BY <1>8 DEF CatchError, Invalidate, Closed
<1>9. CASE SettleFailed
  BY <1>9 DEF SettleFailed, Settle
<1>10. CASE HoldQueued
  BY <1>10 DEF HoldQueued, HeldQueue
<1>11. CASE SettleInterrupted
  BY <1>11 DEF SettleInterrupted, Settle
<1>12. CASE RecoverWorkerLoss
  BY <1>12 DEF RecoverWorkerLoss, Unapplied, Closed
<1>13. CASE HoldAndSleep
  BY <1>13 DEF HoldAndSleep, HeldQueue
<1>14. CASE Escalate
  BY <1>14 DEF Escalate, Unapplied
<1>15. CASE Answered
  BY <1>15 DEF Answered, Closed
<1>16. CASE ReconcileEnds
  BY <1>16 DEF ReconcileEnds, HeldQueue
<1>17. CASE \E r \in Runs : ReconcileRun(r)
  <2>1. PICK r \in Runs : ReconcileRun(r)
    BY <1>17
  <2>2. WellFormed(handler')
    BY <2>1 DEF ReconcileRun
  <2>3. run' \in [Runs -> RunStates]
    BY <2>1 DEF ReconcileRun
  <2>4. evidence' \subseteq Runs
    BY <2>1 DEF ReconcileRun
  <2>5. UNCHANGED <<residency, availability, ask, steering, up, gen, job, inflight,
                    worker, timer, stopGen, resolver, steerPending, history>>
    BY <2>1 DEF ReconcileRun
  <2> QED
    BY <2>2, <2>3, <2>4, <2>5
<1> QED
  BY <1>1, <1>2, <1>3, <1>4, <1>5, <1>6, <1>7, <1>8, <1>9, <1>10, <1>11, <1>12, <1>13, <1>14, <1>15, <1>16, <1>17 DEF HandlerStep

\* Losing the process keeps the types.
LEMMA LoseKeepsTypes ==
  ASSUME TypeOK, Lose, crashes' \in Nat, faults' \in Nat
  PROVE  TypeOK'
<1> USE RunsAreNumbers, Handling DEF TypeOK, durable, Lose
<1>1. timer' \in [Runs -> {"off", "cooperative", "reconcile"}] /\ stopGen' \in [Runs -> 0 .. MaxRuns]
  OBVIOUS
<1> QED
  BY <1>1

\* Sleep, archive, restore, faults, loss and restart keep the types.
LEMMA TypeRest ==
  ASSUME TypeOK, 
         \/ Sleep \/ Archive \/ Restore
         \/ StorageFault \/ DispatchFault \/ RecoveryFault \/ Crash \/ Restart
  PROVE  TypeOK'
<1> USE States, RunsAreNumbers, StepNames, Handling, Pending
    DEF TypeOK, durable, volatile, history
<1>1. CASE Sleep
  BY <1>1 DEF Sleep, CloseWorker
<1>2. CASE Archive
  BY <1>2 DEF Archive, CloseWorker
<1>3. CASE Restore
  BY <1>3 DEF Restore
<1>4. CASE StorageFault
  BY <1>4 DEF StorageFault, Fault
<1>5. CASE DispatchFault
  <2> DEFINE g == IF gen = 0 THEN handler.run ELSE gen
  <2>1. g \in 0 .. MaxRuns
    BY <1>5 DEF DispatchFault
  <2>2. \/ gen' = g /\ worker' = [worker EXCEPT ![handler.run] = g] /\ job' = TRUE
        \/ UNCHANGED <<gen, worker, job>>
    BY <1>5 DEF DispatchFault
  <2>3. gen' \in 0 .. MaxRuns /\ worker' \in [Runs -> 0 .. MaxRuns] /\ job' \in BOOLEAN
    <3> HIDE DEF g
    <3>1. CASE gen' = g /\ worker' = [worker EXCEPT ![handler.run] = g] /\ job' = TRUE
      BY <2>1, <3>1
    <3>2. CASE UNCHANGED <<gen, worker, job>>
      BY <3>2
    <3> QED
      BY <2>2, <3>1, <3>2
  <2>4. WellFormed(handler') /\ faults' \in Nat
    BY <1>5 DEF DispatchFault, Fault
  <2> QED
    BY <1>5, <2>3, <2>4 DEF DispatchFault, Fault
<1>6. CASE RecoveryFault
  <2>1. Lose /\ crashes' \in Nat /\ faults' \in Nat
    BY <1>6 DEF RecoveryFault
  <2> QED
    BY <2>1, LoseKeepsTypes
<1>7. CASE Crash
  <2>1. Lose /\ crashes' \in Nat /\ faults' \in Nat
    BY <1>7 DEF Crash
  <2> QED
    BY <2>1, LoseKeepsTypes
<1>8. CASE Restart
  BY <1>8 DEF Restart
<1> QED
  BY <1>1, <1>2, <1>3, <1>4, <1>5, <1>6, <1>7, <1>8

\* Every reachable state of the Session has the types of its variables.
THEOREM TypeCorrect == Spec => []TypeOK
<1>1. TypeOK /\ [Next]_vars => TypeOK'
  <2> SUFFICES ASSUME TypeOK, [Next]_vars PROVE TypeOK'
    OBVIOUS
  <2>1. CASE UNCHANGED vars
    BY <2>1 DEF TypeOK, vars, durable, volatile, history
  <2> QED
    BY <2>1, TypeCommand, TypeExecution, TypeHandlerStep, TypeRest DEF Next
<1> QED
  BY <1>1, TypeInit, PTL DEF Spec

-----------------------------------------------------------------------------
(* The inductive invariant, and the contract of one step.                  *)

\* How the state of one Run may change, and on what proof, in one step.
RunMoves ==
  {<<"none", "queued">>, <<"none", "executing">>,
   <<"queued", "executing">>, <<"queued", "held">>, <<"queued", "cancelled">>,
   <<"held", "executing">>, <<"held", "queued">>, <<"held", "cancelled">>,
   <<"executing", "cancelling">>, <<"executing", "completed">>,
   <<"executing", "failed">>, <<"executing", "interrupted">>,
   <<"cancelling", "cancelled">>, <<"cancelling", "interrupted">>}

RunStep ==
  /\ \A r \in Runs : run'[r] # run[r] => <<run[r], run'[r]>> \in RunMoves
  /\ \A r \in Runs : run[r] = "executing" /\ run'[r] = "completed" => r \in returned
  /\ \/ UNCHANGED returned
     \/ UNCHANGED run /\ \E r \in Runs : Begun(r) /\ returned' = returned \cup {r}

Kept == CallbackInv' /\ OneExecuting' /\ DispatchedOnce' /\ EvidenceProved' /\ RunStep

\* Steps that change neither the Runs nor what is known of their executions.
LEMMA QuietStep ==
  ASSUME SessionInv, UNCHANGED <<run, returned, worker, evidence>>,
         inflight' \subseteq inflight, CallbackInv'
  PROVE  Kept
BY DEF Kept, SessionInv, OneExecuting, DispatchedOnce, EvidenceProved, RunStep, Begun,
       Live, Terminal

\* A client's command keeps the inductive invariant and moves each Run as allowed.
LEMMA KeptByCommand ==
  ASSUME SessionInv, NEW r \in Runs, Command(r)
  PROVE  Kept
<1> USE DEF SessionInv, TypeOK
<1> USE DEF CallbackInv, Step, Idle
<1>1. CASE Submit(r)
  BY <1>1 DEF Submit, Accept, QueueActive, NextOrder, Kept, OneExecuting, DispatchedOnce,
     EvidenceProved, RunStep, RunMoves, Begun, Live, Terminal, history
<1>2. CASE FollowUp(r)
  BY <1>2 DEF FollowUp, Accept, QueueActive, NextOrder, Kept, OneExecuting, DispatchedOnce,
     EvidenceProved, RunStep, RunMoves, Begun, Live, Terminal, history
<1>3. CASE Release(r)
  BY <1>3 DEF Release, Kept, OneExecuting, DispatchedOnce,
     EvidenceProved, RunStep, RunMoves, Begun, Live, Terminal, history
<1>4. CASE CancelQueued(r)
  BY <1>4 DEF CancelQueued, Waiting, Kept, OneExecuting, DispatchedOnce,
     EvidenceProved, RunStep, RunMoves, Begun, Live, Terminal, history, volatile
<1>5. CASE Stop(r)
  BY <1>5 DEF Stop, Waiting, Kept, OneExecuting, DispatchedOnce,
     EvidenceProved, RunStep, RunMoves, Begun, Live, Terminal, history
<1>6. CASE Steer(r)
  <2>1. CallbackInv'
    BY <1>6 DEF Steer, history
  <2> QED
    BY <1>6, <2>1, QuietStep DEF Steer, history
<1>7. CASE Resolve(r)
  <2>1. CallbackInv'
    BY <1>7 DEF Resolve, history
  <2> QED
    BY <1>7, <2>1, QuietStep DEF Resolve, history
<1> QED
  BY <1>1, <1>2, <1>3, <1>4, <1>5, <1>6, <1>7 DEF Command

\* A step of an execution, or a timer, keeps the inductive invariant.
LEMMA KeptByExecution ==
  ASSUME SessionInv, NEW r \in Runs, Execution(r) \/ Timeout(r)
  PROVE  Kept
<1> USE DEF SessionInv, TypeOK
<1> USE Pending, RunsAreNumbers DEF CallbackInv, Step, Idle, Rethrow
<1>1. CASE PiReturns(r)
  BY <1>1 DEF PiReturns, Ends,
     Kept, OneExecuting, DispatchedOnce, EvidenceProved, RunStep, RunMoves, Begun, Live,
     Terminal, history, durable, volatile
<1>2. CASE PiFails(r)
  <2>1. CallbackInv'
    BY <1>2 DEF PiFails, Ends, durable, volatile, history
  <2> QED
    BY <1>2, <2>1, QuietStep DEF PiFails, Ends, durable, volatile, history
<1>3. CASE PiLost(r)
  <2>1. CallbackInv'
    BY <1>3 DEF PiLost, Ends, durable, volatile, history
  <2> QED
    BY <1>3, <2>1, QuietStep DEF PiLost, Ends, durable, volatile, history
<1>4. CASE AskOpens(r)
  <2>1. CallbackInv'
    BY <1>4 DEF AskOpens, durable, volatile, history
  <2> QED
    BY <1>4, <2>1, QuietStep DEF AskOpens, durable, volatile, history
<1>5. CASE \E outcome \in {"applied", "unapplied"} : SteerSettles(r, outcome)
  <2>1. CallbackInv'
    BY <1>5 DEF SteerSettles, durable, volatile, history
  <2> QED
    BY <1>5, <2>1, QuietStep DEF SteerSettles, durable, volatile, history
<1>6. CASE CooperativeTimeout(r)
  <2>1. CallbackInv'
    BY <1>6 DEF CooperativeTimeout, durable, volatile, history
  <2> QED
    BY <1>6, <2>1, QuietStep DEF CooperativeTimeout, durable, volatile, history
<1>7. CASE ReconcileTimeout(r)
  BY <1>7 DEF ReconcileTimeout,
     Kept, OneExecuting, DispatchedOnce, EvidenceProved, RunStep, RunMoves, Begun, Live,
     Terminal, history, durable, volatile
<1>8. CASE Expire(r)
  <2>1. CallbackInv'
    BY <1>8 DEF Expire, durable, volatile, history
  <2> QED
    BY <1>8, <2>1, QuietStep DEF Expire, durable, volatile, history
<1> QED
  BY <1>1, <1>2, <1>3, <1>4, <1>5, <1>6, <1>7, <1>8 DEF Execution, Timeout

\* Every step of a started callback keeps the inductive invariant.
LEMMA KeptByHandlerStep ==
  ASSUME SessionInv, HandlerStep
  PROVE  Kept
<1> USE DEF SessionInv, TypeOK
<1> USE Pending, RunsAreNumbers DEF CallbackInv, Step, Idle, Rethrow
<1>1. CASE DispatchUncontained
  <2>1. CallbackInv'
    BY <1>1 DEF DispatchUncontained, durable, volatile, history
  <2> QED
    BY <1>1, <2>1, QuietStep DEF DispatchUncontained, durable, volatile, history
<1>2. CASE DispatchContained
  BY <1>2 DEF DispatchContained, Busy,
     Kept, OneExecuting, DispatchedOnce, EvidenceProved, RunStep, RunMoves, Begun, Live,
     Terminal, history, durable, volatile
<1>3. CASE Stage
  BY <1>3 DEF Stage,
     Kept, OneExecuting, DispatchedOnce, EvidenceProved, RunStep, RunMoves, Begun, Live,
     Terminal, history, durable, volatile
<1>4. CASE SettleCompleted
  BY <1>4 DEF SettleCompleted, Settle,
     Kept, OneExecuting, DispatchedOnce, EvidenceProved, RunStep, RunMoves, Begun, Live,
     Terminal, history, durable, volatile
<1>5. CASE SettleCooperative
  BY <1>5 DEF SettleCooperative, Settle,
     Kept, OneExecuting, DispatchedOnce, EvidenceProved, RunStep, RunMoves, Begun, Live,
     Terminal, history, durable, volatile
<1>6. CASE DispatchNext
  BY <1>6 DEF DispatchNext, FirstQueued,
     Kept, OneExecuting, DispatchedOnce, EvidenceProved, RunStep, RunMoves, Begun, Live,
     Terminal, history, durable, volatile
<1>7. CASE CatchCancelling
  BY <1>7 DEF CatchCancelling,
     Kept, OneExecuting, DispatchedOnce, EvidenceProved, RunStep, RunMoves, Begun, Live,
     Terminal, history, durable, volatile
<1>8. CASE CatchError
  <2>1. CallbackInv'
    BY <1>8 DEF CatchError, durable, volatile, history
  <2> QED
    BY <1>8, <2>1, QuietStep DEF CatchError, durable, volatile, history
<1>9. CASE SettleFailed
  BY <1>9 DEF SettleFailed, Settle,
     Kept, OneExecuting, DispatchedOnce, EvidenceProved, RunStep, RunMoves, Begun, Live,
     Terminal, history, durable, volatile
<1>10. CASE HoldQueued
  BY <1>10 DEF HoldQueued, HeldQueue,
     Kept, OneExecuting, DispatchedOnce, EvidenceProved, RunStep, RunMoves, Begun, Live,
     Terminal, history, durable, volatile
<1>11. CASE SettleInterrupted
  BY <1>11 DEF SettleInterrupted, Settle,
     Kept, OneExecuting, DispatchedOnce, EvidenceProved, RunStep, RunMoves, Begun, Live,
     Terminal, history, durable, volatile
<1>12. CASE RecoverWorkerLoss
  <2>1. CallbackInv'
    BY <1>12 DEF RecoverWorkerLoss, durable, volatile, history
  <2> QED
    BY <1>12, <2>1, QuietStep DEF RecoverWorkerLoss, durable, volatile, history
<1>13. CASE HoldAndSleep
  BY <1>13 DEF HoldAndSleep, HeldQueue,
     Kept, OneExecuting, DispatchedOnce, EvidenceProved, RunStep, RunMoves, Begun, Live,
     Terminal, history, durable, volatile
<1>14. CASE Escalate
  <2>1. CallbackInv'
    BY <1>14 DEF Escalate, durable, volatile, history
  <2> QED
    BY <1>14, <2>1, QuietStep DEF Escalate, durable, volatile, history
<1>15. CASE Answered
  <2>1. CallbackInv'
    BY <1>15 DEF Answered, durable, volatile, history
  <2> QED
    BY <1>15, <2>1, QuietStep DEF Answered, durable, volatile, history
<1>16. CASE ReconcileEnds
  BY <1>16 DEF ReconcileEnds, HeldQueue,
     Kept, OneExecuting, DispatchedOnce, EvidenceProved, RunStep, RunMoves, Begun, Live,
     Terminal, history, durable, volatile
<1>17. CASE \E r \in Runs : ReconcileRun(r)
  BY <1>17 DEF ReconcileRun,
     Kept, OneExecuting, DispatchedOnce, EvidenceProved, RunStep, RunMoves, Begun, Live,
     Terminal, history, durable, volatile
<1> QED
  BY <1>1, <1>2, <1>3, <1>4, <1>5, <1>6, <1>7, <1>8, <1>9, <1>10, <1>11, <1>12, <1>13, <1>14, <1>15, <1>16, <1>17 DEF HandlerStep

\* The other steps keep the inductive invariant.
LEMMA KeptByRest ==
  ASSUME SessionInv, 
         \/ Sleep \/ Archive \/ Restore
         \/ StorageFault \/ DispatchFault \/ RecoveryFault \/ Crash \/ Restart
  PROVE  Kept
<1> USE DEF SessionInv, TypeOK
<1> USE Pending, RunsAreNumbers DEF CallbackInv, Step, Idle, Rethrow
<1>1. CASE Sleep
  <2>1. CallbackInv'
    BY <1>1 DEF Sleep, durable, volatile, history
  <2> QED
    BY <1>1, <2>1, QuietStep DEF Sleep, durable, volatile, history
<1>2. CASE Archive
  <2>1. CallbackInv'
    BY <1>2 DEF Archive, durable, volatile, history
  <2> QED
    BY <1>2, <2>1, QuietStep DEF Archive, durable, volatile, history
<1>3. CASE Restore
  <2>1. CallbackInv'
    BY <1>3 DEF Restore, durable, volatile, history
  <2> QED
    BY <1>3, <2>1, QuietStep DEF Restore, durable, volatile, history
<1>4. CASE StorageFault
  <2>1. CallbackInv'
    BY <1>4 DEF StorageFault, Fault, durable, volatile, history
  <2> QED
    BY <1>4, <2>1, QuietStep DEF StorageFault, Fault, durable, volatile, history
<1>5. CASE DispatchFault
  BY <1>5 DEF DispatchFault, Fault,
     Kept, OneExecuting, DispatchedOnce, EvidenceProved, RunStep, RunMoves, Begun, Live,
     Terminal, history, durable, volatile
<1>6. CASE RecoveryFault
  <2>1. CallbackInv'
    BY <1>6 DEF RecoveryFault, Lose, durable, volatile, history
  <2> QED
    BY <1>6, <2>1, QuietStep DEF RecoveryFault, Lose, durable, volatile, history
<1>7. CASE Crash
  <2>1. CallbackInv'
    BY <1>7 DEF Crash, Lose, durable, volatile, history
  <2> QED
    BY <1>7, <2>1, QuietStep DEF Crash, Lose, durable, volatile, history
<1>8. CASE Restart
  <2>1. CallbackInv'
    BY <1>8 DEF Restart, durable, volatile, history
  <2> QED
    BY <1>8, <2>1, QuietStep DEF Restart, durable, volatile, history
<1> QED
  BY <1>1, <1>2, <1>3, <1>4, <1>5, <1>6, <1>7, <1>8

\* The inductive invariant holds initially.
LEMMA InvInit == Init => SessionInv
BY TypeInit DEF Init, SessionInv, TypeOK, CallbackInv, OneExecuting, DispatchedOnce,
   EvidenceProved, Idle

\* Every step of the Session keeps the inductive invariant and makes an allowed move.
LEMMA InvStep ==
  ASSUME SessionInv, [Next]_vars
  PROVE  SessionInv' /\ (RunStep \/ UNCHANGED <<run, returned>>)
<1>1. TypeOK
  BY DEF SessionInv
<1>2. CASE UNCHANGED vars
  BY <1>2 DEF SessionInv, TypeOK, CallbackInv, OneExecuting, DispatchedOnce, EvidenceProved,
     Begun, Live, vars, durable, volatile, history
<1>3. CASE Next
  <2>1. TypeOK'
    BY <1>1, <1>3, TypeCommand, TypeExecution, TypeHandlerStep, TypeRest DEF Next
  <2>2. Kept
    BY <1>3, KeptByCommand, KeptByExecution, KeptByHandlerStep, KeptByRest DEF Next
  <2> QED
    BY <2>1, <2>2 DEF SessionInv, Kept
<1> QED
  BY <1>2, <1>3

\* The inductive invariant holds in every reachable state of the Session.
THEOREM InvCorrect == Spec => []SessionInv
<1>1. SessionInv /\ [Next]_vars => SessionInv'
  BY InvStep
<1> QED
  BY <1>1, InvInit, PTL DEF Spec

\* A prompt that reached a worker never waits in the queue again, whatever
\* fails and however often the Host is lost.
THEOREM NeverReplayedCorrect == Spec => []NeverReplayed
<1>1. SessionInv => NeverReplayed
  BY DEF SessionInv, DispatchedOnce, Begun, NeverReplayed
<1> QED
  BY <1>1, InvCorrect, PTL

-----------------------------------------------------------------------------
(* Accepted Stops, and the generation they quote.                          *)

\* Between callbacks a timer stands behind every cancelling Run.  Within one, the
\* callback that has just taken the timer away, or is about to set it, is that
\* Run's own; a Host that recovers settles the Run whatever the timer.
EscalationInv ==
  faults = 0 => \A r \in Runs : run[r] = "cancelling" =>
    \/ timer[r] # "off"
    \/ handler.run = r /\ handler.at \in {"escalate", "cancel", "catch", "lost"}
    \/ ~up \/ handler.at = "reconcile"

\* The executing Run was handed to the worker of the current generation, or the
\* callback under way is about to do so, or to fail it.
AddressInv ==
  faults = 0 => \A r \in Runs : run[r] = "executing" /\ gen # 0 =>
    \/ worker[r] = gen
    \/ handler.run = r /\ handler.at \in {"dispatch", "fail"}

\* A Host that is down has no worker.
DownInv == ~up => gen = 0

StopInv == EscalationInv /\ AddressInv /\ DownInv

\* A client's command keeps every Stop escalated and every generation truthful.
LEMMA StopKeptByCommand ==
  ASSUME SessionInv, StopInv, NEW r \in Runs, Command(r)
  PROVE  StopInv'
<1> USE Pending DEF SessionInv, TypeOK, CallbackInv, OneExecuting, StopInv, EscalationInv, AddressInv, DownInv,
        Step, Idle, Rethrow, Live, Waiting, durable, volatile, history
<1>1. CASE Submit(r)
  BY <1>1 DEF Submit, Accept, QueueActive
<1>2. CASE FollowUp(r)
  BY <1>2 DEF FollowUp, Accept
<1>3. CASE Release(r)
  BY <1>3 DEF Release
<1>4. CASE CancelQueued(r)
  BY <1>4 DEF CancelQueued
<1>5. CASE Stop(r)
  BY <1>5 DEF Stop
<1>6. CASE Steer(r)
  BY <1>6 DEF Steer
<1>7. CASE Resolve(r)
  BY <1>7 DEF Resolve
<1> QED
  BY <1>1, <1>2, <1>3, <1>4, <1>5, <1>6, <1>7 DEF Command

\* A step of an execution, or a timer, keeps both.
LEMMA StopKeptByExecution ==
  ASSUME SessionInv, StopInv, NEW r \in Runs, Execution(r) \/ Timeout(r)
  PROVE  StopInv'
<1> USE Pending DEF SessionInv, TypeOK, CallbackInv, OneExecuting, StopInv, EscalationInv, AddressInv, DownInv,
        Step, Idle, Rethrow, Live, Waiting, durable, volatile, history
<1>1. CASE PiReturns(r)
  BY <1>1 DEF PiReturns, Ends
<1>2. CASE PiFails(r)
  BY <1>2 DEF PiFails, Ends
<1>3. CASE PiLost(r)
  BY <1>3 DEF PiLost, Ends
<1>4. CASE AskOpens(r)
  BY <1>4 DEF AskOpens
<1>5. CASE \E outcome \in {"applied", "unapplied"} : SteerSettles(r, outcome)
  BY <1>5 DEF SteerSettles
<1>6. CASE CooperativeTimeout(r)
  BY <1>6 DEF CooperativeTimeout
<1>7. CASE ReconcileTimeout(r)
  BY <1>7 DEF ReconcileTimeout, Invalidate
<1>8. CASE Expire(r)
  BY <1>8 DEF Expire
<1> QED
  BY <1>1, <1>2, <1>3, <1>4, <1>5, <1>6, <1>7, <1>8 DEF Execution, Timeout

\* Every step of a started callback keeps both.
LEMMA StopKeptByHandlerStep ==
  ASSUME SessionInv, StopInv, HandlerStep
  PROVE  StopInv'
<1> USE Pending DEF SessionInv, TypeOK, CallbackInv, OneExecuting, StopInv, EscalationInv, AddressInv, DownInv,
        Step, Idle, Rethrow, Live, Waiting, durable, volatile, history
<1>1. CASE DispatchUncontained
  BY <1>1 DEF DispatchUncontained
<1>2. CASE DispatchContained
  BY <1>2 DEF DispatchContained
<1>3. CASE Stage
  BY <1>3 DEF Stage
<1>4. CASE SettleCompleted
  BY <1>4 DEF SettleCompleted, Settle
<1>5. CASE SettleCooperative
  BY <1>5 DEF SettleCooperative, Settle
<1>6. CASE DispatchNext
  BY <1>6 DEF DispatchNext, FirstQueued
<1>7. CASE CatchCancelling
  BY <1>7 DEF CatchCancelling, Invalidate
<1>8. CASE CatchError
  BY <1>8 DEF CatchError, Invalidate
<1>9. CASE SettleFailed
  BY <1>9 DEF SettleFailed, Settle
<1>10. CASE HoldQueued
  BY <1>10 DEF HoldQueued, HeldQueue
<1>11. CASE SettleInterrupted
  BY <1>11 DEF SettleInterrupted, Settle
<1>12. CASE RecoverWorkerLoss
  BY <1>12 DEF RecoverWorkerLoss
<1>13. CASE HoldAndSleep
  BY <1>13 DEF HoldAndSleep, HeldQueue
<1>14. CASE Escalate
  BY <1>14 DEF Escalate
<1>15. CASE Answered
  BY <1>15 DEF Answered
<1>16. CASE ReconcileEnds
  BY <1>16 DEF ReconcileEnds, HeldQueue
<1>17. CASE \E r \in Runs : ReconcileRun(r)
  BY <1>17 DEF ReconcileRun
<1> QED
  BY <1>1, <1>2, <1>3, <1>4, <1>5, <1>6, <1>7, <1>8, <1>9, <1>10, <1>11, <1>12, <1>13, <1>14, <1>15, <1>16, <1>17 DEF HandlerStep

\* The other steps keep both.
LEMMA StopKeptByRest ==
  ASSUME SessionInv, StopInv, 
         \/ Sleep \/ Archive \/ Restore
         \/ StorageFault \/ DispatchFault \/ RecoveryFault \/ Crash \/ Restart
  PROVE  StopInv'
<1> USE Pending DEF SessionInv, TypeOK, CallbackInv, OneExecuting, StopInv, EscalationInv, AddressInv, DownInv,
        Step, Idle, Rethrow, Live, Waiting, durable, volatile, history
<1>1. CASE Sleep
  BY <1>1 DEF Sleep, CloseWorker
<1>2. CASE Archive
  BY <1>2 DEF Archive, CloseWorker
<1>3. CASE Restore
  BY <1>3 DEF Restore
<1>4. CASE StorageFault
  BY <1>4 DEF StorageFault, Fault
<1>5. CASE DispatchFault
  BY <1>5 DEF DispatchFault, Fault
<1>6. CASE RecoveryFault
  BY <1>6 DEF RecoveryFault, Lose
<1>7. CASE Crash
  BY <1>7 DEF Crash, Lose
<1>8. CASE Restart
  BY <1>8 DEF Restart
<1> QED
  BY <1>1, <1>2, <1>3, <1>4, <1>5, <1>6, <1>7, <1>8

\* Escalation and addressing hold in every reachable state of the Session.
THEOREM StopInvCorrect == Spec => []StopInv
<1>1. Init => StopInv
  BY DEF Init, StopInv, EscalationInv, AddressInv, DownInv
<1>2. SessionInv /\ StopInv /\ [Next]_vars => StopInv'
  <2> SUFFICES ASSUME SessionInv, StopInv, [Next]_vars PROVE StopInv'
    OBVIOUS
  <2>1. CASE UNCHANGED vars
    BY <2>1 DEF StopInv, EscalationInv, AddressInv, DownInv, vars, durable, volatile, history
  <2> QED
    BY <2>1, StopKeptByCommand, StopKeptByExecution, StopKeptByHandlerStep, StopKeptByRest
       DEF Next
<1> QED
  BY <1>1, <1>2, InvCorrect, PTL DEF Spec

\* An accepted Stop always has an escalation timer running behind it, whatever
\* the order of Pi's answer, the timers and the recovery of the worker.
THEOREM EscalationCorrect == Spec => []EscalationArmed
<1>1. StopInv => EscalationArmed
  BY DEF StopInv, EscalationInv, EscalationArmed
<1> QED
  BY <1>1, StopInvCorrect, PTL

\* A Stop or a steering that quotes the current generation reaches the worker the
\* executing Run was handed to.
THEOREM StopReachesItsWorkerCorrect == Spec => []StopReachesItsWorker
<1>1. StopInv => StopReachesItsWorker
  BY DEF StopInv, AddressInv, StopReachesItsWorker
<1> QED
  BY <1>1, StopInvCorrect, PTL

-----------------------------------------------------------------------------
(* Archived Sessions.                                                      *)

\* Only archive and restore change availability, and archive finds no active work.
LEMMA AvailabilityStep ==
  ASSUME Next, ~UNCHANGED availability
  PROVE  \/ ~ActiveWork /\ UNCHANGED run
         \/ availability' = "available"
<1>1. CASE \E r \in Runs : Command(r) \/ Execution(r) \/ Timeout(r)
  BY <1>1 DEF Command, Execution, Timeout, Submit, FollowUp, Accept, Release, CancelQueued,
     Stop, Steer, Resolve, PiReturns, PiFails, PiLost, Ends, AskOpens, SteerSettles,
     CooperativeTimeout, ReconcileTimeout, Expire, durable
<1>2. CASE HandlerStep
  BY <1>2 DEF HandlerStep, DispatchUncontained, DispatchContained, Stage, SettleCompleted,
     SettleCooperative, DispatchNext, CatchCancelling, CatchError, SettleFailed, HoldQueued,
     SettleInterrupted, RecoverWorkerLoss, HoldAndSleep, Escalate, Answered, ReconcileEnds,
     ReconcileRun, durable
<1>3. CASE Sleep \/ Archive \/ Restore
  BY <1>3 DEF Sleep, Archive, Restore
<1>4. CASE StorageFault \/ DispatchFault \/ RecoveryFault \/ Crash \/ Restart
  BY <1>4 DEF StorageFault, DispatchFault, RecoveryFault, Crash, Lose, Restart, durable
<1> QED
  BY <1>1, <1>2, <1>3, <1>4 DEF Next

\* Runs are created in available Sessions only.
LEMMA CreationStep ==
  ASSUME SessionInv, Next, NEW r \in Runs, run[r] = "none", run'[r] # "none"
  PROVE  availability = "available"
<1> USE DEF SessionInv, TypeOK
<1>1. ASSUME NEW s \in Runs, Command(s) PROVE availability = "available"
  <2>1. CASE Submit(s) \/ FollowUp(s)
    BY <2>1 DEF Submit, FollowUp, Accept
  <2>2. CASE Release(s)
    BY <2>2 DEF Release
  <2>3. CASE CancelQueued(s) \/ Stop(s)
    BY <2>3 DEF CancelQueued, Stop, Waiting
  <2>4. CASE Steer(s) \/ Resolve(s)
    BY <2>4 DEF Steer, Resolve
  <2> QED
    BY <1>1, <2>1, <2>2, <2>3, <2>4 DEF Command
<1>5. ASSUME NEW s \in Runs, Execution(s) \/ Timeout(s) PROVE availability = "available"
  <2>1. CASE Execution(s) \/ CooperativeTimeout(s) \/ Expire(s)
    BY <2>1 DEF Execution, PiReturns, PiFails, PiLost, Ends, AskOpens, SteerSettles,
       CooperativeTimeout, Expire, durable
  <2>2. CASE ReconcileTimeout(s)
    BY <2>2 DEF ReconcileTimeout
  <2> QED
    BY <1>5, <2>1, <2>2 DEF Timeout
<1>2. CASE HandlerStep
  BY <1>2 DEF HandlerStep, DispatchUncontained, DispatchContained, Stage, SettleCompleted,
     SettleCooperative, DispatchNext, FirstQueued, CatchCancelling, CatchError, SettleFailed,
     HoldQueued, SettleInterrupted, RecoverWorkerLoss, HoldAndSleep, Escalate, Answered,
     ReconcileEnds, ReconcileRun, Settle, HeldQueue, Live, durable
<1>3. CASE Sleep \/ Archive \/ Restore
  BY <1>3 DEF Sleep, Archive, Restore
<1>4. CASE StorageFault \/ DispatchFault \/ RecoveryFault \/ Crash \/ Restart
  BY <1>4 DEF StorageFault, DispatchFault, RecoveryFault, Crash, Lose, Restart, durable
<1> QED
  BY <1>1, <1>2, <1>3, <1>4, <1>5 DEF Next

\* No callback, timer or recovery revives work in a Session once it is archived.
THEOREM ArchivedIsQuietCorrect == Spec => []ArchivedIsQuiet
<1>1. Init => ArchivedIsQuiet
  BY DEF Init, ArchivedIsQuiet
<1>2. SessionInv /\ ArchivedIsQuiet /\ [Next]_vars => ArchivedIsQuiet'
  <2> SUFFICES ASSUME SessionInv, ArchivedIsQuiet, [Next]_vars, availability' = "archived",
                      NEW r \in Runs
               PROVE  ~Live(r)' /\ ~Waiting(r)'
    BY DEF ArchivedIsQuiet
  <2>1. RunStep \/ UNCHANGED run
    BY InvStep
  <2>2. CASE UNCHANGED vars
    BY <2>2 DEF ArchivedIsQuiet, Live, Waiting, vars, durable
  <2>3. CASE Next /\ ~UNCHANGED availability
    <3>1. ~ActiveWork /\ UNCHANGED run
      BY <2>3, AvailabilityStep
    <3> QED
      BY <3>1 DEF ActiveWork, Live, Waiting
  <2>4. CASE Next /\ UNCHANGED availability
    <3>1. run[r] \notin {"executing", "cancelling", "queued", "held"}
      BY <2>4 DEF ArchivedIsQuiet, Live, Waiting
    <3>2. run[r] = "none" => run'[r] = "none"
      BY <2>4, CreationStep
    <3> QED
      BY <2>1, <3>1, <3>2 DEF RunStep, RunMoves, Live, Waiting
  <2> QED
    BY <2>2, <2>3, <2>4
<1> QED
  BY <1>1, <1>2, InvCorrect, PTL DEF Spec

-----------------------------------------------------------------------------
(* Refinement of RunContract.                                              *)

\* A move of a Run is a move of its phase that the contract allows, or none.
LEMMA PhaseMoves ==
  ASSUME NEW old \in RunStates, NEW new \in RunStates, <<old, new>> \in RunMoves
  PROVE  PhaseOf(new) # PhaseOf(old) => <<PhaseOf(old), PhaseOf(new)>> \in Contract!Moves
BY DEF RunMoves, PhaseOf, Contract!Moves

\* Phases are the contract's, and only Runs that wait or do not exist are not begun.
LEMMA PhaseTypes ==
  ASSUME NEW state \in RunStates
  PROVE  /\ PhaseOf(state) \in Contract!Phases
         /\ PhaseOf(state) = "live" <=> state = "executing"
         /\ PhaseOf(state) = "completed" <=> state = "completed"
         /\ PhaseOf(state) \in {"none", "waiting"} <=> state \in {"none", "queued", "held"}
BY DEF RunStates, Terminal, PhaseOf, Contract!Phases, Contract!Outcomes

\* The Session starts where its contract starts.
LEMMA ContractInit == Init => Contract!Init
BY DEF Init, Contract!Init, Phases, PhaseOf

\* A step of the Session is a step of its contract, or changes nothing of it.
LEMMA ContractStep ==
  ASSUME SessionInv, SessionInv', RunStep
  PROVE  [Contract!Next]_(Contract!vars)
<1>1. run \in [Runs -> RunStates] /\ run' \in [Runs -> RunStates]
  BY DEF SessionInv, TypeOK
<1>2. CASE UNCHANGED returned
  <2>1. Phases' \in [Runs -> Contract!Phases]
    BY <1>1, PhaseTypes DEF Phases
  <2>2. \A r \in Runs : Phases[r] = PhaseOf(run[r]) /\ Phases'[r] = PhaseOf(run'[r])
    BY DEF Phases
  <2>3. ASSUME NEW r \in Runs
        PROVE  Phases'[r] # Phases[r] => <<Phases[r], Phases'[r]>> \in Contract!Moves
    <3>1. CASE run'[r] = run[r]
      BY <3>1, <2>2
    <3>2. CASE run'[r] # run[r]
      BY <1>1, <2>2, <3>2, PhaseMoves DEF RunStep
    <3> QED
      BY <3>1, <3>2
  <2>4. \A r \in Runs : Phases[r] = "live" /\ Phases'[r] = "completed" => r \in returned
    BY <1>1, <2>2, PhaseTypes DEF RunStep
  <2>5. Contract!OneLive(Phases')
    BY <1>1, <2>2, PhaseTypes DEF Contract!OneLive, SessionInv, OneExecuting
  <2> QED
    BY <1>2, <2>1, <2>3, <2>4, <2>5 DEF Contract!Next, Contract!Advance
<1>3. CASE UNCHANGED run /\ \E r \in Runs : Begun(r) /\ returned' = returned \cup {r}
  <2>1. PICK r \in Runs : Begun(r) /\ returned' = returned \cup {r}
    BY <1>3
  <2>2. UNCHANGED Phases
    BY <1>3 DEF Phases
  <2>3. Phases[r] \notin {"none", "waiting"}
    BY <1>1, <2>1 DEF Begun, Live, Terminal, Phases, PhaseOf
  <2> QED
    BY <2>1, <2>2, <2>3 DEF Contract!Next, Contract!Prove
<1> QED
  BY <1>2, <1>3 DEF RunStep

\* The Session implements the contract of its Runs for every number of Runs:
\* one executing at most, one outcome each, completion only on proof, and a
\* Stop that never ends as a completion or a failure.
THEOREM ContractCorrect == Spec => ContractSpec
<1>1. SessionInv /\ SessionInv' /\ [Next]_vars => [Contract!Next]_(Contract!vars)
  <2> SUFFICES ASSUME SessionInv, SessionInv', [Next]_vars
               PROVE  [Contract!Next]_(Contract!vars)
    OBVIOUS
  <2>1. CASE RunStep
    BY <2>1, ContractStep
  <2>2. CASE UNCHANGED <<run, returned>>
    BY <2>2 DEF Contract!vars, Phases
  <2> QED
    BY <2>1, <2>2, InvStep
<1> QED
  BY <1>1, ContractInit, InvCorrect, PTL DEF Spec, ContractSpec, Contract!Spec

-----------------------------------------------------------------------------
(* ClientView: lists of calls.                                                *)

\* The order of the numbers, as a relation, is well founded.
Lesser == {pair \in Nat \X Nat : pair[1] < pair[2]}
\* No descent in the numbers goes on for ever.
LEMMA LesserIsWellFounded == IsWellFoundedOn(Lesser, Nat)
BY NatLessThanWellFounded, Zenon DEF OpToRel, Lesser

\* A set of numbers that is not empty has a first.
LEMMA FirstNumber ==
  ASSUME NEW S, S \subseteq Nat, S # {}
  PROVE  \E g \in S : \A h \in S : g <= h
<1>1. PICK g \in S : \A h \in S : ~(<<h, g>> \in Lesser)
  BY LesserIsWellFounded, WFMin, Zenon
<1>2. ASSUME NEW h \in S PROVE g <= h
  <2>1. g \in Nat /\ h \in Nat /\ ~(<<h, g>> \in Lesser)
    BY <1>1
  <2>2. <<h, g>> \in Nat \X Nat
    BY <2>1
  <2>3. ~(<<h, g>>[1] < <<h, g>>[2])
    BY <2>1, <2>2, Zenon DEF Lesser
  <2>. QED BY <2>1, <2>3
<1>. QED BY <1>2

\* A call that is free can be found.
LEMMA NextIsFree ==
  ASSUME Free # {}
  PROVE  Next1 \in Call /\ call[Next1].kind = None
<1>1. Free \subseteq Nat /\ Free \subseteq Call
  BY ViewAssumption DEF Free, Call
<1>2. \E g \in Free : \A h \in Free : g <= h
  BY <1>1, FirstNumber
<1>3. Next1 \in Free
  BY <1>2, Zenon DEF Next1
<1>. QED BY <1>1, <1>3 DEF Free

\* Only, as a function of the numbers up to k.
OnlyUpTo(g, list, C, k) ==
  g = [n \in 0..k |-> IF n = 0 THEN <<>>
                      ELSE IF list[n] \in C THEN Append(g[n - 1], list[n]) ELSE g[n - 1]]

\* The function that Only takes from is there for the empty beginning of a list,
LEMMA OnlyStarts ==
  ASSUME NEW list, NEW C
  PROVE  \E g : OnlyUpTo(g, list, C, 0)
<1> DEFINE h == [n \in 0..0 |-> <<>>]
<1>1. \A n \in 0..0 : n = 0
  OBVIOUS
<1>2. h = [n \in 0..0 |-> IF n = 0 THEN <<>>
                          ELSE IF list[n] \in C THEN Append(h[n - 1], list[n]) ELSE h[n - 1]]
  <2> HIDE DEF h
  <2>1. \A n \in 0..0 : (IF n = 0 THEN <<>>
           ELSE IF list[n] \in C THEN Append(h[n - 1], list[n]) ELSE h[n - 1]) = <<>>
    BY <1>1
  <2>. QED BY <2>1 DEF h
<1>. QED BY <1>2 DEF OnlyUpTo

\* and if it is there up to k, then up to k + 1.
LEMMA OnlyGoesOn ==
  ASSUME NEW list, NEW C, NEW k \in Nat, NEW g, OnlyUpTo(g, list, C, k)
  PROVE  \E h : OnlyUpTo(h, list, C, k + 1)
<1> DEFINE F(f, n) == IF n = 0 THEN <<>>
                      ELSE IF list[n] \in C THEN Append(f[n - 1], list[n]) ELSE f[n - 1]
           h == [n \in 0..k + 1 |-> IF n = k + 1 THEN F(g, n) ELSE g[n]]
<1>1. \A n \in 0..k : g[n] = F(g, n)
  BY DEF OnlyUpTo
<1>2. \A n \in 0..k : h[n] = g[n]
  OBVIOUS
<1>3. \A n \in 0..k + 1 : n # 0 => n - 1 \in 0..k
  OBVIOUS
<1>4. h[k + 1] = F(g, k + 1)
  OBVIOUS
<1>5. DOMAIN h = 0..k + 1 /\ h = [n \in DOMAIN h |-> h[n]]
  OBVIOUS
<1>. HIDE DEF h
<1>6. \A n \in 0..k + 1 : F(h, n) = F(g, n)
  BY <1>2, <1>3
<1>. HIDE DEF F
<1>7. \A n \in 0..k + 1 : h[n] = F(h, n)
  <2>1. ASSUME NEW n \in 0..k + 1 PROVE h[n] = F(h, n)
    <3>1. CASE n = k + 1
      BY <3>1, <1>4, <1>6
    <3>2. CASE n # k + 1
      <4>1. n \in 0..k
        BY <3>2
      <4>. QED BY <4>1, <1>1, <1>2, <1>6
    <3>. QED BY <3>1, <3>2
  <2>. QED BY <2>1
<1>8. h = [n \in 0..k + 1 |-> F(h, n)]
  BY <1>5, <1>7
<1>. QED BY <1>8 DEF OnlyUpTo, F

\* What that function is at each number.
LEMMA OnlyUnfolds ==
  ASSUME NEW list, NEW C, NEW k \in Nat, NEW g, OnlyUpTo(g, list, C, k)
  PROVE  /\ g[0] = <<>>
         /\ \A n \in 1..k : g[n] = IF list[n] \in C THEN Append(g[n - 1], list[n]) ELSE g[n - 1]
<1> DEFINE F(n) == IF n = 0 THEN <<>>
                   ELSE IF list[n] \in C THEN Append(g[n - 1], list[n]) ELSE g[n - 1]
<1>1. g = [n \in 0..k |-> F(n)]
  BY DEF OnlyUpTo
<1>2. 0 \in 0..k /\ F(0) = <<>>
  OBVIOUS
<1>3. \A n \in 1..k : n \in 0..k /\ n # 0
  OBVIOUS
<1>4. \A n \in 1..k : F(n) = IF list[n] \in C THEN Append(g[n - 1], list[n]) ELSE g[n - 1]
  BY <1>3
<1>. HIDE DEF F
<1>5. \A n \in 0..k : g[n] = F(n)
  BY <1>1
<1>. QED BY <1>2, <1>3, <1>4, <1>5

\* Each of its values is a list of elements that were to be kept.
LEMMA KeptIsList ==
  ASSUME NEW S, NEW list \in Seq(S), NEW C, NEW g, OnlyUpTo(g, list, C, Len(list))
  PROVE  g[Len(list)] \in Seq(S \cap C)
<1> DEFINE L == Len(list)
<1>1. L \in Nat /\ OnlyUpTo(g, list, C, L) /\ \A n \in 1..L : list[n] \in S
  BY LenProperties, ElementOfSeq
<1>. HIDE DEF L
<1>2. /\ g[0] = <<>>
      /\ \A n \in 1..L : g[n] = IF list[n] \in C THEN Append(g[n - 1], list[n]) ELSE g[n - 1]
  BY <1>1, OnlyUnfolds DEF L
<1> DEFINE Bad == {k \in 0..L : g[k] \notin Seq(S \cap C)}
<1>3. Bad = {}
  <2> SUFFICES ASSUME Bad # {} PROVE FALSE
    OBVIOUS
  <2>0. Bad \subseteq Nat
    BY <1>1
  <2>1. PICK k \in Bad : \A j \in Bad : k <= j
    BY <2>0, FirstNumber
  <2>2. k # 0
    BY <1>2, <2>1, EmptySeq
  <2>3. k \in 1..L /\ k - 1 \in 0..L /\ k - 1 \notin Bad
    BY <2>1, <2>2, <1>1
  <2>4. g[k - 1] \in Seq(S \cap C) /\ list[k] \in S
    BY <2>3, <1>1
  <2>5. CASE list[k] \in C
    <3>1. g[k] = Append(g[k - 1], list[k])
      BY <2>3, <2>5, <1>2
    <3>2. Append(g[k - 1], list[k]) \in Seq(S \cap C)
      BY <2>4, <2>5, AppendProperties
    <3>. QED BY <2>1, <3>1, <3>2
  <2>6. CASE list[k] \notin C
    BY <2>1, <2>3, <2>4, <2>6, <1>2
  <2>. QED BY <2>5, <2>6
<1>4. L \in 0..L
  BY <1>1
<1>. QED BY <1>3, <1>4 DEF L

\* What a list keeps is a list of what it keeps of its elements.
LEMMA OnlyIsList ==
  ASSUME NEW S, NEW list \in Seq(S), NEW C
  PROVE  Only(list, C) \in Seq(S \cap C)
<1> DEFINE L == Len(list)
           Stuck == {k \in Nat : ~\E g : OnlyUpTo(g, list, C, k)}
<1>1. L \in Nat /\ \A n \in 1..L : list[n] \in S
  BY LenProperties, ElementOfSeq
<1>2. Stuck = {}
  <2> SUFFICES ASSUME Stuck # {} PROVE FALSE
    OBVIOUS
  <2>1. PICK k \in Stuck : \A j \in Stuck : k <= j
    BY FirstNumber
  <2>2. CASE k = 0
    BY <2>2, OnlyStarts
  <2>3. CASE k # 0
    <3>1. k - 1 \in Nat /\ k - 1 \notin Stuck /\ (k - 1) + 1 = k
      BY <2>1, <2>3
    <3>2. PICK g : OnlyUpTo(g, list, C, k - 1)
      BY <3>1
    <3>3. \E h : OnlyUpTo(h, list, C, (k - 1) + 1)
      BY <3>1, <3>2, OnlyGoesOn
    <3>. QED BY <3>1, <3>3
  <2>. QED BY <2>2, <2>3
<1>. HIDE DEF L
<1>3. PICK g : OnlyUpTo(g, list, C, L)
  BY <1>1, <1>2
<1> DEFINE g0 == CHOOSE f : OnlyUpTo(f, list, C, L)
<1>4. OnlyUpTo(g0, list, C, L)
  BY <1>3, Zenon
<1>5. Only(list, C) = g0[L]
  BY DEF Only, OnlyUpTo, L
<1>. QED BY <1>1, <1>4, <1>5, KeptIsList DEF L

-----------------------------------------------------------------------------
(* What holds of the calls.  The operators take the value of the variables they   *)
(* speak of, so that a step may be followed in parts.                             *)

Revs == [Sessions -> Nat \ {0}]
Kinds == {None, "load", "open", "recover"}
Places == {None, "catalog", "session", "preferences", "draft", "reconcile", "failed", "done"}
AnyCall == [kind : Kinds, of : Sessions \union {None}, at : Places,
            revs : [Sessions -> Nat], seq : Nat, rev : Nat, own : Nat]

IsOpen(c, s) == c.kind = "open" /\ c.of = s

\* A call is where its kind can be, and has been answered what it needs there.
Sound(c) ==
  /\ c.kind = "open" => c.of \in Sessions /\ c.revs = Blank
  /\ c.at = "catalog" => c.kind \in {"load", "recover"}
  /\ c.at = "session" => c.kind \in {"open", "recover"} /\ c.of \in Sessions
  /\ c.at = "draft" => c.kind = "open" /\ c.rev # 0
  /\ c.at = "preferences" => c.kind = "load" /\ c.revs \in Revs
  /\ c.at = "session" /\ c.kind = "recover" => c.revs \in Revs
  /\ c.at = "reconcile" => /\ c.kind = "recover" /\ c.revs \in Revs
                           /\ c.of # None => c.rev # 0
SoundCalls(cs) == cs \in [Call -> AnyCall] /\ \A i \in Call : Sound(cs[i])

\* The calls that may be subscribed: each knows the scope it asks for.
Subscribers(cs) ==
  {i \in Call : /\ cs[i].kind # None
                /\ cs[i].kind = "recover" /\ cs[i].at # "catalog" => cs[i].of \in Sessions}

Once(cs, s) == \A i, j \in Call : IsOpen(cs[i], s) /\ IsOpen(cs[j], s) => i = j
Opened(cs, s) == \E i \in Call : IsOpen(cs[i], s)

\* When it ends, such a call writes the revision the catalog gave of s.
Alien(c, s) ==
  c.at = "preferences" \/ (c.kind = "recover" /\ c.at \in {"session", "reconcile"} /\ c.of # s)

\* No catalog has come: no Session has, nor will one before a catalog.
Unloaded(cs, q, w) ==
  (\E i \in Call : cs[i].kind = "load" /\ cs[i].at = "catalog") =>
     /\ w = {} /\ \A i \in Call : cs[i].at # "draft"
     /\ \A k \in 1..Len(q) : q[k].kind = "session" => \E j \in 1..k : q[j].kind = "catalog"

\* What a call was told is no newer than what is on its way, and that no newer than
\* what the Host has; a catalog is no newer than the Session that follows it.
Ordered(cs, q, r) ==
  /\ \A i \in Call, s \in Sessions : cs[i].revs[s] <= r[s]
  /\ \A k \in 1..Len(q) :
       /\ q[k].kind = "catalog" => \A s \in Sessions : q[k].revs[s] <= r[s]
       /\ q[k].kind = "session" =>
            /\ q[k].rev <= r[q[k].of]
            /\ \A i \in Call : cs[i].revs[q[k].of] <= q[k].rev
            /\ \A j \in 1..k : q[j].kind = "catalog" => q[j].revs[q[k].of] <= q[k].rev

\* While the Session that is selected has been opened once: what its open was told is
\* no older than what a call may write over it, and once it is watched all that the
\* store takes for its revision, or will, has been on the screen.
Whole(cs, kn, sn, w, s) ==
  /\ \A i, j \in Call : IsOpen(cs[i], s) /\ cs[i].at = "draft" /\ Alien(cs[j], s)
                          => cs[j].revs[s] <= cs[i].rev
  /\ s \in w => /\ 1..kn[s] \subseteq sn[s]
                /\ \A j \in Call : Alien(cs[j], s) => 1..cs[j].revs[s] \subseteq sn[s]

\* A Session that is selected, watched or presented has been opened.
Episodes(cs, sel, kn, pr, sn, w) ==
  \A s \in Sessions :
    /\ sel = s \/ s \in w \/ pr[s] # 0 => Opened(cs, s)
    /\ sel = s /\ Once(cs, s) => Whole(cs, kn, sn, w, s)

\* The entry n of s was on the screen and, if s was opened once, all before it.
Covered(cs, sn, s, n) ==
  /\ n # 0 => n \in sn[s]
  /\ Once(cs, s) => 1..n \subseteq sn[s]

-----------------------------------------------------------------------------
(* A call that fails, ends or begins.                                         *)

\* What becomes of a call when no answer comes to it.
Quiet1(c, d) == d = c \/ d = Over(c) \/ d = Failed(c) \/ (c.kind = None /\ d = Recovery)
QuietCalls(cs, ds) == ds = [i \in Call |-> ds[i]] /\ \A i \in Call : Quiet1(cs[i], ds[i])

\* The revisions of a call that was told nothing.
LEMMA BlankIs == Blank \in [Sessions -> Nat] /\ \A s \in Sessions : Blank[s] = 0
BY DEF Blank

\* A call that ends keeps its kind and its Session.
LEMMA OverIs ==
  ASSUME NEW c \in AnyCall, Sound(c)
  PROVE  /\ Over(c) \in AnyCall
         /\ Over(c).kind = c.kind /\ Over(c).of = c.of /\ Over(c).revs = Blank
         /\ Over(c).at = "done"
BY BlankIs DEF Over, Unasked, AnyCall, Places, Kinds

\* A recovery that begins.
LEMMA RecoveryIs ==
  /\ Recovery \in AnyCall /\ Recovery.kind = "recover" /\ Recovery.at = "catalog"
  /\ Recovery.of = None /\ Recovery.revs = Blank
BY BlankIs DEF Recovery, Unasked, AnyCall, Places, Kinds

\* A call whose read failed keeps its kind and its Session.
LEMMA FailedIs ==
  ASSUME NEW c \in AnyCall, Sound(c)
  PROVE  /\ Failed(c) \in AnyCall
         /\ Failed(c).kind = c.kind /\ Failed(c).of = c.of /\ Failed(c).revs = Blank
         /\ Failed(c).at \in {"failed", "done"}
<1>1. CASE c.kind = "open"
  <2>1. Failed(c) = [c EXCEPT !.at = "failed"]
    BY <1>1 DEF Failed
  <2> DEFINE d == [c EXCEPT !.at = "failed"]
  <2>2. d \in AnyCall
    BY DEF AnyCall, Places
  <2>3. d.kind = c.kind /\ d.of = c.of /\ d.revs = c.revs /\ d.at = "failed"
    BY DEF AnyCall
  <2>4. c.revs = Blank
    BY <1>1 DEF Sound
  <2>. QED BY <2>1, <2>2, <2>3, <2>4
<1>2. CASE c.kind # "open"
  BY <1>2, OverIs DEF Failed
<1>. QED BY <1>1, <1>2

\* A call to which no answer comes is as it was, or has forgotten what it was told.
LEMMA QuietIs ==
  ASSUME NEW c \in AnyCall, Sound(c), NEW d, Quiet1(c, d)
  PROVE  /\ d \in AnyCall
         /\ d = c \/ (d.revs = Blank /\ d.at \in {"failed", "done", "catalog"})
         /\ c.kind # None => d.kind = c.kind /\ d.of = c.of
         /\ d # c /\ d.at = "catalog" => d.kind = "recover"
         /\ c.kind = None => d.kind \in {None, "recover"}
BY OverIs, FailedIs, RecoveryIs DEF Quiet1, None

\* It stays sound,
LEMMA QuietSound ==
  ASSUME NEW c \in AnyCall, Sound(c), NEW d, Quiet1(c, d)
  PROVE  Sound(d)
<1>1. CASE d = c
  BY <1>1
<1>2. CASE d # c
  <2>1. d.revs = Blank /\ d.at \in {"failed", "done", "catalog"}
        /\ (d.at = "catalog" => d.kind = "recover")
        /\ (c.kind # None => d.kind = c.kind /\ d.of = c.of)
        /\ (c.kind = None => d.kind \in {None, "recover"})
    BY <1>2, QuietIs
  <2>2. CASE c.kind = None
    BY <2>1, <2>2 DEF Sound, None
  <2>3. CASE c.kind # None
    BY <2>1, <2>3 DEF Sound, None
  <2>. QED BY <2>2, <2>3
<1>. QED BY <1>1, <1>2

\* and so do all calls.
LEMMA QuietKeepsSound ==
  ASSUME NEW cs, SoundCalls(cs), NEW ds, QuietCalls(cs, ds)
  PROVE  SoundCalls(ds)
<1>1. \A i \in Call : ds[i] \in AnyCall /\ Sound(ds[i])
  BY QuietIs, QuietSound DEF SoundCalls, QuietCalls
<1>2. ds \in [Call -> AnyCall]
  BY <1>1 DEF QuietCalls
<1>. QED BY <1>1, <1>2 DEF SoundCalls

\* Calls that go on with what they were told, or with nothing.
Older(cs, ds) == \A i \in Call : ds[i].revs = cs[i].revs \/ ds[i].revs = Blank

\* The calls that open a Session go on to be calls that open it.
GoOn(cs, ds) == \A i \in Call : \A s \in Sessions : IsOpen(cs[i], s) => IsOpen(ds[i], s)

\* A Session that was opened stays opened, and if it is opened once now, it was before.
LEMMA GoOnKeeps ==
  ASSUME NEW cs, NEW ds, GoOn(cs, ds), NEW s \in Sessions
  PROVE  /\ Once(ds, s) => Once(cs, s)
         /\ Opened(cs, s) => Opened(ds, s)
BY DEF GoOn, Once, Opened

\* What was covered stays covered while the screen has shown no less.
LEMMA CoveredKeeps ==
  ASSUME NEW cs, NEW ds, GoOn(cs, ds), NEW s \in Sessions, NEW n, NEW sn, NEW tn,
         sn[s] \subseteq tn[s], Covered(cs, sn, s, n)
  PROVE  Covered(ds, tn, s, n)
BY GoOnKeeps DEF Covered

\* Calls to which no answer comes go on.
LEMMA QuietGoesOn ==
  ASSUME NEW cs, SoundCalls(cs), NEW ds, QuietCalls(cs, ds)
  PROVE  GoOn(cs, ds) /\ Older(cs, ds)
<1>1. ASSUME NEW i \in Call
      PROVE  /\ \A s \in Sessions : IsOpen(cs[i], s) => IsOpen(ds[i], s)
             /\ ds[i].revs = cs[i].revs \/ ds[i].revs = Blank
  <2>1. cs[i] \in AnyCall /\ Sound(cs[i]) /\ Quiet1(cs[i], ds[i])
    BY DEF SoundCalls, QuietCalls
  <2>2. /\ ds[i].revs = cs[i].revs \/ ds[i].revs = Blank
        /\ cs[i].kind # None => ds[i].kind = cs[i].kind /\ ds[i].of = cs[i].of
    BY <2>1, QuietIs
  <2>. QED BY <2>2 DEF IsOpen, None
<1>. QED BY <1>1 DEF GoOn, Older

\* They do not load the catalog.
LEMMA QuietKeepsUnloaded ==
  ASSUME NEW cs, SoundCalls(cs), NEW ds, QuietCalls(cs, ds), NEW q, NEW w, Unloaded(cs, q, w)
  PROVE  Unloaded(ds, q, w)
<1>1. ASSUME NEW i \in Call
      PROVE  /\ ds[i].kind = "load" /\ ds[i].at = "catalog" => ds[i] = cs[i]
             /\ ds[i].at = "draft" => ds[i] = cs[i]
  <2>1. cs[i] \in AnyCall /\ Sound(cs[i]) /\ Quiet1(cs[i], ds[i])
    BY DEF SoundCalls, QuietCalls
  <2>. QED BY <2>1, QuietIs
<1>. QED BY <1>1 DEF Unloaded

\* Calls that write nothing of s that was not to be written keep its episode.
LEMMA NoMoreAliens ==
  ASSUME NEW cs, NEW ds, NEW s \in Sessions, NEW kn, NEW sn, NEW w, Whole(cs, kn, sn, w, s),
         \A i \in Call : IsOpen(ds[i], s) /\ ds[i].at = "draft" =>
                           IsOpen(cs[i], s) /\ cs[i].at = "draft" /\ ds[i].rev = cs[i].rev,
         \A i \in Call : Alien(ds[i], s) => Alien(cs[i], s) /\ ds[i].revs = cs[i].revs
  PROVE  Whole(ds, kn, sn, w, s)
BY DEF Whole

\* They write nothing that was not to be written.
LEMMA QuietKeepsEpisodes ==
  ASSUME NEW cs, SoundCalls(cs), NEW ds, QuietCalls(cs, ds),
         NEW sel, NEW kn, NEW pr, NEW sn, NEW w, Episodes(cs, sel, kn, pr, sn, w)
  PROVE  Episodes(ds, sel, kn, pr, sn, w)
<1>1. GoOn(cs, ds)
  BY QuietGoesOn
<1>2. ASSUME NEW i \in Call
      PROVE  ds[i] = cs[i] \/ ds[i].at \in {"failed", "done", "catalog"}
  <2>1. cs[i] \in AnyCall /\ Sound(cs[i]) /\ Quiet1(cs[i], ds[i])
    BY DEF SoundCalls, QuietCalls
  <2>. QED BY <2>1, QuietIs
<1>3. ASSUME NEW s \in Sessions, Whole(cs, kn, sn, w, s)
      PROVE  Whole(ds, kn, sn, w, s)
  <2>1. \A i \in Call : IsOpen(ds[i], s) /\ ds[i].at = "draft" => ds[i] = cs[i]
    BY <1>2
  <2>2. \A i \in Call : Alien(ds[i], s) => ds[i] = cs[i]
    BY <1>2 DEF Alien
  <2>. QED BY <1>3, <2>1, <2>2, NoMoreAliens
<1>. QED BY <1>1, <1>3, GoOnKeeps DEF Episodes

-----------------------------------------------------------------------------
(* What is on its way.                                                        *)

Requests == [kind : {"scope", "mark"}, of : SUBSET Sessions, rev : Nat]
Messages ==
  [kind : {"admitted", "snapshot"}]
    \union [kind : {"catalog"}, revs : Revs, seq : Nat]
    \union [kind : {"session"}, of : Sessions, rev : Nat \ {0}, seq : Nat]
    \union [kind : {"change"}, of : Sessions, rev : Nat \ {0}]
    \union [kind : {"attention"}, of : Sessions, seq : Nat]

\* What a message of each kind carries.
LEMMA MessageIs ==
  ASSUME NEW m \in Messages
  PROVE  /\ m.kind \in {"admitted", "snapshot", "catalog", "session", "change", "attention"}
         /\ m.kind = "catalog" => m.revs \in Revs /\ m.seq \in Nat
         /\ m.kind = "session" => m.of \in Sessions /\ m.rev \in Nat \ {0} /\ m.seq \in Nat
         /\ m.kind = "change" => m.of \in Sessions /\ m.rev \in Nat \ {0}
         /\ m.kind = "attention" => m.of \in Sessions /\ m.seq \in Nat
BY DEF Messages

\* What is on its way, and what is left when the first message has come.
LEMMA QueueIs ==
  ASSUME NEW q \in Seq(Messages)
  PROVE  /\ Len(q) \in Nat /\ \A k \in 1..Len(q) : q[k] \in Messages
         /\ q # <<>> => /\ Len(q) \in Nat \ {0} /\ Head(q) = q[1] /\ Tail(q) \in Seq(Messages)
                        /\ Len(Tail(q)) = Len(q) - 1
                        /\ \A k \in 1..Len(q) - 1 : Tail(q)[k] = q[k + 1]
BY LenProperties, ElementOfSeq, EmptySeq, HeadTailProperties

\* Calls that were told nothing new stay in order with what is on its way.
LEMMA OlderKeepsOrder ==
  ASSUME NEW cs, NEW ds, Older(cs, ds), NEW q \in Seq(Messages), NEW r \in Revs, Ordered(cs, q, r)
  PROVE  Ordered(ds, q, r)
<1>1. \A s \in Sessions : r[s] \in Nat
  BY DEF Revs
<1>2. \A i \in Call, s \in Sessions, n \in Nat : cs[i].revs[s] <= n => ds[i].revs[s] <= n
  BY BlankIs DEF Older
<1>3. \A k \in 1..Len(q) : q[k].kind = "session" => q[k].of \in Sessions /\ q[k].rev \in Nat
  BY QueueIs, MessageIs
<1>. QED BY <1>1, <1>2, <1>3 DEF Ordered

\* Once the first message is a catalog's, every call may be told what it says.
LEMMA HeadKeepsOrder ==
  ASSUME NEW cs, NEW ds, NEW q \in Seq(Messages), q # <<>>, NEW r \in Revs, Ordered(cs, q, r),
         \A i \in Call : \/ ds[i].revs = cs[i].revs
                         \/ Head(q).kind = "catalog" /\ ds[i].revs = Head(q).revs
  PROVE  Ordered(ds, Tail(q), r)
<1>1. /\ Len(q) \in Nat \ {0} /\ Head(q) = q[1] /\ Len(Tail(q)) = Len(q) - 1
      /\ \A k \in 1..Len(q) - 1 : Tail(q)[k] = q[k + 1] /\ k + 1 \in 1..Len(q)
  BY QueueIs
<1>2. 1 \in 1..Len(q) /\ \A k \in 1..Len(q) : 1 \in 1..k
  BY <1>1
<1>3. ASSUME NEW i \in Call, NEW s \in Sessions PROVE ds[i].revs[s] <= r[s]
  BY <1>1, <1>2 DEF Ordered
<1>4. ASSUME NEW k \in 1..Len(q), q[k].kind = "session", NEW i \in Call
      PROVE  ds[i].revs[q[k].of] <= q[k].rev
  BY <1>1, <1>2, <1>4 DEF Ordered
<1>5. ASSUME NEW k \in 1..Len(q) - 1, Tail(q)[k].kind = "session"
      PROVE  /\ Tail(q)[k].rev <= r[Tail(q)[k].of]
             /\ \A i \in Call : ds[i].revs[Tail(q)[k].of] <= Tail(q)[k].rev
             /\ \A j \in 1..k : Tail(q)[j].kind = "catalog"
                                  => Tail(q)[j].revs[Tail(q)[k].of] <= Tail(q)[k].rev
  <2>1. k + 1 \in 1..Len(q) /\ Tail(q)[k] = q[k + 1]
    BY <1>1
  <2>2. \A j \in 1..k : j + 1 \in 1..k + 1 /\ Tail(q)[j] = q[j + 1]
    BY <1>1
  <2>. QED BY <1>4, <1>5, <2>1, <2>2 DEF Ordered
<1>6. ASSUME NEW k \in 1..Len(q) - 1, Tail(q)[k].kind = "catalog"
      PROVE  \A s \in Sessions : Tail(q)[k].revs[s] <= r[s]
  BY <1>1, <1>6 DEF Ordered
<1>. QED BY <1>1, <1>3, <1>5, <1>6 DEF Ordered

\* When the Host makes more revisions, what is on its way stays in order.
LEMMA LaterKeepsOrder ==
  ASSUME NEW cs, SoundCalls(cs), NEW q \in Seq(Messages), NEW r \in Revs, NEW t \in Revs,
         \A s \in Sessions : r[s] <= t[s], Ordered(cs, q, r)
  PROVE  Ordered(cs, q, t)
<1>1. \A s \in Sessions : r[s] \in Nat /\ t[s] \in Nat
  BY DEF Revs
<1>2. \A i \in Call, s \in Sessions : cs[i].revs[s] \in Nat
  BY DEF SoundCalls, AnyCall
<1>3. \A k \in 1..Len(q) :
        /\ q[k].kind = "session" => q[k].of \in Sessions /\ q[k].rev \in Nat
        /\ q[k].kind = "catalog" => \A s \in Sessions : q[k].revs[s] \in Nat
  BY QueueIs, MessageIs DEF Revs
<1>. QED BY <1>1, <1>2, <1>3 DEF Ordered

\* With nothing on its way nothing is out of order.
LEMMA NoneLeftInOrder ==
  ASSUME NEW cs, NEW q, NEW r, NEW w
  PROVE  /\ Ordered(cs, q, r) => Ordered(cs, <<>>, r)
         /\ Unloaded(cs, q, w) => Unloaded(cs, <<>>, w)
BY DEF Ordered, Unloaded

\* What the Host sends is what it has.
LEMMA AppendKeepsOrder ==
  ASSUME NEW cs, NEW q \in Seq(Messages), NEW r \in Revs, NEW m \in Messages,
         m.kind = "catalog" => m.revs = r, m.kind = "session" => m.rev = r[m.of],
         Ordered(cs, q, r)
  PROVE  Ordered(cs, Append(q, m), r)
<1>1. /\ Append(q, m) \in Seq(Messages) /\ Len(Append(q, m)) = Len(q) + 1 /\ Len(q) \in Nat
      /\ \A k \in 1..Len(q) : Append(q, m)[k] = q[k]
      /\ Append(q, m)[Len(q) + 1] = m
  BY AppendProperties, LenProperties
<1>2. \A k \in 1..Len(q) + 1 : k \in 1..Len(q) \/ k = Len(q) + 1
  BY <1>1
<1>3. \A s \in Sessions : r[s] \in Nat
  BY DEF Revs
<1>4. m.kind = "session" => m.of \in Sessions
  BY MessageIs
<1> DEFINE p == Append(q, m)
<1>. HIDE DEF p
<1>5. ASSUME NEW k \in 1..Len(q), p[k].kind = "session"
      PROVE  /\ p[k].rev <= r[p[k].of]
             /\ \A i \in Call : cs[i].revs[p[k].of] <= p[k].rev
             /\ \A j \in 1..k : p[j].kind = "catalog" => p[j].revs[p[k].of] <= p[k].rev
  <2>1. \A j \in 1..k : j \in 1..Len(q) /\ p[j] = q[j]
    BY <1>1 DEF p
  <2>2. k \in 1..k
    BY <1>1
  <2>. QED BY <1>5, <2>1, <2>2 DEF Ordered
<1>6. ASSUME m.kind = "session"
      PROVE  /\ m.rev <= r[m.of]
             /\ \A i \in Call : cs[i].revs[m.of] <= m.rev
             /\ \A j \in 1..Len(q) + 1 : p[j].kind = "catalog" => p[j].revs[m.of] <= m.rev
  <2>1. \A j \in 1..Len(q) : p[j] = q[j]
    BY <1>1 DEF p
  <2>2. p[Len(q) + 1] = m
    BY <1>1 DEF p
  <2>. QED BY <1>2, <1>3, <1>4, <1>6, <2>1, <2>2 DEF Ordered
<1>7. ASSUME NEW k \in 1..Len(q) + 1, p[k].kind = "catalog"
      PROVE  \A s \in Sessions : p[k].revs[s] <= r[s]
  <2>1. CASE k \in 1..Len(q)
    BY <1>1, <1>7, <2>1 DEF Ordered, p
  <2>2. CASE k = Len(q) + 1
    BY <1>1, <1>3, <1>7, <2>2 DEF p
  <2>. QED BY <1>2, <2>1, <2>2
<1>8. Len(p) = Len(q) + 1 /\ p[Len(q) + 1] = m
  BY <1>1 DEF p
<1>9. Ordered(cs, p, r)
  BY <1>2, <1>5, <1>6, <1>7, <1>8 DEF Ordered
<1>. QED BY <1>9 DEF p

\* While no catalog comes, the catalog is still before every Session.
LEMMA TailKeepsUnloaded ==
  ASSUME NEW cs, NEW q \in Seq(Messages), q # <<>>, NEW w, Unloaded(cs, q, w),
         Head(q).kind # "catalog"
  PROVE  Unloaded(cs, Tail(q), w)
<1>1. /\ Len(q) \in Nat \ {0} /\ Head(q) = q[1] /\ Len(Tail(q)) = Len(q) - 1
      /\ \A k \in 1..Len(q) - 1 : Tail(q)[k] = q[k + 1] /\ k + 1 \in 1..Len(q)
  BY QueueIs
<1>2. ASSUME NEW k \in 1..Len(q) - 1, Tail(q)[k].kind = "session",
             \A n \in 1..Len(q) : q[n].kind = "session" => \E j \in 1..n : q[j].kind = "catalog"
      PROVE  \E j \in 1..k : Tail(q)[j].kind = "catalog"
  <2>1. k + 1 \in 1..Len(q) /\ q[k + 1].kind = "session"
    BY <1>1, <1>2
  <2>2. PICK j \in 1..k + 1 : q[j].kind = "catalog"
    BY <1>2, <2>1
  <2>3. j # 1
    BY <1>1, <2>2
  <2>4. j - 1 \in 1..k /\ j - 1 \in 1..Len(q) - 1 /\ (j - 1) + 1 = j
    BY <1>1, <2>3
  <2>. QED BY <1>1, <2>2, <2>4
<1>. QED BY <1>1, <1>2 DEF Unloaded

\* A Session that is sent behind a catalog may be sent.
LEMMA AppendKeepsUnloaded ==
  ASSUME NEW cs, NEW q \in Seq(Messages), NEW m \in Messages, NEW w, Unloaded(cs, q, w),
         m.kind = "session" => \E j \in 1..Len(q) : q[j].kind = "catalog"
  PROVE  Unloaded(cs, Append(q, m), w)
<1>1. /\ Len(Append(q, m)) = Len(q) + 1 /\ Len(q) \in Nat
      /\ \A k \in 1..Len(q) : Append(q, m)[k] = q[k]
      /\ Append(q, m)[Len(q) + 1] = m
  BY AppendProperties, LenProperties
<1> DEFINE p == Append(q, m)
<1>. HIDE DEF p
<1>2. ASSUME NEW k \in 1..Len(q) + 1, p[k].kind = "session",
             \A n \in 1..Len(q) : q[n].kind = "session" => \E j \in 1..n : q[j].kind = "catalog"
      PROVE  \E j \in 1..k : p[j].kind = "catalog"
  <2>1. CASE k \in 1..Len(q)
    <3>1. PICK j \in 1..k : q[j].kind = "catalog"
      BY <1>1, <1>2, <2>1 DEF p
    <3>. QED BY <1>1, <2>1, <3>1 DEF p
  <2>2. CASE k = Len(q) + 1
    <3>1. PICK j \in 1..Len(q) : q[j].kind = "catalog"
      BY <1>1, <1>2, <2>2 DEF p
    <3>. QED BY <1>1, <2>2, <3>1 DEF p
  <2>. QED BY <1>1, <2>1, <2>2
<1>3. Unloaded(cs, p, w)
  BY <1>1, <1>2 DEF Unloaded, p
<1>. QED BY <1>3 DEF p

-----------------------------------------------------------------------------
(* Answers.                                                                   *)

\* The calls that wait for the Session of m are told of it.
Told(c, m) ==
  IF c.at = "session" /\ c.of = m.of
  THEN [c EXCEPT !.rev = m.rev, !.own = m.seq,
                 !.at = IF c.kind = "open" THEN "draft" ELSE "reconcile"]
  ELSE c

\* What a call is once it was told of a Session.
LEMMA ToldIs ==
  ASSUME NEW c \in AnyCall, Sound(c), NEW m \in Messages, m.kind = "session"
  PROVE  /\ Told(c, m) \in AnyCall /\ Sound(Told(c, m))
         /\ Told(c, m).kind = c.kind /\ Told(c, m).of = c.of /\ Told(c, m).revs = c.revs
         /\ Told(c, m).at = "catalog" => Told(c, m) = c
         /\ Told(c, m).at = "draft" => Told(c, m) = c
                                            \/ (c.of = m.of /\ Told(c, m).rev = m.rev)
         /\ \A s : Alien(Told(c, m), s) => Alien(c, s)
<1>1. m.rev \in Nat \ {0} /\ m.seq \in Nat
  BY MessageIs
<1>2. CASE c.at = "session" /\ c.of = m.of
  <2> DEFINE p == IF c.kind = "open" THEN "draft" ELSE "reconcile"
             d == [c EXCEPT !.rev = m.rev, !.own = m.seq, !.at = p]
  <2>1. Told(c, m) = d /\ p \in {"draft", "reconcile"} /\ p \in Places
    BY <1>2 DEF Told, Places
  <2>2. c.kind = "open" <=> p = "draft"
    OBVIOUS
  <2>. HIDE DEF p
  <2>3. d \in AnyCall
    BY <1>1, <2>1 DEF AnyCall
  <2>4. d.kind = c.kind /\ d.of = c.of /\ d.revs = c.revs /\ d.at = p /\ d.rev = m.rev
    BY DEF AnyCall
  <2>5. c.kind \in {"open", "recover"} /\ (c.kind = "recover" => c.revs \in Revs)
    BY <1>2 DEF Sound
  <2>. HIDE DEF d
  <2>6. Sound(d)
    BY <1>1, <2>1, <2>2, <2>4, <2>5 DEF Sound
  <2>7. \A s : Alien(d, s) => Alien(c, s)
    BY <1>2, <2>1, <2>4 DEF Alien
  <2>. QED BY <1>2, <2>1, <2>3, <2>4, <2>6, <2>7
<1>3. CASE ~(c.at = "session" /\ c.of = m.of)
  BY <1>3, Zenon DEF Told
<1>. QED BY <1>2, <1>3

\* When a Session comes, the calls it answers keep order, load and episodes.
LEMMA ToldKeeps ==
  ASSUME NEW cs, SoundCalls(cs), NEW q \in Seq(Messages), q # <<>>, Head(q).kind = "session",
         NEW r \in Revs, Ordered(cs, q, r), NEW ds, ds = [i \in Call |-> Told(cs[i], Head(q))],
         NEW sel, NEW kn, NEW pr, NEW sn, NEW w, Unloaded(cs, q, w), Episodes(cs, sel, kn, pr, sn, w)
  PROVE  /\ SoundCalls(ds) /\ GoOn(cs, ds) /\ \A i \in Call : ds[i].revs = cs[i].revs
         /\ Ordered(ds, Tail(q), r) /\ Unloaded(ds, Tail(q), w) /\ Episodes(ds, sel, kn, pr, sn, w)
<1> DEFINE m == Head(q)
<1>1. m \in Messages /\ m.kind = "session" /\ m = q[1] /\ Len(q) \in Nat \ {0}
      /\ m.of \in Sessions /\ m.rev \in Nat
  BY QueueIs, MessageIs
<1>2. ASSUME NEW i \in Call
      PROVE  /\ ds[i] = Told(cs[i], m) /\ cs[i] \in AnyCall /\ Sound(cs[i])
             /\ ds[i] \in AnyCall /\ Sound(ds[i])
             /\ ds[i].kind = cs[i].kind /\ ds[i].of = cs[i].of /\ ds[i].revs = cs[i].revs
             /\ ds[i].at = "catalog" => ds[i] = cs[i]
             /\ ds[i].at = "draft" => ds[i] = cs[i] \/ (cs[i].of = m.of /\ ds[i].rev = m.rev)
             /\ \A s : Alien(ds[i], s) => Alien(cs[i], s)
  <2>1. cs[i] \in AnyCall /\ Sound(cs[i]) /\ ds[i] = Told(cs[i], m)
    BY DEF SoundCalls
  <2>. HIDE DEF m
  <2>. QED BY <1>1, <2>1, ToldIs
<1>3. SoundCalls(ds)
  BY <1>2 DEF SoundCalls
<1>4. GoOn(cs, ds)
  BY <1>2 DEF GoOn, IsOpen
<1>5. Ordered(ds, Tail(q), r)
  BY <1>2, HeadKeepsOrder
<1>6. Unloaded(ds, Tail(q), w)
  <2>1. Unloaded(cs, Tail(q), w)
    BY TailKeepsUnloaded
  <2>2. ~\E i \in Call : cs[i].kind = "load" /\ cs[i].at = "catalog"
    BY <1>1 DEF Unloaded
  <2>. QED BY <1>2, <2>2 DEF Unloaded
<1>7. \A i \in Call : cs[i].revs[m.of] <= m.rev
  BY <1>1 DEF Ordered
<1>. HIDE DEF m
<1>8. ASSUME NEW s \in Sessions, Whole(cs, kn, sn, w, s)
      PROVE  Whole(ds, kn, sn, w, s)
  <2>1. ASSUME NEW i \in Call, NEW j \in Call, IsOpen(ds[i], s), ds[i].at = "draft", Alien(ds[j], s)
        PROVE  ds[j].revs[s] <= ds[i].rev
    <3>1. Alien(cs[j], s) /\ ds[j].revs = cs[j].revs
      BY <1>2, <2>1
    <3>2. CASE ds[i] = cs[i]
      BY <1>8, <2>1, <3>1, <3>2 DEF Whole
    <3>3. CASE cs[i].of = m.of /\ ds[i].rev = m.rev
      <4>1. s = m.of
        BY <1>2, <2>1, <3>3 DEF IsOpen
      <4>. QED BY <1>7, <3>1, <3>3, <4>1
    <3>. QED BY <1>2, <2>1, <3>2, <3>3
  <2>2. ASSUME s \in w
        PROVE  /\ 1..kn[s] \subseteq sn[s]
               /\ \A j \in Call : Alien(ds[j], s) => 1..ds[j].revs[s] \subseteq sn[s]
    <3>1. \A j \in Call : Alien(ds[j], s) => Alien(cs[j], s) /\ ds[j].revs = cs[j].revs
      BY <1>2
    <3>. QED BY <1>8, <2>2, <3>1 DEF Whole
  <2>. QED BY <2>1, <2>2 DEF Whole
<1>9. Episodes(ds, sel, kn, pr, sn, w)
  BY <1>4, <1>8, GoOnKeeps DEF Episodes
<1>. QED BY <1>2, <1>3, <1>4, <1>5, <1>6, <1>9

\* The calls that wait for the catalog are told of it.
LEMMA SettledIs ==
  ASSUME NEW c \in AnyCall, Sound(c), c.at = "catalog", NEW m \in Messages, m.kind = "catalog",
         selected \in Sessions \union {None}
  PROVE  /\ Settled(c, m) \in AnyCall /\ Sound(Settled(c, m))
         /\ Settled(c, m).kind = c.kind /\ Settled(c, m).revs = m.revs
         /\ c.kind = "load" => Settled(c, m).at = "preferences"
         /\ c.kind = "recover" => Settled(c, m).at \in {"session", "reconcile"}
                                   /\ Settled(c, m).of = selected
<1>1. m.revs \in Revs /\ m.revs \in [Sessions -> Nat] /\ m.seq \in Nat
  BY MessageIs DEF Revs
<1>2. c.kind \in {"load", "recover"}
  BY DEF Sound
<1> DEFINE f == IF c.kind = "recover" THEN selected ELSE None
           p == IF c.kind = "load" THEN "preferences"
                ELSE IF selected = None THEN "reconcile" ELSE "session"
           d == [c EXCEPT !.revs = m.revs, !.seq = m.seq, !.of = f, !.at = p]
<1>3. Settled(c, m) = d /\ f \in Sessions \union {None} /\ p \in Places
  BY DEF Settled, Places
<1>4. /\ c.kind = "load" => p = "preferences"
      /\ c.kind = "recover" => /\ p \in {"session", "reconcile"} /\ f = selected
                               /\ p = "session" <=> selected # None
  BY <1>2
<1>. HIDE DEF f, p
<1>5. d \in AnyCall
  BY <1>1, <1>3 DEF AnyCall
<1>6. d.kind = c.kind /\ d.of = f /\ d.revs = m.revs /\ d.at = p
  BY DEF AnyCall
<1>. HIDE DEF d
<1>7. CASE c.kind = "load"
  BY <1>1, <1>3, <1>4, <1>5, <1>6, <1>7 DEF Sound
<1>8. CASE c.kind = "recover"
  <2>1. d.kind = "recover" /\ d.of = selected /\ d.revs \in Revs /\ d.at \in {"session", "reconcile"}
        /\ (d.at = "session" <=> selected # None)
    BY <1>1, <1>4, <1>6, <1>8
  <2>2. Sound(d)
    BY <2>1 DEF Sound
  <2>. QED BY <1>3, <1>5, <1>6, <1>8, <2>1, <2>2
<1>. QED BY <1>2, <1>7, <1>8

\* When the catalog comes, the calls it answers keep order, load and episodes.
LEMMA SettleKeeps ==
  ASSUME NEW cs, SoundCalls(cs), NEW q \in Seq(Messages), q # <<>>, Head(q).kind = "catalog",
         selected \in Sessions \union {None}, NEW r \in Revs, Ordered(cs, q, r),
         NEW ds, ds = [i \in Call |-> IF cs[i].at = "catalog" THEN Settled(cs[i], Head(q)) ELSE cs[i]],
         NEW kn, NEW pr, NEW sn, NEW w, Unloaded(cs, q, w), Episodes(cs, selected, kn, pr, sn, w)
  PROVE  /\ SoundCalls(ds) /\ GoOn(cs, ds) /\ \A i \in Call : ds[i].at # "catalog"
         /\ Ordered(ds, Tail(q), r) /\ Unloaded(ds, Tail(q), w)
         /\ Episodes(ds, selected, kn, pr, sn, w)
<1> DEFINE m == Head(q)
<1>1. m \in Messages /\ m.kind = "catalog"
  BY QueueIs
<1>2. ASSUME NEW i \in Call, cs[i].at = "catalog"
      PROVE  /\ ds[i] \in AnyCall /\ Sound(ds[i])
             /\ ds[i].kind = cs[i].kind /\ ds[i].revs = m.revs /\ cs[i].kind \in {"load", "recover"}
             /\ cs[i].kind = "load" => ds[i].at = "preferences"
             /\ cs[i].kind = "recover" => ds[i].at \in {"session", "reconcile"} /\ ds[i].of = selected
  <2>1. cs[i] \in AnyCall /\ Sound(cs[i]) /\ ds[i] = Settled(cs[i], m)
    BY <1>2 DEF SoundCalls
  <2>. HIDE DEF m
  <2>2. cs[i].kind \in {"load", "recover"}
    BY <1>2, <2>1 DEF Sound
  <2>. QED BY <1>1, <1>2, <2>1, <2>2, SettledIs
<1>3. ASSUME NEW i \in Call, cs[i].at # "catalog"
      PROVE  ds[i] = cs[i] /\ ds[i] \in AnyCall /\ Sound(ds[i])
  BY <1>3 DEF SoundCalls
<1>4. SoundCalls(ds)
  BY <1>2, <1>3 DEF SoundCalls
<1>5. GoOn(cs, ds)
  BY <1>2, <1>3 DEF GoOn, IsOpen
<1>6. \A i \in Call : ds[i].at # "catalog"
  BY <1>2, <1>3
<1>7. Ordered(ds, Tail(q), r)
  BY <1>1, <1>2, <1>3, HeadKeepsOrder
<1>8. Unloaded(ds, Tail(q), w)
  BY <1>6 DEF Unloaded
<1>. HIDE DEF m
<1>9. ASSUME NEW s \in Sessions, selected = s, Whole(cs, kn, sn, w, s)
      PROVE  Whole(ds, kn, sn, w, s)
  <2>1. CASE \E i \in Call : cs[i].kind = "load" /\ cs[i].at = "catalog"
    <3>1. w = {} /\ \A i \in Call : cs[i].at # "draft"
      BY <2>1 DEF Unloaded
    <3>2. \A i \in Call : ds[i].at # "draft"
      BY <1>2, <1>3, <3>1
    <3>. QED BY <3>1, <3>2 DEF Whole
  <2>2. CASE ~\E i \in Call : cs[i].kind = "load" /\ cs[i].at = "catalog"
    <3>1. \A i \in Call : cs[i].at = "catalog" => ds[i].at # "draft" /\ ~Alien(ds[i], s)
      BY <1>2, <1>9, <2>2 DEF Alien
    <3>2. \A i \in Call : ds[i].at = "draft" \/ Alien(ds[i], s) => ds[i] = cs[i]
      BY <1>3, <3>1
    <3>. QED BY <1>9, <3>2, NoMoreAliens
  <2>. QED BY <2>1, <2>2
<1>10. Episodes(ds, selected, kn, pr, sn, w)
  BY <1>5, <1>9, GoOnKeeps DEF Episodes
<1>. QED BY <1>4, <1>5, <1>6, <1>7, <1>8, <1>10

-----------------------------------------------------------------------------
(* A Session is opened.                                                       *)

Opening(s) == [Unasked EXCEPT !.kind = "open", !.of = s, !.at = "session"]

\* A call that begins to open s.
LEMMA OpeningIs ==
  ASSUME NEW s \in Sessions
  PROVE  /\ Opening(s) \in AnyCall /\ Sound(Opening(s)) /\ IsOpen(Opening(s), s)
         /\ Opening(s).at = "session" /\ Opening(s).revs = Blank
BY BlankIs DEF Opening, Unasked, AnyCall, Places, Kinds, IsOpen, Sound

\* When s is opened it is the one selected: opened once, it has not been watched before.
LEMMA OpenKeeps ==
  ASSUME NEW cs, SoundCalls(cs), NEW n \in Call, cs[n].kind = None, NEW s \in Sessions,
         NEW ds, ds = [cs EXCEPT ![n] = Opening(s)],
         NEW sel, NEW kn, NEW pr, NEW sn, NEW w, NEW q, Unloaded(cs, q, w),
         Episodes(cs, sel, kn, pr, sn, w)
  PROVE  /\ SoundCalls(ds) /\ GoOn(cs, ds) /\ Older(cs, ds)
         /\ Unloaded(ds, q, w) /\ Episodes(ds, s, kn, pr, sn, w)
<1>1. cs \in [Call -> AnyCall] /\ \A i \in Call : Sound(cs[i])
  BY DEF SoundCalls
<1>2. ds[n] = Opening(s) /\ \A i \in Call : i # n => ds[i] = cs[i]
  BY <1>1
<1>3. ds \in [Call -> AnyCall]
  BY <1>1, OpeningIs
<1>4. SoundCalls(ds)
  BY <1>1, <1>2, <1>3, OpeningIs DEF SoundCalls
<1>5. ~IsOpen(cs[n], s) /\ \A t : ~IsOpen(cs[n], t)
  BY DEF IsOpen, None
<1>6. GoOn(cs, ds)
  BY <1>2, <1>5 DEF GoOn
<1>7. Older(cs, ds)
  BY <1>2, OpeningIs DEF Older
<1>8. Unloaded(ds, q, w)
  <2>1. ds[n].kind # "load" /\ ds[n].at # "draft"
    BY <1>2, OpeningIs DEF IsOpen
  <2>. QED BY <1>2, <2>1 DEF Unloaded
<1>9. Opened(ds, s)
  BY <1>2, OpeningIs DEF Opened
<1>10. ASSUME Once(ds, s) PROVE Whole(ds, kn, sn, w, s)
  <2>1. \A i \in Call : IsOpen(ds[i], s) => i = n
    BY <1>2, <1>10, OpeningIs DEF Once
  <2>2. ~Opened(cs, s)
    BY <1>2, <1>5, <2>1 DEF Opened
  <2>3. s \notin w
    BY <2>2 DEF Episodes
  <2>4. ds[n].at # "draft"
    BY <1>2, OpeningIs
  <2>. QED BY <2>1, <2>3, <2>4 DEF Whole
<1>11. \A t \in Sessions : t \in w \/ pr[t] # 0 => Opened(ds, t)
  BY <1>6, GoOnKeeps DEF Episodes
<1>12. Episodes(ds, s, kn, pr, sn, w)
  BY <1>9, <1>10, <1>11 DEF Episodes
<1>. QED BY <1>4, <1>6, <1>7, <1>8, <1>12

-----------------------------------------------------------------------------
(* A call that has all its answers writes them.                               *)

\* An open that ends shows all it was told of, which covers what others may write.
LEMMA OpenedEpisodes ==
  ASSUME NEW cs, SoundCalls(cs), NEW i \in Call, cs[i].at = "draft",
         NEW ds, QuietCalls(cs, ds), ds[i].at = "done",
         NEW s \in Sessions, s = cs[i].of, NEW kn, NEW pr, NEW sn, NEW w,
         Episodes(cs, s, kn, pr, sn, w),
         NEW kn2, NEW pr2, NEW sn2, NEW w2, w2 = w \union {s}, kn2[s] = cs[i].rev,
         \A t \in Sessions : t # s => pr2[t] = pr[t],
         sn[s] \subseteq sn2[s], 1..cs[i].rev \subseteq sn2[s]
  PROVE  Episodes(ds, s, kn2, pr2, sn2, w2)
<1>1. cs[i] \in AnyCall /\ Sound(cs[i]) /\ cs[i].kind = "open" /\ cs[i].rev \in Nat
      /\ \A j \in Call : cs[j].revs[s] \in Nat
  BY DEF SoundCalls, Sound, AnyCall
<1>2. IsOpen(cs[i], s) /\ Opened(cs, s)
  BY <1>1 DEF IsOpen, Opened
<1>3. GoOn(cs, ds)
  BY QuietGoesOn
<1>4. ASSUME NEW j \in Call
      PROVE  ds[j] = cs[j] \/ ds[j].at \in {"failed", "done", "catalog"}
  <2>1. cs[j] \in AnyCall /\ Sound(cs[j]) /\ Quiet1(cs[j], ds[j])
    BY DEF SoundCalls, QuietCalls
  <2>. QED BY <2>1, QuietIs
<1>5. ASSUME Once(ds, s) PROVE Whole(ds, kn2, sn2, w2, s)
  <2>1. Once(cs, s) /\ IsOpen(ds[i], s)
    BY <1>2, <1>3, <1>5, GoOnKeeps DEF GoOn
  <2>2. \A j \in Call : IsOpen(ds[j], s) => ds[j].at # "draft"
    BY <1>5, <2>1 DEF Once
  <2>3. Whole(cs, kn, sn, w, s)
    BY <2>1 DEF Episodes
  <2>4. ASSUME NEW j \in Call, Alien(ds[j], s)
        PROVE  1..ds[j].revs[s] \subseteq sn2[s]
    <3>1. ds[j] = cs[j]
      BY <1>4, <2>4 DEF Alien
    <3>2. cs[j].revs[s] <= cs[i].rev
      BY <1>2, <2>3, <2>4, <3>1 DEF Whole
    <3>3. 1..cs[j].revs[s] \subseteq 1..cs[i].rev
      BY <1>1, <3>2
    <3>. QED BY <3>1, <3>3
  <2>. QED BY <2>2, <2>4 DEF Whole
<1>6. \A t \in Sessions : t = s \/ t \in w2 \/ pr2[t] # 0 => Opened(ds, t)
  BY <1>2, <1>3, GoOnKeeps DEF Episodes
<1>. QED BY <1>5, <1>6 DEF Episodes

\* A call that is not an open writes what it was to write.
LEMMA WrittenEpisodes ==
  ASSUME NEW cs, SoundCalls(cs), NEW ds, QuietCalls(cs, ds),
         NEW sel, NEW kn, NEW pr, NEW sn, NEW w, Episodes(cs, sel, kn, pr, sn, w),
         NEW kn2, NEW sn2, \A s \in Sessions : sn[s] \subseteq sn2[s],
         \A s \in Sessions : sel = s /\ s \in w /\ Whole(cs, kn, sn, w, s) => 1..kn2[s] \subseteq sn2[s]
  PROVE  Episodes(ds, sel, kn2, pr, sn2, w)
<1>1. Episodes(ds, sel, kn, pr, sn, w) /\ GoOn(cs, ds)
  BY QuietKeepsEpisodes, QuietGoesOn
<1>2. ASSUME NEW s \in Sessions, sel = s, Once(ds, s)
      PROVE  Whole(ds, kn2, sn2, w, s)
  <2>1. Whole(ds, kn, sn, w, s)
    BY <1>1, <1>2 DEF Episodes
  <2>2. Whole(cs, kn, sn, w, s)
    BY <1>1, <1>2, GoOnKeeps DEF Episodes
  <2>. QED BY <1>2, <2>1, <2>2 DEF Whole
<1>. QED BY <1>1, <1>2 DEF Episodes

-----------------------------------------------------------------------------
(* The invariant.                                                             *)

Scopes == [kind : {"scope"}, of : SUBSET Sessions, rev : Nat]

\* What a request marks read has been on the screen.
Marks(cs, sn, q) ==
  \A k \in 1..Len(q) : q[k].kind = "mark" =>
    \E s \in Sessions : q[k].of = {s} /\ Covered(cs, sn, s, q[k].rev)

ViewTypes ==
  /\ rev \in Revs /\ seq \in Nat /\ read \in [Sessions -> Nat]
  /\ toHost \in Seq(Requests) /\ toClient \in Seq(Messages)
  /\ SoundCalls(call) /\ subs \in Seq(Subscribers(call))
  /\ selected \in Sessions \union {None} /\ watched \subseteq Sessions
  /\ known \in [Sessions -> Nat] /\ presented \in [Sessions -> Nat]
  /\ held \in [Sessions -> Nat] /\ basis \in [Sessions -> Nat]
  /\ seen \in [Sessions -> SUBSET Nat]

ViewInv ==
  /\ ViewTypes
  /\ \A s \in Sessions : known[s] = 0 => held[s] = 0
  /\ Ordered(call, toClient, rev)
  /\ Unloaded(call, toClient, watched)
  /\ Episodes(call, selected, known, presented, seen, watched)
  /\ \A s \in Sessions : Covered(call, seen, s, presented[s]) /\ Covered(call, seen, s, read[s])
  /\ Marks(call, seen, toHost)

\* What a call asks the Host for is a scope.
LEMMA AsksIs ==
  ASSUME NEW c \in AnyCall, c.kind # None,
         c.kind = "recover" /\ c.at # "catalog" => c.of \in Sessions,
         c.kind = "open" => c.of \in Sessions
  PROVE  Asks(c) \in Scopes
<1> DEFINE f == IF c.kind # "load" /\ c.at # "catalog" THEN {c.of} ELSE {}
<1>1. f \in SUBSET Sessions
  BY DEF AnyCall, Kinds
<1>2. Asks(c) = [kind |-> "scope", of |-> f, rev |-> 0]
  BY DEF Asks
<1>. HIDE DEF f
<1>. QED BY <1>1, <1>2 DEF Scopes

\* So it is with every subscriber,
LEMMA SubscriberAsks ==
  ASSUME NEW cs, SoundCalls(cs), NEW i \in Subscribers(cs)
  PROVE  Asks(cs[i]) \in Scopes
<1>1. i \in Call /\ cs[i] \in AnyCall /\ Sound(cs[i])
  BY DEF SoundCalls, Subscribers
<1>. QED BY <1>1, AsksIs DEF Subscribers, Sound

\* and with a list of them.
LEMMA ListAsks ==
  ASSUME NEW cs, SoundCalls(cs), NEW list \in Seq(Subscribers(cs))
  PROVE  [n \in DOMAIN list |-> Asks(cs[list[n]])] \in Seq(Scopes)
<1> DEFINE f == [n \in DOMAIN list |-> Asks(cs[list[n]])]
<1>1. Len(list) \in Nat /\ DOMAIN list = 1..Len(list) /\ \A n \in 1..Len(list) : list[n] \in Subscribers(cs)
  BY LenProperties, ElementOfSeq
<1>2. \A n \in 1..Len(list) : Asks(cs[list[n]]) \in Scopes
  BY <1>1, SubscriberAsks
<1>3. f \in [1..Len(list) -> Scopes]
  BY <1>1, <1>2
<1>. QED BY <1>1, <1>3

\* Requests for scopes mark nothing read.
LEMMA ScopesAreRequests ==
  ASSUME NEW q \in Seq(Requests), NEW p \in Seq(Scopes), NEW cs, NEW sn, Marks(cs, sn, q)
  PROVE  q \o p \in Seq(Requests) /\ Marks(cs, sn, q \o p)
<1>1. Scopes \subseteq Requests
  BY DEF Scopes, Requests
<1>2. p \in Seq(Requests)
  BY <1>1, SeqMonotonic
<1>3. /\ q \o p \in Seq(Requests) /\ Len(q \o p) = Len(q) + Len(p) /\ Len(q) \in Nat /\ Len(p) \in Nat
      /\ \A k \in 1..Len(q) + Len(p) : (q \o p)[k] = IF k <= Len(q) THEN q[k] ELSE p[k - Len(q)]
  BY <1>2, ConcatProperties, LenProperties
<1>4. \A k \in 1..Len(p) : p[k].kind = "scope"
  <2>1. \A m \in Scopes : m.kind = "scope"
    BY DEF Scopes
  <2>. QED BY <2>1, ElementOfSeq
<1>5. ASSUME NEW k \in 1..Len(q) + Len(p), (q \o p)[k].kind = "mark"
      PROVE  k \in 1..Len(q) /\ (q \o p)[k] = q[k]
  <2>1. CASE k <= Len(q)
    BY <1>3, <2>1
  <2>2. CASE ~(k <= Len(q))
    <3>1. k - Len(q) \in 1..Len(p) /\ (q \o p)[k] = p[k - Len(q)]
      BY <1>3, <2>2
    <3>. QED BY <1>4, <1>5, <3>1
  <2>. QED BY <2>1, <2>2
<1>. QED BY <1>3, <1>5 DEF Marks

\* A request that marks what was covered may join the others.
LEMMA AskKeepsMarks ==
  ASSUME NEW q \in Seq(Requests), NEW m \in Requests, NEW cs, NEW sn, Marks(cs, sn, q),
         m.kind = "mark" => \E s \in Sessions : m.of = {s} /\ Covered(cs, sn, s, m.rev)
  PROVE  Append(q, m) \in Seq(Requests) /\ Marks(cs, sn, Append(q, m))
<1>1. /\ Append(q, m) \in Seq(Requests) /\ Len(Append(q, m)) = Len(q) + 1 /\ Len(q) \in Nat
      /\ \A k \in 1..Len(q) : Append(q, m)[k] = q[k]
      /\ Append(q, m)[Len(q) + 1] = m
  BY AppendProperties, LenProperties
<1>2. \A k \in 1..Len(q) + 1 : k \in 1..Len(q) \/ k = Len(q) + 1
  BY <1>1
<1>3. ASSUME NEW k \in 1..Len(q) + 1, Append(q, m)[k].kind = "mark"
      PROVE  \E s \in Sessions : Append(q, m)[k].of = {s} /\ Covered(cs, sn, s, Append(q, m)[k].rev)
  <2>1. CASE k \in 1..Len(q)
    BY <1>1, <1>3, <2>1 DEF Marks
  <2>2. CASE k = Len(q) + 1
    BY <1>1, <1>3, <2>2
  <2>. QED BY <1>2, <2>1, <2>2
<1>. QED BY <1>1, <1>3 DEF Marks

\* What the first request marks was covered.
LEMMA TailKeepsMarks ==
  ASSUME NEW q \in Seq(Requests), q # <<>>, NEW cs, NEW sn, Marks(cs, sn, q)
  PROVE  /\ Tail(q) \in Seq(Requests) /\ Marks(cs, sn, Tail(q)) /\ Head(q) \in Requests
         /\ Head(q).kind = "mark" =>
              \E s \in Sessions : Head(q).of = {s} /\ Covered(cs, sn, s, Head(q).rev)
<1>1. /\ Len(q) \in Nat \ {0} /\ Head(q) = q[1] /\ Len(Tail(q)) = Len(q) - 1
      /\ Head(q) \in Requests /\ Tail(q) \in Seq(Requests)
      /\ \A k \in 1..Len(q) - 1 : Tail(q)[k] = q[k + 1] /\ k + 1 \in 1..Len(q)
  BY LenProperties, EmptySeq, HeadTailProperties
<1>. QED BY <1>1 DEF Marks

\* The screen only gains: what was covered, marked or not, stays so.
LEMMA CoverageKeeps ==
  ASSUME NEW cs, NEW ds, GoOn(cs, ds), NEW sn, NEW tn, \A s \in Sessions : sn[s] \subseteq tn[s], NEW q
  PROVE  /\ \A s \in Sessions : \A n : Covered(cs, sn, s, n) => Covered(ds, tn, s, n)
         /\ Marks(cs, sn, q) => Marks(ds, tn, q)
<1>1. \A s \in Sessions : \A n : Covered(cs, sn, s, n) => Covered(ds, tn, s, n)
  BY CoveredKeeps
<1>. QED BY <1>1 DEF Marks

\* No requests mark nothing.
LEMMA NothingMarked == \A cs, sn : Marks(cs, sn, <<>>)
BY DEF Marks

\* Calls that do not change go on.
LEMMA GoOnItself == \A cs : GoOn(cs, cs)
BY DEF GoOn

\* What a subscriber asks at once.
LEMMA SubscribedIs ==
  ASSUME NEW c, Asks(c) \in Scopes
  PROVE  Subscribed(c) \in Seq(Scopes)
BY DEF Subscribed

\* A list that grows by a call.
LEMMA ListGrows ==
  ASSUME NEW S, NEW T, S \subseteq T, NEW list \in Seq(S), NEW n \in T
  PROVE  Append(list, n) \in Seq(T)
BY SeqMonotonic, AppendProperties

-----------------------------------------------------------------------------
(* The steps.                                                                 *)

\* A recovery that begins joins the calls and the subscribers.
LEMMA RecoveryBegins ==
  ASSUME NEW cs, SoundCalls(cs), NEW n \in Call, cs[n].kind = None,
         NEW list \in Seq(Subscribers(cs)), NEW ds, ds = [cs EXCEPT ![n] = Recovery]
  PROVE  QuietCalls(cs, ds) /\ Append(list, n) \in Seq(Subscribers(ds))
<1>1. cs \in [Call -> AnyCall]
  BY DEF SoundCalls
<1>2. ds = [i \in Call |-> ds[i]] /\ ds[n] = Recovery /\ \A i \in Call : i # n => ds[i] = cs[i]
  BY <1>1
<1>3. QuietCalls(cs, ds)
  BY <1>2 DEF QuietCalls, Quiet1
<1>4. Subscribers(cs) \subseteq Subscribers(ds)
  BY <1>2 DEF Subscribers
<1>5. n \in Subscribers(ds)
  BY <1>2, RecoveryIs DEF Subscribers, None
<1>. QED BY <1>3, <1>4, <1>5, ListGrows

\* The status listener adds a recovery to the calls, or nothing.
LEMMA RecoversOnIs ==
  ASSUME NEW cs, SoundCalls(cs), \A i \in Call : call[i].kind = None => cs[i].kind = None,
         NEW queue, NEW list \in Seq(Subscribers(cs)), RecoversOn(cs, queue, list)
  PROVE  QuietCalls(cs, call') /\ subs' \in Seq(Subscribers(call')) /\ toHost' = queue
<1>1. CASE status = "reconnecting"
  <2>1. /\ Next1 \in Call /\ cs[Next1].kind = None /\ call' = [cs EXCEPT ![Next1] = Recovery]
        /\ subs' = Append(list, Next1) /\ toHost' = queue
    BY <1>1, NextIsFree DEF RecoversOn
  <2>. QED BY <2>1, RecoveryBegins
<1>2. CASE status # "reconnecting"
  <2>1. call' = cs /\ subs' = list /\ toHost' = queue
    BY <1>2 DEF RecoversOn
  <2>. QED BY <2>1 DEF QuietCalls, Quiet1, SoundCalls
<1>. QED BY <1>1, <1>2

\* What becomes of what has been covered.
LEMMA CoverageStep ==
  ASSUME ViewInv, GoOn(call, call'), UNCHANGED <<read, presented>>,
         \A s \in Sessions : seen[s] \subseteq seen'[s]
  PROVE  /\ \A s \in Sessions : Covered(call', seen', s, presented'[s])
                                /\ Covered(call', seen', s, read'[s])
         /\ Marks(call', seen', toHost)
BY CoverageKeeps DEF ViewInv

\* A step of the calls alone, some of which begin or end without an answer.
LEMMA CallsStep ==
  ASSUME ViewInv, QuietCalls(call, call'),
         UNCHANGED <<rev, seq, read, selected, known, presented, held, basis, watched, seen>>,
         toHost' \in Seq(Requests), Marks(call', seen', toHost) => Marks(call', seen', toHost'),
         subs' \in Seq(Subscribers(call')),
         \/ toClient' = toClient
         \/ toClient' = <<>>
         \/ toClient # <<>> /\ Head(toClient).kind # "catalog" /\ toClient' = Tail(toClient)
  PROVE  ViewInv'
<1>1. SoundCalls(call) /\ toClient \in Seq(Messages) /\ rev \in Revs
  BY DEF ViewInv, ViewTypes
<1>2. SoundCalls(call') /\ GoOn(call, call') /\ Older(call, call')
  BY <1>1, QuietKeepsSound, QuietGoesOn
<1>3. /\ \A s \in Sessions : Covered(call', seen', s, presented'[s]) /\ Covered(call', seen', s, read'[s])
      /\ Marks(call', seen', toHost)
  BY <1>2, CoverageStep
<1>4. Ordered(call', toClient, rev) /\ Unloaded(call', toClient, watched)
  BY <1>1, <1>2, OlderKeepsOrder, QuietKeepsUnloaded DEF ViewInv
<1>5. toClient' \in Seq(Messages) /\ Ordered(call', toClient', rev) /\ Unloaded(call', toClient', watched)
  <2>1. CASE toClient' = toClient
    BY <1>1, <1>4, <2>1
  <2>2. CASE toClient' = <<>>
    BY <1>4, <2>2, NoneLeftInOrder
  <2>3. CASE toClient # <<>> /\ Head(toClient).kind # "catalog" /\ toClient' = Tail(toClient)
    BY <1>1, <1>4, <2>3, HeadKeepsOrder, TailKeepsUnloaded, QueueIs
  <2>. QED BY <2>1, <2>2, <2>3
<1>6. Episodes(call', selected, known, presented, seen, watched)
  BY <1>1, QuietKeepsEpisodes DEF ViewInv
<1>. QED BY <1>1, <1>2, <1>3, <1>5, <1>6 DEF ViewInv, ViewTypes

\* Opening a Session keeps the invariant.
LEMMA OpenStep ==
  ASSUME ViewInv, NEW s \in Sessions, Open(s)
  PROVE  ViewInv'
<1>1. /\ SoundCalls(call) /\ Unloaded(call, toClient, watched) /\ Ordered(call, toClient, rev)
      /\ Episodes(call, selected, known, presented, seen, watched)
      /\ toHost \in Seq(Requests) /\ toClient \in Seq(Messages) /\ rev \in Revs
      /\ subs \in Seq(Subscribers(call))
  BY DEF ViewInv, ViewTypes
<1>2. Next1 \in Call /\ call[Next1].kind = None
  BY NextIsFree DEF Open
<1>3. /\ call' = [call EXCEPT ![Next1] = Opening(s)] /\ subs' = Append(subs, Next1)
      /\ toHost' = toHost \o Subscribed(Opening(s)) /\ selected' = s
      /\ UNCHANGED <<rev, seq, read, toClient, known, presented, held, basis, watched, seen>>
  BY DEF Open, Opening, host
<1>4. /\ SoundCalls(call') /\ GoOn(call, call') /\ Older(call, call')
      /\ Unloaded(call', toClient, watched)
      /\ Episodes(call', s, known, presented, seen, watched)
  BY <1>1, <1>2, <1>3, OpenKeeps
<1>5. Ordered(call', toClient, rev)
  BY <1>1, <1>4, OlderKeepsOrder
<1>6. /\ \A t \in Sessions : Covered(call', seen', t, presented'[t]) /\ Covered(call', seen', t, read'[t])
      /\ Marks(call', seen', toHost)
  BY <1>3, <1>4, CoverageStep
<1>7. subs' \in Seq(Subscribers(call'))
  <2>1. call'[Next1] = Opening(s) /\ \A i \in Call : i # Next1 => call'[i] = call[i]
    BY <1>1, <1>2, <1>3 DEF SoundCalls
  <2>2. Subscribers(call) \subseteq Subscribers(call')
    BY <1>2, <2>1 DEF Subscribers
  <2>3. Next1 \in Subscribers(call')
    BY <1>2, <2>1, OpeningIs DEF Subscribers, IsOpen, None
  <2>. QED BY <1>1, <1>3, <2>2, <2>3, ListGrows
<1>8. toHost' \in Seq(Requests) /\ Marks(call', seen', toHost')
  <2>1. Asks(Opening(s)) \in Scopes
    BY OpeningIs, AsksIs DEF IsOpen, None
  <2>. QED BY <1>1, <1>3, <1>6, <2>1, SubscribedIs, ScopesAreRequests
<1>. QED BY <1>1, <1>3, <1>4, <1>5, <1>6, <1>7, <1>8 DEF ViewInv, ViewTypes

\* So does a recovery that begins,
LEMMA RecoverStep ==
  ASSUME ViewInv, Recover
  PROVE  ViewInv'
<1>1. SoundCalls(call) /\ toHost \in Seq(Requests) /\ subs \in Seq(Subscribers(call))
  BY DEF ViewInv, ViewTypes
<1>2. Next1 \in Call /\ call[Next1].kind = None
  BY NextIsFree DEF Recover
<1>3. /\ call' = [call EXCEPT ![Next1] = Recovery] /\ subs' = Append(subs, Next1)
      /\ toHost' = toHost \o Subscribed(Recovery) /\ toClient' = toClient
      /\ UNCHANGED <<rev, seq, read, selected, known, presented, held, basis, watched, seen>>
  BY DEF Recover, host
<1>4. QuietCalls(call, call') /\ subs' \in Seq(Subscribers(call'))
  BY <1>1, <1>2, <1>3, RecoveryBegins
<1>5. Asks(Recovery) \in Scopes
  BY RecoveryIs, AsksIs DEF None
<1>6. toHost' \in Seq(Requests) /\ (Marks(call', seen', toHost) => Marks(call', seen', toHost'))
  <2>1. \A cs, sn : Marks(cs, sn, toHost) => Marks(cs, sn, toHost') /\ toHost' \in Seq(Requests)
    BY <1>1, <1>3, <1>5, SubscribedIs, ScopesAreRequests
  <2>2. Marks(call, seen, toHost)
    BY DEF ViewInv
  <2>. QED BY <2>1, <2>2
<1>. QED BY <1>3, <1>4, <1>6, CallsStep

\* a socket that is admitted,
LEMMA AdmittedStep ==
  ASSUME ViewInv, Admitted
  PROVE  ViewInv'
<1>1. SoundCalls(call) /\ toHost \in Seq(Requests) /\ subs \in Seq(Subscribers(call))
  BY DEF ViewInv, ViewTypes
<1>2. QuietCalls(call, call') /\ subs' \in Seq(Subscribers(call')) /\ toHost' = toHost
  BY <1>1, RecoversOnIs DEF Admitted
<1>3. /\ toClient # <<>> /\ Head(toClient).kind # "catalog" /\ toClient' = Tail(toClient)
      /\ UNCHANGED <<rev, seq, read, selected, known, presented, held, basis, watched, seen>>
  BY DEF Admitted, Receive, Unseen, host
<1>. QED BY <1>1, <1>2, <1>3, CallsStep

\* a read that times out,
LEMMA ReadTimesOutStep ==
  ASSUME ViewInv, NEW i \in Call, ReadTimesOut(i)
  PROVE  ViewInv'
<1>1. call \in [Call -> AnyCall] /\ toHost \in Seq(Requests) /\ subs \in Seq(Subscribers(call))
  BY DEF ViewInv, ViewTypes, SoundCalls
<1>2. /\ call' = [call EXCEPT ![i] = Failed(@)] /\ subs' = Only(subs, Call \ {i})
      /\ toHost' = toHost /\ toClient' = toClient
      /\ UNCHANGED <<rev, seq, read, selected, known, presented, held, basis, watched, seen>>
  BY DEF ReadTimesOut, host
<1>3. call' = [j \in Call |-> call'[j]] /\ call'[i] = Failed(call[i]) /\ \A j \in Call : j # i => call'[j] = call[j]
  BY <1>1, <1>2
<1>4. QuietCalls(call, call')
  BY <1>3 DEF QuietCalls, Quiet1
<1>5. Only(subs, Call \ {i}) \in Seq(Subscribers(call) \cap (Call \ {i}))
  BY <1>1, OnlyIsList
<1>6. Subscribers(call) \cap (Call \ {i}) \subseteq Subscribers(call')
  BY <1>3 DEF Subscribers
<1>7. subs' \in Seq(Subscribers(call'))
  BY <1>2, <1>5, <1>6, SeqMonotonic
<1>. QED BY <1>1, <1>2, <1>4, <1>7, CallsStep

\* a socket that is lost,
LEMMA DropStep ==
  ASSUME ViewInv, Drop
  PROVE  ViewInv'
<1> DEFINE lost == {i \in Call : call[i].at \in Reading}
<1>1. subs \in Seq(Subscribers(call))
  BY DEF ViewInv, ViewTypes
<1>2. /\ call' = [i \in Call |-> IF i \in lost THEN Failed(call[i]) ELSE call[i]]
      /\ subs' = Only(subs, Call \ lost) /\ toHost' = <<>> /\ toClient' = <<>>
      /\ UNCHANGED <<rev, seq, read, selected, known, presented, held, basis, watched, seen>>
  BY DEF Drop
<1>. HIDE DEF lost
<1>3. call' = [i \in Call |-> call'[i]]
      /\ \A i \in Call : call'[i] = IF i \in lost THEN Failed(call[i]) ELSE call[i]
  BY <1>2
<1>4. QuietCalls(call, call')
  BY <1>3 DEF QuietCalls, Quiet1
<1>5. Only(subs, Call \ lost) \in Seq(Subscribers(call) \cap (Call \ lost))
  BY <1>1, OnlyIsList
<1>6. Subscribers(call) \cap (Call \ lost) \subseteq Subscribers(call')
  BY <1>3 DEF Subscribers
<1>7. subs' \in Seq(Subscribers(call'))
  BY <1>2, <1>5, <1>6, SeqMonotonic
<1>8. toHost' \in Seq(Requests) /\ Marks(call', seen', toHost')
  BY <1>2, NothingMarked, EmptySeq
<1>. QED BY <1>2, <1>4, <1>7, <1>8, CallsStep

\* A call that ends keeps its subscription.
LEMMA DoneIs ==
  ASSUME SoundCalls(call), NEW i \in Call, Done(i), call[i].at # "catalog"
  PROVE  /\ QuietCalls(call, call') /\ call'[i].at = "done"
         /\ Subscribers(call) \subseteq Subscribers(call')
<1>1. call \in [Call -> AnyCall] /\ call[i] \in AnyCall /\ Sound(call[i])
  BY DEF SoundCalls
<1>2. call' = [j \in Call |-> call'[j]] /\ call'[i] = Over(call[i]) /\ \A j \in Call : j # i => call'[j] = call[j]
  BY <1>1 DEF Done
<1>3. Over(call[i]).kind = call[i].kind /\ Over(call[i]).of = call[i].of /\ Over(call[i]).at = "done"
  BY <1>1, OverIs
<1>4. QuietCalls(call, call')
  BY <1>2 DEF QuietCalls, Quiet1
<1>5. Subscribers(call) \subseteq Subscribers(call')
  <2>1. ASSUME NEW j \in Subscribers(call) PROVE j \in Subscribers(call')
    <3>1. j \in Call /\ call[j].kind # None
          /\ (call[j].kind = "recover" /\ call[j].at # "catalog" => call[j].of \in Sessions)
      BY <2>1 DEF Subscribers
    <3>2. CASE j = i
      BY <1>2, <1>3, <3>1, <3>2 DEF Subscribers
    <3>3. CASE j # i
      BY <1>2, <3>1, <3>3 DEF Subscribers
    <3>. QED BY <3>2, <3>3
  <2>. QED BY <2>1
<1>. QED BY <1>2, <1>3, <1>4, <1>5

\* an open that failed,
LEMMA FailOpenStep ==
  ASSUME ViewInv, NEW i \in Call, FailOpen(i)
  PROVE  ViewInv'
<1>1. SoundCalls(call) /\ subs \in Seq(Subscribers(call)) /\ toHost \in Seq(Requests)
  BY DEF ViewInv, ViewTypes
<1>2. /\ Done(i) /\ call[i].at # "catalog" /\ toHost' = toHost /\ toClient' = toClient /\ subs' = subs
      /\ UNCHANGED <<rev, seq, read, selected, known, presented, held, basis, watched, seen>>
  BY DEF FailOpen, wire, host
<1>3. QuietCalls(call, call') /\ subs' \in Seq(Subscribers(call'))
  BY <1>1, <1>2, DoneIs, SeqMonotonic
<1>. QED BY <1>1, <1>2, <1>3, CallsStep

\* the snapshot of the Host, on which every subscriber asks for its scope,
LEMMA SnapshotStep ==
  ASSUME ViewInv, Snapshot
  PROVE  ViewInv'
<1>1. SoundCalls(call) /\ subs \in Seq(Subscribers(call)) /\ toHost \in Seq(Requests)
  BY DEF ViewInv, ViewTypes
<1>2. /\ toHost' = toHost \o [n \in DOMAIN subs |-> Asks(call[subs[n]])]
      /\ toClient # <<>> /\ Head(toClient).kind # "catalog" /\ toClient' = Tail(toClient)
      /\ call' = call /\ subs' = subs
      /\ UNCHANGED <<rev, seq, read, selected, known, presented, held, basis, watched, seen>>
  BY DEF Snapshot, Receive, Unseen, fetch, host
<1>3. Marks(call, seen, toHost)
  BY DEF ViewInv
<1>4. toHost' \in Seq(Requests) /\ Marks(call, seen, toHost')
  BY <1>1, <1>2, <1>3, ListAsks, ScopesAreRequests
<1>5. QuietCalls(call, call') /\ call' = call /\ seen' = seen
  BY <1>1, <1>2 DEF QuietCalls, Quiet1, SoundCalls
<1>6. Marks(call', seen', toHost')
  BY <1>4, <1>5
<1>. QED BY <1>1, <1>2, <1>4, <1>5, <1>6, CallsStep

\* A recovery that may begin once the calls have been told.
LEMMA ToldStep ==
  ASSUME ViewInv, NEW cs, SoundCalls(cs), GoOn(call, cs),
         NEW q \in Seq(Messages), Ordered(cs, q, rev), Unloaded(cs, q, watched),
         Episodes(cs, selected, known, presented, seen, watched),
         QuietCalls(cs, call'), toClient' = q, subs' \in Seq(Subscribers(call')),
         toHost' \in Seq(Requests), \A ds, sn : Marks(ds, sn, toHost) => Marks(ds, sn, toHost'),
         UNCHANGED <<rev, seq, read, selected, known, presented, held, basis, watched, seen>>
  PROVE  ViewInv'
<1>1. SoundCalls(call') /\ GoOn(cs, call') /\ Older(cs, call')
  BY QuietKeepsSound, QuietGoesOn
<1>2. GoOn(call, call')
  BY <1>1 DEF GoOn
<1>3. Ordered(call', q, rev) /\ Unloaded(call', q, watched)
  BY <1>1, OlderKeepsOrder, QuietKeepsUnloaded DEF ViewInv, ViewTypes
<1>4. Episodes(call', selected, known, presented, seen, watched)
  BY QuietKeepsEpisodes
<1>5. /\ \A s \in Sessions : Covered(call', seen', s, presented'[s]) /\ Covered(call', seen', s, read'[s])
      /\ Marks(call', seen', toHost')
  BY <1>2, CoverageStep
<1>. QED BY <1>1, <1>3, <1>4, <1>5 DEF ViewInv, ViewTypes

\* a Session that comes,
LEMMA SessionResetStep ==
  ASSUME ViewInv, SessionReset
  PROVE  ViewInv'
<1> DEFINE m == Head(toClient)
           cs == [i \in Call |-> Told(call[i], m)]
           queue == IF status = "reconnecting" THEN Append(toHost, Asks(Recovery)) ELSE toHost
<1>1. /\ SoundCalls(call) /\ subs \in Seq(Subscribers(call)) /\ toHost \in Seq(Requests)
      /\ toClient \in Seq(Messages) /\ rev \in Revs
      /\ Ordered(call, toClient, rev) /\ Unloaded(call, toClient, watched)
      /\ Episodes(call, selected, known, presented, seen, watched)
  BY DEF ViewInv, ViewTypes
<1>2. /\ toClient # <<>> /\ m.kind = "session" /\ toClient' = Tail(toClient)
      /\ UNCHANGED <<rev, seq, read, selected, known, presented, held, basis, watched, seen>>
  BY DEF SessionReset, Receive, Unseen, host
<1>3. RecoversOn(cs, queue, subs)
  BY DEF SessionReset, Told
<1>. HIDE DEF cs
<1>4. /\ SoundCalls(cs) /\ GoOn(call, cs)
      /\ Ordered(cs, Tail(toClient), rev) /\ Unloaded(cs, Tail(toClient), watched)
      /\ Episodes(cs, selected, known, presented, seen, watched)
  BY <1>1, <1>2, ToldKeeps DEF cs
<1>5. ASSUME NEW i \in Call
      PROVE  /\ cs[i].kind = call[i].kind /\ cs[i].of = call[i].of
             /\ cs[i].at = "catalog" <=> call[i].at = "catalog"
  <2>1. call[i] \in AnyCall /\ Sound(call[i]) /\ m \in Messages /\ cs[i] = Told(call[i], m)
    BY <1>1, <1>2, QueueIs DEF cs, SoundCalls
  <2>. HIDE DEF m
  <2>2. call[i].at = "catalog" => cs[i] = call[i]
    BY <2>1 DEF Told
  <2>. QED BY <1>2, <2>1, <2>2, ToldIs
<1>6. subs \in Seq(Subscribers(cs))
  <2>1. Subscribers(call) \subseteq Subscribers(cs)
    BY <1>5 DEF Subscribers
  <2>. QED BY <1>1, <2>1, SeqMonotonic
<1>. HIDE DEF queue
<1>7. QuietCalls(cs, call') /\ subs' \in Seq(Subscribers(call')) /\ toHost' = queue
  BY <1>3, <1>4, <1>5, <1>6, RecoversOnIs
<1>8. queue \in Seq(Requests) /\ \A ds, sn : Marks(ds, sn, toHost) => Marks(ds, sn, queue)
  <2>1. Asks(Recovery) \in Scopes /\ Scopes \subseteq Requests /\ Asks(Recovery).kind # "mark"
    BY RecoveryIs, AsksIs DEF None, Scopes, Requests
  <2>2. Append(toHost, Asks(Recovery)) \in Seq(Requests)
    BY <1>1, <2>1, AppendProperties
  <2>3. \A ds, sn : Marks(ds, sn, toHost) => Marks(ds, sn, Append(toHost, Asks(Recovery)))
    BY <1>1, <2>1, AskKeepsMarks
  <2>. QED BY <1>1, <2>2, <2>3 DEF queue
<1>9. Tail(toClient) \in Seq(Messages)
  BY <1>1, <1>2, QueueIs
<1>. HIDE DEF m
<1>. QED BY <1>2, <1>4, <1>7, <1>8, <1>9, ToldStep

\* and a catalog that comes.
LEMMA CatalogStep ==
  ASSUME ViewInv, Catalog
  PROVE  ViewInv'
<1> DEFINE m == Head(toClient)
           waits == {i \in Call : call[i].at = "catalog"}
           cs == [i \in Call |-> IF i \in waits THEN Settled(call[i], m) ELSE call[i]]
           readers == Only(subs, {i \in waits : cs[i].at = "session"})
           others == Only(subs, Call \ waits)
           asks == [n \in DOMAIN readers |-> Asks(cs[readers[n]])]
<1>1. /\ SoundCalls(call) /\ subs \in Seq(Subscribers(call)) /\ toHost \in Seq(Requests)
      /\ toClient \in Seq(Messages) /\ rev \in Revs /\ selected \in Sessions \union {None}
      /\ Ordered(call, toClient, rev) /\ Unloaded(call, toClient, watched)
      /\ Episodes(call, selected, known, presented, seen, watched)
  BY DEF ViewInv, ViewTypes
<1>2. /\ toClient # <<>> /\ m.kind = "catalog" /\ toClient' = Tail(toClient)
      /\ UNCHANGED <<rev, seq, read, selected, known, presented, held, basis, watched, seen>>
  BY DEF Catalog, Receive, Unseen, host
<1>3. IF status = "reconnecting"
      THEN /\ Free # {}
           /\ call' = [cs EXCEPT ![Next1] = Recovery]
           /\ subs' = Append(others, Next1) \o readers
           /\ toHost' = Append(toHost, Asks(Recovery)) \o asks
      ELSE call' = cs /\ subs' = others \o readers /\ toHost' = toHost \o asks
  BY DEF Catalog
<1>4. cs = [i \in Call |-> IF call[i].at = "catalog" THEN Settled(call[i], Head(toClient)) ELSE call[i]]
  OBVIOUS
<1>5. /\ \A i \in Call : i \notin waits => cs[i] = call[i]
      /\ \A i \in waits : i \in Call /\ call[i].at = "catalog" /\ cs[i] = Settled(call[i], m)
  OBVIOUS
<1>6. /\ readers = Only(subs, {i \in waits : cs[i].at = "session"}) /\ others = Only(subs, Call \ waits)
      /\ asks = [n \in DOMAIN readers |-> Asks(cs[readers[n]])]
  OBVIOUS
<1>. HIDE DEF m, cs, readers, others, asks
<1>7. /\ SoundCalls(cs) /\ GoOn(call, cs)
      /\ Ordered(cs, Tail(toClient), rev) /\ Unloaded(cs, Tail(toClient), watched)
      /\ Episodes(cs, selected, known, presented, seen, watched)
  BY <1>1, <1>2, <1>4, SettleKeeps DEF m
<1>8. readers \in Seq(Subscribers(cs)) /\ others \in Seq(Subscribers(cs))
  <2>1. /\ readers \in Seq(Subscribers(call) \cap {i \in waits : cs[i].at = "session"})
        /\ others \in Seq(Subscribers(call) \cap (Call \ waits))
    BY <1>1, <1>6, OnlyIsList
  <2>2. Subscribers(call) \cap (Call \ waits) \subseteq Subscribers(cs)
    BY <1>5 DEF Subscribers
  <2>3. {i \in waits : cs[i].at = "session"} \subseteq Subscribers(cs)
    <3>1. ASSUME NEW i \in waits, cs[i].at = "session" PROVE i \in Subscribers(cs)
      <4>1. Sound(cs[i]) /\ i \in Call
        BY <1>5, <1>7 DEF SoundCalls
      <4>. QED BY <3>1, <4>1 DEF Sound, Subscribers, None
    <3>. QED BY <3>1
  <2>. HIDE DEF waits
  <2>. QED BY <2>1, <2>2, <2>3, SeqMonotonic
<1>9. asks \in Seq(Scopes)
  BY <1>6, <1>7, <1>8, ListAsks
<1>10. Asks(Recovery) \in Scopes
  BY RecoveryIs, AsksIs DEF None
<1>11. CASE status = "reconnecting"
  <2>1. /\ Next1 \in Call /\ call[Next1].kind = None /\ call' = [cs EXCEPT ![Next1] = Recovery]
        /\ subs' = Append(others, Next1) \o readers
        /\ toHost' = Append(toHost, Asks(Recovery)) \o asks
    BY <1>3, <1>11, NextIsFree
  <2>2. cs[Next1].kind = None
    <3>1. Sound(call[Next1])
      BY <1>1, <2>1 DEF SoundCalls
    <3>2. call[Next1].at # "catalog"
      BY <2>1, <3>1 DEF Sound, None
    <3>. QED BY <1>5, <2>1, <3>2
  <2>3. QuietCalls(cs, call') /\ Append(others, Next1) \in Seq(Subscribers(call'))
    BY <1>7, <1>8, <2>1, <2>2, RecoveryBegins
  <2>4. Subscribers(cs) \subseteq Subscribers(call')
    <3>1. cs \in [Call -> AnyCall]
      BY <1>7 DEF SoundCalls
    <3>2. \A i \in Call : i # Next1 => call'[i] = cs[i]
      BY <2>1, <3>1
    <3>. QED BY <2>2, <3>2 DEF Subscribers
  <2>5. readers \in Seq(Subscribers(call'))
    BY <1>8, <2>4, SeqMonotonic
  <2>6. subs' \in Seq(Subscribers(call'))
    BY <2>1, <2>3, <2>5, ConcatProperties
  <2>7. Asks(Recovery) \in Requests /\ Asks(Recovery).kind # "mark"
    BY <1>10 DEF Scopes, Requests
  <2>8. ASSUME NEW ds, NEW sn, Marks(ds, sn, toHost)
        PROVE  toHost' \in Seq(Requests) /\ Marks(ds, sn, toHost')
    <3>1. Append(toHost, Asks(Recovery)) \in Seq(Requests) /\ Marks(ds, sn, Append(toHost, Asks(Recovery)))
      BY <1>1, <2>7, <2>8, AskKeepsMarks
    <3>. QED BY <1>9, <2>1, <3>1, ScopesAreRequests
  <2>9. Marks(call, seen, toHost) /\ Tail(toClient) \in Seq(Messages)
    BY <1>1, <1>2, QueueIs DEF ViewInv
  <2>10. toHost' \in Seq(Requests)
    BY <2>8, <2>9
  <2>. QED BY <1>2, <1>7, <2>3, <2>6, <2>8, <2>9, <2>10, ToldStep
<1>12. CASE status # "reconnecting"
  <2>1. call' = cs /\ subs' = others \o readers /\ toHost' = toHost \o asks
    BY <1>3, <1>12
  <2>2. QuietCalls(cs, call')
    BY <1>7, <2>1 DEF QuietCalls, Quiet1, SoundCalls
  <2>3. subs' \in Seq(Subscribers(call'))
    BY <1>8, <2>1, ConcatProperties
  <2>4. ASSUME NEW ds, NEW sn, Marks(ds, sn, toHost)
        PROVE  toHost' \in Seq(Requests) /\ Marks(ds, sn, toHost')
    BY <1>1, <1>9, <2>1, <2>4, ScopesAreRequests
  <2>5. Marks(call, seen, toHost) /\ Tail(toClient) \in Seq(Messages)
    BY <1>1, <1>2, QueueIs DEF ViewInv
  <2>6. toHost' \in Seq(Requests)
    BY <2>4, <2>5
  <2>. QED BY <1>2, <1>7, <2>2, <2>3, <2>4, <2>5, <2>6, ToldStep
<1>. QED BY <1>11, <1>12

\* A step of the Host or of the queues, which leaves the calls and the View alone.
LEMMA ServedStep ==
  ASSUME ViewInv, rev' \in Revs, seq' \in Nat, read' \in [Sessions -> Nat],
         toHost' \in Seq(Requests), toClient' \in Seq(Messages),
         Ordered(call, toClient', rev'), Unloaded(call, toClient', watched),
         \A s \in Sessions : Covered(call, seen, s, read'[s]), Marks(call, seen, toHost'),
         UNCHANGED <<call, subs, selected, known, presented, held, basis, watched, seen>>
  PROVE  ViewInv'
BY DEF ViewInv, ViewTypes

\* A mark-read is sent for what is presented.
LEMMA PresentTailStep ==
  ASSUME ViewInv, PresentTail
  PROVE  ViewInv'
<1> DEFINE m == [kind |-> "mark", of |-> {selected}, rev |-> presented[selected]]
<1>1. /\ selected \in Sessions /\ toHost' = Append(toHost, m)
      /\ UNCHANGED <<rev, seq, read, toClient, call, subs, selected, known, presented, held, basis, watched, seen>>
  BY DEF PresentTail, Claim, ViewInv, ViewTypes, host, fetch, view
<1>2. toHost \in Seq(Requests) /\ Marks(call, seen, toHost) /\ presented[selected] \in Nat
      /\ Covered(call, seen, selected, presented[selected])
  BY <1>1 DEF ViewInv, ViewTypes
<1>3. m \in Requests /\ m.of = {selected} /\ m.rev = presented[selected]
  BY <1>1, <1>2 DEF Requests
<1>. HIDE DEF m
<1>4. toHost' \in Seq(Requests) /\ Marks(call, seen, toHost')
  BY <1>1, <1>2, <1>3, AskKeepsMarks
<1>. QED BY <1>1, <1>4, ServedStep DEF ViewInv, ViewTypes

\* A new socket brings nothing but its greeting.
LEMMA ConnectStep ==
  ASSUME ViewInv, Connect
  PROVE  ViewInv'
<1>1. /\ toClient' = <<[kind |-> "admitted"], [kind |-> "snapshot"]>>
      /\ UNCHANGED <<rev, seq, read, toHost, call, subs, selected, known, presented, held, basis, watched, seen>>
  BY DEF Connect, host, fetch, view
<1>2. toClient' \in Seq(Messages) /\ Len(toClient') = 2
      /\ \A k \in 1..2 : toClient'[k].kind \in {"admitted", "snapshot"}
  <2>1. [kind |-> "admitted"] \in Messages /\ [kind |-> "snapshot"] \in Messages
    BY DEF Messages
  <2>. QED BY <1>1, <2>1
<1>3. Ordered(call, toClient', rev) /\ Unloaded(call, toClient', watched)
  BY <1>2 DEF ViewInv, Ordered, Unloaded
<1>. QED BY <1>1, <1>2, <1>3, ServedStep DEF ViewInv, ViewTypes

\* The Host answers a scope with the catalog, then the Session.
LEMMA SynchronizeStep ==
  ASSUME ViewInv, Synchronize
  PROVE  ViewInv'
<1> DEFINE m == Head(toHost)
           s == CHOOSE s \in m.of : TRUE
           c == [kind |-> "catalog", revs |-> rev, seq |-> seq]
           d == [kind |-> "session", of |-> s, rev |-> rev[s], seq |-> seq]
<1>1. /\ toHost # <<>> /\ toHost' = Tail(toHost)
      /\ toClient' = Append(toClient, c) \o (IF m.of = {} THEN <<>> ELSE <<d>>)
      /\ UNCHANGED <<rev, seq, read, call, subs, selected, known, presented, held, basis, watched, seen>>
  BY DEF Synchronize, fetch, view
<1>2. /\ toHost \in Seq(Requests) /\ Marks(call, seen, toHost) /\ toClient \in Seq(Messages)
      /\ rev \in Revs /\ seq \in Nat /\ Ordered(call, toClient, rev) /\ Unloaded(call, toClient, watched)
  BY DEF ViewInv, ViewTypes
<1>3. toHost' \in Seq(Requests) /\ Marks(call, seen, toHost') /\ m \in Requests
  BY <1>1, <1>2, TailKeepsMarks
<1>4. c \in Messages /\ c.kind = "catalog" /\ c.revs = rev
  BY <1>2 DEF Messages
<1>5. m.of # {} => s \in m.of /\ s \in Sessions
  BY <1>3 DEF Requests
<1>6. m.of # {} => d \in Messages /\ d.kind = "session" /\ d.rev = rev[d.of]
  <2>1. s \in Sessions => rev[s] \in Nat \ {0}
    BY <1>2 DEF Revs
  <2>. HIDE DEF s, m
  <2>. QED BY <1>2, <1>5, <2>1 DEF Messages
<1>. HIDE DEF c, d, m
<1> DEFINE p == Append(toClient, c)
<1>7. p \in Seq(Messages) /\ Len(p) \in Nat /\ Len(p) >= 1 /\ p[Len(p)] = c
  <2>1. p \in Seq(Messages) /\ Len(p) = Len(toClient) + 1 /\ p[Len(toClient) + 1] = c
    BY <1>2, <1>4, AppendProperties
  <2>2. Len(toClient) \in Nat
    BY <1>2, LenProperties
  <2>. QED BY <2>1, <2>2
<1>8. Ordered(call, p, rev) /\ Unloaded(call, p, watched)
  BY <1>2, <1>4, AppendKeepsOrder, AppendKeepsUnloaded
<1>. HIDE DEF p
<1>9. toClient' \in Seq(Messages) /\ Ordered(call, toClient', rev) /\ Unloaded(call, toClient', watched)
  <2>1. CASE m.of = {}
    <3>1. toClient' = p
      BY <1>1, <1>7, <2>1, ConcatEmptySeq DEF p
    <3>. QED BY <1>7, <1>8, <3>1
  <2>2. CASE m.of # {}
    <3>1. toClient' = Append(p, d)
      BY <1>1, <1>6, <1>7, <2>2, AppendIsConcat DEF p
    <3>2. \E j \in 1..Len(p) : p[j].kind = "catalog"
      BY <1>4, <1>7
    <3>. QED BY <1>2, <1>6, <1>7, <1>8, <2>2, <3>1, <3>2, AppendKeepsOrder, AppendKeepsUnloaded, AppendProperties
  <2>. QED BY <2>1, <2>2
<1>. QED BY <1>1, <1>2, <1>3, <1>9, ServedStep DEF ViewInv, ViewTypes

\* The Host marks read what a request says, which was covered.
LEMMA MarkReadStep ==
  ASSUME ViewInv, MarkRead
  PROVE  ViewInv'
<1> DEFINE m == Head(toHost)
           s == CHOOSE s \in m.of : TRUE
<1>1. /\ toHost # <<>> /\ m.kind = "mark" /\ toHost' = Tail(toHost)
      /\ read' = IF m.rev \in read[s]..rev[s] THEN [read EXCEPT ![s] = m.rev] ELSE read
      /\ UNCHANGED <<rev, seq, toClient, call, subs, selected, known, presented, held, basis, watched, seen>>
  BY DEF MarkRead, fetch, view
<1>2. /\ toHost \in Seq(Requests) /\ Marks(call, seen, toHost)
      /\ read \in [Sessions -> Nat] /\ \A t \in Sessions : Covered(call, seen, t, read[t])
  BY DEF ViewInv, ViewTypes
<1>3. toHost' \in Seq(Requests) /\ Marks(call, seen, toHost') /\ m \in Requests
      /\ \E t \in Sessions : m.of = {t} /\ Covered(call, seen, t, m.rev)
  BY <1>1, <1>2, TailKeepsMarks
<1>4. s \in Sessions /\ Covered(call, seen, s, m.rev) /\ m.rev \in Nat
  BY <1>3 DEF Requests
<1>. HIDE DEF s, m
<1>5. read' \in [Sessions -> Nat] /\ \A t \in Sessions : Covered(call, seen, t, read'[t])
  <2>1. \A t \in Sessions : read'[t] = read[t] \/ (t = s /\ read'[t] = m.rev)
    BY <1>1, <1>2
  <2>. QED BY <1>1, <1>2, <1>4, <2>1
<1>. QED BY <1>1, <1>3, <1>5, ServedStep DEF ViewInv, ViewTypes

\* A change of the Host is sent behind all that was sent before.
LEMMA ChangeStep ==
  ASSUME ViewInv, NEW s \in Sessions, Change(s)
  PROVE  ViewInv'
<1> DEFINE c == [kind |-> "change", of |-> s, rev |-> rev'[s]]
           d == [kind |-> "attention", of |-> s, seq |-> seq']
<1>1. /\ rev' = [rev EXCEPT ![s] = @ + 1] /\ seq' = seq + 1
      /\ toClient' = IF ~linked THEN toClient
                     ELSE toClient \o (IF s \in scope THEN <<c>> ELSE <<>>) \o <<d>>
      /\ UNCHANGED <<read, toHost, call, subs, selected, known, presented, held, basis, watched, seen>>
  BY DEF Change, fetch, view
<1>2. /\ toClient \in Seq(Messages) /\ SoundCalls(call) /\ rev \in Revs /\ seq \in Nat
      /\ Ordered(call, toClient, rev) /\ Unloaded(call, toClient, watched)
  BY DEF ViewInv, ViewTypes
<1>3. rev' \in Revs /\ seq' \in Nat /\ rev'[s] \in Nat \ {0} /\ \A t \in Sessions : rev[t] <= rev'[t]
  BY <1>1, <1>2 DEF Revs
<1>4. c \in Messages /\ c.kind = "change" /\ d \in Messages /\ d.kind = "attention"
  BY <1>3 DEF Messages
<1>5. Ordered(call, toClient, rev')
  BY <1>2, <1>3, LaterKeepsOrder
<1>. HIDE DEF c, d
<1> DEFINE p == IF s \in scope THEN Append(toClient, c) ELSE toClient
<1>6. p \in Seq(Messages) /\ Ordered(call, p, rev') /\ Unloaded(call, p, watched)
  BY <1>2, <1>3, <1>4, <1>5, AppendKeepsOrder, AppendKeepsUnloaded, AppendProperties
<1>7. toClient \o (IF s \in scope THEN <<c>> ELSE <<>>) = p
  BY <1>2, <1>4, AppendIsConcat, ConcatEmptySeq
<1>. HIDE DEF p
<1>8. toClient' \in Seq(Messages) /\ Ordered(call, toClient', rev') /\ Unloaded(call, toClient', watched)
  <2>1. CASE ~linked
    BY <1>1, <1>2, <1>5, <2>1
  <2>2. CASE linked
    <3>1. toClient' = Append(p, d)
      BY <1>1, <1>4, <1>6, <1>7, <2>2, AppendIsConcat
    <3>. QED BY <1>3, <1>4, <1>6, <3>1, AppendKeepsOrder, AppendKeepsUnloaded, AppendProperties
  <2>. QED BY <2>1, <2>2
<1>. QED BY <1>1, <1>3, <1>8, ServedStep DEF ViewInv, ViewTypes

\* A step that leaves the calls alone and takes the first message for the View.
LEMMA ShownStep ==
  ASSUME ViewInv, toClient # <<>>, Head(toClient).kind # "catalog", toClient' = Tail(toClient),
         seen' \in [Sessions -> SUBSET Nat], \A s \in Sessions : seen[s] \subseteq seen'[s],
         known' \in [Sessions -> Nat], presented' \in [Sessions -> Nat],
         held' \in [Sessions -> Nat], basis' \in [Sessions -> Nat],
         \A s \in Sessions : known'[s] = 0 => held'[s] = 0,
         Episodes(call, selected, known', presented', seen', watched),
         \A s \in Sessions : Covered(call, seen', s, presented'[s]),
         UNCHANGED <<rev, seq, read, toHost, call, subs, selected, watched>>
  PROVE  ViewInv'
<1>1. /\ SoundCalls(call) /\ toClient \in Seq(Messages) /\ rev \in Revs
      /\ Ordered(call, toClient, rev) /\ Unloaded(call, toClient, watched)
  BY DEF ViewInv, ViewTypes
<1>2. toClient' \in Seq(Messages) /\ Ordered(call, toClient', rev) /\ Unloaded(call, toClient', watched)
  BY <1>1, HeadKeepsOrder, TailKeepsUnloaded, QueueIs
<1>3. /\ \A s \in Sessions : Covered(call, seen, s, read[s]) => Covered(call, seen', s, read[s])
      /\ Marks(call, seen, toHost) => Marks(call, seen', toHost)
  BY CoverageKeeps, GoOnItself
<1>. QED BY <1>1, <1>2, <1>3 DEF ViewInv, ViewTypes

\* A change the listener takes follows what the store holds, so all before it was shown.
LEMMA TimelineChangeStep ==
  ASSUME ViewInv, TimelineChange
  PROVE  ViewInv'
<1> DEFINE m == Head(toClient)
           s == m.of
<1>1. /\ toClient # <<>> /\ m.kind = "change" /\ toClient' = Tail(toClient)
      /\ UNCHANGED <<rev, seq, read, toHost, call, subs, selected, held, basis, watched>>
  BY DEF TimelineChange, host, fetch
<1>2. /\ seen \in [Sessions -> SUBSET Nat] /\ known \in [Sessions -> Nat]
      /\ presented \in [Sessions -> Nat] /\ held \in [Sessions -> Nat] /\ basis \in [Sessions -> Nat]
      /\ toClient \in Seq(Messages) /\ SoundCalls(call)
      /\ Episodes(call, selected, known, presented, seen, watched)
      /\ \A t \in Sessions : Covered(call, seen, t, presented[t]) /\ (known[t] = 0 => held[t] = 0)
  BY DEF ViewInv, ViewTypes
<1>3. m \in Messages /\ s \in Sessions /\ m.rev \in Nat \ {0}
  BY <1>1, <1>2, QueueIs, MessageIs
<1>4. CASE Listened(s) /\ selected = s /\ known[s] # 0 /\ Follows(m)
  <2>1. /\ known' = [known EXCEPT ![s] = m.rev] /\ presented' = [presented EXCEPT ![s] = m.rev]
        /\ seen' = [seen EXCEPT ![s] = @ \union {m.rev}]
        /\ s \in watched /\ m.rev = known[s] + 1
    BY <1>4 DEF TimelineChange, Listened, Follows
  <2>. HIDE DEF s, m
  <2>2. /\ known' \in [Sessions -> Nat] /\ presented' \in [Sessions -> Nat]
        /\ seen' \in [Sessions -> SUBSET Nat]
    BY <1>2, <1>3, <2>1
  <2>3. /\ known'[s] = m.rev /\ presented'[s] = m.rev /\ seen'[s] = seen[s] \union {m.rev}
        /\ \A t \in Sessions : t # s => known'[t] = known[t] /\ presented'[t] = presented[t]
                                        /\ seen'[t] = seen[t]
    BY <1>2, <1>3, <2>1
  <2>4. \A t \in Sessions : seen[t] \subseteq seen'[t]
    BY <2>3
  <2>5. Opened(call, s)
    BY <1>2, <1>3, <1>4 DEF Episodes
  <2>6. ASSUME Whole(call, known, seen, watched, s)
        PROVE  Whole(call, known', seen', watched, s) /\ 1..m.rev \subseteq seen'[s]
    <3>1. 1..known[s] \subseteq seen[s]
      BY <2>1, <2>6 DEF Whole
    <3>2. known[s] \in Nat /\ \A k \in 1..m.rev : k \in 1..known[s] \/ k = m.rev
      BY <1>2, <1>3, <2>1
    <3>3. 1..m.rev \subseteq seen'[s]
      BY <2>3, <3>1, <3>2
    <3>. QED BY <2>3, <2>4, <2>6, <3>3 DEF Whole
  <2>7. Episodes(call, selected, known', presented', seen', watched)
    BY <1>2, <1>4, <2>3, <2>5, <2>6 DEF Episodes
  <2>8. \A t \in Sessions : Covered(call, seen', t, presented'[t])
    <3>1. Covered(call, seen', s, m.rev)
      BY <1>2, <1>3, <1>4, <2>3, <2>6 DEF Covered, Episodes
    <3>2. \A t \in Sessions : Covered(call, seen', t, presented[t])
      BY <1>2, <2>4, CoverageKeeps, GoOnItself
    <3>. QED BY <2>3, <3>1, <3>2
  <2>9. \A t \in Sessions : known'[t] = 0 => held'[t] = 0
    BY <1>1, <1>2, <1>3, <2>3
  <2>. QED BY <1>1, <1>2, <2>2, <2>4, <2>7, <2>8, <2>9, ShownStep DEF m
<1>5. CASE ~(Listened(s) /\ selected = s /\ known[s] # 0 /\ Follows(m))
  <2>1. UNCHANGED <<known, presented, seen>>
    BY <1>5 DEF TimelineChange
  <2>. HIDE DEF s
  <2>. QED BY <1>1, <1>2, <2>1, ShownStep
<1>. QED BY <1>4, <1>5

\* An attention summary changes nothing but attention.
LEMMA AttentionChangeStep ==
  ASSUME ViewInv, AttentionChange
  PROVE  ViewInv'
<1> DEFINE m == Head(toClient)
           s == m.of
<1>1. /\ toClient # <<>> /\ m.kind = "attention" /\ toClient' = Tail(toClient)
      /\ UNCHANGED <<rev, seq, read, toHost, call, subs, selected, known, presented, watched, seen>>
  BY DEF AttentionChange, Receive, host, fetch
<1>2. /\ seen \in [Sessions -> SUBSET Nat] /\ known \in [Sessions -> Nat]
      /\ presented \in [Sessions -> Nat] /\ held \in [Sessions -> Nat] /\ basis \in [Sessions -> Nat]
      /\ toClient \in Seq(Messages)
      /\ Episodes(call, selected, known, presented, seen, watched)
      /\ \A t \in Sessions : Covered(call, seen, t, presented[t]) /\ (known[t] = 0 => held[t] = 0)
  BY DEF ViewInv, ViewTypes
<1>3. s \in Sessions /\ m.seq \in Nat
  BY <1>1, <1>2, QueueIs, MessageIs
<1>4. \/ UNCHANGED <<held, basis>>
      \/ /\ basis' = [basis EXCEPT ![s] = m.seq]
         /\ held' = IF known[s] = 0 THEN held ELSE [held EXCEPT ![s] = m.seq]
  BY DEF AttentionChange
<1>. HIDE DEF s, m
<1>5. /\ held' \in [Sessions -> Nat] /\ basis' \in [Sessions -> Nat]
      /\ \A t \in Sessions : known[t] = 0 => held'[t] = 0
  BY <1>2, <1>3, <1>4
<1>. QED BY <1>1, <1>2, <1>5, ShownStep DEF m

\* The end of a call that writes what it was told.
LEMMA WritingStep ==
  ASSUME ViewInv, NEW i \in Call, Done(i), call[i].at # "catalog",
         seen' \in [Sessions -> SUBSET Nat], \A s \in Sessions : seen[s] \subseteq seen'[s],
         known' \in [Sessions -> Nat], presented' \in [Sessions -> Nat],
         held' \in [Sessions -> Nat], basis' \in [Sessions -> Nat],
         \A s \in Sessions : known'[s] = 0 => held'[s] = 0, watched' \subseteq Sessions,
         Unloaded(call, toClient, watched'),
         Episodes(call', selected, known', presented', seen', watched'),
         \A s \in Sessions : Covered(call', seen', s, presented'[s]),
         UNCHANGED <<rev, seq, read, toHost, toClient, subs, selected>>
  PROVE  ViewInv'
<1>1. /\ SoundCalls(call) /\ subs \in Seq(Subscribers(call)) /\ toClient \in Seq(Messages) /\ rev \in Revs
      /\ Ordered(call, toClient, rev)
  BY DEF ViewInv, ViewTypes
<1>2. QuietCalls(call, call') /\ Subscribers(call) \subseteq Subscribers(call')
  BY <1>1, DoneIs
<1>3. SoundCalls(call') /\ GoOn(call, call') /\ Older(call, call')
  BY <1>1, <1>2, QuietKeepsSound, QuietGoesOn
<1>4. Ordered(call', toClient, rev) /\ Unloaded(call', toClient, watched')
  BY <1>1, <1>2, <1>3, OlderKeepsOrder, QuietKeepsUnloaded
<1>5. /\ \A s \in Sessions : Covered(call, seen, s, read[s]) => Covered(call', seen', s, read[s])
      /\ Marks(call, seen, toHost) => Marks(call', seen', toHost)
  BY <1>3, CoverageKeeps
<1>6. subs \in Seq(Subscribers(call'))
  BY <1>1, <1>2, SeqMonotonic
<1>. QED BY <1>1, <1>3, <1>4, <1>5, <1>6 DEF ViewInv, ViewTypes

\* A catalog's load writes revisions that an opened Session has shown.
LEMMA FinishLoadStep ==
  ASSUME ViewInv, NEW i \in Call, FinishLoad(i)
  PROVE  ViewInv'
<1>1. /\ SoundCalls(call) /\ Unloaded(call, toClient, watched)
      /\ Episodes(call, selected, known, presented, seen, watched)
      /\ seen \in [Sessions -> SUBSET Nat] /\ presented \in [Sessions -> Nat] /\ watched \subseteq Sessions
      /\ \A s \in Sessions : Covered(call, seen, s, presented[s])
  BY DEF ViewInv, ViewTypes
<1>2. /\ call[i].at = "preferences" /\ Done(i)
      /\ known' = call[i].revs /\ held' = [s \in Sessions |-> call[i].seq] /\ basis' = held'
      /\ UNCHANGED <<rev, seq, read, toHost, toClient, subs, selected, presented, watched, seen>>
  BY DEF FinishLoad, host, wire
<1>3. call[i].revs \in Revs /\ call[i].seq \in Nat
  BY <1>1, <1>2 DEF SoundCalls, Sound, AnyCall
<1>4. /\ known' \in [Sessions -> Nat] /\ held' \in [Sessions -> Nat] /\ basis' \in [Sessions -> Nat]
      /\ \A s \in Sessions : known'[s] # 0
  BY <1>2, <1>3 DEF Revs
<1>5. QuietCalls(call, call')
  BY <1>1, <1>2, DoneIs
<1>6. GoOn(call, call')
  BY <1>1, <1>5, QuietGoesOn
<1>7. Episodes(call', selected, known', presented, seen, watched)
  <2>1. \A s \in Sessions : Alien(call[i], s)
    BY <1>2 DEF Alien
  <2>2. \A s \in Sessions : s \in watched /\ Whole(call, known, seen, watched, s)
                              => 1..known'[s] \subseteq seen[s]
    BY <1>2, <2>1 DEF Whole
  <2>. QED BY <1>1, <1>5, <2>2, WrittenEpisodes
<1>8. \A s \in Sessions : Covered(call', seen, s, presented[s])
  BY <1>1, <1>6, CoverageKeeps
<1>. QED BY <1>1, <1>2, <1>4, <1>7, <1>8, WritingStep

\* A recovery writes the Session it read and, of others, what they have shown.
LEMMA FinishRecoveryStep ==
  ASSUME ViewInv, NEW i \in Call, FinishRecovery(i)
  PROVE  ViewInv'
<1> DEFINE c == call[i]
<1>1. /\ SoundCalls(call) /\ Unloaded(call, toClient, watched)
      /\ Episodes(call, selected, known, presented, seen, watched)
      /\ seen \in [Sessions -> SUBSET Nat] /\ presented \in [Sessions -> Nat] /\ watched \subseteq Sessions
      /\ basis \in [Sessions -> Nat]
      /\ \A s \in Sessions : Covered(call, seen, s, presented[s])
  BY DEF ViewInv, ViewTypes
<1>2. /\ c.at = "reconcile" /\ Done(i)
      /\ known' = [s \in Sessions |-> IF s = c.of THEN c.rev ELSE c.revs[s]]
      /\ held' = [s \in Sessions |-> IF s = c.of THEN c.own ELSE c.seq]
      /\ seen' = IF c.of # None /\ selected = c.of
                 THEN [seen EXCEPT ![c.of] = @ \union 1..c.rev] ELSE seen
      /\ UNCHANGED <<rev, seq, read, toHost, toClient, subs, selected, presented, basis, watched>>
  BY DEF FinishRecovery, host, wire
<1>3. /\ c.revs \in Revs /\ c.seq \in Nat /\ c.rev \in Nat /\ c.own \in Nat /\ c.kind = "recover"
      /\ c.of \in Sessions \union {None} /\ (c.of # None => c.rev # 0)
  BY <1>1, <1>2 DEF SoundCalls, Sound, AnyCall
<1>4. QuietCalls(call, call')
  BY <1>1, <1>2, DoneIs
<1>5. GoOn(call, call')
  BY <1>1, <1>4, QuietGoesOn
<1>6. \A s \in Sessions : s # c.of => Alien(c, s)
  BY <1>2, <1>3 DEF Alien
<1>7. c = call[i]
  OBVIOUS
<1>. HIDE DEF c
<1>8. /\ known' \in [Sessions -> Nat] /\ held' \in [Sessions -> Nat]
      /\ \A s \in Sessions : known'[s] # 0
  <2>1. \A s \in Sessions : s # None
    BY ViewAssumption
  <2>. QED BY <1>2, <1>3, <2>1 DEF Revs
<1>9. /\ seen' \in [Sessions -> SUBSET Nat] /\ \A s \in Sessions : seen[s] \subseteq seen'[s]
      /\ selected = c.of /\ c.of \in Sessions => 1..c.rev \subseteq seen'[c.of]
  <2>1. CASE c.of # None /\ selected = c.of
    <3>1. seen' = [seen EXCEPT ![c.of] = @ \union 1..c.rev] /\ c.of \in Sessions
      BY <1>2, <1>3, <2>1
    <3>2. 1..c.rev \subseteq Nat
      BY <1>3
    <3>3. seen'[c.of] = seen[c.of] \union 1..c.rev /\ \A s \in Sessions : s # c.of => seen'[s] = seen[s]
      BY <1>1, <3>1
    <3>. QED BY <1>1, <3>1, <3>2, <3>3
  <2>2. CASE ~(c.of # None /\ selected = c.of)
    BY <1>1, <1>2, <2>2, ViewAssumption
  <2>. QED BY <2>1, <2>2
<1>10. Episodes(call', selected, known', presented, seen', watched)
  <2>1. ASSUME NEW s \in Sessions, selected = s, s \in watched, Whole(call, known, seen, watched, s)
        PROVE  1..known'[s] \subseteq seen'[s]
    <3>1. CASE s = c.of
      BY <1>2, <1>9, <2>1, <3>1
    <3>2. CASE s # c.of
      <4>1. 1..c.revs[s] \subseteq seen[s]
        BY <1>6, <1>7, <2>1, <3>2 DEF Whole
      <4>. QED BY <1>2, <1>9, <3>2, <4>1
    <3>. QED BY <3>1, <3>2
  <2>. QED BY <1>1, <1>4, <1>9, <2>1, WrittenEpisodes
<1>11. \A s \in Sessions : Covered(call', seen', s, presented[s])
  BY <1>1, <1>5, <1>9, CoverageKeeps
<1>. QED BY <1>1, <1>2, <1>7, <1>8, <1>9, <1>10, <1>11, WritingStep

\* An open that ends keeps the invariant.
LEMMA FinishOpenStep ==
  ASSUME ViewInv, NEW i \in Call, FinishOpen(i)
  PROVE  ViewInv'
<1> DEFINE s == call[i].of
           n == call[i].rev
<1>1. /\ SoundCalls(call) /\ Unloaded(call, toClient, watched)
      /\ Episodes(call, selected, known, presented, seen, watched)
      /\ seen \in [Sessions -> SUBSET Nat] /\ presented \in [Sessions -> Nat] /\ watched \subseteq Sessions
      /\ basis \in [Sessions -> Nat] /\ held \in [Sessions -> Nat] /\ known \in [Sessions -> Nat]
      /\ subs \in Seq(Subscribers(call)) /\ toHost \in Seq(Requests)
      /\ \A t \in Sessions : Covered(call, seen, t, presented[t]) /\ (known[t] = 0 => held[t] = 0)
  BY DEF ViewInv, ViewTypes
<1>2. /\ call[i].at = "draft" /\ Done(i)
      /\ UNCHANGED <<rev, seq, read, toHost, toClient, subs, selected>>
  BY DEF FinishOpen, host, wire
<1>3. s \in Sessions /\ n \in Nat \ {0} /\ call[i].own \in Nat
  BY <1>1, <1>2 DEF SoundCalls, Sound, AnyCall
<1>4. QuietCalls(call, call') /\ call'[i].at = "done" /\ Subscribers(call) \subseteq Subscribers(call')
  BY <1>1, <1>2, DoneIs
<1>5. GoOn(call, call')
  BY <1>1, <1>4, QuietGoesOn
<1>6. CASE selected = s
  <2>1. /\ basis' = IF Stale(s, call[i].own) THEN basis ELSE [basis EXCEPT ![s] = call[i].own]
        /\ held' = [held EXCEPT ![s] = Projected(s, call[i].own)]
        /\ known' = [known EXCEPT ![s] = n] /\ presented' = [presented EXCEPT ![s] = n]
        /\ seen' = [seen EXCEPT ![s] = @ \union 1..n] /\ watched' = watched \union {s}
    BY <1>6 DEF FinishOpen
  <2>2. Projected(s, call[i].own) \in Nat
    BY <1>1, <1>3 DEF Projected
  <2>3. 1..n \subseteq Nat
    BY <1>3
  <2>4. s = call[i].of /\ n = call[i].rev
    OBVIOUS
  <2>. HIDE DEF s, n
  <2>5. /\ known' \in [Sessions -> Nat] /\ presented' \in [Sessions -> Nat]
        /\ held' \in [Sessions -> Nat] /\ basis' \in [Sessions -> Nat]
        /\ seen' \in [Sessions -> SUBSET Nat] /\ watched' \subseteq Sessions
    BY <1>1, <1>3, <2>1, <2>2, <2>3
  <2>6. /\ known'[s] = n /\ presented'[s] = n /\ seen'[s] = seen[s] \union 1..n
        /\ \A t \in Sessions : t # s => /\ known'[t] = known[t] /\ presented'[t] = presented[t]
                                        /\ held'[t] = held[t] /\ seen'[t] = seen[t]
    BY <1>1, <1>3, <2>1
  <2>7. \A t \in Sessions : seen[t] \subseteq seen'[t]
    BY <2>6
  <2>8. \A t \in Sessions : known'[t] = 0 => held'[t] = 0
    BY <1>1, <1>3, <2>6
  <2>9. Unloaded(call, toClient, watched')
    BY <1>1, <1>2 DEF Unloaded
  <2>10. Episodes(call', selected, known', presented', seen', watched')
    <3>1. Episodes(call, s, known, presented, seen, watched)
      BY <1>1, <1>6
    <3>2. /\ known'[s] = call[i].rev /\ seen[s] \subseteq seen'[s] /\ 1..call[i].rev \subseteq seen'[s]
          /\ \A t \in Sessions : t # s => presented'[t] = presented[t]
      BY <2>4, <2>6
    <3>3. s \in Sessions /\ s = call[i].of
      BY <1>3, <2>4
    <3>4. SoundCalls(call) /\ call[i].at = "draft" /\ QuietCalls(call, call') /\ call'[i].at = "done"
      BY <1>1, <1>2, <1>4
    <3>5. watched' = watched \union {s}
      BY <2>1
    <3>6. Episodes(call', s, known', presented', seen', watched')
      BY <3>1, <3>2, <3>3, <3>4, <3>5, OpenedEpisodes
    <3>. QED BY <1>6, <3>6
  <2>11. \A t \in Sessions : Covered(call', seen', t, presented'[t])
    <3>1. Covered(call', seen', s, n)
      BY <1>3, <2>6 DEF Covered
    <3>2. \A t \in Sessions : Covered(call', seen', t, presented[t])
      BY <1>1, <1>5, <2>7, CoverageKeeps
    <3>. QED BY <2>6, <3>1, <3>2
  <2>. QED BY <1>2, <2>5, <2>7, <2>8, <2>9, <2>10, <2>11, WritingStep
<1>7. CASE selected # s
  <2>1. UNCHANGED <<known, presented, held, basis, seen, watched>>
    BY <1>7 DEF FinishOpen
  <2>2. subs' \in Seq(Subscribers(call'))
    BY <1>1, <1>2, <1>4, SeqMonotonic
  <2>. HIDE DEF s
  <2>. QED BY <1>1, <1>2, <1>4, <2>1, <2>2, CallsStep
<1>. QED BY <1>6, <1>7

-----------------------------------------------------------------------------
(* The theorems.                                                              *)

\* The calls at the beginning: one that loads the catalog, or none.
LEMMA CallsStart ==
  ASSUME ViewInit
  PROVE  /\ call \in [Call -> AnyCall] /\ \A i \in Call : Sound(call[i])
         /\ \A i \in Call : call[i].revs = Blank /\ call[i].kind \in {None, "load"}
                            /\ call[i].at \in {None, "catalog"}
         /\ subs \in Seq(Subscribers(call))
<1> DEFINE c1 == [Unasked EXCEPT !.kind = "load", !.at = "catalog"]
<1>1. Unasked \in AnyCall /\ Unasked.kind = None /\ Unasked.at = None /\ Unasked.revs = Blank
  BY BlankIs DEF Unasked, AnyCall, Places, Kinds
<1>2. c1 \in AnyCall /\ c1.kind = "load" /\ c1.at = "catalog" /\ c1.revs = Blank
  BY BlankIs DEF Unasked, AnyCall, Places, Kinds
<1>3. Sound(Unasked) /\ Sound(c1)
  BY <1>1, <1>2 DEF Sound, None
<1>4. 1 \in Call
  BY ViewAssumption DEF Call
<1>5. CASE Fresh
  <2>1. call = [i \in Call |-> IF i = 1 THEN c1 ELSE Unasked] /\ subs = <<1>>
    BY <1>5 DEF Fresh
  <2>. HIDE DEF c1
  <2>2. call[1] = c1 /\ \A i \in Call : call[i] = c1 \/ call[i] = Unasked
    BY <1>4, <2>1
  <2>3. call \in [Call -> AnyCall]
    BY <1>1, <1>2, <2>1
  <2>4. 1 \in Subscribers(call)
    BY <1>2, <1>4, <2>2 DEF Subscribers, None
  <2>5. subs \in Seq(Subscribers(call))
    BY <2>1, <2>4
  <2>. QED BY <1>1, <1>2, <1>3, <2>2, <2>3, <2>5
<1>6. CASE Loaded
  <2>1. call = [i \in Call |-> Unasked] /\ subs = <<>>
    BY <1>6 DEF Loaded
  <2>2. subs \in Seq(Subscribers(call))
    BY <2>1, EmptySeq
  <2>. QED BY <1>1, <1>3, <2>1, <2>2
<1>. QED BY <1>5, <1>6 DEF ViewInit

\* The invariant holds at the beginning,
LEMMA ViewInvStarts ==
  ASSUME ViewInit
  PROVE  ViewInv
<1>1. /\ rev \in Revs /\ seq \in Nat /\ read = Blank /\ toHost = <<>> /\ toClient = <<>>
      /\ selected = None /\ presented = Blank /\ seen = [s \in Sessions |-> {}] /\ watched = {}
  BY DEF ViewInit, Revs
<1>2. /\ known \in [Sessions -> Nat] /\ held \in [Sessions -> Nat] /\ basis \in [Sessions -> Nat]
      /\ \A s \in Sessions : known[s] = 0 => held[s] = 0
  <2>1. CASE Fresh
    BY <2>1, BlankIs DEF Fresh
  <2>2. CASE Loaded
    <3>1. known = rev /\ held = [s \in Sessions |-> 1] /\ basis = held
      BY <2>2 DEF Loaded
    <3>. QED BY <1>1, <3>1 DEF Revs
  <2>. QED BY <2>1, <2>2 DEF ViewInit
<1>3. /\ SoundCalls(call) /\ subs \in Seq(Subscribers(call))
      /\ \A i \in Call : call[i].revs = Blank /\ call[i].kind \in {None, "load"}
                         /\ call[i].at \in {None, "catalog"}
  BY CallsStart DEF SoundCalls
<1>4. ViewTypes
  <2>1. seen \in [Sessions -> SUBSET Nat] /\ toHost \in Seq(Requests) /\ toClient \in Seq(Messages)
    BY <1>1, EmptySeq
  <2>2. read \in [Sessions -> Nat] /\ presented \in [Sessions -> Nat]
    BY <1>1, BlankIs
  <2>. QED BY <1>1, <1>2, <1>3, <2>1, <2>2 DEF ViewTypes
<1>5. Len(toClient) = 0 /\ Len(toHost) = 0 /\ \A k : k \notin 1..0
  BY <1>1, EmptySeq
<1>6. Ordered(call, toClient, rev)
  <2>1. \A s \in Sessions : rev[s] \in Nat
    BY <1>1 DEF Revs
  <2>. QED BY <1>3, <1>5, <2>1, BlankIs DEF Ordered
<1>7. Unloaded(call, toClient, watched)
  BY <1>1, <1>3, <1>5 DEF Unloaded, None
<1>8. Episodes(call, selected, known, presented, seen, watched)
  BY <1>1, BlankIs, ViewAssumption DEF Episodes
<1>9. \A s \in Sessions : Covered(call, seen, s, presented[s]) /\ Covered(call, seen, s, read[s])
  <2>1. \A s \in Sessions : presented[s] = 0 /\ read[s] = 0
    BY <1>1, BlankIs
  <2>2. 1..0 = {}
    BY <1>5
  <2>. QED BY <2>1, <2>2 DEF Covered
<1>10. Marks(call, seen, toHost)
  BY <1>5 DEF Marks
<1>. QED BY <1>2, <1>4, <1>6, <1>7, <1>8, <1>9, <1>10 DEF ViewInv

\* when nothing happens,
LEMMA ViewStutters ==
  ASSUME ViewInv, UNCHANGED viewVars
  PROVE  ViewInv'
<1>1. UNCHANGED <<rev, seq, read, toHost, toClient, call, subs, selected, known, presented,
                  held, basis, watched, seen>>
  BY DEF viewVars, host, wire, fetch, view
<1>. QED BY <1>1 DEF ViewInv, ViewTypes

\* and after every step.
LEMMA ViewInvGoesOn ==
  ASSUME ViewInv, [ViewNext]_viewVars
  PROVE  ViewInv'
<1>1. CASE \E s \in Sessions : Open(s) \/ Change(s)
  BY <1>1, OpenStep, ChangeStep
<1>2. CASE Recover \/ PresentTail
  BY <1>2, RecoverStep, PresentTailStep
<1>3. CASE Admitted \/ Snapshot \/ Catalog \/ SessionReset \/ TimelineChange \/ AttentionChange
  BY <1>3, AdmittedStep, SnapshotStep, CatalogStep, SessionResetStep, TimelineChangeStep,
     AttentionChangeStep
<1>4. CASE \E i \in Call : \/ FinishLoad(i) \/ FinishOpen(i) \/ FinishRecovery(i)
                           \/ FailOpen(i) \/ ReadTimesOut(i)
  BY <1>4, FinishLoadStep, FinishOpenStep, FinishRecoveryStep, FailOpenStep, ReadTimesOutStep
<1>5. CASE Connect \/ Drop \/ Synchronize \/ MarkRead
  BY <1>5, ConnectStep, DropStep, SynchronizeStep, MarkReadStep
<1>6. CASE UNCHANGED viewVars
  BY <1>6, ViewStutters
<1>. QED BY <1>1, <1>2, <1>3, <1>4, <1>5, <1>6, Zenon DEF ViewNext

\* For any Sessions, changes, calls and mishaps: the invariant of the Client's calls,
\* of what is on its way to them and of what was on the screen.
THEOREM ViewInvCorrect == ViewSpec => []ViewInv
<1>1. ViewInit => ViewInv
  BY ViewInvStarts
<1>2. ViewInv /\ [ViewNext]_viewVars => ViewInv'
  BY ViewInvGoesOn
<1>. QED BY <1>1, <1>2, PTL DEF ViewSpec

\* For any Sessions, changes, calls and mishaps: what presentTail marked read was on
\* the screen, with all before it unless the Session was left and opened again.
THEOREM ReadWasShownCorrect == ViewSpec => []ReadWasShown
<1>1. ViewInv => ReadWasShown
  <2>1. \A s : OpenedOnce(s) => Once(call, s)
    BY DEF OpenedOnce, Once, IsOpen
  <2>. QED BY <2>1 DEF ViewInv, Covered, ReadWasShown
<1>. QED BY <1>1, ViewInvCorrect, PTL

\* Attention goes back in no step but a catalog's, or no further than its basis.
LEMMA AttentionStep ==
  ASSUME ViewInv, [ViewNext]_viewVars
  PROVE  Replaced \/ \A s \in Sessions : held'[s] < held[s] => held'[s] >= basis[s]
<1>1. /\ SoundCalls(call) /\ held \in [Sessions -> Nat] /\ basis \in [Sessions -> Nat]
      /\ toClient \in Seq(Messages)
      /\ \A s \in Sessions : known[s] = 0 => held[s] = 0
  BY DEF ViewInv, ViewTypes
<1>2. CASE held' = held
  BY <1>1, <1>2
<1>3. ASSUME NEW i \in Call, FinishLoad(i) \/ FinishRecovery(i) PROVE Replaced
  <2>1. Done(i) /\ call[i].at \in {"preferences", "reconcile"}
    BY <1>3 DEF FinishLoad, FinishRecovery
  <2>2. call'[i].at = "done"
    BY <1>1, <2>1, DoneIs
  <2>. QED BY <2>1, <2>2 DEF Replaced
<1>4. ASSUME NEW i \in Call, FinishOpen(i), held' # held,
             NEW s \in Sessions, held'[s] < held[s]
      PROVE  held'[s] >= basis[s]
  <2> DEFINE t == call[i].of
             n == call[i].own
  <2>1. held' = [held EXCEPT ![t] = Projected(t, n)]
    BY <1>4 DEF FinishOpen
  <2>2. n \in Nat
    BY <1>1 DEF SoundCalls, AnyCall
  <2>. HIDE DEF t, n
  <2>3. s = t /\ held'[s] = Projected(s, n)
    BY <1>1, <1>4, <2>1
  <2>4. CASE known[s] = 0
    BY <1>1, <1>4, <2>2, <2>3, <2>4 DEF Projected
  <2>5. CASE known[s] # 0
    BY <1>1, <1>4, <2>2, <2>3, <2>5 DEF Projected, Stale
  <2>. QED BY <2>4, <2>5
<1>5. ASSUME AttentionChange, held' # held, NEW s \in Sessions, held'[s] < held[s]
      PROVE  held'[s] >= basis[s]
  <2> DEFINE m == Head(toClient)
             t == m.of
  <2>1. /\ ~Stale(t, m.seq) /\ held' = [held EXCEPT ![t] = m.seq]
        /\ toClient # <<>> /\ m.kind = "attention"
    BY <1>5 DEF AttentionChange, Receive
  <2>2. m.seq \in Nat
    BY <1>1, <2>1, QueueIs, MessageIs
  <2>. HIDE DEF t, m
  <2>3. s = t /\ held'[s] = m.seq
    BY <1>1, <1>5, <2>1
  <2>. QED BY <1>1, <2>1, <2>2, <2>3 DEF Stale
<1>6. \/ held' = held \/ AttentionChange
      \/ \E i \in Call : FinishLoad(i) \/ FinishRecovery(i) \/ FinishOpen(i)
  <2>1. CASE \E s \in Sessions : Open(s) \/ Change(s)
    BY <2>1 DEF Open, Change, view
  <2>2. CASE Recover \/ PresentTail
    BY <2>2 DEF Recover, PresentTail, view
  <2>3. CASE Admitted \/ Snapshot \/ Catalog \/ SessionReset
    BY <2>3 DEF Admitted, Snapshot, Catalog, SessionReset, Unseen
  <2>4. CASE TimelineChange
    BY <2>4 DEF TimelineChange
  <2>5. CASE \E i \in Call : FailOpen(i) \/ ReadTimesOut(i)
    BY <2>5 DEF FailOpen, ReadTimesOut
  <2>6. CASE Connect \/ Drop \/ Synchronize \/ MarkRead
    BY <2>6 DEF Connect, Drop, Synchronize, MarkRead, view
  <2>7. CASE UNCHANGED viewVars
    BY <2>7 DEF viewVars, view
  <2>. QED BY <2>1, <2>2, <2>3, <2>4, <2>5, <2>6, <2>7, Zenon DEF ViewNext
<1>. QED BY <1>2, <1>3, <1>4, <1>5, <1>6, Zenon

\* For any Sessions, changes, calls and mishaps: only a catalog takes attention back
\* behind its basis; projections and late attention summaries do not.
THEOREM AttentionCorrect == ViewSpec => AttentionAdvances
<1>1. ViewInv /\ [ViewNext]_viewVars =>
        [Replaced \/ \A s \in Sessions : held'[s] < held[s] => held'[s] >= basis[s]]_viewVars
  BY AttentionStep
<1>. QED BY <1>1, ViewInvCorrect, PTL DEF ViewSpec, AttentionAdvances

============================================================================
