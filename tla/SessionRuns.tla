----------------------------- MODULE SessionRuns -----------------------------
(***************************************************************************)
(* The Runs of one Session of the Pidex Host: acceptance, dispatch to the  *)
(* Session's worker, settlement, Stop and its escalation, the follow-up    *)
(* queue, sleep and archive, Host loss and recovery.  Sources:             *)
(* packages/host/src/{host,store,pi-worker}.ts.                            *)
(*                                                                         *)
(* The Host is one Node.js thread.  A callback that commits several times  *)
(* is a chain of steps: `handler' names the next one, and until the chain  *)
(* ends only that step, a storage fault in it, or the loss of the process  *)
(* can happen.                                                             *)
(***************************************************************************)
EXTENDS Integers, FiniteSets

CONSTANTS
  MaxRuns,     \* bound: Runs of the Session, numbered by session_order
  AskingRuns,  \* Runs whose execution may open an interaction (one each)
  TimedRuns,   \* those whose interaction carries a deadline
  SteeredRuns, \* Runs a client may steer (once each)
  MaxCrashes,  \* bound: losses of the Host process
  MaxFaults    \* bound: storage faults

ASSUME SessionRunsAssumption ==
  /\ MaxRuns \in Nat \ {0}
  /\ MaxCrashes \in Nat
  /\ MaxFaults \in Nat

Runs == 1 .. MaxRuns
Terminal == {"completed", "failed", "cancelled", "interrupted"}
RunStates == {"none", "queued", "executing", "cancelling", "held"} \cup Terminal
AskStates == {"none", "open", "resolving", "closed"}
Steps == {"idle", "dispatch", "stage", "settle", "cancel", "next", "catch",
          "fail", "lost", "interrupt", "recover", "hold", "sleep", "escalate",
          "answer", "reconcile"}

Handlers == [at : Steps, run : 0 .. MaxRuns, by : 0 .. MaxRuns]
WellFormed(h) == h \in Handlers /\ (h.at \notin {"idle", "reconcile"} => h.run \in Runs)

VARIABLES
  \* committed by SQLite or fsynced
  run, residency, availability, evidence, ask, steering,
  \* memory of the Host process; a generation is named by the Run that minted it
  up, handler, gen, job, inflight, worker, timer, stopGen, resolver, steerPending,
  \* history and bounds
  returned, crashes, faults

durable  == <<run, residency, availability, evidence, ask, steering>>
volatile == <<up, handler, gen, job, inflight, worker, timer, stopGen,
              resolver, steerPending>>
history  == <<returned, crashes, faults>>
vars     == <<durable, volatile, history>>

-----------------------------------------------------------------------------
Idle == [at |-> "idle", run |-> 0, by |-> 0]
Step(at, r) == [at |-> at, run |-> r, by |-> 0]
At(at) == up /\ handler.at = at
Ready == At("idle")

Live(r) == run[r] \in {"executing", "cancelling"}
Waiting(r) == run[r] \in {"queued", "held"}
Unresolved(r) == ask[r] \in {"open", "resolving"}
Closed(asks) == [r \in Runs |-> IF r \in asks THEN "closed" ELSE ask[r]]
Unapplied(r) == [steering EXCEPT ![r] = IF @ = "accepted" THEN "unapplied" ELSE @]
HeldQueue == [r \in Runs |-> IF run[r] = "queued" THEN "held" ELSE run[r]]

\* Mutant: the quiescence check shares submitRun's list, without cancelling Runs.
ActiveWorkAsSubmit == \E r \in Runs : run[r] = "executing" \/ Waiting(r) \/ Unresolved(r)
\* sessionHasActiveWork
ActiveWork == \E r \in Runs : Live(r) \/ Waiting(r) \/ Unresolved(r)

\* The worker object of generation g still has #running set.
Busy(g) == \E r \in inflight : worker[r] = g

\* invalidateWorkerGeneration(g): a generation already replaced is left alone.
\* Only interactions whose resolver is still registered are withdrawn.
Invalidate(g) ==
  LET withdrawn == IF gen = g THEN {r \in resolver : Unresolved(r)} ELSE {}
  IN  /\ gen' = IF gen = g THEN 0 ELSE gen
      /\ ask' = Closed(withdrawn)
      /\ resolver' = resolver \ withdrawn

\* closeSessionWorker
CloseWorker == job' = FALSE /\ gen' = 0

Init ==
  /\ run = [r \in Runs |-> "none"]
  /\ residency = "sleeping"
  /\ availability = "available"
  /\ evidence = {}
  /\ ask = [r \in Runs |-> "none"]
  /\ steering = [r \in Runs |-> "none"]
  /\ up = TRUE
  /\ handler = Idle
  /\ gen = 0
  /\ job = FALSE
  /\ inflight = {}
  /\ worker = [r \in Runs |-> 0]
  /\ timer = [r \in Runs |-> "off"]
  /\ stopGen = [r \in Runs |-> 0]
  /\ resolver = {}
  /\ steerPending = {}
  /\ returned = {}
  /\ crashes = 0
  /\ faults = 0

-----------------------------------------------------------------------------
(* Commands of clients.                                                    *)

NextOrder(r) == run[r] = "none" /\ \A s \in Runs : s < r => run[s] # "none"

Accept(r, state) ==
  /\ Ready
  /\ NextOrder(r)
  /\ availability = "available"
  /\ run' = [run EXCEPT ![r] = state]
  /\ residency' = "resident"
  /\ UNCHANGED <<availability, evidence, ask, steering, up, gen, job, inflight,
                 worker, timer, stopGen, resolver, steerPending, history>>

\* Mutant: only Runs that wait are active.
QueueWaiting == \E r \in Runs : run[r] \in {"queued", "held"}
\* submitRun's check that no Run is active: a cancelling Run is not counted.
QueueActive == \E r \in Runs : run[r] \in {"queued", "executing", "held"}

Submit(r) ==
  /\ ~QueueActive
  /\ Accept(r, "executing")
  /\ handler' = Step("dispatch", r)

FollowUp(r) ==
  /\ QueueActive
  /\ Accept(r, "queued")
  /\ UNCHANGED handler

\* run.release: every other held Run goes back to the queue.
Release(r) ==
  /\ Ready
  /\ run[r] = "held"
  /\ \A s \in Runs : run[s] # "executing"
  /\ \A s \in Runs : s < r => ~Waiting(s)
  /\ run' = [s \in Runs |-> IF s = r THEN "executing"
                            ELSE IF run[s] = "held" THEN "queued" ELSE run[s]]
  /\ handler' = Step("dispatch", r)
  /\ UNCHANGED <<residency, availability, evidence, ask, steering, up, gen, job,
                 inflight, worker, timer, stopGen, resolver, steerPending, history>>

CancelQueued(r) ==
  /\ Ready
  /\ Waiting(r)
  /\ run' = [run EXCEPT ![r] = "cancelled"]
  /\ UNCHANGED <<residency, availability, evidence, ask, steering, volatile, history>>

\* The command names the current generation, or it is stale-execution.
Stop(r) ==
  /\ Ready
  /\ run[r] = "executing"
  /\ gen # 0
  /\ run' = [s \in Runs |-> IF s = r THEN "cancelling"
                            ELSE IF Waiting(s) THEN "cancelled" ELSE run[s]]
  /\ steering' = Unapplied(r)
  /\ ask' = IF Unresolved(r) THEN Closed({r}) ELSE ask
  /\ resolver' = IF Unresolved(r) THEN resolver \ {r} ELSE resolver
  /\ stopGen' = [stopGen EXCEPT ![r] = gen]
  /\ handler' = Step("escalate", r)
  /\ UNCHANGED <<residency, availability, evidence, up, gen, job, inflight,
                 worker, timer, steerPending, history>>

\* markRunSteeringUnapplied, worker.stop(), scheduleForcedStop
Escalate ==
  /\ At("escalate")
  /\ steering' = Unapplied(handler.run)
  /\ timer' = [timer EXCEPT ![handler.run] = "cooperative"]
  /\ handler' = Idle
  /\ UNCHANGED <<run, residency, availability, evidence, ask, up, gen, job, inflight,
                 worker, stopGen, resolver, steerPending, history>>

Steer(r) ==
  /\ Ready
  /\ r \in SteeredRuns
  /\ steering[r] = "none"
  /\ run[r] = "executing"
  /\ gen # 0
  /\ steering' = [steering EXCEPT ![r] = "accepted"]
  /\ steerPending' = steerPending \cup {r}
  /\ UNCHANGED <<run, residency, availability, evidence, ask, up, handler, gen, job,
                 inflight, worker, timer, stopGen, resolver, history>>

\* The promise of worker.steer settles; markSteering changes accepted rows only.
SteerSettles(r, outcome) ==
  /\ Ready
  /\ r \in steerPending
  /\ steerPending' = steerPending \ {r}
  /\ steering' = [steering EXCEPT ![r] = IF @ = "accepted" THEN outcome ELSE @]
  /\ UNCHANGED <<run, residency, availability, evidence, ask, up, handler, gen, job,
                 inflight, worker, timer, stopGen, resolver, history>>

\* setSessionSleeping returns early for a Session that is already sleeping.
Sleep ==
  /\ Ready
  /\ residency = "sleeping" \/ ~ActiveWork
  /\ residency' = "sleeping"
  /\ CloseWorker
  /\ UNCHANGED <<run, availability, evidence, ask, steering, up, handler, inflight,
                 worker, timer, stopGen, resolver, steerPending, history>>

Archive ==
  /\ Ready
  /\ availability = "available"
  /\ ~ActiveWork
  /\ availability' = "archived"
  /\ residency' = "sleeping"
  /\ CloseWorker
  /\ UNCHANGED <<run, evidence, ask, steering, up, handler, inflight,
                 worker, timer, stopGen, resolver, steerPending, history>>

Restore ==
  /\ Ready
  /\ availability = "archived"
  /\ availability' = "available"
  /\ residency' = "sleeping"
  /\ UNCHANGED <<run, evidence, ask, steering, volatile, history>>

-----------------------------------------------------------------------------
(* dispatchRun, and the two continuations of worker.execute.               *)

\* An exception of a dispatch started by Run p's `.then' lands in p's `.catch'.
Rethrow(p) == IF p = 0 THEN Idle ELSE Step("catch", p)

\* The adapter refuses to create the Session's job.
DispatchUncontained ==
  /\ At("dispatch")
  /\ ~job
  /\ handler' = [handler EXCEPT !.at = "fail"]
  /\ UNCHANGED <<durable, up, gen, job, inflight, worker, timer, stopGen,
                 resolver, steerPending, history>>

\* Mutant: every dispatch names a new generation, though the worker is reused.
DispatchRenumbers ==
  /\ At("dispatch")
  /\ LET r == handler.run
         g == IF gen = 0 THEN r ELSE gen
     IN  /\ gen' = r
         /\ job' = TRUE
         /\ worker' = [worker EXCEPT ![r] = g]
         /\ inflight' = IF Busy(g) THEN inflight ELSE inflight \cup {r}
         /\ handler' = IF Busy(g) THEN Step("catch", r) ELSE Idle
  /\ UNCHANGED <<durable, up, timer, stopGen, resolver, steerPending, history>>

\* A worker that still executes rejects with worker-busy.
DispatchContained ==
  /\ At("dispatch")
  /\ LET r == handler.run
         g == IF gen = 0 THEN r ELSE gen
     IN  /\ gen' = g
         /\ job' = TRUE
         /\ worker' = [worker EXCEPT ![r] = g]
         /\ inflight' = IF Busy(g) THEN inflight ELSE inflight \cup {r}
         /\ handler' = IF Busy(g) THEN Step("catch", r) ELSE Idle
  /\ UNCHANGED <<durable, up, timer, stopGen, resolver, steerPending, history>>

Ends(r) ==
  /\ Ready
  /\ r \in inflight
  /\ inflight' = inflight \ {r}
  /\ timer' = [timer EXCEPT ![r] = "off"]
  /\ stopGen' = [stopGen EXCEPT ![r] = 0]
  /\ UNCHANGED <<durable, up, gen, job, worker, resolver, steerPending,
                 crashes, faults>>

PiReturns(r) ==
  /\ Ends(r)
  /\ returned' = returned \cup {r}
  /\ handler' = Step(IF run[r] = "cancelling" THEN "cancel" ELSE "stage", r)

PiFails(r) == Ends(r) /\ handler' = Step("catch", r) /\ UNCHANGED returned
PiLost(r)  == Ends(r) /\ handler' = Step("lost", r) /\ UNCHANGED returned

Stage ==
  /\ At("stage")
  /\ evidence' = evidence \cup {handler.run}
  /\ handler' = Step("settle", handler.run)
  /\ UNCHANGED <<run, residency, availability, ask, steering, up, gen, job, inflight,
                 worker, timer, stopGen, resolver, steerPending, history>>

\* settleRun(r, outcome) throws run-not-accepted when r is no longer live.
Settle(outcome, onSettled, onRefused) ==
  LET r == handler.run
  IN  /\ run' = IF Live(r) THEN [run EXCEPT ![r] = outcome] ELSE run
      /\ handler' = IF Live(r) THEN onSettled ELSE onRefused

SettleCompleted ==
  /\ At("settle")
  /\ Settle("completed", Step("next", handler.run), Step("catch", handler.run))
  /\ UNCHANGED <<residency, availability, evidence, ask, steering, up, gen, job,
                 inflight, worker, timer, stopGen, resolver, steerPending, history>>

SettleCooperative ==
  /\ At("cancel")
  /\ Settle("cancelled", Step("next", handler.run), Step("catch", handler.run))
  /\ UNCHANGED <<residency, availability, evidence, ask, steering, up, gen, job,
                 inflight, worker, timer, stopGen, resolver, steerPending, history>>

FirstQueued(s) == run[s] = "queued" /\ \A q \in Runs : run[q] = "queued" => s <= q

\* Completion evidence is removed, then dispatchNext; it throws session-busy.
DispatchNext ==
  /\ At("next")
  /\ evidence' = evidence \ {handler.run}
  /\ \/ /\ \E s \in Runs : run[s] = "executing"
        /\ handler' = Step("catch", handler.run)
        /\ UNCHANGED run
     \/ /\ \A s \in Runs : run[s] # "executing"
        /\ \A s \in Runs : run[s] # "queued"
        /\ handler' = Idle
        /\ UNCHANGED run
     \/ /\ \A s \in Runs : run[s] # "executing"
        /\ \E s \in Runs :
             /\ FirstQueued(s)
             /\ run' = [run EXCEPT ![s] = "executing"]
             /\ handler' = [at |-> "dispatch", run |-> s, by |-> handler.run]
  /\ UNCHANGED <<residency, availability, ask, steering, up, gen, job, inflight,
                 worker, timer, stopGen, resolver, steerPending, history>>

\* A cancelling Run settles whatever the error; nothing is dispatched after it.
CatchCancelling ==
  /\ At("catch") \/ At("lost")
  /\ LET r == handler.run
     IN  /\ run[r] = "cancelling"
         /\ run' = [run EXCEPT ![r] = "cancelled"]
         /\ IF job THEN UNCHANGED <<gen, ask, resolver>> ELSE Invalidate(worker[r])
  /\ handler' = Idle
  /\ UNCHANGED <<residency, availability, evidence, steering, up, job, inflight,
                 worker, timer, stopGen, steerPending, history>>

CatchError ==
  /\ At("catch") \/ At("lost")
  /\ run[handler.run] # "cancelling"
  /\ Invalidate(worker[handler.run])
  /\ handler' = Step(IF handler.at = "lost" THEN "interrupt" ELSE "fail", handler.run)
  /\ UNCHANGED <<run, residency, availability, evidence, steering, up, job, inflight,
                 worker, timer, stopGen, steerPending, history>>

SettleFailed ==
  /\ At("fail")
  /\ Settle("failed", [handler EXCEPT !.at = "hold"], Rethrow(handler.by))
  /\ UNCHANGED <<residency, availability, evidence, ask, steering, up, gen, job,
                 inflight, worker, timer, stopGen, resolver, steerPending, history>>

HoldQueued ==
  /\ At("hold")
  /\ run' = HeldQueue
  /\ handler' = Idle
  /\ UNCHANGED <<residency, availability, evidence, ask, steering, up, gen, job,
                 inflight, worker, timer, stopGen, resolver, steerPending, history>>

\* recoverFromWorkerLoss: settle, close the job, recoverWorkerLoss.
SettleInterrupted ==
  /\ At("interrupt")
  /\ Settle("interrupted", Step("recover", handler.run), Idle)
  /\ job' = IF Live(handler.run) THEN FALSE ELSE job
  /\ UNCHANGED <<residency, availability, evidence, ask, steering, up, gen,
                 inflight, worker, timer, stopGen, resolver, steerPending, history>>

RecoverWorkerLoss ==
  /\ At("recover")
  /\ steering' = Unapplied(handler.run)
  /\ ask' = Closed({r \in Runs : Unresolved(r)})
  /\ handler' = Step("sleep", handler.run)
  /\ UNCHANGED <<run, residency, availability, evidence, up, gen, job, inflight,
                 worker, timer, stopGen, resolver, steerPending, history>>

HoldAndSleep ==
  /\ At("sleep")
  /\ run' = HeldQueue
  /\ residency' = "sleeping"
  /\ handler' = Idle
  /\ UNCHANGED <<availability, evidence, ask, steering, up, gen, job, inflight,
                 worker, timer, stopGen, resolver, steerPending, history>>

-----------------------------------------------------------------------------
(* The escalation timers of an accepted Stop.                              *)

\* Mutant: the job is terminated and no second timer is set.
CooperativeTimeoutOnly(r) ==
  /\ Ready
  /\ timer[r] = "cooperative"
  /\ timer' = [timer EXCEPT ![r] = "off"]
  /\ job' = IF run[r] = "cancelling" THEN FALSE ELSE job
  /\ UNCHANGED <<durable, up, handler, gen, inflight, worker, stopGen, resolver,
                 steerPending, history>>

CooperativeTimeout(r) ==
  /\ Ready
  /\ timer[r] = "cooperative"
  /\ timer' = [timer EXCEPT ![r] = IF run[r] = "cancelling" THEN "reconcile" ELSE "off"]
  /\ job' = IF run[r] = "cancelling" THEN FALSE ELSE job
  /\ UNCHANGED <<durable, up, handler, gen, inflight, worker, stopGen, resolver,
                 steerPending, history>>

\* Mutant: a forced stop waits until the execution has ended by itself.
ReconcileTimeoutWaits(r) ==
  /\ Ready
  /\ timer[r] = "reconcile"
  /\ r \notin inflight
  /\ timer' = [timer EXCEPT ![r] = "off"]
  /\ UNCHANGED <<durable, up, handler, gen, job, inflight, worker, stopGen, resolver,
                 steerPending, history>>

ReconcileTimeout(r) ==
  /\ Ready
  /\ timer[r] = "reconcile"
  /\ timer' = [timer EXCEPT ![r] = "off"]
  /\ stopGen' = [stopGen EXCEPT ![r] = 0]
  /\ IF run[r] = "cancelling"
     THEN /\ run' = [run EXCEPT ![r] = "cancelled"]
          /\ Invalidate(stopGen[r])
     ELSE UNCHANGED <<run, gen, ask, resolver>>
  /\ UNCHANGED <<residency, availability, evidence, steering, up, handler, job,
                 inflight, worker, steerPending, history>>

-----------------------------------------------------------------------------
(* Interactions an execution opens, one per Run.                           *)

\* createInteraction does not look at the state of the Run or the Session.
AskOpens(r) ==
  /\ Ready
  /\ r \in inflight \cap AskingRuns
  /\ ask[r] = "none"
  /\ ask' = [ask EXCEPT ![r] = "open"]
  /\ resolver' = resolver \cup {r}
  /\ UNCHANGED <<run, residency, availability, evidence, steering, up, handler, gen,
                 job, inflight, worker, timer, stopGen, steerPending, history>>

\* The reservation commits, the worker is answered, then the outcome commits.
Resolve(r) ==
  /\ Ready
  /\ ask[r] = "open"
  /\ r \in resolver
  /\ ask' = [ask EXCEPT ![r] = "resolving"]
  /\ resolver' = resolver \ {r}
  /\ handler' = Step("answer", r)
  /\ UNCHANGED <<run, residency, availability, evidence, steering, up, gen, job,
                 inflight, worker, timer, stopGen, steerPending, history>>

Answered ==
  /\ At("answer")
  /\ ask' = Closed({handler.run} \cap {r \in Runs : ask[r] = "resolving"})
  /\ handler' = Idle
  /\ UNCHANGED <<run, residency, availability, evidence, steering, up, gen, job,
                 inflight, worker, timer, stopGen, resolver, steerPending, history>>

\* The deadline timer, or a late answer that finds the deadline passed.
Expire(r) ==
  /\ Ready
  /\ r \in TimedRuns
  /\ ask[r] = "open"
  /\ ask' = Closed({r})
  /\ resolver' = resolver \ {r}
  /\ UNCHANGED <<run, residency, availability, evidence, steering, up, handler, gen,
                 job, inflight, worker, timer, stopGen, steerPending, history>>

-----------------------------------------------------------------------------
(* Storage faults, loss of the process, recovery.                          *)

Lose ==
  /\ up' = FALSE
  /\ handler' = Idle
  /\ gen' = 0
  /\ job' = FALSE
  /\ inflight' = {}
  /\ timer' = [r \in Runs |-> "off"]
  /\ stopGen' = [r \in Runs |-> 0]
  /\ resolver' = {}
  /\ steerPending' = {}
  /\ UNCHANGED <<durable, worker, returned>>

Crash == up /\ crashes < MaxCrashes /\ Lose /\ crashes' = crashes + 1 /\ UNCHANGED faults

Fault == up /\ faults < MaxFaults /\ faults' = faults + 1 /\ UNCHANGED <<returned, crashes>>

\* The step's transaction rolls back; the enclosing catch decides what is next.
StorageFault ==
  /\ Fault
  /\ handler' = CASE handler.at \in {"stage", "settle", "cancel", "next"} ->
                       Step("catch", handler.run)
                  [] handler.at \in {"fail", "hold"} -> Rethrow(handler.by)
                  [] OTHER -> Idle
  /\ handler.at \notin {"idle", "dispatch", "reconcile"}
  /\ gen' = IF /\ handler.at \in {"catch", "lost"}
               /\ run[handler.run] # "cancelling"
               /\ gen = worker[handler.run]
            THEN 0 ELSE gen
  /\ UNCHANGED <<durable, up, job, inflight, worker, timer, stopGen, resolver, steerPending>>

\* A read fails before execute is called: of the Timeline or projection, or of the
\* prompt's images once the worker and its generation are in place.
DispatchFault ==
  /\ Fault
  /\ At("dispatch")
  /\ LET r == handler.run
         g == IF gen = 0 THEN r ELSE gen
     IN  \/ gen' = g /\ worker' = [worker EXCEPT ![r] = g] /\ job' = TRUE
         \/ UNCHANGED <<gen, worker, job>>
  /\ handler' = Rethrow(handler.by)
  /\ UNCHANGED <<durable, up, inflight, timer, stopGen, resolver, steerPending>>

\* Recovery fails closed: the Host does not come up.
RecoveryFault ==
  /\ faults < MaxFaults
  /\ At("reconcile")
  /\ Lose
  /\ faults' = faults + 1
  /\ UNCHANGED crashes

Restart ==
  /\ ~up
  /\ up' = TRUE
  /\ handler' = Step("reconcile", 0)
  /\ UNCHANGED <<durable, gen, job, inflight, worker, timer, stopGen, resolver,
                 steerPending, history>>

\* Mutant: a Run whose end cannot be proved is offered for release again.
ReconcileReoffers(r) ==
  /\ At("reconcile")
  /\ Live(r)
  /\ run' = [run EXCEPT ![r] = "held"]
  /\ handler' = Step("reconcile", r)
  /\ UNCHANGED <<residency, availability, evidence, ask, steering, up, gen, job,
                 inflight, worker, timer, stopGen, resolver, steerPending, history>>

\* reconcileAcceptedRuns, one settlement.  Evidence may prove unreadable.
ReconcileRun(r) ==
  /\ At("reconcile")
  /\ Live(r)
  /\ \/ /\ run[r] = "executing"
        /\ r \in evidence
        /\ run' = [run EXCEPT ![r] = "completed"]
        /\ evidence' = evidence \ {r}
     \/ /\ run' = [run EXCEPT ![r] = "interrupted"]
        /\ UNCHANGED evidence
  /\ handler' = Step("reconcile", r)
  /\ UNCHANGED <<residency, availability, ask, steering, up, gen, job, inflight,
                 worker, timer, stopGen, resolver, steerPending, history>>

\* The queue is held only if this pass settled one of the Session's Runs.
ReconcileEnds ==
  /\ At("reconcile")
  /\ \A r \in Runs : ~Live(r)
  /\ run' = IF handler.run # 0 THEN HeldQueue ELSE run
  /\ residency' = "sleeping"
  /\ handler' = Idle
  /\ UNCHANGED <<availability, evidence, ask, steering, up, gen, job, inflight,
                 worker, timer, stopGen, resolver, steerPending, history>>

-----------------------------------------------------------------------------
Command(r) ==
  \/ Submit(r) \/ FollowUp(r) \/ Release(r) \/ CancelQueued(r) \/ Stop(r)
  \/ Steer(r) \/ Resolve(r)

Execution(r) ==
  \/ PiReturns(r) \/ PiFails(r) \/ PiLost(r) \/ AskOpens(r)
  \/ \E outcome \in {"applied", "unapplied"} : SteerSettles(r, outcome)

Timeout(r) == CooperativeTimeout(r) \/ ReconcileTimeout(r) \/ Expire(r)

HandlerStep ==
  \/ DispatchUncontained \/ DispatchContained \/ Stage \/ SettleCompleted
  \/ SettleCooperative \/ DispatchNext \/ CatchCancelling \/ CatchError
  \/ SettleFailed \/ HoldQueued \/ SettleInterrupted \/ RecoverWorkerLoss
  \/ HoldAndSleep \/ Escalate \/ Answered \/ ReconcileEnds
  \/ \E r \in Runs : ReconcileRun(r)

Next ==
  \/ \E r \in Runs : Command(r) \/ Execution(r) \/ Timeout(r)
  \/ Sleep \/ Archive \/ Restore
  \/ HandlerStep
  \/ StorageFault \/ DispatchFault \/ RecoveryFault
  \/ Crash \/ Restart

Spec == Init /\ [][Next]_vars

\* Node runs a started callback to its end and fires due timers; a lost Host is
\* started again.  Nothing is assumed of clients or of Pi.
FairSpec ==
  /\ Spec
  /\ WF_vars(HandlerStep)
  /\ WF_vars(Restart)
  /\ \A r \in Runs : WF_vars(CooperativeTimeout(r)) /\ WF_vars(ReconcileTimeout(r))

-----------------------------------------------------------------------------
(* Properties.                                                             *)

\* Every variable keeps its type, and a pending callback belongs to a Run.
TypeOK ==
  /\ run \in [Runs -> RunStates]
  /\ residency \in {"resident", "sleeping"}
  /\ availability \in {"available", "archived"}
  /\ evidence \subseteq Runs
  /\ ask \in [Runs -> AskStates]
  /\ steering \in [Runs -> {"none", "accepted", "applied", "unapplied"}]
  /\ up \in BOOLEAN
  /\ WellFormed(handler)
  /\ gen \in 0 .. MaxRuns
  /\ job \in BOOLEAN
  /\ inflight \subseteq Runs
  /\ worker \in [Runs -> 0 .. MaxRuns]
  /\ timer \in [Runs -> {"off", "cooperative", "reconcile"}]
  /\ stopGen \in [Runs -> 0 .. MaxRuns]
  /\ resolver \subseteq Runs
  /\ steerPending \subseteq Runs
  /\ returned \subseteq Runs
  /\ crashes \in Nat
  /\ faults \in Nat

\* A prompt that reached a worker never waits in the queue again: no failure,
\* worker loss or recovery makes the Host dispatch a Run a second time.
NeverReplayed == \A r \in Runs : worker[r] # 0 => Live(r) \/ run[r] \in Terminal

\* A Run dispatched by the current worker is the one its generation names, so a
\* Stop or a steering that quotes the generation reaches the Run it names.
StopReachesItsWorker ==
  Ready /\ faults = 0 => \A r \in Runs : run[r] = "executing" /\ gen # 0 => worker[r] = gen

\* An accepted Stop always has an escalation timer running behind it, except in
\* the middle of a callback, after a storage fault, or while the Host is down.
EscalationArmed ==
  Ready /\ faults = 0 => \A r \in Runs : run[r] = "cancelling" => timer[r] # "off"

\* No callback, timer or recovery revives work in a Session once it is archived.
ArchivedIsQuiet ==
  availability = "archived" => \A r \in Runs : ~Live(r) /\ ~Waiting(r)

PhaseOf(state) ==
  CASE state \in {"queued", "held"} -> "waiting"
    [] state = "executing" -> "live"
    [] state = "cancelling" -> "stopping"
    [] OTHER -> state
Phases == [r \in Runs |-> PhaseOf(run[r])]

Contract == INSTANCE RunContract WITH phase <- Phases, proof <- returned

\* The Session implements the contract of its Runs: one outcome each, at most
\* one executing, completed only on proof, a stop never ends as a completion.
ContractSpec == Contract!Spec

\* An accepted Stop ends unless a storage fault strikes: Pi answers, the timers
\* settle the Run, or recovery does after a loss of the Host.
StopEnds ==
  \A r \in Runs : run[r] = "cancelling" ~> (run[r] \in Terminal \/ faults > 0)

-----------------------------------------------------------------------------
(* The inductive invariant behind NeverReplayed and ContractSpec.          *)

\* What a pending callback may rely on: nothing ran since it was scheduled.
CallbackInv ==
  /\ handler.at = "dispatch" => run[handler.run] = "executing"
  /\ handler.at = "cancel" => run[handler.run] = "cancelling"
  /\ handler.at \in {"stage", "settle", "fail", "interrupt"} =>
       run[handler.run] # "cancelling"
  /\ handler.at \in {"stage", "settle"} => handler.run \in returned

OneExecuting ==
  \A r, s \in Runs : run[r] = "executing" /\ run[s] = "executing" => r = s

Begun(r) == Live(r) \/ run[r] \in Terminal
DispatchedOnce == \A r \in Runs : worker[r] # 0 \/ r \in inflight => Begun(r)

EvidenceProved == evidence \subseteq returned

SessionInv == TypeOK /\ CallbackInv /\ OneExecuting /\ DispatchedOnce /\ EvidenceProved

-----------------------------------------------------------------------------
(* What the repository's product specification says and the code does not  *)
(* keep.                                                                   *)

\* SPEC.md:178, a Session executes at most one Run at a time.
OneLiveRun == \A r, s \in Runs : Live(r) /\ Live(s) => r = s

\* SPEC.md:186, a follow-up waits for its live predecessor, or is held for
\* explicit release: it is never left where neither can reach it.
QueuedHasPredecessor ==
  Ready => \A r \in Runs : run[r] = "queued" =>
             \E s \in Runs : s < r /\ (Live(s) \/ run[s] = "held")

\* SPEC.md:235, after Host loss the follow-ups not yet dispatched are held.
RecoveryHoldsQueue ==
  [][At("reconcile") /\ Ready' => \A r \in Runs : run'[r] # "queued"]_vars

\* SPEC.md:219, sleep is committed only while the Session is quiescent.
SleepOnlyQuiescent ==
  [][gen # 0 /\ gen' = 0 /\ Ready /\ Ready' /\ UNCHANGED <<run, timer>> => ~ActiveWork]_vars
=============================================================================
