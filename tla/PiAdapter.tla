----------------------------- MODULE PiAdapter -----------------------------
(***************************************************************************)
(* How one Session's Runs reach the Pi SDK inside the Host: the worker     *)
(* object of pi-worker.ts, the adapter's map of children, and the child    *)
(* that owns one SDK session.  Each await of the call chain is a place     *)
(* where the Host may dispatch, stop, force or close in between.  Run r    *)
(* names the worker object, the generation and the child it makes.         *)
(***************************************************************************)
EXTENDS Naturals, FiniteSets

CONSTANT MaxRuns

ASSUME RunsAssumption == MaxRuns \in Nat \ {0}

VARIABLES
  host,      \* run -> its state in the Host's record
  pc,        \* run -> the await its execute call is at
  worker,    \* run -> the worker object it was given
  current,   \* the worker object in workers, 0 for none
  child,     \* run -> the child it was given
  mapped,    \* the child in #children, 0 for none
  session,   \* the children with an SDK session
  user,      \* child -> the run that made it #running
  ui,        \* child -> the run whose UI context it holds
  disposed,  \* the disposed children
  aborted    \* the runs whose prompt the SDK was told to abort

callers == <<host, worker, current>>
children == <<mapped, session, user, ui, disposed>>
vars == <<callers, pc, child, children, aborted>>

Run == 1..MaxRuns
None == 0
Awaits == {"probe", "bind", "configure", "session", "prompt", "flush"}
Unsettled == {"executing", "cancelling", "enforced"}

\* What the Host, the worker objects and the children may hold.
TypeOK ==
  /\ host \in [Run -> {"none", "settled"} \union Unsettled]
  /\ pc \in [Run -> Awaits \union {"none", "done"}]
  /\ worker \in [Run -> 0..MaxRuns] /\ current \in 0..MaxRuns
  /\ child \in [Run -> 0..MaxRuns] /\ mapped \in {None} \union (Run \ disposed)
  /\ session \subseteq Run /\ disposed \subseteq Run /\ aborted \subseteq Run
  /\ user \in [Run -> 0..MaxRuns] /\ ui \in [Run -> 0..MaxRuns]
  /\ \A c \in Run : user[c] # None => pc[user[c]] \in {"session", "prompt"} /\ child[user[c]] = c

Init ==
  /\ host = [r \in Run |-> "none"] /\ pc = [r \in Run |-> "none"]
  /\ worker = [r \in Run |-> None] /\ current = None
  /\ child = [r \in Run |-> None] /\ mapped = None
  /\ session = {} /\ disposed = {} /\ aborted = {}
  /\ user = [c \in Run |-> None] /\ ui = [c \in Run |-> None]

At(r, place) == pc' = [pc EXCEPT ![r] = place]
Record(r, state) == host' = [host EXCEPT ![r] = state]

Busy(w) == \E r \in Run : worker[r] = w /\ pc[r] \in Awaits

-----------------------------------------------------------------------------
(* The end of execute, as dispatchRun's then and catch take it. *)

\* invalidateWorkerGeneration: only the generation the run was given.
Invalidated(w) == IF current = w THEN None ELSE current

\* A cancelled run keeps its worker while the Session's Job is there.
Reject(r) ==
  /\ At(r, "done") /\ Record(r, "settled")
  /\ current' = IF host[r] = "cancelling" THEN current ELSE Invalidated(worker[r])
  /\ UNCHANGED worker

Resolve(r) ==
  /\ At(r, "done") /\ Record(r, "settled") /\ UNCHANGED <<worker, current>>

-----------------------------------------------------------------------------
(* The Host: dispatch, Stop and its two timers, sleep or archive. *)

\* dispatchRun; a worker object that is running throws worker-busy at once.
Dispatch(r) ==
  LET w == IF current = None THEN r ELSE current IN
  /\ host[r] = "none" /\ \A q \in 1..(r - 1) : host[q] # "none"
  /\ \A q \in Run : host[q] # "executing"
  /\ worker' = [worker EXCEPT ![r] = w]
  /\ IF Busy(w)
     THEN At(r, "done") /\ Record(r, "settled") /\ current' = None
     ELSE At(r, "probe") /\ Record(r, "executing") /\ current' = w
  /\ UNCHANGED <<child, children, aborted>>

\* The abort listener is there while the child executes; the SDK session
\* must be there for it to reach the prompt.
Heard(w) == {r \in Run : worker[r] = w /\ pc[r] = "prompt"}

StopRun(r) ==
  /\ host[r] = "executing" /\ worker[r] = current
  /\ Record(r, "cancelling") /\ aborted' = aborted \union Heard(current)
  /\ UNCHANGED <<pc, worker, current, child, children>>

\* The Job of the Session ends; the SDK runs in the Host.
Enforce(r) ==
  /\ host[r] = "cancelling" /\ Record(r, "enforced")
  /\ UNCHANGED <<pc, worker, current, child, children, aborted>>

Reconcile(r) ==
  /\ host[r] = "enforced" /\ Record(r, "settled") /\ current' = Invalidated(worker[r])
  /\ UNCHANGED <<pc, worker, child, children, aborted>>

Unmapped == None

\* The transition after the flush does not look again.
QuiescentBeforeFlush == TRUE

Quiescent == \A r \in Run : host[r] \notin Unsettled

\* closeSessionWorker, closeSession and dispose.
Close ==
  /\ Quiescent
  /\ mapped # None \/ current # None
  /\ current' = None /\ mapped' = Unmapped
  /\ disposed' = disposed \union ({mapped} \ {None})
  /\ aborted' = aborted \union
       {r \in Run : mapped \in session /\ user[mapped] = r}
  /\ UNCHANGED <<host, pc, worker, child, session, user, ui>>

HostStep ==
  \/ \E r \in Run : Dispatch(r) \/ StopRun(r) \/ Enforce(r) \/ Reconcile(r)
  \/ Close

-----------------------------------------------------------------------------
(* PiSessionWorker.execute, RealPiAdapter.execute and ExactPiChild.execute. *)

\* Only a child without a UI context gets one.
FirstUI(r, c) == IF ui[c] = None THEN [ui EXCEPT ![c] = r] ELSE ui

\* configureUI gives the child the request of this execution.
OwnUI(r, c) == [ui EXCEPT ![c] = r]

Give(r, c) ==
  /\ child' = [child EXCEPT ![r] = c] /\ ui' = OwnUI(r, c) /\ At(r, "configure")

\* The probe passed; #child finds the Session's child or makes one.  All
\* probes wait for one promise, which answers them in order.
Probed(r) ==
  /\ pc[r] = "probe" /\ \A q \in 1..(r - 1) : pc[q] # "probe"
  /\ IF mapped = None THEN At(r, "bind") /\ UNCHANGED <<child, ui>> ELSE Give(r, mapped)
  /\ UNCHANGED <<callers, mapped, session, user, disposed, aborted>>

Bound(r) ==
  /\ pc[r] = "bind" /\ Give(r, r) /\ mapped' = r
  /\ UNCHANGED <<callers, session, user, disposed, aborted>>

Free(c) == c \notin disposed /\ user[c] = None

\* The receiver and the listener are in place and the child executes.
Begin(r) ==
  /\ pc[r] = "configure" /\ Free(child[r])
  /\ At(r, IF child[r] \in session THEN "prompt" ELSE "session")
  /\ user' = [user EXCEPT ![child[r]] = r]
  /\ UNCHANGED <<callers, child, mapped, session, ui, disposed, aborted>>

\* pi-child-generation-busy or pi-child-generation-disposed.
BeginRefused(r) ==
  /\ pc[r] = "configure" /\ ~Free(child[r]) /\ Reject(r)
  /\ UNCHANGED <<child, children, aborted>>

\* createAgentSession returned; the prompt starts.
Opened(r) ==
  /\ pc[r] = "session" /\ At(r, "prompt") /\ session' = session \union {child[r]}
  /\ UNCHANGED <<callers, child, mapped, user, ui, disposed, aborted>>

\* The child keeps its #running.
StillUsed(r) == user

Released(r) == [user EXCEPT ![child[r]] = None]

PromptEnds(r) ==
  /\ pc[r] = "prompt" /\ At(r, "flush") /\ user' = Released(r)
  /\ UNCHANGED <<callers, child, mapped, session, ui, disposed, aborted>>

\* flushCheckpoint returned the same checkpoint.
Flushed(r) ==
  /\ pc[r] = "flush" /\ Resolve(r) /\ UNCHANGED <<child, children, aborted>>

Throws(r) ==
  /\ pc[r] \in Awaits /\ Reject(r)
  /\ user' = IF pc[r] \in {"session", "prompt"} THEN Released(r) ELSE user
  /\ UNCHANGED <<child, mapped, session, ui, disposed, aborted>>

Execute(r) ==
  \/ Probed(r) \/ Bound(r) \/ Begin(r) \/ BeginRefused(r)
  \/ Opened(r) \/ PromptEnds(r) \/ Flushed(r) \/ Throws(r)

Next == HostStep \/ \E r \in Run : Execute(r)

Spec == Init /\ [][Next]_vars

-----------------------------------------------------------------------------
\* Whatever Stops, forces and wakes came before, no abort reaches the prompt
\* of a Run that nobody stopped.
AbortHitsItsRun == \A r \in aborted : host[r] # "executing"

\* A question that the SDK asks in an executing Run goes to that Run, whatever
\* Runs the child served before.
AsksUnderItsOwnRun ==
  \A r \in Run : pc[r] = "prompt" /\ host[r] = "executing" => ui[child[r]] = r

\* A Run the Host dispatched is refused only behind a Run of the same Session
\* that was stopped or forced and whose prompt still runs, never by what an
\* ended Run or a closed Session left behind.
RefusedOnlyBehindStopped ==
  [][\A r \in Run : host[r] = "executing" /\ BeginRefused(r) =>
       \E q \in Run \ {r} : child[q] = child[r] /\ pc[q] \in {"session", "prompt"} /\ host[q] # "executing"]_vars

\* SPEC.md:210: an accepted Stop requests a cooperative abort.
StopHeard == \A r \in Run : host[r] = "cancelling" /\ pc[r] = "prompt" => r \in aborted

=============================================================================
