---------------------------- MODULE WorkerDuplex ----------------------------
(***************************************************************************)
(* The duplex between the Host and one generation of a Session's worker    *)
(* process: SessionWorkerTransport and SessionWorkerProtocol on both ends, *)
(* SessionGenerationLifecycle on the Host's, ExactPiWorkerEndpoint with an *)
(* ExactPiChild and the PiCheckpointStore in the worker.                   *)
(*                                                                         *)
(* Each direction is an ordered stream of frames.  The worker handles its  *)
(* frames one after the other (#work), a stop for as long as Pi takes to   *)
(* become idle, while the Run it executes goes on beside them.  The Host   *)
(* around the lifecycle is not in src/ and external: it applies a lifecycle*)
(* operation before it sends a command and for each frame it receives,     *)
(* fails the generation when one throws, and ignores a fault that names no *)
(* Run.  It sends a stop without asking the lifecycle, which refuses every *)
(* stop because the endpoint does not announce "runtime.cancel".           *)
(***************************************************************************)
EXTENDS Naturals, Sequences, SequencesExt

CONSTANTS MaxExecutes, \* bound: Runs the Host gives the generation
          MaxAsks,     \* bound: Interactions Pi requests
          MaxMishaps   \* bound: broken streams, lost workers, frames that
                       \* cannot be encoded, failed prompts

ASSUME DuplexAssumption == MaxExecutes \in Nat /\ MaxAsks \in Nat /\ MaxMishaps \in Nat

Runs == 1..MaxExecutes
Asks == 1..MaxAsks
Nil == 0

VARIABLES lifecycle,  \* the Host's SessionGenerationLifecycle
          outcome,    \* what the Host settled for each Run
          ask,        \* its Interactions
          asked,      \* Runs the Host has sent a stop for
          steered,    \* Runs it has sent steering for
          toWorker, toHost,  \* frames under way
          broken,     \* the stream has ended
          endpoint,   \* the ExactPiWorkerEndpoint and its child
          pending,    \* the endpoint's #interactions
          got,        \* what Pi's request was resolved with
          gap,        \* the endpoint has used a sequence number up for nothing
          chunks, manifests,  \* the checkpoint store, by the Run that wrote it
          mishaps

hostVars == <<lifecycle, outcome, ask, asked, steered>>
endpointVars == <<endpoint, pending, got, gap>>
store == <<chunks, manifests>>
duplexVars == <<hostVars, toWorker, toHost, broken, endpointVars, store, mishaps>>

DuplexTypeOK ==
  /\ lifecycle \in [ready : BOOLEAN, failed : BOOLEAN, run : Runs \cup {Nil}, used : SUBSET Runs]
  /\ outcome \in [Runs -> {"none", "completed", "cancelled", "failed", "interrupted"}]
  /\ ask \in [Asks -> {"none", "open", "applying", "responded", "withdrawn"}]
  /\ asked \subseteq lifecycle.used /\ steered \subseteq lifecycle.used
  /\ broken \in BOOLEAN /\ gap \in BOOLEAN
  /\ endpoint \in [up : BOOLEAN, bound : BOOLEAN, session : BOOLEAN, run : Runs \cup {Nil},
                 phase : {"none", "opening", "prompt", "publish"},
                 stop : BOOLEAN, aborting : BOOLEAN, asks : 0..MaxAsks, closing : BOOLEAN]
  /\ pending \subseteq Asks
  /\ got \in [Asks -> {"nothing", "default", "answer"}]
  /\ chunks \subseteq Runs /\ manifests \subseteq Runs
  /\ mishaps \in 0..MaxMishaps

Frame(type, run, i) == [type |-> type, run |-> run, ask |-> i, ordered |-> TRUE]

DuplexInit ==
  /\ lifecycle = [ready |-> FALSE, failed |-> FALSE, run |-> Nil, used |-> {}]
  /\ outcome = [r \in Runs |-> "none"]
  /\ ask = [i \in Asks |-> "none"] /\ asked = {} /\ steered = {}
  /\ toWorker = <<Frame("bootstrap", Nil, Nil)>> /\ toHost = <<>>
  /\ broken = FALSE
  /\ endpoint = [up |-> TRUE, bound |-> FALSE, session |-> FALSE, run |-> Nil, phase |-> "none",
               stop |-> FALSE, aborting |-> FALSE, asks |-> 0, closing |-> FALSE]
  /\ pending = {} /\ got = [i \in Asks |-> "nothing"] /\ gap = FALSE
  /\ chunks = {} /\ manifests = {} /\ mishaps = 0

Mishap == mishaps < MaxMishaps /\ mishaps' = mishaps + 1

-----------------------------------------------------------------------------
(* The Host: SessionGenerationLifecycle.                                   *)

Live == ~lifecycle.failed /\ ~broken
Tell(frame) == toWorker' = Append(toWorker, frame)

\* execute: never twice, never beside another Run.
HostExecute(r) ==
  /\ Live /\ lifecycle.ready /\ lifecycle.run = Nil /\ r \notin lifecycle.used
  /\ \A q \in 1..r - 1 : q \in lifecycle.used
  /\ lifecycle' = [lifecycle EXCEPT !.run = r, !.used = @ \cup {r}]
  /\ Tell(Frame("execute", r, Nil))
  /\ UNCHANGED <<outcome, ask, asked, steered, toHost, broken, endpointVars, store, mishaps>>

HostStop ==
  /\ Live /\ lifecycle.run \notin {Nil} \cup asked
  /\ asked' = asked \cup {lifecycle.run}
  /\ Tell(Frame("stop", lifecycle.run, Nil))
  /\ UNCHANGED <<lifecycle, outcome, ask, steered, toHost, broken, endpointVars, store, mishaps>>

HostSteer ==
  /\ Live /\ lifecycle.run \notin {Nil} \cup steered
  /\ steered' = steered \cup {lifecycle.run}
  /\ Tell(Frame("steer", lifecycle.run, Nil))
  /\ UNCHANGED <<lifecycle, outcome, ask, asked, toHost, broken, endpointVars, store, mishaps>>

\* What the Host answers: a value or a dismissal that fits the kind of the
\* request, or one that does not, such as every dismissal of a confirmation.
Answers == {"answer", "misfit"}

\* respondInteraction: whatever became of its Run, and whatever the answer is.
HostAnswer(i, answer) ==
  /\ Live /\ ask[i] = "open"
  /\ ask' = [ask EXCEPT ![i] = "applying"]
  /\ Tell(Frame(answer, Nil, i))
  /\ UNCHANGED <<lifecycle, outcome, asked, steered, toHost, broken, endpointVars, store, mishaps>>

\* fail: the Run is interrupted, never replayed, and its requests withdrawn.
Fail ==
  /\ lifecycle' = [lifecycle EXCEPT !.failed = TRUE, !.run = Nil]
  /\ outcome' = IF lifecycle.run = Nil THEN outcome
                ELSE [outcome EXCEPT ![lifecycle.run] = "interrupted"]
  /\ ask' = [i \in Asks |-> IF ask[i] \in {"open", "applying"} THEN "withdrawn" ELSE ask[i]]
  /\ broken' = TRUE
  /\ UNCHANGED <<asked, steered>>

Settle(r, what) ==
  /\ lifecycle' = [lifecycle EXCEPT !.run = Nil]
  /\ outcome' = [outcome EXCEPT ![r] = what]
  /\ UNCHANGED <<ask, asked, steered, broken>>

\* The frames the transport and the lifecycle take: the next sequence number,
\* and an operation that the state allows (#assertActive and the like).
Takes(frame) ==
  /\ frame.ordered
  /\ frame.type = "ready" => ~lifecycle.ready
  /\ frame.type \in {"request", "completed", "cancelled"} => frame.run = lifecycle.run
  /\ frame.type = "request" => ask[frame.ask] = "none"
  /\ frame.type = "applied" => ask[frame.ask] = "applying"
  /\ frame.type = "fault" => frame.run \in {Nil, lifecycle.run}

Take(frame) ==
  CASE frame.type = "ready" ->
         /\ lifecycle' = [lifecycle EXCEPT !.ready = TRUE]
         /\ UNCHANGED <<outcome, ask, asked, steered, broken>>
    [] frame.type = "request" ->
         /\ ask' = [ask EXCEPT ![frame.ask] = "open"]
         /\ UNCHANGED <<lifecycle, outcome, asked, steered, broken>>
    [] frame.type = "applied" ->
         /\ ask' = [ask EXCEPT ![frame.ask] = "responded"]
         /\ UNCHANGED <<lifecycle, outcome, asked, steered, broken>>
    [] frame.type \in {"completed", "cancelled"} -> Settle(frame.run, frame.type)
    [] frame.type = "fault" /\ frame.run # Nil -> Settle(frame.run, "failed")
    [] OTHER -> UNCHANGED <<hostVars, broken>>

HostReceive ==
  /\ ~lifecycle.failed /\ toHost # <<>>
  /\ toHost' = Tail(toHost)
  /\ IF Takes(Head(toHost)) THEN Take(Head(toHost)) ELSE Fail
  /\ UNCHANGED <<toWorker, endpointVars, store, mishaps>>

\* The Host has read what the stream brought before it ended.
HostDisconnected ==
  /\ ~lifecycle.failed /\ broken /\ toHost = <<>>
  /\ Fail
  /\ UNCHANGED <<toWorker, toHost, endpointVars, store, mishaps>>

-----------------------------------------------------------------------------
(* The worker: ExactPiWorkerEndpoint.                                      *)

\* #send numbers a frame before it encodes it; a closed transport throws.
Send(frames) ==
  /\ ~broken
  /\ toHost' = toHost \o [n \in DOMAIN frames |-> [frames[n] EXCEPT !.ordered = ~gap]]

\* #sendFault: nothing more once the endpoint closes.
Fault(frames) == IF endpoint.closing THEN UNCHANGED toHost ELSE Send(frames)

\* #work hands the endpoint a frame when the one before it is finished.
Handles(type) ==
  /\ endpoint.up /\ ~endpoint.aborting
  /\ toWorker # <<>> /\ Head(toWorker).type = type
  /\ toWorker' = Tail(toWorker)

Stale == Frame("fault", Nil, Nil)   \* what #accept throws names no Run

AcceptBootstrap ==
  /\ Handles("bootstrap")
  /\ endpoint' = [endpoint EXCEPT !.bound = TRUE]
  /\ Send(<<Frame("ready", Nil, Nil)>>)
  /\ UNCHANGED <<hostVars, broken, pending, got, gap, store, mishaps>>

\* Another Pi generation, or a binding that fails.
RefuseBootstrap ==
  /\ Handles("bootstrap") /\ Mishap
  /\ Fault(<<Stale>>)
  /\ UNCHANGED <<hostVars, broken, endpointVars, store>>

\* #assertActiveRun
Active(r) == endpoint.bound /\ endpoint.run = r

\* The child opens a session for its first Run and keeps it.
Started(r) ==
  [endpoint EXCEPT !.run = r, !.phase = IF endpoint.session THEN "prompt" ELSE "opening",
                 !.stop = FALSE]

AcceptExecute ==
  /\ Handles("execute")
  /\ IF endpoint.bound /\ endpoint.run = Nil
       THEN endpoint' = Started(Head(toWorker).run) /\ UNCHANGED toHost
       ELSE Fault(<<Stale>>) /\ UNCHANGED endpoint
  /\ UNCHANGED <<hostVars, broken, pending, got, gap, store, mishaps>>

\* #withdrawInteractions
Withdraw ==
  /\ pending' = {}
  /\ got' = [i \in Asks |-> IF i \in pending THEN "default" ELSE got[i]]

\* A stop of the Run under way is remembered before the child is asked.  The
\* child aborts a prompt, and throws while its session opens and after the
\* prompt has ended.
AcceptStop ==
  /\ Handles("stop")
  /\ IF Active(Head(toWorker).run)
       THEN /\ Withdraw
            /\ endpoint' = [endpoint EXCEPT !.stop = TRUE, !.aborting = endpoint.phase = "prompt"]
            /\ IF endpoint.phase = "prompt" THEN UNCHANGED toHost ELSE Fault(<<Stale>>)
       ELSE Fault(<<Stale>>) /\ UNCHANGED <<endpoint, pending, got>>
  /\ UNCHANGED <<hostVars, broken, gap, store, mishaps>>

\* Steering goes to Pi while a prompt runs; the child throws before and after.
AcceptSteer ==
  /\ Handles("steer")
  /\ IF Active(Head(toWorker).run) /\ endpoint.phase = "prompt"
       THEN UNCHANGED toHost ELSE Fault(<<Stale>>)
  /\ UNCHANGED <<hostVars, broken, endpointVars, store, mishaps>>

\* The abort is over once the prompt is.
Aborted ==
  /\ endpoint.up /\ endpoint.aborting /\ endpoint.phase # "prompt"
  /\ endpoint' = [endpoint EXCEPT !.aborting = FALSE]
  /\ UNCHANGED <<hostVars, toWorker, toHost, broken, pending, got, gap, store, mishaps>>

\* Mutant of Resolvable: whatever was ever requested.
ResolvableAnyway(i) == i <= endpoint.asks

\* A request that is still waiting for its answer.
Resolvable(i) == i \in pending

AcceptAnswer ==
  /\ Handles("answer")
  /\ LET i == Head(toWorker).ask
     IN IF Resolvable(i)
          THEN /\ pending' = pending \ {i}
               /\ got' = [got EXCEPT ![i] = IF @ = "nothing" THEN "answer" ELSE @]
               /\ Send(<<Frame("applied", Nil, i)>>)
          ELSE Fault(<<Stale>>) /\ UNCHANGED <<pending, got>>
  /\ UNCHANGED <<hostVars, broken, endpoint, gap, store, mishaps>>

\* invalid-interaction-response, or a request that is not there either: the one
\* that is there goes on waiting, and the Host's Interaction goes on applying.
RefuseAnswer ==
  /\ Handles("misfit")
  /\ Fault(<<Stale>>)
  /\ UNCHANGED <<hostVars, broken, endpointVars, store, mishaps>>

-----------------------------------------------------------------------------
(* The worker: the Run under way (ExactPiWorkerEndpoint.#execute,          *)
(* ExactPiChild.execute), beside #work.                                    *)

Running(phase) == endpoint.up /\ endpoint.phase = phase
NoRun == [endpoint EXCEPT !.run = Nil, !.phase = "none", !.stop = FALSE]

SessionOpened ==
  /\ Running("opening")
  /\ endpoint' = [endpoint EXCEPT !.phase = "prompt", !.session = TRUE]
  /\ UNCHANGED <<hostVars, toWorker, toHost, broken, pending, got, gap, store, mishaps>>

\* An extension asks the user, while its session opens too.
PiAsks ==
  /\ endpoint.up /\ endpoint.phase \in {"opening", "prompt"} /\ endpoint.asks < MaxAsks
  /\ endpoint' = [endpoint EXCEPT !.asks = @ + 1]
  /\ pending' = pending \cup {endpoint'.asks}
  /\ Send(<<Frame("request", endpoint.run, endpoint'.asks)>>)
  /\ UNCHANGED <<hostVars, toWorker, broken, got, gap, store, mishaps>>

\* A fact the schema refuses, a tool's text of more than 100 000 characters:
\* its number is spent, and Pi's event handler throws.
Unencodable ==
  /\ Running("prompt") /\ ~broken /\ Mishap
  /\ gap' = TRUE
  /\ UNCHANGED <<hostVars, toWorker, toHost, broken, endpoint, pending, got, store>>

\* The prompt ends, whether or not every request of it was answered.
PromptOver ==
  /\ Running("prompt")
  /\ endpoint' = [endpoint EXCEPT !.phase = "publish"]
  /\ UNCHANGED <<hostVars, toWorker, toHost, broken, pending, got, gap, store, mishaps>>

\* PiCheckpointStore.publish: the chunks, then the manifest that names them.
PublishChunks ==
  /\ Running("publish") /\ endpoint.run \notin chunks
  /\ chunks' = chunks \cup {endpoint.run}
  /\ UNCHANGED <<hostVars, toWorker, toHost, broken, endpointVars, manifests, mishaps>>

PublishManifest ==
  /\ Running("publish") /\ endpoint.run \in chunks \ manifests
  /\ manifests' = manifests \cup {endpoint.run}
  /\ UNCHANGED <<hostVars, toWorker, toHost, broken, endpointVars, chunks, mishaps>>

\* Mutant of Proven: the bytes are enough.
ProvenByChunks(r) == r \in chunks

\* publish has returned.
Proven(r) == r \in manifests

Finish ==
  /\ Running("publish") /\ Proven(endpoint.run)
  /\ Send(<<Frame("checkpoint", endpoint.run, Nil),
            Frame(IF endpoint.stop THEN "cancelled" ELSE "completed", endpoint.run, Nil)>>)
  /\ endpoint' = NoRun
  /\ UNCHANGED <<hostVars, toWorker, broken, pending, got, gap, store, mishaps>>

\* Mutant of Failure: the outcome is sent as well.
FailureThenOutcome(r) == <<Frame("fault", r, Nil), Frame("completed", r, Nil)>>

\* #sendFault of the Run.
Failure(r) == <<Frame("fault", r, Nil)>>

\* The session does not open, the prompt or the publication throws.  The
\* requests of the Run stay where they are.
ExecutionFails ==
  /\ endpoint.up /\ endpoint.phase # "none" /\ Mishap
  /\ Fault(Failure(endpoint.run))
  /\ endpoint' = NoRun
  /\ UNCHANGED <<hostVars, toWorker, broken, pending, got, gap, store>>

\* The process is lost.  It ends itself too: at the first frame or heartbeat it
\* sends on a stream that has ended, and at a failure whose message is too
\* long for a fault's code.
WorkerLost ==
  /\ endpoint.up
  /\ IF broken THEN UNCHANGED mishaps ELSE Mishap
  /\ endpoint' = [endpoint EXCEPT !.up = FALSE]
  /\ broken' = TRUE
  /\ UNCHANGED <<hostVars, toWorker, toHost, pending, got, gap, store>>

\* close: the requests are withdrawn, then the frame being handled and the Run
\* being executed are waited for, and the stream ends.
CloseEndpoint ==
  /\ endpoint.up /\ ~endpoint.closing
  /\ endpoint' = [endpoint EXCEPT !.closing = TRUE]
  /\ Withdraw
  /\ UNCHANGED <<hostVars, toWorker, toHost, broken, gap, store, mishaps>>

Closed ==
  /\ endpoint.up /\ endpoint.closing /\ endpoint.run = Nil /\ ~endpoint.aborting
  /\ endpoint' = [endpoint EXCEPT !.up = FALSE]
  /\ broken' = TRUE
  /\ UNCHANGED <<hostVars, toWorker, toHost, pending, got, gap, store, mishaps>>

\* A part of the frames under way still gets through.
StreamBreaks ==
  /\ ~broken /\ Mishap
  /\ broken' = TRUE
  /\ toWorker' \in Prefixes(toWorker) /\ toHost' \in Prefixes(toHost)
  /\ UNCHANGED <<hostVars, endpointVars, store>>

HostActs ==
  \/ \E r \in Runs : HostExecute(r)
  \/ \E i \in Asks, answer \in Answers : HostAnswer(i, answer)
  \/ HostStop \/ HostSteer \/ HostReceive \/ HostDisconnected

WorkerActs ==
  \/ AcceptBootstrap \/ RefuseBootstrap \/ AcceptExecute
  \/ AcceptStop \/ AcceptSteer \/ AcceptAnswer \/ RefuseAnswer
  \/ Aborted \/ SessionOpened \/ PiAsks \/ Unencodable \/ PromptOver
  \/ PublishChunks \/ PublishManifest \/ Finish \/ ExecutionFails

DuplexNext == HostActs \/ WorkerActs \/ CloseEndpoint \/ Closed \/ WorkerLost \/ StreamBreaks

DuplexSpec == DuplexInit /\ [][DuplexNext]_duplexVars

-----------------------------------------------------------------------------
(* Properties.                                                             *)

\* The Host's lifecycle and the endpoint agree in every interleaving of
\* commands, answers, stops and outcomes that cross each other: as long as the
\* stream lasts and no frame was impossible to encode, the Host never refuses
\* one and so never fails a healthy generation.
LifecycleAccepts ==
  ~lifecycle.failed /\ ~gap /\ toHost # <<>> => Takes(Head(toHost))

\* What the Host settles as completed or cancelled has its whole checkpoint on
\* disk, whenever the worker is lost, and a Run is cancelled only if the Host
\* had asked to stop that very Run.
OutcomesAreProven ==
  \A r \in Runs :
    /\ outcome[r] \in {"completed", "cancelled"} => r \in chunks \cap manifests
    /\ outcome[r] = "cancelled" => r \in asked

\* SPEC.md:251: "responded - the exact worker acknowledged consuming the
\* submitted value": never one that a stop had withdrawn before.
RespondedWasConsumed == \A i \in Asks : ask[i] = "responded" => got[i] = "answer"

\* SPEC.md:254: "withdrawn - Pi or the Host stopped awaiting the response
\* because of abort, applicable Run termination, Stop, ...".  settle leaves
\* the requests of its Run open, and respondInteraction still takes them.
SettledWithdraws ==
  \A i \in Asks : ask[i] \in {"open", "applying"} => lifecycle.run # Nil
=============================================================================
