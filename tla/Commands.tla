------------------------------ MODULE Commands ------------------------------
(***************************************************************************)
(* A command of the PWA from the composer to the Host and back: the        *)
(* outcome the store shows, the Client's durable command journal, the send *)
(* over the control socket, the Host's handlers with their receipts, and   *)
(* recoverAuthority, which replays what is uncertain.                      *)
(*                                                                         *)
(* A Submit leaves a receipt whichever way it is decided (run.submit and   *)
(* run.steer), a Stop only when it is accepted (run.stop), a Release none  *)
(* (run.release, run.cancel, interaction.resolve).  A command waits with a *)
(* Caller: itself for its first send, a Recovery for a replay.             *)
(***************************************************************************)
EXTENDS Naturals, Sequences, FiniteSets, SequencesExt

CONSTANTS Submits, Stops, Releases, \* the commands, by how the Host receipts them
          MaxIssued,                \* how many of them are issued
          Recoveries,               \* the runs of recoverAuthority
          MaxMishaps                \* drops, reloads and journal failures together

ASSUME CommandsAssumption ==
  /\ MaxMishaps \in Nat /\ MaxIssued \in Nat
  /\ Submits \cap Stops = {} /\ Submits \cap Releases = {} /\ Stops \cap Releases = {}
  /\ (Submits \union Stops \union Releases) \cap Recoveries = {}

Commands == Submits \union Stops \union Releases
Callers == Commands \union Recoveries

VARIABLES
  phase,        \* command -> what the store shows of it
  outcomes,     \* commandOutcomes: the commands with an outcome on show
  composer,     \* composerCommand: the last command issued, <<>> or <<command>>
  current,      \* isSessionCurrent
  journal,      \* command -> its state in the durable journal
  step,         \* caller -> where it waits
  serving,      \* recovery -> the command it replays
  result,       \* caller -> the outcome it was given
  todo,         \* recovery -> the uncertain commands it captured and has to replay
  found,        \* recovery -> command -> what its replay came to
  up,           \* the control socket is open and synchronized
  requests,     \* commands on the socket, oldest first
  late,         \* commands the Host has received on sockets that are gone
  answers,      \* command outcomes on the socket, oldest first
  receipt,      \* command -> the outcome in command_receipts
  effects,      \* command -> how often the Host made its change
  admits,       \* command -> its precondition holds at the Host
  mishaps

store == <<phase, outcomes, composer, current>>
callers == <<step, serving, result, todo, found>>
wire == <<up, requests, late, answers>>
host == <<receipt, effects, admits>>
vars == <<store, journal, callers, wire, host, mishaps>>

Decided == {"accepted", "rejected"}
Phases == {"none", "pending", "accepted", "rejected", "uncertain", "retired", "forgotten"}
Ranks == <<"none", "reserved", "sent", "uncertain", "terminal", "reconciled">>
Rank(state) == CHOOSE i \in DOMAIN Ranks : Ranks[i] = state
Subscribed == {"opening", "waiting"}

TypeOK ==
  /\ phase \in [Commands -> Phases]
  /\ outcomes \subseteq Commands /\ composer \in {<<>>} \union {<<c>> : c \in Commands}
  /\ current \in BOOLEAN /\ up \in BOOLEAN
  /\ journal \in [Commands -> Range(Ranks)]
  /\ step \in [Callers -> {"idle", "reserve", "mark", "opening", "waiting", "record",
                           "reading", "look", "done"}]
  /\ serving \in [Recoveries -> {<<>>} \union {<<c>> : c \in Commands}]
  /\ result \in [Callers -> Decided \union {"none", "uncertain"}]
  /\ todo \in [Recoveries -> SUBSET Commands]
  /\ found \in [Recoveries -> [Commands -> Decided \union {"none", "indeterminate"}]]
  /\ requests \in Seq(Commands) /\ late \in Seq(Commands)
  /\ answers \in Seq(Commands \X Decided)
  /\ receipt \in [Commands -> Decided \union {"none"}]
  /\ effects \in [Commands -> Nat] /\ admits \in [Commands -> BOOLEAN]
  /\ mishaps \in 0..MaxMishaps

Nothing == [c \in Commands |-> "none"]

Init ==
  /\ phase = [c \in Commands |-> "none"] /\ outcomes = {} /\ composer = <<>>
  /\ current = TRUE
  /\ journal = [c \in Commands |-> "none"]
  /\ step = [a \in Callers |-> "idle"] /\ result = [a \in Callers |-> "none"]
  /\ serving = [r \in Recoveries |-> <<>>] /\ todo = [r \in Recoveries |-> {}]
  /\ found = [r \in Recoveries |-> Nothing]
  /\ up = TRUE /\ requests = <<>> /\ late = <<>> /\ answers = <<>>
  /\ receipt = [c \in Commands |-> "none"] /\ effects = [c \in Commands |-> 0]
  /\ admits = [c \in Commands |-> FALSE]
  /\ mishaps = 0

\* These callers are over, and what they held is garbage.
End(some) ==
  /\ step' = [a \in Callers |-> IF a \in some THEN "done" ELSE step[a]]
  /\ result' = [a \in Callers |-> IF a \in some THEN "none" ELSE result[a]]
  /\ serving' = [r \in Recoveries |-> IF r \in some THEN <<>> ELSE serving[r]]
  /\ todo' = [r \in Recoveries |-> IF r \in some THEN {} ELSE todo[r]]
  /\ found' = [r \in Recoveries |-> IF r \in some THEN Nothing ELSE found[r]]

Mishap == mishaps < MaxMishaps /\ mishaps' = mishaps + 1

-----------------------------------------------------------------------------
(* The composer and the journal in front of the adapter. *)

\* Only submitComposer refuses while a command is pending.
ComposerFree(c) == c \in Submits => \A d \in Range(composer) : phase[d] # "pending"

\* The Host's precondition for c holds when it is issued, or does not.
Issue(c) ==
  /\ phase[c] = "none" /\ current /\ ComposerFree(c)
  /\ Cardinality({d \in Commands : phase[d] # "none"}) < MaxIssued
  /\ phase' = [phase EXCEPT ![c] = "pending"] /\ composer' = <<c>>
  /\ step' = [step EXCEPT ![c] = "reserve"]
  /\ \E holds \in BOOLEAN : admits' = [admits EXCEPT ![c] = holds]
  /\ UNCHANGED <<outcomes, current, journal, serving, result, todo, found, wire, receipt, effects, mishaps>>

Reserve(c) ==
  /\ step[c] = "reserve"
  /\ journal' = [journal EXCEPT ![c] = "reserved"]
  /\ step' = [step EXCEPT ![c] = "mark"]
  /\ UNCHANGED <<store, serving, result, todo, found, wire, host, mishaps>>

\* connect: the caller subscribes, and the command leaves in the next
\* microtask, or with the first host snapshot of the next socket.
Connecting(a, c) ==
  /\ requests' = IF up THEN Append(requests, c) ELSE requests
  /\ step' = [step EXCEPT ![a] = IF up THEN "waiting" ELSE "opening"]

MarkSent(c) ==
  /\ step[c] = "mark"
  /\ journal' = [journal EXCEPT ![c] = "sent"]
  /\ Connecting(c, c)
  /\ UNCHANGED <<store, serving, result, todo, found, up, late, answers, host, mishaps>>

\* The journal's transaction fails: submitComposer has no catch, so the
\* command stays pending.
JournalFails(c) ==
  /\ Mishap /\ step[c] \in {"reserve", "mark", "record"}
  /\ step' = [step EXCEPT ![c] = "done"] /\ result' = [result EXCEPT ![c] = "none"]
  /\ IF step[c] = "record"
       THEN \E j \in {journal[c], "uncertain"} : journal' = [journal EXCEPT ![c] = j]
       ELSE UNCHANGED journal
  /\ UNCHANGED <<store, serving, todo, found, wire, host>>

\* A lost answer is shown as a rejection.
ShownLostAsRejected(c) == IF result[c] = "uncertain" THEN "rejected" ELSE result[c]

\* commandState: the result of the first send is what is shown.
Shown(c) == result[c]

Show(c) ==
  /\ step[c] = "record"
  /\ journal' = [journal EXCEPT ![c] = IF result[c] = "uncertain" THEN "uncertain" ELSE "terminal"]
  /\ phase' = [phase EXCEPT ![c] = Shown(c)] /\ composer' = <<c>>
  /\ outcomes' = outcomes \union {c}
  /\ step' = [step EXCEPT ![c] = "done"] /\ result' = [result EXCEPT ![c] = "none"]
  /\ UNCHANGED <<current, serving, todo, found, wire, host, mishaps>>

-----------------------------------------------------------------------------
(* sendRunCommand over the control connection. *)

Sends(a) == IF a \in Recoveries THEN serving[a] ELSE <<a>>

Transmit(a) ==
  /\ step[a] = "opening" /\ up
  /\ requests' = requests \o Sends(a)
  /\ step' = [step EXCEPT ![a] = "waiting"]
  /\ UNCHANGED <<store, journal, serving, result, todo, found, up, late, answers, host, mishaps>>

\* finish: those who wait for the command get the outcome.
Finish(some, outcome) ==
  /\ result' = [a \in Callers |-> IF a \in some THEN outcome ELSE result[a]]
  /\ step' = [a \in Callers |-> IF a \in some THEN "record" ELSE step[a]]

Waiting(c) == {a \in Callers : step[a] \in Subscribed /\ Sends(a) = <<c>>}

Deliver ==
  /\ answers # <<>>
  /\ Finish(Waiting(Head(answers)[1]), Head(answers)[2])
  /\ answers' = Tail(answers)
  /\ UNCHANGED <<store, journal, serving, todo, found, up, requests, late, host, mishaps>>

\* The timer is cleared once the command was sent.
TimeoutBeforeSend(a) ==
  /\ step[a] = "opening"
  /\ Finish({a}, "uncertain")
  /\ UNCHANGED <<store, journal, serving, todo, found, wire, host, mishaps>>

Timeout(a) ==
  /\ step[a] \in Subscribed
  /\ Finish({a}, "uncertain")
  /\ UNCHANGED <<store, journal, serving, todo, found, wire, host, mishaps>>

\* The socket closes: every subscriber is told, the status is reconnecting.
\* What the Host has received already it may still handle.
Drop ==
  /\ up /\ Mishap
  /\ \E n \in 0..Len(requests) : late' = late \o SubSeq(requests, 1, n)
  /\ up' = FALSE /\ requests' = <<>> /\ answers' = <<>>
  /\ current' = FALSE
  /\ result' = [a \in Callers |-> IF step[a] \in Subscribed THEN "uncertain" ELSE result[a]]
  /\ step' = [a \in Callers |-> CASE step[a] \in Subscribed -> "record"
                                  [] step[a] = "reading" -> "done"
                                  [] OTHER -> step[a]]
  /\ UNCHANGED <<phase, outcomes, composer, journal, serving, todo, found, host>>

Connect ==
  /\ ~up /\ up' = TRUE
  /\ UNCHANGED <<store, journal, callers, requests, late, answers, host, mishaps>>

\* A timeline change retires the outcomes that wait for their projection.
Project ==
  /\ up /\ \E c \in Commands : phase[c] = "accepted"
  /\ phase' = [c \in Commands |-> IF phase[c] = "accepted" THEN "retired" ELSE phase[c]]
  /\ outcomes' = {c \in outcomes : phase[c] # "accepted"}
  /\ UNCHANGED <<composer, current, journal, callers, wire, host, mishaps>>

\* The page is loaded again: only the journal stays, and nobody reads it.
Reload ==
  /\ Mishap
  /\ phase' = [c \in Commands |-> IF phase[c] = "none" THEN "none" ELSE "forgotten"]
  /\ outcomes' = {} /\ composer' = <<>> /\ current' = TRUE
  /\ End({a \in Callers : step[a] # "idle"})
  /\ \E n \in 0..Len(requests) : late' = late \o SubSeq(requests, 1, n)
  /\ up' = TRUE /\ requests' = <<>> /\ answers' = <<>>
  /\ UNCHANGED <<journal, host>>

-----------------------------------------------------------------------------
(* recoverAuthority: on visibility, online, or a connection that is current
   again; two of them may run at the same time. *)

StartRecovery(r) ==
  /\ step[r] = "idle"
  /\ step' = [step EXCEPT ![r] = "reading"] /\ current' = FALSE
  /\ UNCHANGED <<phase, outcomes, composer, journal, serving, result, todo, found, wire, host, mishaps>>

ReadDone(r) ==
  /\ step[r] = "reading" /\ up
  /\ todo' = [todo EXCEPT ![r] = {c \in outcomes : phase[c] = "uncertain"}]
  /\ step' = [step EXCEPT ![r] = "look"]
  /\ UNCHANGED <<store, journal, serving, result, found, wire, host, mishaps>>

\* reconcileCommand finds no unresolved entry.  The order of the replays is
\* left open.
LookMisses(r, c) ==
  /\ step[r] = "look" /\ c \in todo[r] /\ journal[c] = "reconciled"
  /\ found' = [found EXCEPT ![r][c] = "indeterminate"]
  /\ todo' = [todo EXCEPT ![r] = @ \ {c}]
  /\ UNCHANGED <<store, journal, step, serving, result, wire, host, mishaps>>

LookFinds(r, c) ==
  /\ step[r] = "look" /\ c \in todo[r] /\ journal[c] # "reconciled"
  /\ serving' = [serving EXCEPT ![r] = <<c>>]
  /\ Connecting(r, c)
  /\ UNCHANGED <<store, journal, result, todo, found, up, late, answers, host, mishaps>>

Replayed(r) == IF result[r] = "uncertain" THEN "indeterminate" ELSE result[r]
Reconciled(r) == IF result[r] = "uncertain" THEN "uncertain" ELSE "reconciled"

RecordReplay(r) ==
  /\ step[r] = "record"
  /\ LET c == serving[r][1] IN
       /\ Rank(Reconciled(r)) >= Rank(journal[c])
       /\ journal' = [journal EXCEPT ![c] = Reconciled(r)]
       /\ found' = [found EXCEPT ![r][c] = Replayed(r)]
       /\ todo' = [todo EXCEPT ![r] = @ \ {c}]
  /\ serving' = [serving EXCEPT ![r] = <<>>]
  /\ step' = [step EXCEPT ![r] = "look"] /\ result' = [result EXCEPT ![r] = "none"]
  /\ UNCHANGED <<store, wire, host, mishaps>>

\* The journal cannot move backward: the recovery ends offline, and what it
\* had found is dropped.
ReplayFails(r) ==
  /\ step[r] = "record" /\ Rank(Reconciled(r)) < Rank(journal[serving[r][1]])
  /\ current' = FALSE /\ End({r})
  /\ UNCHANGED <<phase, outcomes, composer, journal, wire, host, mishaps>>

\* A replay that found nothing counts as accepted.
SettledTrusting(outcome) == IF outcome = "rejected" THEN "rejected" ELSE "accepted"

\* A replay that came to nothing certain is shown as a rejection.
Settled(outcome) == IF outcome = "accepted" THEN "accepted" ELSE "rejected"

FinishRecovery(r) ==
  /\ step[r] = "look" /\ todo[r] = {}
  /\ phase' = [c \in Commands |->
       IF c \in outcomes /\ found[r][c] # "none" THEN Settled(found[r][c]) ELSE phase[c]]
  /\ current' = TRUE /\ End({r})
  /\ UNCHANGED <<outcomes, composer, journal, wire, host, mishaps>>

-----------------------------------------------------------------------------
(* The Host. *)

\* The handler does not look for a receipt.
RecordedIgnored(c) == "none"

\* loadCommandReceipt: what a handler that keeps receipts finds first.
Recorded(c) == IF c \in Releases THEN "none" ELSE receipt[c]

\* handleRunQueueAction: beforeCommit may refuse, and no receipt is looked up.
QueueAction(c, refused) == IF ~refused /\ admits[c] THEN "accepted" ELSE "rejected"

\* The handlers that keep receipts: storage protection or beforeCommit may
\* refuse before the store is asked.
Decision(c, refused) ==
  IF c \in Releases \/ Recorded(c) = "none" THEN QueueAction(c, refused)
  ELSE IF refused THEN "rejected" ELSE Recorded(c)

\* The change and its receipt are one transaction.  A Stop or a Release takes
\* away its own precondition, a Submit does not.
Perform(c, refused) ==
  LET fresh == ~refused /\ Recorded(c) = "none"
      outcome == Decision(c, refused)
  IN /\ receipt' = IF fresh /\ (c \in Submits \/ (c \in Stops /\ outcome = "accepted"))
                     THEN [receipt EXCEPT ![c] = outcome] ELSE receipt
     /\ IF fresh /\ outcome = "accepted"
          THEN /\ effects' = [effects EXCEPT ![c] = @ + 1]
               /\ admits' = [admits EXCEPT ![c] = c \in Submits]
          ELSE UNCHANGED <<effects, admits>>

Handle ==
  /\ requests # <<>>
  /\ \E refused \in BOOLEAN :
       /\ Perform(Head(requests), refused)
       /\ answers' = Append(answers, <<Head(requests), Decision(Head(requests), refused)>>)
  /\ requests' = Tail(requests)
  /\ UNCHANGED <<store, journal, callers, up, late, mishaps>>

HandleLate ==
  /\ late # <<>>
  /\ \E refused \in BOOLEAN : Perform(Head(late), refused)
  /\ late' = Tail(late)
  /\ UNCHANGED <<store, journal, callers, up, requests, answers, mishaps>>

\* Another Client, or the Run itself, moves the target on.
TargetMoves(c) ==
  /\ admits[c] /\ admits' = [admits EXCEPT ![c] = FALSE]
  /\ UNCHANGED <<store, journal, callers, wire, receipt, effects, mishaps>>

-----------------------------------------------------------------------------
CommandNext(c) == Issue(c) \/ Reserve(c) \/ MarkSent(c) \/ JournalFails(c) \/ Show(c) \/ TargetMoves(c)
RecoveryNext(r) ==
  \/ StartRecovery(r) \/ ReadDone(r) \/ \E c \in Commands : LookMisses(r, c) \/ LookFinds(r, c)
  \/ RecordReplay(r) \/ ReplayFails(r) \/ FinishRecovery(r)

Next ==
  \/ \E c \in Commands : CommandNext(c)
  \/ \E r \in Recoveries : RecoveryNext(r)
  \/ \E a \in Callers : Transmit(a) \/ Timeout(a)
  \/ Deliver \/ Drop \/ Connect \/ Project \/ Reload \/ Handle \/ HandleLate

\* The browser runs the journal's transactions and the ten-second timers.
Spec ==
  /\ Init /\ [][Next]_vars
  /\ \A c \in Commands : WF_vars(Reserve(c)) /\ WF_vars(MarkSent(c)) /\ WF_vars(Show(c))
                         /\ WF_vars(Timeout(c))

-----------------------------------------------------------------------------
(* What the Client and the Host promise of a command. *)

\* SPEC 8.6: a command that is sent again by a recovery, or handled from a
\* socket that is gone, takes effect once at most (loadCommandReceipt).
AtMostOnce == \A c \in Commands : effects[c] <= 1

\* The journal holds a command as sent before the Host can see it, so that an
\* effect never is without the envelope that reconciles it (journalHostAdapter).
JournalledFirst ==
  \A c \in Commands :
    c \in Range(requests) \union Range(late) \/ effects[c] > 0 => Rank(journal[c]) >= Rank("sent")

\* What the store shows as accepted the Host has done, through timeouts, lost
\* answers and overlapping recoveries (commandState, recoverAuthority).
AcceptedIsTrue == \A c \in Commands : phase[c] \in {"accepted", "retired"} => effects[c] = 1

\* A command that its first send shows as rejected made no change; the replays
\* of a recovery do not keep this promise.
FirstRejectionIsTrue ==
  [][\A c \in Commands : phase[c] = "pending" /\ phase'[c] = "rejected" => effects[c] = 0]_vars

\* Every command leaves its pending state, whatever the socket and the Host do,
\* unless the journal itself fails (the timer of connect).
PendingSettles ==
  \A c \in Commands : phase[c] = "pending" ~> (phase[c] # "pending" \/ step[c] = "done")

\* SPEC.md:334 "Retrying an identical command returns the recorded outcome
\* without re-execution": the answer to a command already done is accepted.
RetryReturnsOutcome ==
  [][\A c \in Commands :
       effects[c] = 1 /\ Len(answers') > Len(answers) /\ Last(answers')[1] = c
         => Last(answers')[2] = "accepted"]_vars

=============================================================================
