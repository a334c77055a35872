------------------------------ MODULE ChangeLog ------------------------------
(***************************************************************************)
(* The Host's synchronization sequence, its log of changes and the read    *)
(* state of each Session, as packages/host/src/store.ts commits them.  One *)
(* action is one SQLite transaction.  What a Run is doing belongs to       *)
(* SessionRuns; here only the number of unsettled Runs of a Session counts.*)
(***************************************************************************)
EXTENDS Integers

CONSTANTS
  Sessions,          \* Session ids the Host may mint
  Retention,         \* SYNCHRONIZATION_CHANGE_RETENTION_MS
  ClockMayStepBack,  \* whether the wall clock of the machine may be set back
  MaxSeq, MaxTimeline, MaxRuns, MaxClock, MaxEpochs   \* bounds

ASSUME ChangeLogAssumption ==
  /\ Retention \in Nat
  /\ ClockMayStepBack \in BOOLEAN
  /\ MaxTimeline \in Nat /\ MaxRuns \in Nat
  /\ MaxSeq \in Nat \ {0} /\ MaxClock \in Nat \ {0} /\ MaxEpochs \in Nat \ {0}

VARIABLES
  epoch, seq,  \* row of table host
  log,         \* table synchronization_changes
  session,     \* table sessions; meta 0: not created, milestone 0: NULL
  runs,        \* number of Runs of each Session that are not terminal
  asking,      \* Sessions with an unresolved interaction
  clock,       \* adapters.clock.now()
  committed    \* history: every row that was ever in the log

vars == <<epoch, seq, log, session, runs, asking, clock, committed>>
work == <<runs, asking>>

Types == {"created", "forked", "renamed", "residency", "availability", "read"}
ReadStates == [rev : Nat, through : Nat, unread : BOOLEAN]
Rows == [seq : Nat, at : Nat, type : Types, of : Sessions, meta : Nat, read : ReadStates]
Summaries == [meta : Nat, residency : {"sleeping", "resident"},
              availability : {"available", "archived"},
              timeline : Nat, through : Nat, milestone : Nat, rev : Nat]

-----------------------------------------------------------------------------
Absent == [meta |-> 0, residency |-> "sleeping", availability |-> "available",
           timeline |-> 0, through |-> 0, milestone |-> 0, rev |-> 0]
Exists(s) == session[s].meta # 0
Fresh(k, m) == [meta |-> 1, residency |-> "sleeping", availability |-> "available",
                timeline |-> k, through |-> k, milestone |-> m, rev |-> 1]

Unread(c) == c.milestone > c.through
ReadState(c) == [rev |-> c.rev, through |-> c.through, unread |-> Unread(c)]
Row(type, s, c, n) == [seq |-> n, at |-> clock, type |-> type, of |-> s,
                       meta |-> c.meta, read |-> ReadState(c)]

\* sessionHasActiveWork
Active(s) == runs[s] > 0 \/ s \in asking

\* Mutant: the metadata change keeps its revision.
RevisedInPlace(c, availability, residency) ==
  [c EXCEPT !.availability = availability, !.residency = residency]
\* Metadata of a new revision, and a Timeline with one more.
Revised(c, availability, residency) ==
  [c EXCEPT !.meta = @ + 1, !.availability = availability, !.residency = residency]
Advanced(c) == [c EXCEPT !.timeline = @ + 1]
\* recordUnreadMilestone: only a change of the exposed status is a revision.
Milestone(c) ==
  IF Unread(c) THEN [c EXCEPT !.milestone = c.timeline]
  ELSE [c EXCEPT !.milestone = c.timeline, !.rev = @ + 1]

\* One transaction: the summary of s becomes c, the sequence n, and rows are logged.
Commit(s, c, n, rows) ==
  /\ n <= MaxSeq /\ c.timeline <= MaxTimeline
  /\ session' = [session EXCEPT ![s] = c]
  /\ seq' = n
  /\ log' = log \cup rows
  /\ committed' = committed \cup rows
  /\ UNCHANGED <<epoch, clock>>
Announce(s, c, type) == Commit(s, c, seq + 1, {Row(type, s, c, seq + 1)})

Init ==
  /\ epoch = 1 /\ seq = 1 /\ log = {} /\ committed = {}
  /\ session = [s \in Sessions |-> Absent]
  /\ runs = [s \in Sessions |-> 0] /\ asking = {}
  /\ clock = 1

-----------------------------------------------------------------------------
CreateSession(s) ==
  /\ ~Exists(s)
  /\ Announce(s, Fresh(1, 0), "created")
  /\ UNCHANGED work

\* The fork point is the (k-1)-th entry of p, the response of a settled Run, so
\* p had a milestone at k or later and its first entries are a prompt and a reply.
ForkSession(p, s, k) ==
  /\ Exists(p) /\ ~Exists(s)
  /\ 3 <= k /\ k <= session[p].milestone
  /\ Announce(s, Fresh(k, k), "forked")
  /\ UNCHANGED work

Rename(s) ==
  /\ Exists(s)
  /\ Announce(s, Revised(session[s], session[s].availability, session[s].residency), "renamed")
  /\ UNCHANGED work

Sleep(s) ==
  /\ Exists(s) /\ session[s].residency = "resident" /\ ~Active(s)
  /\ Announce(s, Revised(session[s], session[s].availability, "sleeping"), "residency")
  /\ UNCHANGED work

ChangeAvailability(s, a) ==
  /\ Exists(s) /\ session[s].availability # a
  /\ a = "archived" => ~Active(s)
  /\ Announce(s, Revised(session[s], a, "sleeping"), "availability")
  /\ UNCHANGED work

\* Neither the sequence nor the metadata revision moves.
SubmitRun(s) ==
  /\ Exists(s) /\ session[s].availability = "available" /\ runs[s] < MaxRuns
  /\ Commit(s, [Advanced(session[s]) EXCEPT !.residency = "resident"], seq, {})
  /\ runs' = [runs EXCEPT ![s] = @ + 1]
  /\ UNCHANGED asking

\* applyTimelineEvent and finalizeAssistant
Report(s) ==
  /\ runs[s] > 0
  /\ Commit(s, Advanced(session[s]), seq, {})
  /\ UNCHANGED work

\* acceptSteering and acceptStop take a sequence number but log no row.
SteerOrStop(s) ==
  /\ runs[s] > 0
  /\ Commit(s, Advanced(session[s]), seq + 1, {})
  /\ UNCHANGED work

\* The Session with its milestone recorded, and extra rowless sequence numbers.
Reach(s, extra) ==
  LET c == Advanced(session[s])
      d == Milestone(c)
  IN  IF Unread(c) THEN Commit(s, d, seq + extra, {})
      ELSE Commit(s, d, seq + 1 + extra, {Row("read", s, d, seq + 1)})

OpenInteraction(s) ==
  /\ runs[s] > 0 /\ s \notin asking
  /\ Reach(s, 0)
  /\ asking' = asking \cup {s}
  /\ UNCHANGED runs

CloseInteraction(s) ==
  /\ s \in asking
  /\ asking' = asking \ {s}
  /\ UNCHANGED <<epoch, seq, log, session, runs, clock, committed>>

SettleRun(s) ==
  /\ runs[s] > 0
  /\ Reach(s, 1)
  /\ runs' = [runs EXCEPT ![s] = @ - 1]
  /\ UNCHANGED asking

\* A Run that never executed ends without an entry, a milestone or a revision.
CancelQueuedRun(s) ==
  /\ runs[s] > 0
  /\ runs' = [runs EXCEPT ![s] = @ - 1]
  /\ UNCHANGED <<epoch, seq, log, session, asking, clock, committed>>

\* recoverWorkerLoss: the interactions of s are withdrawn and it is asleep.
LoseWorker(s) ==
  /\ session[s].residency = "resident"
  /\ session' = [session EXCEPT ![s].residency = "sleeping"]
  /\ asking' = asking \ {s}
  /\ UNCHANGED <<epoch, seq, log, runs, clock, committed>>

\* Mutant: the covered position is not looked at, so a no-op is a revision too.
MarkReadAgain(s, r) ==
  /\ Exists(s) /\ r <= session[s].timeline
  /\ Announce(s, [session[s] EXCEPT !.through = IF r > @ THEN r ELSE @, !.rev = @ + 1], "read")
  /\ UNCHANGED work
\* A position already covered or beyond the tail changes nothing.
MarkRead(s, r) ==
  /\ Exists(s) /\ session[s].through < r /\ r <= session[s].timeline
  /\ Announce(s, [session[s] EXCEPT !.through = r, !.rev = @ + 1], "read")
  /\ UNCHANGED work

Tick ==
  /\ clock' \in 1 .. MaxClock
  /\ ~ClockMayStepBack => clock' > clock
  /\ UNCHANGED <<epoch, seq, log, session, runs, asking, committed>>

\* The DELETE of runMaintenance on the log.
RunMaintenance ==
  /\ log' = {r \in log : r.at >= clock - Retention}
  /\ UNCHANGED <<epoch, seq, session, runs, asking, clock, committed>>

RotateSynchronizationEpoch ==
  /\ epoch < MaxEpochs /\ seq < MaxSeq
  /\ epoch' = epoch + 1 /\ seq' = seq + 1 /\ log' = {}
  /\ UNCHANGED <<session, runs, asking, clock, committed>>

SessionStep(s) ==
  \/ CreateSession(s)
  \/ \E p \in Sessions, k \in 1 .. MaxTimeline : ForkSession(p, s, k)
  \/ Rename(s)
  \/ Sleep(s)
  \/ \E a \in {"available", "archived"} : ChangeAvailability(s, a)
  \/ SubmitRun(s)
  \/ Report(s)
  \/ SteerOrStop(s)
  \/ OpenInteraction(s)
  \/ CloseInteraction(s)
  \/ SettleRun(s)
  \/ CancelQueuedRun(s)
  \/ LoseWorker(s)
  \/ \E r \in 1 .. MaxTimeline : MarkRead(s, r)

Next ==
  \/ \E s \in Sessions : SessionStep(s)
  \/ Tick
  \/ RunMaintenance
  \/ RotateSynchronizationEpoch

LogSpec == Init /\ [][Next]_vars

-----------------------------------------------------------------------------
\* Mutant: the gap before the earliest retained row is not looked for.
CoversAnyPast(n) == n <= seq
\* cursorBasis for a cursor of this epoch: nothing after n is known to be missing.
Covers(n) == n <= seq /\ (n = seq \/ \E r \in log : r.seq - 1 <= n)

\* changesAfter
ChangesAfter(n) == {r \in log : r.seq > n}

\* The read state of s as Clients see it, apart from its revision.
Exposed(s) == <<session[s].through, Unread(session[s])>>
-----------------------------------------------------------------------------
TypeOK ==
  /\ epoch \in 1 .. MaxEpochs /\ seq \in 1 .. MaxSeq /\ clock \in 1 .. MaxClock
  /\ log \subseteq Rows /\ committed \subseteq Rows
  /\ session \in [Sessions -> Summaries]
  /\ runs \in [Sessions -> 0 .. MaxRuns] /\ asking \subseteq Sessions

\* A cursor the Host accepts as resumable is answered with every change that was
\* committed after it, whatever maintenance has deleted and however often the
\* epoch was rotated: nobody is told "current" across a hole in the log.
ReplayIsComplete ==
  \A n \in 1 .. seq : Covers(n) => {r \in committed : r.seq > n} \subseteq ChangesAfter(n)

\* SPEC.md:362, "equal revisions must be byte-identical": a logged change with the
\* read-state revision the Session has now says exactly what the Session says now,
\* although settlements and openings move the milestone without a revision.
RevisionsAgree ==
  \A r \in committed :
     r.read.rev = session[r.of].rev => r.read = ReadState(session[r.of])

\* SPEC.md:352, the read-state revision "advances exactly when the exposed read
\* state changes": by one on such a step, and on no other.
ReadRevisionExact ==
  [][\A s \in Sessions : Exists(s) =>
        session'[s].rev = session[s].rev + (IF Exposed(s)' # Exposed(s) THEN 1 ELSE 0)]_vars

-----------------------------------------------------------------------------
KindOf(type) == IF type \in {"renamed", "read"} THEN type ELSE "summary"
Feed == INSTANCE ChangeFeed WITH
  log  <- {[seq |-> r.seq, kind |-> KindOf(r.type), of |-> r.of,
            meta |-> r.meta, rev |-> r.read.rev] : r \in log},
  fact <- [s \in Sessions |-> [meta |-> session[s].meta, rev |-> session[s].rev]]

\* The log keeps the promises of ChangeFeed, on which the synchronization of a
\* Client rests: every transaction is one step of it or none.
ImplementsFeed == Feed!FeedSpec
=============================================================================
