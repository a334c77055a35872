--------------------------- MODULE ChangeLogProofs ---------------------------
(***************************************************************************)
(* What ChangeLog promises for every number of Sessions and every bound,   *)
(* and that it implements ChangeFeed.                                      *)
(***************************************************************************)
EXTENDS ChangeLog, TLAPS

\* What holds of a Session's summary between transactions.
SummaryInv ==
  \A s \in Sessions :
     /\ session[s].through <= session[s].timeline
     /\ session[s].milestone <= session[s].timeline
     /\ Exists(s) => session[s].rev >= 1
     /\ ~Exists(s) => session[s].rev = 0 /\ session[s].residency = "sleeping"
     /\ runs[s] > 0 => Exists(s)

\* A logged read state is at most as new as the Session's, and equal if as new.
ReadInv ==
  \A r \in committed :
     /\ 1 <= r.read.rev /\ r.read.rev <= session[r.of].rev
     /\ r.read.rev = session[r.of].rev => r.read = ReadState(session[r.of])

\* Rows have sequence numbers of their own, all in the past.
RowsInv ==
  /\ log \subseteq committed
  /\ \A r \in committed : r.seq <= seq
  /\ \A r, c \in committed : r.seq = c.seq => r = c

\* The part that needs a clock that is never set back: what is gone is older
\* than whatever is left.
RetentionInv ==
  /\ \A r \in committed : r.at <= clock
  /\ \A r, c \in committed : r.seq < c.seq => r.at <= c.at
  /\ \A r \in log, c \in committed \ log : c.seq < r.seq

LogInv == TypeOK /\ SummaryInv /\ ReadInv /\ RowsInv

\* Clients see no difference between the read states of c and d.
SameExposure(c, d) == c.through = d.through /\ (Unread(c) <=> Unread(d))

\* What every transaction on s makes of its summary.
Sound(s, c) ==
  /\ c \in Summaries /\ c.meta >= 1
  /\ c.through <= c.timeline /\ c.milestone <= c.timeline
  /\ c.rev >= 1
  /\ Exists(s) => IF SameExposure(c, session[s]) THEN c.rev = session[s].rev
                  ELSE c.rev = session[s].rev + 1

\* Every transaction on s commits a sound summary, and logs nothing or one row.
Transaction(s) ==
  /\ \E c \in Summaries, n \in Nat, rows \in SUBSET Rows :
        /\ Sound(s, c) /\ Commit(s, c, n, rows)
        /\ \/ rows = {} /\ n >= seq
           \/ n >= seq + 1 /\ \E type \in Types : rows = {Row(type, s, c, seq + 1)}
  /\ runs' \in [Sessions -> 0 .. MaxRuns] /\ asking' \subseteq Sessions
  /\ \A t \in Sessions \ {s} : runs'[t] = runs[t]

-----------------------------------------------------------------------------
\* A row of a well-typed summary is well typed: recordSynchronizationChange.
LEMMA RowType ==
  ASSUME TypeOK, NEW s \in Sessions, NEW c \in Summaries, NEW n \in Nat, NEW type \in Types
  PROVE  Row(type, s, c, n) \in Rows
BY ChangeLogAssumption DEF TypeOK, Row, Rows, ReadState, ReadStates, Unread, Summaries

\* The invariant holds of a new Authority database.
LEMMA InitInv == Init => LogInv
BY ChangeLogAssumption DEF Init, LogInv, TypeOK, SummaryInv, ReadInv, RowsInv, Absent,
   Summaries, Rows, Exists

\* A transaction keeps types, summaries, read states and rows in order.
LEMMA TransactionInv ==
  ASSUME LogInv, NEW s \in Sessions, Transaction(s)
  PROVE  LogInv'
<1> USE ChangeLogAssumption
<1>1. PICK c \in Summaries, n \in Nat, rows \in SUBSET Rows :
         /\ Sound(s, c) /\ Commit(s, c, n, rows)
         /\ \/ rows = {} /\ n >= seq
            \/ n >= seq + 1 /\ \E type \in Types : rows = {Row(type, s, c, seq + 1)}
  BY DEF Transaction
<1>2. /\ session' = [session EXCEPT ![s] = c] /\ seq' = n /\ n <= MaxSeq
      /\ log' = log \cup rows /\ committed' = committed \cup rows
      /\ epoch' = epoch /\ clock' = clock
  BY <1>1 DEF Commit
<1>3. TypeOK'
  <2>1. seq' \in 1 .. MaxSeq
    BY <1>1, <1>2 DEF LogInv, TypeOK
  <2>2. session' \in [Sessions -> Summaries]
    BY <1>1, <1>2 DEF LogInv, TypeOK
  <2> QED BY <1>1, <1>2, <2>1, <2>2 DEF LogInv, TypeOK, Transaction
<1>4. \A t \in Sessions : session'[t] = IF t = s THEN c ELSE session[t]
  BY <1>2 DEF LogInv, TypeOK
<1>5. SummaryInv'
  BY <1>1, <1>4 DEF LogInv, SummaryInv, Sound, Exists, Transaction, TypeOK, Summaries
<1>6. \A r \in rows : r.of = s /\ r.seq = seq + 1 /\ r.read = ReadState(c) /\ r.read.rev = c.rev
  BY <1>1 DEF Row, ReadState
<1>7. \A r, q \in rows : r = q
  BY <1>1
<1>8. RowsInv'
  <2>1. \A r \in committed' : r.seq <= seq'
    BY <1>1, <1>2, <1>6 DEF LogInv, RowsInv, TypeOK, Rows
  <2>2. \A r, q \in committed' : r.seq = q.seq => r = q
    BY <1>2, <1>6, <1>7 DEF LogInv, RowsInv, TypeOK, Rows
  <2> QED BY <1>2, <2>1, <2>2 DEF LogInv, RowsInv
<1>9. ReadInv'
  <2> SUFFICES ASSUME NEW r \in committed'
               PROVE  /\ 1 <= r.read.rev /\ r.read.rev <= session'[r.of].rev
                      /\ r.read.rev = session'[r.of].rev => r.read = ReadState(session'[r.of])
    BY DEF ReadInv, ReadState, Unread
  <2>1. CASE r \in rows
    BY <2>1, <1>1, <1>4, <1>6 DEF Sound, Summaries
  <2>2. CASE r \in committed /\ r.of # s
    BY <2>2, <1>3, <1>4 DEF TypeOK, Rows, LogInv, ReadInv
  <2>3. CASE r \in committed /\ r.of = s
    <3>1. /\ 1 <= r.read.rev /\ r.read.rev <= session[s].rev
          /\ r.read.rev = session[s].rev => r.read = ReadState(session[s])
      BY <2>3 DEF LogInv, ReadInv
    <3>2. session[s] \in Summaries /\ r.read \in ReadStates
      BY <2>3 DEF LogInv, TypeOK, Rows
    <3>3. Exists(s)
      BY <3>1, <3>2 DEF LogInv, SummaryInv, Summaries, ReadStates
    <3>4. session[s].rev <= c.rev
      BY <1>1, <3>2, <3>3 DEF Sound, Summaries
    <3>5. c.rev = session[s].rev => ReadState(c) = ReadState(session[s])
      <4>1. c.rev = session[s].rev => SameExposure(c, session[s])
        BY <1>1, <3>2, <3>3 DEF Sound, Summaries
      <4>2. SameExposure(c, session[s]) =>
              c.through = session[s].through /\ Unread(c) = Unread(session[s])
        BY <1>1, <3>2 DEF SameExposure, Unread, Summaries
      <4> QED BY <4>1, <4>2 DEF ReadState
    <3> QED BY <1>1, <1>4, <2>3, <3>1, <3>2, <3>4, <3>5 DEF Summaries, ReadStates
  <2> QED BY <1>2, <2>1, <2>2, <2>3
<1> QED BY <1>3, <1>5, <1>8, <1>9 DEF LogInv
\* Announce commits one row at the next sequence number.
LEMMA AnnounceIsTransaction ==
  ASSUME LogInv, NEW s \in Sessions, NEW c, NEW type \in Types,
         Sound(s, c), Announce(s, c, type), UNCHANGED work
  PROVE  Transaction(s)
<1>1. seq \in Nat /\ seq + 1 \in Nat /\ c \in Summaries
  BY DEF LogInv, TypeOK, Sound
<1>2. {Row(type, s, c, seq + 1)} \in SUBSET Rows
  BY <1>1, RowType DEF LogInv
<1>3. runs' \in [Sessions -> 0 .. MaxRuns] /\ asking' \subseteq Sessions /\ runs' = runs
  BY DEF LogInv, TypeOK, work
<1> QED BY <1>1, <1>2, <1>3 DEF Transaction, Announce

\* A commit without a row may stay at the current sequence number.
LEMMA SilentIsTransaction ==
  ASSUME LogInv, NEW s \in Sessions, NEW c, NEW n \in Nat, n >= seq,
         Sound(s, c), Commit(s, c, n, {}),
         runs' \in [Sessions -> 0 .. MaxRuns], asking' \subseteq Sessions,
         \A t \in Sessions \ {s} : runs'[t] = runs[t]
  PROVE  Transaction(s)
<1>1. c \in Summaries /\ {} \in SUBSET Rows
  BY DEF Sound
<1> QED BY <1>1 DEF Transaction

\* recordUnreadMilestone moves the milestone to the tail and nothing else but,
\* when the Session was read, the read-state revision.
LEMMA MilestoneFields ==
  ASSUME NEW c \in Summaries
  PROVE  /\ Milestone(c) \in Summaries
         /\ Milestone(c).milestone = c.timeline
         /\ Milestone(c).timeline = c.timeline
         /\ Milestone(c).through = c.through
         /\ Milestone(c).meta = c.meta
         /\ Unread(c) => Milestone(c).rev = c.rev
         /\ ~Unread(c) => Milestone(c).rev = c.rev + 1
<1>1. CASE Unread(c)
  <2>1. Milestone(c) = [c EXCEPT !.milestone = c.timeline]
    BY <1>1 DEF Milestone
  <2> QED BY <1>1, <2>1 DEF Summaries
<1>2. CASE ~Unread(c)
  <2>1. Milestone(c) = [c EXCEPT !.milestone = c.timeline, !.rev = @ + 1]
    BY <1>2 DEF Milestone
  <2>2. /\ Milestone(c).milestone = c.timeline /\ Milestone(c).timeline = c.timeline
        /\ Milestone(c).through = c.through /\ Milestone(c).meta = c.meta
        /\ Milestone(c).rev = c.rev + 1
    BY <2>1 DEF Summaries
  <2>3. c.rev + 1 \in Nat /\ c.timeline \in Nat
    BY DEF Summaries
  <2>4. \A n, m \in Nat : [c EXCEPT !.milestone = n, !.rev = m] \in Summaries
    BY DEF Summaries
  <2>5. Milestone(c) \in Summaries
    BY <2>1, <2>3, <2>4
  <2> QED BY <1>2, <2>2, <2>5
<1> QED BY <1>1, <1>2

\* recordUnreadMilestone after a new entry: the read-state revision moves exactly
\* when an otherwise read Session becomes unread.
LEMMA ReachIsTransaction ==
  ASSUME LogInv, NEW s \in Sessions, NEW extra \in Nat, Exists(s), Reach(s, extra),
         runs' \in [Sessions -> 0 .. MaxRuns], asking' \subseteq Sessions,
         \A t \in Sessions \ {s} : runs'[t] = runs[t]
  PROVE  Transaction(s)
<1> DEFINE c == Advanced(session[s])
           d == Milestone(c)
<1>1. session[s] \in Summaries /\ seq \in Nat
  BY DEF LogInv, TypeOK
<1>2. Sound(s, d) /\ d \in Summaries
  <2>1. /\ session[s].through <= session[s].timeline
        /\ session[s].milestone <= session[s].timeline
        /\ session[s].rev >= 1 /\ session[s].meta >= 1
    BY <1>1 DEF LogInv, SummaryInv, Exists, Summaries
  <2>2. /\ c \in Summaries /\ c.timeline = session[s].timeline + 1
        /\ c.through = session[s].through /\ c.milestone = session[s].milestone
        /\ c.rev = session[s].rev /\ c.meta = session[s].meta
    BY <1>1 DEF Advanced, Summaries
  <2>3. /\ d \in Summaries /\ d.timeline = c.timeline /\ d.milestone = c.timeline
        /\ d.through = c.through /\ d.meta = c.meta
        /\ Unread(c) => d.rev = c.rev
        /\ ~Unread(c) => d.rev = c.rev + 1
    BY <2>2, MilestoneFields
  <2>4. Unread(d) /\ (Unread(c) <=> Unread(session[s]))
    BY <1>1, <2>1, <2>2, <2>3 DEF Unread, Summaries
  <2> HIDE DEF c, d
  <2>5. /\ d.meta >= 1 /\ d.through <= d.timeline /\ d.milestone <= d.timeline /\ d.rev >= 1
    BY <1>1, <2>1, <2>2, <2>3 DEF Summaries
  <2>6. IF SameExposure(d, session[s]) THEN d.rev = session[s].rev
        ELSE d.rev = session[s].rev + 1
    BY <2>2, <2>3, <2>4 DEF SameExposure
  <2> QED BY <2>3, <2>5, <2>6 DEF Sound
<1>3. CASE Unread(c)
  BY <1>1, <1>2, <1>3, SilentIsTransaction DEF Reach
<1>4. CASE ~Unread(c)
  <2>1. Commit(s, d, seq + 1 + extra, {Row("read", s, d, seq + 1)})
    BY <1>4 DEF Reach
  <2>2. {Row("read", s, d, seq + 1)} \in SUBSET Rows /\ "read" \in Types
    BY <1>1, <1>2, RowType DEF LogInv, Types
  <2>3. seq + 1 + extra \in Nat /\ seq + 1 + extra >= seq + 1
    BY <1>1
  <2> HIDE DEF d
  <2> QED BY <1>2, <2>1, <2>2, <2>3 DEF Transaction
<1> QED BY <1>3, <1>4
\* The summary of a new or forked Session is sound.
LEMMA FreshIsSound ==
  ASSUME NEW s \in Sessions, ~Exists(s), NEW k \in Nat \ {0}, NEW m \in 0 .. k
  PROVE  Sound(s, Fresh(k, m))
BY DEF Sound, Summaries, Fresh

\* A change of metadata, and an entry that is no milestone, leave the read state alone.
LEMMA SameReadIsSound ==
  ASSUME LogInv, NEW s \in Sessions, Exists(s), NEW c \in Summaries, c.meta >= 1,
         c.timeline >= session[s].timeline, c.through = session[s].through,
         c.milestone = session[s].milestone, c.rev = session[s].rev
  PROVE  Sound(s, c)
<1>1. session[s] \in Summaries /\ session[s].rev >= 1
      /\ session[s].through <= session[s].timeline
      /\ session[s].milestone <= session[s].timeline
  BY DEF LogInv, TypeOK, SummaryInv
<1>2. SameExposure(c, session[s])
  BY DEF SameExposure, Unread
<1> QED BY <1>1, <1>2 DEF Sound, Summaries

\* So is every change of metadata.
LEMMA RevisedIsSound ==
  ASSUME LogInv, NEW s \in Sessions, Exists(s),
         NEW a \in {"available", "archived"}, NEW z \in {"sleeping", "resident"}
  PROVE  Sound(s, Revised(session[s], a, z))
<1> DEFINE c == Revised(session[s], a, z)
<1>1. session[s] \in Summaries /\ session[s].meta + 1 \in Nat
  BY DEF LogInv, TypeOK, Summaries
<1>2. \A n \in Nat : [session[s] EXCEPT !.meta = n, !.availability = a, !.residency = z]
                       \in Summaries
  BY <1>1 DEF Summaries
<1>3. c \in Summaries
  BY <1>1, <1>2 DEF Revised
<1>4. /\ c.meta = session[s].meta + 1 /\ c.timeline = session[s].timeline
      /\ c.through = session[s].through /\ c.milestone = session[s].milestone
      /\ c.rev = session[s].rev
  BY <1>1 DEF Revised, Summaries
<1> HIDE DEF c
<1>5. Sound(s, c)
  BY <1>1, <1>3, <1>4, SameReadIsSound DEF Summaries
<1> QED BY <1>5 DEF c

\* An advanced read-through position is a new exposed state and one revision.
LEMMA ReadIsSound ==
  ASSUME LogInv, NEW s \in Sessions, Exists(s), NEW r \in Nat,
         session[s].through < r, r <= session[s].timeline
  PROVE  Sound(s, [session[s] EXCEPT !.through = r, !.rev = @ + 1])
<1> DEFINE c == [session[s] EXCEPT !.through = r, !.rev = @ + 1]
<1>1. session[s] \in Summaries /\ session[s].milestone <= session[s].timeline
      /\ session[s].meta >= 1 /\ session[s].rev + 1 \in Nat
  BY DEF LogInv, TypeOK, SummaryInv, Exists, Summaries
<1>2. c \in Summaries
  <2>1. \A n \in Nat : [session[s] EXCEPT !.through = r, !.rev = n] \in Summaries
    BY <1>1 DEF Summaries
  <2> QED BY <1>1, <2>1
<1>3. /\ c.meta = session[s].meta /\ c.timeline = session[s].timeline
      /\ c.through = r /\ c.milestone = session[s].milestone
      /\ c.rev = session[s].rev + 1
  BY <1>1 DEF Summaries
<1>4. ~SameExposure(c, session[s])
  BY <1>1, <1>3 DEF SameExposure, Summaries
<1>5. Sound(s, c)
  <2> HIDE DEF c
  <2> QED BY <1>1, <1>2, <1>3, <1>4 DEF Sound, Summaries
<1> QED BY <1>5

\* A step that commits no change: the log stays, and Runs and interactions only end.
Quiet(s) ==
  /\ UNCHANGED <<epoch, seq, log, clock, committed>>
  /\ session' = session \/ session' = [session EXCEPT ![s].residency = "sleeping"]
  /\ session' # session => session[s].residency = "resident"
  /\ runs' \in [Sessions -> 0 .. MaxRuns] /\ \A t \in Sessions : runs'[t] <= runs[t]
  /\ asking' \subseteq asking

\* Every step of a Session is a transaction or quiet.
LEMMA SessionStepKinds ==
  ASSUME LogInv, NEW s \in Sessions, SessionStep(s)
  PROVE  Transaction(s) \/ Quiet(s)
<1> USE ChangeLogAssumption
<1>1. /\ session[s] \in Summaries /\ seq \in Nat /\ seq + 1 \in Nat
      /\ runs \in [Sessions -> 0 .. MaxRuns] /\ asking \subseteq Sessions
  BY DEF LogInv, TypeOK
<1>3. runs[s] > 0 => Exists(s)
  BY DEF LogInv, SummaryInv
<1>a. CASE CreateSession(s)
  BY <1>a, FreshIsSound, AnnounceIsTransaction DEF CreateSession, Types
<1>b. ASSUME NEW p \in Sessions, NEW k \in 1 .. MaxTimeline, ForkSession(p, s, k)
      PROVE  Transaction(s)
  BY <1>b, FreshIsSound, AnnounceIsTransaction DEF ForkSession, Types
<1>c. CASE Rename(s)
  BY <1>1, <1>c, RevisedIsSound, AnnounceIsTransaction DEF Rename, Types, Summaries
<1>d. CASE Sleep(s)
  BY <1>1, <1>d, RevisedIsSound, AnnounceIsTransaction DEF Sleep, Types, Summaries
<1>e. ASSUME NEW a \in {"available", "archived"}, ChangeAvailability(s, a)
      PROVE  Transaction(s)
  BY <1>1, <1>e, RevisedIsSound, AnnounceIsTransaction DEF ChangeAvailability, Types
<1>f. CASE SubmitRun(s)
  <2> DEFINE c == Advanced(session[s])
             d == [c EXCEPT !.residency = "resident"]
  <2>1. c \in Summaries /\ c.meta = session[s].meta /\ c.rev = session[s].rev
        /\ c.timeline = session[s].timeline + 1 /\ c.through = session[s].through
        /\ c.milestone = session[s].milestone
    BY <1>1 DEF Advanced, Summaries
  <2> HIDE DEF c
  <2>2. d \in Summaries /\ d.meta = c.meta /\ d.rev = c.rev /\ d.timeline = c.timeline
        /\ d.through = c.through /\ d.milestone = c.milestone
    BY <2>1 DEF Summaries
  <2>3. Exists(s) /\ session[s].meta >= 1 /\ Commit(s, d, seq, {})
    BY <1>1, <1>f DEF SubmitRun, Exists, Summaries, c
  <2>4. Sound(s, d)
    <3> HIDE DEF d
    <3> QED BY <1>1, <2>1, <2>2, <2>3, SameReadIsSound DEF Summaries
  <2>5. /\ runs' \in [Sessions -> 0 .. MaxRuns] /\ asking' \subseteq Sessions
        /\ \A t \in Sessions \ {s} : runs'[t] = runs[t]
    BY <1>1, <1>f DEF SubmitRun
  <2> HIDE DEF d
  <2> QED BY <1>1, <2>3, <2>4, <2>5, SilentIsTransaction
<1>g. ASSUME Commit(s, Advanced(session[s]), seq, {}) \/ Commit(s, Advanced(session[s]), seq + 1, {}),
             runs[s] > 0, UNCHANGED work
      PROVE  Transaction(s)
  <2> DEFINE c == Advanced(session[s])
  <2>1. c \in Summaries /\ c.meta = session[s].meta /\ c.rev = session[s].rev
        /\ c.timeline = session[s].timeline + 1 /\ c.through = session[s].through
        /\ c.milestone = session[s].milestone
    BY <1>1 DEF Advanced, Summaries
  <2>2. Exists(s) /\ session[s].meta >= 1
    BY <1>1, <1>3, <1>g DEF Exists, Summaries
  <2> HIDE DEF c
  <2>3. Sound(s, c)
    BY <1>1, <2>1, <2>2, SameReadIsSound DEF Summaries
  <2>4. runs' = runs /\ asking' = asking
    BY <1>g DEF work
  <2>5. Commit(s, c, seq, {}) \/ Commit(s, c, seq + 1, {})
    BY <1>g DEF c
  <2> QED BY <1>1, <2>3, <2>4, <2>5, SilentIsTransaction
<1>h. CASE Report(s)
  BY <1>g, <1>h DEF Report
<1>i. CASE SteerOrStop(s)
  BY <1>g, <1>i DEF SteerOrStop
<1>j. CASE OpenInteraction(s)
  BY <1>1, <1>3, <1>j, ReachIsTransaction DEF OpenInteraction
<1>k. CASE SettleRun(s)
  BY <1>1, <1>3, <1>k, ReachIsTransaction DEF SettleRun
<1>l. CASE CloseInteraction(s)
  BY <1>1, <1>l DEF CloseInteraction, Quiet
<1>m. CASE CancelQueuedRun(s)
  BY <1>1, <1>m DEF CancelQueuedRun, Quiet
<1>n. CASE LoseWorker(s)
  BY <1>1, <1>n DEF LoseWorker, Quiet
<1>o. ASSUME NEW r \in 1 .. MaxTimeline, MarkRead(s, r)
      PROVE  Transaction(s)
  <2> DEFINE c == [session[s] EXCEPT !.through = r, !.rev = @ + 1]
  <2>1. Announce(s, c, "read") /\ "read" \in Types /\ UNCHANGED work
    BY <1>o DEF MarkRead, Types
  <2>2. Sound(s, c)
    <3>1. Exists(s) /\ session[s].through < r /\ r <= session[s].timeline /\ r \in Nat
      BY <1>o DEF MarkRead
    <3> QED BY <3>1, ReadIsSound
  <2> HIDE DEF c
  <2> QED BY <2>1, <2>2, AnnounceIsTransaction
<1> QED BY <1>a, <1>b, <1>c, <1>d, <1>e, <1>f, <1>h, <1>i, <1>j, <1>k, <1>l, <1>m, <1>n, <1>o
    DEF SessionStep
\* A quiet step keeps the invariant: nothing it mentions is newer than before.
LEMMA QuietInv ==
  ASSUME LogInv, NEW s \in Sessions, Quiet(s)
  PROVE  LogInv'
<1>1. session' \in [Sessions -> Summaries]
  <2>1. [session[s] EXCEPT !.residency = "sleeping"] \in Summaries
    BY DEF LogInv, TypeOK, Summaries
  <2>2. [session EXCEPT ![s].residency = "sleeping"] =
          [session EXCEPT ![s] = [session[s] EXCEPT !.residency = "sleeping"]]
    OBVIOUS
  <2> QED BY <2>1, <2>2 DEF LogInv, TypeOK, Quiet
<1>2. \A t \in Sessions :
        /\ session'[t].meta = session[t].meta /\ session'[t].rev = session[t].rev
        /\ session'[t].timeline = session[t].timeline
        /\ session'[t].through = session[t].through
        /\ session'[t].milestone = session[t].milestone
        /\ session'[t].residency = session[t].residency \/ session'[t].residency = "sleeping"
  BY DEF LogInv, TypeOK, Quiet, Summaries
<1>3. TypeOK'
  BY <1>1 DEF LogInv, TypeOK, Quiet
<1>4. SummaryInv'
  BY <1>2 DEF LogInv, TypeOK, SummaryInv, Quiet, Exists
<1>5. ReadInv'
  BY <1>2 DEF LogInv, TypeOK, ReadInv, Quiet, Rows, ReadState, Unread
<1>6. RowsInv'
  BY DEF LogInv, RowsInv, Quiet
<1> QED BY <1>3, <1>4, <1>5, <1>6 DEF LogInv

\* The clock, maintenance and an epoch rotation leave Sessions and history alone.
LEMMA HousekeepingInv ==
  ASSUME LogInv, Tick \/ RunMaintenance \/ RotateSynchronizationEpoch
  PROVE  LogInv'
<1> USE ChangeLogAssumption
<1>1. TypeOK'
  BY DEF LogInv, TypeOK, Tick, RunMaintenance, RotateSynchronizationEpoch
<1>2. session' = session /\ runs' = runs /\ committed' = committed /\ log' \subseteq log
      /\ seq' >= seq
  BY DEF LogInv, TypeOK, Tick, RunMaintenance, RotateSynchronizationEpoch
<1>3. SummaryInv' /\ ReadInv'
  BY <1>2 DEF LogInv, SummaryInv, ReadInv, Exists, ReadState, Unread
<1>4. RowsInv'
  <2>1. \A r \in committed : r.seq \in Nat
    BY DEF LogInv, TypeOK, Rows
  <2> QED BY <1>1, <1>2, <2>1 DEF LogInv, TypeOK, RowsInv
<1> QED BY <1>1, <1>3, <1>4 DEF LogInv

\* The invariant is inductive.
LEMMA NextInv ==
  ASSUME LogInv, [Next]_vars
  PROVE  LogInv'
<1>1. ASSUME NEW s \in Sessions, SessionStep(s)
      PROVE  LogInv'
  BY <1>1, SessionStepKinds, TransactionInv, QuietInv
<1>2. CASE Tick \/ RunMaintenance \/ RotateSynchronizationEpoch
  BY <1>2, HousekeepingInv
<1>3. CASE UNCHANGED vars
  BY <1>3 DEF vars, LogInv, TypeOK, SummaryInv, ReadInv, RowsInv, Exists, ReadState, Unread
<1> QED BY <1>1, <1>2, <1>3 DEF Next

\* Types, ordered summaries, agreeing read states and distinct rows always hold.
THEOREM LogInvCorrect == LogSpec => []LogInv
<1>1. LogInv /\ [Next]_vars => LogInv'
  BY NextInv
<1> QED BY InitInv, <1>1, PTL DEF LogSpec

\* The tables and the history have their types in every reachable state.
THEOREM LogTypeCorrect == LogSpec => []TypeOK
<1>1. LogInv => TypeOK
  BY DEF LogInv
<1> QED BY LogInvCorrect, <1>1, PTL

\* Equal read-state revisions are the same read state, for any number of Sessions,
\* changes, compactions and epochs.
THEOREM RevisionsAgreeCorrect == LogSpec => []RevisionsAgree
<1>1. LogInv => RevisionsAgree
  BY DEF LogInv, ReadInv, RevisionsAgree
<1> QED BY LogInvCorrect, <1>1, PTL
-----------------------------------------------------------------------------
\* Without set-backs of the clock, every step keeps the rows in order of age, so
\* that maintenance removes the oldest ones and no others.
LEMMA RetentionStep ==
  ASSUME ClockMayStepBack = FALSE, LogInv, RetentionInv, [Next]_vars
  PROVE  RetentionInv'
<1> USE ChangeLogAssumption
<1>1. /\ clock \in Nat /\ seq \in Nat /\ log \subseteq committed
      /\ \A r \in committed : r.seq \in Nat /\ r.at \in Nat /\ r.seq <= seq
      /\ \A r, c \in committed : r.seq = c.seq => r = c
  BY DEF LogInv, TypeOK, RowsInv, Rows
<1>2. ASSUME NEW s \in Sessions, Transaction(s)
      PROVE  RetentionInv'
  <2>1. PICK rows : /\ log' = log \cup rows /\ committed' = committed \cup rows /\ clock' = clock
                    /\ \A r \in rows : r.seq = seq + 1 /\ r.at = clock
                    /\ \A r, c \in rows : r = c
    BY <1>2 DEF Transaction, Commit, Row
  <2>2. \A r \in committed' : r.at <= clock'
    BY <1>1, <2>1 DEF RetentionInv
  <2>3. \A r, c \in committed' : r.seq < c.seq => r.at <= c.at
    BY <1>1, <2>1 DEF RetentionInv
  <2>4. \A r \in log', c \in committed' \ log' : c.seq < r.seq
    BY <1>1, <2>1 DEF RetentionInv
  <2> QED BY <2>2, <2>3, <2>4 DEF RetentionInv
<1>3. ASSUME NEW s \in Sessions, Quiet(s)
      PROVE  RetentionInv'
  BY <1>3 DEF Quiet, RetentionInv
<1>4. CASE Tick
  BY <1>1, <1>4 DEF Tick, RetentionInv
<1>5. CASE RunMaintenance
  <2>1. /\ log' = {r \in log : r.at >= clock - Retention}
        /\ committed' = committed /\ clock' = clock
    BY <1>5 DEF RunMaintenance
  <2>2. ASSUME NEW r \in log', NEW c \in committed' \ log'
        PROVE  c.seq < r.seq
    <3>1. CASE c \notin log
      BY <2>1, <2>2, <3>1 DEF RetentionInv
    <3>2. CASE c \in log
      <4>1. c.at < r.at /\ c \in committed /\ r \in committed
        BY <1>1, <2>1, <2>2, <3>2
      <4> QED BY <1>1, <4>1 DEF RetentionInv
    <3> QED BY <3>1, <3>2
  <2> QED BY <2>1, <2>2 DEF RetentionInv
<1>6. CASE RotateSynchronizationEpoch
  BY <1>6 DEF RotateSynchronizationEpoch, RetentionInv
<1>7. CASE UNCHANGED vars
  BY <1>7 DEF vars, RetentionInv
<1> QED BY <1>2, <1>3, <1>4, <1>5, <1>6, <1>7, SessionStepKinds DEF Next

\* If the oldest retained row is the cursor's successor or older, nothing after
\* the cursor has been deleted.
LEMMA ReplayFromRetention ==
  ASSUME LogInv, RetentionInv
  PROVE  ReplayIsComplete
<1> USE ChangeLogAssumption
<1> SUFFICES ASSUME NEW n \in 1 .. seq, Covers(n), NEW c \in committed, c.seq > n
             PROVE  c \in ChangesAfter(n)
  BY DEF ReplayIsComplete
<1>1. seq \in Nat /\ c.seq \in Nat /\ c.seq <= seq /\ \A r \in log : r \in committed /\ r.seq \in Nat
  BY DEF LogInv, TypeOK, RowsInv, Rows
<1>2. PICK r \in log : r.seq - 1 <= n
  BY <1>1 DEF Covers
<1>3. c \in log
  BY <1>1, <1>2 DEF RetentionInv
<1> QED BY <1>3 DEF ChangesAfter

\* While the wall clock is never set back, a cursor that the Host accepts is
\* answered with every later change, whatever was compacted or rotated.
THEOREM ReplayCorrect ==
  ASSUME ClockMayStepBack = FALSE
  PROVE  LogSpec => []ReplayIsComplete
<1>1. Init => RetentionInv
  BY DEF Init, RetentionInv
<1>2. LogInv /\ RetentionInv /\ [Next]_vars => RetentionInv'
  BY RetentionStep
<1>3. LogInv /\ RetentionInv => ReplayIsComplete
  BY ReplayFromRetention
<1> QED BY LogInvCorrect, <1>1, <1>2, <1>3, PTL DEF LogSpec

-----------------------------------------------------------------------------
\* One step moves the read-state revision of a Session by one or leaves both it and
\* the exposed read state alone.
LEMMA ReadStep ==
  ASSUME LogInv, [Next]_vars, NEW t \in Sessions, Exists(t)
  PROVE  IF SameExposure(session'[t], session[t]) THEN session'[t].rev = session[t].rev
         ELSE session'[t].rev = session[t].rev + 1
<1>1. session[t] \in Summaries /\ session \in [Sessions -> Summaries]
  BY DEF LogInv, TypeOK
<1>2. session'[t] = session[t] => SameExposure(session'[t], session[t])
  BY DEF SameExposure
<1>3. ASSUME NEW s \in Sessions, Transaction(s)
      PROVE  session'[t] = session[t] \/ Sound(t, session'[t])
  BY <1>1, <1>3 DEF Transaction, Commit
<1>4. ASSUME NEW s \in Sessions, Quiet(s)
      PROVE  SameExposure(session'[t], session[t]) /\ session'[t].rev = session[t].rev
  <2>1. /\ session'[t].through = session[t].through /\ session'[t].rev = session[t].rev
        /\ session'[t].milestone = session[t].milestone
    BY <1>1, <1>4 DEF Quiet, Summaries
  <2> QED BY <2>1 DEF SameExposure, Unread
<1>5. CASE Tick \/ RunMaintenance \/ RotateSynchronizationEpoch \/ UNCHANGED vars
  BY <1>2, <1>5 DEF Tick, RunMaintenance, RotateSynchronizationEpoch, vars
<1>6. ASSUME NEW s \in Sessions, SessionStep(s)
      PROVE  \/ session'[t] = session[t] \/ Sound(t, session'[t])
             \/ SameExposure(session'[t], session[t]) /\ session'[t].rev = session[t].rev
  BY <1>3, <1>4, <1>6, SessionStepKinds
<1> QED BY <1>2, <1>5, <1>6 DEF Next, Sound

\* The read-state revision advances exactly when the exposed read state changes.
THEOREM ReadRevisionExactCorrect == LogSpec => ReadRevisionExact
<1>1. ASSUME LogInv, [Next]_vars, NEW t \in Sessions, Exists(t)
      PROVE  session'[t].rev = session[t].rev + (IF Exposed(t)' # Exposed(t) THEN 1 ELSE 0)
  <2>1. session[t] \in Summaries /\ session'[t] \in Summaries
    BY <1>1, NextInv DEF LogInv, TypeOK
  <2>2. Exposed(t)' = Exposed(t) <=> SameExposure(session'[t], session[t])
    BY <2>1 DEF Exposed, SameExposure, Unread, Summaries
  <2>3. IF SameExposure(session'[t], session[t]) THEN session'[t].rev = session[t].rev
        ELSE session'[t].rev = session[t].rev + 1
    BY <1>1, ReadStep
  <2> QED BY <2>1, <2>2, <2>3 DEF Summaries
<1>2. LogInv /\ [Next]_vars =>
        [\A s \in Sessions : Exists(s) =>
           session'[s].rev = session[s].rev + (IF Exposed(s)' # Exposed(s) THEN 1 ELSE 0)]_vars
  BY <1>1
<1> QED BY LogInvCorrect, <1>2, PTL DEF LogSpec, ReadRevisionExact
-----------------------------------------------------------------------------
(* ChangeLog implements ChangeFeed: every transaction of the store is one  *)
(* step of the feed or leaves it alone.                                    *)


\* What the feed says of a row, and of a Session with summary c.
RowSeen(r) == [seq |-> r.seq, kind |-> KindOf(r.type), of |-> r.of,
               meta |-> r.meta, rev |-> r.read.rev]
FactSeen(c) == [meta |-> c.meta, rev |-> c.rev]
LogSeen == {RowSeen(r) : r \in log}
FactsSeen == [s \in Sessions |-> FactSeen(session[s])]

\* A committed row is recorded in the feed at the next number.
LEMMA RecordStep ==
  ASSUME LogInv, NEW s \in Sessions, NEW c \in Summaries, NEW type \in Types,
         NEW more \in {0, 1}, Commit(s, c, seq + 1 + more, {Row(type, s, c, seq + 1)})
  PROVE  Feed!Record(KindOf(type), s, FactSeen(c), more)
<1>1. /\ session' = [session EXCEPT ![s] = c] /\ seq' = seq + 1 + more /\ seq' <= MaxSeq
      /\ log' = log \cup {Row(type, s, c, seq + 1)} /\ epoch' = epoch
  BY DEF Commit
<1>2. FactsSeen' = [FactsSeen EXCEPT ![s] = FactSeen(c)]
  BY <1>1 DEF FactsSeen, LogInv, TypeOK
<1>3. RowSeen(Row(type, s, c, seq + 1)) = Feed!Row(KindOf(type), s, FactSeen(c), seq + 1)
  BY DEF RowSeen, Row, ReadState, FactSeen, Feed!Row
<1>4. LogSeen' = LogSeen \cup {Feed!Row(KindOf(type), s, FactSeen(c), seq + 1)}
  BY <1>1, <1>3 DEF LogSeen
<1> QED BY <1>1, <1>2, <1>4 DEF Feed!Record, LogSeen, FactsSeen, RowSeen, FactSeen

\* A commit without a row that keeps both revisions is a skip or no step.
LEMMA SilentStep ==
  ASSUME LogInv, NEW s \in Sessions, NEW c \in Summaries, NEW n \in {seq, seq + 1},
         c.meta = session[s].meta, c.rev = session[s].rev, Commit(s, c, n, {})
  PROVE  Feed!Skip \/ UNCHANGED Feed!feed
<1>1. /\ session' = [session EXCEPT ![s] = c] /\ seq' = n /\ n <= MaxSeq
      /\ log' = log /\ epoch' = epoch
  BY DEF Commit
<1>2. FactsSeen' = FactsSeen
  BY <1>1 DEF FactsSeen, FactSeen, LogInv, TypeOK
<1>3. LogSeen' = LogSeen
  BY <1>1 DEF LogSeen
<1>4. seq \in Nat /\ MaxSeq \in Nat
  BY ChangeLogAssumption DEF LogInv, TypeOK
<1> QED BY <1>1, <1>2, <1>3, <1>4
        DEF Feed!Skip, Feed!feed, LogSeen, FactsSeen, RowSeen, FactSeen

\* A quiet step does not show in the feed.
LEMMA QuietStep ==
  ASSUME LogInv, NEW s \in Sessions, Quiet(s)
  PROVE  UNCHANGED Feed!feed
<1>1. \A t \in Sessions : session'[t].meta = session[t].meta /\ session'[t].rev = session[t].rev
  BY DEF LogInv, TypeOK, Quiet, Summaries
<1>2. FactsSeen' = FactsSeen
  BY <1>1 DEF FactsSeen, FactSeen
<1> QED BY <1>2 DEF Quiet, Feed!feed, FactsSeen, FactSeen

\* A created or forked Session appears in the feed.
LEMMA AppearStep ==
  ASSUME LogInv, NEW s \in Sessions, ~Exists(s), NEW k \in 1 .. MaxTimeline, NEW m \in 0 .. k,
         NEW type \in {"created", "forked"}, Announce(s, Fresh(k, m), type)
  PROVE  Feed!Appear(s)
<1> USE ChangeLogAssumption
<1>1. Fresh(k, m) \in Summaries /\ FactSeen(Fresh(k, m)) = [meta |-> 1, rev |-> 1]
  BY DEF Fresh, Summaries, FactSeen
<1>2. FactsSeen[s] = Feed!Unknown
  BY DEF FactsSeen, FactSeen, Feed!Unknown, LogInv, SummaryInv, Exists
<1>3. seq + 1 + 0 = seq + 1
  BY DEF LogInv, TypeOK
<1>4. Feed!Record("summary", s, [meta |-> 1, rev |-> 1], 0)
  <2>1. KindOf(type) = "summary" /\ type \in Types
    BY DEF KindOf, Types
  <2> QED BY <1>1, <1>3, <2>1, RecordStep DEF Announce
<1> QED BY <1>2, <1>4 DEF Feed!Appear, FactsSeen, FactSeen

\* So do the changes of the metadata of one.
LEMMA DescribeStep ==
  ASSUME LogInv, NEW s \in Sessions, Exists(s),
         NEW a \in {"available", "archived"}, NEW z \in {"sleeping", "resident"},
         NEW type \in {"renamed", "residency", "availability"},
         Announce(s, Revised(session[s], a, z), type)
  PROVE  \E kind \in {"summary", "renamed"} : Feed!Describe(s, kind)
<1> DEFINE c == Revised(session[s], a, z)
<1>1. session[s] \in Summaries /\ seq + 1 + 0 = seq + 1
  BY DEF LogInv, TypeOK
<1>2. c \in Summaries
  BY RevisedIsSound DEF Sound
<1>3. FactsSeen[s] # Feed!Unknown /\ FactSeen(c) = [FactsSeen[s] EXCEPT !.meta = @ + 1]
  BY <1>1 DEF FactsSeen, FactSeen, Feed!Unknown, Exists, Revised, Summaries
<1>4. KindOf(type) \in {"summary", "renamed"} /\ type \in Types
  BY DEF KindOf, Types
<1> HIDE DEF c
<1>5. Feed!Record(KindOf(type), s, FactSeen(c), 0)
  BY <1>1, <1>2, <1>4, RecordStep DEF Announce, c
<1>6. Feed!Describe(s, KindOf(type))
  BY <1>3, <1>5 DEF Feed!Describe, FactsSeen, FactSeen
<1> QED BY <1>4, <1>6

\* A new read-state revision of an existing Session is one in the feed.
LEMMA ReadStateStep ==
  ASSUME LogInv, NEW s \in Sessions, Exists(s), NEW c \in Summaries, NEW more \in {0, 1},
         c.meta = session[s].meta, c.rev = session[s].rev + 1,
         Commit(s, c, seq + 1 + more, {Row("read", s, c, seq + 1)})
  PROVE  Feed!ChangeReadState(s, more)
<1>1. FactsSeen[s] # Feed!Unknown /\ FactSeen(c) = [FactsSeen[s] EXCEPT !.rev = @ + 1]
  BY DEF FactsSeen, FactSeen, Feed!Unknown, Exists
<1>2. KindOf("read") = "read" /\ "read" \in Types
  BY DEF KindOf, Types
<1>3. Feed!Record("read", s, FactSeen(c), more)
  BY <1>2, RecordStep
<1> QED BY <1>1, <1>3 DEF Feed!ChangeReadState, FactsSeen, FactSeen

\* A milestone is a new read-state revision, or none when the Session was unread.
LEMMA ReachStep ==
  ASSUME LogInv, NEW s \in Sessions, Exists(s), NEW extra \in {0, 1}, Reach(s, extra)
  PROVE  \/ \E more \in {0, 1} : Feed!ChangeReadState(s, more)
         \/ Feed!Skip \/ UNCHANGED Feed!feed
<1> DEFINE c == Advanced(session[s])
           d == Milestone(c)
<1>1. session[s] \in Summaries /\ seq \in Nat
  BY DEF LogInv, TypeOK
<1>2. c \in Summaries /\ c.meta = session[s].meta /\ c.rev = session[s].rev
  BY <1>1 DEF Advanced, Summaries
<1> HIDE DEF c
<1>3. /\ d \in Summaries /\ d.meta = session[s].meta
      /\ Unread(c) => d.rev = session[s].rev
      /\ ~Unread(c) => d.rev = session[s].rev + 1
  BY <1>2, MilestoneFields
<1> HIDE DEF d
<1>4. IF Unread(c) THEN Commit(s, d, seq + extra, {})
      ELSE Commit(s, d, seq + 1 + extra, {Row("read", s, d, seq + 1)})
  BY DEF Reach, c, d
<1>5. CASE Unread(c)
  BY <1>1, <1>3, <1>4, <1>5, SilentStep
<1>6. CASE ~Unread(c)
  BY <1>3, <1>4, <1>6, ReadStateStep
<1> QED BY <1>5, <1>6

\* Every step of a Session is at most one step of the feed.
LEMMA SessionRefines ==
  ASSUME LogInv, NEW s \in Sessions, SessionStep(s)
  PROVE  Feed!FeedNext \/ UNCHANGED Feed!feed
<1> USE ChangeLogAssumption
<1>1. /\ session[s] \in Summaries /\ seq \in Nat /\ seq + 1 + 0 = seq + 1
      /\ runs \in [Sessions -> 0 .. MaxRuns] /\ asking \subseteq Sessions
  BY DEF LogInv, TypeOK
<1>2. runs[s] > 0 => Exists(s)
  BY DEF LogInv, SummaryInv
<1>a. CASE CreateSession(s)
  <2>1. 1 \in 1 .. MaxTimeline
    BY <1>a DEF CreateSession, Announce, Commit, Fresh
  <2> QED BY <1>a, <2>1, AppearStep DEF CreateSession, Feed!FeedNext
<1>b. ASSUME NEW p \in Sessions, NEW k \in 1 .. MaxTimeline, ForkSession(p, s, k)
      PROVE  Feed!FeedNext
  BY <1>b, AppearStep DEF ForkSession, Feed!FeedNext
<1>c. CASE Rename(s)
  BY <1>1, <1>c, DescribeStep DEF Rename, Summaries, Feed!FeedNext
<1>d. CASE Sleep(s)
  BY <1>1, <1>d, DescribeStep DEF Sleep, Summaries, Feed!FeedNext
<1>e. ASSUME NEW a \in {"available", "archived"}, ChangeAvailability(s, a)
      PROVE  Feed!FeedNext
  BY <1>1, <1>e, DescribeStep DEF ChangeAvailability, Feed!FeedNext
<1>f. CASE SubmitRun(s)
  <2> DEFINE b == Advanced(session[s])
             c == [b EXCEPT !.residency = "resident"]
  <2>1. b \in Summaries /\ b.meta = session[s].meta /\ b.rev = session[s].rev
    BY <1>1 DEF Advanced, Summaries
  <2>2. Commit(s, c, seq, {})
    BY <1>f DEF SubmitRun
  <2> HIDE DEF b
  <2>3. c \in Summaries /\ c.meta = session[s].meta /\ c.rev = session[s].rev
    BY <2>1 DEF Summaries
  <2> HIDE DEF c
  <2> QED BY <1>1, <2>2, <2>3, SilentStep DEF Feed!FeedNext
<1>g. CASE Report(s) \/ SteerOrStop(s)
  <2> DEFINE c == Advanced(session[s])
  <2>1. c \in Summaries /\ c.meta = session[s].meta /\ c.rev = session[s].rev
    BY <1>1 DEF Advanced, Summaries
  <2>2. Commit(s, c, seq, {}) \/ Commit(s, c, seq + 1, {})
    BY <1>g DEF Report, SteerOrStop
  <2> HIDE DEF c
  <2> QED BY <2>1, <2>2, SilentStep DEF Feed!FeedNext
<1>h. CASE OpenInteraction(s)
  BY <1>2, <1>h, ReachStep DEF OpenInteraction, Feed!FeedNext
<1>i. CASE SettleRun(s)
  BY <1>2, <1>i, ReachStep DEF SettleRun, Feed!FeedNext
<1>j. CASE CloseInteraction(s) \/ CancelQueuedRun(s) \/ LoseWorker(s)
  <2>1. Quiet(s)
    BY <1>1, <1>j DEF CloseInteraction, CancelQueuedRun, LoseWorker, Quiet
  <2> QED BY <2>1, QuietStep
<1>k. ASSUME NEW r \in 1 .. MaxTimeline, MarkRead(s, r)
      PROVE  Feed!FeedNext
  <2> DEFINE c == [session[s] EXCEPT !.through = r, !.rev = @ + 1]
  <2>1. Exists(s) /\ session[s].through < r /\ r <= session[s].timeline /\ r \in Nat
        /\ Announce(s, c, "read")
    BY <1>k DEF MarkRead
  <2>2. c \in Summaries
    <3>1. Sound(s, c)
      BY <2>1, ReadIsSound
    <3> QED BY <3>1 DEF Sound
  <2>3. c.meta = session[s].meta /\ c.rev = session[s].rev + 1
    BY <1>1 DEF Summaries
  <2> HIDE DEF c
  <2>4. Feed!ChangeReadState(s, 0)
    BY <1>1, <2>1, <2>2, <2>3, ReadStateStep DEF Announce
  <2> QED BY <2>4 DEF Feed!FeedNext
<1> QED BY <1>a, <1>b, <1>c, <1>d, <1>e, <1>f, <1>g, <1>h, <1>i, <1>j, <1>k DEF SessionStep

\* Maintenance forgets the oldest rows of the feed, because older rows have lower
\* numbers.
LEMMA MaintenanceRefines ==
  ASSUME LogInv, RetentionInv, RunMaintenance
  PROVE  Feed!Forget
<1>1. /\ log' = {r \in log : r.at >= clock - Retention} /\ epoch' = epoch /\ seq' = seq
      /\ session' = session
  BY DEF RunMaintenance
<1>2. /\ \A r \in log : r.seq \in Nat /\ r.at \in Nat /\ r \in committed
      /\ \A r, c \in log : r.seq = c.seq => r = c
  BY DEF LogInv, TypeOK, RowsInv, Rows
<1>3. clock \in Nat /\ Retention \in Nat
  BY ChangeLogAssumption DEF LogInv, TypeOK
<1>4. \A r \in log', gone \in log \ log' : gone.seq < r.seq
  <2> SUFFICES ASSUME NEW r \in log', NEW gone \in log \ log'
               PROVE  gone.seq < r.seq
    OBVIOUS
  <2>1. gone \in log /\ r \in log /\ gone.at < r.at
    BY <1>1, <1>2, <1>3
  <2>2. ~(r.seq < gone.seq) /\ r.seq # gone.seq
    BY <1>2, <2>1 DEF RetentionInv
  <2> QED BY <1>2, <2>1, <2>2
<1>5. LogSeen' \in SUBSET LogSeen
  BY <1>1 DEF LogSeen
<1>6. \A r \in LogSeen', gone \in LogSeen \ LogSeen' : gone.seq < r.seq
  <2> SUFFICES ASSUME NEW r \in LogSeen', NEW gone \in LogSeen, gone \notin LogSeen'
               PROVE  gone.seq < r.seq
    OBVIOUS
  <2>1. PICK q \in log' : r = RowSeen(q)
    BY DEF LogSeen, RowSeen
  <2>2. PICK g \in log : gone = RowSeen(g)
    BY DEF LogSeen
  <2>3. g \notin log'
    BY <2>2 DEF LogSeen, RowSeen
  <2>4. r.seq = q.seq /\ gone.seq = g.seq
    BY <2>1, <2>2 DEF RowSeen
  <2> QED BY <1>4, <2>3, <2>4
<1>7. FactsSeen' = FactsSeen
  BY <1>1 DEF FactsSeen, FactSeen
<1> QED BY <1>1, <1>5, <1>6, <1>7 DEF Feed!Forget, LogSeen, FactsSeen, RowSeen, FactSeen

\* A rotation empties the feed.
LEMMA RotationRefines ==
  ASSUME RotateSynchronizationEpoch
  PROVE  Feed!Rotate
<1>1. LogSeen' = {} /\ FactsSeen' = FactsSeen
  BY DEF RotateSynchronizationEpoch, LogSeen, FactsSeen, FactSeen
<1> QED BY <1>1 DEF RotateSynchronizationEpoch, Feed!Rotate, LogSeen, FactsSeen, RowSeen, FactSeen

\* While the wall clock is never set back, the change log is a ChangeFeed.
THEOREM FeedCorrect ==
  ASSUME ClockMayStepBack = FALSE
  PROVE  LogSpec => ImplementsFeed
<1>1. Init => Feed!FeedInit
  BY DEF Init, Feed!FeedInit, Feed!Unknown, Absent
<1>2. Init => RetentionInv
  BY DEF Init, RetentionInv
<1>3. LogInv /\ RetentionInv /\ [Next]_vars => RetentionInv'
  BY RetentionStep
<1>4. LogInv /\ RetentionInv /\ [Next]_vars => [Feed!FeedNext]_(Feed!feed)
  <2> SUFFICES ASSUME LogInv, RetentionInv, [Next]_vars
               PROVE  Feed!FeedNext \/ UNCHANGED Feed!feed
    OBVIOUS
  <2>1. ASSUME NEW s \in Sessions, SessionStep(s)
        PROVE  Feed!FeedNext \/ UNCHANGED Feed!feed
    BY <2>1, SessionRefines
  <2>2. CASE Tick \/ UNCHANGED vars
    BY <2>2 DEF Tick, vars, Feed!feed
  <2>3. CASE RunMaintenance
    BY <2>3, MaintenanceRefines DEF Feed!FeedNext
  <2>4. CASE RotateSynchronizationEpoch
    BY <2>4, RotationRefines DEF Feed!FeedNext
  <2> QED BY <2>1, <2>2, <2>3, <2>4 DEF Next
<1> QED BY LogInvCorrect, <1>1, <1>2, <1>3, <1>4, PTL DEF LogSpec, ImplementsFeed, Feed!FeedSpec
=============================================================================
