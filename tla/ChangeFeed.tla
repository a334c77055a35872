------------------------------ MODULE ChangeFeed ------------------------------
(***************************************************************************)
(* What the Host's change log promises to the rest of the Host: a sequence *)
(* that only grows, rows that say which revision a Session reached at      *)
(* which number, and a log that is only ever shortened from its old end.   *)
(* ChangeLog implements it; Synchronization is built on it.                *)
(***************************************************************************)
EXTENDS Integers

CONSTANTS
  Sessions,           \* Session ids the Host may mint
  MaxSeq, MaxEpochs   \* bounds

VARIABLES
  epoch, seq,  \* row of table host
  log,         \* table synchronization_changes
  fact         \* per Session, its metadata and its read-state revision; 0: not created

feed == <<epoch, seq, log, fact>>

\* A "summary" row is any change but a rename that carries the whole Session.
Kinds == {"summary", "renamed", "read"}

Unknown == [meta |-> 0, rev |-> 0]
Row(kind, s, f, n) == [seq |-> n, kind |-> kind, of |-> s, meta |-> f.meta, rev |-> f.rev]

FeedInit ==
  /\ epoch = 1 /\ seq = 1 /\ log = {}
  /\ fact = [s \in Sessions |-> Unknown]

-----------------------------------------------------------------------------
\* The Session reaches f at the next number; more numbers may be taken without a row.
Record(kind, s, f, more) ==
  /\ seq + 1 + more <= MaxSeq
  /\ seq' = seq + 1 + more
  /\ fact' = [fact EXCEPT ![s] = f]
  /\ log' = log \cup {Row(kind, s, f, seq + 1)}
  /\ UNCHANGED epoch

Appear(s) ==
  /\ fact[s] = Unknown
  /\ Record("summary", s, [meta |-> 1, rev |-> 1], 0)

Describe(s, kind) ==
  /\ fact[s] # Unknown
  /\ Record(kind, s, [fact[s] EXCEPT !.meta = @ + 1], 0)

ChangeReadState(s, more) ==
  /\ fact[s] # Unknown
  /\ Record("read", s, [fact[s] EXCEPT !.rev = @ + 1], more)

\* A transaction whose number has no row.
Skip ==
  /\ seq < MaxSeq
  /\ seq' = seq + 1
  /\ UNCHANGED <<epoch, log, fact>>

\* The oldest rows go, any number of them.
Forget ==
  /\ log' \in SUBSET log
  /\ \A r \in log', gone \in log \ log' : gone.seq < r.seq
  /\ UNCHANGED <<epoch, seq, fact>>

Rotate ==
  /\ epoch < MaxEpochs /\ seq < MaxSeq
  /\ epoch' = epoch + 1 /\ seq' = seq + 1 /\ log' = {}
  /\ UNCHANGED fact

FeedNext ==
  \/ \E s \in Sessions :
       \/ Appear(s)
       \/ \E kind \in {"summary", "renamed"} : Describe(s, kind)
       \/ \E more \in {0, 1} : ChangeReadState(s, more)
  \/ Skip \/ Forget \/ Rotate

FeedSpec == FeedInit /\ [][FeedNext]_feed
=============================================================================
