--------------------------- MODULE Synchronization ---------------------------
(***************************************************************************)
(* One Client kept in step with the change log: what the Host publishes    *)
(* after each transaction, the ordered delivery to one socket with its     *)
(* replaceable changes and its limit, and scope.set answered by a replay   *)
(* or a reset.  Sources: packages/host/src/host.ts over ChangeFeed.        *)
(*                                                                         *)
(* The Client stands for any program that speaks the protocol: it installs *)
(* a reset as a whole, keeps the higher revision of a change, and takes no *)
(* cursor from a change before the Host has called it current.             *)
(***************************************************************************)
EXTENDS ChangeFeed, Sequences

CONSTANTS Limit  \* maxOutboundBytes, in messages

ASSUME SynchronizationAssumption ==
  Limit \in Nat \ {0} /\ MaxSeq \in Nat \ {0} /\ MaxEpochs \in Nat \ {0}

VARIABLES
  delivery,  \* open, queue: ClientDelivery, with the message being sent at its head
  request,   \* the scope.set on its way to the Host, if any
  client     \* state, cursor, what it knows, and which Sessions are vouched for

syncVars == <<feed, delivery, request, client>>

-----------------------------------------------------------------------------
None == [epoch |-> 0, seq |-> 0]
Nothing == [s \in Sessions |-> Unknown]
NoRequest == [asked |-> FALSE, cursor |-> None, claims |-> Nothing]
Closed == [open |-> FALSE, queue |-> <<>>]

Blank == [state |-> "offline", cursor |-> None, known |-> Nothing, vouched |-> {}]

Known(facts) == {s \in Sessions : facts[s].meta # 0}

Plain(kind, n) == [kind |-> kind, epoch |-> epoch, seq |-> n]
Change(r) == [kind |-> r.kind, epoch |-> epoch, seq |-> r.seq,
              of |-> r.of, meta |-> r.meta, rev |-> r.rev]
Reset == [kind |-> "reset", epoch |-> epoch, seq |-> seq, facts |-> fact]

\* replaceableChangeKey: the rename still waiting that a newer one of the Session
\* replaces.  What is being sent is not replaced.
Replaceable(d, m) ==
  {i \in 2 .. Len(d.queue) :
     m.kind = "renamed" /\ d.queue[i].kind = "renamed" /\ d.queue[i].of = m.of}

\* Mutant: the limit is not looked at.
PushUnbounded(d, m) == IF d.open THEN [d EXCEPT !.queue = Append(@, m)] ELSE d
\* sendServerMessage followed by drainDelivery.
Push(d, m) ==
  CASE ~d.open -> d
    [] d.open /\ Replaceable(d, m) # {} ->
         [d EXCEPT !.queue = [i \in DOMAIN @ |-> IF i \in Replaceable(d, m) THEN m ELSE @[i]]]
    [] d.open /\ Replaceable(d, m) = {} /\ Len(d.queue) < Limit ->
         [d EXCEPT !.queue = Append(@, m)]
    [] d.open /\ Replaceable(d, m) = {} /\ Len(d.queue) >= Limit ->
         [open |-> FALSE, queue |-> <<Head(d.queue)>>]

\* One message at most, as a set.
Offer(d, messages) == IF messages = {} THEN d ELSE Push(d, CHOOSE m \in messages : TRUE)

SyncInit ==
  /\ FeedInit
  /\ delivery = Closed /\ request = NoRequest
  /\ client = Blank

-----------------------------------------------------------------------------
\* What a transaction logged goes to every admitted socket with its own cursor.
NewChanges == {Change(r) : r \in log' \ log}
\* publishSessionAttention, stamped with the sequence the Host has now; it is
\* silent when the summary is the one published last.
Attention == {{}, {[kind |-> "attention", epoch |-> epoch, seq |-> seq']}}

PublishChange(s) ==
  /\ \/ Appear(s)
     \/ \E kind \in {"summary", "renamed"} : Describe(s, kind)
  /\ delivery' = Offer(delivery, NewChanges)
  /\ UNCHANGED <<request, client>>

\* A step of a Run, or a mark-read.  publishTimelineChange before
\* publishCanonicalReadState: the attention summary overtakes the read state,
\* with a cursor at or after it.
PublishProgress(s) ==
  /\ fact[s] # Unknown
  /\ \/ \E more \in {0, 1} : ChangeReadState(s, more)
     \/ Skip
     \/ UNCHANGED feed
  /\ \E told \in Attention : delivery' = Offer(Offer(delivery, told), NewChanges)
  /\ UNCHANGED <<request, client>>

\* Maintenance runs when storage is short; a rotation is asked of the Host's owner.
Housekeep ==
  /\ Forget \/ Rotate
  /\ UNCHANGED <<delivery, request, client>>

\* Mutant: the revisions the Client claims are not compared.
ClaimsIgnored(q) == TRUE
ClaimsHold(q) == \A s \in Known(q.claims) : q.claims[s] = fact[s]
\* cursorBasis: nothing after n is known to be missing.
Covers(n) == n <= seq /\ (n = seq \/ \E r \in log : r.seq - 1 <= n)
Resumable(q) == q.cursor.epoch = epoch /\ Covers(q.cursor.seq) /\ ClaimsHold(q)
\* changesAfter, in order: what the delivery is once the rows after n, up to each
\* number, are sent.
ChangesAt(k) == {Change(r) : r \in {row \in log : row.seq = k}}
Replay(n) ==
  LET sent[k \in n .. seq] ==
        IF k = n THEN delivery ELSE Offer(sent[k - 1], ChangesAt(k))
  IN  sent

\* synchronize, the Host scope.
Synchronize ==
  /\ request.asked /\ delivery.open
  /\ delivery' = IF Resumable(request)
                 THEN Push(Replay(request.cursor.seq)[seq], Plain("current", seq))
                 ELSE Push(delivery, Reset)
  /\ request' = NoRequest
  /\ UNCHANGED <<feed, client>>

-----------------------------------------------------------------------------
\* negotiate admits the Client and sends host.snapshot, which no barrier stamps.
Connect ==
  /\ client.state = "offline"
  /\ delivery' = [open |-> TRUE, queue |-> <<Plain("snapshot", seq)>>]
  /\ client' = [client EXCEPT !.state = "connecting"]
  /\ UNCHANGED <<feed, request>>

\* Answers host.snapshot.  With a cursor the Client resumes and claims all it knows;
\* without, it starts over.
SetScope ==
  /\ client.state = "connected" /\ delivery.open
  /\ \/ /\ client.cursor # None
        /\ request' = [asked |-> TRUE, cursor |-> client.cursor, claims |-> client.known]
        /\ client' = [client EXCEPT !.state = "asked", !.vouched = Known(client.known)]
     \/ /\ request' = [NoRequest EXCEPT !.asked = TRUE]
        /\ client' = [Blank EXCEPT !.state = "asked"]
  /\ UNCHANGED <<feed, delivery>>

\* A whole summary is kept if it is newer, a read state if the Session is known.
Newer(held, m) ==
  IF m.kind = "read"
  THEN IF held.meta # 0 /\ m.rev > held.rev THEN [held EXCEPT !.rev = m.rev] ELSE held
  ELSE [meta |-> IF m.meta > held.meta THEN m.meta ELSE held.meta,
        rev  |-> IF m.rev > held.rev THEN m.rev ELSE held.rev]

Received(c, m) ==
  LET at == [epoch |-> m.epoch, seq |-> m.seq]
      position == IF c.state = "current" THEN at ELSE c.cursor
  IN  CASE m.kind = "reset" -> [c EXCEPT !.state = "current", !.cursor = at,
                                  !.known = m.facts, !.vouched = Known(m.facts)]
        [] m.kind = "current" -> [c EXCEPT !.state = "current", !.cursor = at]
        [] m.kind = "snapshot" -> [c EXCEPT !.state = "connected"]
        [] m.kind = "attention" -> [c EXCEPT !.cursor = position]
        [] c.state \in {"asked", "current"} /\ m.kind \in Kinds ->
             [c EXCEPT !.cursor = position, !.known[m.of] = Newer(@, m),
                       !.vouched = IF m.kind = "read" THEN @ ELSE @ \cup {m.of}]
        [] OTHER -> c

\* A message reaches the Client and the callback of client.send lets the Host
\* send the next.
Receive ==
  /\ delivery.queue # <<>>
  /\ client' = Received(client, Head(delivery.queue))
  /\ delivery' = [delivery EXCEPT !.queue = Tail(@)]
  /\ UNCHANGED <<feed, request>>

\* The socket closes, or the Host or the Client loses it; what was in transit is gone.
Disconnect ==
  /\ client.state # "offline"
  /\ delivery' = Closed /\ request' = NoRequest
  /\ client' = [client EXCEPT !.state = "offline", !.vouched = {}]
  /\ UNCHANGED feed

SyncNext ==
  \/ \E s \in Sessions : PublishChange(s) \/ PublishProgress(s)
  \/ Housekeep \/ Synchronize
  \/ Connect \/ SetScope \/ Receive \/ Disconnect

SyncSpec == SyncInit /\ [][SyncNext]_syncVars

-----------------------------------------------------------------------------
SyncTypeOK ==
  /\ epoch \in 1 .. MaxEpochs /\ seq \in 1 .. MaxSeq
  /\ \A r \in log : r.kind \in Kinds /\ r.seq \in 1 .. seq
  /\ fact \in [Sessions -> [meta : Nat, rev : Nat]]
  /\ delivery.open \in BOOLEAN /\ Len(delivery.queue) <= Limit
  /\ ~delivery.open => Len(delivery.queue) <= 1
  /\ request.asked \in BOOLEAN
  /\ client.state \in {"offline", "connecting", "connected", "asked", "current"}
  /\ client.vouched \subseteq Sessions

\* The Host called the Client current and has nothing more for it.
Settled ==
  client.state = "current" /\ delivery.open /\ delivery.queue = <<>>

\* SPEC.md:362: a Client that was told it is current and has received everything
\* holds, of each Session it claimed or was sent, the read state the Host holds,
\* through lost connections, compaction, rotations, overtaking and replacement.
CurrentReadIsTrue ==
  Settled => \A s \in client.vouched : client.known[s].rev = fact[s].rev

\* SPEC.md:311 and 315: a Client that was told it is current and has received
\* everything knows every Session at its current metadata revision.
CurrentIsTrue ==
  Settled => \A s \in Sessions : client.known[s].meta = fact[s].meta
=============================================================================
