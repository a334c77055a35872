----------------------------- MODULE ClientView -----------------------------
(***************************************************************************)
(* What the PWA shows of its Sessions: the store's loads of the catalog,   *)
(* of one Session, and of both after a reconnect, each over several        *)
(* awaits, while the Host sends changes over the one control socket, whose *)
(* scope is the last one any subscriber set.                               *)
(*                                                                         *)
(* An entry is the Timeline revision that brought it; an attention summary *)
(* is the cursor it was derived at.  A Call is one loadDiscovery,          *)
(* openSession or recoverAuthority.                                        *)
(***************************************************************************)
EXTENDS Naturals, Sequences, SequencesExt, FiniteSets

CONSTANTS Sessions,
          MaxChanges,  \* Timeline changes of all Sessions
          MaxCalls,    \* loads, opens and recoveries
          MaxMishaps   \* sockets lost and reads that time out

None == "none"
ASSUME ViewAssumption ==
  None \notin Sessions /\ MaxChanges \in Nat /\ MaxCalls \in Nat \ {0} /\ MaxMishaps \in Nat

VARIABLES
  rev, seq,    \* the Host: Session -> Timeline revision, and the change cursor
  read,        \* the Host: Session -> read through this revision
  scope,       \* the Host: the Sessions this socket is scoped to
  linked, hello, \* the socket is open; its host.snapshot has been received
  toHost, toClient, mishaps,
  subs,        \* the calls subscribed to the connection, oldest first
  call,        \* call -> what it loads, where it waits, what it was answered
  selected,    \* selectedSessionId, or None
  status,      \* authority.status
  current,     \* isSessionCurrent
  known,       \* Session -> its timelineRevision in sessions, 0 when absent
  shown,       \* Session -> the entries of its timeline
  presented,   \* presentedRevisions
  held, basis, \* Session -> cursor of the attention shown, attentionBasis
  watched,     \* the Sessions with a watchSession listener
  channel,     \* sockets: the Sessions a mark-read can be sent for
  seen         \* Session -> the entries that have been on the screen

host == <<rev, seq, read, scope>>
wire == <<linked, hello, toHost, toClient, mishaps>>
fetch == <<subs, call>>
view == <<selected, status, current, known, shown, presented, held, basis, watched, channel, seen>>
viewVars == <<host, wire, fetch, view>>

Call == 1..MaxCalls
Blank == [s \in Sessions |-> 0]
\* What a call was answered: the catalog's revisions and cursor, then the Session's.
Unasked == [kind |-> None, of |-> None, at |-> None, revs |-> Blank, seq |-> 0, rev |-> 0, own |-> 0]
Reading == {"catalog", "session"}

\* A View shows no revision the Host has not made, and subscribes a call once.
ViewTypeOK ==
  /\ selected \in Sessions \union {None} /\ status \in {"current", "reconnecting", "offline"}
  /\ \A s \in Sessions :
       /\ rev[s] \in 1..(MaxChanges + 1) /\ read[s] \in 0..rev[s]
       /\ known[s] \in 0..rev[s] /\ presented[s] \in 0..rev[s] /\ shown[s] \subseteq 1..rev[s]
       /\ held[s] \in 0..seq /\ basis[s] \in 0..seq
  /\ scope \subseteq Sessions /\ watched \subseteq Sessions /\ channel \subseteq Sessions
  /\ IsInjective(subs)
  /\ \A i \in Call : call[i].at \in Reading => i \in Range(subs)

\* The page has just been loaded, or the catalog is here already.
Fresh ==
  /\ subs = <<1>>
  /\ call = [i \in Call |-> IF i = 1 THEN [Unasked EXCEPT !.kind = "load", !.at = "catalog"] ELSE Unasked]
  /\ linked = FALSE /\ hello = FALSE /\ known = Blank /\ held = Blank /\ basis = Blank
Loaded ==
  /\ subs = <<>> /\ call = [i \in Call |-> Unasked]
  /\ linked = TRUE /\ hello = TRUE
  /\ known = rev /\ held = [s \in Sessions |-> 1] /\ basis = held

ViewInit ==
  /\ rev = [s \in Sessions |-> 1] /\ seq = 1 /\ read = Blank /\ scope = {}
  /\ toHost = <<>> /\ toClient = <<>> /\ mishaps = 0
  /\ selected = None /\ status = "current" /\ current = FALSE
  /\ presented = Blank
  /\ shown = [s \in Sessions |-> {}] /\ seen = shown
  /\ watched = {} /\ channel = {}
  /\ Fresh \/ Loaded

-----------------------------------------------------------------------------
(* Subscriptions and the scopes they set. *)

\* The calls of a list that are in a set, in the order of the list.
Only(list, calls) ==
  LET kept[n \in 0..Len(list)] ==
        IF n = 0 THEN <<>>
        ELSE IF list[n] \in calls THEN Append(kept[n - 1], list[n]) ELSE kept[n - 1]
  IN kept[Len(list)]

Over(c) == [Unasked EXCEPT !.kind = c.kind, !.of = c.of, !.at = "done"]
Done(i) == call' = [call EXCEPT ![i] = Over(@)]
Free == {i \in Call : call[i].kind = None}
Next1 == CHOOSE i \in Free : \A j \in Free : i <= j

\* What a subscriber asks of the Host on a host.snapshot.  One that has its
\* Session stays subscribed, and asks again on every later socket.
Asks(c) == [kind |-> "scope", of |-> IF c.kind # "load" /\ c.at # "catalog" THEN {c.of} ELSE {}, rev |-> 0]

\* subscribe on a socket whose snapshot is here asks in the next microtask.
Subscribed(c) == IF hello THEN <<Asks(c)>> ELSE <<>>

\* The status listener: a socket that is current starts a recovery.
Recovery == [Unasked EXCEPT !.kind = "recover", !.at = "catalog"]
RecoversOn(changed, queue, list) ==
  IF status = "reconnecting"
  THEN /\ Free # {}
       /\ call' = [changed EXCEPT ![Next1] = Recovery]
       /\ subs' = Append(list, Next1)
       /\ toHost' = queue
  ELSE call' = changed /\ subs' = list /\ toHost' = queue

Open(s) ==
  /\ Free # {} /\ LET c == [Unasked EXCEPT !.kind = "open", !.of = s, !.at = "session"] IN
       /\ call' = [call EXCEPT ![Next1] = c]
       /\ subs' = Append(subs, Next1)
       /\ toHost' = toHost \o Subscribed(c)
  /\ selected' = s /\ current' = FALSE
  /\ UNCHANGED <<host, linked, hello, toClient, mishaps, status, known, shown, presented, held, basis, watched, channel, seen>>

\* The page becomes visible or the browser is online.
Recover ==
  /\ Free # {}
  /\ call' = [call EXCEPT ![Next1] = Recovery] /\ subs' = Append(subs, Next1)
  /\ toHost' = toHost \o Subscribed(Recovery)
  /\ status' = "reconnecting" /\ current' = FALSE
  /\ UNCHANGED <<host, linked, hello, toClient, mishaps, selected, known, shown, presented, held, basis, watched, channel, seen>>

-----------------------------------------------------------------------------
(* Messages of the Host, in the order they were sent. *)

Receive(kind) ==
  /\ toClient # <<>> /\ Head(toClient).kind = kind /\ toClient' = Tail(toClient)
  /\ UNCHANGED <<host, linked, mishaps, seen>>
Unseen == UNCHANGED <<selected, status, current, known, shown, presented, held, basis, watched>>

Admitted ==
  /\ Receive("admitted") /\ RecoversOn(call, toHost, subs)
  /\ Unseen /\ UNCHANGED <<hello, channel>>

\* Every subscriber sets its scope; the Host keeps the last.
Snapshot ==
  /\ Receive("snapshot") /\ hello' = TRUE
  /\ toHost' = toHost \o [i \in DOMAIN subs |-> Asks(call[subs[i]])]
  /\ Unseen /\ UNCHANGED <<fetch, channel>>

\* The catalog settles every readCatalog; a recovery goes on to the Session that
\* is selected now, after the recovery this reset may start.
Settled(c, m) ==
  [c EXCEPT !.revs = m.revs, !.seq = m.seq,
            !.of = IF c.kind = "recover" THEN selected ELSE None,
            !.at = IF c.kind = "load" THEN "preferences"
                   ELSE IF selected = None THEN "reconcile" ELSE "session"]
Catalog ==
  LET waits == {i \in Call : call[i].at = "catalog"}
      settled == [i \in Call |-> IF i \in waits THEN Settled(call[i], Head(toClient)) ELSE call[i]]
      readers == Only(subs, {i \in waits : settled[i].at = "session"})
      others == Only(subs, Call \ waits)
      asks == [i \in DOMAIN readers |-> Asks(settled[readers[i]])]
  IN /\ Receive("catalog")
     /\ IF status = "reconnecting"
        THEN /\ Free # {}
             /\ call' = [settled EXCEPT ![Next1] = Recovery]
             /\ subs' = Append(others, Next1) \o readers
             /\ toHost' = Append(toHost, Asks(Recovery)) \o asks
        ELSE /\ call' = settled /\ subs' = others \o readers /\ toHost' = toHost \o asks
     /\ Unseen /\ UNCHANGED <<hello, channel>>

\* The Session's reset settles every readSession of it that waits.
SessionReset ==
  LET m == Head(toClient)
      answered == [i \in Call |->
        IF call[i].at = "session" /\ call[i].of = m.of
        THEN [call[i] EXCEPT !.rev = m.rev, !.own = m.seq,
                             !.at = IF call[i].kind = "open" THEN "draft" ELSE "reconcile"]
        ELSE call[i]]
  IN /\ Receive("session") /\ RecoversOn(answered, IF status = "reconnecting" THEN Append(toHost, Asks(Recovery)) ELSE toHost, subs)
     /\ channel' = IF \E i \in Range(subs) : call[i].of = m.of THEN channel \union {m.of} ELSE channel
     /\ Unseen /\ UNCHANGED hello

\* Mutant: whatever comes next is taken to follow.
FollowsAny(m) == m.rev > known[m.of]
\* watchSession's listener: only the change on top of what the store holds.
Follows(m) == m.rev = known[m.of] + 1

Listened(s) == s \in watched /\ \E i \in Range(subs) : call[i].of = s

TimelineChange ==
  LET m == Head(toClient) IN
  /\ toClient # <<>> /\ m.kind = "change" /\ toClient' = Tail(toClient)
  /\ IF Listened(m.of) /\ selected = m.of /\ known[m.of] # 0 /\ Follows(m)
     THEN /\ known' = [known EXCEPT ![m.of] = m.rev]
          /\ shown' = [shown EXCEPT ![m.of] = @ \union {m.rev}]
          /\ presented' = [presented EXCEPT ![m.of] = m.rev]
          /\ seen' = [seen EXCEPT ![m.of] = @ \union {m.rev}]
     ELSE UNCHANGED <<known, shown, presented, seen>>
  /\ UNCHANGED <<host, linked, hello, toHost, mishaps, fetch, selected, status, current, held, basis, watched, channel>>

\* attentionIsStale; 0 is a Session without a basis.
Stale(s, cursor) == cursor < basis[s]

AttentionChange ==
  LET m == Head(toClient) IN
  /\ Receive("attention")
  /\ IF Stale(m.of, m.seq) THEN UNCHANGED <<held, basis>>
     ELSE /\ basis' = [basis EXCEPT ![m.of] = m.seq]
          /\ held' = IF known[m.of] = 0 THEN held ELSE [held EXCEPT ![m.of] = m.seq]
  /\ UNCHANGED <<hello, toHost, fetch, selected, status, current, known, shown, presented, watched, channel>>

-----------------------------------------------------------------------------
(* The rest of a call, once its last answer is in. *)

\* loadDiscovery: the catalog rebases the attention wholesale.
FinishLoad(i) ==
  /\ call[i].at = "preferences" /\ Done(i)
  /\ known' = call[i].revs
  /\ held' = [s \in Sessions |-> call[i].seq] /\ basis' = held'
  /\ UNCHANGED <<host, wire, subs, selected, status, current, shown, presented, watched, channel, seen>>

\* Mutant: the projection's attention is taken as it is.
ProjectedAlways(s, cursor) == cursor
\* mergeProjectedSession: a summary newer than the projection stays.
Projected(s, cursor) == IF known[s] # 0 /\ Stale(s, cursor) THEN held[s] ELSE cursor

\* openSession, unless another Session has been opened since.
FinishOpen(i) ==
  LET s == call[i].of IN
  /\ call[i].at = "draft" /\ Done(i)
  /\ IF selected = s
     THEN /\ basis' = IF Stale(s, call[i].own) THEN basis ELSE [basis EXCEPT ![s] = call[i].own]
          /\ held' = [held EXCEPT ![s] = Projected(s, call[i].own)]
          /\ known' = [known EXCEPT ![s] = call[i].rev]
          /\ shown' = [shown EXCEPT ![s] = 1..call[i].rev]
          /\ presented' = [presented EXCEPT ![s] = call[i].rev]
          /\ seen' = [seen EXCEPT ![s] = @ \union 1..call[i].rev]
          /\ current' = TRUE /\ watched' = watched \union {s}
     ELSE UNCHANGED <<known, shown, presented, held, basis, seen, current, watched>>
  /\ UNCHANGED <<host, wire, subs, selected, status, channel>>

\* recoverAuthority: catalog and Session replace what is shown, whatever came
\* meanwhile; what is presented and the attention's basis stay.
FinishRecovery(i) ==
  LET c == call[i]
      own == c.of # None
  IN
  /\ c.at = "reconcile" /\ Done(i)
  /\ known' = [s \in Sessions |-> IF s = c.of THEN c.rev ELSE c.revs[s]]
  /\ held' = [s \in Sessions |-> IF s = c.of THEN c.own ELSE c.seq]
  /\ shown' = IF own THEN [shown EXCEPT ![c.of] = 1..c.rev] ELSE shown
  /\ seen' = IF own /\ selected = c.of THEN [seen EXCEPT ![c.of] = @ \union 1..c.rev] ELSE seen
  /\ status' = "current" /\ current' = TRUE
  /\ UNCHANGED <<host, wire, subs, selected, presented, basis, watched, channel>>

\* A read that failed: a load or a recovery goes offline at once, an open after
\* the draft is read from the Device.
Failed(c) == IF c.kind = "open" THEN [c EXCEPT !.at = "failed"] ELSE Over(c)

FailOpen(i) ==
  /\ call[i].at = "failed" /\ Done(i)
  /\ IF selected = call[i].of THEN status' = "offline" /\ current' = FALSE
     ELSE UNCHANGED <<status, current>>
  /\ UNCHANGED <<host, wire, subs, selected, known, shown, presented, held, basis, watched, channel, seen>>

\* The ten seconds of socketFor and readSession.
ReadTimesOut(i) ==
  /\ call[i].at \in Reading /\ mishaps < MaxMishaps /\ mishaps' = mishaps + 1
  /\ call' = [call EXCEPT ![i] = Failed(@)] /\ subs' = Only(subs, Call \ {i})
  /\ status' = IF call[i].kind = "open" THEN status ELSE "offline"
  /\ current' = (current /\ call[i].kind # "recover")
  /\ UNCHANGED <<host, linked, hello, toHost, toClient,
                 selected, known, shown, presented, held, basis, watched, channel, seen>>

\* presentTail after its dwell: the revision the View rendered.
Claim == presented[selected]
PresentTail ==
  /\ selected # None /\ current /\ Claim # 0
  /\ selected \in channel /\ Claim > read[selected]
  /\ \A j \in DOMAIN toHost : toHost[j].kind # "mark"
  /\ toHost' = Append(toHost, [kind |-> "mark", of |-> {selected}, rev |-> Claim])
  /\ UNCHANGED <<host, linked, hello, toClient, mishaps, fetch, view>>

-----------------------------------------------------------------------------
(* The socket and the Host. *)

Connect ==
  /\ ~linked /\ linked' = TRUE /\ toClient' = <<[kind |-> "admitted"], [kind |-> "snapshot"]>>
  /\ UNCHANGED <<host, hello, toHost, mishaps, fetch, view>>

\* Every read in flight is rejected; the listeners of settled ones stay.  The
\* status is reconnecting until those rejections are handled.
Drop ==
  LET lost == {i \in Call : call[i].at \in Reading} IN
  /\ linked /\ mishaps < MaxMishaps /\ mishaps' = mishaps + 1
  /\ linked' = FALSE /\ hello' = FALSE /\ toHost' = <<>> /\ toClient' = <<>> /\ scope' = {} /\ channel' = {}
  /\ call' = [i \in Call |-> IF i \in lost THEN Failed(call[i]) ELSE call[i]]
  /\ subs' = Only(subs, Call \ lost)
  /\ status' = IF \E i \in lost : call[i].kind # "open" THEN "offline" ELSE "reconnecting"
  /\ current' = FALSE
  /\ UNCHANGED <<rev, seq, read, selected, known, shown, presented, held, basis, watched, seen>>

\* synchronize: the catalog, then the Session, as they are now.
Synchronize ==
  LET m == Head(toHost) IN
  /\ toHost # <<>> /\ m.kind = "scope" /\ toHost' = Tail(toHost)
  /\ scope' = m.of
  /\ toClient' = Append(toClient, [kind |-> "catalog", revs |-> rev, seq |-> seq])
       \o (IF m.of = {} THEN <<>> ELSE LET s == CHOOSE s \in m.of : TRUE IN
             <<[kind |-> "session", of |-> s, rev |-> rev[s], seq |-> seq]>>)
  /\ UNCHANGED <<rev, seq, read, linked, hello, mishaps, fetch, view>>

MarkRead ==
  LET m == Head(toHost)
      s == CHOOSE s \in m.of : TRUE
  IN
  /\ toHost # <<>> /\ m.kind = "mark" /\ toHost' = Tail(toHost)
  /\ read' = IF m.rev \in read[s]..rev[s] THEN [read EXCEPT ![s] = m.rev] ELSE read
  /\ UNCHANGED <<rev, seq, scope, linked, hello, toClient, mishaps, fetch, view>>

\* publishTimelineChange to the scoped sockets, then publishSessionAttention to
\* all; here every change alters the summary.
Change(s) ==
  /\ seq <= MaxChanges
  /\ rev' = [rev EXCEPT ![s] = @ + 1] /\ seq' = seq + 1
  /\ toClient' = IF ~linked THEN toClient ELSE toClient
       \o (IF s \in scope THEN <<[kind |-> "change", of |-> s, rev |-> rev'[s]]>> ELSE <<>>)
       \o <<[kind |-> "attention", of |-> s, seq |-> seq']>>
  /\ UNCHANGED <<read, scope, linked, hello, toHost, mishaps, fetch, view>>

ViewNext ==
  \/ \E s \in Sessions : Open(s) \/ Change(s)
  \/ Recover \/ PresentTail
  \/ Admitted \/ Snapshot \/ Catalog \/ SessionReset \/ TimelineChange \/ AttentionChange
  \/ \E i \in Call : FinishLoad(i) \/ FinishOpen(i) \/ FinishRecovery(i) \/ FailOpen(i) \/ ReadTimesOut(i)
  \/ Connect \/ Drop \/ Synchronize \/ MarkRead

ViewSpec == ViewInit /\ [][ViewNext]_viewVars

Symmetry == Permutations(Sessions)

-----------------------------------------------------------------------------
\* What a View has marked read, it has shown: the entry a Session is read through
\* was on the screen and, if the Session was not left and opened again, so was
\* every entry before it, however loads, recoveries and changes interleave.
OpenedOnce(s) ==
  \A i, j \in Call : (\A k \in {i, j} : call[k].kind = "open" /\ call[k].of = s) => i = j
ReadWasShown ==
  \A s \in Sessions :
    /\ read[s] # 0 => read[s] \in seen[s]
    /\ OpenedOnce(s) => 1..read[s] \subseteq seen[s]

\* The same of every Session, as presentTail's comment has it: "never a Host
\* revision the View has not presented".  A recovery that read another Session
\* moves the catalog's revision past the Timeline the store holds.
NothingReadUnseen == \A s \in Sessions : 1..read[s] \subseteq seen[s]
\* The schedule ClientRead.cfg looks at: a Session is opened, left, and opened again
\* by the last call; all other calls are recoveries.
LeftAndOpenedAgain ==
  \A i \in Call :
    /\ call[i].kind # None => (call[i].kind = "open" <=> i \in {1, 2, MaxCalls})
    /\ call[i].kind = "open" => (call[i].of = call[1].of <=> i # 2)

\* Only a catalog (loadDiscovery, recoverAuthority) takes the attention shown of
\* a Session back behind the cursor the store holds as its basis.  A recovery
\* leaves the basis where it was, so what it showed is not kept that way.
Replaced == \E i \in Call : call[i].at \in {"preferences", "reconcile"} /\ call'[i].at = "done"
AttentionAdvances ==
  [][Replaced \/ \A s \in Sessions : held'[s] < held[s] => held'[s] >= basis[s]]_viewVars

\* When nothing is in flight, a Session called current shows all of its entries.
Quiet == linked /\ toHost = <<>> /\ toClient = <<>> /\ \A i \in Call : call[i].at \in {None, "done"}
CurrentIsComplete == Quiet /\ current /\ selected # None => shown[selected] = 1..rev[selected]

=============================================================================
