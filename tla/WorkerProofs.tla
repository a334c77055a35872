---------------------------- MODULE WorkerProofs ----------------------------
(***************************************************************************)
(* Theorems about the worker of a Session: PiAdapter, for any number of    *)
(* Runs of the Session, and WorkerDuplex, for any number of Runs and       *)
(* Interactions of a generation.                                           *)
(***************************************************************************)
EXTENDS WorkerDuplex, PiAdapter, SequenceTheorems, TLAPS

States == {"none", "settled"} \union Unsettled
Places == Awaits \union {"none", "done"}
RunOrNone == 0..MaxRuns

\* TypeOK, but for what holds of a child's user.
Types ==
  /\ host \in [Run -> States] /\ pc \in [Run -> Places]
  /\ worker \in [Run -> RunOrNone] /\ current \in RunOrNone
  /\ child \in [Run -> RunOrNone] /\ mapped \in RunOrNone
  /\ session \subseteq Run /\ disposed \subseteq Run /\ aborted \subseteq Run
  /\ user \in [Run -> RunOrNone] /\ ui \in [Run -> RunOrNone]

Fresh == {"none", "probe", "bind"}   \* before a run has made its child
Holding == {"configure", "session", "prompt"}

\* Runs are dispatched in order, one after the other has ended or was stopped.
OrderInv ==
  /\ \A r \in Run : host[r] = "none" <=> pc[r] = "none"
  /\ \A q, r \in Run : q < r /\ host[r] # "none" => host[q] \notin {"none", "executing"}
  /\ \A q, r \in Run : q < r /\ pc[r] \notin {"none", "probe", "done"} => pc[q] # "probe"

\* A child is found by nobody before its run has made it.
ChildInv ==
  /\ \A r \in Run : child[r] # None => pc[child[r]] \notin Fresh
  /\ mapped # None => pc[mapped] \notin Fresh /\ mapped \notin disposed
  /\ \A c \in disposed : pc[c] \notin Fresh
  /\ \A r \in Run : pc[r] \in Holding => child[r] # None

\* A child's user executes on it.
UserInv ==
  \A c \in Run : user[c] # None => pc[user[c]] \in {"session", "prompt"} /\ child[user[c]] = c

\* An executing Run has its own UI context on a child that is not disposed.
OwnInv ==
  \A r \in Run : host[r] = "executing" /\ pc[r] \in Holding =>
    ui[child[r]] = r /\ child[r] \notin disposed

AbortInv == \A r \in aborted : host[r] \notin {"none", "executing"}

Inv == Types /\ OrderInv /\ ChildInv /\ UserInv /\ OwnInv /\ AbortInv

-----------------------------------------------------------------------------
LEMMA RunFacts ==
  /\ None \in RunOrNone /\ None \notin Run
  /\ \A r \in Run : r \in RunOrNone /\ r \in Nat
  /\ \A r \in RunOrNone : r # None => r \in Run
  /\ \A q, r \in Run : q # r => q < r \/ r < q
  /\ \A q, r \in Run : q < r => q \in 1..(r - 1)
BY RunsAssumption DEF RunsAssumption, Run, None, RunOrNone

LEMMA TypesStep ==
  ASSUME Types, ChildInv, [Next]_vars
  PROVE  Types'
<1> USE RunFacts DEF callers, children
<1>s. /\ {"none", "settled", "executing", "cancelling", "enforced"} \subseteq States
      /\ {"none", "done", "probe", "bind", "configure", "session", "prompt", "flush"} \subseteq Places
  BY DEF States, Unsettled, Places, Awaits
<1>r. \A r \in Run : worker[r] \in RunOrNone /\ child[r] \in RunOrNone
  BY DEF Types
<1>1. ASSUME NEW r \in Run, Dispatch(r) PROVE Types'
  <2> DEFINE w == IF current = None THEN r ELSE current
  <2>1. w \in RunOrNone
    BY DEF Types
  <2>2. worker' \in [Run -> RunOrNone] /\ current' \in RunOrNone
    BY <1>1, <2>1 DEF Dispatch, Types
  <2>3. host' \in [Run -> States] /\ pc' \in [Run -> Places]
    BY <1>1, <1>s DEF Dispatch, At, Record, Types
  <2>. QED BY <1>1, <2>2, <2>3 DEF Dispatch, Types
<1>2. ASSUME NEW r \in Run, StopRun(r) PROVE Types'
  BY <1>2, <1>s, <1>r DEF StopRun, Record, Heard, Types
<1>3. ASSUME NEW r \in Run, Enforce(r) PROVE Types'
  BY <1>3, <1>s, <1>r DEF Enforce, Record, Types
<1>4. ASSUME NEW r \in Run, Reconcile(r) PROVE Types'
  BY <1>4, <1>s, <1>r DEF Reconcile, Record, Invalidated, Types
<1>5. ASSUME Close PROVE Types'
  <2>1. disposed' \subseteq Run
    BY <1>5 DEF Close, Types
  <2>2. aborted' \subseteq Run /\ mapped' \in RunOrNone /\ current' \in RunOrNone
    BY <1>5 DEF Close, Types, Unmapped
  <2>. QED BY <1>5, <2>1, <2>2 DEF Close, Types
<1>6. ASSUME NEW r \in Run, Probed(r) PROVE Types'
  <2>1. pc' \in [Run -> Places]
    BY <1>6, <1>s DEF Probed, Give, At, Types
  <2>2. child' \in [Run -> RunOrNone] /\ ui' \in [Run -> RunOrNone]
    BY <1>6 DEF Probed, Give, OwnUI, Types
  <2>. QED BY <1>6, <2>1, <2>2 DEF Probed, Types
<1>7. ASSUME NEW r \in Run, Bound(r) PROVE Types'
  BY <1>7, <1>s, <1>r DEF Bound, At, Give, OwnUI, Types
<1>8. ASSUME NEW r \in Run, Begin(r) PROVE Types'
  BY <1>8, <1>s, <1>r DEF Begin, At, Free, Types
<1>9. ASSUME NEW r \in Run, BeginRefused(r) PROVE Types'
  BY <1>9, <1>s, <1>r DEF BeginRefused, At, Reject, Record, Invalidated, Types
<1>10. ASSUME NEW r \in Run, Opened(r) PROVE Types'
  <2>1. child[r] \in Run
    BY <1>10, <1>r DEF Opened, ChildInv, Holding
  <2>. QED BY <1>10, <2>1, <1>s DEF Opened, At, Types
<1>11. ASSUME NEW r \in Run, PromptEnds(r) PROVE Types'
  BY <1>11, <1>s, <1>r DEF PromptEnds, At, Released, Types
<1>12. ASSUME NEW r \in Run, Flushed(r) PROVE Types'
  BY <1>12, <1>s, <1>r DEF Flushed, At, Resolve, Record, Types
<1>13. ASSUME NEW r \in Run, Throws(r) PROVE Types'
  <2>1. user' \in [Run -> RunOrNone]
    BY <1>13 DEF Throws, Released, Types
  <2>2. host' \in [Run -> States] /\ pc' \in [Run -> Places] /\ current' \in RunOrNone
    BY <1>13, <1>s, <1>r DEF Throws, Reject, At, Record, Invalidated, Types
  <2>. QED BY <1>13, <2>1, <2>2 DEF Throws, Reject, Types
<1>14. CASE UNCHANGED vars
  BY <1>14, <1>s, <1>r DEF vars, Types
<1>. QED
  BY <1>1, <1>2, <1>3, <1>4, <1>5, <1>6, <1>7, <1>8, <1>9, <1>10, <1>11, <1>12, <1>13, <1>14
  DEF Next, HostStep, Execute

-----------------------------------------------------------------------------
(* What each step does, Run by Run and child by child. *)

Others(r) ==
  \A q \in Run \ {r} : host'[q] = host[q] /\ pc'[q] = pc[q] /\ child'[q] = child[q]

LEMMA DispatchIs ==
  ASSUME Types, NEW r \in Run, Dispatch(r)
  PROVE  /\ Others(r) /\ host[r] = "none" /\ \A q \in Run : host[q] # "executing"
         /\ \A q \in Run : q < r => host[q] # "none"
         /\ <<host'[r], pc'[r]>> \in {<<"executing", "probe">>, <<"settled", "done">>}
         /\ UNCHANGED <<child, mapped, user, ui, disposed, aborted>>
<1>1. \A q \in Run : q < r => host[q] # "none"
  BY RunFacts DEF Dispatch
<1>2. \/ pc' = [pc EXCEPT ![r] = "done"] /\ host' = [host EXCEPT ![r] = "settled"]
      \/ pc' = [pc EXCEPT ![r] = "probe"] /\ host' = [host EXCEPT ![r] = "executing"]
  BY DEF Dispatch, At, Record
<1>. QED BY <1>1, <1>2 DEF Dispatch, Types, Others, children

LEMMA StopRunIs ==
  ASSUME Types, NEW r \in Run, StopRun(r)
  PROVE  /\ Others(r) /\ host[r] = "executing" /\ host'[r] = "cancelling"
         /\ \A q \in aborted' \ aborted : q \in Run /\ pc[q] = "prompt"
         /\ UNCHANGED <<pc, child, mapped, user, ui, disposed>>
BY RunFacts DEF StopRun, Record, Heard, Types, Others, callers, children

LEMMA EnforceIs ==
  ASSUME Types, NEW r \in Run, Enforce(r)
  PROVE  /\ Others(r) /\ host[r] = "cancelling" /\ host'[r] = "enforced"
         /\ UNCHANGED <<pc, child, mapped, user, ui, disposed, aborted>>
BY RunFacts DEF Enforce, Record, Types, Others, callers, children

LEMMA ReconcileIs ==
  ASSUME Types, NEW r \in Run, Reconcile(r)
  PROVE  /\ Others(r) /\ host[r] = "enforced" /\ host'[r] = "settled"
         /\ UNCHANGED <<pc, child, mapped, user, ui, disposed, aborted>>
BY RunFacts DEF Reconcile, Record, Invalidated, Types, Others, callers, children

LEMMA CloseIs ==
  ASSUME Types, Close
  PROVE  /\ \A r \in Run : host[r] # "executing"
         /\ \A c \in disposed' \ disposed : c = mapped /\ mapped # None
         /\ \A q \in aborted' \ aborted : q \in Run /\ mapped \in Run /\ user[mapped] = q
         /\ mapped' = None
         /\ UNCHANGED <<host, pc, child, user, ui>>
<1>1. \A r \in Run : host[r] # "executing"
  BY DEF Close, Quiescent, Unsettled
<1>2. \A q \in aborted' \ aborted : q \in Run /\ mapped \in Run /\ user[mapped] = q
  BY DEF Close, Types
<1>. QED BY <1>1, <1>2 DEF Close, Unmapped

LEMMA ProbedIs ==
  ASSUME Types, NEW r \in Run, Probed(r)
  PROVE  /\ Others(r) /\ pc[r] = "probe" /\ \A q \in Run : q < r => pc[q] # "probe"
         /\ \/ pc'[r] = "bind" /\ UNCHANGED <<child, ui>>
            \/ /\ mapped \in Run /\ pc'[r] = "configure" /\ child'[r] = mapped /\ ui'[mapped] = r
               /\ \A c \in Run \ {mapped} : ui'[c] = ui[c]
         /\ UNCHANGED <<host, mapped, user, disposed, aborted>>
<1>1. \A q \in Run : q < r => pc[q] # "probe"
  BY RunFacts DEF Probed
<1>2. CASE mapped = None
  BY <1>1, <1>2 DEF Probed, At, Types, Others, callers
<1>3. CASE mapped # None
  <2>1. mapped \in Run
    BY <1>3, RunFacts DEF Types
  <2>. QED BY <1>1, <1>3, <2>1 DEF Probed, Give, OwnUI, At, Types, Others, callers
<1>. QED BY <1>2, <1>3

LEMMA BoundIs ==
  ASSUME Types, NEW r \in Run, Bound(r)
  PROVE  /\ Others(r) /\ pc[r] = "bind" /\ pc'[r] = "configure" /\ child'[r] = r /\ ui'[r] = r
         /\ \A c \in Run \ {r} : ui'[c] = ui[c]
         /\ mapped' = r /\ UNCHANGED <<host, user, disposed, aborted>>
BY RunFacts DEF Bound, At, Give, OwnUI, Types, Others, callers, children

LEMMA BeginIs ==
  ASSUME Types, NEW r \in Run, Begin(r)
  PROVE  /\ Others(r) /\ pc[r] = "configure" /\ pc'[r] \in {"session", "prompt"}
         /\ child[r] \notin disposed
         /\ child[r] \in Run => user[child[r]] = None /\ user'[child[r]] = r
         /\ \A c \in Run \ {child[r]} : user'[c] = user[c]
         /\ UNCHANGED <<host, child, mapped, ui, disposed, aborted>>
BY RunFacts DEF Begin, At, Free, Types, Others, callers, children

LEMMA BeginRefusedIs ==
  ASSUME Types, NEW r \in Run, BeginRefused(r)
  PROVE  /\ Others(r) /\ pc[r] = "configure" /\ pc'[r] = "done" /\ host'[r] = "settled"
         /\ UNCHANGED <<child, mapped, user, ui, disposed, aborted>>
BY RunFacts DEF BeginRefused, At, Reject, Record, Invalidated, Types, Others, callers, children

LEMMA OpenedIs ==
  ASSUME Types, NEW r \in Run, Opened(r)
  PROVE  /\ Others(r) /\ pc[r] = "session" /\ pc'[r] = "prompt"
         /\ UNCHANGED <<host, child, mapped, user, ui, disposed, aborted>>
BY RunFacts DEF Opened, At, Types, Others, callers, children

LEMMA PromptEndsIs ==
  ASSUME Types, NEW r \in Run, PromptEnds(r)
  PROVE  /\ Others(r) /\ pc[r] = "prompt" /\ pc'[r] = "flush"
         /\ child[r] \in Run => user'[child[r]] = None
         /\ \A c \in Run \ {child[r]} : user'[c] = user[c]
         /\ UNCHANGED <<host, child, mapped, ui, disposed, aborted>>
BY RunFacts DEF PromptEnds, At, Released, Types, Others, callers, children

LEMMA FlushedIs ==
  ASSUME Types, NEW r \in Run, Flushed(r)
  PROVE  /\ Others(r) /\ pc[r] = "flush" /\ pc'[r] = "done" /\ host'[r] = "settled"
         /\ UNCHANGED <<child, mapped, user, ui, disposed, aborted>>
BY RunFacts DEF Flushed, At, Resolve, Record, Types, Others, callers, children

LEMMA ThrowsIs ==
  ASSUME Types, NEW r \in Run, Throws(r)
  PROVE  /\ Others(r) /\ pc[r] \in Awaits /\ pc'[r] = "done" /\ host'[r] = "settled"
         /\ pc[r] \in {"session", "prompt"} /\ child[r] \in Run => user'[child[r]] = None
         /\ \A c \in Run : user'[c] \in {user[c], None}
         /\ UNCHANGED <<child, mapped, ui, disposed, aborted>>
BY RunFacts DEF Throws, At, Reject, Record, Invalidated, Released, Types, Others, callers, children

LEMMA OrderStep ==
  ASSUME Types, OrderInv, [Next]_vars
  PROVE  OrderInv'
<1> USE RunFacts
<1>t. /\ \A q \in Run : child[q] \in RunOrNone /\ user[q] \in RunOrNone
      /\ mapped \in RunOrNone /\ disposed \subseteq Run /\ aborted \subseteq Run
  BY DEF Types
<1>1. ASSUME NEW r \in Run, Dispatch(r) PROVE OrderInv'
  BY <1>1, <1>t, DispatchIs DEF OrderInv, Others
<1>2. ASSUME NEW r \in Run, StopRun(r) PROVE OrderInv'
  BY <1>2, <1>t, StopRunIs DEF OrderInv, Others
<1>3. ASSUME NEW r \in Run, Enforce(r) PROVE OrderInv'
  BY <1>3, <1>t, EnforceIs DEF OrderInv, Others
<1>4. ASSUME NEW r \in Run, Reconcile(r) PROVE OrderInv'
  BY <1>4, <1>t, ReconcileIs DEF OrderInv, Others
<1>5. ASSUME Close PROVE OrderInv'
  BY <1>5, <1>t, CloseIs DEF OrderInv, Others
<1>6. ASSUME NEW r \in Run, Probed(r) PROVE OrderInv'
  BY <1>6, <1>t, ProbedIs DEF OrderInv, Others
<1>7. ASSUME NEW r \in Run, Bound(r) PROVE OrderInv'
  BY <1>7, <1>t, BoundIs DEF OrderInv, Others
<1>8. ASSUME NEW r \in Run, Begin(r) PROVE OrderInv'
  BY <1>8, <1>t, BeginIs DEF OrderInv, Others
<1>9. ASSUME NEW r \in Run, BeginRefused(r) PROVE OrderInv'
  BY <1>9, <1>t, BeginRefusedIs DEF OrderInv, Others
<1>10. ASSUME NEW r \in Run, Opened(r) PROVE OrderInv'
  BY <1>10, <1>t, OpenedIs DEF OrderInv, Others
<1>11. ASSUME NEW r \in Run, PromptEnds(r) PROVE OrderInv'
  BY <1>11, <1>t, PromptEndsIs DEF OrderInv, Others
<1>12. ASSUME NEW r \in Run, Flushed(r) PROVE OrderInv'
  BY <1>12, <1>t, FlushedIs DEF OrderInv, Others
<1>13. ASSUME NEW r \in Run, Throws(r) PROVE OrderInv'
  BY <1>13, <1>t, ThrowsIs DEF OrderInv, Others, Awaits
<1>14. CASE UNCHANGED vars
  BY <1>14, <1>t DEF vars, callers, children, OrderInv
<1>. QED
  BY <1>1, <1>2, <1>3, <1>4, <1>5, <1>6, <1>7, <1>8, <1>9, <1>10, <1>11, <1>12, <1>13, <1>14
  DEF Next, HostStep, Execute

LEMMA ChildStep ==
  ASSUME Types, OrderInv, ChildInv, [Next]_vars
  PROVE  ChildInv'
<1> USE RunFacts
<1>t. /\ \A q \in Run : child[q] \in RunOrNone /\ user[q] \in RunOrNone
      /\ mapped \in RunOrNone /\ disposed \subseteq Run /\ aborted \subseteq Run
  BY DEF Types
<1>1. ASSUME NEW r \in Run, Dispatch(r) PROVE ChildInv'
  BY <1>1, <1>t, DispatchIs DEF OrderInv, ChildInv, Holding, Fresh, Others
<1>2. ASSUME NEW r \in Run, StopRun(r) PROVE ChildInv'
  BY <1>2, <1>t, StopRunIs DEF OrderInv, ChildInv, Holding, Fresh, Others
<1>3. ASSUME NEW r \in Run, Enforce(r) PROVE ChildInv'
  BY <1>3, <1>t, EnforceIs DEF OrderInv, ChildInv, Holding, Fresh, Others
<1>4. ASSUME NEW r \in Run, Reconcile(r) PROVE ChildInv'
  BY <1>4, <1>t, ReconcileIs DEF OrderInv, ChildInv, Holding, Fresh, Others
<1>5. ASSUME Close PROVE ChildInv'
  BY <1>5, <1>t, CloseIs DEF OrderInv, ChildInv, Holding, Fresh, Others
<1>6. ASSUME NEW r \in Run, Probed(r) PROVE ChildInv'
  BY <1>6, <1>t, ProbedIs DEF OrderInv, ChildInv, Holding, Fresh, Others
<1>7. ASSUME NEW r \in Run, Bound(r) PROVE ChildInv'
  BY <1>7, <1>t, BoundIs DEF OrderInv, ChildInv, Holding, Fresh, Others
<1>8. ASSUME NEW r \in Run, Begin(r) PROVE ChildInv'
  BY <1>8, <1>t, BeginIs DEF OrderInv, ChildInv, Holding, Fresh, Others
<1>9. ASSUME NEW r \in Run, BeginRefused(r) PROVE ChildInv'
  BY <1>9, <1>t, BeginRefusedIs DEF OrderInv, ChildInv, Holding, Fresh, Others
<1>10. ASSUME NEW r \in Run, Opened(r) PROVE ChildInv'
  BY <1>10, <1>t, OpenedIs DEF OrderInv, ChildInv, Holding, Fresh, Others
<1>11. ASSUME NEW r \in Run, PromptEnds(r) PROVE ChildInv'
  BY <1>11, <1>t, PromptEndsIs DEF OrderInv, ChildInv, Holding, Fresh, Others
<1>12. ASSUME NEW r \in Run, Flushed(r) PROVE ChildInv'
  BY <1>12, <1>t, FlushedIs DEF OrderInv, ChildInv, Holding, Fresh, Others
<1>13. ASSUME NEW r \in Run, Throws(r) PROVE ChildInv'
  BY <1>13, <1>t, ThrowsIs DEF OrderInv, ChildInv, Holding, Fresh, Others, Awaits
<1>14. CASE UNCHANGED vars
  BY <1>14, <1>t DEF vars, callers, children, OrderInv, ChildInv, Holding, Fresh
<1>. QED
  BY <1>1, <1>2, <1>3, <1>4, <1>5, <1>6, <1>7, <1>8, <1>9, <1>10, <1>11, <1>12, <1>13, <1>14
  DEF Next, HostStep, Execute

LEMMA UserStep ==
  ASSUME Types, OrderInv, ChildInv, UserInv, [Next]_vars
  PROVE  UserInv'
<1> USE RunFacts
<1>t. /\ \A q \in Run : child[q] \in RunOrNone /\ user[q] \in RunOrNone
      /\ mapped \in RunOrNone /\ disposed \subseteq Run /\ aborted \subseteq Run
  BY DEF Types
<1>1. ASSUME NEW r \in Run, Dispatch(r) PROVE UserInv'
  BY <1>1, <1>t, DispatchIs DEF OrderInv, ChildInv, UserInv, Holding, Others
<1>2. ASSUME NEW r \in Run, StopRun(r) PROVE UserInv'
  BY <1>2, <1>t, StopRunIs DEF OrderInv, ChildInv, UserInv, Holding, Others
<1>3. ASSUME NEW r \in Run, Enforce(r) PROVE UserInv'
  BY <1>3, <1>t, EnforceIs DEF OrderInv, ChildInv, UserInv, Holding, Others
<1>4. ASSUME NEW r \in Run, Reconcile(r) PROVE UserInv'
  BY <1>4, <1>t, ReconcileIs DEF OrderInv, ChildInv, UserInv, Holding, Others
<1>5. ASSUME Close PROVE UserInv'
  BY <1>5, <1>t, CloseIs DEF OrderInv, ChildInv, UserInv, Holding, Others
<1>6. ASSUME NEW r \in Run, Probed(r) PROVE UserInv'
  BY <1>6, <1>t, ProbedIs DEF OrderInv, ChildInv, UserInv, Holding, Others
<1>7. ASSUME NEW r \in Run, Bound(r) PROVE UserInv'
  BY <1>7, <1>t, BoundIs DEF OrderInv, ChildInv, UserInv, Holding, Others
<1>8. ASSUME NEW r \in Run, Begin(r) PROVE UserInv'
  BY <1>8, <1>t, BeginIs DEF OrderInv, ChildInv, UserInv, Holding, Others
<1>9. ASSUME NEW r \in Run, BeginRefused(r) PROVE UserInv'
  BY <1>9, <1>t, BeginRefusedIs DEF OrderInv, ChildInv, UserInv, Holding, Others
<1>10. ASSUME NEW r \in Run, Opened(r) PROVE UserInv'
  BY <1>10, <1>t, OpenedIs DEF OrderInv, ChildInv, UserInv, Holding, Others
<1>11. ASSUME NEW r \in Run, PromptEnds(r) PROVE UserInv'
  BY <1>11, <1>t, PromptEndsIs DEF OrderInv, ChildInv, UserInv, Holding, Others
<1>12. ASSUME NEW r \in Run, Flushed(r) PROVE UserInv'
  BY <1>12, <1>t, FlushedIs DEF OrderInv, ChildInv, UserInv, Holding, Others
<1>13. ASSUME NEW r \in Run, Throws(r) PROVE UserInv'
  BY <1>13, <1>t, ThrowsIs DEF OrderInv, ChildInv, UserInv, Holding, Others, Awaits
<1>14. CASE UNCHANGED vars
  BY <1>14, <1>t DEF vars, callers, children, OrderInv, ChildInv, UserInv, Holding
<1>. QED
  BY <1>1, <1>2, <1>3, <1>4, <1>5, <1>6, <1>7, <1>8, <1>9, <1>10, <1>11, <1>12, <1>13, <1>14
  DEF Next, HostStep, Execute

LEMMA OwnStep ==
  ASSUME Types, OrderInv, ChildInv, OwnInv, [Next]_vars
  PROVE  OwnInv'
<1> USE RunFacts
<1>t. /\ \A q \in Run : child[q] \in RunOrNone /\ user[q] \in RunOrNone
      /\ mapped \in RunOrNone /\ disposed \subseteq Run /\ aborted \subseteq Run
  BY DEF Types
<1>1. ASSUME NEW r \in Run, Dispatch(r) PROVE OwnInv'
  BY <1>1, <1>t, DispatchIs DEF OrderInv, ChildInv, OwnInv, Holding, Fresh, Others
<1>2. ASSUME NEW r \in Run, StopRun(r) PROVE OwnInv'
  BY <1>2, <1>t, StopRunIs DEF OrderInv, ChildInv, OwnInv, Holding, Fresh, Others
<1>3. ASSUME NEW r \in Run, Enforce(r) PROVE OwnInv'
  BY <1>3, <1>t, EnforceIs DEF OrderInv, ChildInv, OwnInv, Holding, Fresh, Others
<1>4. ASSUME NEW r \in Run, Reconcile(r) PROVE OwnInv'
  BY <1>4, <1>t, ReconcileIs DEF OrderInv, ChildInv, OwnInv, Holding, Fresh, Others
<1>5. ASSUME Close PROVE OwnInv'
  BY <1>5, <1>t, CloseIs DEF OrderInv, ChildInv, OwnInv, Holding, Fresh, Others
<1>6. ASSUME NEW r \in Run, Probed(r) PROVE OwnInv'
  BY <1>6, <1>t, ProbedIs DEF OrderInv, ChildInv, OwnInv, Holding, Fresh, Others
<1>7. ASSUME NEW r \in Run, Bound(r) PROVE OwnInv'
  BY <1>7, <1>t, BoundIs DEF OrderInv, ChildInv, OwnInv, Holding, Fresh, Others
<1>8. ASSUME NEW r \in Run, Begin(r) PROVE OwnInv'
  BY <1>8, <1>t, BeginIs DEF OrderInv, ChildInv, OwnInv, Holding, Fresh, Others
<1>9. ASSUME NEW r \in Run, BeginRefused(r) PROVE OwnInv'
  BY <1>9, <1>t, BeginRefusedIs DEF OrderInv, ChildInv, OwnInv, Holding, Fresh, Others
<1>10. ASSUME NEW r \in Run, Opened(r) PROVE OwnInv'
  BY <1>10, <1>t, OpenedIs DEF OrderInv, ChildInv, OwnInv, Holding, Fresh, Others
<1>11. ASSUME NEW r \in Run, PromptEnds(r) PROVE OwnInv'
  BY <1>11, <1>t, PromptEndsIs DEF OrderInv, ChildInv, OwnInv, Holding, Fresh, Others
<1>12. ASSUME NEW r \in Run, Flushed(r) PROVE OwnInv'
  BY <1>12, <1>t, FlushedIs DEF OrderInv, ChildInv, OwnInv, Holding, Fresh, Others
<1>13. ASSUME NEW r \in Run, Throws(r) PROVE OwnInv'
  BY <1>13, <1>t, ThrowsIs DEF OrderInv, ChildInv, OwnInv, Holding, Fresh, Others, Awaits
<1>14. CASE UNCHANGED vars
  BY <1>14, <1>t DEF vars, callers, children, OrderInv, ChildInv, OwnInv, Holding, Fresh
<1>. QED
  BY <1>1, <1>2, <1>3, <1>4, <1>5, <1>6, <1>7, <1>8, <1>9, <1>10, <1>11, <1>12, <1>13, <1>14
  DEF Next, HostStep, Execute

LEMMA AbortStep ==
  ASSUME Types, OrderInv, UserInv, AbortInv, [Next]_vars
  PROVE  AbortInv'
<1> USE RunFacts
<1>t. /\ \A q \in Run : child[q] \in RunOrNone /\ user[q] \in RunOrNone
      /\ mapped \in RunOrNone /\ disposed \subseteq Run /\ aborted \subseteq Run
  BY DEF Types
<1>1. ASSUME NEW r \in Run, Dispatch(r) PROVE AbortInv'
  BY <1>1, <1>t, DispatchIs DEF OrderInv, UserInv, AbortInv, Others
<1>2. ASSUME NEW r \in Run, StopRun(r) PROVE AbortInv'
  BY <1>2, <1>t, StopRunIs DEF OrderInv, UserInv, AbortInv, Others
<1>3. ASSUME NEW r \in Run, Enforce(r) PROVE AbortInv'
  BY <1>3, <1>t, EnforceIs DEF OrderInv, UserInv, AbortInv, Others
<1>4. ASSUME NEW r \in Run, Reconcile(r) PROVE AbortInv'
  BY <1>4, <1>t, ReconcileIs DEF OrderInv, UserInv, AbortInv, Others
<1>5. ASSUME Close PROVE AbortInv'
  BY <1>5, <1>t, CloseIs DEF OrderInv, UserInv, AbortInv, Others
<1>6. ASSUME NEW r \in Run, Probed(r) PROVE AbortInv'
  BY <1>6, <1>t, ProbedIs DEF OrderInv, UserInv, AbortInv, Others
<1>7. ASSUME NEW r \in Run, Bound(r) PROVE AbortInv'
  BY <1>7, <1>t, BoundIs DEF OrderInv, UserInv, AbortInv, Others
<1>8. ASSUME NEW r \in Run, Begin(r) PROVE AbortInv'
  BY <1>8, <1>t, BeginIs DEF OrderInv, UserInv, AbortInv, Others
<1>9. ASSUME NEW r \in Run, BeginRefused(r) PROVE AbortInv'
  BY <1>9, <1>t, BeginRefusedIs DEF OrderInv, UserInv, AbortInv, Others
<1>10. ASSUME NEW r \in Run, Opened(r) PROVE AbortInv'
  BY <1>10, <1>t, OpenedIs DEF OrderInv, UserInv, AbortInv, Others
<1>11. ASSUME NEW r \in Run, PromptEnds(r) PROVE AbortInv'
  BY <1>11, <1>t, PromptEndsIs DEF OrderInv, UserInv, AbortInv, Others
<1>12. ASSUME NEW r \in Run, Flushed(r) PROVE AbortInv'
  BY <1>12, <1>t, FlushedIs DEF OrderInv, UserInv, AbortInv, Others
<1>13. ASSUME NEW r \in Run, Throws(r) PROVE AbortInv'
  BY <1>13, <1>t, ThrowsIs DEF OrderInv, UserInv, AbortInv, Others, Awaits
<1>14. CASE UNCHANGED vars
  BY <1>14, <1>t DEF vars, callers, children, OrderInv, UserInv, AbortInv
<1>. QED
  BY <1>1, <1>2, <1>3, <1>4, <1>5, <1>6, <1>7, <1>8, <1>9, <1>10, <1>11, <1>12, <1>13, <1>14
  DEF Next, HostStep, Execute

-----------------------------------------------------------------------------
LEMMA InitInv ==
  ASSUME Init
  PROVE  Inv
<1>1. Types
  BY RunFacts DEF Init, Types, States, Places
<1>2. OrderInv /\ ChildInv /\ UserInv /\ OwnInv /\ AbortInv
  BY <1>1 DEF Init, OrderInv, ChildInv, UserInv, OwnInv, AbortInv, Holding
<1>. QED BY <1>1, <1>2 DEF Inv

LEMMA NextInv ==
  ASSUME Inv, [Next]_vars
  PROVE  Inv'
BY TypesStep, OrderStep, ChildStep, UserStep, OwnStep, AbortStep DEF Inv

\* What the Host, the worker objects and the children hold is of these forms,
\* and a child is in use by no run but one that executes on it.
THEOREM AdapterTypeCorrect == Spec => []TypeOK
<1>1. ASSUME Inv PROVE TypeOK
  <2>1. mapped \in {None} \union (Run \ disposed)
    BY <1>1, RunFacts DEF Inv, Types, ChildInv
  <2>. QED BY <1>1, <2>1 DEF Inv, Types, UserInv, TypeOK, States, Places, RunOrNone
<1>. QED BY <1>1, InitInv, NextInv, PTL DEF Spec

\* Neither Stop nor the close of a sleeping or archived Session aborts the
\* prompt of a Run that was not stopped, however late an earlier one ends.
THEOREM AbortHitsItsRunCorrect == Spec => []AbortHitsItsRun
<1>1. ASSUME Inv PROVE AbortHitsItsRun
  BY <1>1 DEF Inv, AbortInv, AbortHitsItsRun
<1>. QED BY <1>1, InitInv, NextInv, PTL DEF Spec

\* The UI context that a child keeps for its next question is the executing
\* Run's, whatever the runs before it still do on the child.
THEOREM AsksUnderItsOwnRunCorrect == Spec => []AsksUnderItsOwnRun
<1>1. ASSUME Inv PROVE AsksUnderItsOwnRun
  BY <1>1 DEF Inv, OwnInv, Holding, AsksUnderItsOwnRun
<1>. QED BY <1>1, InitInv, NextInv, PTL DEF Spec

\* pi-child-generation-busy and -disposed reach an executing Run only while the
\* prompt of a Run that was stopped or forced still runs on the child.
THEOREM RefusedCorrect == Spec => RefusedOnlyBehindStopped
<1> DEFINE Behind(r) ==
      \E q \in Run \ {r} : child[q] = child[r] /\ pc[q] \in {"session", "prompt"} /\ host[q] # "executing"
<1>1. ASSUME Inv, NEW r \in Run, host[r] = "executing", BeginRefused(r) PROVE Behind(r)
  <2>1. pc[r] = "configure" /\ ~Free(child[r])
    BY <1>1 DEF BeginRefused
  <2>2. child[r] \in Run /\ child[r] \notin disposed
    BY <1>1, <2>1, RunFacts DEF Inv, Types, ChildInv, OwnInv, Holding
  <2>3. user[child[r]] # None
    BY <2>1, <2>2 DEF Free
  <2>4. user[child[r]] \in Run
    BY <1>1, <2>2, <2>3, RunFacts DEF Inv, Types
  <2>5. pc[user[child[r]]] \in {"session", "prompt"} /\ child[user[child[r]]] = child[r]
    BY <1>1, <2>2, <2>3 DEF Inv, UserInv
  <2>6. user[child[r]] # r
    BY <2>1, <2>5
  <2>7. host[user[child[r]]] # "executing"
    BY <1>1, <2>4, <2>6, RunFacts DEF Inv, OrderInv
  <2>. QED BY <2>4, <2>5, <2>6, <2>7
<1>2. ASSUME Inv, [Next]_vars PROVE [\A r \in Run : host[r] = "executing" /\ BeginRefused(r) => Behind(r)]_vars
  BY <1>1, <1>2
<1>. QED BY <1>2, InitInv, NextInv, PTL DEF Spec, RefusedOnlyBehindStopped

-----------------------------------------------------------------------------
(* The duplex.                                                             *)

FrameTypes ==
  {"bootstrap", "execute", "stop", "steer", "answer", "misfit",
   "ready", "request", "applied", "checkpoint", "completed", "cancelled", "fault"}
Frames == [type : FrameTypes, run : Runs \cup {Nil}, ask : Asks \cup {Nil}, ordered : BOOLEAN]

\* Frames that bear on the Run they name, and frames that end it.
Bears(f) == f.run # Nil /\ f.type \in {"request", "completed", "cancelled", "fault"}
Ends(f) == f.run # Nil /\ f.type \in {"completed", "cancelled", "fault"}

\* Which frames may follow which in one direction.
Twice(f, g, type) == f.type = type /\ g.type = type
Follows(f, g) ==
  /\ ~Twice(f, g, "ready")
  /\ Ends(f) => ~Bears(g)
  /\ f.ask = g.ask => ~Twice(f, g, "request") /\ ~Twice(f, g, "applied")
ToHostOrder == {p \in Frames \X Frames : Follows(p[1], p[2])}
Succeeds(f, g) ==
  /\ ~Twice(f, g, "bootstrap") /\ ~Twice(f, g, "execute")
  /\ f.ask = g.ask => ~Twice(f, g, "answer")
ToWorkerOrder == {p \in Frames \X Frames : Succeeds(p[1], p[2])}

Has(s) == {s[n] : n \in 1 .. Len(s)}
Sorted(s, order) == \A m, n \in 1 .. Len(s) : m < n => <<s[m], s[n]>> \in order

-----------------------------------------------------------------------------
(* Streams of any elements, in any order of them.                          *)

LEMMA TailOfStream ==
  ASSUME NEW S, NEW order, NEW s \in Seq(S), s # <<>>
  PROVE  /\ Tail(s) \in Seq(S) /\ Head(s) \in S
         /\ Head(s) \in Has(s) /\ Has(Tail(s)) \subseteq Has(s)
         /\ Sorted(s, order) => /\ Sorted(Tail(s), order)
                                /\ \A f \in Has(Tail(s)) : <<Head(s), f>> \in order
<1>1. /\ Len(s) \in Nat \ {0} /\ Head(s) = s[1] /\ Len(Tail(s)) = Len(s) - 1
      /\ Tail(s) \in Seq(S) /\ Head(s) \in S
      /\ \A n \in 1 .. Len(s) - 1 : Tail(s)[n] = s[n + 1]
  OBVIOUS
<1>2. 1 \in 1 .. Len(s) /\ \A n \in 1 .. Len(s) - 1 : n + 1 \in 1 .. Len(s) /\ 1 < n + 1
  BY <1>1
<1>3. Head(s) \in Has(s) /\ Has(Tail(s)) \subseteq Has(s)
  BY <1>1, <1>2 DEF Has
<1>4. ASSUME Sorted(s, order) PROVE Sorted(Tail(s), order)
  <2> SUFFICES ASSUME NEW m \in 1 .. Len(s) - 1, NEW n \in 1 .. Len(s) - 1, m < n
               PROVE  <<Tail(s)[m], Tail(s)[n]>> \in order
    BY <1>1 DEF Sorted
  <2>1. m + 1 < n + 1 /\ m + 1 \in 1 .. Len(s) /\ n + 1 \in 1 .. Len(s)
    BY <1>2
  <2>2. <<s[m + 1], s[n + 1]>> \in order
    BY <1>4, <2>1 DEF Sorted
  <2>. QED BY <1>1, <2>2
<1>5. ASSUME Sorted(s, order), NEW f \in Has(Tail(s)) PROVE <<Head(s), f>> \in order
  <2>1. PICK n \in 1 .. Len(s) - 1 : f = s[n + 1]
    BY <1>1, <1>5 DEF Has
  <2>2. <<s[1], s[n + 1]>> \in order
    BY <1>2, <1>5 DEF Sorted
  <2>. QED BY <1>1, <2>1, <2>2
<1>. QED BY <1>1, <1>3, <1>4, <1>5

LEMMA AppendToStream ==
  ASSUME NEW S, NEW order, NEW s \in Seq(S), NEW x \in S
  PROVE  /\ Append(s, x) \in Seq(S) /\ Has(Append(s, x)) = Has(s) \cup {x}
         /\ Sorted(s, order) /\ (\A f \in Has(s) : <<f, x>> \in order)
              => Sorted(Append(s, x), order)
<1>1. /\ Len(s) \in Nat /\ Append(s, x) \in Seq(S) /\ Len(Append(s, x)) = Len(s) + 1
      /\ Append(s, x)[Len(s) + 1] = x
      /\ \A n \in 1 .. Len(s) : Append(s, x)[n] = s[n]
  OBVIOUS
<1>2. \A n \in 1 .. Len(s) + 1 : n \in 1 .. Len(s) \/ n = Len(s) + 1
  BY <1>1
<1>3. Len(s) + 1 \in 1 .. Len(s) + 1 /\ 1 .. Len(s) \subseteq 1 .. Len(s) + 1
  BY <1>1
<1>4. Has(Append(s, x)) = Has(s) \cup {x}
  BY <1>1, <1>2, <1>3 DEF Has
<1>5. ASSUME Sorted(s, order), \A f \in Has(s) : <<f, x>> \in order
      PROVE  Sorted(Append(s, x), order)
  <2> SUFFICES ASSUME NEW m \in 1 .. Len(s) + 1, NEW n \in 1 .. Len(s) + 1, m < n
               PROVE  <<Append(s, x)[m], Append(s, x)[n]>> \in order
    BY <1>1 DEF Sorted
  <2>1. m \in 1 .. Len(s)
    BY <1>1
  <2>2. CASE n \in 1 .. Len(s)
    BY <1>1, <1>5, <2>1, <2>2 DEF Sorted
  <2>3. CASE n = Len(s) + 1
    <3>1. s[m] \in Has(s)
      BY <2>1 DEF Has
    <3>. QED BY <1>1, <1>5, <2>1, <2>3, <3>1
  <2>. QED BY <1>2, <2>2, <2>3
<1>. QED BY <1>1, <1>4, <1>5

LEMMA PrefixOfStream ==
  ASSUME NEW S, NEW order, NEW s \in Seq(S), NEW p \in Prefixes(s)
  PROVE  /\ p \in Seq(S) /\ Has(p) \subseteq Has(s)
         /\ Sorted(s, order) => Sorted(p, order)
<1>1. PICK l \in 0 .. Len(s) : p = SubSeq(s, 1, l)
  BY DEF Prefixes
<1>2. /\ Len(s) \in Nat /\ p \in Seq(S) /\ Len(p) = l
      /\ \A n \in 1 .. l : p[n] = s[n] /\ n \in 1 .. Len(s)
  BY <1>1
<1>. QED BY <1>2 DEF Has, Sorted

LEMMA OrdersAre ==
  ASSUME NEW f \in Frames, NEW g \in Frames
  PROVE  /\ <<f, g>> \in ToHostOrder <=> Follows(f, g)
         /\ <<f, g>> \in ToWorkerOrder <=> Succeeds(f, g)
<1>1. <<f, g>> \in Frames \X Frames /\ <<f, g>>[1] = f /\ <<f, g>>[2] = g
  OBVIOUS
<1>2. <<f, g>> \in ToHostOrder <=> Follows(<<f, g>>[1], <<f, g>>[2])
  BY <1>1, Zenon DEF ToHostOrder
<1>3. <<f, g>> \in ToWorkerOrder <=> Succeeds(<<f, g>>[1], <<f, g>>[2])
  BY <1>1, Zenon DEF ToWorkerOrder
<1>. QED BY <1>1, <1>2, <1>3

-----------------------------------------------------------------------------
(* What the frames under way say.                                          *)

HostInv ==
  /\ lifecycle.run \in lifecycle.used \cup {Nil}
  /\ lifecycle.failed => broken

EndpointInv ==
  /\ endpoint.phase # "none" <=> endpoint.run # Nil
  /\ endpoint.stop => endpoint.run \in asked
  /\ \A i \in pending : i \in 1 .. endpoint.asks /\ got[i] = "nothing"
  /\ \A i \in Asks : i > endpoint.asks => got[i] = "nothing"

\* An outcome follows its checkpoint, a cancellation its stop.
CheckpointInv ==
  /\ manifests \subseteq chunks
  /\ \A f \in Has(toHost) : f.type \in {"completed", "cancelled"} => f.run \in manifests
  /\ \A f \in Has(toHost) : f.type = "cancelled" => f.run \in asked
  /\ \A f \in Has(toWorker) : f.type = "stop" => f.run \in asked
  /\ \A r \in Runs : outcome[r] \in {"completed", "cancelled"} => r \in manifests
  /\ \A r \in Runs : outcome[r] = "cancelled" => r \in asked

\* An acknowledgement follows the answer.
AnswerInv ==
  /\ \A f \in Has(toHost) : f.type = "applied" => f.ask \in Asks /\ got[f.ask] = "answer"
  /\ \A i \in Asks : ask[i] = "responded" => got[i] = "answer"

ToHostInv ==
  /\ toHost \in Seq(Frames) /\ Sorted(toHost, ToHostOrder)
  /\ ~gap => \A f \in Has(toHost) : f.ordered
  /\ \A f \in Has(toHost) : f.type \in {"request", "completed", "cancelled"} => f.run # Nil
  /\ \A f \in Has(toHost) : f.type = "request" => f.ask \in 1 .. endpoint.asks

ToWorkerInv ==
  /\ toWorker \in Seq(Frames) /\ Sorted(toWorker, ToWorkerOrder)
  /\ \A f \in Has(toWorker) : f.type \in {"execute", "stop"} => f.run # Nil
  /\ \A f \in Has(toWorker) : f.type = "answer" => f.ask # Nil

\* The Run the Host waits for is under way in one place: an execute frame, the
\* endpoint, or the frame that ends it.
RunInv ==
  ~lifecycle.failed =>
    /\ endpoint.run \in {Nil, lifecycle.run}
    /\ \A f \in Has(toWorker) : f.type = "execute" => f.run = lifecycle.run /\ endpoint.run = Nil
    /\ \A f \in Has(toHost) : Bears(f) =>
         f.run = lifecycle.run /\ \A e \in Has(toWorker) : e.type # "execute"
    /\ \A f \in Has(toHost) : Ends(f) => endpoint.run = Nil

\* So is the generation's readiness: not yet asked for, or announced once.
ReadyInv ==
  ~lifecycle.failed =>
    /\ \A f \in Has(toHost) : f.type = "ready" =>
         ~lifecycle.ready /\ \A b \in Has(toWorker) : b.type # "bootstrap"
    /\ \A f \in Has(toWorker) : f.type = "bootstrap" => ~lifecycle.ready

\* And each Interaction: requested once, answered once, acknowledged once.
AskInv ==
  ~lifecycle.failed =>
    /\ \A f \in Has(toHost) : f.type = "request" => ask[f.ask] = "none"
    /\ \A i \in Asks : i > endpoint.asks => ask[i] = "none"
    /\ \A f \in Has(toHost) : f.type = "applied" =>
         ask[f.ask] = "applying" /\ \A a \in Has(toWorker) : a.type = "answer" => a.ask # f.ask
    /\ \A f \in Has(toWorker) : f.type = "answer" => ask[f.ask] = "applying"

DuplexInv ==
  /\ DuplexTypeOK /\ HostInv /\ EndpointInv /\ CheckpointInv /\ AnswerInv
  /\ ToHostInv /\ ToWorkerInv /\ RunInv /\ ReadyInv /\ AskInv

-----------------------------------------------------------------------------
(* What a step does to the streams.                                        *)

\* What a side reads and what is lost leaves the rest as it was.
Dropped ==
  /\ toWorker' \in Seq(Frames) /\ Sorted(toWorker', ToWorkerOrder)
  /\ Has(toWorker') \subseteq Has(toWorker)

\* Nothing arrives but faults that name no Run.
Unheard ==
  /\ toHost' \in Seq(Frames) /\ Sorted(toHost', ToHostOrder)
  /\ \A f \in Has(toHost') :
       f \in Has(toHost) \/ (f.type = "fault" /\ f.run = Nil /\ f.ordered = ~gap)

\* #send: one frame more, numbered in order unless a number was spent in vain.
LEMMA SendIs ==
  ASSUME ToHostInv, gap \in BOOLEAN, NEW x \in Frames, Send(<<x>>)
  PROVE  \E y \in Frames :
           /\ y.type = x.type /\ y.run = x.run /\ y.ask = x.ask /\ y.ordered = ~gap
           /\ toHost' \in Seq(Frames) /\ Has(toHost') = Has(toHost) \cup {y}
           /\ (\A f \in Has(toHost) : Follows(f, y)) => Sorted(toHost', ToHostOrder)
<1> DEFINE y == [x EXCEPT !.ordered = ~gap]
<1>1. y \in Frames /\ y.type = x.type /\ y.run = x.run /\ y.ask = x.ask /\ y.ordered = ~gap
  BY DEF Frames
<1>2. [n \in DOMAIN <<x>> |-> [<<x>>[n] EXCEPT !.ordered = ~gap]] = <<y>>
  OBVIOUS
<1>3. toHost' = toHost \o <<y>>
  BY <1>2 DEF Send
<1> HIDE DEF y
<1>4. toHost' = Append(toHost, y)
  BY <1>1, <1>3 DEF ToHostInv
<1>5. Has(toHost) \subseteq Frames
  BY DEF ToHostInv, Has
<1>6. /\ toHost' \in Seq(Frames) /\ Has(toHost') = Has(toHost) \cup {y}
      /\ (\A f \in Has(toHost) : <<f, y>> \in ToHostOrder) => Sorted(toHost', ToHostOrder)
  BY <1>1, <1>4, AppendToStream DEF ToHostInv
<1>7. (\A f \in Has(toHost) : Follows(f, y)) => \A f \in Has(toHost) : <<f, y>> \in ToHostOrder
  BY <1>1, <1>5, OrdersAre
<1>. QED BY <1>1, <1>6, <1>7

\* #sendFault of what #accept throws.
LEMMA StaleIs ==
  ASSUME ToHostInv, gap \in BOOLEAN, Fault(<<Stale>>) \/ UNCHANGED toHost
  PROVE  Unheard
<1>1. CASE UNCHANGED toHost
  BY <1>1 DEF Unheard, ToHostInv
<1>2. CASE Send(<<Stale>>)
  <2>1. Stale \in Frames /\ Stale.type = "fault" /\ Stale.run = Nil
    BY DEF Stale, Frame, Frames, FrameTypes
  <2>2. PICK y \in Frames :
           /\ y.type = "fault" /\ y.run = Nil /\ y.ordered = ~gap
           /\ toHost' \in Seq(Frames) /\ Has(toHost') = Has(toHost) \cup {y}
           /\ (\A f \in Has(toHost) : Follows(f, y)) => Sorted(toHost', ToHostOrder)
    BY <1>2, <2>1, SendIs
  <2>3. \A f \in Has(toHost) : Follows(f, y)
    BY <2>2 DEF Follows, Twice, Ends, Bears
  <2>. QED BY <2>2, <2>3 DEF Unheard
<1>. QED BY <1>1, <1>2 DEF Fault

\* The next frame is taken from the stream to the worker.
LEMMA HandlesIs ==
  ASSUME ToWorkerInv, NEW type, Handles(type)
  PROVE  /\ Dropped /\ Head(toWorker) \in Has(toWorker) /\ Head(toWorker) \in Frames
         /\ Head(toWorker).type = type /\ endpoint.up /\ ~endpoint.aborting
         /\ \A f \in Has(toWorker') : Succeeds(Head(toWorker), f)
<1>1. /\ toWorker' \in Seq(Frames) /\ Head(toWorker) \in Frames
      /\ Head(toWorker) \in Has(toWorker) /\ Has(toWorker') \subseteq Has(toWorker)
      /\ Sorted(toWorker', ToWorkerOrder)
      /\ \A f \in Has(toWorker') : <<Head(toWorker), f>> \in ToWorkerOrder
  BY TailOfStream DEF Handles, ToWorkerInv
<1>2. Has(toWorker') \subseteq Frames
  BY <1>1 DEF Has
<1>3. \A f \in Has(toWorker') : Succeeds(Head(toWorker), f)
  BY <1>1, <1>2, OrdersAre
<1>. QED BY <1>1, <1>3 DEF Handles, Dropped

\* The next frame is taken from the stream to the Host.
LEMMA ReceivesIs ==
  ASSUME ToHostInv, toHost # <<>>, toHost' = Tail(toHost)
  PROVE  /\ Unheard /\ Head(toHost) \in Has(toHost) /\ Head(toHost) \in Frames
         /\ Has(toHost') \subseteq Has(toHost)
         /\ \A f \in Has(toHost') : Follows(Head(toHost), f)
<1>1. /\ toHost' \in Seq(Frames) /\ Head(toHost) \in Frames
      /\ Head(toHost) \in Has(toHost) /\ Has(toHost') \subseteq Has(toHost)
      /\ Sorted(toHost', ToHostOrder)
      /\ \A f \in Has(toHost') : <<Head(toHost), f>> \in ToHostOrder
  BY TailOfStream DEF ToHostInv
<1>2. Has(toHost') \subseteq Frames
  BY <1>1 DEF Has
<1>3. \A f \in Has(toHost') : Follows(Head(toHost), f)
  BY <1>1, <1>2, OrdersAre
<1>. QED BY <1>1, <1>3 DEF Unheard

\* A frame is added to the stream to the worker.
LEMMA TellIs ==
  ASSUME ToWorkerInv, NEW x \in Frames, Tell(x)
  PROVE  /\ toWorker' \in Seq(Frames) /\ Has(toWorker') = Has(toWorker) \cup {x}
         /\ (\A f \in Has(toWorker) : Succeeds(f, x)) => Sorted(toWorker', ToWorkerOrder)
<1>1. Has(toWorker) \subseteq Frames
  BY DEF ToWorkerInv, Has
<1>2. /\ toWorker' \in Seq(Frames) /\ Has(toWorker') = Has(toWorker) \cup {x}
      /\ (\A f \in Has(toWorker) : <<f, x>> \in ToWorkerOrder) => Sorted(toWorker', ToWorkerOrder)
  BY AppendToStream DEF ToWorkerInv, Tell
<1>3. (\A f \in Has(toWorker) : Succeeds(f, x)) =>
        \A f \in Has(toWorker) : <<f, x>> \in ToWorkerOrder
  BY <1>1, OrdersAre
<1>. QED BY <1>2, <1>3

-----------------------------------------------------------------------------
(* Types.                                                                  *)

Lifecycles == [ready : BOOLEAN, failed : BOOLEAN, run : Runs \cup {Nil}, used : SUBSET Runs]
Endpoints ==
  [up : BOOLEAN, bound : BOOLEAN, session : BOOLEAN, run : Runs \cup {Nil},
   phase : {"none", "opening", "prompt", "publish"},
   stop : BOOLEAN, aborting : BOOLEAN, asks : 0 .. MaxAsks, closing : BOOLEAN]
DataOK ==
  /\ outcome \in [Runs -> {"none", "completed", "cancelled", "failed", "interrupted"}]
  /\ ask \in [Asks -> {"none", "open", "applying", "responded", "withdrawn"}]
  /\ asked \subseteq Runs /\ steered \subseteq Runs
  /\ broken \in BOOLEAN /\ gap \in BOOLEAN
  /\ pending \subseteq Asks
  /\ got \in [Asks -> {"nothing", "default", "answer"}]
  /\ chunks \subseteq Runs /\ manifests \subseteq Runs
  /\ mishaps \in 0 .. MaxMishaps

LEMMA DuplexTypes ==
  DuplexTypeOK <=> /\ lifecycle \in Lifecycles /\ endpoint \in Endpoints /\ DataOK
                   /\ asked \subseteq lifecycle.used /\ steered \subseteq lifecycle.used
<1>1. lifecycle \in Lifecycles => lifecycle.used \subseteq Runs
  BY DEF Lifecycles
<1>. QED BY <1>1 DEF DuplexTypeOK, Lifecycles, Endpoints, DataOK

LEMMA DuplexTypesNext ==
  DuplexTypeOK' <=> (/\ lifecycle \in Lifecycles /\ endpoint \in Endpoints /\ DataOK
                     /\ asked \subseteq lifecycle.used /\ steered \subseteq lifecycle.used)'
BY DuplexTypes, PTL

\* What the fields of the records become.
Same(d, e) == d.run = e.run /\ d.phase = e.phase /\ d.stop = e.stop /\ d.asks = e.asks

LEMMA EndpointFields ==
  ASSUME NEW e \in Endpoints
  PROVE  /\ e.run \in Runs \cup {Nil} /\ e.phase \in {"none", "opening", "prompt", "publish"}
         /\ e.stop \in BOOLEAN /\ e.asks \in 0 .. MaxAsks
BY DEF Endpoints

LEMMA EndpointStays ==
  ASSUME NEW e \in Endpoints, NEW d,
         \/ d = [e EXCEPT !.bound = TRUE]
         \/ d = [e EXCEPT !.aborting = FALSE]
         \/ d = [e EXCEPT !.up = FALSE]
         \/ d = [e EXCEPT !.closing = TRUE]
  PROVE  d \in Endpoints /\ Same(d, e)
BY DEF Endpoints, Same

LEMMA EndpointStops ==
  ASSUME NEW e \in Endpoints, NEW b \in BOOLEAN, NEW d,
         d = [e EXCEPT !.stop = TRUE, !.aborting = b]
  PROVE  d \in Endpoints /\ d.run = e.run /\ d.phase = e.phase /\ d.stop = TRUE /\ d.asks = e.asks
BY DEF Endpoints

LEMMA EndpointMoves ==
  ASSUME NEW e \in Endpoints, NEW d,
         \/ d = [e EXCEPT !.phase = "prompt", !.session = TRUE]
         \/ d = [e EXCEPT !.phase = "publish"]
  PROVE  d \in Endpoints /\ d.run = e.run /\ d.phase # "none" /\ d.stop = e.stop /\ d.asks = e.asks
BY DEF Endpoints

LEMMA EndpointAsks ==
  ASSUME NEW e \in Endpoints, e.asks < MaxAsks, NEW d, d = [e EXCEPT !.asks = @ + 1]
  PROVE  /\ d \in Endpoints /\ d.run = e.run /\ d.phase = e.phase /\ d.stop = e.stop
         /\ d.asks = e.asks + 1 /\ d.asks \in Asks
<1>1. e.asks \in 0 .. MaxAsks /\ e.asks + 1 \in 0 .. MaxAsks /\ e.asks + 1 \in Asks
  BY DuplexAssumption DEF Endpoints, Asks, DuplexAssumption
<1>2. d = [e EXCEPT !.asks = e.asks + 1]
  OBVIOUS
<1>. QED BY <1>1, <1>2 DEF Endpoints

LEMMA EndpointStarts ==
  ASSUME endpoint \in Endpoints, NEW r \in Runs, NEW d, d = Started(r)
  PROVE  /\ d \in Endpoints /\ d.run = r /\ d.phase # "none"
         /\ d.stop = FALSE /\ d.asks = endpoint.asks
<1> DEFINE place == IF endpoint.session THEN "prompt" ELSE "opening"
<1>1. place \in {"opening", "prompt"}
  OBVIOUS
<1>2. d = [endpoint EXCEPT !.run = r, !.phase = place, !.stop = FALSE]
  BY DEF Started
<1> HIDE DEF place
<1>. QED BY <1>1, <1>2 DEF Endpoints

LEMMA EndpointFrees ==
  ASSUME endpoint \in Endpoints, NEW d, d = NoRun
  PROVE  /\ d \in Endpoints /\ d.run = Nil /\ d.phase = "none" /\ d.stop = FALSE
         /\ d.asks = endpoint.asks
BY DEF Endpoints, NoRun

-----------------------------------------------------------------------------
(* Steps that neither side hears of.                                       *)

\* Nothing of what the invariant relates comes up: frames are lost or handled in
\* silence or with a fault that names no Run, a Run may be given up.
Quiet ==
  /\ Unheard /\ Dropped /\ UNCHANGED hostVars
  /\ endpoint'.run \in {endpoint.run, Nil} /\ endpoint'.asks = endpoint.asks
  /\ gap' \in {gap, TRUE} /\ (broken => broken')
  /\ manifests \subseteq manifests' /\ manifests' \subseteq chunks'
  /\ \A i \in Asks : got[i] = "answer" => got'[i] = "answer"

Sound == endpoint \in Endpoints /\ DataOK /\ EndpointInv

LEMMA InvTypes ==
  ASSUME DuplexInv
  PROVE  /\ lifecycle \in Lifecycles /\ Sound /\ gap \in BOOLEAN /\ broken \in BOOLEAN
         /\ endpoint.run \in Runs \cup {Nil} /\ endpoint.asks \in 0 .. MaxAsks
         /\ pending \subseteq 1 .. endpoint.asks /\ pending \subseteq Asks
BY DuplexTypes, EndpointFields DEF DuplexInv, Sound, DataOK, EndpointInv

LEMMA QuietKeeps ==
  ASSUME DuplexInv, Quiet, Sound'
  PROVE  DuplexInv'
<1> USE DEF DuplexInv, Quiet, hostVars, Bears, Ends
<1>1. DuplexTypeOK'
  BY DuplexTypes, DuplexTypesNext DEF Sound
<1>2. HostInv' /\ EndpointInv'
  BY DEF HostInv, Sound
<1>3. CheckpointInv'
  BY DEF CheckpointInv, Unheard, Dropped
<1>4. AnswerInv'
  BY DEF AnswerInv, Unheard
<1>5. ToHostInv'
  <2>1. ~gap' => ~gap
    BY Zenon
  <2>2. ~gap' => \A f \in Has(toHost') : f.ordered
    BY <2>1 DEF ToHostInv, Unheard
  <2>. QED BY <2>2 DEF ToHostInv, Unheard
<1>6. ToWorkerInv'
  BY DEF ToWorkerInv, Dropped
<1>7. RunInv'
  BY DEF RunInv, Unheard, Dropped
<1>8. ReadyInv'
  BY DEF ReadyInv, Unheard, Dropped
<1>9. AskInv'
  BY DEF AskInv, Unheard, Dropped
<1>. QED BY <1>1, <1>2, <1>3, <1>4, <1>5, <1>6, <1>7, <1>8, <1>9

LEMMA StreamsKept ==
  ASSUME DuplexInv
  PROVE  (UNCHANGED toHost => Unheard) /\ (UNCHANGED toWorker => Dropped)
BY DEF DuplexInv, ToHostInv, ToWorkerInv, Unheard, Dropped

\* #accept: a frame is handled, and at most refused.
LEMMA HandledQuietly ==
  ASSUME DuplexInv, NEW type, Handles(type), Fault(<<Stale>>) \/ UNCHANGED toHost
  PROVE  Unheard /\ Dropped /\ Head(toWorker) \in Has(toWorker) /\ Head(toWorker).type = type
BY HandlesIs, StaleIs, InvTypes DEF DuplexInv

LEMMA RefuseBootstrapIs ==
  ASSUME DuplexInv, RefuseBootstrap
  PROVE  Quiet /\ Sound'
<1>1. Unheard /\ Dropped
  BY HandledQuietly DEF RefuseBootstrap
<1>2. UNCHANGED <<hostVars, broken, endpointVars, store>> /\ mishaps' \in 0 .. MaxMishaps
  BY InvTypes, DuplexAssumption DEF RefuseBootstrap, Mishap, Sound, DataOK, DuplexAssumption
<1>. QED BY <1>1, <1>2, InvTypes
     DEF Quiet, Sound, DataOK, EndpointInv, hostVars, endpointVars, store, DuplexInv, CheckpointInv

LEMMA RefuseAnswerIs ==
  ASSUME DuplexInv, RefuseAnswer
  PROVE  Quiet /\ Sound'
<1>1. Unheard /\ Dropped
  BY HandledQuietly DEF RefuseAnswer
<1>2. UNCHANGED <<hostVars, broken, endpointVars, store, mishaps>>
  BY DEF RefuseAnswer
<1>. QED BY <1>1, <1>2, InvTypes
     DEF Quiet, Sound, DataOK, EndpointInv, hostVars, endpointVars, store, DuplexInv, CheckpointInv

LEMMA AcceptStopIs ==
  ASSUME DuplexInv, AcceptStop
  PROVE  Quiet /\ Sound'
<1>1. Fault(<<Stale>>) \/ UNCHANGED toHost
  BY DEF AcceptStop
<1>2. /\ Unheard /\ Dropped
      /\ Head(toWorker) \in Has(toWorker) /\ Head(toWorker).type = "stop"
  BY <1>1, HandledQuietly DEF AcceptStop
<1>3. UNCHANGED <<hostVars, broken, gap, store, mishaps>>
  BY DEF AcceptStop
<1>4. CASE Active(Head(toWorker).run)
  <2>1. /\ pending' = {} /\ got' = [i \in Asks |-> IF i \in pending THEN "default" ELSE got[i]]
        /\ endpoint' = [endpoint EXCEPT !.stop = TRUE, !.aborting = endpoint.phase = "prompt"]
    BY <1>4 DEF AcceptStop, Withdraw
  <2>2. endpoint.run \in asked
    BY <1>2, <1>4 DEF Active, DuplexInv, CheckpointInv
  <2>3. /\ endpoint' \in Endpoints /\ endpoint'.run = endpoint.run
        /\ endpoint'.phase = endpoint.phase /\ endpoint'.asks = endpoint.asks
    BY <2>1, EndpointStops, InvTypes DEF Sound
  <2>4. DataOK'
    BY <1>3, <2>1, InvTypes DEF Sound, DataOK, hostVars, store
  <2>5. \A i \in Asks : (got[i] = "answer" => got'[i] = "answer")
                     /\ (i > endpoint.asks => got'[i] = "nothing")
    BY <2>1, InvTypes DEF Sound, EndpointInv, DataOK
  <2>6. EndpointInv'
    BY <1>3, <2>1, <2>2, <2>3, <2>5, InvTypes DEF Sound, EndpointInv, hostVars
  <2>. QED BY <1>2, <1>3, <2>3, <2>4, <2>5, <2>6
           DEF Quiet, Sound, DuplexInv, CheckpointInv, store
<1>5. CASE ~Active(Head(toWorker).run)
  <2>1. UNCHANGED <<endpoint, pending, got>>
    BY <1>5 DEF AcceptStop
  <2>. QED BY <1>2, <1>3, <2>1, InvTypes
           DEF Quiet, Sound, DataOK, EndpointInv, hostVars, store, DuplexInv, CheckpointInv
<1>. QED BY <1>4, <1>5

LEMMA AcceptSteerIs ==
  ASSUME DuplexInv, AcceptSteer
  PROVE  Quiet /\ Sound'
<1>1. Unheard /\ Dropped
  BY HandledQuietly DEF AcceptSteer
<1>2. UNCHANGED <<hostVars, broken, endpointVars, store, mishaps>>
  BY DEF AcceptSteer
<1>. QED BY <1>1, <1>2, InvTypes
     DEF Quiet, Sound, DataOK, EndpointInv, hostVars, endpointVars, store, DuplexInv, CheckpointInv

\* The endpoint and its checkpoints go on by themselves.
LEMMA EndpointActsIs ==
  ASSUME DuplexInv, Aborted \/ SessionOpened \/ PromptOver \/ WorkerLost \/ Closed
  PROVE  Quiet /\ Sound'
<1>1. UNCHANGED <<hostVars, toWorker, toHost, pending, got, gap, store>>
  BY DEF Aborted, SessionOpened, PromptOver, WorkerLost, Closed
<1>2. /\ endpoint' \in Endpoints /\ endpoint'.run = endpoint.run /\ endpoint'.stop = endpoint.stop
      /\ endpoint'.asks = endpoint.asks /\ (endpoint'.phase = "none" <=> endpoint.phase = "none")
  <2>1. CASE Aborted \/ WorkerLost \/ Closed
    BY <2>1, InvTypes, EndpointStays DEF Aborted, WorkerLost, Closed, Sound, Same
  <2>2. CASE SessionOpened \/ PromptOver
    BY <2>2, InvTypes, EndpointMoves DEF SessionOpened, PromptOver, Running, Sound
  <2>. QED BY <2>1, <2>2
<1>3. broken' \in BOOLEAN /\ (broken => broken') /\ mishaps' \in 0 .. MaxMishaps
  <2>1. broken' = broken \/ broken' = TRUE
    BY DEF Aborted, SessionOpened, PromptOver, WorkerLost, Closed
  <2>2. mishaps' = mishaps \/ Mishap
    BY DEF Aborted, SessionOpened, PromptOver, WorkerLost, Closed
  <2>3. mishaps' \in 0 .. MaxMishaps
    BY <2>2, InvTypes, DuplexAssumption DEF Mishap, Sound, DataOK, DuplexAssumption
  <2>4. broken' \in BOOLEAN
    BY <2>1, InvTypes
  <2>5. broken => broken'
    BY <2>1, Zenon
  <2>. QED BY <2>3, <2>4, <2>5
<1>. QED BY <1>1, <1>2, <1>3, StreamsKept, InvTypes
     DEF Quiet, Sound, DataOK, EndpointInv, hostVars, store, DuplexInv, CheckpointInv

LEMMA CloseEndpointIs ==
  ASSUME DuplexInv, CloseEndpoint
  PROVE  Quiet /\ Sound'
<1>1. /\ pending' = {} /\ got' = [i \in Asks |-> IF i \in pending THEN "default" ELSE got[i]]
      /\ UNCHANGED <<hostVars, toWorker, toHost, broken, gap, store, mishaps>>
      /\ endpoint' = [endpoint EXCEPT !.closing = TRUE]
  BY DEF CloseEndpoint, Withdraw
<1>2. endpoint' \in Endpoints /\ Same(endpoint', endpoint)
  BY <1>1, EndpointStays, InvTypes DEF Sound
<1>3. DataOK'
  BY <1>1, InvTypes DEF Sound, DataOK, hostVars, store
<1>4. \A i \in Asks : (got[i] = "answer" => got'[i] = "answer")
                   /\ (i > endpoint.asks => got'[i] = "nothing")
  BY <1>1, InvTypes DEF Sound, EndpointInv, DataOK
<1>5. EndpointInv'
  BY <1>1, <1>2, <1>4, InvTypes DEF Sound, EndpointInv, hostVars, Same
<1>. QED BY <1>1, <1>2, <1>3, <1>4, <1>5, StreamsKept
         DEF Quiet, Sound, DuplexInv, CheckpointInv, store, Same

LEMMA UnencodableIs ==
  ASSUME DuplexInv, Unencodable
  PROVE  Quiet /\ Sound'
<1>1. /\ UNCHANGED <<hostVars, toWorker, toHost, broken, endpoint, pending, got, store>>
      /\ gap' = TRUE /\ mishaps' \in 0 .. MaxMishaps
  BY InvTypes, DuplexAssumption DEF Unencodable, Mishap, Sound, DataOK, DuplexAssumption
<1>. QED BY <1>1, StreamsKept, InvTypes
     DEF Quiet, Sound, DataOK, EndpointInv, hostVars, store, DuplexInv, CheckpointInv

LEMMA PublishIs ==
  ASSUME DuplexInv, PublishChunks \/ PublishManifest
  PROVE  Quiet /\ Sound'
<1>1. endpoint.run \in Runs
  BY InvTypes DEF PublishChunks, PublishManifest, Running, Sound, EndpointInv
<1>2. /\ UNCHANGED <<hostVars, toWorker, toHost, broken, endpointVars, mishaps>>
      /\ chunks \subseteq chunks' /\ chunks' \subseteq Runs
      /\ manifests \subseteq manifests' /\ manifests' \subseteq chunks'
  BY <1>1, InvTypes DEF PublishChunks, PublishManifest, Sound, DataOK, DuplexInv, CheckpointInv
<1>. QED BY <1>2, StreamsKept, InvTypes
     DEF Quiet, Sound, DataOK, EndpointInv, hostVars, endpointVars

LEMMA StreamBreaksIs ==
  ASSUME DuplexInv, StreamBreaks
  PROVE  Quiet /\ Sound'
<1>1. /\ UNCHANGED <<hostVars, endpointVars, store>> /\ broken' = TRUE
      /\ mishaps' \in 0 .. MaxMishaps
      /\ toWorker' \in Prefixes(toWorker) /\ toHost' \in Prefixes(toHost)
  BY InvTypes, DuplexAssumption DEF StreamBreaks, Mishap, Sound, DataOK, DuplexAssumption
<1>2. Unheard
  BY <1>1, PrefixOfStream DEF Unheard, DuplexInv, ToHostInv
<1>3. Dropped
  BY <1>1, PrefixOfStream DEF Dropped, DuplexInv, ToWorkerInv
<1>. QED BY <1>1, <1>2, <1>3, InvTypes
     DEF Quiet, Sound, DataOK, EndpointInv, hostVars, endpointVars, store, DuplexInv, CheckpointInv

-----------------------------------------------------------------------------
(* The Host's steps.                                                       *)

LEMMA FramesTyped ==
  ASSUME DuplexInv
  PROVE  /\ \A f \in Has(toHost) : f \in Frames /\ f.run \in Runs \cup {Nil}
         /\ \A f \in Has(toHost) : f.type \in {"request", "applied"} => f.ask \in Asks
         /\ \A f \in Has(toWorker) : f \in Frames /\ f.run \in Runs \cup {Nil}
         /\ \A f \in Has(toWorker) : f.type = "answer" => f.ask \in Asks
<1>1. (\A f \in Has(toHost) : f \in Frames) /\ (\A f \in Has(toWorker) : f \in Frames)
  BY DEF DuplexInv, ToHostInv, ToWorkerInv, Has
<1>2. \A f \in Frames : f.run \in Runs \cup {Nil} /\ f.ask \in Asks \cup {Nil}
  BY DEF Frames
<1>3. \A f \in Has(toHost) : f.type = "request" => f.ask \in Asks
  <2>1. endpoint.asks \in 0 .. MaxAsks
    BY InvTypes
  <2>. QED BY <2>1, DuplexAssumption DEF DuplexInv, ToHostInv, Asks, DuplexAssumption
<1>. QED BY <1>1, <1>2, <1>3 DEF DuplexInv, AnswerInv, ToWorkerInv

LEMMA HostExecuteKeeps ==
  ASSUME DuplexInv, NEW r \in Runs, HostExecute(r)
  PROVE  DuplexInv'
<1> DEFINE x == Frame("execute", r, Nil)
<1>1. /\ UNCHANGED <<outcome, ask, asked, steered, toHost, broken, endpointVars, store, mishaps>>
      /\ ~lifecycle.failed /\ lifecycle.ready /\ lifecycle.run = Nil
      /\ lifecycle' = [lifecycle EXCEPT !.run = r, !.used = @ \cup {r}] /\ Tell(x)
  BY DEF HostExecute, Live
<1>2. /\ lifecycle' \in Lifecycles /\ lifecycle'.ready = lifecycle.ready
      /\ lifecycle'.failed = lifecycle.failed
      /\ lifecycle'.run = r /\ lifecycle'.used = lifecycle.used \cup {r}
  <2>1. lifecycle \in Lifecycles
    BY InvTypes
  <2>. QED BY <1>1, <2>1 DEF Lifecycles
<1>3. r # Nil /\ Nil \notin Runs
  BY DEF Runs, Nil
<1>4. x \in Frames /\ x.type = "execute" /\ x.run = r /\ x.ask = Nil
  BY DEF Frame, Frames, FrameTypes
<1> HIDE DEF x
<1>5. \A f \in Has(toWorker) : f.type # "execute"
  BY <1>1 DEF DuplexInv, RunInv, ToWorkerInv
<1>6. \A f \in Has(toHost) : ~Bears(f)
  BY <1>1 DEF DuplexInv, RunInv, Bears
<1>7. endpoint.run = Nil
  BY <1>1 DEF DuplexInv, RunInv
<1>8. \A f \in Has(toWorker) : Succeeds(f, x)
  BY <1>4, <1>5 DEF Succeeds, Twice
<1>9. /\ toWorker' \in Seq(Frames) /\ Has(toWorker') = Has(toWorker) \cup {x}
      /\ Sorted(toWorker', ToWorkerOrder)
  BY <1>1, <1>4, <1>8, TellIs DEF DuplexInv
<1>10. DuplexTypeOK' /\ HostInv'
  BY <1>1, <1>2, DuplexTypes, DuplexTypesNext
  DEF DuplexInv, DataOK, endpointVars, store, HostInv
<1>11. EndpointInv' /\ AnswerInv'
  BY <1>1 DEF DuplexInv, EndpointInv, AnswerInv, endpointVars
<1>12. CheckpointInv'
  BY <1>1, <1>4, <1>9 DEF DuplexInv, CheckpointInv, store
<1>13. ToHostInv'
  BY <1>1 DEF DuplexInv, ToHostInv, endpointVars
<1>14. ToWorkerInv'
  BY <1>3, <1>4, <1>9 DEF DuplexInv, ToWorkerInv
<1>15. RunInv'
  BY <1>1, <1>2, <1>4, <1>5, <1>6, <1>7, <1>9 DEF RunInv, endpointVars, Ends, Bears
<1>16. ReadyInv'
  BY <1>1, <1>2, <1>4, <1>9 DEF DuplexInv, ReadyInv
<1>17. AskInv'
  BY <1>1, <1>2, <1>4, <1>9 DEF DuplexInv, AskInv, endpointVars
<1>. QED BY <1>10, <1>11, <1>12, <1>13, <1>14, <1>15, <1>16, <1>17 DEF DuplexInv

\* A stop or steering of the Run the Host waits for.
LEMMA HostTellsRun ==
  ASSUME DuplexInv, HostStop \/ HostSteer
  PROVE  DuplexInv'
<1>1. /\ UNCHANGED <<lifecycle, outcome, ask, toHost, broken, endpointVars, store, mishaps>>
      /\ ~lifecycle.failed /\ lifecycle.run # Nil
  BY DEF HostStop, HostSteer, Live
<1>2. lifecycle.run \in Runs /\ lifecycle.run \in lifecycle.used
  BY <1>1, InvTypes DEF DuplexInv, HostInv, Lifecycles
<1>3. /\ asked \subseteq asked' /\ asked' \subseteq lifecycle.used
      /\ steered' \subseteq lifecycle.used
  BY <1>2, DuplexTypes DEF HostStop, HostSteer, DuplexInv
<1>4. \E x \in Frames : /\ Tell(x) /\ x.type \in {"stop", "steer"} /\ x.run # Nil
                        /\ x.type = "stop" => x.run \in asked'
  <2>1. CASE HostStop
    <3>1. Frame("stop", lifecycle.run, Nil) \in Frames
      BY <1>2 DEF Frame, Frames, FrameTypes
    <3>. QED BY <1>1, <2>1, <3>1 DEF HostStop, Frame
  <2>2. CASE HostSteer
    <3>1. Frame("steer", lifecycle.run, Nil) \in Frames
      BY <1>2 DEF Frame, Frames, FrameTypes
    <3>. QED BY <1>1, <2>2, <3>1 DEF HostSteer, Frame
  <2>. QED BY <2>1, <2>2
<1>5. PICK x \in Frames : /\ Tell(x) /\ x.type \in {"stop", "steer"} /\ x.run # Nil
                          /\ x.type = "stop" => x.run \in asked'
  BY <1>4
<1>6. \A f \in Has(toWorker) : Succeeds(f, x)
  BY <1>5 DEF Succeeds, Twice
<1>7. /\ toWorker' \in Seq(Frames) /\ Has(toWorker') = Has(toWorker) \cup {x}
      /\ Sorted(toWorker', ToWorkerOrder)
  BY <1>5, <1>6, TellIs DEF DuplexInv
<1>8. DuplexTypeOK' /\ HostInv'
  <2>1. lifecycle.used \subseteq Runs
    BY InvTypes DEF Lifecycles
  <2>. QED BY <1>1, <1>3, <2>1, DuplexTypes, DuplexTypesNext
           DEF DuplexInv, DataOK, endpointVars, store, HostInv
<1>9. EndpointInv' /\ AnswerInv' /\ ToHostInv'
  BY <1>1, <1>3 DEF DuplexInv, EndpointInv, AnswerInv, ToHostInv, endpointVars
<1>10. CheckpointInv'
  BY <1>1, <1>3, <1>5, <1>7 DEF DuplexInv, CheckpointInv, store
<1>11. ToWorkerInv'
  BY <1>5, <1>7 DEF DuplexInv, ToWorkerInv
<1>12. RunInv'
  BY <1>1, <1>5, <1>7 DEF DuplexInv, RunInv, endpointVars, Ends, Bears
<1>13. ReadyInv'
  BY <1>1, <1>5, <1>7 DEF DuplexInv, ReadyInv
<1>14. AskInv'
  BY <1>1, <1>5, <1>7 DEF DuplexInv, AskInv, endpointVars
<1>. QED BY <1>8, <1>9, <1>10, <1>11, <1>12, <1>13, <1>14 DEF DuplexInv

LEMMA HostAnswerKeeps ==
  ASSUME DuplexInv, NEW i \in Asks, NEW answer \in Answers, HostAnswer(i, answer)
  PROVE  DuplexInv'
<1> DEFINE x == Frame(answer, Nil, i)
<1>1. /\ UNCHANGED <<lifecycle, outcome, asked, steered, toHost, broken>>
      /\ UNCHANGED <<endpointVars, store, mishaps>>
      /\ ~lifecycle.failed /\ ask[i] = "open" /\ ask' = [ask EXCEPT ![i] = "applying"] /\ Tell(x)
  BY DEF HostAnswer, Live
<1>2. i # Nil
  BY DEF Asks, Nil
<1>3. /\ x \in Frames /\ x.type \in {"answer", "misfit"} /\ x.run = Nil /\ x.ask = i
      /\ Answers = {"answer", "misfit"}
  BY DEF Frame, Frames, FrameTypes, Answers
<1> HIDE DEF x
<1>4. /\ \A f \in Has(toWorker) : f.type = "answer" => f.ask # i
      /\ \A f \in Has(toHost) : f.type \in {"request", "applied"} => f.ask # i
  BY <1>1 DEF DuplexInv, AskInv
<1>5. \A f \in Has(toWorker) : Succeeds(f, x)
  BY <1>3, <1>4 DEF Succeeds, Twice
<1>6. /\ toWorker' \in Seq(Frames) /\ Has(toWorker') = Has(toWorker) \cup {x}
      /\ Sorted(toWorker', ToWorkerOrder)
  BY <1>1, <1>3, <1>5, TellIs DEF DuplexInv
<1>7. DataOK
  BY InvTypes DEF Sound
<1>8. /\ ask' \in [Asks -> {"none", "open", "applying", "responded", "withdrawn"}]
      /\ ask'[i] = "applying" /\ \A j \in Asks : j # i => ask'[j] = ask[j]
  BY <1>1, <1>7 DEF DataOK
<1>9. DuplexTypeOK' /\ HostInv'
  BY <1>1, <1>8, DuplexTypes, DuplexTypesNext
  DEF DuplexInv, DataOK, endpointVars, store, HostInv
<1>10. EndpointInv' /\ AnswerInv' /\ ToHostInv'
  BY <1>1, <1>8 DEF DuplexInv, EndpointInv, AnswerInv, ToHostInv, endpointVars
<1>11. CheckpointInv'
  BY <1>1, <1>3, <1>6 DEF DuplexInv, CheckpointInv, store
<1>12. ToWorkerInv'
  BY <1>2, <1>3, <1>6 DEF DuplexInv, ToWorkerInv
<1>13. RunInv'
  BY <1>1, <1>3, <1>6 DEF DuplexInv, RunInv, endpointVars, Ends, Bears
<1>14. ReadyInv'
  BY <1>1, <1>3, <1>6 DEF DuplexInv, ReadyInv
<1>15. AskInv'
  <2>1. \A f \in Has(toHost) : f.type = "request" => ask'[f.ask] = "none"
    BY <1>1, <1>4, <1>8, FramesTyped DEF DuplexInv, AskInv
  <2>2. \A j \in Asks : j > endpoint.asks => ask'[j] = "none"
    BY <1>1, <1>8 DEF DuplexInv, AskInv
  <2>3. \A f \in Has(toHost) : f.type = "applied" =>
          ask'[f.ask] = "applying" /\ \A a \in Has(toWorker') : a.type = "answer" => a.ask # f.ask
    BY <1>1, <1>3, <1>4, <1>6, <1>8, FramesTyped DEF DuplexInv, AskInv
  <2>4. \A f \in Has(toWorker') : f.type = "answer" => ask'[f.ask] = "applying"
    BY <1>1, <1>3, <1>6, <1>8, FramesTyped DEF DuplexInv, AskInv
  <2>. QED BY <1>1, <2>1, <2>2, <2>3, <2>4 DEF AskInv, endpointVars
<1>. QED BY <1>9, <1>10, <1>11, <1>12, <1>13, <1>14, <1>15 DEF DuplexInv

\* fail: after it nothing is taken any more.
LEMMA FailKeeps ==
  ASSUME DuplexInv, Unheard, UNCHANGED <<toWorker, endpointVars, store, mishaps>>, Fail
  PROVE  DuplexInv'
<1>1. UNCHANGED <<asked, steered>> /\ broken' = TRUE
  BY DEF Fail
<1>2. /\ lifecycle' \in Lifecycles /\ lifecycle'.failed = TRUE /\ lifecycle'.run = Nil
      /\ lifecycle'.used = lifecycle.used
  <2>1. lifecycle' = [lifecycle EXCEPT !.failed = TRUE, !.run = Nil] /\ lifecycle \in Lifecycles
    BY InvTypes DEF Fail
  <2>. QED BY <2>1 DEF Lifecycles
<1>3. /\ outcome' \in [Runs -> {"none", "completed", "cancelled", "failed", "interrupted"}]
      /\ \A r \in Runs : outcome'[r] \in {outcome[r], "interrupted"}
  BY InvTypes DEF Fail, Sound, DataOK
<1>4. /\ ask' \in [Asks -> {"none", "open", "applying", "responded", "withdrawn"}]
      /\ \A i \in Asks : ask'[i] = "responded" => ask[i] = "responded"
  BY InvTypes DEF Fail, Sound, DataOK
<1>5. DuplexTypeOK' /\ HostInv'
  BY <1>1, <1>2, <1>3, <1>4, DuplexTypes, DuplexTypesNext
  DEF DuplexInv, DataOK, endpointVars, store, HostInv
<1>6. EndpointInv'
  BY <1>1 DEF DuplexInv, EndpointInv, endpointVars
<1>7. AnswerInv'
  BY <1>4 DEF DuplexInv, AnswerInv, Unheard, endpointVars
<1>8. CheckpointInv'
  BY <1>1, <1>3 DEF DuplexInv, CheckpointInv, Unheard, store
<1>9. ToHostInv' /\ ToWorkerInv'
  BY DEF DuplexInv, ToHostInv, ToWorkerInv, Unheard, endpointVars
<1>10. RunInv' /\ ReadyInv' /\ AskInv'
  BY <1>2 DEF RunInv, ReadyInv, AskInv
<1>. QED BY <1>5, <1>6, <1>7, <1>8, <1>9, <1>10 DEF DuplexInv

\* The Host reads the next frame; h is what it read.
Reads(h) ==
  /\ ~lifecycle.failed /\ toHost # <<>> /\ h = Head(toHost)
  /\ toHost' = Tail(toHost) /\ UNCHANGED <<asked, toWorker, endpointVars, store, mishaps>>

LEMMA ReadsIs ==
  ASSUME DuplexInv, NEW h, Reads(h)
  PROVE  /\ Unheard /\ h \in Has(toHost) /\ h \in Frames /\ h.run \in Runs \cup {Nil}
         /\ Has(toHost') \subseteq Has(toHost) /\ \A f \in Has(toHost') : Follows(h, f)
         /\ ToHostInv' /\ ToWorkerInv' /\ EndpointInv'
<1>1. /\ Unheard /\ h \in Has(toHost) /\ h \in Frames
      /\ Has(toHost') \subseteq Has(toHost) /\ \A f \in Has(toHost') : Follows(h, f)
  BY ReceivesIs DEF DuplexInv, Reads
<1>2. ToHostInv' /\ ToWorkerInv'
  BY <1>1 DEF DuplexInv, ToHostInv, ToWorkerInv, Unheard, Reads, endpointVars
<1>3. EndpointInv'
  BY DEF DuplexInv, EndpointInv, Reads, endpointVars
<1>. QED BY <1>1, <1>2, <1>3, FramesTyped

LEMMA TakeReady ==
  ASSUME DuplexInv, NEW h, Reads(h), Take(h), h.type = "ready"
  PROVE  DuplexInv'
<1>1. /\ ~lifecycle.failed /\ UNCHANGED <<toWorker, endpointVars, store, mishaps>>
      /\ lifecycle' = [lifecycle EXCEPT !.ready = TRUE]
      /\ UNCHANGED <<outcome, ask, asked, steered, broken>>
  BY DEF Reads, Take
<1>2. /\ lifecycle' \in Lifecycles /\ lifecycle'.failed = lifecycle.failed
      /\ lifecycle'.run = lifecycle.run /\ lifecycle'.used = lifecycle.used
  <2>1. lifecycle \in Lifecycles
    BY InvTypes
  <2>. QED BY <1>1, <2>1 DEF Lifecycles
<1>3. DuplexTypeOK' /\ HostInv'
  BY <1>1, <1>2, DuplexTypes, DuplexTypesNext
  DEF DuplexInv, DataOK, endpointVars, store, HostInv
<1>4. EndpointInv' /\ AnswerInv' /\ CheckpointInv'
  BY <1>1, ReadsIs DEF DuplexInv, EndpointInv, AnswerInv, CheckpointInv, endpointVars, store
<1>5. RunInv'
  BY <1>1, <1>2, ReadsIs DEF DuplexInv, RunInv, endpointVars, Ends, Bears
<1>6. ReadyInv'
  BY <1>1, <1>2, ReadsIs DEF DuplexInv, ReadyInv, Follows, Twice
<1>7. AskInv'
  BY <1>1, <1>2, ReadsIs DEF DuplexInv, AskInv, endpointVars
<1>. QED BY <1>3, <1>4, <1>5, <1>6, <1>7, ReadsIs DEF DuplexInv

\* A request is new to the Host, an acknowledgement is for what it waits for.
LEMMA TakeInteraction ==
  ASSUME DuplexInv, NEW h, Reads(h), Takes(h), Take(h), h.type \in {"request", "applied"}
  PROVE  DuplexInv'
<1> DEFINE new == IF h.type = "request" THEN "open" ELSE "responded"
<1>1. /\ ~lifecycle.failed /\ UNCHANGED <<toWorker, endpointVars, store, mishaps>>
      /\ ask' = [ask EXCEPT ![h.ask] = new]
      /\ UNCHANGED <<lifecycle, outcome, asked, steered, broken>>
  BY DEF Reads, Take
<1>2. h.ask \in Asks /\ h \in Has(toHost)
  BY ReadsIs, FramesTyped
<1>3. DataOK
  BY InvTypes DEF Sound
<1>4. new \in {"open", "responded"} /\ (new = "open" <=> h.type = "request")
  OBVIOUS
<1> HIDE DEF new
<1>5. /\ ask' \in [Asks -> {"none", "open", "applying", "responded", "withdrawn"}]
      /\ ask'[h.ask] = new /\ \A j \in Asks : j # h.ask => ask'[j] = ask[j]
  BY <1>1, <1>2, <1>3, <1>4 DEF DataOK
<1>6. DuplexTypeOK' /\ HostInv'
  BY <1>1, <1>5, DuplexTypes, DuplexTypesNext
  DEF DuplexInv, DataOK, endpointVars, store, HostInv
<1>7. CheckpointInv'
  BY <1>1, ReadsIs DEF DuplexInv, CheckpointInv, store
<1>8. h.type = "applied" => got[h.ask] = "answer"
  BY <1>2 DEF DuplexInv, AnswerInv
<1>9. AnswerInv'
  BY <1>1, <1>2, <1>4, <1>5, <1>8, ReadsIs DEF DuplexInv, AnswerInv, endpointVars
<1>10. RunInv'
  BY <1>1, ReadsIs DEF DuplexInv, RunInv, endpointVars, Ends, Bears
<1>11. ReadyInv'
  BY <1>1, ReadsIs DEF DuplexInv, ReadyInv
<1>12. AskInv'
  <2>1. /\ h.type = "request" => ask[h.ask] = "none" /\ h.ask \in 1 .. endpoint.asks
        /\ h.type = "applied" => ask[h.ask] = "applying"
    BY <1>1, <1>2 DEF DuplexInv, AskInv, ToHostInv
  <2>2. \A f \in Has(toHost') : f.type = "request" => f.ask # h.ask
    BY <1>1, <2>1, ReadsIs DEF DuplexInv, AskInv, Follows, Twice
  <2>3. \A f \in Has(toHost') : f.type = "applied" => f.ask # h.ask
    BY <1>1, <2>1, ReadsIs DEF DuplexInv, AskInv, Follows, Twice
  <2>4. \A f \in Has(toWorker) : f.type = "answer" => f.ask # h.ask
    BY <1>1, <1>2, <2>1 DEF DuplexInv, AskInv
  <2>5. \A j \in Asks : j > endpoint.asks => j # h.ask
    <3>1. ask[h.ask] # "none" => ~(h.ask > endpoint.asks)
      BY <1>1, <1>2 DEF DuplexInv, AskInv
    <3>2. h.ask \in 1 .. endpoint.asks => ~(h.ask > endpoint.asks)
      BY InvTypes
    <3>. QED BY <2>1, <3>1, <3>2
  <2>6. \A f \in Has(toHost') : f.type = "request" => ask'[f.ask] = "none"
    BY <1>1, <1>5, <2>2, ReadsIs, FramesTyped DEF DuplexInv, AskInv
  <2>7. \A f \in Has(toHost') : f.type = "applied" => ask'[f.ask] = "applying"
    BY <1>1, <1>5, <2>3, ReadsIs, FramesTyped DEF DuplexInv, AskInv
  <2>8. \A f \in Has(toWorker) : f.type = "answer" => ask'[f.ask] = "applying"
    BY <1>1, <1>5, <2>4, FramesTyped DEF DuplexInv, AskInv
  <2>9. \A j \in Asks : j > endpoint.asks => ask'[j] = "none"
    BY <1>1, <1>5, <2>5 DEF DuplexInv, AskInv
  <2>. QED BY <1>1, <2>6, <2>7, <2>8, <2>9, ReadsIs DEF DuplexInv, AskInv, endpointVars
<1>. QED BY <1>1, <1>6, <1>7, <1>9, <1>10, <1>11, <1>12, ReadsIs DEF DuplexInv

\* The frame that ends a Run: nothing of that Run is under way behind it.
LEMMA TakeOutcome ==
  ASSUME DuplexInv, NEW h, Reads(h), Ends(h),
         NEW what \in {"completed", "cancelled", "failed"}, Settle(h.run, what),
         what \in {"completed", "cancelled"} => what = h.type
  PROVE  DuplexInv'
<1>1. /\ ~lifecycle.failed /\ UNCHANGED <<toWorker, endpointVars, store, mishaps>>
      /\ lifecycle' = [lifecycle EXCEPT !.run = Nil]
      /\ outcome' = [outcome EXCEPT ![h.run] = what]
      /\ UNCHANGED <<ask, asked, steered, broken>>
  BY DEF Reads, Settle
<1>2. h.run \in Runs /\ h \in Has(toHost)
  BY ReadsIs DEF Ends
<1>3. /\ lifecycle' \in Lifecycles /\ lifecycle'.failed = lifecycle.failed
      /\ lifecycle'.ready = lifecycle.ready
      /\ lifecycle'.run = Nil /\ lifecycle'.used = lifecycle.used
  <2>1. lifecycle \in Lifecycles
    BY InvTypes
  <2>. QED BY <1>1, <2>1 DEF Lifecycles
<1>4. DataOK
  BY InvTypes DEF Sound
<1>5. /\ outcome' \in [Runs -> {"none", "completed", "cancelled", "failed", "interrupted"}]
      /\ outcome'[h.run] = what /\ \A r \in Runs : r # h.run => outcome'[r] = outcome[r]
  BY <1>1, <1>2, <1>4 DEF DataOK
<1>6. DuplexTypeOK' /\ HostInv'
  BY <1>1, <1>3, <1>5, DuplexTypes, DuplexTypesNext
  DEF DuplexInv, DataOK, endpointVars, store, HostInv
<1>7. AnswerInv'
  BY <1>1, ReadsIs DEF DuplexInv, AnswerInv, endpointVars
<1>8. CheckpointInv'
  <2>1. /\ what \in {"completed", "cancelled"} => h.run \in manifests
        /\ what = "cancelled" => h.run \in asked
    BY <1>2 DEF DuplexInv, CheckpointInv
  <2>2. \A r \in Runs : /\ outcome'[r] \in {"completed", "cancelled"} => r \in manifests
                        /\ outcome'[r] = "cancelled" => r \in asked
    BY <1>5, <2>1 DEF DuplexInv, CheckpointInv
  <2>. QED BY <1>1, <2>2, ReadsIs DEF DuplexInv, CheckpointInv, store
<1>9. RunInv'
  <2>1. endpoint.run = Nil /\ \A e \in Has(toWorker) : e.type # "execute"
    BY <1>1, <1>2 DEF DuplexInv, RunInv, Ends, Bears
  <2>2. \A f \in Has(toHost') : ~Bears(f)
    BY ReadsIs DEF Follows
  <2>. QED BY <1>1, <1>3, <2>1, <2>2 DEF RunInv, endpointVars, Ends, Bears
<1>10. ReadyInv'
  BY <1>1, <1>3, ReadsIs DEF DuplexInv, ReadyInv
<1>11. AskInv'
  BY <1>1, <1>3, ReadsIs DEF DuplexInv, AskInv, endpointVars
<1>. QED BY <1>6, <1>7, <1>8, <1>9, <1>10, <1>11, ReadsIs DEF DuplexInv

LEMMA HostReceiveKeeps ==
  ASSUME DuplexInv, HostReceive
  PROVE  DuplexInv'
<1> DEFINE h == Head(toHost)
<1>1. Reads(h)
  BY DEF HostReceive, Reads, Take, Fail, Settle, hostVars
<1>2. \/ ~Takes(h) /\ Fail
      \/ Takes(h) /\ Take(h)
  BY DEF HostReceive
<1> HIDE DEF h
<1>3. CASE Fail
  BY <1>1, <1>3, ReadsIs, FailKeeps DEF Reads
<1>4. CASE Takes(h) /\ Take(h)
  <2>1. CASE h.type = "ready"
    BY <1>1, <1>4, <2>1, TakeReady
  <2>2. CASE h.type \in {"request", "applied"}
    BY <1>1, <1>4, <2>2, TakeInteraction
  <2>3. CASE h.type \in {"completed", "cancelled"}
    <3>1. Ends(h)
      BY <1>1, <2>3, ReadsIs DEF DuplexInv, ToHostInv, Ends
    <3>2. Settle(h.run, h.type)
      BY <1>4, <2>3 DEF Take
    <3>. QED BY <1>1, <2>3, <3>1, <3>2, TakeOutcome
  <2>4. CASE h.type = "fault" /\ h.run # Nil
    <3>1. Ends(h) /\ Settle(h.run, "failed")
      BY <1>4, <2>4 DEF Take, Ends
    <3>. QED BY <1>1, <3>1, TakeOutcome
  <2>5. CASE /\ h.type \notin {"ready", "request", "applied", "completed", "cancelled"}
             /\ ~(h.type = "fault" /\ h.run # Nil)
    <3>1. UNCHANGED <<hostVars, broken>>
      BY <1>4, <2>5 DEF Take
    <3>2. Quiet /\ Sound'
      BY <1>1, <3>1, ReadsIs, StreamsKept, InvTypes
      DEF Reads, Quiet, Sound, DataOK, EndpointInv, hostVars, endpointVars, store, DuplexInv,
          CheckpointInv
    <3>. QED BY <3>2, QuietKeeps
  <2>. QED BY <2>1, <2>2, <2>3, <2>4, <2>5
<1>. QED BY <1>2, <1>3, <1>4

LEMMA HostDisconnectedKeeps ==
  ASSUME DuplexInv, HostDisconnected
  PROVE  DuplexInv'
BY StreamsKept, FailKeeps DEF HostDisconnected

-----------------------------------------------------------------------------
(* The worker's steps that the Host hears of.                              *)

\* A frame of the given kind has been sent: y is what the stream carries.
Sent(y, type, r, i) ==
  /\ y \in Frames /\ y.type = type /\ y.run = r /\ y.ask = i /\ y.ordered = ~gap
  /\ toHost' \in Seq(Frames) /\ Has(toHost') = Has(toHost) \cup {y}
  /\ (\A f \in Has(toHost) : Follows(f, y)) => Sorted(toHost', ToHostOrder)

LEMMA SentIs ==
  ASSUME DuplexInv, NEW type \in FrameTypes, NEW r \in Runs \cup {Nil}, NEW i \in Asks \cup {Nil},
         Send(<<Frame(type, r, i)>>)
  PROVE  \E y : Sent(y, type, r, i)
<1> DEFINE x == Frame(type, r, i)
<1>1. x \in Frames /\ x.type = type /\ x.run = r /\ x.ask = i
  BY DEF Frame, Frames
<1>2. Send(<<x>>)
  OBVIOUS
<1> HIDE DEF x
<1>3. PICK y \in Frames :
           /\ y.type = x.type /\ y.run = x.run /\ y.ask = x.ask /\ y.ordered = ~gap
           /\ toHost' \in Seq(Frames) /\ Has(toHost') = Has(toHost) \cup {y}
           /\ (\A f \in Has(toHost) : Follows(f, y)) => Sorted(toHost', ToHostOrder)
  BY <1>1, <1>2, SendIs, InvTypes DEF DuplexInv
<1>. QED BY <1>1, <1>3 DEF Sent

LEMMA AcceptBootstrapKeeps ==
  ASSUME DuplexInv, AcceptBootstrap
  PROVE  DuplexInv'
<1>1. /\ UNCHANGED <<hostVars, broken, pending, got, gap, store, mishaps>>
      /\ endpoint' = [endpoint EXCEPT !.bound = TRUE] /\ ~broken
      /\ Send(<<Frame("ready", Nil, Nil)>>) /\ Handles("bootstrap")
  BY DEF AcceptBootstrap, Send
<1>2. endpoint' \in Endpoints /\ Same(endpoint', endpoint)
  BY <1>1, EndpointStays, InvTypes DEF Sound
<1>3. /\ Dropped /\ Head(toWorker) \in Has(toWorker) /\ Head(toWorker).type = "bootstrap"
      /\ \A f \in Has(toWorker') : Succeeds(Head(toWorker), f)
  BY <1>1, HandlesIs DEF DuplexInv
<1>4. PICK y : Sent(y, "ready", Nil, Nil)
  <2>1. "ready" \in FrameTypes
    BY DEF FrameTypes
  <2>. QED BY <1>1, <2>1, SentIs
<1>5. ~lifecycle.failed /\ ~lifecycle.ready /\ \A f \in Has(toHost) : f.type # "ready"
  BY <1>1, <1>3 DEF DuplexInv, HostInv, ReadyInv
<1>6. \A f \in Has(toWorker') : f.type # "bootstrap"
  BY <1>3 DEF Succeeds, Twice
<1>7. toHost' \in Seq(Frames) /\ Sorted(toHost', ToHostOrder)
  BY <1>4, <1>5 DEF Sent, Follows, Twice, Ends, Bears
<1>8. DuplexTypeOK' /\ HostInv'
  BY <1>1, <1>2, DuplexTypes, DuplexTypesNext
  DEF DuplexInv, DataOK, hostVars, store, HostInv
<1>9. EndpointInv'
  BY <1>1, <1>2 DEF DuplexInv, EndpointInv, hostVars, Same
<1>10. CheckpointInv'
  BY <1>1, <1>3, <1>4 DEF DuplexInv, CheckpointInv, hostVars, store, Sent, Dropped
<1>11. AnswerInv'
  BY <1>1, <1>4 DEF DuplexInv, AnswerInv, hostVars, Sent
<1>12. ToHostInv' /\ ToWorkerInv'
  BY <1>1, <1>2, <1>3, <1>4, <1>7 DEF DuplexInv, ToHostInv, ToWorkerInv, Dropped, Sent, Same
<1>13. RunInv'
  BY <1>1, <1>2, <1>3, <1>4 DEF DuplexInv, RunInv, hostVars, Sent, Same, Dropped, Ends, Bears
<1>14. ReadyInv'
  BY <1>1, <1>3, <1>4, <1>5, <1>6 DEF DuplexInv, ReadyInv, hostVars, Sent, Dropped
<1>15. AskInv'
  BY <1>1, <1>2, <1>3, <1>4 DEF DuplexInv, AskInv, hostVars, Sent, Same, Dropped
<1>. QED BY <1>8, <1>9, <1>10, <1>11, <1>12, <1>13, <1>14, <1>15 DEF DuplexInv

LEMMA AcceptExecuteKeeps ==
  ASSUME DuplexInv, AcceptExecute
  PROVE  DuplexInv'
<1> DEFINE h == Head(toWorker)
<1>1. /\ UNCHANGED <<hostVars, broken, pending, got, gap, store, mishaps>> /\ Handles("execute")
      /\ \/ endpoint' = Started(h.run) /\ UNCHANGED toHost /\ endpoint.run = Nil
         \/ Fault(<<Stale>>) /\ UNCHANGED endpoint
  BY DEF AcceptExecute
<1>2. /\ Dropped /\ h \in Has(toWorker) /\ h.type = "execute"
      /\ \A f \in Has(toWorker') : Succeeds(h, f)
  BY <1>1, HandlesIs DEF DuplexInv
<1>3. h.run \in Runs
  BY <1>2, FramesTyped DEF DuplexInv, ToWorkerInv
<1> HIDE DEF h
<1>4. CASE Fault(<<Stale>>) /\ UNCHANGED endpoint
  <2>1. Unheard
    BY <1>4, StaleIs, InvTypes DEF DuplexInv
  <2>2. Quiet /\ Sound'
    BY <1>1, <1>2, <1>4, <2>1, InvTypes
    DEF Quiet, Sound, DataOK, EndpointInv, hostVars, store, DuplexInv, CheckpointInv
  <2>. QED BY <2>2, QuietKeeps
<1>5. CASE endpoint' = Started(h.run) /\ UNCHANGED toHost /\ endpoint.run = Nil
  <2>1. /\ endpoint' \in Endpoints /\ endpoint'.run = h.run /\ endpoint'.phase # "none"
        /\ endpoint'.stop = FALSE /\ endpoint'.asks = endpoint.asks
    BY <1>3, <1>5, EndpointStarts, InvTypes DEF Sound
  <2>2. \A f \in Has(toWorker') : f.type # "execute"
    BY <1>2 DEF Succeeds, Twice
  <2>3. ~lifecycle.failed => /\ h.run = lifecycle.run
                             /\ \A f \in Has(toHost) : ~Bears(f)
    BY <1>2 DEF DuplexInv, RunInv
  <2>4. DuplexTypeOK' /\ HostInv'
    BY <1>1, <2>1, DuplexTypes, DuplexTypesNext
    DEF DuplexInv, DataOK, hostVars, store, HostInv
  <2>5. EndpointInv'
    BY <1>1, <1>3, <2>1 DEF DuplexInv, EndpointInv, hostVars, Runs, Nil
  <2>6. CheckpointInv' /\ AnswerInv'
    BY <1>1, <1>2, <1>5 DEF DuplexInv, CheckpointInv, AnswerInv, hostVars, store, Dropped
  <2>7. ToHostInv' /\ ToWorkerInv'
    BY <1>1, <1>2, <1>5, <2>1 DEF DuplexInv, ToHostInv, ToWorkerInv, Dropped
  <2>8. RunInv'
    BY <1>1, <1>2, <1>5, <2>1, <2>2, <2>3 DEF RunInv, hostVars, Dropped, Ends, Bears
  <2>9. ReadyInv'
    BY <1>1, <1>2, <1>5 DEF DuplexInv, ReadyInv, hostVars, Dropped
  <2>10. AskInv'
    BY <1>1, <1>2, <1>5, <2>1 DEF DuplexInv, AskInv, hostVars, Dropped
  <2>. QED BY <2>4, <2>5, <2>6, <2>7, <2>8, <2>9, <2>10 DEF DuplexInv
<1>. QED BY <1>1, <1>4, <1>5

LEMMA AcceptAnswerKeeps ==
  ASSUME DuplexInv, AcceptAnswer
  PROVE  DuplexInv'
<1> DEFINE h == Head(toWorker)
           i == h.ask
<1>1. /\ UNCHANGED <<hostVars, broken, endpoint, gap, store, mishaps>> /\ Handles("answer")
      /\ \/ /\ i \in pending /\ pending' = pending \ {i}
            /\ got' = [got EXCEPT ![i] = IF @ = "nothing" THEN "answer" ELSE @]
            /\ Send(<<Frame("applied", Nil, i)>>)
         \/ Fault(<<Stale>>) /\ UNCHANGED <<pending, got>>
  BY DEF AcceptAnswer, Resolvable
<1>2. /\ Dropped /\ h \in Has(toWorker) /\ h.type = "answer"
      /\ \A f \in Has(toWorker') : Succeeds(h, f)
  BY <1>1, HandlesIs DEF DuplexInv
<1>3. i \in Asks
  BY <1>2, FramesTyped DEF DuplexInv, ToWorkerInv
<1> HIDE DEF h
<1>4. CASE Fault(<<Stale>>) /\ UNCHANGED <<pending, got>>
  <2>1. Unheard
    BY <1>4, StaleIs, InvTypes DEF DuplexInv
  <2>2. Quiet /\ Sound'
    BY <1>1, <1>2, <1>4, <2>1, InvTypes
    DEF Quiet, Sound, DataOK, EndpointInv, hostVars, store, DuplexInv, CheckpointInv
  <2>. QED BY <2>2, QuietKeeps
<1>5. CASE /\ i \in pending /\ pending' = pending \ {i}
           /\ got' = [got EXCEPT ![i] = IF @ = "nothing" THEN "answer" ELSE @]
           /\ Send(<<Frame("applied", Nil, i)>>)
  <2>1. got[i] = "nothing" /\ DataOK
    BY <1>5, InvTypes DEF Sound, EndpointInv
  <2>2. /\ got' \in [Asks -> {"nothing", "default", "answer"}]
        /\ got'[i] = "answer" /\ \A j \in Asks : j # i => got'[j] = got[j]
    BY <1>3, <1>5, <2>1 DEF DataOK
  <2>3. PICK y : Sent(y, "applied", Nil, i)
    <3>1. "applied" \in FrameTypes
      BY DEF FrameTypes
    <3>. QED BY <1>3, <1>5, <3>1, SentIs
  <2>4. ~lifecycle.failed
    BY <1>5 DEF Send, DuplexInv, HostInv
  <2>5. ask[i] = "applying" /\ \A f \in Has(toHost) : f.type = "applied" => f.ask # i
    BY <1>2, <2>4 DEF DuplexInv, AskInv
  <2>6. \A f \in Has(toWorker') : f.type = "answer" => f.ask # i
    BY <1>2 DEF Succeeds, Twice
  <2>7. \A f \in Has(toHost) : Follows(f, y)
    BY <2>3, <2>5 DEF Sent, Follows, Twice, Bears
  <2>8. DuplexTypeOK' /\ HostInv'
    BY <1>1, <1>5, <2>2, DuplexTypes, DuplexTypesNext
    DEF DuplexInv, DataOK, hostVars, store, HostInv
  <2>9. EndpointInv'
    <3>1. i \in 1 .. endpoint.asks
      BY <1>5, InvTypes
    <3>2. \A j \in Asks : j > endpoint.asks => got'[j] = "nothing"
      BY <2>2, <3>1, InvTypes DEF DuplexInv, EndpointInv
    <3>3. \A j \in pending' : j \in 1 .. endpoint.asks /\ got'[j] = "nothing"
      BY <1>5, <2>2, InvTypes DEF DuplexInv, EndpointInv
    <3>. QED BY <1>1, <3>2, <3>3 DEF DuplexInv, EndpointInv, hostVars
  <2>10. CheckpointInv'
    BY <1>1, <1>2, <2>3 DEF DuplexInv, CheckpointInv, hostVars, store, Sent, Dropped
  <2>11. AnswerInv'
    <3>1. \A f \in Has(toHost') : f.type = "applied" => f.ask \in Asks /\ got'[f.ask] = "answer"
      BY <1>3, <2>2, <2>3 DEF DuplexInv, AnswerInv, Sent
    <3>. QED BY <1>1, <2>2, <3>1 DEF DuplexInv, AnswerInv, hostVars
  <2>12. ToHostInv' /\ ToWorkerInv'
    BY <1>1, <1>2, <2>3, <2>7 DEF DuplexInv, ToHostInv, ToWorkerInv, Dropped, Sent
  <2>13. RunInv'
    BY <1>1, <1>2, <2>3 DEF DuplexInv, RunInv, hostVars, Sent, Dropped, Ends, Bears
  <2>14. ReadyInv'
    BY <1>1, <1>2, <2>3 DEF DuplexInv, ReadyInv, hostVars, Sent, Dropped
  <2>15. AskInv'
    BY <1>1, <1>2, <2>3, <2>5, <2>6 DEF DuplexInv, AskInv, hostVars, Sent, Dropped
  <2>. QED BY <2>8, <2>9, <2>10, <2>11, <2>12, <2>13, <2>14, <2>15 DEF DuplexInv
<1>. QED BY <1>1, <1>4, <1>5


\* Pi's request: of the Run under way, with a number nobody has used.
LEMMA PiAsksKeeps ==
  ASSUME DuplexInv, PiAsks
  PROVE  DuplexInv'
<1> DEFINE i == endpoint.asks + 1
<1>1. /\ UNCHANGED <<hostVars, toWorker, broken, got, gap, store, mishaps>> /\ ~broken
      /\ endpoint.phase # "none" /\ endpoint.asks < MaxAsks
      /\ endpoint' = [endpoint EXCEPT !.asks = @ + 1] /\ pending' = pending \cup {endpoint'.asks}
      /\ Send(<<Frame("request", endpoint.run, endpoint'.asks)>>)
  BY DEF PiAsks, Send
<1>2. /\ endpoint' \in Endpoints /\ endpoint'.run = endpoint.run /\ endpoint'.phase = endpoint.phase
      /\ endpoint'.stop = endpoint.stop /\ endpoint'.asks = i /\ i \in Asks
  BY <1>1, EndpointAsks, InvTypes DEF Sound
<1>3. /\ endpoint.asks \in Nat /\ i \in 1 .. i /\ i > endpoint.asks
      /\ 1 .. endpoint.asks \subseteq 1 .. i
  BY InvTypes
<1>4. \A n \in 1 .. endpoint.asks : n # i
  BY <1>3
<1>5. \A n \in Asks : n > i => n > endpoint.asks
  BY <1>3 DEF Asks
<1> HIDE DEF i
<1>6. endpoint.run \in Runs /\ endpoint.run # Nil
  BY <1>1, InvTypes DEF DuplexInv, EndpointInv
<1>7. PICK y : Sent(y, "request", endpoint.run, i)
  <2>1. "request" \in FrameTypes
    BY DEF FrameTypes
  <2>2. Send(<<Frame("request", endpoint.run, i)>>)
    BY <1>1, <1>2
  <2>. QED BY <1>2, <1>6, <2>1, <2>2, SentIs
<1>8. /\ ~lifecycle.failed /\ endpoint.run = lifecycle.run
      /\ \A f \in Has(toWorker) : f.type # "execute"
      /\ \A f \in Has(toHost) : ~Ends(f)
  BY <1>1, <1>6 DEF DuplexInv, HostInv, RunInv
<1>9. got[i] = "nothing" /\ ask[i] = "none"
  BY <1>2, <1>3, <1>8 DEF DuplexInv, EndpointInv, AskInv
<1>10. \A f \in Has(toHost) : Follows(f, y)
  <2>1. \A f \in Has(toHost) : f.type = "request" => f.ask # i
    BY <1>4 DEF DuplexInv, ToHostInv
  <2>. QED BY <1>7, <1>8, <2>1 DEF Sent, Follows, Twice
<1>11. DuplexTypeOK' /\ HostInv'
  BY <1>1, <1>2, DuplexTypes, DuplexTypesNext
  DEF DuplexInv, DataOK, hostVars, store, HostInv
<1>12. EndpointInv'
  BY <1>1, <1>2, <1>3, <1>5, <1>9 DEF DuplexInv, EndpointInv, hostVars
<1>13. CheckpointInv' /\ AnswerInv'
  BY <1>1, <1>7 DEF DuplexInv, CheckpointInv, AnswerInv, hostVars, store, Sent
<1>14. ToHostInv'
  <2>1. \A f \in Has(toHost') : f.type = "request" => f.ask \in 1 .. i
    BY <1>3, <1>7 DEF DuplexInv, ToHostInv, Sent
  <2>. QED BY <1>1, <1>2, <1>6, <1>7, <1>10, <2>1 DEF DuplexInv, ToHostInv, Sent
<1>15. ToWorkerInv'
  BY <1>1 DEF DuplexInv, ToWorkerInv
<1>16. RunInv'
  BY <1>1, <1>2, <1>7, <1>8 DEF DuplexInv, RunInv, hostVars, Sent, Ends, Bears
<1>17. ReadyInv'
  BY <1>1, <1>7 DEF DuplexInv, ReadyInv, hostVars, Sent
<1>18. AskInv'
  BY <1>1, <1>2, <1>5, <1>7, <1>9 DEF DuplexInv, AskInv, hostVars, Sent
<1>. QED BY <1>11, <1>12, <1>13, <1>14, <1>15, <1>16, <1>17, <1>18 DEF DuplexInv

\* The endpoint gives its Run up and says so in one or more frames.
LEMMA EndOfRunKeeps ==
  ASSUME DuplexInv, ~broken, endpoint.run # Nil, endpoint' = NoRun,
         UNCHANGED <<hostVars, toWorker, broken, pending, got, gap, store>>,
         mishaps' \in 0 .. MaxMishaps,
         toHost' \in Seq(Frames), Sorted(toHost', ToHostOrder),
         NEW new, Has(toHost') = Has(toHost) \cup new,
         \A f \in new :
           /\ f.type \in {"checkpoint", "completed", "cancelled", "fault"}
           /\ f.run = endpoint.run /\ f.ordered = ~gap
           /\ f.type \in {"completed", "cancelled"} => endpoint.run \in manifests
           /\ f.type = "cancelled" => endpoint.stop
  PROVE  DuplexInv'
<1>1. /\ endpoint' \in Endpoints /\ endpoint'.run = Nil /\ endpoint'.phase = "none"
      /\ endpoint'.stop = FALSE /\ endpoint'.asks = endpoint.asks
  BY EndpointFrees, InvTypes DEF Sound
<1>2. /\ ~lifecycle.failed /\ endpoint.run = lifecycle.run
      /\ \A f \in Has(toWorker) : f.type # "execute"
  BY DEF DuplexInv, HostInv, RunInv
<1>3. endpoint.stop => endpoint.run \in asked
  BY DEF DuplexInv, EndpointInv
<1>4. DuplexTypeOK' /\ HostInv'
  BY <1>1, DuplexTypes, DuplexTypesNext
  DEF DuplexInv, DataOK, hostVars, store, HostInv
<1>5. EndpointInv'
  BY <1>1 DEF DuplexInv, EndpointInv, hostVars
<1>6. CheckpointInv' /\ AnswerInv'
  BY <1>3 DEF DuplexInv, CheckpointInv, AnswerInv, hostVars, store
<1>7. ToHostInv' /\ ToWorkerInv'
  BY <1>1 DEF DuplexInv, ToHostInv, ToWorkerInv
<1>8. RunInv'
  BY <1>1, <1>2 DEF DuplexInv, RunInv, hostVars, Ends, Bears
<1>9. ReadyInv'
  BY DEF DuplexInv, ReadyInv, hostVars
<1>10. AskInv'
  BY <1>1 DEF DuplexInv, AskInv, hostVars
<1>. QED BY <1>4, <1>5, <1>6, <1>7, <1>8, <1>9, <1>10 DEF DuplexInv

\* Two frames in one go.
LEMMA SendTwo ==
  ASSUME ToHostInv, gap \in BOOLEAN, NEW x \in Frames, NEW w \in Frames, Send(<<x, w>>)
  PROVE  \E y, z \in Frames :
           /\ y.type = x.type /\ y.run = x.run /\ y.ask = x.ask /\ y.ordered = ~gap
           /\ z.type = w.type /\ z.run = w.run /\ z.ask = w.ask /\ z.ordered = ~gap
           /\ toHost' \in Seq(Frames) /\ Has(toHost') = Has(toHost) \cup {y, z}
           /\ (\A f \in Has(toHost) : Follows(f, y) /\ Follows(f, z)) /\ Follows(y, z)
                => Sorted(toHost', ToHostOrder)
<1> DEFINE y == [x EXCEPT !.ordered = ~gap]
           z == [w EXCEPT !.ordered = ~gap]
           s == Append(toHost, y)
<1>1. /\ y \in Frames /\ y.type = x.type /\ y.run = x.run /\ y.ask = x.ask /\ y.ordered = ~gap
      /\ z \in Frames /\ z.type = w.type /\ z.run = w.run /\ z.ask = w.ask /\ z.ordered = ~gap
  BY DEF Frames
<1>2. [n \in DOMAIN <<x, w>> |-> [<<x, w>>[n] EXCEPT !.ordered = ~gap]] = <<y, z>>
  OBVIOUS
<1>3. toHost' = toHost \o <<y, z>>
  BY <1>2 DEF Send
<1> HIDE DEF y, z
<1>4. toHost' = Append(s, z)
  BY <1>1, <1>3 DEF ToHostInv
<1>5. Has(toHost) \subseteq Frames
  BY DEF ToHostInv, Has
<1>6. /\ s \in Seq(Frames) /\ Has(s) = Has(toHost) \cup {y}
      /\ (\A f \in Has(toHost) : <<f, y>> \in ToHostOrder) => Sorted(s, ToHostOrder)
  BY <1>1, AppendToStream DEF ToHostInv
<1> HIDE DEF s
<1>7. /\ toHost' \in Seq(Frames) /\ Has(toHost') = Has(s) \cup {z}
      /\ Sorted(s, ToHostOrder) /\ (\A f \in Has(s) : <<f, z>> \in ToHostOrder)
           => Sorted(toHost', ToHostOrder)
  <2>1. s \in Seq(Frames) /\ z \in Frames
    BY <1>1, <1>6
  <2>2. /\ Append(s, z) \in Seq(Frames) /\ Has(Append(s, z)) = Has(s) \cup {z}
        /\ Sorted(s, ToHostOrder) /\ (\A f \in Has(s) : <<f, z>> \in ToHostOrder)
             => Sorted(Append(s, z), ToHostOrder)
    BY <2>1, AppendToStream
  <2>. QED BY <1>4, <2>2
<1>8. ASSUME \A f \in Has(toHost) : Follows(f, y) /\ Follows(f, z), Follows(y, z)
      PROVE  Sorted(toHost', ToHostOrder)
  <2>1. \A f \in Has(toHost) : <<f, y>> \in ToHostOrder /\ <<f, z>> \in ToHostOrder
    BY <1>1, <1>5, <1>8, OrdersAre
  <2>2. <<y, z>> \in ToHostOrder
    BY <1>1, <1>8, OrdersAre
  <2>. QED BY <1>6, <1>7, <2>1, <2>2
<1>9. Has(toHost') = Has(toHost) \cup {y, z}
  BY <1>6, <1>7
<1>. QED BY <1>1, <1>7, <1>8, <1>9

\* The outcome goes behind the checkpoint it stands for.
LEMMA FinishKeeps ==
  ASSUME DuplexInv, Finish
  PROVE  DuplexInv'
<1> DEFINE type == IF endpoint.stop THEN "cancelled" ELSE "completed"
           x == Frame("checkpoint", endpoint.run, Nil)
           w == Frame(type, endpoint.run, Nil)
<1>1. /\ UNCHANGED <<hostVars, toWorker, broken, pending, got, gap, store, mishaps>>
      /\ ~broken /\ endpoint.phase # "none" /\ endpoint.run \in manifests
      /\ endpoint' = NoRun /\ Send(<<x, w>>)
  BY DEF Finish, Send, Running, Proven
<1>2. endpoint.run \in Runs /\ endpoint.run # Nil
  BY <1>1, InvTypes DEF DuplexInv, EndpointInv
<1>3. type \in {"completed", "cancelled"} /\ (type = "cancelled" => endpoint.stop)
  OBVIOUS
<1> HIDE DEF type
<1>4. /\ x \in Frames /\ x.type = "checkpoint" /\ x.run = endpoint.run
      /\ w \in Frames /\ w.type = type /\ w.run = endpoint.run
  BY <1>2, <1>3 DEF Frame, Frames, FrameTypes
<1> HIDE DEF x, w
<1>5. PICK y, z \in Frames :
        /\ y.type = x.type /\ y.run = x.run /\ y.ask = x.ask /\ y.ordered = ~gap
        /\ z.type = w.type /\ z.run = w.run /\ z.ask = w.ask /\ z.ordered = ~gap
        /\ toHost' \in Seq(Frames) /\ Has(toHost') = Has(toHost) \cup {y, z}
        /\ (\A f \in Has(toHost) : Follows(f, y) /\ Follows(f, z)) /\ Follows(y, z)
             => Sorted(toHost', ToHostOrder)
  BY <1>1, <1>4, SendTwo, InvTypes DEF DuplexInv
<1>6. \A f \in Has(toHost) : ~Ends(f)
  BY <1>1, <1>2 DEF DuplexInv, HostInv, RunInv
<1>7. (\A f \in Has(toHost) : Follows(f, y) /\ Follows(f, z)) /\ Follows(y, z)
  BY <1>3, <1>4, <1>5, <1>6 DEF Follows, Twice, Ends
<1> DEFINE new == {y, z}
<1>8. \A f \in new :
        /\ f.type \in {"checkpoint", "completed", "cancelled", "fault"}
        /\ f.run = endpoint.run /\ f.ordered = ~gap
        /\ f.type \in {"completed", "cancelled"} => endpoint.run \in manifests
        /\ f.type = "cancelled" => endpoint.stop
  BY <1>1, <1>3, <1>4, <1>5
<1>9. mishaps' \in 0 .. MaxMishaps
  BY <1>1, InvTypes DEF Sound, DataOK
<1>10. /\ toHost' \in Seq(Frames) /\ Sorted(toHost', ToHostOrder)
       /\ Has(toHost') = Has(toHost) \cup new
  BY <1>5, <1>7
<1> HIDE DEF new
<1>. QED BY <1>1, <1>2, <1>8, <1>9, <1>10, EndOfRunKeeps

LEMMA ExecutionFailsKeeps ==
  ASSUME DuplexInv, ExecutionFails
  PROVE  DuplexInv'
<1>1. /\ UNCHANGED <<hostVars, toWorker, broken, pending, got, gap, store>>
      /\ endpoint.phase # "none" /\ endpoint' = NoRun
      /\ UNCHANGED toHost \/ Send(<<Frame("fault", endpoint.run, Nil)>>)
  BY DEF ExecutionFails, Fault, Failure
<1>2. mishaps' \in 0 .. MaxMishaps
  BY InvTypes, DuplexAssumption DEF ExecutionFails, Mishap, Sound, DataOK, DuplexAssumption
<1>3. endpoint.run \in Runs /\ endpoint.run # Nil
  BY <1>1, InvTypes DEF DuplexInv, EndpointInv
<1>4. CASE UNCHANGED toHost
  <2>1. /\ endpoint' \in Endpoints /\ endpoint'.run = Nil /\ endpoint'.phase = "none"
        /\ endpoint'.stop = FALSE /\ endpoint'.asks = endpoint.asks
    BY <1>1, EndpointFrees, InvTypes DEF Sound
  <2>2. Quiet /\ Sound'
    BY <1>1, <1>2, <1>4, <2>1, StreamsKept, InvTypes
    DEF Quiet, Sound, DataOK, EndpointInv, hostVars, store, DuplexInv, CheckpointInv
  <2>. QED BY <2>2, QuietKeeps
<1>5. CASE Send(<<Frame("fault", endpoint.run, Nil)>>)
  <2>1. ~broken
    BY <1>5 DEF Send
  <2>2. PICK y : Sent(y, "fault", endpoint.run, Nil)
    <3>1. "fault" \in FrameTypes
      BY DEF FrameTypes
    <3>. QED BY <1>3, <1>5, <3>1, SentIs
  <2>3. \A f \in Has(toHost) : ~Ends(f)
    BY <1>3, <2>1 DEF DuplexInv, HostInv, RunInv
  <2>4. \A f \in Has(toHost) : Follows(f, y)
    BY <2>2, <2>3 DEF Sent, Follows, Twice
  <2> DEFINE new == {y}
  <2>5. /\ toHost' \in Seq(Frames) /\ Sorted(toHost', ToHostOrder)
        /\ Has(toHost') = Has(toHost) \cup new
        /\ \A f \in new :
             /\ f.type \in {"checkpoint", "completed", "cancelled", "fault"}
             /\ f.run = endpoint.run /\ f.ordered = ~gap
             /\ f.type \in {"completed", "cancelled"} => endpoint.run \in manifests
             /\ f.type = "cancelled" => endpoint.stop
    BY <2>2, <2>4 DEF Sent
  <2> HIDE DEF new
  <2>. QED BY <1>1, <1>2, <1>3, <2>1, <2>5, EndOfRunKeeps
<1>. QED BY <1>1, <1>4, <1>5

-----------------------------------------------------------------------------
(* The invariant.                                                          *)

LEMMA DuplexInitInv == DuplexInit => DuplexInv
<1> SUFFICES ASSUME DuplexInit PROVE DuplexInv
  OBVIOUS
<1> DEFINE b == Frame("bootstrap", Nil, Nil)
<1>1. b \in Frames /\ b.type = "bootstrap" /\ b.run = Nil /\ b.ask = Nil
  BY DEF Frame, Frames, FrameTypes
<1>2. toWorker = <<b>> /\ toHost = <<>>
  BY DEF DuplexInit
<1> HIDE DEF b
<1>3. toWorker \in Seq(Frames) /\ Has(toWorker) = {b} /\ Sorted(toWorker, ToWorkerOrder)
  BY <1>1, <1>2 DEF Has, Sorted
<1>4. toHost \in Seq(Frames) /\ Has(toHost) = {} /\ Sorted(toHost, ToHostOrder)
  BY <1>2 DEF Has, Sorted
<1>5. 0 \in 0 .. MaxAsks /\ 0 \in 0 .. MaxMishaps
  BY DuplexAssumption DEF DuplexAssumption
<1>6. DuplexTypeOK
  BY <1>5 DEF DuplexInit, DuplexTypeOK
<1>7. HostInv /\ EndpointInv /\ AnswerInv
  BY <1>4 DEF DuplexInit, HostInv, EndpointInv, AnswerInv
<1>8. CheckpointInv
  BY <1>1, <1>3, <1>4 DEF DuplexInit, CheckpointInv
<1>9. ToHostInv /\ ToWorkerInv
  BY <1>1, <1>3, <1>4 DEF ToHostInv, ToWorkerInv
<1>10. RunInv /\ ReadyInv /\ AskInv
  BY <1>1, <1>3, <1>4 DEF DuplexInit, RunInv, ReadyInv, AskInv
<1>. QED BY <1>6, <1>7, <1>8, <1>9, <1>10 DEF DuplexInv

LEMMA DuplexStep ==
  ASSUME DuplexInv, [DuplexNext]_duplexVars
  PROVE  DuplexInv'
<1>1. ASSUME NEW r \in Runs, HostExecute(r) PROVE DuplexInv'
  BY <1>1, HostExecuteKeeps
<1>2. ASSUME NEW i \in Asks, NEW answer \in Answers, HostAnswer(i, answer) PROVE DuplexInv'
  BY <1>2, HostAnswerKeeps
<1>3. CASE HostStop \/ HostSteer
  BY <1>3, HostTellsRun
<1>4. CASE HostReceive \/ HostDisconnected
  BY <1>4, HostReceiveKeeps, HostDisconnectedKeeps
<1>5. CASE AcceptBootstrap \/ AcceptExecute \/ AcceptAnswer
  BY <1>5, AcceptBootstrapKeeps, AcceptExecuteKeeps, AcceptAnswerKeeps
<1>6. CASE RefuseBootstrap \/ AcceptStop \/ AcceptSteer \/ RefuseAnswer
  BY <1>6, RefuseBootstrapIs, AcceptStopIs, AcceptSteerIs, RefuseAnswerIs, QuietKeeps
<1>7. CASE Aborted \/ SessionOpened \/ PromptOver \/ WorkerLost \/ Closed
  BY <1>7, EndpointActsIs, QuietKeeps
<1>8. CASE Unencodable \/ PublishChunks \/ PublishManifest
  BY <1>8, UnencodableIs, PublishIs, QuietKeeps
<1>9. CASE PiAsks \/ Finish \/ ExecutionFails
  BY <1>9, PiAsksKeeps, FinishKeeps, ExecutionFailsKeeps
<1>10. CASE CloseEndpoint \/ StreamBreaks
  BY <1>10, CloseEndpointIs, StreamBreaksIs, QuietKeeps
<1>11. CASE UNCHANGED duplexVars
  <2>1. UNCHANGED <<hostVars, toWorker, toHost, broken, endpointVars, store, mishaps>>
    BY <1>11 DEF duplexVars
  <2>2. Quiet /\ Sound'
    BY <2>1, StreamsKept, InvTypes
    DEF Quiet, Sound, DataOK, EndpointInv, hostVars, endpointVars, store, DuplexInv,
        CheckpointInv
  <2>. QED BY <2>2, QuietKeeps
<1>. QED
  BY <1>1, <1>2, <1>3, <1>4, <1>5, <1>6, <1>7, <1>8, <1>9, <1>10, <1>11
  DEF DuplexNext, HostActs, WorkerActs

LEMMA DuplexInvCorrect == DuplexSpec => []DuplexInv
<1>1. DuplexInv /\ [DuplexNext]_duplexVars => DuplexInv'
  BY DuplexStep
<1>. QED BY DuplexInitInv, <1>1, PTL DEF DuplexSpec

\* Every state of the duplex is well typed.
THEOREM DuplexTypeCorrect == DuplexSpec => []DuplexTypeOK
<1>1. DuplexInv => DuplexTypeOK
  BY DEF DuplexInv
<1>. QED BY DuplexInvCorrect, <1>1, PTL

\* The frame that reaches a live Host over a stream without a spent number is
\* always one its lifecycle takes, whatever commands, stops, answers and
\* outcomes have crossed on their way: a generation never fails because
\* SessionGenerationLifecycle and ExactPiWorkerEndpoint disagree.
THEOREM LifecycleAcceptsCorrect == DuplexSpec => []LifecycleAccepts
<1>1. ASSUME DuplexInv PROVE LifecycleAccepts
  <2> SUFFICES ASSUME ~lifecycle.failed, ~gap, toHost # <<>> PROVE Takes(Head(toHost))
    BY DEF LifecycleAccepts
  <2> DEFINE h == Head(toHost)
  <2>1. h \in Has(toHost) /\ h \in Frames
    BY <1>1, TailOfStream DEF DuplexInv, ToHostInv
  <2> HIDE DEF h
  <2>2. h.ordered
    BY <1>1, <2>1 DEF DuplexInv, ToHostInv
  <2>3. h.type = "ready" => ~lifecycle.ready
    BY <1>1, <2>1 DEF DuplexInv, ReadyInv
  <2>4. /\ h.type \in {"request", "completed", "cancelled"} => h.run = lifecycle.run
        /\ h.type = "fault" => h.run \in {Nil, lifecycle.run}
    BY <1>1, <2>1 DEF DuplexInv, RunInv, ToHostInv, Bears
  <2>5. /\ h.type = "request" => ask[h.ask] = "none"
        /\ h.type = "applied" => ask[h.ask] = "applying"
    BY <1>1, <2>1 DEF DuplexInv, AskInv
  <2>. QED BY <2>2, <2>3, <2>4, <2>5 DEF Takes, h
<1>2. DuplexInv => LifecycleAccepts
  BY <1>1
<1>. QED BY DuplexInvCorrect, <1>2, PTL

\* A Run the Host has settled as completed or cancelled has its chunks and its
\* manifest on disk, and a cancelled one was stopped by name: PiCheckpointStore
\* .publish returns before the outcome is sent, and the outcome's frame keeps
\* behind the checkpoint's whenever the worker or the stream is lost.
THEOREM OutcomesAreProvenCorrect == DuplexSpec => []OutcomesAreProven
<1>1. DuplexInv => OutcomesAreProven
  BY DEF DuplexInv, CheckpointInv, OutcomesAreProven
<1>. QED BY DuplexInvCorrect, <1>1, PTL

\* An Interaction the Host holds for responded was answered to Pi with the
\* submitted value, never withdrawn by a stop or a close that crossed it.
THEOREM RespondedWasConsumedCorrect == DuplexSpec => []RespondedWasConsumed
<1>1. DuplexInv => RespondedWasConsumed
  BY DEF DuplexInv, AnswerInv, RespondedWasConsumed
<1>. QED BY DuplexInvCorrect, <1>1, PTL
=============================================================================
