-------------------------- MODULE CommandsProofs ---------------------------
(***************************************************************************)
(* Theorems about Commands, for every set of commands and recoveries and   *)
(* every bound in CommandsAssumption.                                      *)
(***************************************************************************)
EXTENDS Commands, SequenceTheorems, TLAPS

-----------------------------------------------------------------------------
(* The sequences on the wire. *)

LEMMA RangeOfAppend ==
  ASSUME NEW S, NEW s \in Seq(S), NEW x \in S
  PROVE  Append(s, x) \in Seq(S) /\ Range(Append(s, x)) = Range(s) \union {x}
BY AppendProperties DEF Range

LEMMA RangeOfTail ==
  ASSUME NEW S, NEW s \in Seq(S), s # <<>>
  PROVE  /\ Head(s) \in S /\ Tail(s) \in Seq(S)
         /\ Range(s) = {Head(s)} \union Range(Tail(s))
<1>1. Len(s) \in Nat \ {0} /\ DOMAIN s = 1..Len(s) /\ \A i \in 1..Len(s) : s[i] \in S
  BY EmptySeq, LenProperties
<1>2. Head(s) = s[1] /\ Tail(s) \in Seq(S) /\ Len(Tail(s)) = Len(s) - 1
      /\ \A i \in 1..Len(s) - 1 : Tail(s)[i] = s[i + 1]
  BY HeadTailProperties
<1>3. DOMAIN Tail(s) = 1..Len(s) - 1
  BY <1>1, <1>2, LenProperties
<1>4. ASSUME NEW i \in 1..Len(s) PROVE s[i] \in {Head(s)} \union Range(Tail(s))
  <2>1. CASE i = 1
    BY <2>1, <1>2
  <2>2. CASE i # 1
    <3>1. i - 1 \in 1..Len(s) - 1 /\ (i - 1) + 1 = i
      BY <2>2, <1>1
    <3>2. Tail(s)[i - 1] = s[i]
      BY <3>1, <1>2
    <3>. QED BY <3>1, <3>2, <1>3 DEF Range
  <2>. QED BY <2>1, <2>2
<1>5. ASSUME NEW i \in 1..Len(s) - 1 PROVE Tail(s)[i] \in Range(s)
  BY <1>1, <1>2 DEF Range
<1>6. Head(s) \in Range(s)
  BY <1>1, <1>2 DEF Range
<1>7. Range(s) \subseteq {Head(s)} \union Range(Tail(s))
  BY <1>1, <1>4 DEF Range
<1>8. Range(Tail(s)) \subseteq Range(s)
  BY <1>3, <1>5 DEF Range
<1>. QED BY <1>1, <1>2, <1>6, <1>7, <1>8

LEMMA RangeOfSent ==
  ASSUME NEW S, NEW s \in Seq(S), NEW x \in S
  PROVE  s \o <<x>> \in Seq(S) /\ Range(s \o <<x>>) = Range(s) \union {x}
<1>1. Append(s, x) = s \o <<x>>
  BY AppendIsConcat
<1>2. Append(s, x) \in Seq(S) /\ Range(Append(s, x)) = Range(s) \union {x}
  BY RangeOfAppend
<1>. QED BY <1>1, <1>2, Zenon

\* What the Host has received when a socket is gone.
LEMMA RangeOfReceived ==
  ASSUME NEW S, NEW s \in Seq(S), NEW t \in Seq(S), NEW n \in 0..Len(t)
  PROVE  /\ s \o SubSeq(t, 1, n) \in Seq(S)
         /\ Range(s \o SubSeq(t, 1, n)) \subseteq Range(s) \union Range(t)
<1>1. Len(t) \in Nat /\ DOMAIN t = 1..Len(t)
  BY LenProperties
<1>2. SubSeq(t, 1, n) \in Seq(S) /\ Len(SubSeq(t, 1, n)) = n
      /\ \A i \in 1..n : SubSeq(t, 1, n)[i] = t[i]
  BY <1>1
<1>3. Range(SubSeq(t, 1, n)) \subseteq Range(t)
  BY <1>1, <1>2, LenProperties DEF Range
<1>. QED BY <1>2, <1>3, ConcatProperties, RangeConcatenation DEF Range

-----------------------------------------------------------------------------
(* Types. *)

ShownOK ==
  /\ phase \in [Commands -> Phases] /\ outcomes \subseteq Commands
  /\ composer \in {<<>>} \union {<<c>> : c \in Commands}
  /\ journal \in [Commands -> Range(Ranks)]
CallersOK ==
  /\ step \in [Callers -> {"idle", "reserve", "mark", "opening", "waiting", "record",
                           "reading", "look", "done"}]
  /\ serving \in [Recoveries -> {<<>>} \union {<<c>> : c \in Commands}]
  /\ result \in [Callers -> Decided \union {"none", "uncertain"}]
  /\ todo \in [Recoveries -> SUBSET Commands]
  /\ found \in [Recoveries -> [Commands -> Decided \union {"none", "indeterminate"}]]
  /\ \A r \in Recoveries : step[r] \in {"opening", "waiting", "record"} => serving[r] # <<>>
WireOK ==
  /\ requests \in Seq(Commands) /\ late \in Seq(Commands)
  /\ answers \in Seq(Commands \X Decided)
HostOK ==
  /\ receipt \in [Commands -> Decided \union {"none"}]
  /\ effects \in [Commands -> Nat] /\ admits \in [Commands -> BOOLEAN]
  /\ mishaps \in 0..MaxMishaps /\ current \in BOOLEAN /\ up \in BOOLEAN

Typed == ShownOK /\ CallersOK /\ WireOK /\ HostOK

LEMMA States == Range(Ranks) = {"none", "reserved", "sent", "uncertain", "terminal", "reconciled"}
<1>1. DOMAIN Ranks = 1..6
  BY DEF Ranks
<1>. QED BY <1>1 DEF Range, Ranks

LEMMA TypedInit == Init => Typed
<1> USE CommandsAssumption, States DEF CommandsAssumption, Init
<1>1. Init => ShownOK
  BY DEF ShownOK, Phases
<1>2. ASSUME Init PROVE CallersOK
  <2>1. Nothing \in [Commands -> Decided \union {"none", "indeterminate"}]
    BY DEF Nothing
  <2>2. /\ step \in [Callers -> {"idle"}] /\ \A a \in Callers : step[a] = "idle"
    BY <1>2
  <2>3. found = [r \in Recoveries |-> Nothing] /\ result = [a \in Callers |-> "none"]
        /\ serving = [r \in Recoveries |-> <<>>] /\ todo = [r \in Recoveries |-> {}]
    BY <1>2
  <2>4. \A r \in Recoveries : step[r] = "idle"
    BY <2>2 DEF Callers
  <2>5. step \in [Callers -> {"idle", "reserve", "mark", "opening", "waiting", "record",
                            "reading", "look", "done"}]
    BY <2>2
  <2>. QED BY <2>1, <2>3, <2>4, <2>5 DEF CallersOK
<1>3. Init => WireOK
  BY DEF WireOK
<1>4. Init => HostOK
  BY DEF HostOK
<1>. QED BY <1>1, <1>2, <1>3, <1>4 DEF Typed

LEMMA ShownStep == Typed /\ [Next]_vars => ShownOK'
<1> USE CommandsAssumption DEF CommandsAssumption
<1> SUFFICES ASSUME Typed, [Next]_vars PROVE ShownOK'
  OBVIOUS
<1> USE DEF Typed, ShownOK, Phases, store, callers, wire, host, Commands, Callers
<1> USE States
<1>1. ASSUME NEW c \in Commands, Issue(c) PROVE ShownOK'
  BY <1>1 DEF Issue
<1>2. ASSUME NEW c \in Commands, Reserve(c) PROVE ShownOK'
  BY <1>2 DEF Reserve
<1>3. ASSUME NEW c \in Commands, MarkSent(c) PROVE ShownOK'
  BY <1>3 DEF MarkSent, Connecting
<1>4. ASSUME NEW c \in Commands, JournalFails(c) PROVE ShownOK'
  BY <1>4 DEF JournalFails, Mishap
<1>5. ASSUME NEW c \in Commands, Show(c) PROVE ShownOK'
  BY <1>5 DEF Show, Shown, CallersOK, Decided
<1>6. ASSUME NEW c \in Commands, TargetMoves(c) PROVE ShownOK'
  BY <1>6 DEF TargetMoves
<1>7. ASSUME NEW r \in Recoveries, StartRecovery(r) PROVE ShownOK'
  BY <1>7 DEF StartRecovery
<1>8. ASSUME NEW r \in Recoveries, ReadDone(r) PROVE ShownOK'
  BY <1>8 DEF ReadDone
<1>9. ASSUME NEW r \in Recoveries, RecordReplay(r) PROVE ShownOK'
  BY <1>9 DEF RecordReplay, Reconciled, CallersOK
<1>10. ASSUME NEW r \in Recoveries, ReplayFails(r) PROVE ShownOK'
  BY <1>10 DEF ReplayFails
<1>11. ASSUME NEW r \in Recoveries, FinishRecovery(r) PROVE ShownOK'
  BY <1>11 DEF FinishRecovery, Settled
<1>12. ASSUME NEW r \in Recoveries, NEW c \in Commands, LookMisses(r, c) PROVE ShownOK'
  BY <1>12 DEF LookMisses
<1>13. ASSUME NEW r \in Recoveries, NEW c \in Commands, LookFinds(r, c) PROVE ShownOK'
  BY <1>13 DEF LookFinds, Connecting
<1>14. ASSUME NEW a \in Callers, Transmit(a) PROVE ShownOK'
  BY <1>14 DEF Transmit
<1>15. ASSUME NEW a \in Callers, Timeout(a) PROVE ShownOK'
  BY <1>15 DEF Timeout
<1>16. ASSUME Deliver PROVE ShownOK'
  BY <1>16 DEF Deliver
<1>17. ASSUME Drop PROVE ShownOK'
  BY <1>17 DEF Drop, Mishap
<1>18. ASSUME Connect PROVE ShownOK'
  BY <1>18 DEF Connect
<1>19. ASSUME Project PROVE ShownOK'
  BY <1>19 DEF Project
<1>20. ASSUME Reload PROVE ShownOK'
  BY <1>20 DEF Reload, Mishap
<1>21. ASSUME Handle PROVE ShownOK'
  BY <1>21 DEF Handle
<1>22. ASSUME HandleLate PROVE ShownOK'
  BY <1>22 DEF HandleLate
<1>23. CASE UNCHANGED vars
  BY <1>23 DEF vars
<1>. QED
  BY <1>1, <1>2, <1>3, <1>4, <1>5, <1>6, <1>7, <1>8, <1>9, <1>10, <1>11, <1>12, <1>13, <1>14, <1>15,
     <1>16, <1>17, <1>18, <1>19, <1>20, <1>21, <1>22, <1>23 DEF Next, CommandNext, RecoveryNext

LEMMA CallersStep == Typed /\ [Next]_vars => CallersOK'
<1> USE CommandsAssumption DEF CommandsAssumption
<1> SUFFICES ASSUME Typed, [Next]_vars PROVE CallersOK'
  OBVIOUS
<1> USE DEF Typed, CallersOK, Decided, End, Nothing, Connecting, Finish, Mishap, store, callers,
   wire, host, Commands, Callers
<1>1. ASSUME NEW c \in Commands, Issue(c) PROVE CallersOK'
  BY <1>1 DEF Issue
<1>2. ASSUME NEW c \in Commands, Reserve(c) PROVE CallersOK'
  BY <1>2 DEF Reserve
<1>3. ASSUME NEW c \in Commands, MarkSent(c) PROVE CallersOK'
  BY <1>3 DEF MarkSent
<1>4. ASSUME NEW c \in Commands, JournalFails(c) PROVE CallersOK'
  BY <1>4 DEF JournalFails
<1>5. ASSUME NEW c \in Commands, Show(c) PROVE CallersOK'
  BY <1>5 DEF Show
<1>6. ASSUME NEW c \in Commands, TargetMoves(c) PROVE CallersOK'
  BY <1>6 DEF TargetMoves
<1>7. ASSUME NEW r \in Recoveries, StartRecovery(r) PROVE CallersOK'
  BY <1>7 DEF StartRecovery
<1>8. ASSUME NEW r \in Recoveries, ReadDone(r) PROVE CallersOK'
  BY <1>8 DEF ReadDone, ShownOK
<1>9. ASSUME NEW r \in Recoveries, RecordReplay(r) PROVE CallersOK'
  BY <1>9 DEF RecordReplay, Replayed
<1>10. ASSUME NEW r \in Recoveries, ReplayFails(r) PROVE CallersOK'
  BY <1>10 DEF ReplayFails
<1>11. ASSUME NEW r \in Recoveries, FinishRecovery(r) PROVE CallersOK'
  BY <1>11 DEF FinishRecovery
<1>12. ASSUME NEW r \in Recoveries, NEW c \in Commands, LookMisses(r, c) PROVE CallersOK'
  BY <1>12 DEF LookMisses
<1>13. ASSUME NEW r \in Recoveries, NEW c \in Commands, LookFinds(r, c) PROVE CallersOK'
  BY <1>13 DEF LookFinds
<1>14. ASSUME NEW a \in Callers, Transmit(a) PROVE CallersOK'
  BY <1>14 DEF Transmit
<1>15. ASSUME NEW a \in Callers, Timeout(a) PROVE CallersOK'
  BY <1>15 DEF Timeout, Subscribed
<1>16. ASSUME Deliver PROVE CallersOK'
  <2>1. Head(answers) \in Commands \X Decided
    BY <1>16, RangeOfTail DEF Deliver, WireOK
  <2>2. Head(answers)[2] \in Decided
    BY <2>1
  <2>3. Waiting(Head(answers)[1]) \subseteq {a \in Callers : step[a] \in Subscribed}
    BY DEF Waiting
  <2>. QED BY <2>2, <2>3, <1>16 DEF Deliver, Subscribed
<1>17. ASSUME Drop PROVE CallersOK'
  BY <1>17 DEF Drop, Subscribed
<1>18. ASSUME Connect PROVE CallersOK'
  BY <1>18 DEF Connect
<1>19. ASSUME Project PROVE CallersOK'
  BY <1>19 DEF Project
<1>20. ASSUME Reload PROVE CallersOK'
  BY <1>20 DEF Reload
<1>21. ASSUME Handle PROVE CallersOK'
  BY <1>21 DEF Handle
<1>22. ASSUME HandleLate PROVE CallersOK'
  BY <1>22 DEF HandleLate
<1>23. CASE UNCHANGED vars
  BY <1>23 DEF vars
<1>. QED
  BY <1>1, <1>2, <1>3, <1>4, <1>5, <1>6, <1>7, <1>8, <1>9, <1>10, <1>11, <1>12, <1>13, <1>14, <1>15,
     <1>16, <1>17, <1>18, <1>19, <1>20, <1>21, <1>22, <1>23 DEF Next, CommandNext, RecoveryNext

LEMMA WireStep == Typed /\ [Next]_vars => WireOK'
<1> USE CommandsAssumption DEF CommandsAssumption
<1> SUFFICES ASSUME Typed, [Next]_vars PROVE WireOK'
  OBVIOUS
<1> USE DEF Typed, WireOK, Connecting, Mishap, store, callers, wire, host, Commands, Callers
<1>1. ASSUME NEW c \in Commands, Issue(c) PROVE WireOK'
  BY <1>1 DEF Issue
<1>2. ASSUME NEW c \in Commands, Reserve(c) PROVE WireOK'
  BY <1>2 DEF Reserve
<1>3. ASSUME NEW c \in Commands, MarkSent(c) PROVE WireOK'
  BY <1>3, RangeOfAppend DEF MarkSent
<1>4. ASSUME NEW c \in Commands, JournalFails(c) PROVE WireOK'
  BY <1>4 DEF JournalFails
<1>5. ASSUME NEW c \in Commands, Show(c) PROVE WireOK'
  BY <1>5 DEF Show
<1>6. ASSUME NEW c \in Commands, TargetMoves(c) PROVE WireOK'
  BY <1>6 DEF TargetMoves
<1>7. ASSUME NEW r \in Recoveries, StartRecovery(r) PROVE WireOK'
  BY <1>7 DEF StartRecovery
<1>8. ASSUME NEW r \in Recoveries, ReadDone(r) PROVE WireOK'
  BY <1>8 DEF ReadDone
<1>9. ASSUME NEW r \in Recoveries, RecordReplay(r) PROVE WireOK'
  BY <1>9 DEF RecordReplay
<1>10. ASSUME NEW r \in Recoveries, ReplayFails(r) PROVE WireOK'
  BY <1>10 DEF ReplayFails
<1>11. ASSUME NEW r \in Recoveries, FinishRecovery(r) PROVE WireOK'
  BY <1>11 DEF FinishRecovery
<1>12. ASSUME NEW r \in Recoveries, NEW c \in Commands, LookMisses(r, c) PROVE WireOK'
  BY <1>12 DEF LookMisses
<1>13. ASSUME NEW r \in Recoveries, NEW c \in Commands, LookFinds(r, c) PROVE WireOK'
  BY <1>13, RangeOfAppend DEF LookFinds
<1>14. ASSUME NEW a \in Callers, Transmit(a) PROVE WireOK'
  <2>1. Sends(a) \in Seq(Commands)
    <3>1. CASE a \in Recoveries
      <4>1. serving[a] = <<>> \/ \E c \in Commands : serving[a] = <<c>>
        BY <3>1 DEF CallersOK
      <4>2. Sends(a) = serving[a]
        BY <3>1 DEF Sends
      <4>3. ASSUME NEW c \in Commands PROVE <<c>> \in Seq(Commands)
        OBVIOUS
      <4>4. <<>> \in Seq(Commands)
        OBVIOUS
      <4>. QED BY <4>1, <4>2, <4>3, <4>4, Zenon
    <3>2. CASE a \notin Recoveries
      BY <3>2 DEF Sends
    <3>. QED BY <3>1, <3>2
  <2>. QED BY <2>1, <1>14, ConcatProperties DEF Transmit
<1>15. ASSUME NEW a \in Callers, Timeout(a) PROVE WireOK'
  BY <1>15 DEF Timeout
<1>16. ASSUME Deliver PROVE WireOK'
  BY <1>16, RangeOfTail DEF Deliver
<1>17. ASSUME Drop PROVE WireOK'
  BY <1>17, RangeOfReceived DEF Drop
<1>18. ASSUME Connect PROVE WireOK'
  BY <1>18 DEF Connect
<1>19. ASSUME Project PROVE WireOK'
  BY <1>19 DEF Project
<1>20. ASSUME Reload PROVE WireOK'
  BY <1>20, RangeOfReceived DEF Reload
<1>21. ASSUME Handle PROVE WireOK'
  BY <1>21, RangeOfTail, RangeOfAppend DEF Handle, Decision, Recorded, QueueAction, HostOK, Decided
<1>22. ASSUME HandleLate PROVE WireOK'
  BY <1>22, RangeOfTail DEF HandleLate
<1>23. CASE UNCHANGED vars
  BY <1>23 DEF vars
<1>. QED
  BY <1>1, <1>2, <1>3, <1>4, <1>5, <1>6, <1>7, <1>8, <1>9, <1>10, <1>11, <1>12, <1>13, <1>14, <1>15,
     <1>16, <1>17, <1>18, <1>19, <1>20, <1>21, <1>22, <1>23 DEF Next, CommandNext, RecoveryNext

LEMMA HostStep == Typed /\ [Next]_vars => HostOK'
<1> USE CommandsAssumption DEF CommandsAssumption
<1> SUFFICES ASSUME Typed, [Next]_vars PROVE HostOK'
  OBVIOUS
<1> USE DEF Typed, HostOK, Mishap, store, callers, wire, host, Commands, Callers
<1>1. ASSUME NEW c \in Commands, Issue(c) PROVE HostOK'
  BY <1>1 DEF Issue
<1>2. ASSUME NEW c \in Commands, Reserve(c) PROVE HostOK'
  BY <1>2 DEF Reserve
<1>3. ASSUME NEW c \in Commands, MarkSent(c) PROVE HostOK'
  BY <1>3 DEF MarkSent, Connecting
<1>4. ASSUME NEW c \in Commands, JournalFails(c) PROVE HostOK'
  BY <1>4 DEF JournalFails
<1>5. ASSUME NEW c \in Commands, Show(c) PROVE HostOK'
  BY <1>5 DEF Show
<1>6. ASSUME NEW c \in Commands, TargetMoves(c) PROVE HostOK'
  BY <1>6 DEF TargetMoves
<1>7. ASSUME NEW r \in Recoveries, StartRecovery(r) PROVE HostOK'
  BY <1>7 DEF StartRecovery
<1>8. ASSUME NEW r \in Recoveries, ReadDone(r) PROVE HostOK'
  BY <1>8 DEF ReadDone
<1>9. ASSUME NEW r \in Recoveries, RecordReplay(r) PROVE HostOK'
  BY <1>9 DEF RecordReplay
<1>10. ASSUME NEW r \in Recoveries, ReplayFails(r) PROVE HostOK'
  BY <1>10 DEF ReplayFails
<1>11. ASSUME NEW r \in Recoveries, FinishRecovery(r) PROVE HostOK'
  BY <1>11 DEF FinishRecovery
<1>12. ASSUME NEW r \in Recoveries, NEW c \in Commands, LookMisses(r, c) PROVE HostOK'
  BY <1>12 DEF LookMisses
<1>13. ASSUME NEW r \in Recoveries, NEW c \in Commands, LookFinds(r, c) PROVE HostOK'
  BY <1>13 DEF LookFinds, Connecting
<1>14. ASSUME NEW a \in Callers, Transmit(a) PROVE HostOK'
  BY <1>14 DEF Transmit
<1>15. ASSUME NEW a \in Callers, Timeout(a) PROVE HostOK'
  BY <1>15 DEF Timeout
<1>16. ASSUME Deliver PROVE HostOK'
  BY <1>16 DEF Deliver
<1>17. ASSUME Drop PROVE HostOK'
  <2>1. current' = FALSE /\ up' = FALSE /\ mishaps' = mishaps + 1 /\ mishaps < MaxMishaps
        /\ UNCHANGED <<receipt, effects, admits>>
    BY <1>17 DEF Drop
  <2>2. current' \in BOOLEAN /\ up' \in BOOLEAN
    BY <2>1, Zenon
  <2>. QED BY <2>1, <2>2
<1>18. ASSUME Connect PROVE HostOK'
  BY <1>18 DEF Connect
<1>19. ASSUME Project PROVE HostOK'
  BY <1>19 DEF Project
<1>20. ASSUME Reload PROVE HostOK'
  BY <1>20 DEF Reload
<1>21. ASSUME Handle PROVE HostOK'
  <2>0. Head(requests) \in Commands
    BY <1>21, RangeOfTail DEF Handle, WireOK
  <2>1. PICK c \in Commands, refused \in BOOLEAN : Perform(c, refused)
    BY <1>21, <2>0, Zenon DEF Handle
  <2>2. Decision(c, refused) \in Decided
    BY DEF Decision, Recorded, QueueAction, Decided
  <2>3. receipt' \in [Commands -> Decided \union {"none"}]
    BY <2>1, <2>2 DEF Perform
  <2>4. effects' \in [Commands -> Nat]
    BY <2>1 DEF Perform
  <2>5. admits' \in [Commands -> BOOLEAN]
    <3>1. (c \in Submits) \in BOOLEAN
      OBVIOUS
    <3>2. admits' = admits \/ admits' = [admits EXCEPT ![c] = c \in Submits]
      BY <2>1, Zenon DEF Perform
    <3>. QED BY <3>1, <3>2, Zenon
  <2>. QED BY <2>3, <2>4, <2>5, <1>21 DEF Handle
<1>22. ASSUME HandleLate PROVE HostOK'
  <2>0. Head(late) \in Commands
    BY <1>22, RangeOfTail DEF HandleLate, WireOK
  <2>1. PICK c \in Commands, refused \in BOOLEAN : Perform(c, refused)
    BY <1>22, <2>0, Zenon DEF HandleLate
  <2>2. Decision(c, refused) \in Decided
    BY DEF Decision, Recorded, QueueAction, Decided
  <2>3. receipt' \in [Commands -> Decided \union {"none"}]
    BY <2>1, <2>2 DEF Perform
  <2>4. effects' \in [Commands -> Nat]
    BY <2>1 DEF Perform
  <2>5. admits' \in [Commands -> BOOLEAN]
    <3>1. (c \in Submits) \in BOOLEAN
      OBVIOUS
    <3>2. admits' = admits \/ admits' = [admits EXCEPT ![c] = c \in Submits]
      BY <2>1, Zenon DEF Perform
    <3>. QED BY <3>1, <3>2, Zenon
  <2>. QED BY <2>3, <2>4, <2>5, <1>22 DEF HandleLate
<1>23. CASE UNCHANGED vars
  BY <1>23 DEF vars
<1>. QED
  BY <1>1, <1>2, <1>3, <1>4, <1>5, <1>6, <1>7, <1>8, <1>9, <1>10, <1>11, <1>12, <1>13, <1>14, <1>15,
     <1>16, <1>17, <1>18, <1>19, <1>20, <1>21, <1>22, <1>23 DEF Next, CommandNext, RecoveryNext

-----------------------------------------------------------------------------
(* The inductive invariant. *)

\* A caller has an outcome exactly while it is about to record it.
ResultInv == \A a \in Callers : step[a] = "record" <=> result[a] # "none"

\* The command is on its way: its first send is journalled and under way or over.
Known(c) ==
  /\ phase[c] # "none" /\ step[c] \notin {"idle", "reserve", "mark"}
  /\ journal[c] \in {"sent", "uncertain", "terminal", "reconciled"}

\* Where a command can be seen by a recovery or by the Host, it is known.
Seen(c) ==
  /\ step[c] = "idle" <=> phase[c] = "none"
  /\ step[c] \in {"opening", "waiting", "record"} \/ c \in outcomes => Known(c)
  /\ effects[c] # 0 \/ receipt[c] # "none" => Known(c)
  /\ c \in Range(requests) \union Range(late) => Known(c)
  /\ \A r \in Recoveries : c \in todo[r] \/ serving[r] = <<c>> \/ found[r][c] # "none" => Known(c)
SeenInv == \A c \in Commands : Seen(c)

\* What keeps a command that was done from being done again.
OnceInv ==
  \A c \in Commands :
    /\ effects[c] \in {0, 1}
    /\ effects[c] = 1 => IF c \in Submits THEN receipt[c] # "none" ELSE ~admits[c]

\* Wherever "accepted" is written, the command was done.
TruthInv ==
  \A c \in Commands :
    /\ receipt[c] = "accepted" \/ <<c, "accepted">> \in Range(answers) => effects[c] = 1
    /\ result[c] = "accepted" \/ phase[c] \in {"accepted", "retired"} => effects[c] = 1
    /\ \A r \in Recoveries :
         (serving[r] = <<c>> /\ result[r] = "accepted") \/ found[r][c] = "accepted" => effects[c] = 1

LEMMA ResultStep == Typed /\ ResultInv /\ SeenInv /\ [Next]_vars => ResultInv'
<1> USE CommandsAssumption DEF CommandsAssumption
<1> SUFFICES ASSUME Typed, ResultInv, SeenInv, [Next]_vars PROVE ResultInv'
  OBVIOUS
<1> USE DEF Typed, CallersOK, ResultInv, store, callers, wire, host, Commands, Callers, Connecting,
   Finish, Decided, End
<1>1. ASSUME NEW c \in Commands, Issue(c) PROVE ResultInv'
  BY <1>1 DEF Issue, SeenInv, Seen
<1>2. ASSUME NEW c \in Commands, Reserve(c) PROVE ResultInv'
  BY <1>2 DEF Reserve
<1>3. ASSUME NEW c \in Commands, MarkSent(c) PROVE ResultInv'
  BY <1>3 DEF MarkSent
<1>4. ASSUME NEW c \in Commands, JournalFails(c) PROVE ResultInv'
  BY <1>4 DEF JournalFails
<1>5. ASSUME NEW c \in Commands, Show(c) PROVE ResultInv'
  BY <1>5 DEF Show
<1>6. ASSUME NEW c \in Commands, TargetMoves(c) PROVE ResultInv'
  BY <1>6 DEF TargetMoves
<1>7. ASSUME NEW r \in Recoveries, StartRecovery(r) PROVE ResultInv'
  BY <1>7 DEF StartRecovery
<1>8. ASSUME NEW r \in Recoveries, ReadDone(r) PROVE ResultInv'
  BY <1>8 DEF ReadDone
<1>9. ASSUME NEW r \in Recoveries, RecordReplay(r) PROVE ResultInv'
  BY <1>9 DEF RecordReplay
<1>10. ASSUME NEW r \in Recoveries, ReplayFails(r) PROVE ResultInv'
  BY <1>10 DEF ReplayFails
<1>11. ASSUME NEW r \in Recoveries, FinishRecovery(r) PROVE ResultInv'
  BY <1>11 DEF FinishRecovery
<1>12. ASSUME NEW r \in Recoveries, NEW c \in Commands, LookMisses(r, c) PROVE ResultInv'
  BY <1>12 DEF LookMisses
<1>13. ASSUME NEW r \in Recoveries, NEW c \in Commands, LookFinds(r, c) PROVE ResultInv'
  BY <1>13 DEF LookFinds
<1>14. ASSUME NEW a \in Callers, Transmit(a) PROVE ResultInv'
  BY <1>14 DEF Transmit
<1>15. ASSUME NEW a \in Callers, Timeout(a) PROVE ResultInv'
  BY <1>15 DEF Timeout, Subscribed
<1>16. ASSUME Deliver PROVE ResultInv'
  <2>1. Head(answers)[2] \in Decided
    <3>1. Head(answers) \in Commands \X Decided
      BY <1>16, RangeOfTail DEF Deliver, WireOK
    <3>. QED BY <3>1
  <2>2. Waiting(Head(answers)[1]) \subseteq {a \in Callers : step[a] \in Subscribed}
    BY DEF Waiting
  <2>. QED BY <2>1, <2>2, <1>16 DEF Deliver, Subscribed
<1>17. ASSUME Drop PROVE ResultInv'
  BY <1>17 DEF Drop, Subscribed
<1>18. ASSUME Connect PROVE ResultInv'
  BY <1>18 DEF Connect
<1>19. ASSUME Project PROVE ResultInv'
  BY <1>19 DEF Project
<1>20. ASSUME Reload PROVE ResultInv'
  BY <1>20 DEF Reload
<1>21. ASSUME Handle PROVE ResultInv'
  BY <1>21 DEF Handle
<1>22. ASSUME HandleLate PROVE ResultInv'
  BY <1>22 DEF HandleLate
<1>23. CASE UNCHANGED vars
  BY <1>23 DEF vars
<1>. QED
  BY <1>1, <1>2, <1>3, <1>4, <1>5, <1>6, <1>7, <1>8, <1>9, <1>10, <1>11, <1>12, <1>13, <1>14, <1>15,
     <1>16, <1>17, <1>18, <1>19, <1>20, <1>21, <1>22, <1>23 DEF Next, CommandNext, RecoveryNext

LEMMA KnownStays ==
  ASSUME Typed, ResultInv, [Next]_vars, NEW k \in Commands, Known(k)
  PROVE  Known(k)'
<1> USE CommandsAssumption DEF CommandsAssumption
<1> USE DEF Typed, CallersOK, ShownOK, ResultInv, Known, store, callers, wire, host, Commands,
   Callers, Connecting, Finish
<1>1. ASSUME NEW c \in Commands, Issue(c) PROVE Known(k)'
  BY <1>1 DEF Issue
<1>2. ASSUME NEW c \in Commands, Reserve(c) PROVE Known(k)'
  BY <1>2 DEF Reserve
<1>3. ASSUME NEW c \in Commands, MarkSent(c) PROVE Known(k)'
  BY <1>3 DEF MarkSent
<1>4. ASSUME NEW c \in Commands, JournalFails(c) PROVE Known(k)'
  BY <1>4 DEF JournalFails
<1>5. ASSUME NEW c \in Commands, Show(c) PROVE Known(k)'
  BY <1>5 DEF Show, Shown
<1>6. ASSUME NEW c \in Commands, TargetMoves(c) PROVE Known(k)'
  BY <1>6 DEF TargetMoves
<1>7. ASSUME NEW r \in Recoveries, StartRecovery(r) PROVE Known(k)'
  BY <1>7 DEF StartRecovery
<1>8. ASSUME NEW r \in Recoveries, ReadDone(r) PROVE Known(k)'
  BY <1>8 DEF ReadDone
<1>9. ASSUME NEW r \in Recoveries, RecordReplay(r) PROVE Known(k)'
  BY <1>9 DEF RecordReplay, Reconciled
<1>10. ASSUME NEW r \in Recoveries, ReplayFails(r) PROVE Known(k)'
  BY <1>10 DEF ReplayFails, End
<1>11. ASSUME NEW r \in Recoveries, FinishRecovery(r) PROVE Known(k)'
  BY <1>11 DEF FinishRecovery, Settled, End
<1>12. ASSUME NEW r \in Recoveries, NEW c \in Commands, LookMisses(r, c) PROVE Known(k)'
  BY <1>12 DEF LookMisses
<1>13. ASSUME NEW r \in Recoveries, NEW c \in Commands, LookFinds(r, c) PROVE Known(k)'
  BY <1>13 DEF LookFinds
<1>14. ASSUME NEW a \in Callers, Transmit(a) PROVE Known(k)'
  BY <1>14 DEF Transmit
<1>15. ASSUME NEW a \in Callers, Timeout(a) PROVE Known(k)'
  BY <1>15 DEF Timeout
<1>16. ASSUME Deliver PROVE Known(k)'
  BY <1>16 DEF Deliver
<1>17. ASSUME Drop PROVE Known(k)'
  BY <1>17 DEF Drop, Subscribed
<1>18. ASSUME Connect PROVE Known(k)'
  BY <1>18 DEF Connect
<1>19. ASSUME Project PROVE Known(k)'
  BY <1>19 DEF Project
<1>20. ASSUME Reload PROVE Known(k)'
  BY <1>20 DEF Reload, End
<1>21. ASSUME Handle PROVE Known(k)'
  BY <1>21 DEF Handle
<1>22. ASSUME HandleLate PROVE Known(k)'
  BY <1>22 DEF HandleLate
<1>23. CASE UNCHANGED vars
  BY <1>23 DEF vars
<1>. QED
  BY <1>1, <1>2, <1>3, <1>4, <1>5, <1>6, <1>7, <1>8, <1>9, <1>10, <1>11, <1>12, <1>13, <1>14, <1>15,
     <1>16, <1>17, <1>18, <1>19, <1>20, <1>21, <1>22, <1>23 DEF Next, CommandNext, RecoveryNext

LEMMA SeenStep == Typed /\ ResultInv /\ SeenInv /\ [Next]_vars => SeenInv'
<1> USE CommandsAssumption DEF CommandsAssumption
<1> SUFFICES ASSUME Typed, ResultInv, SeenInv, [Next]_vars, NEW k \in Commands PROVE Seen(k)'
  BY DEF SeenInv
<1>k. \A c \in Commands : Known(c) => Known(c)'
  BY KnownStays
<1>s. \A c \in Commands : Seen(c)
  BY DEF SeenInv
<1> USE <1>k, <1>s DEF Seen, Typed, CallersOK, ShownOK, store, callers, wire, host, Commands,
   Callers, Finish
<1>1. ASSUME NEW c \in Commands, Issue(c) PROVE Seen(k)'
  BY <1>1 DEF Issue
<1>2. ASSUME NEW c \in Commands, Reserve(c) PROVE Seen(k)'
  BY <1>2 DEF Reserve
<1>3. ASSUME NEW c \in Commands, MarkSent(c) PROVE Seen(k)'
  <2>k. Known(c)'
    BY <1>3 DEF MarkSent, Connecting, Known
  <2>1. step'[k] = "idle" <=> phase'[k] = "none"
    BY <1>3, <2>k DEF MarkSent, Connecting
  <2>2. step'[k] \in {"opening", "waiting", "record"} \/ k \in outcomes' => Known(k)'
    BY <1>3, <2>k DEF MarkSent, Connecting
  <2>3. effects'[k] # 0 \/ receipt'[k] # "none" => Known(k)'
    BY <1>3 DEF MarkSent
  <2>4. k \in Range(requests') \union Range(late') => Known(k)'
    BY <1>3, <2>k, RangeOfAppend DEF MarkSent, Connecting, WireOK
  <2>5. \A s \in Recoveries : k \in todo'[s] \/ serving'[s] = <<k>> \/ found'[s][k] # "none" =>
     Known(k)'
    BY <1>3, <2>k DEF MarkSent, Connecting
  <2>. QED BY <2>1, <2>2, <2>3, <2>4, <2>5
<1>4. ASSUME NEW c \in Commands, JournalFails(c) PROVE Seen(k)'
  BY <1>4 DEF JournalFails
<1>5. ASSUME NEW c \in Commands, Show(c) PROVE Seen(k)'
  <2>k. Known(c)'
    BY <1>5 DEF Show
  <2>1. step'[k] = "idle" <=> phase'[k] = "none"
    BY <1>5, <2>k DEF Show, Known
  <2>2. step'[k] \in {"opening", "waiting", "record"} \/ k \in outcomes' => Known(k)'
    BY <1>5, <2>k DEF Show
  <2>3. effects'[k] # 0 \/ receipt'[k] # "none" => Known(k)'
    BY <1>5 DEF Show
  <2>4. k \in Range(requests') \union Range(late') => Known(k)'
    BY <1>5 DEF Show
  <2>5. \A s \in Recoveries : k \in todo'[s] \/ serving'[s] = <<k>> \/ found'[s][k] # "none" =>
     Known(k)'
    BY <1>5 DEF Show
  <2>. QED BY <2>1, <2>2, <2>3, <2>4, <2>5
<1>6. ASSUME NEW c \in Commands, TargetMoves(c) PROVE Seen(k)'
  BY <1>6 DEF TargetMoves
<1>7. ASSUME NEW r \in Recoveries, StartRecovery(r) PROVE Seen(k)'
  BY <1>7 DEF StartRecovery
<1>8. ASSUME NEW r \in Recoveries, ReadDone(r) PROVE Seen(k)'
  BY <1>8 DEF ReadDone
<1>9. ASSUME NEW r \in Recoveries, RecordReplay(r) PROVE Seen(k)'
  BY <1>9 DEF RecordReplay
<1>10. ASSUME NEW r \in Recoveries, ReplayFails(r) PROVE Seen(k)'
  <2>1. step'[k] = "idle" <=> phase'[k] = "none"
    BY <1>10 DEF ReplayFails, End, Nothing
  <2>2. step'[k] \in {"opening", "waiting", "record"} \/ k \in outcomes' => Known(k)'
    BY <1>10 DEF ReplayFails, End, Nothing
  <2>3. effects'[k] # 0 \/ receipt'[k] # "none" => Known(k)'
    BY <1>10 DEF ReplayFails
  <2>4. k \in Range(requests') \union Range(late') => Known(k)'
    BY <1>10 DEF ReplayFails
  <2>5. \A s \in Recoveries : k \in todo'[s] \/ serving'[s] = <<k>> \/ found'[s][k] # "none" =>
     Known(k)'
    BY <1>10 DEF ReplayFails, End, Nothing
  <2>. QED BY <2>1, <2>2, <2>3, <2>4, <2>5
<1>11. ASSUME NEW r \in Recoveries, FinishRecovery(r) PROVE Seen(k)'
  <2>1. step'[k] = "idle" <=> phase'[k] = "none"
    BY <1>11 DEF FinishRecovery, End, Settled, Known
  <2>2. step'[k] \in {"opening", "waiting", "record"} \/ k \in outcomes' => Known(k)'
    BY <1>11 DEF FinishRecovery, End
  <2>3. effects'[k] # 0 \/ receipt'[k] # "none" => Known(k)'
    BY <1>11 DEF FinishRecovery
  <2>4. k \in Range(requests') \union Range(late') => Known(k)'
    BY <1>11 DEF FinishRecovery
  <2>5. \A s \in Recoveries : k \in todo'[s] \/ serving'[s] = <<k>> \/ found'[s][k] # "none" =>
     Known(k)'
    BY <1>11 DEF FinishRecovery, End, Nothing
  <2>. QED BY <2>1, <2>2, <2>3, <2>4, <2>5
<1>12. ASSUME NEW r \in Recoveries, NEW c \in Commands, LookMisses(r, c) PROVE Seen(k)'
  BY <1>12 DEF LookMisses
<1>13. ASSUME NEW r \in Recoveries, NEW c \in Commands, LookFinds(r, c) PROVE Seen(k)'
  <2>s. Range(requests') \subseteq Range(requests) \union {c}
    <3>1. Range(Append(requests, c)) = Range(requests) \union {c}
      BY RangeOfAppend DEF WireOK
    <3>. QED BY <3>1, <1>13 DEF LookFinds, Connecting
  <2>1. step'[k] = "idle" <=> phase'[k] = "none"
    BY <1>13 DEF LookFinds, Connecting
  <2>2. step'[k] \in {"opening", "waiting", "record"} \/ k \in outcomes' => Known(k)'
    BY <1>13 DEF LookFinds, Connecting
  <2>3. effects'[k] # 0 \/ receipt'[k] # "none" => Known(k)'
    BY <1>13 DEF LookFinds
  <2>4. k \in Range(requests') \union Range(late') => Known(k)'
    BY <1>13, <2>s DEF LookFinds
  <2>5. \A s \in Recoveries : k \in todo'[s] \/ serving'[s] = <<k>> \/ found'[s][k] # "none" =>
     Known(k)'
    BY <1>13 DEF LookFinds, Connecting
  <2>. QED BY <2>1, <2>2, <2>3, <2>4, <2>5
<1>14. ASSUME NEW a \in Callers, Transmit(a) PROVE Seen(k)'
  <2>s. Range(requests') \subseteq Range(requests) \union {c \in Commands : Known(c)}
    <3>1. PICK d \in Commands : Sends(a) = <<d>> /\ Known(d)
      <4>1. CASE a \in Recoveries
        <5>1. serving[a] # <<>> /\ serving[a] \in {<<>>} \union {<<d>> : d \in Commands}
          BY <1>14, <4>1 DEF Transmit
        <5>2. PICK d \in Commands : serving[a] = <<d>>
          BY <5>1
        <5>. QED BY <4>1, <5>2 DEF Sends
      <4>2. CASE a \notin Recoveries
        BY <1>14, <4>2 DEF Transmit, Sends
      <4>. QED BY <4>1, <4>2
    <3>2. Range(requests \o <<d>>) = Range(requests) \union {d}
      BY <3>1, RangeOfSent DEF WireOK
    <3>. QED BY <3>1, <3>2, <1>14 DEF Transmit
  <2>1. step'[k] = "idle" <=> phase'[k] = "none"
    BY <1>14 DEF Transmit
  <2>2. step'[k] \in {"opening", "waiting", "record"} \/ k \in outcomes' => Known(k)'
    BY <1>14 DEF Transmit
  <2>3. effects'[k] # 0 \/ receipt'[k] # "none" => Known(k)'
    BY <1>14 DEF Transmit
  <2>4. k \in Range(requests') \union Range(late') => Known(k)'
    BY <1>14, <2>s DEF Transmit
  <2>5. \A s \in Recoveries : k \in todo'[s] \/ serving'[s] = <<k>> \/ found'[s][k] # "none" =>
     Known(k)'
    BY <1>14 DEF Transmit
  <2>. QED BY <2>1, <2>2, <2>3, <2>4, <2>5
<1>15. ASSUME NEW a \in Callers, Timeout(a) PROVE Seen(k)'
  <2>1. step'[k] = "idle" <=> phase'[k] = "none"
    BY <1>15 DEF Timeout, Subscribed
  <2>2. step'[k] \in {"opening", "waiting", "record"} \/ k \in outcomes' => Known(k)'
    BY <1>15 DEF Timeout, Subscribed
  <2>3. effects'[k] # 0 \/ receipt'[k] # "none" => Known(k)'
    BY <1>15 DEF Timeout
  <2>4. k \in Range(requests') \union Range(late') => Known(k)'
    BY <1>15 DEF Timeout
  <2>5. \A s \in Recoveries : k \in todo'[s] \/ serving'[s] = <<k>> \/ found'[s][k] # "none" =>
     Known(k)'
    BY <1>15 DEF Timeout, Subscribed
  <2>. QED BY <2>1, <2>2, <2>3, <2>4, <2>5
<1>16. ASSUME Deliver PROVE Seen(k)'
  <2>1. step'[k] = "idle" <=> phase'[k] = "none"
    BY <1>16 DEF Deliver, Waiting, Subscribed
  <2>2. step'[k] \in {"opening", "waiting", "record"} \/ k \in outcomes' => Known(k)'
    BY <1>16 DEF Deliver, Waiting, Subscribed
  <2>3. effects'[k] # 0 \/ receipt'[k] # "none" => Known(k)'
    BY <1>16 DEF Deliver
  <2>4. k \in Range(requests') \union Range(late') => Known(k)'
    BY <1>16 DEF Deliver
  <2>5. \A s \in Recoveries : k \in todo'[s] \/ serving'[s] = <<k>> \/ found'[s][k] # "none" =>
     Known(k)'
    BY <1>16 DEF Deliver, Waiting, Subscribed
  <2>. QED BY <2>1, <2>2, <2>3, <2>4, <2>5
<1>17. ASSUME Drop PROVE Seen(k)'
  <2>s. Range(requests') \union Range(late') \subseteq Range(requests) \union Range(late)
    <3>1. PICK n \in 0..Len(requests) : late' = late \o SubSeq(requests, 1, n)
      BY <1>17, Zenon DEF Drop
    <3>2. requests' = <<>> /\ Range(<<>>) = {}
      BY <1>17 DEF Drop, Range
    <3>. QED BY <3>1, <3>2, RangeOfReceived DEF WireOK
  <2>1. step'[k] = "idle" <=> phase'[k] = "none"
    BY <1>17 DEF Drop, Subscribed
  <2>2. step'[k] \in {"opening", "waiting", "record"} \/ k \in outcomes' => Known(k)'
    BY <1>17 DEF Drop, Subscribed
  <2>3. effects'[k] # 0 \/ receipt'[k] # "none" => Known(k)'
    BY <1>17 DEF Drop
  <2>4. k \in Range(requests') \union Range(late') => Known(k)'
    BY <1>17, <2>s DEF Drop
  <2>5. \A s \in Recoveries : k \in todo'[s] \/ serving'[s] = <<k>> \/ found'[s][k] # "none" =>
     Known(k)'
    BY <1>17 DEF Drop, Subscribed
  <2>. QED BY <2>1, <2>2, <2>3, <2>4, <2>5
<1>18. ASSUME Connect PROVE Seen(k)'
  BY <1>18 DEF Connect
<1>19. ASSUME Project PROVE Seen(k)'
  BY <1>19 DEF Project
<1>20. ASSUME Reload PROVE Seen(k)'
  <2>s. Range(requests') \union Range(late') \subseteq Range(requests) \union Range(late)
    <3>1. PICK n \in 0..Len(requests) : late' = late \o SubSeq(requests, 1, n)
      BY <1>20, Zenon DEF Reload
    <3>2. requests' = <<>> /\ Range(<<>>) = {}
      BY <1>20 DEF Reload, Range
    <3>. QED BY <3>1, <3>2, RangeOfReceived DEF WireOK
  <2>1. step'[k] = "idle" <=> phase'[k] = "none"
    BY <1>20 DEF Reload, End, Nothing
  <2>2. step'[k] \in {"opening", "waiting", "record"} \/ k \in outcomes' => Known(k)'
    BY <1>20 DEF Reload, End, Nothing
  <2>3. effects'[k] # 0 \/ receipt'[k] # "none" => Known(k)'
    BY <1>20 DEF Reload
  <2>4. k \in Range(requests') \union Range(late') => Known(k)'
    BY <1>20, <2>s DEF Reload
  <2>5. \A s \in Recoveries : k \in todo'[s] \/ serving'[s] = <<k>> \/ found'[s][k] # "none" =>
     Known(k)'
    BY <1>20 DEF Reload, End, Nothing
  <2>. QED BY <2>1, <2>2, <2>3, <2>4, <2>5
<1>21. ASSUME Handle PROVE Seen(k)'
  <2>h. Head(requests) \in Commands /\ Head(requests) \in Range(requests)
    BY <1>21, RangeOfTail DEF Handle, WireOK
  <2>p. PICK refused \in BOOLEAN : Perform(Head(requests), refused)
    BY <1>21, Zenon DEF Handle
  <2>1. step'[k] = "idle" <=> phase'[k] = "none"
    BY <1>21 DEF Handle
  <2>2. step'[k] \in {"opening", "waiting", "record"} \/ k \in outcomes' => Known(k)'
    BY <1>21 DEF Handle
  <2>3. effects'[k] # 0 \/ receipt'[k] # "none" => Known(k)'
    BY <1>21, <2>h, <2>p DEF Handle, Perform, HostOK
  <2>4. k \in Range(requests') \union Range(late') => Known(k)'
    BY <1>21, RangeOfTail DEF Handle, WireOK
  <2>5. \A s \in Recoveries : k \in todo'[s] \/ serving'[s] = <<k>> \/ found'[s][k] # "none" =>
     Known(k)'
    BY <1>21 DEF Handle
  <2>. QED BY <2>1, <2>2, <2>3, <2>4, <2>5
<1>22. ASSUME HandleLate PROVE Seen(k)'
  <2>h. Head(late) \in Commands /\ Head(late) \in Range(late)
    BY <1>22, RangeOfTail DEF HandleLate, WireOK
  <2>p. PICK refused \in BOOLEAN : Perform(Head(late), refused)
    BY <1>22, Zenon DEF HandleLate
  <2>1. step'[k] = "idle" <=> phase'[k] = "none"
    BY <1>22 DEF HandleLate
  <2>2. step'[k] \in {"opening", "waiting", "record"} \/ k \in outcomes' => Known(k)'
    BY <1>22 DEF HandleLate
  <2>3. effects'[k] # 0 \/ receipt'[k] # "none" => Known(k)'
    BY <1>22, <2>h, <2>p DEF HandleLate, Perform, HostOK
  <2>4. k \in Range(requests') \union Range(late') => Known(k)'
    BY <1>22, RangeOfTail DEF HandleLate, WireOK
  <2>5. \A s \in Recoveries : k \in todo'[s] \/ serving'[s] = <<k>> \/ found'[s][k] # "none" =>
     Known(k)'
    BY <1>22 DEF HandleLate
  <2>. QED BY <2>1, <2>2, <2>3, <2>4, <2>5
<1>23. CASE UNCHANGED vars
  BY <1>23 DEF vars
<1>. QED
  BY <1>1, <1>2, <1>3, <1>4, <1>5, <1>6, <1>7, <1>8, <1>9, <1>10, <1>11, <1>12, <1>13, <1>14, <1>15,
     <1>16, <1>17, <1>18, <1>19, <1>20, <1>21, <1>22, <1>23 DEF Next, CommandNext, RecoveryNext

LEMMA OnceStep == Typed /\ SeenInv /\ OnceInv /\ [Next]_vars => OnceInv'
<1> USE CommandsAssumption DEF CommandsAssumption
<1> SUFFICES ASSUME Typed, SeenInv, OnceInv, [Next]_vars PROVE OnceInv'
  OBVIOUS
<1> USE DEF Typed, HostOK, OnceInv, store, callers, wire, host, Commands
<1>1. ASSUME NEW c \in Commands, Issue(c) PROVE OnceInv'
  <2>1. effects[c] = 0
    BY <1>1 DEF Issue, SeenInv, Seen, Known
  <2>2. \A k \in Commands : k # c => (admits'[k] <=> admits[k])
    BY <1>1 DEF Issue
  <2>. QED BY <1>1, <2>1, <2>2 DEF Issue
<1>2. ASSUME NEW c \in Commands, Reserve(c) PROVE OnceInv'
  BY <1>2 DEF Reserve
<1>3. ASSUME NEW c \in Commands, MarkSent(c) PROVE OnceInv'
  BY <1>3 DEF MarkSent, Connecting
<1>4. ASSUME NEW c \in Commands, JournalFails(c) PROVE OnceInv'
  BY <1>4 DEF JournalFails
<1>5. ASSUME NEW c \in Commands, Show(c) PROVE OnceInv'
  BY <1>5 DEF Show
<1>6. ASSUME NEW c \in Commands, TargetMoves(c) PROVE OnceInv'
  BY <1>6 DEF TargetMoves
<1>7. ASSUME NEW r \in Recoveries, StartRecovery(r) PROVE OnceInv'
  BY <1>7 DEF StartRecovery
<1>8. ASSUME NEW r \in Recoveries, ReadDone(r) PROVE OnceInv'
  BY <1>8 DEF ReadDone
<1>9. ASSUME NEW r \in Recoveries, RecordReplay(r) PROVE OnceInv'
  BY <1>9 DEF RecordReplay
<1>10. ASSUME NEW r \in Recoveries, ReplayFails(r) PROVE OnceInv'
  BY <1>10 DEF ReplayFails
<1>11. ASSUME NEW r \in Recoveries, FinishRecovery(r) PROVE OnceInv'
  BY <1>11 DEF FinishRecovery
<1>12. ASSUME NEW r \in Recoveries, NEW c \in Commands, LookMisses(r, c) PROVE OnceInv'
  BY <1>12 DEF LookMisses
<1>13. ASSUME NEW r \in Recoveries, NEW c \in Commands, LookFinds(r, c) PROVE OnceInv'
  BY <1>13 DEF LookFinds, Connecting
<1>14. ASSUME NEW a \in Callers, Transmit(a) PROVE OnceInv'
  BY <1>14 DEF Transmit
<1>15. ASSUME NEW a \in Callers, Timeout(a) PROVE OnceInv'
  BY <1>15 DEF Timeout
<1>16. ASSUME Deliver PROVE OnceInv'
  BY <1>16 DEF Deliver
<1>17. ASSUME Drop PROVE OnceInv'
  BY <1>17 DEF Drop
<1>18. ASSUME Connect PROVE OnceInv'
  BY <1>18 DEF Connect
<1>19. ASSUME Project PROVE OnceInv'
  BY <1>19 DEF Project
<1>20. ASSUME Reload PROVE OnceInv'
  BY <1>20 DEF Reload
<1>21. ASSUME Handle PROVE OnceInv'
  <2>1. Head(requests) \in Commands
    BY <1>21, RangeOfTail DEF Handle, WireOK
  <2>2. PICK c \in Commands, refused \in BOOLEAN : Perform(c, refused)
    BY <1>21, <2>1, Zenon DEF Handle
  <2>3. ASSUME NEW k \in Commands
        PROVE  /\ effects'[k] \in {0, 1}
               /\ effects'[k] = 1 => IF k \in Submits THEN receipt'[k] # "none" ELSE ~admits'[k]
    <3>1. CASE k # c \/ UNCHANGED <<effects, admits>>
      <4>1. effects'[k] = effects[k] /\ (admits'[k] <=> admits[k])
        BY <2>2, <3>1 DEF Perform
      <4>2. receipt'[k] = receipt[k] \/ (receipt[k] = "none" \/ k \notin Submits)
        BY <2>2 DEF Perform, Recorded
      <4>3. receipt[k] # "none" /\ k \in Submits => receipt'[k] # "none"
        BY <2>2, <4>2 DEF Perform
      <4>. QED BY <4>1, <4>3
    <3>2. CASE k = c /\ ~UNCHANGED <<effects, admits>>
      <4>1. /\ Recorded(c) = "none" /\ Decision(c, refused) = "accepted"
            /\ effects' = [effects EXCEPT ![c] = @ + 1]
            /\ admits' = [admits EXCEPT ![c] = c \in Submits]
            /\ c \in Submits => receipt' = [receipt EXCEPT ![c] = Decision(c, refused)]
        BY <2>2, <3>2 DEF Perform
      <4>2. admits[c]
        BY <4>1 DEF Decision, QueueAction
      <4>3. effects[c] = 0
        BY <4>1, <4>2 DEF Recorded
      <4>4. effects'[c] = 1 /\ (c \in Submits => receipt'[c] = "accepted")
        BY <4>1, <4>3
      <4>5. c \notin Submits => ~admits'[c]
        BY <4>1
      <4>. QED BY <3>2, <4>4, <4>5
    <3>. QED BY <3>1, <3>2
  <2>. QED BY <2>3
<1>22. ASSUME HandleLate PROVE OnceInv'
  <2>1. Head(late) \in Commands
    BY <1>22, RangeOfTail DEF HandleLate, WireOK
  <2>2. PICK c \in Commands, refused \in BOOLEAN : Perform(c, refused)
    BY <1>22, <2>1, Zenon DEF HandleLate
  <2>3. ASSUME NEW k \in Commands
        PROVE  /\ effects'[k] \in {0, 1}
               /\ effects'[k] = 1 => IF k \in Submits THEN receipt'[k] # "none" ELSE ~admits'[k]
    <3>1. CASE k # c \/ UNCHANGED <<effects, admits>>
      <4>1. effects'[k] = effects[k] /\ (admits'[k] <=> admits[k])
        BY <2>2, <3>1 DEF Perform
      <4>2. receipt'[k] = receipt[k] \/ (receipt[k] = "none" \/ k \notin Submits)
        BY <2>2 DEF Perform, Recorded
      <4>3. receipt[k] # "none" /\ k \in Submits => receipt'[k] # "none"
        BY <2>2, <4>2 DEF Perform
      <4>. QED BY <4>1, <4>3
    <3>2. CASE k = c /\ ~UNCHANGED <<effects, admits>>
      <4>1. /\ Recorded(c) = "none" /\ Decision(c, refused) = "accepted"
            /\ effects' = [effects EXCEPT ![c] = @ + 1]
            /\ admits' = [admits EXCEPT ![c] = c \in Submits]
            /\ c \in Submits => receipt' = [receipt EXCEPT ![c] = Decision(c, refused)]
        BY <2>2, <3>2 DEF Perform
      <4>2. admits[c]
        BY <4>1 DEF Decision, QueueAction
      <4>3. effects[c] = 0
        BY <4>1, <4>2 DEF Recorded
      <4>4. effects'[c] = 1 /\ (c \in Submits => receipt'[c] = "accepted")
        BY <4>1, <4>3
      <4>5. c \notin Submits => ~admits'[c]
        BY <4>1
      <4>. QED BY <3>2, <4>4, <4>5
    <3>. QED BY <3>1, <3>2
  <2>. QED BY <2>3
<1>23. CASE UNCHANGED vars
  BY <1>23 DEF vars
<1>. QED
  BY <1>1, <1>2, <1>3, <1>4, <1>5, <1>6, <1>7, <1>8, <1>9, <1>10, <1>11, <1>12, <1>13, <1>14, <1>15,
     <1>16, <1>17, <1>18, <1>19, <1>20, <1>21, <1>22, <1>23 DEF Next, CommandNext, RecoveryNext

LEMMA EffectsGrow ==
  ASSUME Typed, OnceInv, OnceInv', [Next]_vars, NEW k \in Commands, effects[k] = 1
  PROVE  effects'[k] = 1
<1> USE CommandsAssumption DEF CommandsAssumption
<1> USE DEF Typed, HostOK, OnceInv, store, callers, wire, host, Commands
<1>1. ASSUME NEW c \in Commands, Issue(c) PROVE effects'[k] = 1
  BY <1>1 DEF Issue
<1>2. ASSUME NEW c \in Commands, Reserve(c) PROVE effects'[k] = 1
  BY <1>2 DEF Reserve
<1>3. ASSUME NEW c \in Commands, MarkSent(c) PROVE effects'[k] = 1
  BY <1>3 DEF MarkSent, Connecting
<1>4. ASSUME NEW c \in Commands, JournalFails(c) PROVE effects'[k] = 1
  BY <1>4 DEF JournalFails
<1>5. ASSUME NEW c \in Commands, Show(c) PROVE effects'[k] = 1
  BY <1>5 DEF Show
<1>6. ASSUME NEW c \in Commands, TargetMoves(c) PROVE effects'[k] = 1
  BY <1>6 DEF TargetMoves
<1>7. ASSUME NEW r \in Recoveries, StartRecovery(r) PROVE effects'[k] = 1
  BY <1>7 DEF StartRecovery
<1>8. ASSUME NEW r \in Recoveries, ReadDone(r) PROVE effects'[k] = 1
  BY <1>8 DEF ReadDone
<1>9. ASSUME NEW r \in Recoveries, RecordReplay(r) PROVE effects'[k] = 1
  BY <1>9 DEF RecordReplay
<1>10. ASSUME NEW r \in Recoveries, ReplayFails(r) PROVE effects'[k] = 1
  BY <1>10 DEF ReplayFails
<1>11. ASSUME NEW r \in Recoveries, FinishRecovery(r) PROVE effects'[k] = 1
  BY <1>11 DEF FinishRecovery
<1>12. ASSUME NEW r \in Recoveries, NEW c \in Commands, LookMisses(r, c) PROVE effects'[k] = 1
  BY <1>12 DEF LookMisses
<1>13. ASSUME NEW r \in Recoveries, NEW c \in Commands, LookFinds(r, c) PROVE effects'[k] = 1
  BY <1>13 DEF LookFinds, Connecting
<1>14. ASSUME NEW a \in Callers, Transmit(a) PROVE effects'[k] = 1
  BY <1>14 DEF Transmit
<1>15. ASSUME NEW a \in Callers, Timeout(a) PROVE effects'[k] = 1
  BY <1>15 DEF Timeout
<1>16. ASSUME Deliver PROVE effects'[k] = 1
  BY <1>16 DEF Deliver
<1>17. ASSUME Drop PROVE effects'[k] = 1
  BY <1>17 DEF Drop
<1>18. ASSUME Connect PROVE effects'[k] = 1
  BY <1>18 DEF Connect
<1>19. ASSUME Project PROVE effects'[k] = 1
  BY <1>19 DEF Project
<1>20. ASSUME Reload PROVE effects'[k] = 1
  BY <1>20 DEF Reload
<1>21. ASSUME Handle PROVE effects'[k] = 1
  <2>1. Head(requests) \in Commands
    BY <1>21, RangeOfTail DEF Handle, WireOK
  <2>2. PICK c \in Commands, refused \in BOOLEAN : Perform(c, refused)
    BY <1>21, <2>1, Zenon DEF Handle
  <2>3. effects' = effects \/ effects' = [effects EXCEPT ![c] = @ + 1]
    BY <2>2 DEF Perform
  <2>. QED BY <2>3
<1>22. ASSUME HandleLate PROVE effects'[k] = 1
  <2>1. Head(late) \in Commands
    BY <1>22, RangeOfTail DEF HandleLate, WireOK
  <2>2. PICK c \in Commands, refused \in BOOLEAN : Perform(c, refused)
    BY <1>22, <2>1, Zenon DEF HandleLate
  <2>3. effects' = effects \/ effects' = [effects EXCEPT ![c] = @ + 1]
    BY <2>2 DEF Perform
  <2>. QED BY <2>3
<1>23. CASE UNCHANGED vars
  BY <1>23 DEF vars
<1>. QED
  BY <1>1, <1>2, <1>3, <1>4, <1>5, <1>6, <1>7, <1>8, <1>9, <1>10, <1>11, <1>12, <1>13, <1>14, <1>15,
     <1>16, <1>17, <1>18, <1>19, <1>20, <1>21, <1>22, <1>23 DEF Next, CommandNext, RecoveryNext

LEMMA TruthStep == Typed /\ ResultInv /\ SeenInv /\ OnceInv /\ OnceInv' /\ TruthInv /\ [Next]_vars
   => TruthInv'
<1> USE CommandsAssumption DEF CommandsAssumption
<1> SUFFICES ASSUME Typed, ResultInv, SeenInv, OnceInv, OnceInv', TruthInv, [Next]_vars PROVE TruthInv'
  OBVIOUS
<1>e. \A k \in Commands : (effects[k] = 1 => effects'[k] = 1) /\ effects'[k] \in {0, 1}
  BY EffectsGrow DEF OnceInv
<1> USE <1>e DEF Typed, CallersOK, ShownOK, HostOK, TruthInv, store, callers, wire, host, Commands,
   Callers, Finish
<1>1. ASSUME NEW c \in Commands, Issue(c) PROVE TruthInv'
  BY <1>1 DEF Issue
<1>2. ASSUME NEW c \in Commands, Reserve(c) PROVE TruthInv'
  BY <1>2 DEF Reserve
<1>3. ASSUME NEW c \in Commands, MarkSent(c) PROVE TruthInv'
  BY <1>3 DEF MarkSent, Connecting
<1>4. ASSUME NEW c \in Commands, JournalFails(c) PROVE TruthInv'
  BY <1>4 DEF JournalFails
<1>5. ASSUME NEW c \in Commands, Show(c) PROVE TruthInv'
  BY <1>5 DEF Show, Shown, Decided
<1>6. ASSUME NEW c \in Commands, TargetMoves(c) PROVE TruthInv'
  BY <1>6 DEF TargetMoves
<1>7. ASSUME NEW r \in Recoveries, StartRecovery(r) PROVE TruthInv'
  BY <1>7 DEF StartRecovery
<1>8. ASSUME NEW r \in Recoveries, ReadDone(r) PROVE TruthInv'
  BY <1>8 DEF ReadDone
<1>9. ASSUME NEW r \in Recoveries, RecordReplay(r) PROVE TruthInv'
  <2>1. PICK d \in Commands : serving[r] = <<d>>
    BY <1>9 DEF RecordReplay
  <2>2. serving[r][1] = d /\ (result[r] = "accepted" => effects[d] = 1)
    <3>1. serving[r][1] = d
      BY <2>1
    <3>2. serving[r] = <<d>> /\ result[r] = "accepted" => effects[d] = 1
      BY Zenon
    <3>. QED BY <3>1, <3>2, <2>1
  <2>3. \A s \in Recoveries, k \in Commands :
          found'[s][k] = found[s][k] \/ (k = d /\ s = r /\ found'[s][k] = Replayed(r))
    BY <1>9, <2>2 DEF RecordReplay
  <2>4. \A s \in Recoveries, k \in Commands : found'[s][k] = "accepted" => effects'[k] = 1
    <3>1. Replayed(r) = "accepted" => result[r] = "accepted"
      BY DEF Replayed
    <3>2. \A s \in Recoveries, k \in Commands : found[s][k] = "accepted" => effects'[k] = 1
      OBVIOUS
    <3>. QED BY <2>2, <2>3, <3>1, <3>2
  <2>. QED BY <1>9, <2>4 DEF RecordReplay
<1>10. ASSUME NEW r \in Recoveries, ReplayFails(r) PROVE TruthInv'
  BY <1>10 DEF ReplayFails, End, Nothing
<1>11. ASSUME NEW r \in Recoveries, FinishRecovery(r) PROVE TruthInv'
  BY <1>11 DEF FinishRecovery, End, Nothing, Settled
<1>12. ASSUME NEW r \in Recoveries, NEW c \in Commands, LookMisses(r, c) PROVE TruthInv'
  BY <1>12 DEF LookMisses
<1>13. ASSUME NEW r \in Recoveries, NEW c \in Commands, LookFinds(r, c) PROVE TruthInv'
  BY <1>13 DEF LookFinds, Connecting, ResultInv
<1>14. ASSUME NEW a \in Callers, Transmit(a) PROVE TruthInv'
  BY <1>14 DEF Transmit
<1>15. ASSUME NEW a \in Callers, Timeout(a) PROVE TruthInv'
  BY <1>15 DEF Timeout
<1>16. ASSUME Deliver PROVE TruthInv'
  <2>1. Head(answers) \in Commands \X Decided /\ Head(answers) \in Range(answers)
        /\ Range(answers') \subseteq Range(answers)
    BY <1>16, RangeOfTail DEF Deliver, WireOK
  <2>2. PICK c \in Commands, outcome \in Decided : Head(answers) = <<c, outcome>>
    BY <2>1
  <2>3. outcome = "accepted" => effects[c] = 1
    <3>1. outcome = "accepted" => <<c, "accepted">> \in Range(answers)
      BY <2>1, <2>2, Zenon
    <3>. QED BY <3>1
  <2>4. Finish(Waiting(c), outcome)
    BY <1>16, <2>2 DEF Deliver
  <2>5. \A a \in Commands : a \in Waiting(c) => a = c
    BY DEF Waiting, Sends
  <2>6. \A r \in Recoveries : r \in Waiting(c) => serving[r] = <<c>>
    BY DEF Waiting, Sends
  <2>7. \A k \in Commands : result'[k] = "accepted" => effects'[k] = 1
    BY <2>3, <2>4, <2>5
  <2>8. \A r \in Recoveries, k \in Commands :
          serving'[r] = <<k>> /\ result'[r] = "accepted" => effects'[k] = 1
    <3> SUFFICES ASSUME NEW r \in Recoveries, NEW k \in Commands,
                        serving'[r] = <<k>>, result'[r] = "accepted"
                 PROVE  effects'[k] = 1
      OBVIOUS
    <3>1. CASE r \in Waiting(c)
      <4>1. outcome = "accepted" /\ serving'[r] = <<c>>
        BY <3>1, <2>4, <2>6, <1>16 DEF Deliver
      <4>2. k = c
        BY <4>1
      <4>. QED BY <4>1, <4>2, <2>3
    <3>2. CASE r \notin Waiting(c)
      BY <3>2, <2>4, <1>16 DEF Deliver
    <3>. QED BY <3>1, <3>2
  <2>9. \A k \in Commands : <<k, "accepted">> \in Range(answers') => effects'[k] = 1
    BY <2>1
  <2>. QED BY <1>16, <2>7, <2>8, <2>9 DEF Deliver
<1>17. ASSUME Drop PROVE TruthInv'
  BY <1>17 DEF Drop, Subscribed, Range
<1>18. ASSUME Connect PROVE TruthInv'
  BY <1>18 DEF Connect
<1>19. ASSUME Project PROVE TruthInv'
  BY <1>19 DEF Project
<1>20. ASSUME Reload PROVE TruthInv'
  BY <1>20 DEF Reload, End, Nothing, Range
<1>21. ASSUME Handle PROVE TruthInv'
  <2>1. Head(requests) \in Commands
    BY <1>21, RangeOfTail DEF Handle, WireOK
  <2>2. PICK refused \in BOOLEAN :
          /\ Perform(Head(requests), refused)
          /\ answers' = Append(answers, <<Head(requests), Decision(Head(requests), refused)>>)
    BY <1>21, <2>1, Zenon DEF Handle
  <2>3. Decision(Head(requests), refused) = "accepted" => effects'[Head(requests)] = 1
    <3> DEFINE c == Head(requests)
    <3>1. CASE ~refused /\ Recorded(c) = "none"
      <4>1. Decision(c, refused) = "accepted" => effects' = [effects EXCEPT ![c] = @ + 1]
        BY <2>2, <3>1 DEF Perform
      <4>. QED BY <4>1, <2>1
    <3>2. CASE ~refused /\ Recorded(c) # "none"
      BY <2>1, <3>2, <1>e DEF Decision, Recorded
    <3>3. CASE refused
      BY <3>3 DEF Decision, QueueAction
    <3>. QED BY <3>1, <3>2, <3>3
  <2>4. \A k \in Commands : receipt'[k] = receipt[k] \/ (k = Head(requests) /\ receipt'[k] =
     Decision(k, refused))
    BY <2>1, <2>2 DEF Perform
  <2>5. Decision(Head(requests), refused) \in Decided
    BY <2>1 DEF Decision, Recorded, QueueAction, Decided
  <2>6. Range(answers') = Range(answers) \union {<<Head(requests), Decision(Head(requests), refused)>>}
    <3>1. <<Head(requests), Decision(Head(requests), refused)>> \in Commands \X Decided
      BY <2>1, <2>5
    <3>2. answers \in Seq(Commands \X Decided)
      BY DEF WireOK
    <3>3. Range(Append(answers, <<Head(requests), Decision(Head(requests), refused)>>))
          = Range(answers) \union {<<Head(requests), Decision(Head(requests), refused)>>}
      BY <3>1, <3>2, RangeOfAppend
    <3>. QED BY <3>3, <2>2, Zenon
  <2>7. \A k \in Commands : <<k, "accepted">> \in Range(answers') => effects'[k] = 1
    BY <2>3, <2>6
  <2>8. \A k \in Commands : receipt'[k] = "accepted" => effects'[k] = 1
    BY <2>3, <2>4
  <2>. QED BY <1>21, <2>7, <2>8 DEF Handle
<1>22. ASSUME HandleLate PROVE TruthInv'
  <2>1. Head(late) \in Commands
    BY <1>22, RangeOfTail DEF HandleLate, WireOK
  <2>2. PICK refused \in BOOLEAN :
          /\ Perform(Head(late), refused)
    BY <1>22, <2>1, Zenon DEF HandleLate
  <2>3. Decision(Head(late), refused) = "accepted" => effects'[Head(late)] = 1
    <3> DEFINE c == Head(late)
    <3>1. CASE ~refused /\ Recorded(c) = "none"
      <4>1. Decision(c, refused) = "accepted" => effects' = [effects EXCEPT ![c] = @ + 1]
        BY <2>2, <3>1 DEF Perform
      <4>. QED BY <4>1, <2>1
    <3>2. CASE ~refused /\ Recorded(c) # "none"
      BY <2>1, <3>2, <1>e DEF Decision, Recorded
    <3>3. CASE refused
      BY <3>3 DEF Decision, QueueAction
    <3>. QED BY <3>1, <3>2, <3>3
  <2>4. \A k \in Commands : receipt'[k] = receipt[k] \/ (k = Head(late) /\ receipt'[k] = Decision(k,
     refused))
    BY <2>1, <2>2 DEF Perform
  <2>8. \A k \in Commands : receipt'[k] = "accepted" => effects'[k] = 1
    BY <2>3, <2>4
  <2>. QED BY <1>22, <2>8 DEF HandleLate
<1>23. CASE UNCHANGED vars
  BY <1>23 DEF vars
<1>. QED
  BY <1>1, <1>2, <1>3, <1>4, <1>5, <1>6, <1>7, <1>8, <1>9, <1>10, <1>11, <1>12, <1>13, <1>14, <1>15,
     <1>16, <1>17, <1>18, <1>19, <1>20, <1>21, <1>22, <1>23 DEF Next, CommandNext, RecoveryNext

-----------------------------------------------------------------------------
(* The first send of a command. *)

\* c is in s once at most.
Single(s, c) == \A i, j \in DOMAIN s : s[i] = c /\ s[j] = c => i = j

LEMMA SingleAppend ==
  ASSUME NEW S, NEW s \in Seq(S), NEW x \in S, NEW c, Single(s, c), x = c => c \notin Range(s)
  PROVE  Single(Append(s, x), c)
<1>1. Len(s) \in Nat /\ DOMAIN s = 1..Len(s) /\ DOMAIN Append(s, x) = 1..Len(s) + 1
  BY AppendProperties, LenProperties
<1>2. Append(s, x)[Len(s) + 1] = x /\ \A i \in 1..Len(s) : Append(s, x)[i] = s[i]
  BY AppendProperties
<1>3. SUFFICES ASSUME NEW i \in 1..Len(s) + 1, NEW j \in 1..Len(s) + 1,
                      Append(s, x)[i] = c, Append(s, x)[j] = c
               PROVE  i = j
  BY <1>1 DEF Single
<1>4. CASE i = Len(s) + 1 /\ j # Len(s) + 1
  <2>1. j \in DOMAIN s /\ s[j] = c /\ x = c
    BY <1>1, <1>2, <1>3, <1>4
  <2>. QED BY <2>1 DEF Range
<1>5. CASE i # Len(s) + 1 /\ j = Len(s) + 1
  <2>1. i \in DOMAIN s /\ s[i] = c /\ x = c
    BY <1>1, <1>2, <1>3, <1>5
  <2>. QED BY <2>1 DEF Range
<1>6. CASE i # Len(s) + 1 /\ j # Len(s) + 1
  BY <1>1, <1>2, <1>3, <1>6 DEF Single
<1>. QED BY <1>1, <1>4, <1>5, <1>6

LEMMA SingleTail ==
  ASSUME NEW S, NEW s \in Seq(S), s # <<>>, NEW c, Single(s, c)
  PROVE  Single(Tail(s), c) /\ (Head(s) = c => c \notin Range(Tail(s)))
<1>1. Len(s) \in Nat \ {0} /\ DOMAIN s = 1..Len(s)
  BY EmptySeq, LenProperties
<1>2. Head(s) = s[1] /\ Tail(s) \in Seq(S) /\ Len(Tail(s)) = Len(s) - 1
      /\ \A i \in 1..Len(s) - 1 : Tail(s)[i] = s[i + 1]
  BY HeadTailProperties
<1>3. DOMAIN Tail(s) = 1..Len(s) - 1
  BY <1>1, <1>2, LenProperties
<1>4. \A i \in 1..Len(s) - 1 : i + 1 \in DOMAIN s /\ i + 1 # 1
  BY <1>1
<1>5. Single(Tail(s), c)
  <2>1. SUFFICES ASSUME NEW i \in 1..Len(s) - 1, NEW j \in 1..Len(s) - 1,
                        s[i + 1] = c, s[j + 1] = c
                 PROVE  i = j
    BY <1>2, <1>3 DEF Single
  <2>2. i + 1 = j + 1
    BY <1>4, <2>1 DEF Single
  <2>. QED BY <2>2, <1>1
<1>6. Head(s) = c => c \notin Range(Tail(s))
  <2>1. SUFFICES ASSUME s[1] = c, NEW i \in 1..Len(s) - 1, s[i + 1] = c PROVE FALSE
    BY <1>2, <1>3 DEF Range
  <2>. QED BY <1>1, <1>4, <2>1 DEF Single
<1>. QED BY <1>5, <1>6

\* The answers to c that are on the socket.
Answered(c) == {outcome \in Decided : <<c, outcome>> \in Range(answers)}

\* While c is pending it was sent once at most, no recovery knows it, and what
\* rejected it changed nothing.
FirstSend(c) ==
  /\ c \notin outcomes /\ \A r \in Recoveries : c \notin todo[r] /\ serving[r] # <<c>>
  /\ step[c] \in {"reserve", "mark", "opening"} =>
       c \notin Range(requests) \union Range(late) /\ Answered(c) = {} /\ effects[c] = 0
  /\ c \in Range(requests) =>
       /\ Single(requests, c) /\ c \notin Range(late) /\ Answered(c) = {}
       /\ effects[c] = 0 /\ result[c] # "rejected"
  /\ "rejected" \in Answered(c) \/ result[c] = "rejected" =>
       c \notin Range(requests) \union Range(late) /\ effects[c] = 0

First(c) ==
  /\ phase[c] = "none" => Answered(c) = {}
  /\ phase[c] = "pending" => FirstSend(c)
FirstInv == \A c \in Commands : First(c)

LEMMA Requested ==
  ASSUME Typed, NEW c \in Commands
  PROVE  Range(Append(requests, c)) = Range(requests) \union {c}
BY RangeOfAppend DEF Typed, WireOK

LEMMA Responded ==
  ASSUME Typed, NEW c \in Commands, NEW outcome \in Decided
  PROVE  Range(Append(answers, <<c, outcome>>)) = Range(answers) \union {<<c, outcome>>}
<1>1. <<c, outcome>> \in Commands \X Decided /\ answers \in Seq(Commands \X Decided)
  BY DEF Typed, WireOK
<1>. QED BY <1>1, RangeOfAppend

LEMMA FirstStep == Typed /\ ResultInv /\ SeenInv /\ FirstInv /\ [Next]_vars => FirstInv'
<1> USE CommandsAssumption DEF CommandsAssumption
<1> SUFFICES ASSUME Typed, ResultInv, SeenInv, FirstInv, [Next]_vars, NEW k \in Commands
             PROVE  First(k)'
  BY DEF FirstInv
<1>f. First(k)
  BY DEF FirstInv
<1>s. Seen(k)
  BY DEF SeenInv
<1>t. step[k] = "record" <=> result[k] # "none"
  BY DEF ResultInv, Callers
<1> USE <1>f, <1>s, <1>t DEF Typed, CallersOK, ShownOK, HostOK, First, FirstSend, Seen, store,
   callers, wire, host, Commands, Callers, Finish
<1>1. ASSUME NEW c \in Commands, Issue(c) PROVE First(k)'
  <2>1. k = c => /\ step[k] = "idle" /\ ~Known(k) /\ Answered(k) = {} /\ result[k] = "none"
    BY <1>1 DEF Issue, Known
  <2>2. UNCHANGED <<requests, late, answers, effects, outcomes, todo, serving, result>>
    BY <1>1 DEF Issue
  <2>3. Answered(k)' = Answered(k) /\ (Single(requests, k)' <=> Single(requests, k))
    BY <2>2 DEF Answered
  <2>4. k # c => phase'[k] = phase[k] /\ step'[k] = step[k]
    BY <1>1 DEF Issue
  <2>. QED BY <2>1, <2>2, <2>3, <2>4
<1>2. ASSUME NEW c \in Commands, Reserve(c) PROVE First(k)'
  <2>1. UNCHANGED <<requests, late, answers, effects>>
    BY <1>2 DEF Reserve
  <2>2. Answered(k)' = Answered(k) /\ (Single(requests, k)' <=> Single(requests, k))
    BY <2>1 DEF Answered
  <2>. QED BY <1>2, <2>1, <2>2 DEF Reserve
<1>3. ASSUME NEW c \in Commands, MarkSent(c) PROVE First(k)'
  <2>1. Range(requests') \subseteq Range(requests) \union {c}
        /\ (k # c => (k \in Range(requests') <=> k \in Range(requests)))
        /\ (~up => requests' = requests)
    <3>1. Range(Append(requests, c)) = Range(requests) \union {c}
      BY Requested
    <3>. QED BY <3>1, <1>3 DEF MarkSent, Connecting
  <2>2. Single(requests, k) /\ (k = c => k \notin Range(requests)) => Single(requests', k)
    <3>1. Single(requests, k) /\ (k = c => k \notin Range(requests)) => Single(Append(requests, c), k)
      BY SingleAppend DEF WireOK
    <3>. QED BY <3>1, <1>3 DEF MarkSent, Connecting
  <2>3. k \notin Range(requests) => Single(requests, k)
    BY DEF Single, Range
  <2>4. UNCHANGED answers
    BY <1>3 DEF MarkSent
  <2>5. Answered(k)' = Answered(k)
    BY <2>4 DEF Answered
  <2>. QED BY <1>3, <2>1, <2>2, <2>3, <2>5 DEF MarkSent, Connecting
<1>4. ASSUME NEW c \in Commands, JournalFails(c) PROVE First(k)'
  <2>1. UNCHANGED <<requests, late, answers, effects>>
    BY <1>4 DEF JournalFails
  <2>2. Answered(k)' = Answered(k) /\ (Single(requests, k)' <=> Single(requests, k))
    BY <2>1 DEF Answered
  <2>. QED BY <1>4, <2>1, <2>2 DEF JournalFails
<1>5. ASSUME NEW c \in Commands, Show(c) PROVE First(k)'
  <2>1. UNCHANGED <<requests, late, answers, effects>>
    BY <1>5 DEF Show
  <2>2. Answered(k)' = Answered(k) /\ (Single(requests, k)' <=> Single(requests, k))
    BY <2>1 DEF Answered
  <2>. QED BY <1>5, <2>1, <2>2 DEF Show, Shown, Decided
<1>6. ASSUME NEW c \in Commands, TargetMoves(c) PROVE First(k)'
  <2>1. UNCHANGED <<requests, late, answers, effects>>
    BY <1>6 DEF TargetMoves
  <2>2. Answered(k)' = Answered(k) /\ (Single(requests, k)' <=> Single(requests, k))
    BY <2>1 DEF Answered
  <2>. QED BY <1>6, <2>1, <2>2 DEF TargetMoves
<1>7. ASSUME NEW r \in Recoveries, StartRecovery(r) PROVE First(k)'
  <2>1. UNCHANGED <<requests, late, answers, effects>>
    BY <1>7 DEF StartRecovery
  <2>2. Answered(k)' = Answered(k) /\ (Single(requests, k)' <=> Single(requests, k))
    BY <2>1 DEF Answered
  <2>. QED BY <1>7, <2>1, <2>2 DEF StartRecovery
<1>8. ASSUME NEW r \in Recoveries, ReadDone(r) PROVE First(k)'
  <2>1. UNCHANGED <<requests, late, answers, effects>>
    BY <1>8 DEF ReadDone
  <2>2. Answered(k)' = Answered(k) /\ (Single(requests, k)' <=> Single(requests, k))
    BY <2>1 DEF Answered
  <2>. QED BY <1>8, <2>1, <2>2 DEF ReadDone
<1>9. ASSUME NEW r \in Recoveries, RecordReplay(r) PROVE First(k)'
  <2>1. UNCHANGED <<requests, late, answers, effects>>
    BY <1>9 DEF RecordReplay
  <2>2. Answered(k)' = Answered(k) /\ (Single(requests, k)' <=> Single(requests, k))
    BY <2>1 DEF Answered
  <2>. QED BY <1>9, <2>1, <2>2 DEF RecordReplay
<1>10. ASSUME NEW r \in Recoveries, ReplayFails(r) PROVE First(k)'
  <2>1. UNCHANGED <<requests, late, answers, effects>>
    BY <1>10 DEF ReplayFails
  <2>2. Answered(k)' = Answered(k) /\ (Single(requests, k)' <=> Single(requests, k))
    BY <2>1 DEF Answered
  <2>. QED BY <1>10, <2>1, <2>2 DEF ReplayFails, End
<1>11. ASSUME NEW r \in Recoveries, FinishRecovery(r) PROVE First(k)'
  <2>1. UNCHANGED <<requests, late, answers, effects>>
    BY <1>11 DEF FinishRecovery
  <2>2. Answered(k)' = Answered(k) /\ (Single(requests, k)' <=> Single(requests, k))
    BY <2>1 DEF Answered
  <2>. QED BY <1>11, <2>1, <2>2 DEF FinishRecovery, End, Settled
<1>12. ASSUME NEW r \in Recoveries, NEW c \in Commands, LookMisses(r, c) PROVE First(k)'
  <2>1. UNCHANGED <<requests, late, answers, effects>>
    BY <1>12 DEF LookMisses
  <2>2. Answered(k)' = Answered(k) /\ (Single(requests, k)' <=> Single(requests, k))
    BY <2>1 DEF Answered
  <2>. QED BY <1>12, <2>1, <2>2 DEF LookMisses
<1>13. ASSUME NEW r \in Recoveries, NEW c \in Commands, LookFinds(r, c) PROVE First(k)'
  <2>1. Range(requests') \subseteq Range(requests) \union {c}
        /\ (k # c => (k \in Range(requests') <=> k \in Range(requests)))
        /\ (~up => requests' = requests)
    <3>1. Range(Append(requests, c)) = Range(requests) \union {c}
      BY Requested
    <3>. QED BY <3>1, <1>13 DEF LookFinds, Connecting
  <2>2. Single(requests, k) /\ (k = c => k \notin Range(requests)) => Single(requests', k)
    <3>1. Single(requests, k) /\ (k = c => k \notin Range(requests)) => Single(Append(requests, c), k)
      BY SingleAppend DEF WireOK
    <3>. QED BY <3>1, <1>13 DEF LookFinds, Connecting
  <2>3. k \notin Range(requests) => Single(requests, k)
    BY DEF Single, Range
  <2>4. UNCHANGED answers
    BY <1>13 DEF LookFinds
  <2>5. Answered(k)' = Answered(k)
    BY <2>4 DEF Answered
  <2>6. UNCHANGED <<phase, outcomes, todo, effects, late, result>>
    BY <1>13 DEF LookFinds, Connecting
  <2>7. step'[k] = step[k] /\ \A s \in Recoveries : serving'[s] = serving[s] \/ serving'[s] = <<c>>
    BY <1>13 DEF LookFinds, Connecting
  <2>8. phase[k] = "pending" => k # c
    BY <1>13 DEF LookFinds
  <2>9. phase[k] = "pending" => FirstSend(k)'
    BY <2>1, <2>2, <2>5, <2>6, <2>7, <2>8
  <2>. QED BY <2>5, <2>6, <2>9
<1>14. ASSUME NEW a \in Callers, Transmit(a) PROVE First(k)'
  <2>1. PICK c \in Commands : Sends(a) = <<c>> /\ (a = c \/ (a \in Recoveries /\ serving[a] = <<c>>))
    <3>1. CASE a \in Recoveries
      <4>1. serving[a] # <<>> /\ serving[a] \in {<<>>} \union {<<d>> : d \in Commands}
        BY <1>14, <3>1 DEF Transmit
      <4>2. PICK d \in Commands : serving[a] = <<d>>
        BY <4>1
      <4>. QED BY <3>1, <4>2 DEF Sends
    <3>2. CASE a \notin Recoveries
      BY <3>2 DEF Sends
    <3>. QED BY <3>1, <3>2
  <2>2. requests' = Append(requests, c)
    <3>1. requests' = requests \o <<c>>
      BY <1>14, <2>1, Zenon DEF Transmit
    <3>2. Append(requests, c) = requests \o <<c>>
      BY AppendIsConcat DEF WireOK
    <3>. QED BY <3>1, <3>2, Zenon
  <2>3. Range(requests') = Range(requests) \union {c}
    <3>1. Range(Append(requests, c)) = Range(requests) \union {c}
      BY Requested
    <3>. QED BY <3>1, <2>2
  <2>4. Single(requests, k) /\ (k = c => k \notin Range(requests)) => Single(requests', k)
    BY <2>2, SingleAppend DEF WireOK
  <2>5. k \notin Range(requests) => Single(requests, k)
    BY DEF Single, Range
  <2>6. Answered(k)' = Answered(k)
    BY <1>14 DEF Answered, Transmit
  <2>7. UNCHANGED <<phase, outcomes, todo, serving, effects, late, result>>
    BY <1>14 DEF Transmit
  <2>8. (k # a => step'[k] = step[k]) /\ (k = a => step[k] = "opening" /\ step'[k] = "waiting")
    BY <1>14 DEF Transmit
  <2>9. phase[k] = "pending" => (k = c => k = a)
    BY <2>1
  <2>10. phase[k] = "pending" => FirstSend(k)'
    <3>1. CASE k = c
      BY <2>1, <2>3, <2>4, <2>5, <2>6, <2>7, <2>8, <2>9, <3>1
    <3>2. CASE k # c
      BY <2>1, <2>3, <2>4, <2>6, <2>7, <2>8, <3>2
    <3>. QED BY <3>1, <3>2
  <2>. QED BY <2>6, <2>7, <2>10
<1>15. ASSUME NEW a \in Callers, Timeout(a) PROVE First(k)'
  <2>1. UNCHANGED <<requests, late, answers, effects>>
    BY <1>15 DEF Timeout
  <2>2. Answered(k)' = Answered(k) /\ (Single(requests, k)' <=> Single(requests, k))
    BY <2>1 DEF Answered
  <2>. QED BY <1>15, <2>1, <2>2 DEF Timeout, Subscribed
<1>16. ASSUME Deliver PROVE First(k)'
  <2>1. Head(answers) \in Commands \X Decided /\ Range(answers) = {Head(answers)} \union Range(answers')
    BY <1>16, RangeOfTail DEF Deliver, WireOK
  <2>2. PICK c \in Commands, outcome \in Decided : Head(answers) = <<c, outcome>>
    BY <2>1
  <2>3. Answered(k)' \subseteq Answered(k)
    BY <2>1 DEF Answered
  <2>4. outcome \in Answered(c)
    <3>1. <<c, outcome>> \in Range(answers)
      BY <2>1, <2>2, Zenon
    <3>. QED BY <3>1 DEF Answered
  <2>5. Finish(Waiting(c), outcome)
    BY <1>16, <2>2 DEF Deliver
  <2>6. k \in Waiting(c) => k = c /\ step[k] \in {"opening", "waiting"}
    BY DEF Waiting, Sends, Subscribed
  <2>7. \/ result'[k] = result[k] /\ step'[k] = step[k]
        \/ k = c /\ result'[k] = outcome /\ step'[k] = "record"
    BY <2>5, <2>6
  <2>. QED BY <1>16, <2>3, <2>4, <2>7 DEF Deliver
<1>17. ASSUME Drop PROVE First(k)'
  <2>s. Range(requests') = {} /\ Range(late') \subseteq Range(requests) \union Range(late) /\
     Answered(k)' = {}
    <3>1. PICK n \in 0..Len(requests) : late' = late \o SubSeq(requests, 1, n)
      BY <1>17, Zenon DEF Drop
    <3>2. requests' = <<>> /\ answers' = <<>> /\ Range(<<>>) = {}
      BY <1>17 DEF Drop, Range
    <3>. QED BY <3>1, <3>2, RangeOfReceived DEF WireOK, Answered
  <2>. QED BY <1>17, <2>s DEF Drop, Subscribed
<1>18. ASSUME Connect PROVE First(k)'
  <2>1. UNCHANGED <<requests, late, answers, effects>>
    BY <1>18 DEF Connect
  <2>2. Answered(k)' = Answered(k) /\ (Single(requests, k)' <=> Single(requests, k))
    BY <2>1 DEF Answered
  <2>. QED BY <1>18, <2>1, <2>2 DEF Connect
<1>19. ASSUME Project PROVE First(k)'
  <2>1. UNCHANGED <<requests, late, answers, effects>>
    BY <1>19 DEF Project
  <2>2. Answered(k)' = Answered(k) /\ (Single(requests, k)' <=> Single(requests, k))
    BY <2>1 DEF Answered
  <2>. QED BY <1>19, <2>1, <2>2 DEF Project
<1>20. ASSUME Reload PROVE First(k)'
  <2>s. Range(requests') = {} /\ Range(late') \subseteq Range(requests) \union Range(late) /\
     Answered(k)' = {}
    <3>1. PICK n \in 0..Len(requests) : late' = late \o SubSeq(requests, 1, n)
      BY <1>20, Zenon DEF Reload
    <3>2. requests' = <<>> /\ answers' = <<>> /\ Range(<<>>) = {}
      BY <1>20 DEF Reload, Range
    <3>. QED BY <3>1, <3>2, RangeOfReceived DEF WireOK, Answered
  <2>. QED BY <1>20, <2>s DEF Reload
<1>21. ASSUME Handle PROVE First(k)'
  <2>1. Head(requests) \in Commands /\ Range(requests) = {Head(requests)} \union Range(requests')
    BY <1>21, RangeOfTail DEF Handle, WireOK
  <2>2. PICK c \in Commands, refused \in BOOLEAN :
          /\ c = Head(requests) /\ Perform(c, refused)
          /\ answers' = Append(answers, <<c, Decision(c, refused)>>)
    BY <1>21, <2>1, Zenon DEF Handle
  <2>3. k # c => effects'[k] = effects[k]
    BY <2>2 DEF Perform
  <2>4. Decision(c, refused) \in Decided
    BY DEF Decision, Recorded, QueueAction, Decided
  <2>5. Answered(k)' = IF k = c THEN Answered(k) \union {Decision(c, refused)} ELSE Answered(k)
    <3>1. <<c, Decision(c, refused)>> \in Commands \X Decided /\ answers \in Seq(Commands \X Decided)
      BY <2>4 DEF WireOK
    <3>2. Range(Append(answers, <<c, Decision(c, refused)>>)) = Range(answers) \union {<<c,
       Decision(c, refused)>>}
      BY <2>4, Responded
    <3>3. Range(answers') = Range(answers) \union {<<c, Decision(c, refused)>>}
      BY <3>2, <2>2, Zenon
    <3>. QED BY <3>3, <2>4 DEF Answered
  <2>6. Decision(c, refused) = "rejected" => effects'[c] = effects[c]
    BY <2>2 DEF Perform
  <2>7. Single(requests, k) => Single(requests', k) /\ (k = c => k \notin Range(requests'))
    BY <1>21, <2>2, SingleTail DEF Handle, WireOK
  <2>8. c \in Range(requests) /\ (Known(c) => phase[c] # "none")
    BY <2>1, <2>2 DEF Known
  <2>9. UNCHANGED <<phase, outcomes, todo, serving, step, result, late>>
    BY <1>21 DEF Handle
  <2>10. CASE k = c
    BY <2>1, <2>2, <2>5, <2>6, <2>7, <2>8, <2>9, <2>10, <2>4 DEF Decided
  <2>11. CASE k # c
    BY <2>1, <2>2, <2>3, <2>5, <2>7, <2>9, <2>11
  <2>. QED BY <2>10, <2>11
<1>22. ASSUME HandleLate PROVE First(k)'
  <2>1. Head(late) \in Commands /\ Range(late) = {Head(late)} \union Range(late')
    BY <1>22, RangeOfTail DEF HandleLate, WireOK
  <2>2. PICK c \in Commands, refused \in BOOLEAN :
          /\ c = Head(late) /\ Perform(c, refused)
    BY <1>22, <2>1, Zenon DEF HandleLate
  <2>3. k # c => effects'[k] = effects[k]
    BY <2>2 DEF Perform
  <2>4. Answered(k)' = Answered(k) /\ c \in Range(late)
    BY <1>22, <2>1, <2>2 DEF HandleLate, Answered
  <2>. QED BY <1>22, <2>1, <2>2, <2>3, <2>4 DEF HandleLate, Known
<1>23. CASE UNCHANGED vars
  BY <1>23 DEF vars, Answered, Single
<1>. QED
  BY <1>1, <1>2, <1>3, <1>4, <1>5, <1>6, <1>7, <1>8, <1>9, <1>10, <1>11, <1>12, <1>13, <1>14, <1>15,
     <1>16, <1>17, <1>18, <1>19, <1>20, <1>21, <1>22, <1>23 DEF Next, CommandNext, RecoveryNext

-----------------------------------------------------------------------------
(* The theorems. *)

CommandInv == Typed /\ ResultInv /\ SeenInv /\ OnceInv /\ TruthInv /\ FirstInv

LEMMA CommandInvInit == Init => CommandInv
<1> SUFFICES ASSUME Init PROVE CommandInv
  OBVIOUS
<1> USE CommandsAssumption DEF CommandsAssumption, Init, Commands, Callers
<1>1. Typed
  BY TypedInit
<1>2. ResultInv
  BY DEF ResultInv
<1>3. SeenInv
  BY DEF SeenInv, Seen, Range, Nothing
<1>4. OnceInv
  BY DEF OnceInv
<1>5. TruthInv
  BY DEF TruthInv, Range, Nothing
<1>6. FirstInv
  BY DEF FirstInv, First, Answered, Range
<1>. QED BY <1>1, <1>2, <1>3, <1>4, <1>5, <1>6 DEF CommandInv

LEMMA CommandInvCorrect == Spec => []CommandInv
<1>1. CommandInv /\ [Next]_vars => CommandInv'
  BY ShownStep, CallersStep, WireStep, HostStep, ResultStep, SeenStep, OnceStep, TruthStep, FirstStep
  DEF CommandInv, Typed
<1>. QED BY <1>1, CommandInvInit, PTL DEF Spec

\* Every variable of Commands keeps its type, however the socket, the page and
\* the journal fail.
THEOREM CommandsTypeCorrect == Spec => []TypeOK
<1>1. CommandInv => TypeOK
  BY DEF CommandInv, Typed, ShownOK, CallersOK, WireOK, HostOK, TypeOK
<1>. QED BY <1>1, CommandInvCorrect, PTL

\* However often a command is sent again, and whichever socket it reaches the
\* Host on, it takes effect once (loadCommandReceipt).
THEOREM AtMostOnceCorrect == Spec => []AtMostOnce
<1>1. CommandInv => AtMostOnce
  BY DEF CommandInv, OnceInv, AtMostOnce
<1>. QED BY <1>1, CommandInvCorrect, PTL

\* Every command shown as accepted was done, through any number of overlapping
\* recoveries (commandState, recoverAuthority).
THEOREM AcceptedIsTrueCorrect == Spec => []AcceptedIsTrue
<1>1. CommandInv => AcceptedIsTrue
  BY DEF CommandInv, TruthInv, AcceptedIsTrue
<1>. QED BY <1>1, CommandInvCorrect, PTL

\* A command that its first send shows as rejected made no change, whatever
\* its socket did (submitComposer, connect).
THEOREM FirstRejectionIsTrueCorrect == Spec => FirstRejectionIsTrue
<1>1. ASSUME CommandInv, [Next]_vars, NEW c \in Commands, phase[c] = "pending", phase'[c] = "rejected"
      PROVE  effects[c] = 0
  <2> USE CommandsAssumption DEF CommandsAssumption, CommandInv, Typed, ShownOK, Commands
  <2>1. FirstSend(c)
    BY <1>1 DEF FirstInv, First
  <2>2. ASSUME NEW d \in Commands, Show(d) PROVE effects[c] = 0
    BY <1>1, <2>1, <2>2 DEF Show, Shown, FirstSend
  <2>3. ASSUME NEW r \in Recoveries, FinishRecovery(r) PROVE effects[c] = 0
    BY <1>1, <2>1, <2>3 DEF FinishRecovery, FirstSend
  <2>4. CASE UNCHANGED phase
    BY <1>1, <2>4
  <2>5. CASE \E d \in Commands : Issue(d)
    BY <1>1, <2>5 DEF Issue
  <2>6. CASE Project \/ Reload
    BY <1>1, <2>6 DEF Project, Reload
  <2>. QED
    BY <1>1, <2>2, <2>3, <2>4, <2>5, <2>6 DEF Next, vars, store, CommandNext, RecoveryNext, Reserve,
       MarkSent,
       JournalFails, TargetMoves, StartRecovery, ReadDone, LookMisses, LookFinds, RecordReplay,
       ReplayFails, Transmit, Timeout, Deliver, Drop, Connect, Handle, HandleLate
<1>2. CommandInv /\ [Next]_vars =>
        \A c \in Commands : phase[c] = "pending" /\ phase'[c] = "rejected" => effects[c] = 0
  BY <1>1
<1>. QED BY <1>2, CommandInvCorrect, PTL DEF Spec, FirstRejectionIsTrue

LEMMA Ranked ==
  ASSUME NEW state \in {"sent", "uncertain", "terminal", "reconciled"}
  PROVE  Rank(state) >= Rank("sent")
<1>1. DOMAIN Ranks = 1..6
  BY DEF Ranks
<1>2. Rank("sent") = 3 /\ Rank("uncertain") = 4 /\ Rank("terminal") = 5 /\ Rank("reconciled") = 6
  BY <1>1 DEF Rank, Ranks
<1>. QED BY <1>2

\* The Host never sees a command that the journal does not hold as sent
\* (journalHostAdapter).
THEOREM JournalledFirstCorrect == Spec => []JournalledFirst
<1>1. CommandInv => JournalledFirst
  BY Ranked DEF CommandInv, SeenInv, Seen, Known, Typed, HostOK, JournalledFirst
<1>. QED BY <1>1, CommandInvCorrect, PTL

=============================================================================
