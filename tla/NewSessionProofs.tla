-------------------------- MODULE NewSessionProofs --------------------------
(***************************************************************************)
(* Theorems about NewSession, for any directories, any creations of this   *)
(* page and of other Clients, and any bounds (CreationsAssumption).        *)
(***************************************************************************)
EXTENDS NewSession, TLAPS

-----------------------------------------------------------------------------
(* Types.                                                                  *)

Project == Directories \cup {None}
Location == {"local", "new"} \cup Trees
Workspace == [own : BOOLEAN, path : Trees \cup {None}]
Row == [own : BOOLEAN, path : Trees, project : Project]
Discovery ==
  [phase : {"idle", "loading", "ready", "unavailable", "failed"}, of : Project,
   trees : SUBSET Trees]

\* The form while it can be edited, and what is left of it after.
Open == [project : Project, workspace : Workspace, location : Location, discovery : Discovery,
         progress : {"editing"}]
Shut == [project : Project, progress : {None, "creating", "failed", "submitting", "finished"}]
Flow == [at : {"none", "opening", "waiting", "submitting", "over"}, initial : Open \cup Shut,
         empty : BOOLEAN, saw : Creations \cup {None}]
Command == [project : Project, workspace : Workspace, worktree : Location]
Pending == [dir : Directories, saw : Project]
Request == [dir : Directories, mine : BOOLEAN, valid : BOOLEAN]
Message ==
  [kind : {"project"}, of : Directories, accepted : BOOLEAN, mine : BOOLEAN] \cup
  [kind : {"session"}, of : Creations, accepted : BOOLEAN, mine : BOOLEAN]
Places == {"none", "sent", "listing", "adding", "added", "selecting", "cleaning",
           "leaked", "lost"} \cup Decided

TablesOK ==
  /\ projects \subseteq Directories /\ workspaces \subseteq Row
  /\ session \in [Creations -> [project : Project \cup {"absent"}, workspace : Workspace]]
HandlersOK ==
  /\ disk \subseteq Trees /\ at \in [Creations -> Places] /\ ask \in [Creations -> Command]
  /\ sees \in [Creations -> SUBSET Trees] /\ asked \subseteq Request
WireOK == up \in BOOLEAN /\ linked \subseteq Own /\ inbox \in Seq(Message)
PageOK ==
  /\ form \in Open \cup Shut /\ drafts \in Nat
  /\ lookups \subseteq [n : Nat, of : Directories]
  /\ adding \in Seq(Pending)
  /\ flow \in [Own -> Flow]
BoundsOK == opens \in 0 .. MaxForms /\ mishaps \in 0 .. MaxMishaps
TypeOK == TablesOK /\ HandlersOK /\ WireOK /\ PageOK /\ BoundsOK

-----------------------------------------------------------------------------
(* The invariant.                                                          *)

\* The worktree of a creation may have been seen by somebody.
Past == {"added", "cleaning", "leaked", "lost"} \cup Decided

\* Where a handler is says what its command asks for.
CommandInv ==
  \A c \in Creations :
    /\ at[c] \in {"listing", "adding", "added", "selecting"} => ask[c].worktree # "local"
    /\ at[c] \in {"adding", "added"} => ask[c].worktree = "new"
    /\ at[c] = "selecting" => ask[c].worktree # "new"

\* Nobody knows a managed worktree that was not yet made.
SeenInv ==
  /\ \A c \in Creations : c \in disk => at[c] \in Past
  /\ \A c, d \in Creations : c \in sees[d] => at[c] \in Past
  /\ \A w \in workspaces : w.path \in Creations => at[w.path] \in Past

\* A worktree goes with its Session.
Managed(c) == [own |-> FALSE, path |-> c]
TreeInv ==
  \A c \in Creations :
    /\ at[c] = "added" => c \in disk
    /\ at[c] = "rejected" => c \notin disk
    /\ at[c] = "accepted" => (c \in disk <=> session[c].workspace = Managed(c))
    /\ at[c] # "accepted" => session[c] = Absent

\* Each creation is sent once, and submits what was on an open form.
FlowInv ==
  \A c \in Own : /\ flow[c].at \in {"none", "opening"} => at[c] = "none"
                 /\ flow[c].at = "opening" => flow[c].initial \in Open

\* No two Projects have a worktree in common, and a checkout is its Project's directory.
RowsInv ==
  /\ \A v, w \in workspaces : Id(v) = Id(w) => v = w
  /\ \A w \in workspaces : w.own => w.path = w.project
ScopeInv ==
  \A c \in Creations : session[c].workspace # NoWorkspace =>
    \E w \in workspaces : Id(w) = session[c].workspace /\ w.project = session[c].project

\* What the form was offered is for the Project it shows.
FormInv ==
  Editing =>
    /\ form.discovery.phase = "ready" =>
         /\ form.discovery.of = form.project
         /\ form.project # None /\ form.project \notin form.discovery.trees
    /\ form.location \in Trees => form.project # None /\ form.location # form.project

NewSessionInv ==
  /\ TypeOK /\ CommandInv /\ SeenInv /\ TreeInv /\ FlowInv /\ RowsInv /\ ScopeInv /\ FormInv

-----------------------------------------------------------------------------
(* The parts of the records.                                               *)

LEMMA Names ==
  /\ None \notin Trees /\ "local" \notin Trees /\ "new" \notin Trees
  /\ Creations \subseteq Trees /\ Directories \subseteq Trees
  /\ \A d \in Directories : d \notin Creations /\ d # None
BY CreationsAssumption DEF CreationsAssumption, Trees, None

LEMMA WorkspacesAre ==
  /\ NoWorkspace \in Workspace /\ NoWorkspace.path = None
  /\ \A c \in Creations : Managed(c) \in Workspace /\ Managed(c) # NoWorkspace
  /\ \A c, d \in Creations : Managed(c) = Managed(d) => c = d
  /\ Absent \in [project : Project \cup {"absent"}, workspace : Workspace]
  /\ Absent.workspace = NoWorkspace
  /\ Unasked \in Command /\ Unasked.worktree = "local"
<1>1. /\ NoWorkspace \in Workspace /\ NoWorkspace.path = None
  BY DEF NoWorkspace, Workspace
<1>2. \A c \in Creations : Managed(c) \in Workspace /\ Managed(c).path = c
  BY Names DEF Managed, Workspace
<1>3. \A c \in Creations : Managed(c) # NoWorkspace
  <2> TAKE c \in Creations
  <2>. QED BY <1>1, <1>2, Names
<1>4. Absent \in [project : Project \cup {"absent"}, workspace : Workspace]
  BY <1>1 DEF Absent
<1>5. Unasked \in Command /\ Unasked.worktree = "local"
  BY <1>1 DEF Unasked, Command, Project, Location
<1>. QED BY <1>1, <1>2, <1>3, <1>4, <1>5 DEF Absent

LEMMA IdIs ==
  ASSUME NEW w \in Row
  PROVE  Id(w) \in Workspace /\ Id(w).path = w.path /\ Id(w).own = w.own
BY DEF Row, Id, Workspace

LEMMA WorktreeIs ==
  ASSUME NEW t \in Trees, NEW p \in Project
  PROVE  /\ Worktree(t, p) \in Row /\ Worktree(t, p).path = t
         /\ Worktree(t, p).project = p /\ Id(Worktree(t, p)) = [own |-> FALSE, path |-> t]
BY DEF Worktree, Row, Id

LEMMA CheckoutIs ==
  ASSUME NEW d \in Directories
  PROVE  Checkout(d) \in Row /\ Checkout(d).path = d /\ Checkout(d).project = d
BY Names DEF Checkout, Row, Project

LEMMA SaysIs ==
  ASSUME WireOK, NEW kind, NEW of, NEW accepted \in BOOLEAN, NEW mine \in BOOLEAN,
         Says(kind, of, accepted, mine),
         (kind = "project" /\ of \in Directories) \/ (kind = "session" /\ of \in Creations)
  PROVE  inbox' \in Seq(Message)
<1>1. [kind |-> kind, of |-> of, accepted |-> accepted, mine |-> mine] \in Message
  BY DEF Message
<1>. QED BY <1>1 DEF Says, WireOK

-----------------------------------------------------------------------------
(* A handler of the Host takes a turn.                                     *)

\* Handler c goes to v; the others stay where they are.
Turn(c, v) ==
  /\ at' \in [Creations -> Places] /\ at'[c] = v
  /\ ask' \in [Creations -> Command] /\ sees' \in [Creations -> SUBSET Trees]
  /\ \A d \in Creations \ {c} : at'[d] = at[d] /\ ask'[d] = ask[d] /\ sees'[d] = sees[d]
  /\ sees'[c] \subseteq sees[c] \cup disk
  /\ inbox' \in Seq(Message)
  /\ v \in {"listing", "adding", "added", "selecting"} => ask'[c].worktree # "local"
  /\ v \in {"adding", "added"} => ask'[c].worktree = "new"
  /\ v = "selecting" => ask'[c].worktree # "new"

LEMMA EndsIs ==
  ASSUME TypeOK, NEW c \in Creations, NEW v \in {"accepted", "rejected", "leaked"}, Ends(c, v)
  PROVE  Turn(c, v)
<1>1. /\ at' = [at EXCEPT ![c] = v] /\ ask' = [ask EXCEPT ![c] = Unasked]
      /\ sees' = [sees EXCEPT ![c] = {}] /\ Says("session", c, v = "accepted", c \in linked)
  BY DEF Ends
<1>2. inbox' \in Seq(Message)
  <2>1. (v = "accepted") \in BOOLEAN /\ (c \in linked) \in BOOLEAN
    OBVIOUS
  <2>. QED BY <1>1, <2>1, SaysIs DEF TypeOK
<1>3. v \in Places /\ Unasked \in Command
  BY WorkspacesAre DEF Places, Decided
<1>. QED BY <1>1, <1>2, <1>3 DEF Turn, TypeOK, HandlersOK

LEMMA GoesOnIs ==
  ASSUME TypeOK, NEW c \in Creations, NEW v \in Places, GoesOn(c, v),
         v \in {"listing", "adding", "added", "selecting"} => ask[c].worktree # "local",
         v \in {"adding", "added"} => ask[c].worktree = "new",
         v = "selecting" => ask[c].worktree # "new"
  PROVE  Turn(c, v)
BY DEF GoesOn, Turn, TypeOK, HandlersOK, WireOK

\* What a handler's turn does beside it: nothing to the tables.
LEMMA TurnKeeps ==
  ASSUME NewSessionInv, NEW c \in Creations, NEW v \in Places, Turn(c, v),
         UNCHANGED <<tables, asked, up, linked, page, opens>>, mishaps' \in 0 .. MaxMishaps,
         at[c] \notin {"none", "accepted"}, v # "accepted",
         at[c] \in Past => v \in Past,
         \/ disk' = disk
         \/ disk' = disk \cup {c} /\ v \in Past
         \/ disk' = disk \ {c},
         v = "added" => c \in disk', v = "rejected" => c \notin disk'
  PROVE  NewSessionInv'
<1>1. /\ disk' \subseteq disk \cup {c} /\ disk' \subseteq Trees
      /\ \A d \in Creations : d \in disk' => d \in disk \/ (d = c /\ v \in Past)
      /\ \A d \in Creations \ {c} : d \in disk' <=> d \in disk
  BY Names DEF NewSessionInv, TypeOK, HandlersOK
<1>2. TypeOK'
  BY <1>1 DEF NewSessionInv, TypeOK, TablesOK, HandlersOK, WireOK, PageOK, BoundsOK, Turn,
         tables, page
<1>3. CommandInv'
  BY DEF NewSessionInv, CommandInv, Turn
<1>4. SeenInv'
  <2>1. \A d \in Creations : at[d] \in Past => at'[d] \in Past
    BY DEF Turn
  <2>2. \A d \in Creations : d \in disk' => at'[d] \in Past
    BY <1>1, <2>1 DEF NewSessionInv, SeenInv, Turn
  <2>3. \A d, e \in Creations : d \in sees'[e] => d \in sees[e] \/ d \in disk
    BY DEF Turn
  <2>4. \A d, e \in Creations : d \in sees'[e] => at'[d] \in Past
    BY <2>1, <2>3 DEF NewSessionInv, SeenInv
  <2>. QED BY <2>1, <2>2, <2>4 DEF NewSessionInv, SeenInv, tables
<1>5. TreeInv'
  <2> SUFFICES ASSUME NEW d \in Creations
               PROVE  /\ at'[d] = "added" => d \in disk'
                      /\ at'[d] = "rejected" => d \notin disk'
                      /\ at'[d] = "accepted" => (d \in disk' <=> session'[d].workspace = Managed(d))
                      /\ at'[d] # "accepted" => session'[d] = Absent
    BY DEF TreeInv, Absent, NoWorkspace, Managed
  <2>1. CASE d = c
    BY <2>1 DEF NewSessionInv, TreeInv, Turn, tables
  <2>2. CASE d # c
    BY <1>1, <2>2 DEF NewSessionInv, TreeInv, Turn, tables
  <2>. QED BY <2>1, <2>2
<1>6. FlowInv'
  BY DEF NewSessionInv, FlowInv, Turn, Creations, page
<1>7. RowsInv' /\ ScopeInv'
  BY DEF NewSessionInv, RowsInv, ScopeInv, tables, Id, NoWorkspace
<1>8. FormInv'
  BY DEF NewSessionInv, FormInv, page, Editing
<1>. QED BY <1>2, <1>3, <1>4, <1>5, <1>6, <1>7, <1>8 DEF NewSessionInv

\* The transaction of createSession: its Session works in the handler's own
\* worktree, in one that was listed, or in one that has a row.
LEMMA CommitKeeps ==
  ASSUME NewSessionInv, NEW c \in Creations, Commits(c),
         \/ at[c] = "sent" /\ ask[c].worktree = "local"
         \/ at[c] = "added"
         \/ at[c] = "selecting" /\ ask[c].worktree \in sees[c],
         UNCHANGED <<asked, up, linked, page, bounds>>
  PROVE  NewSessionInv'
<1> DEFINE t == Target(c)
           p == ask[c].project
<1>1. /\ ~Conflict(c) /\ InScope(c) /\ workspaces' = Rows(c)
      /\ session' = [session EXCEPT ![c] = [project |-> p, workspace |-> Chosen(c)]]
      /\ Ends(c, "accepted") /\ UNCHANGED <<projects, disk>>
  BY DEF Commits
<1>2. TypeOK /\ Turn(c, "accepted")
  BY <1>1, EndsIs DEF NewSessionInv
<1>3. /\ ask[c] \in Command /\ p \in Project /\ ask[c].workspace \in Workspace
      /\ ask[c].worktree \in Location
  BY <1>2 DEF TypeOK, HandlersOK, Command
<1>4. ask[c].worktree # "local" => t \in Trees
  BY <1>3, Names DEF Target, Location
<1>5. at[c] = "added" => ask[c].worktree = "new" /\ t = c /\ c \in disk
  BY DEF NewSessionInv, CommandInv, TreeInv, Target
<1>6. at[c] = "selecting" => /\ ask[c].worktree \notin {"local", "new"}
                             /\ t = ask[c].worktree /\ t \in sees[c]
  BY DEF NewSessionInv, CommandInv, Target
<1>7. Rows(c) = IF ask[c].worktree = "local" THEN workspaces ELSE workspaces \cup {Worktree(t, p)}
  BY DEF Rows
<1>8. Chosen(c) = IF ask[c].worktree = "local" THEN ask[c].workspace ELSE Id(Worktree(t, p))
  BY DEF Chosen
<1> HIDE DEF t, p
<1>9. ask[c].worktree # "local" =>
        /\ Worktree(t, p) \in Row /\ Worktree(t, p).path = t /\ Worktree(t, p).project = p
        /\ Id(Worktree(t, p)) = [own |-> FALSE, path |-> t] /\ Id(Worktree(t, p)) \in Workspace
  BY <1>3, <1>4, WorktreeIs, IdIs
<1>10. Rows(c) \subseteq Row /\ Chosen(c) \in Workspace /\ workspaces \subseteq Rows(c)
  BY <1>2, <1>3, <1>7, <1>8, <1>9 DEF TypeOK, TablesOK
<1>11. /\ session' \in [Creations -> [project : Project \cup {"absent"}, workspace : Workspace]]
       /\ session'[c].project = p /\ session'[c].workspace = Chosen(c)
       /\ \A d \in Creations \ {c} : session'[d] = session[d]
  BY <1>1, <1>2, <1>3, <1>10 DEF TypeOK, TablesOK, p
<1>12. TypeOK'
  BY <1>1, <1>2, <1>10, <1>11
  DEF TypeOK, TablesOK, HandlersOK, WireOK, PageOK, BoundsOK, Turn, page, bounds
<1>13. CommandInv'
  BY <1>2 DEF NewSessionInv, CommandInv, Turn, Decided
<1>14. \A d \in Creations : at[d] \in Past => at'[d] \in Past
  BY <1>2 DEF Turn, Past, Decided
<1>15. SeenInv'
  <2>1. \A d, e \in Creations : d \in sees'[e] => d \in sees[e] \/ d \in disk
    BY <1>2 DEF Turn
  <2>2. ask[c].worktree # "local" /\ t \in Creations => at'[t] \in Past
    <3>1. t \in Creations /\ at[c] = "selecting" => at'[t] \in Past
      BY <1>6, <1>14 DEF NewSessionInv, SeenInv
    <3>2. at[c] = "added" => at'[t] \in Past
      BY <1>5, <1>14 DEF Past
    <3>. QED BY <3>1, <3>2
  <2>3. \A w \in Rows(c) : w.path \in Creations => at'[w.path] \in Past
    BY <1>7, <1>9, <1>14, <2>2 DEF NewSessionInv, SeenInv
  <2>. QED BY <1>1, <1>14, <2>1, <2>3 DEF NewSessionInv, SeenInv
<1>16. c \in disk <=> Chosen(c) = Managed(c)
  <2>1. CASE at[c] = "added"
    BY <1>5, <1>8, <1>9, <2>1 DEF Managed
  <2>2. CASE at[c] = "selecting"
    <3>1. c \notin disk /\ c \notin sees[c]
      BY <2>2 DEF NewSessionInv, SeenInv, Past, Decided
    <3>2. Chosen(c) = [own |-> FALSE, path |-> t] /\ t # c
      BY <1>6, <1>8, <1>9, <2>2, <3>1
    <3>. QED BY <3>1, <3>2 DEF Managed
  <2>3. CASE at[c] = "sent" /\ ask[c].worktree = "local"
    <3>1. c \notin disk /\ at[c] \notin Past
      BY <2>3 DEF NewSessionInv, SeenInv, Past, Decided
    <3>2. ASSUME Chosen(c) = Managed(c) PROVE FALSE
      <4>1. PICK w \in Rows(c) : Id(w) = Managed(c)
        BY <1>1, <3>2, WorkspacesAre DEF InScope
      <4>2. w.path = c /\ w \in workspaces
        BY <1>7, <1>10, <2>3, <4>1, IdIs DEF Managed
      <4>. QED BY <3>1, <4>2 DEF NewSessionInv, SeenInv
    <3>. QED BY <3>1, <3>2
  <2>. QED BY <2>1, <2>2, <2>3
<1>17. TreeInv'
  <2> SUFFICES ASSUME NEW d \in Creations
               PROVE  /\ at'[d] = "added" => d \in disk'
                      /\ at'[d] = "rejected" => d \notin disk'
                      /\ at'[d] = "accepted" => (d \in disk' <=> session'[d].workspace = Managed(d))
                      /\ at'[d] # "accepted" => session'[d] = Absent
    BY DEF TreeInv, Absent, NoWorkspace, Managed
  <2>1. CASE d = c
    BY <1>1, <1>2, <1>11, <1>16, <2>1 DEF Turn
  <2>2. CASE d # c
    BY <1>1, <1>2, <1>11, <2>2 DEF NewSessionInv, TreeInv, Turn
  <2>. QED BY <2>1, <2>2
<1>18. FlowInv'
  BY <1>2 DEF NewSessionInv, FlowInv, Turn, Creations, page
<1>19. RowsInv'
  <2>1. \A v, w \in workspaces' : Id(v) = Id(w) => v = w
    BY <1>1 DEF Conflict
  <2>2. \A w \in workspaces' \ workspaces : ~w.own
    BY <1>1 DEF Rows, Worktree
  <2>. QED BY <2>1, <2>2 DEF NewSessionInv, RowsInv, Id
<1>20. ScopeInv'
  <2> SUFFICES ASSUME NEW d \in Creations, session'[d].workspace # NoWorkspace
               PROVE  \E w \in Rows(c) :
                        Id(w) = session'[d].workspace /\ w.project = session'[d].project
    BY <1>1 DEF ScopeInv, Id, NoWorkspace
  <2>1. CASE d = c
    BY <1>1, <1>11, <2>1 DEF InScope, p
  <2>2. CASE d # c
    BY <1>10, <1>11, <2>2 DEF NewSessionInv, ScopeInv
  <2>. QED BY <2>1, <2>2
<1>21. FormInv'
  BY DEF NewSessionInv, FormInv, page, Editing
<1>. QED BY <1>12, <1>13, <1>15, <1>17, <1>18, <1>19, <1>20, <1>21 DEF NewSessionInv

\* A throw: the worktree of a handler that has added one is left to clean up.
LEMMA FailsKeeps ==
  ASSUME NewSessionInv, NEW c \in Creations, Fails(c),
         at[c] \in {"sent", "listing", "adding", "added", "selecting"},
         UNCHANGED <<tables, disk, asked, up, linked, page, opens>>, mishaps' \in 0 .. MaxMishaps
  PROVE  NewSessionInv'
<1>1. CASE at[c] = "added"
  <2>1. GoesOn(c, "cleaning") /\ "cleaning" \in Places
    BY <1>1 DEF Fails, Places
  <2>2. Turn(c, "cleaning")
    BY <2>1, GoesOnIs DEF NewSessionInv
  <2>3. "cleaning" \in Past
    BY DEF Past
  <2>. QED BY <1>1, <2>1, <2>2, <2>3, TurnKeeps
<1>2. CASE at[c] # "added"
  <2>1. Ends(c, "rejected")
    BY <1>2 DEF Fails
  <2>2. Turn(c, "rejected") /\ "rejected" \in Places
    BY <2>1, EndsIs DEF NewSessionInv, Places, Decided
  <2>3. c \notin disk /\ at[c] \notin Past
    BY <1>2 DEF NewSessionInv, SeenInv, Past, Decided
  <2>. QED BY <2>2, <2>3, TurnKeeps
<1>. QED BY <1>1, <1>2

LEMMA MishapIs ==
  ASSUME TypeOK, Mishap \/ UNCHANGED mishaps
  PROVE  mishaps' \in 0 .. MaxMishaps
BY CreationsAssumption DEF CreationsAssumption, TypeOK, BoundsOK, Mishap

LEMMA StoreKeeps ==
  ASSUME NewSessionInv, NEW c \in Creations, Store(c),
         \/ at[c] = "sent" /\ ask[c].worktree = "local"
         \/ at[c] = "added"
         \/ at[c] = "selecting" /\ ask[c].worktree \in sees[c],
         UNCHANGED <<asked, up, linked, page, opens>>
  PROVE  NewSessionInv'
<1>1. CASE Commits(c) /\ UNCHANGED mishaps
  BY <1>1, CommitKeeps DEF bounds
<1>2. CASE Fails(c) /\ UNCHANGED <<tables, disk>> /\ (UNCHANGED mishaps \/ Mishap)
  <2>1. mishaps' \in 0 .. MaxMishaps
    BY <1>2, MishapIs DEF NewSessionInv
  <2>. QED BY <1>2, <2>1, FailsKeeps
<1>. QED BY <1>1, <1>2 DEF Store

LEMMA BeginKeeps ==
  ASSUME NewSessionInv, NEW c \in Creations, Begin(c)
  PROVE  NewSessionInv'
<1>1. at[c] = "sent" /\ UNCHANGED <<asked, up, linked, page, opens>>
  BY DEF Begin
<1>2. CASE ask[c].worktree = "local"
  BY <1>1, <1>2, StoreKeeps DEF Begin
<1>3. CASE ask[c].worktree # "local" /\ Fails(c) /\ UNCHANGED <<tables, disk, mishaps>>
  BY <1>1, <1>3, MishapIs, FailsKeeps DEF NewSessionInv
<1>4. CASE ask[c].worktree # "local" /\ GoesOn(c, "listing") /\ UNCHANGED <<tables, disk, mishaps>>
  <2>1. Turn(c, "listing") /\ "listing" \in Places /\ mishaps' \in 0 .. MaxMishaps
    BY <1>4, GoesOnIs, MishapIs DEF NewSessionInv, Places
  <2>2. at[c] \notin Past
    BY <1>1 DEF Past, Decided
  <2>. QED BY <1>1, <1>4, <2>1, <2>2, TurnKeeps
<1>. QED BY <1>2, <1>3, <1>4 DEF Begin

LEMMA RefuseKeeps ==
  ASSUME NewSessionInv, NEW c \in Creations, Refuse(c)
  PROVE  NewSessionInv'
<1>1. /\ at[c] = "sent" /\ Ends(c, "rejected")
      /\ UNCHANGED <<tables, disk, asked, up, linked, page, opens>>
      /\ mishaps' \in 0 .. MaxMishaps
  BY MishapIs DEF Refuse, NewSessionInv
<1>2. Fails(c)
  BY <1>1 DEF Fails
<1>. QED BY <1>1, <1>2, FailsKeeps

LEMMA ListKeeps ==
  ASSUME NewSessionInv, NEW c \in Creations, List(c)
  PROVE  NewSessionInv'
<1>1. /\ at[c] = "listing" /\ UNCHANGED <<tables, disk, asked, up, linked, page, bounds>>
      /\ mishaps' \in 0 .. MaxMishaps
  BY MishapIs DEF List, NewSessionInv, bounds
<1>2. CASE Fails(c)
  BY <1>1, <1>2, FailsKeeps DEF bounds
<1>3. CASE /\ at' = [at EXCEPT ![c] = IF ask[c].worktree = "new" THEN "adding" ELSE "selecting"]
           /\ sees' = [sees EXCEPT ![c] = Catalog(ask[c].project)] /\ UNCHANGED <<ask, inbox>>
  <2> DEFINE v == IF ask[c].worktree = "new" THEN "adding" ELSE "selecting"
  <2>1. Catalog(ask[c].project) \subseteq disk /\ disk \subseteq Trees
    BY DEF Catalog, NewSessionInv, TypeOK, HandlersOK
  <2>2. ask[c].worktree # "local"
    BY <1>1 DEF NewSessionInv, CommandInv
  <2>3. /\ v \in Places /\ v \in {"adding", "selecting"}
        /\ v = "adding" <=> ask[c].worktree = "new"
    BY DEF Places
  <2>4. at' = [at EXCEPT ![c] = v]
    BY <1>3
  <2> HIDE DEF v
  <2>5. Turn(c, v)
    BY <1>3, <2>1, <2>2, <2>3, <2>4 DEF Turn, NewSessionInv, TypeOK, HandlersOK, WireOK
  <2>6. at[c] \notin Past
    BY <1>1 DEF Past, Decided
  <2>. QED BY <1>1, <2>3, <2>5, <2>6, TurnKeeps DEF bounds
<1>. QED BY <1>2, <1>3 DEF List

LEMMA AddTreeKeeps ==
  ASSUME NewSessionInv, NEW c \in Creations, AddTree(c)
  PROVE  NewSessionInv'
<1>1. /\ at[c] = "adding" /\ UNCHANGED <<tables, asked, up, linked, page, opens>>
      /\ mishaps' \in 0 .. MaxMishaps
  BY MishapIs DEF AddTree, NewSessionInv
<1>2. CASE disk' = disk \cup {c} /\ GoesOn(c, "added")
  <2>1. ask[c].worktree = "new"
    BY <1>1 DEF NewSessionInv, CommandInv
  <2>2. Turn(c, "added") /\ "added" \in Places /\ "added" \in Past
    BY <1>2, <2>1, GoesOnIs DEF NewSessionInv, Places, Past
  <2>. QED BY <1>1, <1>2, <2>2, TurnKeeps
<1>3. CASE Fails(c) /\ UNCHANGED disk
  BY <1>1, <1>3, FailsKeeps
<1>. QED BY <1>2, <1>3 DEF AddTree

LEMMA FinishKeeps ==
  ASSUME NewSessionInv, NEW c \in Creations, Finish(c)
  PROVE  NewSessionInv'
<1>1. UNCHANGED <<asked, up, linked, page, opens>>
  BY DEF Finish
<1>2. CASE at[c] = "added" /\ Store(c)
  BY <1>1, <1>2, StoreKeeps
<1>3. CASE at[c] = "selecting" /\ ask[c].worktree \in sees[c] /\ Store(c)
  BY <1>1, <1>3, StoreKeeps
<1>4. CASE at[c] = "selecting" /\ Fails(c) /\ UNCHANGED <<tables, disk, mishaps>>
  BY <1>1, <1>4, MishapIs, FailsKeeps DEF NewSessionInv
<1>. QED BY <1>2, <1>3, <1>4 DEF Finish

LEMMA CleanUpKeeps ==
  ASSUME NewSessionInv, NEW c \in Creations, CleanUp(c)
  PROVE  NewSessionInv'
<1>1. /\ at[c] = "cleaning" /\ UNCHANGED <<tables, asked, up, linked, page, opens>>
      /\ mishaps' \in 0 .. MaxMishaps
  BY MishapIs DEF CleanUp, NewSessionInv, bounds
<1>2. {"rejected", "leaked"} \subseteq Places /\ {"rejected", "leaked"} \subseteq Past
  BY DEF Places, Past, Decided
<1>3. CASE disk' = disk \ {c} /\ Ends(c, "rejected")
  <2>1. Turn(c, "rejected")
    BY <1>3, EndsIs DEF NewSessionInv
  <2>. QED BY <1>1, <1>2, <1>3, <2>1, TurnKeeps
<1>4. CASE disk' = disk /\ Ends(c, "leaked")
  <2>1. Turn(c, "leaked")
    BY <1>4, EndsIs DEF NewSessionInv
  <2>. QED BY <1>1, <1>2, <1>4, <2>1, TurnKeeps
<1>. QED BY <1>3, <1>4 DEF CleanUp

-----------------------------------------------------------------------------
(* The page.                                                               *)

LEMMA FormsAre ==
  /\ Idle \in Discovery /\ Idle.phase = "idle"
  /\ Blank \in Open /\ Blank.progress = "editing" /\ Blank.project = None
  /\ Blank.discovery = Idle /\ Blank.location = "local"
  /\ NoForm \in Shut
  /\ Unused \in Flow /\ Unused.at = "none" /\ [Unused EXCEPT !.at = "over"] \in Flow
  /\ [Unused EXCEPT !.at = "over"].at = "over"
<1>1. Idle \in Discovery /\ Idle.phase = "idle"
  BY DEF Idle, Discovery, Project
<1>2. NoWorkspace \in Workspace
  BY WorkspacesAre
<1>3. /\ Blank \in Open /\ Blank.progress = "editing" /\ Blank.project = None
      /\ Blank.discovery = Idle /\ Blank.location = "local"
  BY <1>1, <1>2 DEF Blank, Open, Project, Location
<1>4. NoForm \in Shut
  BY DEF NoForm, Shut, Project
<1>5. /\ Unused \in Flow /\ Unused.at = "none" /\ [Unused EXCEPT !.at = "over"] \in Flow
      /\ [Unused EXCEPT !.at = "over"].at = "over"
  BY <1>4 DEF Unused, Flow
<1>. QED BY <1>1, <1>3, <1>4, <1>5

\* The fields of an open form, and of one that is closed.
LEMMA OpenIs ==
  ASSUME NEW f \in Open
  PROVE  /\ f.project \in Project /\ f.workspace \in Workspace /\ f.location \in Location
         /\ f.discovery \in Discovery /\ f.progress = "editing"
BY DEF Open

LEMMA ShutIs ==
  ASSUME NEW f \in Shut
  PROVE  f.project \in Project /\ f.progress # "editing"
BY DEF Shut, None

LEMMA EditingIs == ASSUME TypeOK, Editing PROVE form \in Open
BY ShutIs DEF TypeOK, PageOK, Editing

\* A form that cannot be edited offers nothing.
LEMMA ShutForm == ASSUME form' \in Shut PROVE FormInv'
BY ShutIs DEF FormInv, Editing

LEMMA BlankForm == ASSUME form' = Blank PROVE FormInv'
BY FormsAre, Names DEF FormInv, Editing

LEMMA RestoredIs ==
  ASSUME TypeOK, NEW c \in Own, NEW progress \in {"failed", "submitting", "finished"}
  PROVE  Restored(c, progress) \in Shut
<1>1. flow[c].initial \in Open \cup Shut
  BY DEF TypeOK, PageOK, Flow
<1>2. flow[c].initial.project \in Project
  BY <1>1, OpenIs, ShutIs
<1>. QED BY <1>2 DEF Restored, Shut

LEMMA OverKeeps ==
  ASSUME TypeOK, FlowInv, NEW c \in Own, flow' = Over(c), UNCHANGED at
  PROVE  flow' \in [Own -> Flow] /\ FlowInv'
<1> DEFINE over == [Unused EXCEPT !.at = "over"]
<1>1. over \in Flow /\ over.at = "over"
  BY FormsAre
<1>2. flow' = [flow EXCEPT ![c] = over]
  BY DEF Over
<1> HIDE DEF over
<1>3. flow' \in [Own -> Flow]
  BY <1>1, <1>2 DEF TypeOK, PageOK
<1>4. flow'[c].at = "over" /\ \A d \in Own \ {c} : flow'[d] = flow[d]
  BY <1>1, <1>2 DEF TypeOK, PageOK
<1>5. FlowInv'
  BY <1>4 DEF FlowInv, Open, Workspace, Location, Discovery, Project, Trees, Creations
<1>. QED BY <1>3, <1>5

\* The Host's handlers and tables stay as they are.
LEMMA HostStays ==
  ASSUME NewSessionInv, UNCHANGED <<tables, disk, at, ask, sees>>, TypeOK', FlowInv', FormInv'
  PROVE  NewSessionInv'
<1>1. CommandInv' /\ SeenInv'
  BY DEF NewSessionInv, CommandInv, SeenInv, tables, Creations
<1>2. TreeInv' /\ RowsInv' /\ ScopeInv'
  BY DEF NewSessionInv, TreeInv, RowsInv, ScopeInv, tables, Creations, Managed, Absent,
         NoWorkspace, Id
<1>. QED BY <1>1, <1>2 DEF NewSessionInv

\* Only the page moves.
LEMMA PageMoves ==
  ASSUME NewSessionInv, UNCHANGED <<host, wire>>, PageOK', BoundsOK', FlowInv', FormInv'
  PROVE  NewSessionInv'
<1>1. TypeOK'
  BY DEF NewSessionInv, TypeOK, TablesOK, HandlersOK, WireOK, host, tables, wire
<1>. QED BY <1>1, HostStays DEF host

LEMMA CountedIs ==
  ASSUME TypeOK, Counted \/ UNCHANGED opens, Mishap \/ UNCHANGED mishaps
  PROVE  BoundsOK'
BY CreationsAssumption DEF CreationsAssumption, TypeOK, BoundsOK, Counted, Mishap

\* The flows stay as they are.
LEMMA FlowStays == ASSUME FlowInv, UNCHANGED <<flow, at>> PROVE FlowInv'
BY DEF FlowInv, Open, Workspace, Location, Discovery, Project, Trees, Creations

LEMMA OpenNewSessionKeeps == ASSUME NewSessionInv, OpenNewSession PROVE NewSessionInv'
<1>1. PageOK' /\ UNCHANGED <<host, wire, form, flow, at>>
  BY DEF OpenNewSession, NewSessionInv, TypeOK, PageOK, host
<1>2. BoundsOK'
  BY CountedIs DEF OpenNewSession, NewSessionInv
<1>3. FlowInv' /\ FormInv'
  BY <1>1, FlowStays DEF NewSessionInv, FormInv, Editing
<1>. QED BY <1>1, <1>2, <1>3, PageMoves

LEMMA FormOpensKeeps == ASSUME NewSessionInv, FormOpens PROVE NewSessionInv'
<1>1. PageOK' /\ UNCHANGED <<host, wire, flow, at, bounds>>
  BY FormsAre DEF FormOpens, NewSessionInv, TypeOK, PageOK, host
<1>2. FlowInv' /\ FormInv' /\ BoundsOK'
  BY <1>1, FlowStays, BlankForm DEF FormOpens, NewSessionInv, TypeOK, BoundsOK, bounds
<1>. QED BY <1>1, <1>2, PageMoves

LEMMA OpenSessionKeeps == ASSUME NewSessionInv, OpenSession PROVE NewSessionInv'
<1>1. PageOK' /\ form' \in Shut /\ UNCHANGED <<host, wire, flow, at, bounds>>
  BY FormsAre DEF OpenSession, NewSessionInv, TypeOK, PageOK, host
<1>2. FlowInv' /\ FormInv' /\ BoundsOK'
  BY <1>1, FlowStays, ShutForm DEF NewSessionInv, TypeOK, BoundsOK, bounds
<1>. QED BY <1>1, <1>2, PageMoves

\* Another Project on the form clears what was found for the last one.
LEMMA ScopesKeep ==
  ASSUME TypeOK, FormInv, Editing, NEW p \in Project, NEW id \in Workspace, Scopes(p, id)
  PROVE  form' \in Open /\ FormInv' /\ lookups' \subseteq [n : Nat, of : Directories]
<1> DEFINE chosen == IF p = form.project THEN [form EXCEPT !.workspace = id]
                     ELSE [Blank EXCEPT !.project = p]
           loading == [Idle EXCEPT !.phase = "loading"]
<1>1. form \in Open
  BY EditingIs
<1>2. loading \in Discovery /\ loading.phase = "loading"
  BY FormsAre DEF Discovery
<1>3. lookups' \subseteq [n : Nat, of : Directories]
  BY CreationsAssumption
  DEF CreationsAssumption, Scopes, TypeOK, PageOK, BoundsOK, Project
<1>4. CASE p = form.project
  <2>1. /\ chosen \in Open /\ chosen.project = p /\ chosen.location = form.location
        /\ chosen.discovery = form.discovery
    BY <1>1, <1>4 DEF Open
  <2>2. /\ form' \in Open /\ form'.project = p /\ form'.location = form.location
        /\ form'.discovery = IF p = None THEN form.discovery ELSE loading
    <3>1. form' = IF p = None THEN chosen ELSE [chosen EXCEPT !.discovery = loading]
      BY DEF Scopes, Scoped
    <3> HIDE DEF chosen, loading
    <3>. QED BY <1>2, <2>1, <3>1 DEF Open
  <2> HIDE DEF chosen, loading
  <2>3. form'.discovery.phase = "ready" => p = None /\ form.discovery.phase = "ready"
    BY <1>2, <2>2
  <2>4. ~(form.discovery.phase = "ready" /\ p = None)
    BY <1>4 DEF FormInv
  <2>5. form.location \in Trees => p # None /\ form.location # p
    BY <1>4 DEF FormInv
  <2>6. FormInv'
    BY <2>2, <2>3, <2>4, <2>5 DEF FormInv, Trees, Creations
  <2>. QED BY <1>3, <2>2, <2>6
<1>5. CASE p # form.project
  <2>1. /\ chosen \in Open /\ chosen.project = p /\ chosen.location = "local"
        /\ chosen.discovery = Idle
    BY <1>5, FormsAre DEF Open
  <2>2. /\ form' \in Open /\ form'.location = "local"
        /\ form'.discovery = IF p = None THEN Idle ELSE loading
    <3>1. form' = IF p = None THEN chosen ELSE [chosen EXCEPT !.discovery = loading]
      BY DEF Scopes, Scoped
    <3> HIDE DEF chosen, loading
    <3>. QED BY <1>2, <2>1, <3>1 DEF Open
  <2> HIDE DEF chosen, loading
  <2>3. form'.discovery.phase # "ready"
    BY <1>2, <2>2, FormsAre
  <2>4. FormInv'
    BY <2>2, <2>3, Names DEF FormInv
  <2>. QED BY <1>3, <2>2, <2>4
<1>. QED BY <1>4, <1>5

LEMMA IdsAre == ASSUME TypeOK PROVE Ids \subseteq Workspace
BY IdIs, WorkspacesAre DEF TypeOK, TablesOK, Ids

LEMMA SetScopeKeeps ==
  ASSUME NewSessionInv, NEW p \in projects \cup {None}, NEW id \in Ids, SetScope(p, id)
  PROVE  NewSessionInv'
<1>1. p \in Project /\ id \in Workspace
  BY IdsAre DEF NewSessionInv, TypeOK, TablesOK, Project
<1>2. form' \in Open /\ FormInv' /\ lookups' \subseteq [n : Nat, of : Directories]
  BY <1>1, ScopesKeep DEF SetScope, NewSessionInv
<1>3. UNCHANGED <<host, wire, drafts, adding, flow, at>>
  BY DEF SetScope, host
<1>4. PageOK'
  BY <1>2, <1>3 DEF NewSessionInv, TypeOK, PageOK
<1>5. BoundsOK'
  BY CountedIs DEF SetScope, NewSessionInv
<1>. QED BY <1>2, <1>3, <1>4, <1>5, FlowStays, PageMoves DEF NewSessionInv

LEMMA DiscoverKeeps ==
  ASSUME NewSessionInv, NEW l \in lookups, NEW phase \in {"ready", "unavailable", "failed"},
         NEW trees \in SUBSET Trees, l.of \notin trees,
         Discover(l, phase, trees), BoundsOK'
  PROVE  NewSessionInv'
<1> DEFINE found == [phase |-> phase, of |-> l.of, trees |-> trees]
<1>1. l.of \in Directories /\ l.of # None
  BY Names DEF NewSessionInv, TypeOK, PageOK
<1>2. found \in Discovery /\ found.phase = phase /\ found.of = l.of /\ found.trees = trees
  BY <1>1 DEF Discovery, Project
<1>3. UNCHANGED <<host, wire, drafts, adding, flow, at>> /\ lookups' \subseteq lookups
  BY DEF Discover, host
<1>4. CASE Answers(l)
  <2>1. Editing /\ form.project = l.of /\ form \in Open
    BY <1>4, EditingIs DEF Answers, NewSessionInv
  <2>2. form' = [form EXCEPT !.discovery = found]
    BY <1>4 DEF Discover
  <2> HIDE DEF found
  <2>3. /\ form' \in Open /\ form'.project = l.of /\ form'.location = form.location
        /\ form'.discovery = found
    BY <1>2, <2>1, <2>2 DEF Open
  <2>4. FormInv'
    BY <1>1, <1>2, <2>1, <2>3 DEF NewSessionInv, FormInv
  <2>5. PageOK'
    BY <1>3, <2>3 DEF NewSessionInv, TypeOK, PageOK
  <2>. QED BY <1>3, <2>4, <2>5, FlowStays, PageMoves DEF NewSessionInv
<1>5. CASE ~Answers(l)
  <2>1. UNCHANGED form
    BY <1>5 DEF Discover
  <2>2. PageOK' /\ FormInv'
    BY <1>3, <2>1 DEF NewSessionInv, TypeOK, PageOK, FormInv, Editing
  <2>. QED BY <1>3, <2>2, FlowStays, PageMoves DEF NewSessionInv
<1>. QED BY <1>4, <1>5

LEMMA DiscoveredKeeps ==
  ASSUME NewSessionInv, NEW l \in lookups, Discovered(l) \/ DiscoveryFails(l)
  PROVE  NewSessionInv'
<1>1. CASE Discovered(l)
  <2> DEFINE phase == IF Available(l.of) THEN "ready" ELSE "unavailable"
             trees == Catalog(l.of)
  <2>1. trees \in SUBSET Trees /\ l.of \notin trees
    BY DEF NewSessionInv, TypeOK, HandlersOK, Catalog
  <2>2. phase \in {"ready", "unavailable", "failed"}
    OBVIOUS
  <2>3. Discover(l, phase, trees) /\ UNCHANGED <<opens, mishaps>>
    BY <1>1 DEF Discovered, Discover
  <2>4. BoundsOK'
    BY <2>3, CountedIs DEF NewSessionInv
  <2> HIDE DEF phase, trees
  <2>. QED BY <2>1, <2>2, <2>3, <2>4, DiscoverKeeps
<1>2. CASE DiscoveryFails(l)
  <2>1. Discover(l, "failed", {}) /\ Mishap /\ UNCHANGED opens
    BY <1>2 DEF DiscoveryFails, Discover
  <2>2. BoundsOK'
    BY <2>1, CountedIs DEF NewSessionInv
  <2>. QED BY <2>1, <2>2, DiscoverKeeps
<1>. QED BY <1>1, <1>2

LEMMA SetLocationKeeps ==
  ASSUME NewSessionInv, NEW where \in {"local", "new"} \cup Trees, SetLocation(where)
  PROVE  NewSessionInv'
<1>1. Editing /\ form \in Open
  BY EditingIs DEF SetLocation, NewSessionInv
<1>2. where \in Location /\ NoWorkspace \in Workspace
  BY WorkspacesAre DEF Location
<1>3. form' = [form EXCEPT !.workspace = NoWorkspace, !.location = where]
  BY DEF SetLocation
<1>4. /\ form' \in Open /\ form'.project = form.project /\ form'.location = where
      /\ form'.discovery = form.discovery
  BY <1>1, <1>2, <1>3 DEF Open
<1>5. where \in Trees => form.discovery.phase = "ready" /\ where \in form.discovery.trees
  BY Names DEF SetLocation
<1>6. FormInv'
  BY <1>1, <1>4, <1>5 DEF NewSessionInv, FormInv
<1>7. UNCHANGED <<host, wire, drafts, lookups, adding, flow, at, bounds>>
  BY DEF SetLocation, host
<1>8. PageOK' /\ BoundsOK'
  BY <1>4, <1>7 DEF NewSessionInv, TypeOK, PageOK, BoundsOK, bounds
<1>. QED BY <1>6, <1>7, <1>8, FlowStays, PageMoves DEF NewSessionInv

-----------------------------------------------------------------------------
(* Projects.                                                               *)

LEMMA AddProjectKeeps ==
  ASSUME NewSessionInv, NEW d \in Directories, NEW valid \in BOOLEAN, AddProject(d, valid)
  PROVE  NewSessionInv'
<1>1. /\ UNCHANGED <<tables, disk, at, ask, sees, wire, form, drafts, lookups, flow>>
      /\ adding' = <<[dir |-> d, saw |-> None]>>
      /\ asked' = asked \cup {[dir |-> d, mine |-> TRUE, valid |-> valid]}
  BY DEF AddProject
<1>2. [dir |-> d, mine |-> TRUE, valid |-> valid] \in Request
  BY DEF Request
<1>3. adding' \in Seq(Pending)
  <2>1. [dir |-> d, saw |-> None] \in Pending
    BY DEF Pending, Project
  <2>. QED BY <1>1, <2>1
<1>4. BoundsOK'
  BY CountedIs DEF AddProject, Browsed, NewSessionInv
<1>5. TypeOK'
  BY <1>1, <1>2, <1>3, <1>4
  DEF NewSessionInv, TypeOK, TablesOK, HandlersOK, WireOK, PageOK, tables, wire
<1>6. FlowInv' /\ FormInv'
  BY <1>1, FlowStays DEF NewSessionInv, FormInv, Editing
<1>. QED BY <1>1, <1>5, <1>6, HostStays

\* A new Project's checkout has a row of its own.
LEMMA HostAddsKeeps ==
  ASSUME NewSessionInv, NEW a \in Request, HostAdds(a), UNCHANGED page, BoundsOK'
  PROVE  NewSessionInv'
<1> DEFINE new == a.valid /\ ~Known(a.dir)
<1>1. /\ asked' = asked \ {a}
      /\ projects' = (IF new THEN projects \cup {a.dir} ELSE projects)
      /\ workspaces' = (IF new THEN workspaces \cup {Checkout(a.dir)} ELSE workspaces)
      /\ Says("project", a.dir, new, a.mine)
      /\ UNCHANGED <<session, disk, at, ask, sees, up, linked>>
  BY DEF HostAdds
<1>2. new => \A w \in workspaces : w.path # a.dir
  BY DEF Known
<1>3. a.dir \in Directories /\ a.mine \in BOOLEAN /\ new \in BOOLEAN
  BY DEF Request
<1> HIDE DEF new
<1>4. Checkout(a.dir) \in Row /\ Checkout(a.dir).path = a.dir
  BY <1>3, CheckoutIs
<1>5. inbox' \in Seq(Message)
  BY <1>1, <1>3, SaysIs DEF NewSessionInv, TypeOK
<1>6. TypeOK'
  BY <1>1, <1>3, <1>4, <1>5
  DEF NewSessionInv, TypeOK, TablesOK, HandlersOK, WireOK, PageOK, page
<1>7. CommandInv'
  BY <1>1 DEF NewSessionInv, CommandInv, Creations
<1>8. SeenInv'
  BY <1>1, <1>3, <1>4, Names DEF NewSessionInv, SeenInv, Creations
<1>9. TreeInv'
  BY <1>1 DEF NewSessionInv, TreeInv, Creations, Managed, Absent, NoWorkspace
<1>10. RowsInv'
  <2>1. /\ \A w \in workspaces : Id(w).path = w.path
        /\ Id(Checkout(a.dir)).path = a.dir
    BY <1>4, IdIs DEF NewSessionInv, TypeOK, TablesOK
  <2>2. \A v, w \in workspaces' : Id(v) = Id(w) => v = w
    BY <1>1, <1>2, <2>1 DEF NewSessionInv, RowsInv
  <2>3. Checkout(a.dir).project = a.dir
    BY <1>3, CheckoutIs
  <2>. QED BY <1>1, <1>4, <2>2, <2>3 DEF NewSessionInv, RowsInv, Id
<1>11. ScopeInv'
  <2>1. workspaces \subseteq workspaces' /\ session' = session
    BY <1>1
  <2>. QED BY <2>1 DEF NewSessionInv, ScopeInv, Id, NoWorkspace, Creations
<1>12. FlowInv' /\ FormInv'
  BY <1>1, FlowStays DEF NewSessionInv, FormInv, Editing, page
<1>. QED BY <1>6, <1>7, <1>8, <1>9, <1>10, <1>11, <1>12 DEF NewSessionInv

LEMMA AddsKeeps == ASSUME NewSessionInv, NEW a \in asked, Adds(a) PROVE NewSessionInv'
<1>1. a \in Request /\ HostAdds(a) /\ UNCHANGED page
  BY DEF NewSessionInv, TypeOK, HandlersOK, Adds
<1>2. BoundsOK'
  BY DEF NewSessionInv, TypeOK, BoundsOK, Adds, bounds
<1>. QED BY <1>1, <1>2, HostAddsKeeps

LEMMA OtherAddsKeeps ==
  ASSUME NewSessionInv, NEW d \in Directories, OtherAdds(d)
  PROVE  NewSessionInv'
<1> DEFINE a == [dir |-> d, mine |-> FALSE, valid |-> TRUE]
<1>1. a \in Request
  BY DEF Request
<1>2. HostAdds(a) /\ UNCHANGED page
  BY DEF OtherAdds
<1>3. BoundsOK'
  BY CountedIs DEF OtherAdds, NewSessionInv
<1> HIDE DEF a
<1>. QED BY <1>1, <1>2, <1>3, HostAddsKeeps

LEMMA AddTimeoutKeeps == ASSUME NewSessionInv, AddTimeout PROVE NewSessionInv'
<1>1. /\ UNCHANGED <<tables, disk, at, ask, sees, up, linked, form, drafts, lookups, flow>>
      /\ adding' = <<>> /\ asked' = {[a EXCEPT !.mine = FALSE] : a \in asked}
  BY DEF AddTimeout
<1>2. asked' \subseteq Request
  BY <1>1 DEF NewSessionInv, TypeOK, HandlersOK, Request
<1>3. inbox' \in Seq(Message)
  <2> DEFINE claims(m) == m.mine /\ m.kind # "project"
  <2>1. \A m \in Message : claims(m) \in BOOLEAN
    BY DEF Message
  <2>2. inbox' = [i \in DOMAIN inbox |-> [inbox[i] EXCEPT !.mine = claims(inbox[i])]]
    BY DEF AddTimeout
  <2> HIDE DEF claims
  <2>3. \A m \in Message : [m EXCEPT !.mine = claims(m)] \in Message
    BY <2>1 DEF Message
  <2>4. inbox \in Seq(Message)
    BY DEF NewSessionInv, TypeOK, WireOK
  <2>. QED BY <2>2, <2>3, <2>4
<1>4. BoundsOK'
  BY CountedIs DEF AddTimeout, NewSessionInv
<1>5. TypeOK'
  <2>1. TablesOK' /\ HandlersOK' /\ WireOK'
    BY <1>1, <1>2, <1>3 DEF NewSessionInv, TypeOK, TablesOK, HandlersOK, WireOK, tables
  <2>2. adding' \in Seq(Pending)
    BY <1>1
  <2>3. PageOK'
    BY <1>1, <2>2 DEF NewSessionInv, TypeOK, PageOK
  <2>. QED BY <1>4, <2>1, <2>3 DEF TypeOK
<1>6. FlowInv' /\ FormInv'
  BY <1>1, FlowStays DEF NewSessionInv, FormInv, Editing
<1>. QED BY <1>1, <1>5, <1>6, HostStays

-----------------------------------------------------------------------------
(* Submitting the form.                                                    *)

LEMMA SubmitKeeps ==
  ASSUME NewSessionInv, NEW c \in Own, NEW empty \in BOOLEAN, Submit(c, empty)
  PROVE  NewSessionInv'
<1> DEFINE f == [Unused EXCEPT !.at = "opening", !.initial = form, !.empty = empty]
<1>1. form \in Open /\ form.project \in Project
  BY EditingIs, OpenIs DEF Submit, NewSessionInv
<1>2. f \in Flow /\ f.at = "opening" /\ f.initial = form
  BY <1>1, FormsAre DEF Flow
<1>3. flow' = [flow EXCEPT ![c] = f]
  BY DEF Submit
<1> HIDE DEF f
<1>4. flow[c].at = "none"
  BY FormsAre DEF Submit
<1>5. form' \in Shut
  BY <1>1 DEF Submit, Shut
<1>6. UNCHANGED <<host, wire, drafts, lookups, adding, at, bounds>>
  BY DEF Submit, host
<1>7. flow' \in [Own -> Flow]
  BY <1>2, <1>3 DEF NewSessionInv, TypeOK, PageOK
<1>8. \A d \in Own : flow'[d] = IF d = c THEN f ELSE flow[d]
  BY <1>3 DEF NewSessionInv, TypeOK, PageOK
<1>9. FlowInv'
  <2>1. \A d \in Own : /\ flow'[d].at \in {"none", "opening"} => at[d] = "none"
                       /\ flow'[d].at = "opening" => flow'[d].initial \in Open
    BY <1>1, <1>2, <1>4, <1>8 DEF NewSessionInv, FlowInv
  <2>. QED BY <1>6, <2>1
           DEF FlowInv, Open, Workspace, Location, Discovery, Project, Trees, Creations
<1>10. PageOK' /\ BoundsOK'
  BY <1>5, <1>6, <1>7 DEF NewSessionInv, TypeOK, PageOK, BoundsOK, bounds
<1>. QED BY <1>5, <1>6, <1>9, <1>10, ShutForm, PageMoves

\* A command is sent: its handler has not begun.
LEMMA SentKeeps ==
  ASSUME NewSessionInv, NEW c \in Creations, NEW a \in Command, at[c] = "none",
         at' = [at EXCEPT ![c] = "sent"], ask' = [ask EXCEPT ![c] = a],
         UNCHANGED <<tables, disk, sees, asked, up, inbox, form, drafts, lookups, adding, bounds>>,
         linked' \subseteq Own, flow' \in [Own -> Flow], FlowInv'
  PROVE  NewSessionInv'
<1>1. /\ at' \in [Creations -> Places] /\ ask' \in [Creations -> Command]
      /\ at'[c] = "sent" /\ \A d \in Creations \ {c} : at'[d] = at[d] /\ ask'[d] = ask[d]
  BY DEF NewSessionInv, TypeOK, HandlersOK, Places
<1>2. TypeOK'
  BY <1>1 DEF NewSessionInv, TypeOK, TablesOK, HandlersOK, WireOK, PageOK, BoundsOK, tables, bounds
<1>3. CommandInv'
  BY <1>1 DEF NewSessionInv, CommandInv, Creations
<1>4. SeenInv'
  <2>1. \A d \in Creations : at[d] \in Past => at'[d] \in Past
    BY <1>1 DEF Past, Decided
  <2>. QED BY <2>1 DEF NewSessionInv, SeenInv, tables, Creations
<1>5. TreeInv'
  BY <1>1 DEF NewSessionInv, TreeInv, tables, Creations, Managed, Absent, NoWorkspace
<1>6. RowsInv' /\ ScopeInv' /\ FormInv'
  BY DEF NewSessionInv, RowsInv, ScopeInv, FormInv, Editing, tables, Creations, Id, NoWorkspace
<1>. QED BY <1>2, <1>3, <1>4, <1>5, <1>6 DEF NewSessionInv

LEMMA SendKeeps == ASSUME NewSessionInv, NEW c \in Own, Send(c) PROVE NewSessionInv'
<1> DEFINE f == flow[c].initial
           a == [project |-> f.project, workspace |-> f.workspace, worktree |-> f.location]
           moved == [flow[c] EXCEPT !.at = "waiting"]
<1>1. c \in Creations /\ at[c] = "none" /\ f \in Open /\ flow[c] \in Flow
  BY DEF Send, NewSessionInv, FlowInv, Creations, TypeOK, PageOK
<1>2. a \in Command
  <2>1. f.project \in Project /\ f.workspace \in Workspace /\ f.location \in Location
    BY <1>1, OpenIs
  <2> HIDE DEF f
  <2>. QED BY <2>1 DEF Command
<1>3. moved \in Flow /\ moved.at = "waiting"
  BY <1>1 DEF Flow
<1>4. /\ at' = [at EXCEPT ![c] = "sent"] /\ ask' = [ask EXCEPT ![c] = a]
      /\ flow' = [flow EXCEPT ![c] = moved] /\ linked' = linked \cup {c}
      /\ UNCHANGED <<tables, disk, sees, asked, up, inbox, form, drafts, lookups, adding, bounds>>
  BY DEF Send
<1> HIDE DEF f, a, moved
<1>5. /\ flow' \in [Own -> Flow]
      /\ \A d \in Own : flow'[d] = IF d = c THEN moved ELSE flow[d]
  BY <1>3, <1>4 DEF NewSessionInv, TypeOK, PageOK
<1>6. FlowInv'
  <2>1. \A d \in Own : d # c => at'[d] = at[d]
    BY <1>1, <1>4 DEF NewSessionInv, TypeOK, HandlersOK, Creations
  <2>2. \A d \in Own : /\ flow'[d].at \in {"none", "opening"} => at'[d] = "none"
                       /\ flow'[d].at = "opening" => flow'[d].initial \in Open
    BY <1>3, <1>5, <2>1 DEF NewSessionInv, FlowInv
  <2>. QED BY <2>2 DEF FlowInv, Open, Workspace, Location, Discovery, Project, Trees, Creations
<1>7. linked' \subseteq Own
  BY <1>4 DEF NewSessionInv, TypeOK, WireOK
<1>. QED BY <1>1, <1>2, <1>4, <1>5, <1>6, <1>7, SentKeeps

LEMMA OtherCreatesKeeps ==
  ASSUME NewSessionInv, NEW c \in Others, NEW a \in Asks, OtherCreates(c, a)
  PROVE  NewSessionInv'
<1>1. c \in Creations /\ c \notin Own /\ at[c] = "none"
  BY CreationsAssumption DEF CreationsAssumption, OtherCreates, Creations
<1>2. a \in Command
  <2>1. /\ projects \subseteq Project /\ Ids \subseteq Workspace /\ NoWorkspace \in Workspace
        /\ {"local"} \subseteq Location /\ {"new"} \cup disk \subseteq Location
    BY IdsAre, WorkspacesAre DEF NewSessionInv, TypeOK, TablesOK, HandlersOK, Project, Location
  <2>. QED BY <2>1 DEF Asks, Command
<1>3. /\ at' = [at EXCEPT ![c] = "sent"] /\ ask' = [ask EXCEPT ![c] = a]
      /\ UNCHANGED <<tables, disk, sees, asked, up, inbox, form, drafts, lookups, adding, bounds>>
      /\ UNCHANGED <<linked, flow>>
  BY DEF OtherCreates, wire, page
<1>4. linked' \subseteq Own /\ flow' \in [Own -> Flow]
  BY <1>3 DEF NewSessionInv, TypeOK, WireOK, PageOK
<1>5. FlowInv'
  <2>1. \A d \in Own : at'[d] = at[d]
    BY <1>1, <1>3 DEF NewSessionInv, TypeOK, HandlersOK, Creations
  <2>2. \A d \in Own : /\ flow'[d].at \in {"none", "opening"} => at'[d] = "none"
                       /\ flow'[d].at = "opening" => flow'[d].initial \in Open
    BY <1>3, <2>1 DEF NewSessionInv, FlowInv
  <2>. QED BY <2>2 DEF FlowInv, Open, Workspace, Location, Discovery, Project, Trees, Creations
<1>. QED BY <1>1, <1>2, <1>3, <1>4, <1>5, SentKeeps

\* Only the form and the flow of c move, and the flow has been sent.
LEMMA FlowMoves ==
  ASSUME NewSessionInv, NEW c \in Own, form' \in Shut, flow' \in [Own -> Flow], FlowInv',
         UNCHANGED <<host, wire, drafts, lookups, adding, opens>>, Mishap \/ UNCHANGED mishaps
  PROVE  NewSessionInv'
<1>1. PageOK' /\ BoundsOK'
  BY CountedIs DEF NewSessionInv, TypeOK, PageOK
<1>. QED BY <1>1, ShutForm, PageMoves

LEMMA TimeoutKeeps == ASSUME NewSessionInv, NEW c \in Own, Timeout(c) PROVE NewSessionInv'
<1>1. /\ form' = Restored(c, "failed") /\ flow' = Over(c) /\ Mishap
      /\ UNCHANGED <<host, wire, drafts, lookups, adding, opens, at>>
  BY DEF Timeout, CreationFails, host
<1>2. form' \in Shut
  BY <1>1, RestoredIs DEF NewSessionInv
<1>. QED BY <1>1, <1>2, OverKeeps, FlowMoves DEF NewSessionInv

LEMMA RunEndsKeeps ==
  ASSUME NewSessionInv, NEW c \in Own, NEW accepted \in BOOLEAN, RunEnds(c, accepted)
  PROVE  NewSessionInv'
<1>1. /\ form' = NoForm \/ form' = Restored(c, "finished")
      /\ flow' = Over(c) /\ UNCHANGED <<host, wire, drafts, lookups, adding, opens, mishaps, at>>
  BY DEF RunEnds, host, bounds
<1>2. form' \in Shut
  BY <1>1, RestoredIs, FormsAre DEF NewSessionInv
<1>. QED BY <1>1, <1>2, OverKeeps, FlowMoves DEF NewSessionInv

-----------------------------------------------------------------------------
(* Answers and changes arrive.                                             *)

LEMMA MessagesAre ==
  ASSUME NEW m \in Message
  PROVE  /\ m.accepted \in BOOLEAN /\ m.mine \in BOOLEAN
         /\ m.kind = "project" => m.of \in Directories
         /\ m.kind # "project" => m.of \in Creations
BY DEF Message

\* The page after a message: what is left to type, and what the form may show.
Arrives ==
  /\ form' \in Open \cup Shut /\ FormInv'
  /\ lookups' \subseteq [n : Nat, of : Directories]
  /\ adding' \in Seq(Pending)
  /\ flow' \in [Own -> Flow] /\ FlowInv' /\ drafts' \in Nat

LEMMA ProjectArrivesKeeps ==
  ASSUME NewSessionInv, NEW m \in Message, m.kind = "project", ProjectArrives(m),
         UNCHANGED <<projects, at>>
  PROVE  Arrives
<1> DEFINE p == IF adding[1].saw = None THEN m.of ELSE adding[1].saw
           later == [adding[1] EXCEPT !.saw = m.of]
<1>1. m.of \in Directories /\ m.of \in Project
  BY MessagesAre DEF Project
<1>2. adding \in Seq(Pending) /\ UNCHANGED <<drafts, flow, at>> /\ TypeOK
  BY DEF NewSessionInv, TypeOK, PageOK, ProjectArrives
<1>3. adding # <<>> => adding[1] \in Pending
  BY <1>2
<1>4. flow' \in [Own -> Flow] /\ FlowInv' /\ drafts' \in Nat
  BY <1>2, FlowStays DEF NewSessionInv, TypeOK, PageOK
<1>5. CASE UNCHANGED <<form, lookups>> /\ adding' \in {<<>>, adding, <<later>>} /\
           (adding' = <<later>> => adding # <<>>)
  <2>1. adding # <<>> => later \in Pending
    BY <1>1, <1>3 DEF Pending
  <2> HIDE DEF later
  <2>2. adding' \in Seq(Pending)
    <3>1. CASE adding' = <<later>>
      <4>1. later \in Pending
        BY <1>5, <2>1, <3>1
      <4>. QED BY <3>1, <4>1
    <3>2. CASE adding' = <<>>
      BY <3>2
    <3>. QED BY <1>2, <1>5, <3>1, <3>2
  <2>3. form' \in Open \cup Shut /\ lookups' \subseteq [n : Nat, of : Directories] /\ FormInv'
    BY <1>5 DEF NewSessionInv, TypeOK, PageOK, FormInv, Editing
  <2>. QED BY <1>4, <2>2, <2>3 DEF Arrives
<1>6. CASE adding # <<>> /\ adding' = <<>> /\ Editing /\ Scopes(p, Id(Checkout(p)))
  <2>1. p \in Project
    BY <1>1, <1>3, <1>6 DEF Pending
  <2>2. p \in Directories
    BY <1>1, <2>1 DEF Project
  <2> HIDE DEF p
  <2>3. Id(Checkout(p)) \in Workspace
    BY <2>2, CheckoutIs, IdIs
  <2> DEFINE id == Id(Checkout(p))
  <2>4. Scopes(p, id)
    BY <1>6
  <2> HIDE DEF id
  <2>5. id \in Workspace
    BY <2>3 DEF id
  <2>6. form' \in Open /\ FormInv' /\ lookups' \subseteq [n : Nat, of : Directories]
    BY <1>2, <1>6, <2>1, <2>4, <2>5, ScopesKeep DEF NewSessionInv
  <2>7. adding' \in Seq(Pending)
    BY <1>6
  <2>. QED BY <1>4, <2>6, <2>7 DEF Arrives
<1>7. \/ UNCHANGED <<form, lookups>> /\ adding' \in {<<>>, adding, <<later>>} /\
           (adding' = <<later>> => adding # <<>>)
      \/ adding # <<>> /\ adding' = <<>> /\ Editing /\ Scopes(p, Id(Checkout(p)))
  <2>1. CASE adding = <<>>
    BY <2>1 DEF ProjectArrives
  <2>2. CASE adding # <<>> /\ ~m.accepted
    BY <2>2 DEF ProjectArrives
  <2>3. CASE adding # <<>> /\ m.accepted /\ ~m.mine
    BY <2>3 DEF ProjectArrives
  <2>4. CASE adding # <<>> /\ m.accepted /\ m.mine
    BY <2>4 DEF ProjectArrives
  <2>. QED BY <2>1, <2>2, <2>3, <2>4
<1>. QED BY <1>5, <1>6, <1>7

LEMMA ToldIs == ASSUME TypeOK, NEW c \in Own PROVE Told(c) \in Creations
BY DEF Told, TypeOK, PageOK, Flow, Creations

LEMMA SessionArrivesKeeps ==
  ASSUME NewSessionInv, NEW m \in Message, m.kind # "project", SessionArrives(m),
         UNCHANGED at
  PROVE  Arrives
<1>1. m.of \in Creations /\ TypeOK /\ FlowInv
  BY MessagesAre DEF NewSessionInv
<1>2. /\ lookups' \subseteq [n : Nat, of : Directories]
      /\ adding' \in Seq(Pending) /\ drafts' \in Nat
  BY DEF NewSessionInv, TypeOK, PageOK, SessionArrives
<1>3. CASE m.of \in Own /\ form' \in Shut /\ flow' = Over(m.of)
  BY <1>1, <1>2, <1>3, OverKeeps, ShutForm DEF Arrives
<1>4. CASE m.of \in Own /\ form' = Restored(m.of, "submitting") /\
           flow' = [flow EXCEPT ![m.of].at = "submitting", ![m.of].saw = Told(m.of)]
  <2> DEFINE c == m.of
             moved == [flow[c] EXCEPT !.at = "submitting", !.saw = Told(c)]
  <2>1. flow[c] \in Flow /\ Told(c) \in Creations
    BY <1>1, <1>4, ToldIs DEF TypeOK, PageOK
  <2>2. moved \in Flow /\ moved.at = "submitting"
    BY <2>1 DEF Flow
  <2>3. flow' = [flow EXCEPT ![c] = moved]
    BY <1>1, <1>4 DEF TypeOK, PageOK
  <2> HIDE DEF moved
  <2>4. /\ flow' \in [Own -> Flow]
        /\ \A d \in Own : flow'[d] = IF d = c THEN moved ELSE flow[d]
    BY <1>1, <2>2, <2>3 DEF TypeOK, PageOK
  <2>5. \A d \in Own : /\ flow'[d].at \in {"none", "opening"} => at'[d] = "none"
                       /\ flow'[d].at = "opening" => flow'[d].initial \in Open
    BY <1>1, <2>2, <2>4 DEF FlowInv
  <2>6. FlowInv'
    BY <2>5 DEF FlowInv, Open, Workspace, Location, Discovery, Project, Trees, Creations
  <2>7. form' \in Shut
    BY <1>1, <1>4, RestoredIs
  <2>. QED BY <1>2, <2>4, <2>6, <2>7, ShutForm DEF Arrives
<1>5. CASE UNCHANGED form /\
           flow' = [c \in Own |-> IF m.accepted /\ c \in Waiting
                                  THEN [flow[c] EXCEPT !.saw = m.of] ELSE flow[c]]
  <2>1. flow' \in [Own -> Flow]
    BY <1>1, <1>5 DEF TypeOK, PageOK, Flow
  <2>2. \A c \in Own : flow'[c].at = flow[c].at /\ flow'[c].initial = flow[c].initial
    BY <1>1, <1>5 DEF TypeOK, PageOK, Flow
  <2>3. FlowInv'
    BY <1>1, <2>2 DEF FlowInv, Open, Workspace, Location, Discovery, Project, Trees, Creations
  <2>4. form' \in Open \cup Shut /\ FormInv'
    BY <1>5 DEF NewSessionInv, TypeOK, PageOK, FormInv, Editing
  <2>. QED BY <1>2, <2>1, <2>3, <2>4 DEF Arrives
<1>6. CASE m.mine /\ m.of \in Waiting
  <2>1. m.of \in Own
    BY <1>6 DEF Waiting
  <2>2. CASE ~m.accepted
    <3>1. form' = Restored(m.of, "failed") /\ flow' = Over(m.of)
      BY <1>6, <2>2 DEF SessionArrives, CreationFails
    <3>2. form' \in Shut
      BY <1>1, <2>1, <3>1, RestoredIs
    <3>. QED BY <1>3, <2>1, <3>1, <3>2
  <2>3. CASE m.accepted
    <3>1. Created(m.of, Told(m.of))
      BY <1>6, <2>3 DEF SessionArrives
    <3>2. CASE flow[m.of].empty
      BY <1>3, <2>1, <3>1, <3>2, FormsAre DEF Created
    <3>3. CASE ~flow[m.of].empty
      BY <1>4, <2>1, <3>1, <3>3 DEF Created
    <3>. QED BY <3>2, <3>3
  <2>. QED BY <2>2, <2>3
<1>7. CASE ~(m.mine /\ m.of \in Waiting)
  BY <1>5, <1>7 DEF SessionArrives
<1>. QED BY <1>6, <1>7

LEMMA DeliverKeeps == ASSUME NewSessionInv, Deliver PROVE NewSessionInv'
<1> DEFINE m == Head(inbox)
<1>1. /\ inbox \in Seq(Message) /\ inbox # <<>> /\ inbox' = Tail(inbox)
      /\ UNCHANGED <<host, up, linked, bounds>>
  BY DEF Deliver, NewSessionInv, TypeOK, WireOK
<1>2. m \in Message /\ inbox' \in Seq(Message)
  BY <1>1
<1>3. Arrives
  <2>1. UNCHANGED <<projects, at>>
    BY <1>1 DEF host, tables
  <2>2. CASE m.kind = "project"
    <3>1. ProjectArrives(m)
      BY <2>2 DEF Deliver
    <3> HIDE DEF m
    <3>. QED BY <1>2, <2>1, <2>2, <3>1, ProjectArrivesKeeps
  <2>3. CASE m.kind # "project"
    <3>1. SessionArrives(m)
      BY <2>3 DEF Deliver
    <3> HIDE DEF m
    <3>. QED BY <1>2, <2>1, <2>3, <3>1, SessionArrivesKeeps
  <2>. QED BY <2>2, <2>3
<1>4. TablesOK' /\ HandlersOK' /\ WireOK' /\ BoundsOK'
  BY <1>1, <1>2 DEF NewSessionInv, TypeOK, TablesOK, HandlersOK, WireOK, BoundsOK, host, tables,
                    bounds
<1>5. PageOK'
  BY <1>3 DEF Arrives, PageOK
<1>6. TypeOK' /\ UNCHANGED <<tables, disk, at, ask, sees>>
  BY <1>1, <1>4, <1>5 DEF TypeOK, host
<1>. QED BY <1>3, <1>6, HostStays DEF Arrives

-----------------------------------------------------------------------------
(* Losses.                                                                 *)

LEMMA LosesIs ==
  ASSUME NewSessionInv, Loses
  PROVE  /\ WireOK' /\ PageOK' /\ FormInv'
         /\ \A c \in Own : flow'[c] # flow[c] =>
              flow[c].at \in {"opening", "waiting"} /\ flow'[c].at = "over"
<1> DEFINE over == [Unused EXCEPT !.at = "over"]
           gone == {c \in Own : flow[c].at \in {"opening", "waiting"}}
<1>1. over \in Flow /\ over.at = "over" /\ TypeOK
  BY FormsAre DEF NewSessionInv
<1>2. /\ up' = FALSE /\ linked' = {} /\ inbox' = <<>> /\ adding' = <<>>
      /\ flow' = [c \in Own |-> IF c \in gone THEN over ELSE flow[c]]
      /\ form' = form \/ \E c \in gone : form' = Restored(c, "failed")
      /\ UNCHANGED <<drafts, lookups, opens>>
  BY DEF Loses
<1> HIDE DEF over
<1>3. WireOK'
  <2>1. up' = FALSE /\ linked' = {} /\ inbox' = <<>>
    BY <1>2
  <2>2. inbox' \in Seq(Message)
    BY <2>1
  <2>. QED BY <2>1, <2>2 DEF WireOK
<1>4. flow' \in [Own -> Flow]
  BY <1>1, <1>2 DEF TypeOK, PageOK
<1>5. form' = form \/ form' \in Shut
  BY <1>1, <1>2, RestoredIs
<1>6. FormInv'
  BY <1>5, ShutForm DEF NewSessionInv, FormInv, Editing, Trees, Creations
<1>7. PageOK'
  <2>1. adding' \in Seq(Pending)
    BY <1>2
  <2>. QED BY <1>1, <1>2, <1>4, <1>5, <2>1 DEF TypeOK, PageOK
<1>8. \A c \in Own : flow'[c] # flow[c] =>
        flow[c].at \in {"opening", "waiting"} /\ flow'[c].at = "over"
  BY <1>1, <1>2
<1>. QED BY <1>3, <1>6, <1>7, <1>8

\* What handlers are lost with, nobody has answered.
LEMMA VanishKeeps ==
  ASSUME NewSessionInv, Loses, Mishap, NEW lost \in SUBSET Creations, Vanish(lost),
         \A c \in lost : at[c] \notin {"none", "accepted"},
         UNCHANGED <<tables, disk>>, asked' \subseteq Request
  PROVE  NewSessionInv'
<1>1. /\ at' = [c \in Creations |-> IF c \in lost THEN "lost" ELSE at[c]]
      /\ ask' = [c \in Creations |-> IF c \in lost THEN Unasked ELSE ask[c]]
      /\ sees' = [c \in Creations |-> IF c \in lost THEN {} ELSE sees[c]]
  BY DEF Vanish
<1>2. "lost" \in Places /\ "lost" \in Past /\ Unasked \in Command
  BY WorkspacesAre DEF Places, Past
<1>3. /\ \A c \in Creations : c \notin lost => at'[c] = at[c] /\ ask'[c] = ask[c]
      /\ \A c \in lost : at'[c] = "lost"
      /\ \A c \in Creations : sees'[c] \subseteq sees[c]
      /\ \A c \in Creations : at[c] \in Past => at'[c] \in Past
  BY <1>1, <1>2
<1>4. TypeOK'
  <2>1. BoundsOK'
    BY CountedIs DEF NewSessionInv, Loses
  <2>2. HandlersOK'
    BY <1>1, <1>2 DEF NewSessionInv, TypeOK, HandlersOK
  <2>3. TablesOK'
    BY DEF NewSessionInv, TypeOK, TablesOK, tables
  <2>. QED BY <2>1, <2>2, <2>3, LosesIs DEF TypeOK
<1>5. CommandInv'
  <2>1. \A c \in Creations :
          /\ at'[c] \in {"listing", "adding", "added", "selecting"} => ask'[c].worktree # "local"
          /\ at'[c] \in {"adding", "added"} => ask'[c].worktree = "new"
          /\ at'[c] = "selecting" => ask'[c].worktree # "new"
    BY <1>3 DEF NewSessionInv, CommandInv
  <2>. QED BY <2>1 DEF CommandInv, Creations
<1>6. SeenInv'
  <2>1. \A c, d \in Creations : c \in sees'[d] => at'[c] \in Past
    BY <1>3 DEF NewSessionInv, SeenInv
  <2>2. \A c \in Creations : c \in disk' => at'[c] \in Past
    BY <1>3 DEF NewSessionInv, SeenInv
  <2>3. \A w \in workspaces' : w.path \in Creations => at'[w.path] \in Past
    BY <1>3 DEF NewSessionInv, SeenInv, tables
  <2>. QED BY <2>1, <2>2, <2>3 DEF SeenInv, Creations
<1>7. TreeInv'
  <2> SUFFICES ASSUME NEW c \in Creations
               PROVE  /\ at'[c] = "added" => c \in disk'
                      /\ at'[c] = "rejected" => c \notin disk'
                      /\ at'[c] = "accepted" => (c \in disk' <=> session'[c].workspace = Managed(c))
                      /\ at'[c] # "accepted" => session'[c] = Absent
    BY DEF TreeInv, Creations, Absent, NoWorkspace, Managed
  <2>1. CASE c \in lost
    BY <1>3, <2>1 DEF NewSessionInv, TreeInv, tables
  <2>2. CASE c \notin lost
    BY <1>3, <2>2 DEF NewSessionInv, TreeInv, tables
  <2>. QED BY <2>1, <2>2
<1>8. FlowInv'
  <2>1. \A c \in Own : at[c] = "none" => at'[c] = "none"
    BY <1>3 DEF Creations
  <2>2. \A c \in Own : /\ flow'[c].at \in {"none", "opening"} => at'[c] = "none"
                       /\ flow'[c].at = "opening" => flow'[c].initial \in Open
    BY <2>1, LosesIs DEF NewSessionInv, FlowInv
  <2>. QED BY <2>2 DEF FlowInv, Open, Workspace, Location, Discovery, Project, Trees, Creations
<1>9. RowsInv' /\ ScopeInv'
  BY DEF NewSessionInv, RowsInv, ScopeInv, tables, Creations, Id, NoWorkspace
<1>. QED BY <1>4, <1>5, <1>6, <1>7, <1>8, <1>9, LosesIs DEF NewSessionInv

LEMMA DropKeeps == ASSUME NewSessionInv, Drop PROVE NewSessionInv'
<1>1. PICK lost \in SUBSET {c \in linked : at[c] = "sent"} : Vanish(lost)
  BY DEF Drop
<1>2. lost \in SUBSET Creations /\ \A c \in lost : at[c] \notin {"none", "accepted"}
  BY DEF NewSessionInv, TypeOK, WireOK, Creations
<1>3. asked' \subseteq Request
  <2>1. asked' = {[a EXCEPT !.mine = FALSE, !.valid = a.valid /\ ~a.mine] : a \in asked}
    BY DEF Drop
  <2>2. \A a \in Request : (a.valid /\ ~a.mine) \in BOOLEAN
    BY DEF Request
  <2>3. \A a \in Request : [a EXCEPT !.mine = FALSE, !.valid = a.valid /\ ~a.mine] \in Request
    BY <2>2 DEF Request
  <2>. QED BY <2>1, <2>3 DEF NewSessionInv, TypeOK, HandlersOK
<1>. QED BY <1>1, <1>2, <1>3, VanishKeeps DEF Drop

LEMMA HostLostKeeps == ASSUME NewSessionInv, HostLost PROVE NewSessionInv'
<1> DEFINE lost == {c \in Creations : at[c] \notin Decided \cup {"none", "leaked"}}
<1>1. lost \in SUBSET Creations /\ \A c \in lost : at[c] \notin {"none", "accepted"}
  BY DEF Decided
<1>2. Vanish(lost) /\ Loses /\ Mishap /\ asked' = {} /\ UNCHANGED <<tables, disk>>
  BY DEF HostLost
<1> HIDE DEF lost
<1>. QED BY <1>1, <1>2, VanishKeeps

LEMMA ConnectKeeps == ASSUME NewSessionInv, Connect PROVE NewSessionInv'
<1>1. UNCHANGED <<host, linked, inbox, page, bounds>> /\ up' = TRUE
  BY DEF Connect
<1>2. TypeOK' /\ UNCHANGED <<tables, disk, at, ask, sees, flow>>
  BY <1>1 DEF NewSessionInv, TypeOK, TablesOK, HandlersOK, WireOK, PageOK, BoundsOK, host, tables,
              page, bounds
<1>3. FlowInv' /\ FormInv'
  BY <1>1, <1>2, FlowStays DEF NewSessionInv, FormInv, Editing, page
<1>. QED BY <1>2, <1>3, HostStays

-----------------------------------------------------------------------------
(* The specification.                                                      *)

LEMMA NewSessionInit == Init => NewSessionInv
<1> SUFFICES ASSUME Init PROVE NewSessionInv
  OBVIOUS
<1>1. PICK p \in Directories : projects = {p}
  BY DEF Init
<1>2. workspaces = {Checkout(p)} /\ Checkout(p) \in Row /\ Checkout(p).path = p
  BY <1>1, CheckoutIs DEF Init
<1>3. TablesOK
  BY <1>1, <1>2, WorkspacesAre DEF Init, TablesOK
<1>4. HandlersOK
  BY Names, WorkspacesAre DEF Init, HandlersOK, Places
<1>5. WireOK
  BY DEF Init, WireOK
<1>6. PageOK
  BY FormsAre DEF Init, PageOK
<1>7. BoundsOK
  BY CreationsAssumption DEF CreationsAssumption, Init, BoundsOK
<1>8. CommandInv /\ TreeInv
  BY DEF Init, CommandInv, TreeInv
<1>9. SeenInv
  <2>1. \A c \in Creations : c \notin disk
    BY Names DEF Init
  <2>. QED BY <1>2, <2>1, Names DEF Init, SeenInv
<1>10. FlowInv
  BY FormsAre DEF Init, FlowInv, Creations
<1>11. RowsInv /\ ScopeInv
  BY <1>2, WorkspacesAre, CheckoutIs DEF Init, RowsInv, ScopeInv
<1>12. FormInv
  BY FormsAre, Names DEF Init, FormInv
<1>. QED BY <1>3, <1>4, <1>5, <1>6, <1>7, <1>8, <1>9, <1>10, <1>11, <1>12
         DEF NewSessionInv, TypeOK

LEMMA NewSessionStep == NewSessionInv /\ [Next]_vars => NewSessionInv'
<1> SUFFICES ASSUME NewSessionInv, [Next]_vars PROVE NewSessionInv'
  OBVIOUS
<1>1. CASE OpenNewSession
  BY <1>1, OpenNewSessionKeeps
<1>2. CASE FormOpens
  BY <1>2, FormOpensKeeps
<1>3. CASE OpenSession
  BY <1>3, OpenSessionKeeps
<1>4. CASE \E p \in projects \cup {None}, id \in Ids : SetScope(p, id)
  BY <1>4, SetScopeKeeps
<1>5. CASE \E l \in lookups : Discovered(l) \/ DiscoveryFails(l)
  BY <1>5, DiscoveredKeeps
<1>6. CASE \E where \in {"local", "new"} \cup Trees : SetLocation(where)
  BY <1>6, SetLocationKeeps
<1>7. CASE \E d \in Directories : OtherAdds(d) \/ \E valid \in BOOLEAN : AddProject(d, valid)
  BY <1>7, OtherAddsKeeps, AddProjectKeeps
<1>8. CASE AddTimeout \/ \E a \in asked : Adds(a)
  BY <1>8, AddTimeoutKeeps, AddsKeeps
<1>9. CASE \E c \in Own, empty \in BOOLEAN : Submit(c, empty)
  BY <1>9, SubmitKeeps
<1>10. CASE \E c \in Own : Send(c) \/ Timeout(c)
  BY <1>10, SendKeeps, TimeoutKeeps
<1>11. CASE \E c \in Own, accepted \in BOOLEAN : RunEnds(c, accepted)
  BY <1>11, RunEndsKeeps
<1>12. CASE Deliver
  BY <1>12, DeliverKeeps
<1>13. CASE \E c \in Others, a \in Asks : OtherCreates(c, a)
  BY <1>13, OtherCreatesKeeps
<1>14. CASE \E c \in Creations :
              Begin(c) \/ Refuse(c) \/ List(c) \/ AddTree(c) \/ Finish(c) \/ CleanUp(c)
  BY <1>14, BeginKeeps, RefuseKeeps, ListKeeps, AddTreeKeeps, FinishKeeps, CleanUpKeeps
<1>15. CASE Drop \/ HostLost \/ Connect
  BY <1>15, DropKeeps, HostLostKeeps, ConnectKeeps
<1>16. CASE UNCHANGED vars
  <2>1. TypeOK' /\ UNCHANGED <<tables, disk, at, ask, sees, flow, form>>
    BY <1>16 DEF vars, NewSessionInv, TypeOK, TablesOK, HandlersOK, WireOK, PageOK, BoundsOK,
                 host, tables, wire, page, bounds
  <2>2. FlowInv' /\ FormInv'
    BY <2>1, FlowStays DEF NewSessionInv, FormInv, Editing
  <2>. QED BY <2>1, <2>2, HostStays
<1>. QED BY <1>1, <1>2, <1>3, <1>4, <1>5, <1>6, <1>7, <1>8, <1>9, <1>10, <1>11, <1>12, <1>13,
            <1>14, <1>15, <1>16 DEF Next

\* The variables keep their types, the worktrees go with their Sessions, and the
\* tables and the form stay within their Projects.
THEOREM NewSessionInvCorrect == Spec => []NewSessionInv
BY NewSessionInit, NewSessionStep, PTL DEF Spec

\* A creation that was answered has its managed worktree on disk exactly when its
\* Session works in it.
THEOREM TreeIffSessionCorrect == Spec => []TreeIffSession
<1>1. NewSessionInv => TreeIffSession
  <2> SUFFICES ASSUME NewSessionInv, NEW c \in Creations, at[c] \in Decided
               PROVE  c \in disk <=> /\ session[c] # Absent
                                     /\ session[c].workspace = Id(Worktree(c, session[c].project))
    BY DEF TreeIffSession
  <2>1. Id(Worktree(c, session[c].project)) = Managed(c)
    BY DEF Id, Worktree, Managed
  <2>2. CASE at[c] = "rejected"
    BY <2>2 DEF NewSessionInv, TreeInv
  <2>3. CASE at[c] = "accepted"
    <3>1. session[c] = Absent => session[c].workspace # Managed(c)
      BY WorkspacesAre
    <3>. QED BY <2>1, <2>3, <3>1 DEF NewSessionInv, TreeInv
  <2>. QED BY <2>2, <2>3 DEF Decided
<1>. QED BY <1>1, NewSessionInvCorrect, PTL

\* Sessions of different Projects work in one directory only where it is the own
\* directory of one of them.
THEOREM WorktreesAreNotSharedCorrect == Spec => []WorktreesAreNotShared
<1>1. NewSessionInv => WorktreesAreNotShared
  <2> SUFFICES ASSUME NewSessionInv, NEW s \in Creations, NEW t \in Creations,
                      session[s] # Absent, session[t] # Absent,
                      WorkingDirectory(s) = WorkingDirectory(t),
                      WorkingDirectory(s) # session[s].project,
                      WorkingDirectory(t) # session[t].project
               PROVE  session[s].project = session[t].project
    BY DEF WorktreesAreNotShared
  <2>1. ASSUME NEW c \in Creations, session[c] # Absent,
               WorkingDirectory(c) # session[c].project
        PROVE  \E w \in workspaces : /\ Id(w) = session[c].workspace
                                     /\ w.project = session[c].project
                                     /\ ~w.own /\ w.path = WorkingDirectory(c)
    <3>1. session[c].workspace # NoWorkspace
      BY <2>1 DEF WorkingDirectory
    <3>2. PICK w \in workspaces : Id(w) = session[c].workspace /\ w.project = session[c].project
      BY <2>1, <3>1 DEF NewSessionInv, ScopeInv
    <3>3. w.path = WorkingDirectory(c) /\ (w.own => w.path = w.project)
      BY <3>1, <3>2, WorkspacesAre DEF NewSessionInv, RowsInv, Id, WorkingDirectory
    <3>. QED BY <2>1, <3>2, <3>3
  <2>2. PICK v \in workspaces : /\ Id(v) = session[s].workspace
                                /\ v.project = session[s].project
                                /\ ~v.own /\ v.path = WorkingDirectory(s)
    BY <2>1
  <2>3. PICK w \in workspaces : /\ Id(w) = session[t].workspace
                                /\ w.project = session[t].project
                                /\ ~w.own /\ w.path = WorkingDirectory(t)
    BY <2>1
  <2>4. v.own = w.own /\ v.path = w.path
    BY <2>2, <2>3 DEF NewSessionInv, TypeOK, TablesOK, Row
  <2>5. Id(v) = Id(w)
    BY <2>4 DEF Id
  <2>. QED BY <2>2, <2>3, <2>5 DEF NewSessionInv, RowsInv
<1>. QED BY <1>1, NewSessionInvCorrect, PTL

\* What the form offers was found for the Project it shows.
THEOREM OffersItsProjectCorrect == Spec => []OffersItsProject
<1>1. NewSessionInv => OffersItsProject
  BY DEF NewSessionInv, FormInv, OffersItsProject
<1>. QED BY <1>1, NewSessionInvCorrect, PTL
=============================================================================
