----------------------------- MODULE NewSession -----------------------------
(***************************************************************************)
(* The New Session form of the PWA and the creations it and another Client *)
(* submit: the form's discovery of worktrees, the command over the control *)
(* socket, the Host's handler, which runs git between its checks and its   *)
(* transaction, and the first Run, which the page submits to the Session   *)
(* it was told of.                                                         *)
(*                                                                         *)
(* A Project is its directory.  A creation c names the Session it makes    *)
(* and the managed worktree it adds.  All directories that are git         *)
(* worktrees are worktrees of one repository.                              *)
(***************************************************************************)
EXTENDS Naturals, Sequences, FiniteSets, SequencesExt

CONSTANTS Directories,
          Own, Others,  \* creations of this page, and of another Client
          MaxForms,     \* forms opened, scopes chosen and Projects added
          MaxMishaps    \* sockets lost, timeouts, failures and losses of the Host

Creations == Own \union Others
Trees == Directories \union Creations
None == "none"

ASSUME CreationsAssumption ==
  /\ MaxForms \in Nat /\ MaxMishaps \in Nat
  /\ Own \cap Others = {} /\ Directories \cap Creations = {}
  /\ {None, "local", "new"} \cap Trees = {}

VARIABLES
  projects, workspaces, \* the tables of the Host
  session,    \* creation -> [project, workspace] of its Session, or Absent
  disk,       \* the worktrees git lists
  at,         \* creation -> where its command is
  ask,        \* creation -> what its command says
  sees,       \* creation -> the worktrees its handler has listed
  asked,      \* the project.add commands the Host has not decided
  up,         \* the page's socket is open
  linked,     \* the page's commands that came on this socket
  inbox,      \* the messages on it, oldest first
  form,       \* newSession, or NoForm
  drafts,     \* openNewSession waiting for the draft
  lookups,    \* worktree discoveries under way
  adding,     \* the page's project.add: its directory and the Project it was shown
  flow,       \* submitNewSession -> where it waits, and what it captured
  opens, mishaps

tables == <<projects, workspaces, session>>
host == <<tables, disk, at, ask, sees, asked>>
wire == <<up, linked, inbox>>
page == <<form, drafts, lookups, adding, flow>>
bounds == <<opens, mishaps>>
vars == <<host, wire, page, bounds>>

NoWorkspace == [own |-> FALSE, path |-> None]
Absent == [project |-> "absent", workspace |-> NoWorkspace]
NoForm == [project |-> None, progress |-> None]
Idle == [phase |-> "idle", of |-> None, trees |-> {}]
Blank == [project |-> None, workspace |-> NoWorkspace, location |-> "local",
          discovery |-> Idle, progress |-> "editing"]
Unused == [at |-> "none", initial |-> NoForm, empty |-> FALSE, saw |-> None]
Unasked == [project |-> None, workspace |-> NoWorkspace, worktree |-> "local"]
Decided == {"accepted", "rejected"}
Editing == form.progress = "editing"

\* A workspace is the checkout of its Project or a git worktree, known by its path.
Id(w) == [own |-> w.own, path |-> w.path]
Worktree(path, p) == [own |-> FALSE, path |-> path, project |-> p]
Checkout(p) == [own |-> TRUE, path |-> p, project |-> p]
Ids == {Id(w) : w \in workspaces} \union {NoWorkspace}

\* The form has just been opened, and one Project has been added.
Init ==
  /\ projects \in {{d} : d \in Directories}
  /\ workspaces = {Checkout(p) : p \in projects}
  /\ session = [c \in Creations |-> Absent]
  /\ disk \in SUBSET Directories \ {{}}
  /\ at = [c \in Creations |-> "none"] /\ ask = [c \in Creations |-> Unasked]
  /\ sees = [c \in Creations |-> {}] /\ asked = {}
  /\ up = TRUE /\ linked = {} /\ inbox = <<>>
  /\ form = Blank /\ drafts = 0 /\ lookups = {} /\ adding = <<>>
  /\ flow = [c \in Own |-> Unused]
  /\ opens = 0 /\ mishaps = 0

Mishap == mishaps < MaxMishaps /\ mishaps' = mishaps + 1
Counted == opens < MaxForms /\ opens' = opens + 1

-----------------------------------------------------------------------------
(* The form. *)

OpenNewSession ==
  /\ Counted /\ drafts' = drafts + 1
  /\ UNCHANGED <<host, wire, form, lookups, adding, flow, mishaps>>

\* The draft is here.
FormOpens ==
  /\ drafts > 0 /\ drafts' = drafts - 1
  /\ form' = Blank
  /\ UNCHANGED <<host, wire, lookups, adding, flow, bounds>>

\* The user opens any Session, and leaves the form.
OpenSession ==
  /\ form # NoForm /\ \E s \in Creations : session[s] # Absent
  /\ form' = NoForm
  /\ UNCHANGED <<host, wire, drafts, lookups, adding, flow, bounds>>

\* The form for a Project: another Project clears what was chosen for the last.
Scoped(p, id) ==
  LET chosen == IF p = form.project THEN [form EXCEPT !.workspace = id]
                ELSE [Blank EXCEPT !.project = p]
  IN IF p = None THEN chosen ELSE [chosen EXCEPT !.discovery = [Idle EXCEPT !.phase = "loading"]]

\* setNewSessionScope, up to its await.
Scopes(p, id) ==
  /\ form' = Scoped(p, id)
  /\ lookups' = IF p = None THEN lookups
                ELSE lookups \union {[n |-> opens, of |-> p]}

SetScope(p, id) ==
  /\ Editing /\ Counted /\ p \in projects \union {None} /\ id \in Ids
  /\ p # form.project => id = NoWorkspace
  /\ Scopes(p, id)
  /\ UNCHANGED <<host, wire, drafts, adding, flow, mishaps>>

\* The Host's catalog for a Project: every worktree of the repository but its own checkout.
Available(p) == p \in disk
Catalog(p) == IF Available(p) THEN disk \ {p} ELSE {}

\* After the await: is the form still one that asked for this?
AnswersAnyForm(l) == Editing
Answers(l) == Editing /\ form.project = l.of

Discover(l, phase, trees) ==
  /\ lookups' = lookups \ {l}
  /\ form' = IF Answers(l)
             THEN [form EXCEPT !.discovery = [phase |-> phase, of |-> l.of, trees |-> trees]]
             ELSE form
  /\ UNCHANGED <<host, wire, drafts, adding, flow, opens>>
Discovered(l) ==
  /\ Discover(l, IF Available(l.of) THEN "ready" ELSE "unavailable", Catalog(l.of))
  /\ UNCHANGED mishaps
DiscoveryFails(l) == Mishap /\ Discover(l, "failed", {})

SetLocation(where) ==
  /\ Editing /\ where # form.location
  /\ where # "local" => form.discovery.phase = "ready"
  /\ where \in {"local", "new"} \union form.discovery.trees
  /\ form' = [form EXCEPT !.workspace = NoWorkspace, !.location = where]
  /\ UNCHANGED <<host, wire, drafts, lookups, adding, flow, bounds>>

-----------------------------------------------------------------------------
(* Projects added from a directory of the Host. *)

\* The picker has browsed to d: its token is of this socket, or of one that is gone.
Browsed(valid) == IF valid THEN UNCHANGED mishaps ELSE Mishap

AddProject(d, valid) ==
  /\ up /\ adding = <<>> /\ Counted /\ Browsed(valid)
  /\ adding' = <<[dir |-> d, saw |-> None]>>
  /\ asked' = asked \union {[dir |-> d, mine |-> TRUE, valid |-> valid]}
  /\ UNCHANGED <<tables, disk, at, ask, sees, wire, form, drafts, lookups, flow>>

\* An outcome goes to the socket of the command, a change to every socket.
Says(kind, of, accepted, mine) ==
  inbox' = IF up /\ (accepted \/ mine)
           THEN Append(inbox, [kind |-> kind, of |-> of, accepted |-> accepted, mine |-> mine])
           ELSE inbox

Known(d) == d \in projects \/ \E w \in workspaces : w.path = d
HostAdds(a) ==
  LET new == a.valid /\ ~Known(a.dir) IN
  /\ asked' = asked \ {a}
  /\ projects' = IF new THEN projects \union {a.dir} ELSE projects
  /\ workspaces' = IF new THEN workspaces \union {Checkout(a.dir)} ELSE workspaces
  /\ Says("project", a.dir, new, a.mine)
  /\ UNCHANGED <<session, disk, at, ask, sees, up, linked>>
Adds(a) == a \in asked /\ HostAdds(a) /\ UNCHANGED <<page, bounds>>
OtherAdds(d) ==
  /\ Counted /\ HostAdds([dir |-> d, mine |-> FALSE, valid |-> TRUE])
  /\ UNCHANGED <<page, mishaps>>

\* addProject takes the last Project it was shown for its own, and the picker
\* chooses it on the form.
ProjectArrives(m) ==
  /\ IF adding = <<>> THEN UNCHANGED <<form, lookups, adding>>
     ELSE IF ~m.accepted THEN adding' = (IF m.mine THEN <<>> ELSE adding) /\ UNCHANGED <<form, lookups>>
     ELSE IF ~m.mine THEN adding' = <<[adding[1] EXCEPT !.saw = m.of]>> /\ UNCHANGED <<form, lookups>>
     ELSE LET p == IF adding[1].saw = None THEN m.of ELSE adding[1].saw IN
          /\ adding' = <<>>
          /\ IF Editing THEN Scopes(p, Id(Checkout(p))) ELSE UNCHANGED <<form, lookups>>
  /\ UNCHANGED <<drafts, flow>>

\* Its answer, if it comes, is nobody's.
AddTimeout ==
  /\ Mishap /\ adding # <<>> /\ adding' = <<>>
  /\ asked' = {[a EXCEPT !.mine = FALSE] : a \in asked}
  /\ inbox' = [i \in DOMAIN inbox |-> [inbox[i] EXCEPT !.mine = @ /\ inbox[i].kind # "project"]]
  /\ UNCHANGED <<tables, disk, at, ask, sees, up, linked, form, drafts, lookups, flow, opens>>

-----------------------------------------------------------------------------
(* submitNewSession. *)

Submit(c, empty) ==
  /\ flow[c] = Unused /\ Editing /\ up
  /\ flow' = [flow EXCEPT ![c] = [Unused EXCEPT !.at = "opening", !.initial = form, !.empty = empty]]
  /\ form' = [project |-> form.project, progress |-> "creating"]
  /\ UNCHANGED <<host, wire, drafts, lookups, adding, bounds>>

\* The journal has it reserved, and the socket is synchronized.
Send(c) ==
  /\ flow[c].at = "opening" /\ up
  /\ flow' = [flow EXCEPT ![c].at = "waiting"]
  /\ linked' = linked \union {c} /\ at' = [at EXCEPT ![c] = "sent"]
  /\ ask' = [ask EXCEPT ![c] = [project |-> flow[c].initial.project,
                                workspace |-> flow[c].initial.workspace,
                                worktree |-> flow[c].initial.location]]
  /\ UNCHANGED <<tables, disk, sees, asked, up, inbox, form, drafts, lookups, adding, bounds>>

\* Whatever the form is now, it becomes again the one that was submitted, of
\* which only the Project still matters.
Restored(c, progress) == [project |-> flow[c].initial.project, progress |-> progress]
Over(c) == [flow EXCEPT ![c] = [Unused EXCEPT !.at = "over"]]
CreationFails(c) ==
  /\ form' = Restored(c, "failed") /\ flow' = Over(c)

\* createSession has its outcome and a Session.
Created(c, s) ==
  IF flow[c].empty
  THEN form' = NoForm /\ flow' = Over(c)
  ELSE /\ form' = Restored(c, "submitting")
       /\ flow' = [flow EXCEPT ![c].at = "submitting", ![c].saw = s]

\* The Session a waiting createSession answers with: one it saw before its
\* outcome, or else the one that comes with it.
Told(c) == IF flow[c].saw = None THEN c ELSE flow[c].saw
Waiting == {c \in Own : flow[c].at = "waiting"}

SessionArrives(m) ==
  /\ IF m.mine /\ m.of \in Waiting
     THEN IF m.accepted THEN Created(m.of, Told(m.of)) ELSE CreationFails(m.of)
     ELSE flow' = [c \in Own |-> IF m.accepted /\ c \in Waiting THEN [flow[c] EXCEPT !.saw = m.of] ELSE flow[c]]
          /\ UNCHANGED form
  /\ UNCHANGED <<drafts, lookups, adding>>

Deliver ==
  /\ inbox # <<>> /\ inbox' = Tail(inbox)
  /\ IF Head(inbox).kind = "project" THEN ProjectArrives(Head(inbox)) ELSE SessionArrives(Head(inbox))
  /\ UNCHANGED <<host, up, linked, bounds>>

Timeout(c) ==
  /\ Mishap /\ flow[c].at \in {"opening", "waiting"} /\ CreationFails(c)
  /\ UNCHANGED <<host, wire, drafts, lookups, adding, opens>>

\* submitRun is answered, or given up.
RunEnds(c, accepted) ==
  /\ flow[c].at = "submitting"
  /\ form' = IF accepted THEN NoForm ELSE Restored(c, "finished")
  /\ flow' = Over(c)
  /\ UNCHANGED <<host, wire, drafts, lookups, adding, bounds>>

-----------------------------------------------------------------------------
(* handleSessionCreate. *)

OtherCreates(c, a) ==
  /\ c \in Others /\ at[c] = "none"
  /\ at' = [at EXCEPT ![c] = "sent"] /\ ask' = [ask EXCEPT ![c] = a]
  /\ UNCHANGED <<tables, disk, sees, asked, wire, page, bounds>>

\* The handler is over, and what it held is garbage.
Ends(c, verdict) ==
  /\ at' = [at EXCEPT ![c] = verdict]
  /\ ask' = [ask EXCEPT ![c] = Unasked] /\ sees' = [sees EXCEPT ![c] = {}]
  /\ Says("session", c, verdict = "accepted", c \in linked)

\* createSession of the store: the worktree's row, then the scope it must fit.
Target(c) == IF ask[c].worktree = "new" THEN c ELSE ask[c].worktree
Rows(c) ==
  IF ask[c].worktree = "local" THEN workspaces
  ELSE workspaces \union {Worktree(Target(c), ask[c].project)}
Conflict(c) == \E v, w \in Rows(c) : Id(v) = Id(w) /\ v # w
Chosen(c) ==
  IF ask[c].worktree = "local" THEN ask[c].workspace ELSE Id(Worktree(Target(c), ask[c].project))
InScopeAnyProject(c) == Chosen(c) = NoWorkspace \/ Chosen(c) \in {Id(w) : w \in Rows(c)}
InScope(c) ==
  /\ ask[c].project \in projects \union {None}
  /\ Chosen(c) # NoWorkspace => \E w \in Rows(c) : Id(w) = Chosen(c) /\ w.project = ask[c].project

Commits(c) ==
  /\ ~Conflict(c) /\ InScope(c)
  /\ workspaces' = Rows(c)
  /\ session' = [session EXCEPT ![c] = [project |-> ask[c].project, workspace |-> Chosen(c)]]
  /\ Ends(c, "accepted")
  /\ UNCHANGED <<projects, disk>>

\* A throw: a handler that has added its worktree removes it before it answers.
FailsAtOnce(c) == Ends(c, "rejected")
GoesOn(c, step) == at' = [at EXCEPT ![c] = step] /\ UNCHANGED <<ask, sees, inbox>>
Fails(c) == IF at[c] = "added" THEN GoesOn(c, "cleaning") ELSE Ends(c, "rejected")

Store(c) ==
  \/ Commits(c) /\ UNCHANGED mishaps
  \/ /\ Fails(c) /\ UNCHANGED <<tables, disk>>
     /\ IF Conflict(c) \/ ~InScope(c) THEN UNCHANGED mishaps ELSE Mishap

Begin(c) ==
  /\ at[c] = "sent"
  /\ IF ask[c].worktree = "local" THEN Store(c)
     ELSE /\ IF ask[c].project \in projects THEN GoesOn(c, "listing") ELSE Fails(c)
          /\ UNCHANGED <<tables, disk, mishaps>>
  /\ UNCHANGED <<asked, up, linked, page, opens>>

\* Storage is short, or the socket is not synchronized yet.
Refuse(c) ==
  /\ Mishap /\ at[c] = "sent" /\ Ends(c, "rejected")
  /\ UNCHANGED <<tables, disk, asked, up, linked, page, opens>>

List(c) ==
  /\ at[c] = "listing"
  /\ IF Available(ask[c].project)
     THEN /\ at' = [at EXCEPT ![c] = IF ask[c].worktree = "new" THEN "adding" ELSE "selecting"]
          /\ sees' = [sees EXCEPT ![c] = Catalog(ask[c].project)] /\ UNCHANGED <<ask, inbox>>
     ELSE Fails(c)
  /\ UNCHANGED <<tables, disk, asked, up, linked, page, bounds>>

\* git worktree add
AddTree(c) ==
  /\ at[c] = "adding"
  /\ \/ disk' = disk \union {c} /\ GoesOn(c, "added") /\ UNCHANGED mishaps
     \/ Mishap /\ Fails(c) /\ UNCHANGED disk
  /\ UNCHANGED <<tables, asked, up, linked, page, opens>>

\* git is done: the handler goes on to its transaction in one turn.
Finish(c) ==
  /\ \/ at[c] = "added" /\ Store(c)
     \/ /\ at[c] = "selecting"
        /\ IF ask[c].worktree \in sees[c] THEN Store(c)
           ELSE Fails(c) /\ UNCHANGED <<tables, disk, mishaps>>
  /\ UNCHANGED <<asked, up, linked, page, opens>>

\* git worktree remove --force, or its fallback; a failure of both is swallowed.
CleanUp(c) ==
  /\ at[c] = "cleaning"
  /\ \/ disk' = disk \ {c} /\ Ends(c, "rejected")
     \/ Ends(c, "leaked") /\ UNCHANGED disk
  /\ UNCHANGED <<tables, asked, up, linked, page, bounds>>

-----------------------------------------------------------------------------
(* Losses. *)

Vanish(lost) ==
  /\ at' = [c \in Creations |-> IF c \in lost THEN "lost" ELSE at[c]]
  /\ ask' = [c \in Creations |-> IF c \in lost THEN Unasked ELSE ask[c]]
  /\ sees' = [c \in Creations |-> IF c \in lost THEN {} ELSE sees[c]]

\* The socket is gone: what waits on it is uncertain, one flow after another.
Loses ==
  /\ up' = FALSE /\ linked' = {} /\ inbox' = <<>>
  /\ adding' = <<>>
  /\ LET gone == {c \in Own : flow[c].at \in {"opening", "waiting"}} IN
     /\ flow' = [c \in Own |-> IF c \in gone THEN [Unused EXCEPT !.at = "over"] ELSE flow[c]]
     /\ IF gone = {} THEN UNCHANGED form ELSE \E c \in gone : form' = Restored(c, "failed")
  /\ UNCHANGED <<drafts, lookups, opens>>

Drop ==
  /\ up /\ Mishap /\ Loses
  /\ \E lost \in SUBSET {c \in linked : at[c] = "sent"} : Vanish(lost)
  /\ asked' = {[a EXCEPT !.mine = FALSE, !.valid = a.valid /\ ~a.mine] : a \in asked}
  /\ UNCHANGED <<tables, disk>>

HostLost ==
  /\ Mishap /\ Loses
  /\ Vanish({c \in Creations : at[c] \notin Decided \union {"none", "leaked"}})
  /\ asked' = {}
  /\ UNCHANGED <<tables, disk>>

Connect ==
  /\ ~up /\ up' = TRUE
  /\ UNCHANGED <<host, linked, inbox, page, bounds>>

-----------------------------------------------------------------------------

\* What another Client may ask: the Host takes its word for nothing.
Asks ==
  [project : projects, workspace : Ids \ {NoWorkspace}, worktree : {"local"}] \union
  [project : projects, workspace : {NoWorkspace}, worktree : {"new"} \union disk]

Next ==
  \/ OpenNewSession \/ FormOpens
  \/ OpenSession
  \/ \E p \in projects \union {None}, id \in Ids : SetScope(p, id)
  \/ \E l \in lookups : Discovered(l) \/ DiscoveryFails(l)
  \/ \E where \in {"local", "new"} \union Trees : SetLocation(where)
  \/ \E d \in Directories : OtherAdds(d) \/ \E valid \in BOOLEAN : AddProject(d, valid)
  \/ AddTimeout \/ \E a \in asked : Adds(a)
  \/ \E c \in Own, empty \in BOOLEAN : Submit(c, empty)
  \/ \E c \in Own : Send(c) \/ Timeout(c)
  \/ \E c \in Own, accepted \in BOOLEAN : RunEnds(c, accepted)
  \/ Deliver
  \/ \E c \in Others, a \in Asks : OtherCreates(c, a)
  \/ \E c \in Creations :
       Begin(c) \/ Refuse(c) \/ List(c) \/ AddTree(c) \/ Finish(c) \/ CleanUp(c)
  \/ Drop \/ HostLost \/ Connect

Spec == Init /\ [][Next]_vars

\* The directories are alike.
Symmetry == Permutations(Directories)

-----------------------------------------------------------------------------
(* Properties. *)

\* A creation that was answered has its managed worktree on disk exactly when
\* its Session works in it: a rejected one leaves nothing behind, and an
\* accepted one keeps its worktree.
TreeIffSession ==
  \A c \in Creations : at[c] \in Decided =>
    (c \in disk <=> (session[c] # Absent /\ session[c].workspace = Id(Worktree(c, session[c].project))))

\* The directory a Session's worker is started in: its Workspace's, or else its
\* Project's.
WorkingDirectory(s) ==
  IF session[s].workspace = NoWorkspace THEN session[s].project ELSE session[s].workspace.path

\* Sessions of different Projects work in one directory only where it is the own
\* directory of one of them: a worktree, managed or selected, stays with the Project
\* that first used it, whichever Client asks for it by path or by Workspace.
WorktreesAreNotShared ==
  \A s, t \in Creations :
    /\ session[s] # Absent /\ session[t] # Absent
    /\ session[s].project # session[t].project
    /\ WorkingDirectory(s) = WorkingDirectory(t)
    => WorkingDirectory(s) \in {session[s].project, session[t].project}

\* CONTEXT.md:16: a Workspace is "a concrete working copy or execution environment
\* within one project".  A Session may select the worktree that is another
\* Project's own directory; createProjectFromDirectory refuses the converse.
DirectoriesHaveOneProject ==
  \A s, t \in Creations :
    /\ session[s] # Absent /\ session[t] # Absent
    /\ session[s].project # session[t].project
    => WorkingDirectory(s) # WorkingDirectory(t)

\* CONTEXT.md:141: "A managed worktree and a selected existing worktree are both
\* durable Workspaces; either may later be selected by another Session."  The
\* creation that fails removes its worktree, whoever has selected it meanwhile.
SelectedTreesStay ==
  \A s \in Creations : session[s] # Absent /\ WorkingDirectory(s) \in Creations =>
                        WorkingDirectory(s) \in disk

\* What the form offers was found for the Project it shows, however the answers
\* of the Host and the choices of the user cross.
OffersItsProject ==
  Editing =>
    /\ form.discovery.phase = "ready" => form.discovery.of = form.project
    /\ form.location \in Trees => form.project # None /\ form.location # form.project

\* The Run of a form is submitted to the Session the form created.
PromptInItsSession == \A c \in Own : flow[c].at = "submitting" => flow[c].saw = c
=============================================================================
