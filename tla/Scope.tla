---------------------------------- MODULE Scope ----------------------------------
(***************************************************************************)
(* Organization, project, team and iteration: what the user picks, what    *)
(* the preferences file remembers and what the rows show.                  *)
(* crates/app/src/state.rs (set_org, set_project, set_team, the heal_and_  *)
(* load_ chain, load_hierarchy, adopt_spawned), ui.rs (choose_scope,       *)
(* queue_team_switch, start_team_switch, spawn_io, spawn_unbounded) and    *)
(* planner_prefs.rs (choose_available).                                    *)
(*                                                                         *)
(* Every load runs on a clone of the state, one await after the other, and *)
(* any of them may fail; the clone is adopted whole at the end.  The heal  *)
(* steps write the preferences file from the clone, the pickers from the   *)
(* live state, and the application may be killed and started between.     *)
(***************************************************************************)
EXTENDS Integers, Sequences, FiniteSets, Functions

CONSTANTS
  OrgList,     \* the organizations, in the order the server lists them
  ProjectList, \* the projects of each organization
  TeamList,    \* the teams of each <<organization, project>>
  Sprints,     \* the iterations of each <<organization, project, team>>
  None,        \* an empty preference, no rows, nothing picked
  MaxPicks,    \* bound: what the user does
  MaxFaults,   \* bound: loads that fail
  MaxRestarts  \* bound: the application is killed and started again

VARIABLES
  live,    \* the PlannerState shown; marks: what went wrong since its rows were loaded
  file,    \* prefs.json
  io,      \* the job that holds io_busy: its clone and what it has yet to load
  search,  \* the clone of an identity search, which does not hold io_busy
  pending, \* pending_team
  hold,    \* a timer is to end the skeleton
  shown,   \* loading_shown_at is set
  wanted,  \* the team the user last picked, None once another scope is picked
  excuses, \* preferences that a clone has brought back an older state of
  picks, faults, restarts

scopeVars == <<live, file, io, search, pending, hold, shown, wanted, excuses,
               picks, faults, restarts>>
ticks == <<picks, faults, restarts>>

ASSUME ScopeAssumption == MaxPicks \in Nat /\ MaxFaults \in Nat /\ MaxRestarts \in Nat

\* The server answers about what it lists, and lists something at every level.
\* Of an empty list choose_available keeps what was remembered, whatever it is.
Lists(list) == list \in Seq(Range(list)) \ {<<>>} /\ None \notin Range(list)

ASSUME ServerAssumption ==
  /\ Lists(OrgList)
  /\ \A o \in Range(OrgList) : Lists(ProjectList[o])
  /\ DOMAIN TeamList = UNION {{o} \X Range(ProjectList[o]) : o \in Range(OrgList)}
  /\ \A k \in DOMAIN TeamList : Lists(TeamList[k])
  /\ DOMAIN Sprints = UNION {{<<k[1], k[2], t>> : t \in Range(TeamList[k])} : k \in DOMAIN TeamList}
  /\ None \notin DOMAIN TeamList \cup DOMAIN Sprints

Empty == [org |-> None, project |-> None, team |-> None, iter |-> None]

NoJob == [kind |-> "none"]

Picked == picks < MaxPicks /\ picks' = picks + 1

\* scope: nothing unless all three are set
Where(p) == IF None \in {p.org, p.project, p.team} THEN None ELSE <<p.org, p.project, p.team>>

-----------------------------------------------------------------------------
(***************************************************************************)
(* The chain of loads, on a state s.                                       *)
(***************************************************************************)
\* Mutant of Available: a choice that is gone is kept
AvailableOrGone(want, list) == IF list = <<>> \/ want # None THEN want ELSE list[1]

\* choose_available
Available(want, list) ==
  IF list = <<>> \/ want \in Range(list) THEN want ELSE list[1]

\* heal_org, heal_project, heal_team: a choice that changes empties what is below
Refined(p, field, v) ==
  IF p[field] = v THEN p
  ELSE CASE field = "org"     -> [Empty EXCEPT !.org = v]
         [] field = "project" -> [Empty EXCEPT !.org = p.org, !.project = v]
         [] OTHER             -> [p EXCEPT !.team = v, !.iter = None]

\* What a step asks the server about, None when it has nothing to ask
Subject(step, p) ==
  CASE step = "orgs"     -> "all"
    [] step = "projects" -> p.org
    [] step = "teams"    -> IF None \in {p.org, p.project} THEN None ELSE <<p.org, p.project>>
    [] OTHER             -> Where(p)

\* The server answers: to a session, about a project and a team it knows
Known(step, s) ==
  /\ step # "signin" => s.signed
  /\ step = "teams" => Subject(step, s.prefs) \in DOMAIN TeamList
  /\ step \in {"iters", "rows"} => Subject(step, s.prefs) \in DOMAIN Sprints

\* Mutant of Filled: the skeleton stays over the rows
FilledLoading(s, at) == [s EXCEPT !.rows = at, !.marks = @ \ {"failed", "refused", "nowhere", "cloned"}]

\* load_hierarchy answers
Filled(s, at) ==
  [s EXCEPT !.rows = at, !.loading = FALSE, !.marks = @ \ {"failed", "refused", "nowhere", "cloned"}]

\* A step answers: the list is shown, the preference healed
Loaded(step, s) ==
  LET at == Subject(step, s.prefs)
      projects == IF at = None THEN <<>> ELSE ProjectList[at]
      teams    == IF at = None THEN <<>> ELSE TeamList[at]
      iters    == IF at = None THEN {} ELSE Sprints[at]
  IN  CASE step = "orgs"     -> [s EXCEPT !.prefs = Refined(@, "org", Available(@.org, OrgList))]
        [] step = "projects" -> IF at = None THEN [s EXCEPT !.projects = <<>>]
             ELSE [s EXCEPT !.projects = projects,
                            !.prefs = Refined(@, "project", Available(@.project, projects))]
        [] step = "teams"    -> IF at = None THEN [s EXCEPT !.teams = <<>>]
             ELSE [s EXCEPT !.teams = teams, !.marks = @ \ {"stray"},
                            !.prefs = Refined(@, "team", Available(@.team, teams))]
        [] step = "iters"    -> [s EXCEPT !.iters = iters,
             !.prefs.iter = IF at # None /\ @ \notin iters THEN None ELSE @]
        [] OTHER             -> IF at = None THEN [s EXCEPT !.rows = None, !.marks = @ \cup {"nowhere"}]
             ELSE Filled(s, at)

\* set_org, set_project, set_team, up to their first load
Chosen(kind, to, p) ==
  CASE kind = "org"     -> [Empty EXCEPT !.org = to]
    [] kind = "project" -> [Empty EXCEPT !.org = p.org, !.project = to]
    [] OTHER            -> [p EXCEPT !.team = to, !.iter = None]

\* logout
Left(s) == [s EXCEPT !.signed = FALSE, !.projects = <<>>, !.teams = <<>>, !.iters = {}, !.rows = None]

Steps ==
  [login   |-> <<"signin", "orgs", "projects", "teams", "iters", "rows">>,
   org     |-> <<"set", "projects", "teams", "iters", "rows">>,
   project |-> <<"set", "teams", "iters", "rows">>,
   team    |-> <<"set", "iters", "rows">>,
   logout  |-> <<"leave">>,
   other   |-> <<"work">>]

\* A clone taken while the skeleton is up would keep it up; a project that the
\* list of another organization still offers may not be one of this one
Marks(kind, to, s) ==
  (IF s.loading /\ kind # "team" THEN {"cloned"} ELSE {})
  \cup (IF kind = "project" /\ <<s.prefs.org, to>> \notin DOMAIN TeamList THEN {"stray"} ELSE {})

Job(kind, to, s) ==
  [kind |-> kind, to |-> to, todo |-> Steps[kind],
   st |-> [s EXCEPT !.marks = @ \cup Marks(kind, to, s)]]

-----------------------------------------------------------------------------
(***************************************************************************)
(* The user.                                                               *)
(***************************************************************************)
\* The team is not one of the project it is looked for in
Strays(p, t) ==
  LET k == <<p.org, p.project>>
  IN  IF k \in DOMAIN TeamList /\ t \in Range(TeamList[k]) THEN {} ELSE {"stray"}

\* Mutant of Switched: the rows stay until the new ones are there
SwitchedLate(s, t) ==
  [s EXCEPT !.prefs.team = t, !.prefs.iter = None, !.loading = TRUE,
            !.marks = (@ \ {"stray"}) \cup Strays(s.prefs, t)]

\* begin_team_switch
Switched(s, t) ==
  [s EXCEPT !.prefs.team = t, !.prefs.iter = None, !.rows = None, !.loading = TRUE,
            !.marks = (@ \ {"stray"}) \cup Strays(s.prefs, t)]

\* Mutant of StartSwitch: the timer of the switch before still runs
StartSwitchUnderTimer(s, t) ==
  /\ live' = Switched(s, t) /\ io' = Job("team", t, live')
  /\ shown' = TRUE /\ hold' = hold

\* start_team_switch: no timer of an earlier switch may end this skeleton
StartSwitch(s, t) ==
  /\ live' = Switched(s, t) /\ io' = Job("team", t, live')
  /\ shown' = TRUE /\ hold' = FALSE

Picker == live.signed

\* Mutant of PickTeam: a team picked while a job runs is forgotten
PickTeamForgotten(t) ==
  /\ Picked /\ Picker
  /\ t \in Range(live.teams) /\ t # live.prefs.team
  /\ wanted' = t
  /\ IF io # NoJob THEN UNCHANGED <<live, io, pending, shown, hold>>
                 ELSE StartSwitch(live, t) /\ pending' = pending
  /\ UNCHANGED <<file, search, excuses, faults, restarts>>

\* choose_scope "team", queue_team_switch
PickTeam(t) ==
  /\ Picked /\ Picker
  /\ t \in Range(live.teams) /\ t # live.prefs.team
  /\ wanted' = t
  /\ IF io # NoJob THEN pending' = t /\ UNCHANGED <<live, io, shown, hold>>
                 ELSE StartSwitch(live, t) /\ pending' = pending
  /\ UNCHANGED <<file, search, excuses, faults, restarts>>

\* choose_scope "org" and "project", Sign in, Log out, and any job that leaves
\* the scope alone; refused while another runs
Start(kind, to) ==
  /\ Picked /\ io = NoJob
  /\ IF kind = "login" THEN ~live.signed ELSE Picker
  /\ kind = "project" => to \in Range(live.projects)
  /\ io' = Job(kind, to, live)
  /\ wanted' = IF kind = "other" THEN wanted ELSE None
  /\ UNCHANGED <<live, file, search, pending, hold, shown, excuses, faults, restarts>>

\* set_iteration: at once, on the live state, whatever runs
PickIter(i) ==
  /\ Picked /\ Picker
  /\ i \in live.iters \cup {None} /\ i # live.prefs.iter
  /\ live' = [live EXCEPT !.prefs.iter = i]
  /\ file' = live'.prefs
  /\ excuses' = excuses \cup (IF io = NoJob /\ search = None THEN {} ELSE {"picked"})
  /\ UNCHANGED <<io, search, pending, hold, shown, wanted, faults, restarts>>

\* Search, in the form of a Work Item
Search ==
  /\ Picked /\ Picker
  /\ search = None /\ live.rows # None /\ ~live.loading
  /\ search' = live
  /\ UNCHANGED <<live, file, io, pending, hold, shown, wanted, excuses, faults, restarts>>

-----------------------------------------------------------------------------
(***************************************************************************)
(* Jobs, on their clone.                                                   *)
(***************************************************************************)
Next1(s) == io' = [io EXCEPT !.todo = Tail(@), !.st = s]

\* Mutant of Persists: a healed iteration is not written
PersistsTeams(p, q) == file' = IF Where(q) # Where(p) \/ q.org # p.org THEN q ELSE file

\* The heal steps write the file when they change something
Persists(p, q) == file' = IF q # p THEN q ELSE file

\* One await of the chain answers Ok; a heal that changed something persists it
Progress ==
  LET step == Head(io.todo)
      p    == io.st.prefs
  IN  /\ io # NoJob /\ io.todo # <<>>
      /\ CASE step = "set" ->
               LET q == Chosen(io.kind, io.to, p)
               IN  Next1([io.st EXCEPT !.prefs = q]) /\ file' = q
           [] step = "signin" -> Next1([io.st EXCEPT !.signed = TRUE]) /\ file' = file
           [] step = "leave"  -> Next1(Left(io.st)) /\ file' = file
           [] step = "work"   -> Next1(io.st) /\ file' = file
           [] OTHER ->
               /\ Known(step, io.st) \/ Subject(step, p) = None
               /\ LET s == Loaded(step, io.st)
                  IN  Next1(s) /\ Persists(p, s.prefs)
      /\ UNCHANGED <<live, search, pending, hold, shown, wanted, excuses, ticks>>

\* A load fails: the chain ends there, with what it has changed so far
Breaks ==
  LET step == Head(io.todo)
      at   == Subject(step, io.st.prefs)
  IN  /\ io # NoJob /\ io.todo # <<>>
      /\ step \in {"signin", "orgs", "projects", "teams", "iters", "rows"}
      /\ step # "signin" => at # None
      /\ Known(step, io.st) => faults < MaxFaults
      /\ faults' = IF Known(step, io.st) THEN faults + 1 ELSE faults
      /\ \E s \in IF step # "rows" THEN {io.st}
                  ELSE {[io.st EXCEPT !.loading = FALSE],
                        [io.st EXCEPT !.loading = FALSE, !.rows = None]} : \* a backlogs failure
           io' = [io EXCEPT !.todo = <<>>, !.st =
                    [s EXCEPT !.marks = @ \cup {IF Known(step, s) THEN "failed" ELSE "refused"}]]
      /\ UNCHANGED <<live, file, search, pending, hold, shown, wanted, excuses, picks, restarts>>

\* spawn_io ends: adopt the clone, keep the skeleton up for its minimum time,
\* then perhaps send a queued link or a waiting Undo, or else switch to the team
\* that was picked meanwhile
JobEnds(early, more) ==
  LET held == shown /\ ~io.st.loading /\ early
      s    == [io.st EXCEPT !.loading = @ \/ held]
  IN  /\ io # NoJob /\ io.todo = <<>>
      /\ early => shown /\ ~io.st.loading
      /\ more => s.signed
      /\ IF pending # None /\ ~more
           THEN StartSwitch(s, pending) /\ pending' = None
           ELSE /\ live' = s /\ pending' = pending
                /\ io' = IF more THEN Job("other", None, s) ELSE NoJob
                /\ hold' = (hold \/ held) /\ shown' = (shown /\ (io.st.loading \/ held))
      /\ more => picks < MaxPicks
      /\ picks' = IF more THEN picks + 1 ELSE picks
      /\ UNCHANGED <<file, search, wanted, excuses, faults, restarts>>

\* The minimum time is over
Timer ==
  /\ hold
  /\ hold' = FALSE /\ shown' = FALSE
  /\ live' = [live EXCEPT !.loading = FALSE]
  /\ UNCHANGED <<file, io, search, pending, wanted, excuses, ticks>>

\* spawn_unbounded ends: its clone is adopted over whatever has happened since
SearchEnds ==
  /\ search # None
  /\ live' = search /\ search' = None
  /\ excuses' = IF live = search THEN excuses ELSE excuses \cup {"search"}
  /\ UNCHANGED <<file, io, pending, hold, shown, wanted, ticks>>

-----------------------------------------------------------------------------
Fresh(p) ==
  [prefs |-> p, projects |-> <<>>, teams |-> <<>>, iters |-> {}, rows |-> None,
   loading |-> FALSE, signed |-> FALSE, marks |-> {}]

\* PlannerState::new and bootstrap
Boots(p) ==
  /\ live = Fresh(p) /\ file = p
  /\ io = Job("login", None, Fresh(p))
  /\ search = None /\ pending = None /\ hold = FALSE /\ shown = FALSE
  /\ wanted = None /\ excuses = {}

\* The application is killed, perhaps while it writes the preferences, which
\* then cannot be read, and started again
Restart(torn) ==
  LET p == IF torn THEN Empty ELSE file
  IN  /\ restarts < MaxRestarts /\ restarts' = restarts + 1
      /\ torn => io # NoJob
      /\ live' = Fresh(p) /\ file' = p
      /\ io' = Job("login", None, Fresh(p))
      /\ search' = None /\ pending' = None /\ hold' = FALSE /\ shown' = FALSE
      /\ wanted' = None /\ excuses' = {}
      /\ UNCHANGED <<picks, faults>>

ScopeInit == Boots(Empty) /\ picks = 0 /\ faults = 0 /\ restarts = 0

JobStep == Progress \/ Breaks \/ \E early, more \in BOOLEAN : JobEnds(early, more)

ScopeNext ==
  \/ \E t \in UNION {Range(TeamList[k]) : k \in DOMAIN TeamList} : PickTeam(t)
  \/ \E o \in Range(OrgList) : Start("org", o)
  \/ \E p \in UNION {Range(ProjectList[o]) : o \in DOMAIN ProjectList} : Start("project", p)
  \/ \E kind \in {"login", "logout", "other"} : Start(kind, None)
  \/ \E i \in UNION Range(Sprints) \cup {None} : PickIter(i)
  \/ Search \/ SearchEnds
  \/ JobStep \/ Timer
  \/ \E torn \in BOOLEAN : Restart(torn)

ScopeSpec == ScopeInit /\ [][ScopeNext]_scopeVars

\* Requests answer or time out, so jobs go on; timers fire
ScopeFair == WF_scopeVars(JobStep) /\ WF_scopeVars(Timer)

-----------------------------------------------------------------------------
(***************************************************************************)
(* Properties.                                                             *)
(***************************************************************************)
\* The rows shown belong to the organization, project and team shown, so that
\* an edit of a row goes where the row came from.  It fails once a load breaks
\* off between the new scope and its rows.
RowsOfScope == live.rows # None => live.rows = Where(live.prefs) \/ live.marks \cap {"failed", "refused"} # {}

\* When nothing runs, what is remembered is a place on the server: the project
\* is one of the organization, the team one of the project and the iteration
\* one of the team.  Excused are loads that failed, a team picked while another
\* project was loading, which is looked for in the new project, and a project
\* picked from the list of the organization before, whose successor failed to load.
ScopeHealed ==
  io = NoJob /\ live.signed /\ live.marks \cap {"failed", "stray"} = {} =>
    LET p == live.prefs
    IN  /\ p.project \in Range(ProjectList[p.org]) \cup {None}
        /\ p.project # None => p.team \in Range(TeamList[<<p.org, p.project>>]) \cup {None}
        /\ p.iter # None => Where(p) # None /\ p.iter \in Sprints[Where(p)]

\* When nothing runs, the application restarts with the preferences it shows.
\* Excused are an iteration picked while a clone was out, and a search that
\* brought back an older state.
PrefsOnDisk == io = NoJob /\ excuses = {} => file = live.prefs

\* While a team is being switched to, neither rows nor a timer left over from
\* the switch before uncover the old canvas.
SwitchIsCovered ==
  io # NoJob /\ io.kind = "team" /\ "search" \notin excuses => live.loading /\ live.rows = None

\* The team the user picked last, however often and whatever ran meanwhile, is
\* the team that is shown at rest.
PickWins ==
  io = NoJob /\ wanted # None /\ "search" \notin excuses =>
    live.prefs.team = wanted /\ pending = None

\* The skeleton goes away.  It stays when a load failed, when the scope has no
\* team to load, and when a job was cloned in the skeleton's minimum time and
\* ended after it.
SkeletonEnds ==
  live.loading ~> (~live.loading \/ live.marks \cap {"failed", "refused", "nowhere", "cloned"} # {})
=============================================================================
