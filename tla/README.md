# A verification project for ADO Planner

ADO Planner is a desktop Gantt planner for Azure DevOps work items
(`src/crates/`, Rust).  This directory holds TLA+ models of the parts of it
that are hard to test, TLC configurations that check them, and proofs.

The core of the program is *optimistic*: a bar that the user drags moves at
once, its PATCH is queued, several PATCHes may be in flight, and Undo, Redo,
Shift-drags of whole subtrees, timeouts and HTTP 412 answers all meet in the
same few handlers.  Around that core, every other operation is a job on a clone
of the whole state that later replaces it.

## 1. Inventory

| Part | Code | State it keeps | What makes it correct | Module |
|---|---|---|---|---|
| Date-save pipeline | `ui.rs` 9420-9840, `state.rs` 165-240, 1500-2010, 3360-3650 | `nodes`, `date_save_queue`, `date_save_busy`, `shifted_children`, the PATCHes in flight | one PATCH per item; nothing stranded; screen and server agree when idle | `DateSaves` |
| Background work | `ui.rs` 950-1190, `state.rs` 882 | `io_busy`, `pending_*`, a clone of the whole state | adopting a clone loses nothing that happened meanwhile | `SpawnState` and every component with jobs |
| ADO client | `ado-client/src/client.rs`, `hierarchy.rs` | none; the server keeps `rev` | a document is applied at most once, results are truthful, an index removes the relation it was read for, a load in batches shows what the server has | `RevRetry`, `RelationIndex`, `HierarchyLoad` |
| Link saves | `ui.rs` 2394, 9667; `client.rs` 620-673 | `link_save_queue`, the predecessors shown | every queued link is sent or taken back | `LinkSaves` |
| Nudges and bar gestures | `state.rs`, `ui.rs` 10500-10560, `gantt.rs` | `pending_nudge`, `gesture`, an idle timer | a preview is saved, or put back, and stays the right way round | `Preview` |
| Work item form | `form.rs`, `form_layout.rs`, `state.rs`, `ui.rs` | the loaded form, a draft, widgets | what was entered, and only that, is saved | `Form` |
| Create, delete, edits in rows | `state.rs` 2403-2620, 2784-3272 | rows, undo and redo stacks, the toast | history leads to what is shown; what is offered can be done | `Items` |
| History and toasts | `toasts.rs`, `state.rs` | `history`, `toasts` | Undo and Redo start from what is shown; one Undo reverts one move | `DateSaves`, `LinkSaves`, `Items` |
| Team, scope, hierarchy | `state.rs` 700-1140, `ui.rs` 2850-2990 | `prefs.planner`, lists, `nodes`, `pending_team` | the rows belong to the scope shown; loads heal it | `Scope` |
| Cache, preferences | `cache.rs`, `prefs.rs` | two files | what was cached before a sign-out does not come back; the file remembers what is shown | `Session`, `Scope` |
| Session | `ado-session/src/` | tokens in memory, in an encrypted file, their key in the keyring | signed out stays signed out, signed in stays signed in | `Session` |
| Walks over the hierarchy | `dates.rs`, `overlays.rs`, `gantt.rs`, `state.rs` | none | which of them end whatever the hierarchy, and that those find what they promise | `Walks` |
| Gantt view | `gantt.rs` | camera, hover | geometry | - |
| Updater, runtime, shell | `updater.rs`, `runtime.rs`, `main.rs` | a flag | - | - |
| Mock server, legacy Electron program | `ado-mock/`, `src/src/` | - | a test double; superseded | - |

Interactions.  All UI state is owned by one thread (gpui): a handler is atomic,
and the answers of tokio jobs come back as turns of the same thread.  A job
never shares memory with it; it works on a **clone** of the state or of one
save and sends the result over a oneshot.  There are four kinds:

- `spawn_io`/`spawn_state` clone the *whole* `PlannerState`, one at a time
  (`io_busy`), and adopt it when the job ends;
- `spawn_toast_undo` does too, but merges the items it is about;
- `spawn_one_date_save` clones the state for the PATCH but takes only its
  outcome back, any number at a time, one per item (`date_save_busy`);
- `spawn_unbounded` (identity search) adopts its clone without `io_busy` and
  without asking whether the dialog it was started from is still open.

Hard behaviours: edits during a PATCH; two PATCHes answered in the other
order; a save superseded while it carries the saves of its descendants; a
failure in the middle of a group; an answer lost after the server applied the
change; adoption of an outdated clone; a request that waits for the gate and is
replayed into another situation; a kill between two writes.  `PROJECT.json`
lists each with its line and the property that watches it ("hazards").

## 2. Modules

| Module | Models | Kind |
|---|---|---|
| `SaveQueue`, `CoalesceLoop` | `PendingDateSave`, `coalesce_superseded_date_saves`; its loop turn by turn against a definition of its result | operators, algorithm |
| `DateSaves` | the date-save pipeline with its history and toast | component |
| `DateLane` | what the pipeline promises for one item | abstract specification |
| `DateSavesLanes` | `DateSaves` implements one `DateLane` per item | refinement |
| `SpawnState` | `spawn_io` and `adopt_spawned` around `DateSaves` | composition |
| `LinkSaves` | dependencies, `link_save_queue` and the gate all jobs pass | component |
| `Preview` | nudges, bar gestures, the idle flush, one date save per item behind them | component |
| `Form` | the form dialog, its jobs, and date saves beside them | component |
| `Items` | create, delete, field edits and their history | component |
| `Scope` | organization, project, team, iteration: picks, loads, file | component |
| `Session` | sign-in, refresh, sign-out, launches, what the disk and keyring hold | component |
| `RevRetry`, `RelationIndex` | the client's PATCH with one retry; the list a dependency is removed from by index | components |
| `HierarchyLoad` | `load_hierarchy`, request by request, while others edit | component |
| `Walks` | seven walks over parents and links, from every small hierarchy | algorithms |
| `*Proofs` | theorems, by component (`AccountProofs`: `Session` and `Scope`; `DetailsProofs`: `Form` and `Items`; `UnitsProofs`: the small machines of `units`) | proofs |
| `LeftFold` | the turns of a loop written as a left fold | lemmas |
| `MC*` | constants for TLC; `MCUnits`, `MCAccount` and `MCDetails` put machines that share nothing into one run | instances |

### The date saves: DateSaves, SpawnState

An action is one turn of the UI thread.  `live` is the dates of `state.nodes`,
`queue`, `busy`, `shifted`, `undo` and `redo` are the fields of the same names,
`flight` the spawned jobs with the Shift stash each took along, `toast` the one
success toast that can offer Undo, `server` what Azure DevOps stores.  Dates
are a small set of integers: one number stands for a bar's start and target,
which always move together in the handlers modelled (`Preview` has both sides).

`CommitDates` is `commit_gesture` of a plain drag or a date edit, `ShiftDrag`
the same with Shift held, `MoveChildrenToo` the toast's button that does so
afterwards.  `UndoLast`, `RedoLast`, `ToastUndo` replay history and enqueue one
save per item.  `SaveOk` and `SaveErr` are the two arms of
`spawn_one_date_save`'s answer: cascades, follow-ups, rollback,
`revert_date_save_history`, then the drain.  `SaveErr(f, applied)` also covers
the lost answer.  Each handler chains calls; they are operators from one value
of the thread's state (`Desk`) to the next, so that the drain at the end of a
handler is part of its action, as in the code.

`SpawnState` adds `io`, the running job with its clone.  `StartIo` copies live
dates, history, toast and shift stashes; `FinishIo` makes the copy the live
state, while the queue and the PATCHes in flight, which `PlannerView` owns, go on.

### LinkSaves

`state` is the part of `PlannerState` a clone copies: the predecessors shown,
the history of links and the success toast.  `io` is the one job `io_busy`
stands for, with its clone; `queue` and `waiting` are `link_save_queue` and
`pending_toast_undo`, which belong to the view and are not cloned.  A handler
that finds the gate closed queues, waits or is refused as in the code.
`FinishIo` adopts the clone, puts the queued links back, replays the waiting
Undo and drains the queue; `FinishToastUndo` merges two items only.

### Preview

A nudge (`Nudge`) writes its dates into the live nodes and remembers those of
its first key press; each press arms an idle timer, and `FireTimer` flushes only
if no later press came, on a clone of the planner.  A drag (`Press`, `Drag`,
`Release`, `CancelGesture`) keeps its dates in the gesture until the button is
released.  Selecting a row, Escape and other work interrupt either.  Sides that
an item lacks stay unset: the span painted for an open-ended item is
`BarDays` long.

### Form

The form exists three times: as loaded, as a draft in the state, and as the
widgets of the dialog.  An adopted clone replaces the first two and not the
third.  Fields are three: `Text` is held by an input, `Choice` by the draft
alone, `Dates` by a date picker that other code writes into.  `OpenForm`,
`SaveForm`, `CloseForm` and `Enter` are the dialog's handlers; `Loads`,
`Saves`, `Conflicts`, `Reloads`, `SaveFails` and `Clears` what the job meets;
`JobEnds` adopts the clone, or drops its form when the dialog was closed
(`discard_form`).  Date saves of the rows go on beside it and refresh the
form's revision and dates.

`Search` is the dialog's button beside an identity.  It clones the planner, form
included, waits for no other job, and `SearchEnds` adopts the clone whatever
has happened since, with nothing like `discard_form`: it may bring back a form
that was closed, a draft without a choice made meanwhile, or an old revision.
One runs at a time in the model (a bound).

`Read` is `sync_form_inputs`.  An input shows a text that is not set as the empty
string (`InputOf`), and any change of an input, and Save, read that string into
the draft (`Empty`), so that it is sent; the date picker, once emptied
(`EmptyDates`), leaves the draft alone.  What Azure DevOps makes of an empty
text is not in the repository; the model's server keeps it as sent.

### Items

`planner` is what a clone copies: rows, both stacks, the success toast's offer.
`job` carries its clone and computes its effect when its request ends.  A job
asked for by the user is refused while another runs; only a toast's Undo waits
(`waiting`) and is replayed by `Ends`.  `RestoreEnds(taken, lost)` is the loop
of `restore_fields`: the fields in `taken` answered Ok before the first
failure, one in `lost` was applied without an answer.  A form is opened and
saved here in one step; what may happen while it is open is `Form`'s.

### Scope

A state `s` carries preferences, the lists loaded for them and the rows.  The
chain `heal_org`, `heal_and_load_projects`, ... is a list of steps (`todo`) that
a job takes one await at a time on its clone, any of which may fail
(`Breaks`).  `ServerAssumption` says of the server that it answers about what it
lists and that no list is empty: of an empty list `choose_available` keeps what
was remembered, so that a project picked from the old list of another
organization would outlive a restart in an organization that has none.
The heal steps write the preferences file from the clone and the
pickers from the live state.  `StartSwitch` and `JobEnds` set and clear the
skeleton with its minimum time (`hold`); an identity search adopts its clone
at any time; `Restart` kills the application between two steps.

### Session

`keyring`, `disk`, `store` and `mem` are the four places of the login; `doing`
is what holds `SharedSession`'s mutex across its awaits.  A launch may find the
keyring locked (`Launch(FALSE)`).  A refresh spends one token and gets another
(`RefreshServed`); its answer may be lost, or the write that follows fail.
`cache` is the query cache of `state.rs` logout, by what each copy of it holds: the
one in memory, the file, and those in the clones of a date save and of a Search
(of each one at a time, a bound).
An entry is the account's own or, from a sign-out on, a former one's
(`Formerly`): keys do not name the account (`cache.rs`), so that what stays is
shown to the next.  A launch reads the file back, a sign-in and a save write
it whole, `LogoutEnds` clears it, and a Search that ends brings its copy back
with the session shown as it was.  That entries expire after a while is left out.
`caveats` collects what the properties exempt; those about the cache (`OfCache`)
last until the next sign-out.

### RevRetry, RelationIndex, HierarchyLoad, Walks

`RevRetry`: `Begin` sends the PATCH with `/rev` tested; the server applies,
answers 412 or refuses; the client retries a 412 once with the revision it
reads back; `GiveUp` is the 60 s timeout or a broken connection, after which
the request may still arrive (`ServerApplies`).  `RelationIndex` puts the list
of relations behind the same exchange: `remove_dependency` takes the index from
the list it read, and a 412 is answered by reading the revision only.

`HierarchyLoad` is what `Scope` takes as its one step "rows".  Each action is
the answer to one request of `load_hierarchy`: the backlogs, the query, the
fields of the types, each batch of items, each batch of relations, and, when
the backlogs failed, the fields of the types found.  `load` is the function's
locals; `stock` is the server's, and `OthersMove` edits it between any two
requests.  Such a load may show a row under a parent as it was and that parent
under the row as it is now: a cycle the server never had, which is why `Walks`
starts from cycles too.

`Walks` runs `rollup`, `apply_overlays` (both directions), `critical_path`,
`related_dependency_ids`, `descendant_ids` and `flatten_visible` one visit at a
time from every hierarchy, set of links and spans of four items, cyclic ones
included.  Three of these walks stop on no cycle of parents: `descendant_ids`
keeps no set of the visited, and the climbs of `apply_overlays` follow parents
until a root type.  `Endless` says from which starts, and `WalksEnd` that a walk
ends *exactly* where it is false: the others are shown never to end.  The list
of an endless `descendant_ids` is followed to twice the number of items
(`MaxListed`), more than a walk that ends can list.

### Marks

Where the code knowingly or visibly gives something up, the module keeps a
history variable and the property exempts exactly that: `failed`, `orphaned`,
`offstack` (`DateSaves`), `stray`, `unsaved` (`LinkSaves`), `stray`, `touched`,
`missed` (`Preview`), `excused`, `clouded`, `revived` (`Form`), `spoiled` (`Items`),
`marks`, `excuses` (`Scope`), `caveats` (`Session`), `stale`
(`RelationIndex`), `touched`, `unread` (`HierarchyLoad`).
No guard and no other variable depends on a mark; each is explained where it is
declared.

## 3. Runs

| Run | Bounds | Shows |
|---|---|---|
| `date_saves_lanes` | 3 generations, 2 dates, 3 actions, 2 failures | `SingleFlight`, `NoStrandedSave`, `Agreement`, and the refinement of `DateLane` per item |
| `spawn_state` | parent and child, 4 actions, 1 failure, any number of jobs | `HistoryAgrees`, `UntouchedAgree`; `Settles`: when requests end the pipeline runs dry |
| `link_saves` | 2 links that meet in an item, 6 actions, 1 failure | `LinksAgree`, `QueuedShown`, `UndoneNotSaved` |
| `preview` | 2 items without a target, 2 days, 3 presses, 1 failure | `PreviewsSettle`, `StartBeforeTarget`, `NudgeEnds` |
| `details` | `Form`: 2 items, one of them with a text that is set or not, 4 actions, 1 edit by others, 1 failure; `Items`: 2 items, 2 fields, 5 actions, 1 loss, a history of 3 | `FormIsAsked`, `OnlyEnteredSaved`, `EnteredIsStored`, `NoConflictOfOwn`, `SpinnerEnds`; `OffersStand`, `HistoryChains` |
| `account` | `Session`: 4 launches, 2 sign-ins, 2 refreshes, 2 mishaps; `Scope`: 2 organizations, 3 projects, two of them of one name, 4 picks, 1 failed load, 1 restart | `SessionTypeOK`, `StaysSignedIn`, `StaysSignedOut`, `CacheForgets`, `MutexIsFreed`; `RowsOfScope`, `ScopeHealed`, `PrefsOnDisk`, `SwitchIsCovered`, `PickWins`, `SkeletonEnds` |
| `units` | 3 calls and 2 foreign edits; 2 removals and 1 foreign edit; a load of 4 items in batches of 1 under a cap of 3, 1 foreign edit, 1 failure; 3 dates; 5 queued saves; walks over 4 items | `AppliedAtMostOnce`, `ResultTellsTruth`, `NoLateOverwrite`; `OnlyTheLinkGoes`; `LoadedAsItWas`; `LaneAgrees`; `EndsThinned`; `WalksFindPromised`, `WalksEnd` |

`units`, `account` and `details` hold machines that share no state.  A variable
says which one runs; the others stay where they start, so that one run checks
each machine on its own, not their product.

Why the bounds are enough to be interesting.  Four user actions are edit, edit,
undo, redo: each stack is filled, emptied and refilled while a PATCH of the
first edit may still be out; `Items` has a fifth so that a deletion or a load
falls between them.  The history holds 2 or 3 entries (`HistoryCap`, 50 in the code),
so that a run overflows it.  Three generations are the least at which a Shift-drag
moves an item that has a Shift-drag of its own.  Two failures are the least
with which a follow-up of a failed save fails too.  Three queued saves of one
item are the least at which a cascade is handed on twice; the loop has five.
Two links that share an item are the least for which merging the items of one
touches the other; six actions draw both during a load, undo one while the
other is being saved and redraw it.  Three presses are press, press, and a drag
or another row between press and timer.  Four launches are: sign in, restart,
sign out with a locked keyring, restart; two sign-ins are the accounts of before
and after a sign-out.  Four picks go to another
organization, project and team while each of the earlier ones loads.  Four
items hold a cycle of three with an item hanging off it; loaded
one by one under a cap of three, they take several batches and may be cut off.  Bounds are constants
named `Max...` and appear only in guards.

Deadlock is not checked where the system may stop: a planner nobody touches
does nothing.

Fairness is assumed of *answers and timers* alone, never of the user.

| Formula | Weak fairness of | Why the code justifies it |
|---|---|---|
| `SpawnFairSpec` | the end of each PATCH and job | the HTTP client is built with a 60 s timeout (`client.rs:82`) |
| `PreviewFair` | timers, and the end of jobs | `schedule_nudge_flush` spawns a timer for each press |
| `FormFair` | the steps of a job | every await of a job is such a request |
| `SessionFair` | the steps under the mutex | `accept` of the sign-in's listener times out; what it reads afterwards does not, and `MutexIsFreed` exempts it |
| `ScopeFair` | the steps of a job, the skeleton's timer | as above |
| `UnitsSpec` | the next visit of a walk | it is a loop |

### Runs that find a disagreement

Each of these checks one statement that a comment or a test of the repository
makes, and TLC finds a behaviour of the code that contradicts it.

| Run | In short |
|---|---|
| `dropped_children` | Shift-drag a parent while its PATCH is out, then Undo: the Undo's save supersedes the queued Shift-drag, adopts its children and, not being a `Commit`, neither saves nor restores them. |
| `stranded_link` | A link drawn while a toast's Undo runs is queued; that job's end, unlike every other's, does not drain the queue. |
| `failed_child_history` | A shifted child's own PATCH fails: its dates go back, the group on the undo stack keeps saying it moved, since only a group's first item is matched. |
| `one_undo` | Shift-dragging the same parent twice into one entry records a child twice; the befores are applied first to last, so one Ctrl+Z stops at the middle. |
| `follow_up_of_old_dates` | An edit during a background job is put back by adopting its clone; the answer to the edit's own PATCH then finds "newer" live dates, the old ones, and saves those. |

### Behaviours the passing runs exempt

The modelling met more behaviours that no comment or test speaks against.  Each
is a mark, and the run shows that nothing else breaks the property.

- A stale queued Shift-drag, when dropped, restores every child that *sits at*
  its dates, including one the user put there since (`offstack`).
- The Ok of a toast's Undo drops the *oldest* undo entry that starts from the dates
  restored, which need not be the one undone, with whatever other items it moved
  (`state.rs` 3110); the toast's button folds children into an entry that
  may have them already, and does so without clearing the redo stack (`offstack`).
- Ctrl+Z on a link whose save is queued takes the save away before asking
  `spawn_state`, which may refuse (`unsaved`).
- Drawing again a link whose removal is just being undone sends it twice; the
  server refuses the second, and the client then hides a link that exists
  (`LinkSaves.stray`).
- A nudge whose idle flush meets `io_busy` is not scheduled again; it waits
  for the next press, though CONTEXT.md:47 says that rapid nudges save as one
  change (`missed`).
- After a 412 the form comes back with its whole old draft, so that a second
  Save sends fields that someone else changed meanwhile (`excused`).
- A choice made in the form while a job or a Search runs is lost when its clone
  brings back the draft of before (`excused`); text and dates, which the widgets
  hold, are not.
- Search for an identity, close the dialog, and the form is back when the Search
  ends, over whatever was asked for since (`revived`); what a form that came
  back so saves is not held against the user (`excused`).
- A text of the form that is not set is shown as empty, read back as empty and
  sent, by any Save, although the user never entered it (`ReadAsEmpty`).
- Dates deleted from the form's date input leave the draft, and what a Save
  sends, as they were (`excused`).
- Where two of a date save, a job and a Search overlap, the one that ends last
  puts back the revision of before the other, and the next Save of the form
  answers 412 to the program's own change (`clouded`).
- A value entered in the form that equals the one it loaded is not sent, even
  when a date save has moved the item since (`EnteredIsStored` says "or else").
- A date save of the form's item hands the form its new revision even when the
  PATCH was retried past somebody else's edit, which the next Save then
  overwrites without a conflict.
- `restore_fields` that fails at its second field leaves the first one
  restored and the entry in place; a toast's Undo that waited for an edit of the
  same item is replayed over it; a form records the values of the server it
  loaded as those before the change, whatever the row showed (`spoiled`).
- A sign-out deletes the key from the keyring while the running store keeps it
  (`provider.rs` 287-295): a sign-in later in the same launch is stored under a
  key that is gone, and lost at the next launch (`again`).
- A date save that is in flight as a sign-out ends writes the whole query cache
  again from its clone, and a Search that is out then brings cache and session
  back on the screen (`cloned`).  The application killed between the sign-out of
  the session and the clearing of the cache (`state.rs` 645-656) leaves the
  file, which the next account is shown (`killed`).
- `descendant_ids` on an item that is its own ancestor, and the climbs of
  `apply_overlays` from below a cycle of parents without a root type, do not end;
  nothing in the code says that they need to (`Endless`).
- A relation removed by the retry after a 412 is the one at the old index, which
  may be another by then (`stale`).
- A batch of relations that fails leaves its items without predecessors, and no
  warning says so (`unread`).  A result of exactly the cap counts as truncated.
- A connection to the sign-in's listener on which nothing is sent holds the
  mutex (`stalled`).
- An identity search that ends late puts back whatever changed since it began
  (`excuses`).

## 4. Proofs

| Module | Theorems | For every |
|---|---|---|
| `DateSavesProofs` | `PipelineInvariant`, `DateSavesTypeOK`; `SingleFlight`, `NoStrandedSave`, `Agreement` as `OnePatchPerItem`, `NoSaveStranded`, `SettledAgrees`; `ImplementsLanes` as `SavesImplementLanes`; `HistoryAgrees` as `HistoryLeadsToShown`; `HistoryStaysCapped` | set of items and dates, tree of descendants, cap of the history, number of actions and failures |
| `SpawnStateProofs` | `SpawnInvariant`; `UntouchedAgree` as `UntouchedItemsAgree`; `DisciplineSurvives`; `HistoryAgrees` as `HistorySurvives` | the same, and number of jobs |
| `LinkSavesProofs` | `LinkInvariant`; `LinksAgree`, `UndoneNotSaved`, `QueuedShown` as `LinksSettle`, `UndoneNeverSaved`, `AdoptionKeepsQueued` | set of links, number of actions, jobs and failures |
| `PreviewProofs` | `PreviewInvariant`, `PreviewTypeOK`; `PreviewsSettle`, `StartBeforeTarget` as `QuietSettles`, `BarsKeepOrder` | set of items and dates, number of key presses, drags, jobs and failures |
| `DetailsProofs` | `Form`: `FormInvariant`; `FormIsAsked`, `OnlyEnteredSaved`, `EnteredIsStored`, `NoConflictOfOwn` as `FormStaysAsked`, `SavesOnlyEntered`, `EnteredIsSaved`, `NoOwnConflict` | set of items and values, number of edits, jobs, failures and edits by others |
| | `Items`: `ItemsInvariant`; `OffersStand`, `HistoryChains` as `OffersAlwaysStand`, `HistoryAlwaysChains` | number of items, set of fields and values, cap of the history, number of actions and lost requests |
| `AccountProofs` | `Session`: `SessionTypes`; `StaysSignedOut`, `StaysSignedIn`, `CacheForgets` as `SignedOutStays`, `SignedInStays`, `CacheIsForgotten` | number of launches, sign-ins, refreshes and mishaps |
| | `Scope`: `ScopeInvariant`; `RowsOfScope`, `PrefsOnDisk`, `SwitchIsCovered`, `PickWins`, `ScopeHealed` as `RowsAreOfScope`, `PrefsAreOnDisk`, `SwitchStaysCovered`, `LastPickWins`, `ScopeIsHealed` | list of organizations, projects, teams and iterations, number of picks, failed loads and kills |
| `UnitsProofs` | `DateLane`: `LaneTypeOK`, `LaneNeverStrands`, `LaneAgreement` | set of dates |
| | `RevRetry`: `RetryTypeOK`, `RetryAppliedAtMostOnce`, `RetryResultTellsTruth`, `RetryNoLateOverwrite` | number of calls and of edits by others |
| | `RelationIndex`: `OnlyTheLinkIsRemoved` | set of items, number of calls, late requests and edits by others |
| | `HierarchyLoad`: `LoadedAsItWas` as `UntouchedAreLoaded` | set of items and types, cap, size of batches, number of edits and failures |
| | `CoalesceLoop`: `EndsThinned` as `QueueEndsThinned`; `CoalesceIsThinned` | queue of saves |
| `LeftFold` | `FoldRuns` | step operator, sequence and start |

**Loops.**  The handlers of the pipeline and of the link saves run loops, which
the modules write as left folds.  `FoldRuns` (`LeftFold`) gives a fold its
turns: a function on `0..n` that starts at the base, takes one step per element
and ends at the result.  A fact about a loop is then proved by induction over
the number of turns.  The library's induction theorems take an operator as
a parameter and cannot be used; `LeftFold` proves the induction it needs from
the well-foundedness of `<` on a set of turns, and is instantiated with the
step of each loop (`DrainOne`, `CoalesceTurn`, `Enqueue`, `EnqueueKid`, `Move`,
`Restore`, `KeepOther`).

**DateSaves.**  `PipelineInv` is the queue discipline: `busy` names exactly the
items with a PATCH and each has one; no two queued saves are of one item, and
each waits for the PATCH of its own.  In the middle of a handler the last part
may fail for the item whose answer has just come (`Ready`); the drain that ends
every handler restores it.  `SingleFlight` and `NoStrandedSave` are parts of it.
The assumptions are those of `DateSaves`: finite sets of items and of integer
dates, and a list of descendants for each item.
`Agreement` adds `KidsOwn`: a save, queued or in flight, carries descendants of
its own item only.  A new save adopts the cascade of the save it supersedes, and
`KidsOwn` is what keeps it from adopting, or losing, anyone else's.  The
argument goes item by item (`AgreesFor`): a user action that changes the dates
of an item leaves it busy or owned by a Shift-drag that is still to be answered
(`UserAgrees`), the answer to a PATCH stores the dates sent and enqueues a
follow-up if they are no longer those shown, and what is dropped or put back on
the way is recorded in `orphaned` or `failed`.

**The history.**  `HistoryAgrees` speaks of the newest entry of an item only and
is not inductive: an Undo takes that entry off, and what is then the newest must
agree with the dates it put back.  `ChainInv` says so of the whole stack: going up
it, the entries of an item that is not `offstack` lead through a chain of dates,
each starting where the one below ended, to the dates shown, and the redo stack is
such a chain taken backwards (`Traced`).  An edit extends the chain and clears the
other (`TracedPush`), Undo and Redo move its last link across (`TracedPop`),
the cap cuts it off at the far end (`TracedNewest`), and an entry dropped from
its middle leaves the chains of the items it does not touch (`TracedDrop`).
The proof needs that no item is listed twice among the descendants of one
(`LanesAssumption`): one entry would move it twice.  The attempt showed two ways
past the property that the runs are too short for and that TLC finds with
six actions: the entry dropped for a toast's Undo may be an older one, with
other items in it, and a fold may meet the same child in the entry or a redo that
is pending.  Both are now marked (`offstack`).  Failures are not covered: when
one puts dates back, the entries of another item may stay (`failed_child_history`).
`HistoryStaysCapped` needs no such invariant: the pushes that go past
`EditHistory::push` move entries from the other stack, so the sum of both never
exceeds the cap.

**SpawnState.**  A clone holds no part of the queue, so adopting one keeps
`PipelineInv`, `KidsOwn` and the agreement of every item whose dates it does not
change; those it does are `overwritten`.  The proof reuses that of
`DateSaves`, which is why its lemmas are stated item by item.  A clone takes its
stacks and its dates together, so that its chains are whole as well
(`HistorySurvives`).

**LinkSaves.**  `LinkInv` says of the state *and of the clone of the running job*
that they show every link of the server whose last request did not fail
(`Shown`), and that a link shown and not stored is queued, is the one
the job is about, was taken out of the queue by an Undo, or had a request fail
(`Awaited`).  While a job runs its clone shows no more than the state
(`Busy`), so that adopting it loses only links that are queued, which
`restore_queued_links` puts back.  A job whose end merges two items (a toast's
Undo) needs more: what waits then is shown already.

**Preview.**  `PreviewInv` says who owns the dates of an item and what that owner
remembers: a nudge the dates it started from, which are stored, and those
it shows; a drag what is shown; a save in flight both; a flush what it can
put back.  An item of no owner shows what is stored.  The clone of other work is
as the planner in every item not touched since (`CloneFits`).  An item two
owners met on is exempt for good (`stray`); for the rest there is one owner at
a time (`OneOwner`), which is the content of the exemption.  The first attempt
showed that the mark had been too generous: a nudge and the flush that saves
it counted as two owners, so that every flushed item was exempt.

**DateLane.**  From `NoDates \notin LaneDates`.  The inductive invariant is the
conjunction of the three, of which a run checks `LaneAgrees`.  With `SavesImplementLanes` it says why the pipeline converges: per item
it is only ever a lane.

**The refinement.**  A lane shows of an item the dates of the PATCH in flight
and of the save that waits; both are unique by `PipelineInv` (`LaneShown`), so the
proof speaks of the sets of dates that fly and wait (`Flies`, `Waits`).  It
first finds what one `Enqueue` does to every lane (`EnqueueTurns`,
`EnqueueLane`): the save of the item named is taken with what it supersedes, and
if the item whose answer has just come still has a save waiting, that one is
resolved first, sent or found stale (`Cleared`).  A group of saves then sends each of
its items (`EnqueueAllLanes`, an induction over the group that also covers an item
listed twice), so that a user action sends an item, hands it to a shift, or leaves
it alone (`UserTurn`).  An answer about `i` leaves every other item `Turned`:
sent, spared, or sent and taken back in the same turn, which is where `LetGo`
gets its second disjunct; and `MatchingLanes` carries that over the descendants of a
Shift-drag.  For `i` itself nothing waits, and what flies is decided by whether a
save of the dates shown was waiting (`Decided`) or the follow-up sent them.  That no
shift lets go of `i` on the way needs that `i` is not among its own
descendants (`LanesAssumption`): `descendant_ids` would not end on such a tree.

**RevRetry.**  The properties alone are not inductive; `IInv` adds where each
request's tested revision stands relative to the server's: a request not yet
applied tests a revision the server has reached or passed, a document was
applied only at a revision the server has since left, and a call that is over
leaves behind only requests whose revision is spent as soon as a later call
succeeds.  The argument is the monotonicity of `rev`.

**RelationIndex.**  `RelInv` says that an index is good for the list it was read
from, and that a PATCH which is not a stale retry and tests the current
revision carries an index good for the current list.  Every change of the list
raises the revision over that of all PATCHes on their way (`Overtaken`), so the
second part survives each of them.

**HierarchyLoad.**  `LoadInv` follows one untouched item through the load: it is
among the ids exactly when it matches, unless the cap was reached (`Asked`);
once its batch is no longer due it has a row, and once that of its relations is
not, its links (`Kept`).  Nothing in either speaks of another item, so edits of
others disturb neither.  `Staged` says what is known from step to step, above
all that without a warning the dated types are those of the team.

**Session.**  `SessionInv` is the type invariant with the stored token among
those issued (`Typed`) and three facts that together close under every step.
`Forgotten`: once signed out for good nothing of the login is left in memory or
on disk *and no refresh is under way* that would bring it back, which is what
the mutex is for.  `Emptied`: after a sign-out that was not broken off and met no
clone, no copy of the cache, those in clones included, has an entry of before, so
that no later save, Search or launch can bring one back.  `Typed` also says that no Search
is out where its clone would show as signed in who has no token.  `Remembered`: while signed in without a caveat the token in the file
is the one the server accepts, or the one a refresh has just got, under the key
that both keyring and running store have.

**Form.**  `FormInv` is `FormTyped` and four facts.  `Asking`: a form that is
shown or on its way is the one asked for, and the clone of a Search has the form
shown, unless the dialog was left while it ran.  `Keeping`: a field that was
entered and is not excused has the value entered in the place a Save would read
it from, and one that was not has there the value loaded, or the empty string of a
text that was not set (`Same`).  `Cloned`: so has the draft of a clone, a job's or a
Search's, that will be adopted.  `Sending`: while a Save is under way, the
draft it took along has what was entered when it was pressed, and what was
loaded everywhere else.  The
attempt to prove `EnteredIsStored` showed two ways past it, which the model
now has: a choice made *while* a job runs is lost with the old draft
(`excused`), and a value entered that equals the one loaded is not sent.
`NoConflictOfOwn` rests on `OwnInv`: with nobody else about (`Alone`), who will
show the rows and the form next has the server's revision of each item, or the
PATCH in flight brings it.  While a job or a Search runs that is its clone, not the
planner, which is why two of them that overlap, with each other or with a date
save, are exempt.

**Scope.**  `ScopeInv` is the shape of states and jobs (`ShapeInv`, which says
of a job what it has yet to load, and that a load of the rows comes last) and
one part per property.  `RowsInv`: the rows match the scope in the live state,
in the clone of a search, and in the clone of a job *once its last step is
done*.  `FileInv`: the file holds what the running job will bring back, except
between the start of a team switch, which changes the live state, and its first
step, which writes it.  `CoverInv`: a switch under way has its skeleton and no
timer of another.  `PickInv`: the team picked last waits, or is that of the
state a job will bring back.
`HealInv` adds how far each chain has come: a clone that is about to load the
teams has a project of its organization, one about to load the iterations a
place the server knows (`Settled`), and one about to load the rows an iteration
of that place (`Reached`).  It rests on `ServerAssumption`.  The attempt to prove
`ScopeHealed` showed a way past it that the run did not have, because its
projects had different names: the projects of a new organization fail to load,
one of the old list that exists in both is picked and its rows load, and then
one that exists in the old organization only.  Such a pick is marked `stray`,
and the run now has two projects of one name.

**CoalesceLoop.**  The loop is part of the way (`Partway`): behind its index are the
saves that nothing later supersedes, in order, with their final children; ahead
are those it has not looked at, of which the first of each item holds what was
parked on it (`KidsAt`).  A turn passes a save or drops one, so the number of turns
is the position in the queue as given, which ties the loop to the fold
(`LoopAt`).  `CoalesceIsThinned` is the same induction over the fold alone.

**Items.**  `HistoryChains` finds the entry above another by a search, and says
nothing of a clone.  `Leads` says the same by quantifiers, for one field of one
item, of any stack: going up it, each entry that changes the field ends where the
next one begins and the last ends at the value shown.  `Sound` says so of the
planner, of an item without a row that no entry names it, and of the toast that
what it offers can be done; `ItemsInv` adds that the clone of the job is as the
planner, but for a toast that has gone since, and that a job and a waiting Undo find what
they start from (`Fit`, `Waits`).  The steps that are not a push or a pop rest on
one notion: a stack *keeps* item i of another if it is what is left of it once
entries about other items, and some of the oldest, are gone (`Keeps`), as after
the cap (`NewestKeeps`), a deletion (`WithoutKeeps`) and a pop of another item's
entry (`FrontKeeps`); then all that was said of i still holds (`KeptPasses`).
The exception is a toast's Undo, which takes an entry of the item itself out of
the stack.  It breaks no chain because that entry is the item's newest
(`Restorable`): whatever would record another for it replaces the toast.  An Undo
that waits for a job is the reason that the exemption names a job about the same
item: the entry it would remove may no longer be the newest when it runs.

Model-checked only: all liveness, which needs fairness and `ENABLED`; and the
walks, whose reference definitions are recursive.

## 5. Not modelled, and why

- *Gantt view*: scroll, zoom, hit tests and painting are floating-point geometry
  of one thread without steps; most of `gantt.rs` and `ui.rs` is that, layout,
  and tests kept in the same files, which is why the share of lines that the
  models map stays small although the handlers that change shared state are
  mapped.
- *The Saving label, the toast timer and the cap on toasts* (two are kept,
  `TOAST_CAP`): no property depends on them.  The cap of the history is in `DateSaves` and `Items`; `LinkSaves`
  has fewer actions than it holds entries.
- *Insertion order of rows, root-type choice, ordering of
  members, parsing, HTML and URL helpers*: pure functions without steps, with
  tests of their own.
- *Cancelled tasks*: where the oneshot of a job is dropped (its task panicked) the
  handlers log a warning and leave the planner as it was (`ui.rs` 1109, 1197,
  2424), and a date save is passed over (`ui.rs` 9746); no model has these arms.
- *Updater*: one flag and blocking I/O.  *Async runtime bridge*: a oneshot per
  job.
- *Mock server*: a test double.  *Electron program*: superseded (`docs/adr`).
- Within modelled components: entries of different kinds in one history
  (`DateSaves`, `LinkSaves` and `Items` each have their own), a form edited while
  field history is undone, other users' edits of rows, the lists of projects,
  teams and iterations (a step each), the candidates a search for identities finds,
  links that wait while the user signs out or switches team.  The clone of that search is in
  `Form`, `Scope` and `Session`; the other components leave out what it puts back of rows, history
  and links.

What would come next: `LinkLane`, the abstract specification of one link, as
`DateLane` is of one item's dates; and one history shared by the three components.

## 6. Running

    tlc -config DateSavesLanes.cfg MCDateSavesLanes
    tlapm AccountProofs.tla

`PROJECT.json` lists every run, what each definition translates ("map"), and for
every checked property a plausible bug ("mutants": operators whose comment
starts with "Mutant of") with which TLC finds it violated.
