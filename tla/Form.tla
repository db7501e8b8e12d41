---------------------------------- MODULE Form ----------------------------------
(***************************************************************************)
(* The Work Item form: crates/app/src/form.rs (FormDraft), state.rs        *)
(* (open_form, save_form, sync_open_form_from_node, clear_dates) and ui.rs *)
(* (open_form, save_form, sync_form_inputs, ensure_form_inputs).           *)
(*                                                                         *)
(* A form is loaded, saved and cleared by jobs on a clone of the planner,  *)
(* one at a time; date saves run beside them, and so does the Search for   *)
(* an identity, whose clone is adopted at its end whatever has happened    *)
(* since.  The form exists three times: as loaded (base), as a draft in    *)
(* the state, which an adopted clone replaces, and as the widgets of the   *)
(* dialog, which it does not.                                              *)
(***************************************************************************)
EXTENDS Integers, FiniteSets

CONSTANTS
  Ids, Vals,
  Moved,      \* bound: the items whose dates move on the chart and that others edit
  Empty,      \* of a text, the empty string
  None,       \* no form, no job, no date, a field that is not set
  MaxEdits,   \* bound: what the user does
  MaxForeign, \* bound: other users' edits
  MaxFaults   \* bound: requests that do not answer Ok, 412 apart

VARIABLES
  server,   \* rev and fields of each Work Item
  live,     \* state.nodes
  form,     \* state.form
  widgets,  \* form_inputs and form_dates, of form_inputs_for
  loading,  \* form_loading
  io,       \* the job that holds io_busy, with its clone
  search,   \* the identity Search under way, with its clone
  flight,   \* the date PATCH of each item: sent, then applied
  asked,    \* the item whose form the user last asked for, None once closed
  entered,  \* what the user entered in this form, None where nothing
  excused,  \* the fields whose widget or draft something else has replaced
  clouded,  \* a date save, a job and a Search overlapped: one missed the other's revision
  revived,  \* the dialog was closed while a Search ran: it may bring the form back, or has
  edits, foreign, faults

store    == <<server, live>>
dialog   == <<form, widgets, loading>>
marks    == <<asked, entered, excused, clouded, revived>>
counters == <<edits, foreign, faults>>
formVars == <<store, dialog, io, search, flight, marks, counters>>

\* Text is held by an input, Choice by the draft alone, Dates by the date picker
Fields == {"Text", "Choice", "Dates"}
Inputs == {"Text", "Dates"}

Contents  == [Fields -> Vals \cup {None}]
WorkItems == [rev : Nat, val : Contents]
Forms     == [id : Ids, rev : Nat, base : Contents, draft : Contents]
Shown     == [id : Ids, val : [Inputs -> Vals \cup {None}]]
Jobs      == [kind : {"open", "save", "clear", "other"}, id : Ids \cup {None},
              live : [Ids -> WorkItems], form : Forms \cup {None}, entered : Contents,
              excused : SUBSET Fields, st : {"sent", "reload", "done"}]
Flights   == [after : Vals, prev : WorkItems, rev : Nat]
Blank        == [f \in Fields |-> None]

ASSUME FormAssumption ==
  /\ IsFiniteSet(Ids) /\ Moved \subseteq Ids /\ IsFiniteSet(Vals) /\ Empty \in Vals
  /\ None \notin Ids \cup Vals \cup Forms \cup Shown \cup Jobs \cup Flights
  /\ MaxEdits \in Nat /\ MaxForeign \in Nat /\ MaxFaults \in Nat

UserActs == edits < MaxEdits /\ edits' = edits + 1
Fault    == faults < MaxFaults /\ faults' = faults + 1

-----------------------------------------------------------------------------
(***************************************************************************)
(* FormDraft and the dialog's widgets.                                     *)
(***************************************************************************)
\* from_model
Draft(i, item) == [id |-> i, rev |-> item.rev, base |-> item.val, draft |-> item.val]

\* Mutant of Changed: every field is sent
ChangedAll(f) == Fields

\* build_form_patch: the fields that differ from the loaded ones
Changed(f) == {x \in Fields : f.draft[x] # f.base[x]}

\* Mutant of Synced: the revision stays the one the form was opened at
SyncedDatesOnly(f, i, node) ==
  IF f = None \/ f.id # i THEN f
  ELSE [f EXCEPT !.base.Dates = node.val.Dates, !.draft.Dates = node.val.Dates]

\* sync_open_form_from_node, adopt_live_node
Synced(f, i, node) ==
  IF f # None /\ f.id = i
    THEN [f EXCEPT !.rev = node.rev, !.base.Dates = node.val.Dates, !.draft.Dates = node.val.Dates]
    ELSE f

\* Mutant of Read: what was typed stays in the widgets
ReadNothing(f, w) == f

\* sync_form_inputs: the draft takes what the widgets show, and the empty string
\* of a text that is not set; an empty date picker leaves it alone
Read(f, w) ==
  [f EXCEPT !.draft = [x \in Fields |->
     IF x \in Inputs /\ w.val[x] # None THEN w.val[x] ELSE @[x]]]

\* What an input is to show of the draft: unwrap_or_default of a text not set
InputOf(f, x) == IF x = "Text" /\ f.draft.Text = None THEN Empty ELSE f.draft[x]

\* ensure_form_inputs: widgets of another form are dropped, new ones take the
\* draft, and the dates of the row instead of the draft's
Widgets(w, f, nodes) ==
  IF f = None THEN None
  ELSE IF w # None /\ w.id = f.id THEN w
  ELSE [id |-> f.id, val |-> [x \in Inputs |->
          IF x = "Dates" THEN nodes[f.id].val.Dates ELSE InputOf(f, x)]]

\* An input that shows something else than the draft
Differs(f, w, x) == w.val[x] \notin {None, InputOf(f, x)}

\* form_has_unsaved_edits, without which Save is disabled
Unsaved(f, w) == Changed(f) # {} \/ \E x \in Inputs : Differs(f, w, x)

\* queue_form_dates_from_draft
Requeued(w, f) == IF f = None \/ w = None THEN w ELSE [w EXCEPT !.val.Dates = f.draft.Dates]

Renders(w) == widgets' = Widgets(w, form', live')

Flying  == \E i \in Ids : flight[i] # None
Overlap == clouded' = \/ clouded
                      \/ io' # None /\ (search' # None \/ Flying')
                      \/ search' # None /\ Flying'

\* The dialog closes, or opens another form
Leaves == revived' = IF search = None THEN "no" ELSE "may"

-----------------------------------------------------------------------------
(***************************************************************************)
(* The user.                                                               *)
(***************************************************************************)
Job(kind, i) == [kind |-> kind, id |-> i, live |-> live, form |-> form, entered |-> Blank,
                 excused |-> {}, st |-> "sent"]

\* ui open_form: the form that is open closes, and the load is refused while
\* another job runs
OpenForm(i) ==
  /\ UserActs
  /\ loading # i /\ (form # None /\ loading = None => form.id # i)
  /\ form' = None /\ widgets' = None
  /\ IF io = None
       THEN /\ loading' = i /\ asked' = i
            /\ io' = [Job("open", i) EXCEPT !.form = None]
       ELSE loading' = None /\ asked' = None /\ io' = io
  /\ entered' = Blank /\ excused' = {}
  /\ UNCHANGED <<store, search, flight, foreign, faults>>
  /\ Leaves /\ Overlap

\* Cancel, Escape, a click beside the dialog: close_form
CloseForm ==
  /\ form # None \/ loading # None
  /\ form' = None /\ widgets' = None /\ loading' = None
  /\ asked' = None /\ entered' = Blank /\ excused' = {}
  /\ UNCHANGED <<store, io, search, flight, clouded, counters>>
  /\ Leaves

\* Typing, or picking a date: any change of an input reads them all.  A choice
\* made while a job or a Search runs is lost when its clone is adopted.
Enter(x, v) ==
  /\ UserActs
  /\ form # None
  /\ x \in Inputs => widgets.val[x] # v
  /\ x \notin Inputs => form.draft[x] # v
  /\ IF x \in Inputs THEN LET w == [widgets EXCEPT !.val[x] = v]
                          IN  form' = Read(form, w) /\ widgets' = w
                     ELSE form' = [form EXCEPT !.draft[x] = v] /\ widgets' = widgets
  /\ entered' = [entered EXCEPT ![x] = v]
  /\ excused' = IF (io = None /\ search = None) \/ x \in Inputs THEN excused \ {x}
                                                              ELSE excused \cup {x}
  /\ UNCHANGED <<store, loading, io, search, flight, asked, clouded, revived, foreign, faults>>

\* The text of the dates is deleted: the draft keeps the dates it had
EmptyDates ==
  LET w == [widgets EXCEPT !.val.Dates = None]
  IN  /\ UserActs
      /\ form # None /\ widgets.val.Dates # None
      /\ form' = Read(form, w) /\ widgets' = w
      /\ excused' = excused \cup {"Dates"}
      /\ UNCHANGED <<store, loading, io, search, flight, asked, entered, clouded, revived,
                     foreign, faults>>

\* "Search" beside an identity: spawn_unbounded, which waits for no other job.
\* Bound: one at a time.
Search ==
  /\ UserActs
  /\ form # None /\ search = None
  /\ search' = Job("other", None)
  /\ UNCHANGED <<store, dialog, io, flight, asked, entered, excused, revived, foreign, faults>>
  /\ Overlap

\* ui save_form: nothing is sent when nothing changed or another job runs
SaveForm ==
  LET f == Read(form, widgets)
  IN  /\ UserActs
      /\ form # None /\ Unsaved(form, widgets)
      /\ form' = f
      /\ io' = IF io = None /\ Changed(f) # {}
               THEN [Job("save", f.id) EXCEPT !.form = f, !.entered = entered, !.excused = excused]
               ELSE io
      /\ UNCHANGED <<store, widgets, loading, search, flight, asked, entered, excused, revived,
                     foreign, faults>>
      /\ Overlap

\* "Clear dates" of the form, and any job that leaves the form alone
StartJob(kind) ==
  /\ UserActs
  /\ io = None
  /\ kind = "clear" => form # None
  /\ io' = Job(kind, IF form = None THEN None ELSE form.id)
  /\ UNCHANGED <<store, dialog, search, flight, asked, entered, excused, revived, foreign, faults>>
  /\ Overlap

\* A bar is dragged, when no dialog covers it, or its dates are undone or
\* redone, which an open form adopts at once; the PATCH starts
MoveDates(i, d, undone) ==
  LET node == [live[i] EXCEPT !.val.Dates = d]
  IN  /\ UserActs
      /\ flight[i] = None /\ live[i].val.Dates # d
      /\ ~undone => form = None /\ loading = None
      /\ live' = [live EXCEPT ![i] = node]
      /\ flight' = [flight EXCEPT ![i] = [after |-> d, prev |-> live[i], rev |-> 0]]
      /\ form' = IF undone THEN Synced(form, i, node) ELSE form
      /\ Renders(IF undone THEN Requeued(widgets, form') ELSE widgets)
      /\ excused' = IF undone THEN excused \cup {"Dates"} ELSE excused
      /\ UNCHANGED <<server, loading, io, search, asked, entered, revived, foreign, faults>>
      /\ Overlap

-----------------------------------------------------------------------------
(***************************************************************************)
(* Azure DevOps and other users.                                           *)
(***************************************************************************)
Written(item, fields, val) ==
  [rev |-> item.rev + 1,
   val |-> [x \in Fields |-> IF x \in fields THEN val[x] ELSE item.val[x]]]

ForeignEdit(i, x, v) ==
  /\ foreign < MaxForeign /\ foreign' = foreign + 1
  /\ server[i].val[x] # v
  /\ server' = [server EXCEPT ![i] = Written(@, {x}, [Blank EXCEPT ![x] = v])]
  /\ UNCHANGED <<live, dialog, io, search, flight, marks, edits, faults>>

\* The date PATCH arrives: its 412s are retried at the new revision
DatesArrive(i) ==
  /\ flight[i] # None /\ flight[i].rev = 0
  /\ server' = [server EXCEPT ![i] =
                  Written(@, {"Dates"}, [Blank EXCEPT !.Dates = flight[i].after])]
  /\ flight' = [flight EXCEPT ![i].rev = server'[i].rev]
  /\ UNCHANGED <<live, dialog, io, search, marks, counters>>

\* spawn_one_date_save: Ok.  The date widgets follow the draft, whichever item
\* the form shows.
DatesOk(i) ==
  LET still == live[i].val.Dates = flight[i].after
  IN  /\ flight[i] # None /\ flight[i].rev # 0
      /\ flight' = [flight EXCEPT ![i] = None]
      /\ live' = IF still THEN [live EXCEPT ![i].rev = flight[i].rev] ELSE live
      /\ form' = IF still THEN Synced(form, i, live'[i]) ELSE form
      /\ Renders(IF still THEN Requeued(widgets, form') ELSE widgets)
      /\ excused' = IF still THEN excused \cup {"Dates"} ELSE excused
      /\ UNCHANGED <<server, loading, io, search, asked, entered, clouded, revived, counters>>

\* It failed, applied or not: the node as it was before goes back
DatesErr(i) ==
  /\ flight[i] # None /\ Fault
  /\ flight' = [flight EXCEPT ![i] = None]
  /\ live' = [live EXCEPT ![i] = IF @.val.Dates = flight[i].after THEN flight[i].prev ELSE @]
  /\ UNCHANGED <<server, dialog, io, search, marks, edits, foreign>>

-----------------------------------------------------------------------------
(***************************************************************************)
(* Jobs and the Search, on their clones.                                   *)
(***************************************************************************)
Done(j) == io' = [j EXCEPT !.st = "done"]

\* Mutant of Loads: a load that fails never reports back
LoadsSilently ==
  /\ io # None /\ io.st = "sent" /\ io.kind = "open"
  /\ \/ Done([io EXCEPT !.form = Draft(io.id, server[io.id])]) /\ faults' = faults
     \/ io' = [io EXCEPT !.st = "lost"] /\ Fault
  /\ UNCHANGED <<store, dialog, search, flight, marks, edits, foreign>>

\* load_form answers
Loads ==
  /\ io # None /\ io.st = "sent" /\ io.kind = "open"
  /\ \/ Done([io EXCEPT !.form = Draft(io.id, server[io.id])]) /\ faults' = faults
     \/ Done(io) /\ Fault
  /\ UNCHANGED <<store, dialog, search, flight, marks, edits, foreign>>

\* save_form: the PATCH succeeds; apply_saved writes the draft to the row
Saves ==
  LET f == io.form
      item == Written(server[f.id], Changed(f), f.draft)
  IN  /\ io # None /\ io.st = "sent" /\ io.kind = "save"
      /\ server[f.id].rev = f.rev
      /\ server' = [server EXCEPT ![f.id] = item]
      /\ Done([io EXCEPT !.live[f.id] = [rev |-> item.rev, val |-> f.draft], !.form = None])
      /\ UNCHANGED <<live, dialog, search, flight, marks, counters>>

\* save_form: 412
Conflicts ==
  /\ io # None /\ io.st = "sent" /\ io.kind = "save"
  /\ server[io.form.id].rev # io.form.rev
  /\ io' = [io EXCEPT !.st = "reload"]
  /\ UNCHANGED <<store, dialog, search, flight, marks, counters>>

\* open_form again, for the new revision, then the draft is put back over it
Reloads ==
  LET f == Draft(io.form.id, server[io.form.id])
  IN  /\ io # None /\ io.st = "reload"
      /\ \/ Done([io EXCEPT !.form = [f EXCEPT !.draft = io.form.draft]]) /\ faults' = faults
         \/ Done(io) /\ Fault
      /\ excused' = excused \cup {x \in Fields : server[io.form.id].val[x] # io.form.base[x]}
      /\ UNCHANGED <<store, dialog, search, flight, asked, entered, clouded, revived, edits, foreign>>

\* save_form: an error, after which the server may have applied the PATCH
SaveFails(applied) ==
  LET f == io.form
  IN  /\ io # None /\ io.st = "sent" /\ io.kind = "save" /\ Fault
      /\ applied => server[f.id].rev = f.rev
      /\ server' = IF applied THEN [server EXCEPT ![f.id] = Written(@, Changed(f), f.draft)]
                              ELSE server
      /\ Done(io)
      /\ UNCHANGED <<live, dialog, search, flight, marks, edits, foreign>>

\* clear_dates: as every date PATCH, retried at the new revision
Clears ==
  LET i == io.id
      item == Written(server[i], {"Dates"}, Blank)
      node == [io.live[i] EXCEPT !.rev = item.rev, !.val.Dates = None]
  IN  /\ io # None /\ io.st = "sent" /\ io.kind = "clear"
      /\ \/ /\ server' = [server EXCEPT ![i] = item]
            /\ Done([io EXCEPT !.live[i] = node, !.form = Synced(@, i, node)])
            /\ faults' = faults
         \/ Done(io) /\ server' = server /\ Fault
      /\ UNCHANGED <<live, dialog, search, flight, marks, edits, foreign>>

Works ==
  /\ io # None /\ io.st = "sent" /\ io.kind = "other"
  /\ Done(io)
  /\ UNCHANGED <<store, dialog, search, flight, marks, counters>>

\* Mutant of Adopted: a form that was closed comes back with the clone
AdoptedAlways == io.form

\* adopt_spawned, and discard_form
Adopted == IF loading = None /\ form = None THEN None ELSE io.form

\* What an adopted clone leaves of the marks.  The fields of a form that a Search
\* has brought back are excused, and so are inputs that differ from its draft.
Marked(anew, replaced) ==
  /\ entered' = IF anew \/ revived' = "yes" THEN Blank ELSE entered
  /\ excused' = IF revived' = "yes" THEN Fields
                ELSE replaced \cup (IF anew THEN {} ELSE excused)
                     \cup {x \in Inputs : /\ form' # None /\ entered'[x] = None
                                          /\ Differs(form', widgets', x)}

\* The job ends: spawn_io
JobEnds ==
  LET anew == form' = None \/ (io.kind = "open" /\ form'.id = asked)
  IN  /\ io # None /\ io.st = "done"
      /\ io' = None
      /\ live' = io.live
      /\ form' = Adopted
      /\ loading' = None
      /\ Renders(IF io.kind = "clear" THEN Requeued(widgets, form') ELSE widgets)
      /\ asked' = IF form' = None THEN None ELSE asked
      /\ IF anew THEN Leaves ELSE revived' = revived
      /\ Marked(anew, IF io.kind = "clear" THEN {"Dates"} ELSE {})
      /\ UNCHANGED <<server, search, flight, clouded, counters>>

\* The Search ends, found anyone or not: adopt_spawned, whatever runs beside it and
\* whether the dialog is still there
SearchEnds ==
  /\ search # None /\ search' = None
  /\ live' = search.live
  /\ form' = search.form
  /\ Renders(widgets)
  /\ revived' = IF revived = "no" THEN "no" ELSE "yes"
  /\ Marked(FALSE, {})
  /\ UNCHANGED <<server, loading, io, flight, asked, clouded, counters>>

-----------------------------------------------------------------------------
\* The rows have just been loaded
FormInit ==
  /\ server \in [Ids -> {[rev |-> 1, val |-> [x \in Fields |-> IF x = "Text" THEN t ELSE v]] :
                          v \in Vals, t \in Vals \cup {None}}]
  /\ live = server
  /\ form = None /\ widgets = None /\ loading = None /\ io = None /\ search = None
  /\ flight = [i \in Ids |-> None]
  /\ asked = None /\ entered = Blank /\ excused = {} /\ clouded = FALSE /\ revived = "no"
  /\ edits = 0 /\ foreign = 0 /\ faults = 0

UserStep ==
  \/ \E i \in Ids : OpenForm(i)
  \/ \E i \in Moved, d \in Vals, undone \in BOOLEAN : MoveDates(i, d, undone)
  \/ CloseForm \/ SaveForm \/ EmptyDates \/ Search
  \/ \E x \in Fields, v \in Vals : Enter(x, v)
  \/ \E kind \in {"clear", "other"} : StartJob(kind)

JobStep ==
  \/ Loads \/ Saves \/ Conflicts \/ Reloads \/ Clears \/ Works \/ JobEnds
  \/ \E applied \in BOOLEAN : SaveFails(applied)

FormNext ==
  \/ UserStep \/ JobStep \/ SearchEnds
  \/ \E i \in Moved : DatesArrive(i) \/ DatesOk(i) \/ DatesErr(i)
                      \/ \E x \in Fields, v \in Vals : ForeignEdit(i, x, v)

FormSpec == FormInit /\ [][FormNext]_formVars

\* Requests answer or time out, so every job ends
FormFair == WF_formVars(JobStep)

-----------------------------------------------------------------------------
(***************************************************************************)
(* Properties.                                                             *)
(***************************************************************************)
\* The dialog shows the item the user last asked for, or nothing: no job that
\* ends late brings back a form that was closed or left for another.  Excused is
\* a form that the end of a Search has brought back, until the user leaves it.
FormIsAsked == form # None => form.id = asked \/ revived = "yes"

\* What an input shows of a text that is not set, as sync_form_inputs has read it
ReadAsEmpty(f, x) == x = "Text" /\ f.base.Text = None /\ f.draft.Text = Empty

\* A saved form changes no field on the server that the user did not enter in
\* it, so that others' edits of those survive.  Excused are a text that was not
\* set and is sent as empty, fields where the form came back from a 412 with its
\* old draft, dates that the row, an Undo, or a date save put into the draft, dates
\* deleted from their input, and a form that a Search has brought back.
OnlyEnteredSaved ==
  [][Saves => \A x \in Changed(io.form) :
       io.entered[x] # None \/ x \in io.excused \/ ReadAsEmpty(io.form, x)]_formVars

\* What the user had entered when he pressed Save is what the server holds when
\* the save answers Ok, whatever clones were adopted while he typed, those of a
\* Search among them; or else it is what the form had loaded, and not sent.
\* Excused are a choice made while a job or a Search ran, dates replaced or deleted
\* as above, and a form that a Search has brought back.
EnteredIsStored ==
  [][Saves => \A x \in Fields \ io.excused : io.entered[x] # None =>
       io.entered[x] \in {server'[io.form.id].val[x], io.form.base[x]}]_formVars

\* With no other user about and no error, a save of the form never answers 412,
\* except where two of a date save, a job and a Search overlapped, of which the one
\* that ends last puts back an old revision: Undo, Clear dates and date saves
\* refresh the form's revision, as the tests of tests/gantt.rs ask.
NoConflictOfOwn ==
  [][Conflicts => foreign > 0 \/ faults > 0 \/ clouded]_formVars

\* The spinner ends.
SpinnerEnds == (loading # None) ~> (loading = None)
=============================================================================
