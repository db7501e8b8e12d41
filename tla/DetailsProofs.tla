------------------------------ MODULE DetailsProofs ------------------------------
(***************************************************************************)
(* Proofs of what modules Form and Items promise, for every set of items,  *)
(* fields and values and every number of edits, requests that fail and     *)
(* faults: first the form, then the rows and their history.                *)
(***************************************************************************)
EXTENDS Form, Items, TLAPS

\* What the handlers rely on when they reach into the form or the clone.
FormTyped ==
  /\ server \in [Ids -> WorkItems] /\ live \in [Ids -> WorkItems]
  /\ form \in Forms \cup {None} /\ widgets \in Shown \cup {None}
  /\ loading \in Ids \cup {None} /\ asked \in Ids \cup {None}
  /\ io \in Jobs \cup {None} /\ flight \in [Ids -> Flights \cup {None}]
  /\ search \in Jobs \cup {None} /\ (search # None => search.form \in Forms)
  /\ entered \in Contents /\ excused \subseteq Fields /\ revived \in {"no", "may", "yes"}
  /\ form # None => widgets # None /\ widgets.id = form.id
  /\ form = None => widgets = None /\ entered = Blank

\* Whose form a job will bring back, unless a Search has brought back another.
Asking ==
  /\ form # None => form.id = asked \/ revived = "yes"
  /\ loading # None => asked = loading /\ (form = None \/ revived = "yes") /\ io # None
  /\ io # None =>
       /\ loading # None => io.kind = "open" /\ io.id = loading
       /\ io.kind = "open" => io.id \in Ids /\ (form = None \/ revived = "yes")
       /\ io.kind = "clear" => io.id \in Ids
       /\ io.st = "reload" => io.kind = "save"
       /\ io.kind = "save" /\ io.st # "done" => io.form # None
       /\ io.form # None =>
            /\ io.kind = "open" => io.form.id = io.id /\ io.form.draft = io.form.base
            /\ form # None => io.form.id = form.id \/ revived = "yes"
  /\ search # None /\ revived = "no" => form # None /\ search.form.id = form.id

\* What the dialog holds of a field.
Typed(x) == IF x \in Inputs THEN widgets.val[x] ELSE form.draft[x]

\* What sync_form_inputs would make of it.
Showing(x) == IF x \in Inputs /\ widgets.val[x] # None THEN widgets.val[x] ELSE form.draft[x]

\* A field as it was loaded, but for a text that was not set.
Same(x, loaded, now) == now = loaded \/ (x = "Text" /\ loaded = None /\ now = Empty)

\* The dialog shows what was entered, and as loaded what was not.
Keeping ==
  form # None => \A x \in Fields \ excused :
    /\ entered[x] # None => Typed(x) = entered[x]
    /\ entered[x] = None => Same(x, form.base[x], Showing(x)) /\ Same(x, form.base[x], form.draft[x])

\* A clone that is to be adopted has the choices made before it was taken.
CloneKeeps(f) ==
  \A x \in Fields \ excused :
    /\ entered[x] = None => Same(x, f.base[x], f.draft[x])
    /\ entered[x] # None /\ x \notin Inputs => f.draft[x] = entered[x]

Cloned ==
  /\ io # None /\ io.form # None /\ (form # None \/ loading # None) /\ revived # "yes" =>
       CloneKeeps(io.form)
  /\ search # None /\ revived = "no" => CloneKeeps(search.form)

\* A save under way carries what was entered when Save was pressed, and no more.
Sending ==
  io # None /\ io.kind = "save" /\ io.st # "done" => \A x \in Fields \ io.excused :
    /\ io.entered[x] # None => io.form.draft[x] = io.entered[x]
    /\ io.entered[x] = None => Same(x, io.form.base[x], io.form.draft[x])

FormInv == FormTyped /\ Asking /\ Keeping /\ Cloned /\ Sending

-----------------------------------------------------------------------------
\* A form that a date save or an Undo has refreshed is the same form but for
\* its revision and dates.
LEMMA SyncedForm ==
  ASSUME NEW f \in Forms \cup {None}, NEW i, NEW node \in WorkItems
  PROVE  /\ Synced(f, i, node) \in Forms \cup {None}
         /\ f = None <=> Synced(f, i, node) = None
         /\ f # None => /\ Synced(f, i, node).id = f.id
                        /\ \A x \in Fields \ {"Dates"} :
                             /\ Synced(f, i, node).draft[x] = f.draft[x]
                             /\ Synced(f, i, node).base[x] = f.base[x]
                        /\ f.draft.Dates = f.base.Dates =>
                             Synced(f, i, node).draft.Dates = Synced(f, i, node).base.Dates
<1>1. CASE f = None \/ f.id # i
  BY <1>1 DEF Synced
<1>2. CASE f # None /\ f.id = i
  <2> DEFINE d == node.val.Dates
             g == [f EXCEPT !.rev = node.rev, !.base.Dates = d, !.draft.Dates = d]
  <2>1. Synced(f, i, node) = g /\ f \in Forms /\ d \in Vals \cup {None} /\ node.rev \in Nat
    BY <1>2 DEF Synced, WorkItems, Contents, Fields
  <2>2. f.base \in Contents /\ f.draft \in Contents
    BY <2>1 DEF Forms
  <2>3. [f.base EXCEPT !.Dates = d] \in Contents /\ [f.draft EXCEPT !.Dates = d] \in Contents
    BY <2>1, <2>2 DEF Contents
  <2>4. g = [f EXCEPT !.rev = node.rev, !.base = [f.base EXCEPT !.Dates = d],
                      !.draft = [f.draft EXCEPT !.Dates = d]]
    BY <2>1 DEF Forms
  <2>5. /\ g \in Forms /\ g.id = f.id
        /\ g.base = [f.base EXCEPT !.Dates = d] /\ g.draft = [f.draft EXCEPT !.Dates = d]
    <3> HIDE DEF d
    <3> QED
    BY <2>1, <2>3, <2>4 DEF Forms
  <2>6. \A x \in Fields \ {"Dates"} : g.draft[x] = f.draft[x] /\ g.base[x] = f.base[x]
    BY <2>2, <2>5 DEF Contents
  <2>7. g.draft.Dates = g.base.Dates
    BY <2>2, <2>5 DEF Contents, Fields
  <2>8. g # None
    BY <2>5, FormAssumption DEF FormAssumption
  <2> QED
    BY <1>2, <2>1, <2>5, <2>6, <2>7, <2>8
<1> QED
  BY <1>1, <1>2

\* The widgets are those of the form, and stay while it does.
LEMMA WidgetsOfForm ==
  ASSUME NEW f \in Forms \cup {None}, NEW w \in Shown \cup {None},
         NEW nodes \in [Ids -> WorkItems]
  PROVE  /\ Widgets(w, f, nodes) \in Shown \cup {None}
         /\ f = None => Widgets(w, f, nodes) = None
         /\ f # None => Widgets(w, f, nodes) # None /\ Widgets(w, f, nodes).id = f.id
         /\ f # None /\ w # None /\ w.id = f.id => Widgets(w, f, nodes) = w
<1>1. CASE f = None
  BY <1>1 DEF Widgets
<1>2. CASE f # None /\ w # None /\ w.id = f.id
  BY <1>2 DEF Widgets
<1>3. CASE f # None /\ ~(w # None /\ w.id = f.id)
  <2> DEFINE new == [id |-> f.id, val |-> [x \in Inputs |->
                       IF x = "Dates" THEN nodes[f.id].val.Dates ELSE InputOf(f, x)]]
  <2>1. new \in Shown
    <3>1. \A x \in Inputs : InputOf(f, x) \in Vals \cup {None}
      BY <1>3, FormAssumption DEF FormAssumption, InputOf, Forms, Contents, Fields, Inputs
    <3>2. f.id \in Ids /\ nodes[f.id].val.Dates \in Vals \cup {None}
      BY <1>3 DEF Forms, WorkItems, Contents, Fields
    <3> QED
      BY <3>1, <3>2 DEF Shown
  <2>2. Widgets(w, f, nodes) = new
    BY <1>3 DEF Widgets
  <2> QED
    BY <1>3, <2>1, <2>2, FormAssumption DEF FormAssumption
<1> QED
  BY <1>1, <1>2, <1>3

\* Putting the draft's dates into the widgets changes no other widget.
LEMMA RequeuedWidgets ==
  ASSUME NEW f \in Forms \cup {None}, NEW w \in Shown \cup {None}
  PROVE  /\ Requeued(w, f) \in Shown \cup {None}
         /\ w = None <=> Requeued(w, f) = None
         /\ w # None => /\ Requeued(w, f).id = w.id
                        /\ \A x \in Inputs \ {"Dates"} : Requeued(w, f).val[x] = w.val[x]
  BY FormAssumption DEF FormAssumption, Requeued, Forms, Shown, Contents, Fields, Inputs

\* Reading the widgets keeps the form and what it had loaded.
LEMMA ReadForm ==
  ASSUME NEW f \in Forms, NEW w \in Shown
  PROVE  /\ Read(f, w) \in Forms
         /\ Read(f, w).id = f.id /\ Read(f, w).base = f.base
         /\ \A x \in Fields : Read(f, w).draft[x] =
              IF x \in Inputs /\ w.val[x] # None THEN w.val[x] ELSE f.draft[x]
  BY DEF Read, Forms, Shown, Contents, Fields, Inputs

\* A PATCH leaves a Work Item.
LEMMA WrittenItem ==
  ASSUME NEW item \in WorkItems, NEW fields, NEW val \in Contents
  PROVE  Written(item, fields, val) \in WorkItems
  BY DEF Written, WorkItems, Contents

\* A job starts with a clone of the form that is open.
LEMMA JobTyped ==
  ASSUME FormTyped, NEW i \in Ids \cup {None}, NEW kind \in {"open", "save", "clear", "other"}
  PROVE  Job(kind, i) \in Jobs
<1>1. Blank \in Contents
  BY DEF Blank, Contents
<1> QED
  BY <1>1 DEF FormTyped, Job, Jobs

-----------------------------------------------------------------------------
\* How a job that answers changes its own clone of the form.
Loaded    == io.kind = "open" /\ io'.form \in Forms /\ io'.form.id = io.id
             /\ io'.form.draft = io'.form.base
Saved     == io.kind = "save" /\ io'.form = None
Reloaded  == /\ io.kind = "save" /\ io.form # None /\ io'.form \in Forms
             /\ io'.form.id = io.form.id /\ io'.form.draft = io.form.draft
             /\ \A x \in Fields \ excused' : io'.form.base[x] = io.form.base[x]
Refreshed == io.kind = "clear" /\ \E node \in WorkItems : io'.form = Synced(io.form, io.id, node)

\* The steps of a job but its end.
Working == \/ Loads \/ Saves \/ Conflicts \/ Reloads \/ Clears \/ Works
           \/ \E applied \in BOOLEAN : SaveFails(applied)

\* While it works a job touches nothing but the server and its clone.
LEMMA JobWorks ==
  ASSUME FormTyped, Asking, Working
  PROVE  /\ io \in Jobs /\ io # None /\ io' \in Jobs /\ server' \in [Ids -> WorkItems]
         /\ UNCHANGED <<live, form, widgets, loading, search, flight, asked, entered, revived>>
         /\ excused \subseteq excused' /\ excused' \subseteq Fields
         /\ io'.kind = io.kind /\ io'.id = io.id
         /\ io'.entered = io.entered /\ io'.excused = io.excused
         /\ io.st # "done"
         /\ io'.st = "done" \/ io'.form = io.form
         /\ io'.form = io.form \/ Loaded \/ Saved \/ Reloaded \/ Refreshed
<1>1. io # None /\ io \in Jobs
  BY DEF Working, Loads, Saves, Conflicts, Reloads, Clears, Works, SaveFails, FormTyped
<1>2. CASE Loads
  <2>1. PICK f \in {io.form, Draft(io.id, server[io.id])} : io' = [io EXCEPT !.form = f, !.st = "done"]
    <3>1. CASE Done([io EXCEPT !.form = Draft(io.id, server[io.id])])
      BY <3>1, <1>1 DEF Done, Jobs
    <3>2. CASE Done(io)
      <4>1. io' = [io EXCEPT !.form = io.form, !.st = "done"]
        BY <3>2, <1>1 DEF Done, Jobs
      <4> QED
        BY <4>1
    <3> QED
      BY <1>2, <3>1, <3>2 DEF Loads
  <2>2. io.kind = "open" /\ io.id \in Ids /\ io.st = "sent"
    BY <1>1, <1>2 DEF Loads, Asking
  <2>3. /\ Draft(io.id, server[io.id]) \in Forms
        /\ Draft(io.id, server[io.id]).id = io.id
        /\ Draft(io.id, server[io.id]).draft = Draft(io.id, server[io.id]).base
    BY <2>2 DEF Draft, Forms, WorkItems, FormTyped
  <2>4. f \in Forms \cup {None}
    BY <1>1, <2>1, <2>3 DEF Jobs
  <2>5. /\ io' \in Jobs /\ io'.form = f /\ io'.st = "done" /\ io'.kind = io.kind /\ io'.id = io.id
        /\ io'.entered = io.entered /\ io'.excused = io.excused
    <3> HIDE <2>1
    <3>1. io' = [io EXCEPT !.form = f, !.st = "done"]
      BY <2>1
    <3> QED
      BY <1>1, <2>4, <3>1 DEF Jobs
  <2>6. io'.form = io.form \/ Loaded
    BY <2>1, <2>2, <2>3, <2>5 DEF Loaded
  <2> QED
    BY <1>1, <1>2, <2>2, <2>5, <2>6 DEF Loads, FormTyped, store, dialog, marks
<1>3. CASE Saves
  <2>1. io.kind = "save" /\ io.st = "sent" /\ io.form \in Forms
    BY <1>1, <1>3 DEF Saves, Asking, Jobs
  <2> DEFINE item == Written(server[io.form.id], Changed(io.form), io.form.draft)
             row == [rev |-> item.rev, val |-> io.form.draft]
  <2>2. io.form.id \in Ids /\ io.form.draft \in Contents
    BY <2>1 DEF Forms
  <2>3. item \in WorkItems
    BY <2>2, WrittenItem DEF FormTyped
  <2>4. row \in WorkItems
    BY <2>2, <2>3 DEF WorkItems
  <2>5. io' = [io EXCEPT !.live = [io.live EXCEPT ![io.form.id] = row], !.form = None, !.st = "done"]
    <3> HIDE DEF row
    <3>1. Done([io EXCEPT !.live[io.form.id] = row, !.form = None])
      BY <1>3 DEF Saves, row, item
    <3> QED
      BY <1>1, <3>1 DEF Done, Jobs
  <2>6. server' \in [Ids -> WorkItems]
    <3> HIDE DEF item
    <3>1. server' = [server EXCEPT ![io.form.id] = item]
      BY <1>3 DEF Saves, item
    <3> QED
      BY <2>3, <3>1 DEF FormTyped
  <2>7. [io.live EXCEPT ![io.form.id] = row] \in [Ids -> WorkItems]
    <3> HIDE DEF row
    <3> QED
      BY <1>1, <2>4 DEF Jobs
  <2>8. /\ io' \in Jobs /\ io'.form = None /\ io'.st = "done" /\ io'.kind = io.kind
        /\ io'.id = io.id /\ io'.entered = io.entered /\ io'.excused = io.excused
    <3> DEFINE rows == [io.live EXCEPT ![io.form.id] = row]
    <3> HIDE DEF row, rows
    <3>1. io' = [io EXCEPT !.live = rows, !.form = None, !.st = "done"] /\ rows \in [Ids -> WorkItems]
      BY <2>5, <2>7 DEF rows
    <3> QED
      BY <1>1, <3>1 DEF Jobs
  <2> QED
    BY <1>1, <1>3, <2>1, <2>6, <2>8 DEF Saves, Saved, FormTyped, dialog, marks
<1>4. CASE Conflicts
  <2>1. io' = [io EXCEPT !.st = "reload"] /\ io.st = "sent"
    BY <1>4 DEF Conflicts
  <2> QED
    BY <1>1, <1>4, <2>1 DEF Conflicts, Jobs, FormTyped, store, dialog, marks
<1>5. CASE Reloads
  <2>1. io.kind = "save" /\ io.st = "reload" /\ io.form \in Forms /\ io.form # None
    <3>1. io.st = "reload" /\ io.kind = "save"
      BY <1>5, <1>1 DEF Reloads, Asking
    <3> QED
      BY <1>1, <3>1 DEF Asking, Jobs
  <2> DEFINE f == Draft(io.form.id, server[io.form.id])
             g == [f EXCEPT !.draft = io.form.draft]
  <2>2. /\ g \in Forms /\ g.id = io.form.id /\ g.draft = io.form.draft
        /\ g.base = server[io.form.id].val
    BY <2>1 DEF Draft, Forms, WorkItems, FormTyped
  <2>3. excused' = excused \cup {x \in Fields : server[io.form.id].val[x] # io.form.base[x]}
    BY <1>5 DEF Reloads
  <2>4. CASE Done([io EXCEPT !.form = g])
    <3>1. /\ io' \in Jobs /\ io'.form = g /\ io'.st = "done" /\ io'.kind = io.kind
          /\ io'.id = io.id /\ io'.entered = io.entered /\ io'.excused = io.excused
      <4>1. g \in Forms
        BY <2>2
      <4> HIDE DEF g
      <4> QED
        BY <1>1, <4>1, <2>4 DEF Done, Jobs
    <3>2. Reloaded
      <4> HIDE DEF g
      <4> QED
        BY <2>1, <2>2, <2>3, <3>1 DEF Reloaded
    <3> QED
      BY <1>1, <1>5, <2>1, <2>3, <3>1, <3>2 DEF Reloads, FormTyped, store, dialog
  <2>5. CASE Done(io)
    BY <1>1, <1>5, <2>1, <2>3, <2>5 DEF Reloads, Done, Jobs, FormTyped, store, dialog
  <2> QED
    BY <1>5, <2>4, <2>5 DEF Reloads
<1>6. CASE Clears
  <2>1. io.kind = "clear" /\ io.st = "sent" /\ io.id \in Ids
    BY <1>1, <1>6 DEF Clears, Asking
  <2>2. CASE Done(io) /\ server' = server
    BY <1>1, <1>6, <2>1, <2>2 DEF Clears, Done, Jobs, FormTyped, store, dialog, marks
  <2>3. CASE ~(Done(io) /\ server' = server)
    <3> DEFINE item == Written(server[io.id], {"Dates"}, Blank)
               node == [io.live[io.id] EXCEPT !.rev = item.rev, !.val.Dates = None]
               f == Synced(io.form, io.id, node)
               rows == [io.live EXCEPT ![io.id] = node]
    <3>1. item \in WorkItems
      <4>1. Blank \in Contents
        BY DEF Blank, Contents
      <4> QED
        BY <2>1, <4>1, WrittenItem DEF FormTyped
    <3>2. node \in WorkItems
      <4>1. io.live[io.id] \in WorkItems /\ item.rev \in Nat
        BY <1>1, <2>1, <3>1 DEF Jobs, WorkItems
      <4> HIDE DEF item
      <4>2. [io.live[io.id].val EXCEPT !.Dates = None] \in Contents
        BY <4>1 DEF WorkItems, Contents
      <4>3. node = [io.live[io.id] EXCEPT !.rev = item.rev,
                      !.val = [io.live[io.id].val EXCEPT !.Dates = None]]
        BY <4>1 DEF WorkItems
      <4> QED
        BY <4>1, <4>2, <4>3 DEF WorkItems
    <3>3. f \in Forms \cup {None} /\ rows \in [Ids -> WorkItems]
      <4> HIDE DEF node
      <4> QED
        BY <1>1, <2>1, <3>2, SyncedForm DEF Jobs
    <3>4. /\ server' = [server EXCEPT ![io.id] = item]
          /\ Done([io EXCEPT !.live[io.id] = node, !.form = Synced(@, io.id, node)])
      BY <1>6, <2>3 DEF Clears
    <3>5. io' = [io EXCEPT !.live = rows, !.form = f, !.st = "done"]
      <4> HIDE DEF node
      <4> QED
        BY <1>1, <3>4 DEF Done, Jobs
    <3>6. /\ io' \in Jobs /\ io'.form = f /\ io'.st = "done" /\ io'.kind = io.kind
          /\ io'.id = io.id /\ io'.entered = io.entered /\ io'.excused = io.excused
      <4> HIDE DEF f, rows
      <4> QED
        BY <1>1, <3>3, <3>5 DEF Jobs
    <3>7. server' \in [Ids -> WorkItems]
      <4> HIDE DEF item
      <4> QED
        BY <3>1, <3>4 DEF FormTyped
    <3>8. Refreshed
      <4> HIDE DEF node
      <4> QED
        BY <2>1, <3>2, <3>6 DEF Refreshed
    <3> QED
      BY <1>1, <1>6, <2>1, <3>6, <3>7, <3>8 DEF Clears, FormTyped, dialog, marks
  <2> QED
    BY <2>2, <2>3
<1>7. CASE Works
  BY <1>1, <1>7 DEF Works, Done, Jobs, FormTyped, store, dialog, marks
<1>8. ASSUME NEW applied \in BOOLEAN, SaveFails(applied)
      PROVE  /\ io'.form = io.form /\ io' \in Jobs /\ server' \in [Ids -> WorkItems]
             /\ UNCHANGED <<live, dialog, search, flight, marks>>
             /\ io'.kind = io.kind /\ io'.id = io.id /\ io'.st = "done" /\ io.st = "sent"
             /\ io'.entered = io.entered /\ io'.excused = io.excused
  <2>1. Done(io) /\ io.kind = "save" /\ io.st = "sent" /\ io.form \in Forms
    BY <1>1, <1>8 DEF SaveFails, Asking, Jobs
  <2>2. server' \in [Ids -> WorkItems]
    <3> DEFINE item == Written(server[io.form.id], Changed(io.form), io.form.draft)
    <3>1. item \in WorkItems
      BY <2>1, WrittenItem DEF Forms, FormTyped
    <3>2. server' = [server EXCEPT ![io.form.id] = item] \/ server' = server
      BY <1>8 DEF SaveFails
    <3> HIDE DEF item
    <3> QED
      BY <3>1, <3>2 DEF FormTyped
  <2> QED
    BY <1>1, <1>8, <2>1, <2>2 DEF SaveFails, Done, Jobs
<1> QED
  BY <1>1, <1>2, <1>3, <1>4, <1>5, <1>6, <1>7, <1>8 DEF Working, FormTyped, dialog, marks

-----------------------------------------------------------------------------
\* The steps that leave the dialog and the job alone.
LEMMA Elsewhere ==
  ASSUME FormTyped, NEW i \in Ids,
         DatesArrive(i) \/ DatesErr(i) \/ \E x \in Fields, v \in Vals : ForeignEdit(i, x, v)
  PROVE  /\ server' \in [Ids -> WorkItems] /\ live' \in [Ids -> WorkItems]
         /\ flight' \in [Ids -> Flights \cup {None}]
         /\ UNCHANGED <<dialog, io, search, asked, entered, excused, revived>>
<1>1. CASE DatesArrive(i)
  <2>1. flight[i] \in Flights
    BY <1>1 DEF DatesArrive, FormTyped
  <2> DEFINE item == Written(server[i], {"Dates"}, [Blank EXCEPT !.Dates = flight[i].after])
  <2>2. item \in WorkItems
    <3>1. [Blank EXCEPT !.Dates = flight[i].after] \in Contents
      BY <2>1 DEF Blank, Contents, Flights
    <3> QED
      BY <3>1, WrittenItem DEF FormTyped
  <2>3. server' = [server EXCEPT ![i] = item]
    BY <1>1 DEF DatesArrive
  <2>4. server' \in [Ids -> WorkItems]
    <3> HIDE DEF item
    <3> QED
      BY <2>2, <2>3 DEF FormTyped
  <2>5. flight' \in [Ids -> Flights \cup {None}]
    <3>1. server'[i].rev \in Nat
      BY <2>4 DEF WorkItems
    <3>2. flight' = [flight EXCEPT ![i] = [flight[i] EXCEPT !.rev = server'[i].rev]]
      BY <1>1 DEF DatesArrive
    <3>3. [flight[i] EXCEPT !.rev = server'[i].rev] \in Flights
      BY <2>1, <3>1 DEF Flights
    <3> QED
      BY <3>2, <3>3 DEF FormTyped
  <2> QED
    BY <1>1, <2>4, <2>5 DEF DatesArrive, FormTyped, marks
<1>2. CASE DatesErr(i)
  BY <1>2 DEF DatesErr, FormTyped, Flights, marks
<1>3. ASSUME NEW x \in Fields, NEW v \in Vals, ForeignEdit(i, x, v)
      PROVE  server' \in [Ids -> WorkItems]
  <2> DEFINE item == Written(server[i], {x}, [Blank EXCEPT ![x] = v])
  <2>1. item \in WorkItems
    <3>1. [Blank EXCEPT ![x] = v] \in Contents
      BY DEF Blank, Contents
    <3> QED
      BY <3>1, WrittenItem DEF FormTyped
  <2>2. server' = [server EXCEPT ![i] = item]
    BY <1>3 DEF ForeignEdit
  <2> HIDE DEF item
  <2> QED
    BY <2>1, <2>2 DEF FormTyped
<1>4. ASSUME NEW x \in Fields, NEW v \in Vals, ForeignEdit(i, x, v)
      PROVE  UNCHANGED <<live, flight, dialog, io, search, asked, entered, excused, revived>>
  BY <1>4 DEF ForeignEdit, marks
<1> QED
  BY <1>1, <1>2, <1>3, <1>4 DEF FormTyped

\* A row's dates are moved or their save answers: an open form may take them.
Datings(i) == DatesOk(i) \/ \E d \in Vals, undone \in BOOLEAN : MoveDates(i, d, undone)

\* What a date save may change of the form: its revision and its dates.
LEMMA DatesReachForm ==
  ASSUME FormTyped, Asking, NEW i \in Ids, Datings(i)
  PROVE  /\ UNCHANGED <<server, io, search, loading, asked, entered, revived>>
         /\ live' \in [Ids -> WorkItems] /\ flight' \in [Ids -> Flights \cup {None}]
         /\ form' \in Forms \cup {None} /\ widgets' \in Shown \cup {None}
         /\ excused \subseteq excused' /\ excused' \subseteq Fields
         /\ form = None <=> form' = None
         /\ form = None => widgets' = None
         /\ form # None =>
              /\ form'.id = form.id /\ widgets' # None /\ widgets'.id = form.id
              /\ \A x \in Fields \ excused' :
                   /\ form'.draft[x] = form.draft[x] /\ form'.base[x] = form.base[x]
                   /\ x \in Inputs => widgets'.val[x] = widgets.val[x]
<1>1. PICK still \in BOOLEAN, node \in WorkItems :
        /\ form' = IF still THEN Synced(form, i, node) ELSE form
        /\ Renders(IF still THEN Requeued(widgets, form') ELSE widgets)
        /\ excused' = IF still THEN excused \cup {"Dates"} ELSE excused
        /\ live' \in [Ids -> WorkItems] /\ flight' \in [Ids -> Flights \cup {None}]
        /\ UNCHANGED <<server, io, search, loading, asked, entered, revived>>
  <2>1. CASE DatesOk(i)
    <3> DEFINE still == live[i].val.Dates = flight[i].after
    <3>1. flight[i] \in Flights
      BY <2>1 DEF DatesOk, FormTyped
    <3>2. live' \in [Ids -> WorkItems]
      <4>1. live' = [live EXCEPT ![i] = [live[i] EXCEPT !.rev = flight[i].rev]] \/ live' = live
        BY <2>1 DEF DatesOk
      <4>2. [live[i] EXCEPT !.rev = flight[i].rev] \in WorkItems
        BY <3>1 DEF FormTyped, Flights, WorkItems
      <4> QED
        BY <4>1, <4>2 DEF FormTyped
    <3>3. live'[i] \in WorkItems /\ still \in BOOLEAN
      BY <3>2
    <3>4. flight' \in [Ids -> Flights \cup {None}]
      BY <2>1 DEF DatesOk, FormTyped
    <3>5. /\ form' = IF still THEN Synced(form, i, live'[i]) ELSE form
          /\ Renders(IF still THEN Requeued(widgets, form') ELSE widgets)
          /\ excused' = IF still THEN excused \cup {"Dates"} ELSE excused
          /\ UNCHANGED <<server, io, search, loading, asked, entered, revived>>
      BY <2>1 DEF DatesOk
    <3> HIDE DEF still
    <3> QED
      BY <3>2, <3>3, <3>4, <3>5
  <2>2. ASSUME NEW d \in Vals, NEW undone \in BOOLEAN, MoveDates(i, d, undone)
        PROVE  \E still \in BOOLEAN, node \in WorkItems :
                 /\ form' = IF still THEN Synced(form, i, node) ELSE form
                 /\ Renders(IF still THEN Requeued(widgets, form') ELSE widgets)
                 /\ excused' = IF still THEN excused \cup {"Dates"} ELSE excused
                 /\ live' \in [Ids -> WorkItems] /\ flight' \in [Ids -> Flights \cup {None}]
                 /\ UNCHANGED <<server, io, search, loading, asked, entered, revived>>
    <3> DEFINE node == [live[i] EXCEPT !.val.Dates = d]
    <3>1. node \in WorkItems
      <4>1. [live[i].val EXCEPT !.Dates = d] \in Contents /\ live[i] \in WorkItems
        BY DEF FormTyped, WorkItems, Contents
      <4>2. node = [live[i] EXCEPT !.val = [live[i].val EXCEPT !.Dates = d]]
        BY <4>1 DEF WorkItems
      <4> QED
        BY <4>1, <4>2 DEF WorkItems
    <3>2. /\ form' = IF undone THEN Synced(form, i, node) ELSE form
          /\ Renders(IF undone THEN Requeued(widgets, form') ELSE widgets)
          /\ excused' = IF undone THEN excused \cup {"Dates"} ELSE excused
          /\ live' = [live EXCEPT ![i] = node]
          /\ flight' = [flight EXCEPT ![i] = [after |-> d, prev |-> live[i], rev |-> 0]]
          /\ UNCHANGED <<server, io, search, loading, asked, entered, revived>>
      BY <2>2 DEF MoveDates
    <3>3. live' \in [Ids -> WorkItems]
      <4> HIDE DEF node
      <4> QED
        BY <3>1, <3>2 DEF FormTyped
    <3>4. flight' \in [Ids -> Flights \cup {None}]
      <4>1. [after |-> d, prev |-> live[i], rev |-> 0] \in Flights
        BY DEF FormTyped, Flights
      <4> QED
        BY <3>2, <4>1 DEF FormTyped
    <3> HIDE DEF node
    <3> QED
      BY <3>1, <3>2, <3>3, <3>4
  <2> QED
    BY <2>1, <2>2 DEF Datings
<1> DEFINE w == IF still THEN Requeued(widgets, form') ELSE widgets
<1>2. form \in Forms \cup {None} /\ widgets \in Shown \cup {None} /\ (form = None => widgets = None)
  BY DEF FormTyped
<1>3. /\ form' \in Forms \cup {None} /\ (form = None <=> form' = None)
      /\ form # None => form'.id = form.id
      /\ form # None => \A x \in Fields \ excused' :
           form'.draft[x] = form.draft[x] /\ form'.base[x] = form.base[x]
  BY <1>1, <1>2, SyncedForm
<1>4. /\ w \in Shown \cup {None} /\ (widgets = None <=> w = None)
      /\ widgets # None => w.id = widgets.id
      /\ widgets # None => \A x \in Inputs \ excused' : w.val[x] = widgets.val[x]
  BY <1>1, <1>2, <1>3, RequeuedWidgets
<1>5. widgets' = Widgets(w, form', live')
  BY <1>1 DEF Renders
<1>6. /\ widgets' \in Shown \cup {None}
      /\ form' = None => widgets' = None
      /\ form' # None /\ w # None /\ w.id = form'.id => widgets' = w
  <2> HIDE DEF w
  <2> QED
    BY <1>1, <1>3, <1>4, <1>5, WidgetsOfForm
<1>7. form # None => widgets # None /\ widgets.id = form.id
  BY DEF FormTyped
<1>8. form # None => widgets' = w /\ w # None
  <2> HIDE DEF w
  <2> QED
    BY <1>3, <1>4, <1>6, <1>7
<1>9. excused \subseteq excused' /\ excused' \subseteq Fields
  BY <1>1 DEF FormTyped, Fields
<1>10. form # None => \A x \in Inputs \ excused' : widgets'.val[x] = widgets.val[x]
  <2> HIDE DEF w
  <2> QED
    BY <1>4, <1>7, <1>8
<1>11. form # None => widgets' # None /\ widgets'.id = form.id
  <2> HIDE DEF w
  <2> QED
    BY <1>4, <1>7, <1>8
<1> HIDE DEF w
<1> QED
  BY <1>1, <1>2, <1>3, <1>6, <1>9, <1>10, <1>11 DEF Inputs, Fields

-----------------------------------------------------------------------------
\* The form that the end of a job leaves is one nobody has typed in yet.
Anew == form' = None \/ (io.kind = "open" /\ form'.id = asked)

\* The end of a job: its clone's form comes back unless the dialog was closed.
LEMMA JobReturns ==
  ASSUME FormTyped, Asking, JobEnds
  PROVE  /\ io \in Jobs /\ io # None /\ io' = None /\ loading' = None
         /\ UNCHANGED <<server, search, flight>> /\ live' \in [Ids -> WorkItems]
         /\ form' \in Forms \cup {None} /\ widgets' \in Shown \cup {None}
         /\ entered' \in Contents /\ excused' \subseteq Fields
         /\ revived' = IF ~Anew THEN revived ELSE IF search = None THEN "no" ELSE "may"
         /\ revived' = "yes" => excused' = Fields
         /\ form' = None => asked' = None /\ entered' = Blank /\ widgets' = None
         /\ form' # None =>
              /\ form' = io.form /\ asked' = asked
              /\ form'.id = asked \/ revived' = "yes"
              /\ widgets' # None /\ widgets'.id = form'.id
              /\ \A x \in Inputs \ excused' : entered'[x] = None => ~Differs(form', widgets', x)
         /\ Anew => entered' = Blank
         /\ ~Anew /\ revived' # "yes" =>
              /\ entered' = entered /\ excused \subseteq excused'
              /\ form # None /\ form'.id = form.id
              /\ \A x \in Inputs \ excused' : widgets'.val[x] = widgets.val[x]
<1>1. io \in Jobs /\ io # None
  BY DEF JobEnds, FormTyped
<1> DEFINE w == IF io.kind = "clear" THEN Requeued(widgets, form') ELSE widgets
           gone == IF io.kind = "clear" THEN {"Dates"} ELSE {}
<1>2. /\ io' = None /\ loading' = None /\ live' = io.live /\ form' = Adopted
      /\ UNCHANGED <<server, search, flight>>
      /\ asked' = IF form' = None THEN None ELSE asked
      /\ IF Anew THEN Leaves ELSE revived' = revived
      /\ Marked(Anew, gone) /\ Renders(w)
  BY DEF JobEnds, Anew
<1>3. live' \in [Ids -> WorkItems] /\ form' \in Forms \cup {None}
  BY <1>1, <1>2 DEF Adopted, Jobs
<1>4. widgets' = Widgets(w, form', live')
  BY <1>2 DEF Renders
<1>5. widgets \in Shown \cup {None}
  BY DEF FormTyped
<1>6. /\ w \in Shown \cup {None} /\ (widgets = None <=> w = None)
      /\ widgets # None => w.id = widgets.id
      /\ widgets # None => \A x \in Inputs : (io.kind = "clear" /\ x = "Dates") \/ w.val[x] = widgets.val[x]
  BY <1>3, <1>5, RequeuedWidgets
<1> HIDE DEF w
<1>7. /\ widgets' \in Shown \cup {None}
      /\ form' = None => widgets' = None
      /\ form' # None => widgets' # None /\ widgets'.id = form'.id
      /\ form' # None /\ w # None /\ w.id = form'.id => widgets' = w
  BY <1>3, <1>4, <1>6, WidgetsOfForm
<1>8. revived' = IF ~Anew THEN revived ELSE IF search = None THEN "no" ELSE "may"
  BY <1>2 DEF Leaves
<1>9. Blank \in Contents /\ gone \subseteq Fields /\ Inputs \subseteq Fields
  BY DEF Blank, Contents, Fields, Inputs
<1>10. /\ entered' = IF Anew \/ revived' = "yes" THEN Blank ELSE entered
       /\ excused' = IF revived' = "yes" THEN Fields
                     ELSE gone \cup (IF Anew THEN {} ELSE excused)
                          \cup {x \in Inputs : /\ form' # None /\ entered'[x] = None
                                               /\ Differs(form', widgets', x)}
  BY <1>2 DEF Marked
<1>11. entered' \in Contents /\ excused' \subseteq Fields
  BY <1>9, <1>10 DEF FormTyped
<1>12. form' # None => \A x \in Inputs \ excused' : entered'[x] = None => ~Differs(form', widgets', x)
  BY <1>9, <1>10
<1>13. form' # None => form' = io.form /\ (form # None \/ loading # None)
  BY <1>2 DEF Adopted
<1>14. form' # None /\ revived # "yes" =>
         /\ form'.id = asked
         /\ form # None => form'.id = form.id
         /\ io.kind # "open" => form # None
  BY <1>1, <1>13 DEF Asking
<1>15. form' # None => form'.id = asked \/ revived' = "yes"
  <2>1. CASE revived # "yes"
    BY <1>14, <2>1
  <2>2. CASE revived = "yes" /\ ~Anew
    BY <1>8, <2>2
  <2>3. CASE Anew
    BY <2>3 DEF Anew
  <2> QED
    BY <2>1, <2>2, <2>3
<1>16. ASSUME ~Anew, revived' # "yes"
       PROVE  /\ entered' = entered /\ excused \subseteq excused'
              /\ form # None /\ form'.id = form.id
              /\ \A x \in Inputs \ excused' : widgets'.val[x] = widgets.val[x]
  <2>1. revived # "yes" /\ form' # None
    BY <1>8, <1>16 DEF Anew
  <2>2. io.kind # "open"
    BY <1>14, <1>16, <2>1 DEF Anew
  <2>3. form # None /\ form'.id = form.id
    BY <1>14, <2>1, <2>2
  <2>4. widgets # None /\ widgets.id = form.id
    BY <2>3 DEF FormTyped
  <2>5. widgets' = w
    BY <1>6, <1>7, <2>1, <2>3, <2>4
  <2>6. entered' = entered /\ excused \subseteq excused' /\ (io.kind = "clear" => "Dates" \in excused')
    BY <1>10, <1>16
  <2> QED
    BY <1>6, <2>3, <2>4, <2>5, <2>6
<1>17. form' = None => Anew
  BY DEF Anew
<1> QED
  BY <1>1, <1>2, <1>3, <1>7, <1>8, <1>10, <1>11, <1>12, <1>13, <1>15, <1>16, <1>17

\* The end of a Search: the clone's form replaces whatever the dialog holds.
LEMMA SearchReturns ==
  ASSUME FormTyped, Asking, SearchEnds
  PROVE  /\ search \in Jobs /\ search # None /\ search' = None
         /\ UNCHANGED <<server, loading, io, flight, asked>> /\ live' \in [Ids -> WorkItems]
         /\ form' = search.form /\ form' \in Forms /\ form' # None
         /\ widgets' \in Shown /\ widgets' # None /\ widgets'.id = form'.id
         /\ entered' \in Contents /\ excused' \subseteq Fields
         /\ revived' = IF revived = "no" THEN "no" ELSE "yes"
         /\ revived # "no" => excused' = Fields
         /\ revived = "no" =>
              /\ form # None /\ form'.id = form.id /\ widgets' = widgets
              /\ entered' = entered /\ excused \subseteq excused'
              /\ \A x \in Inputs \ excused' : entered'[x] = None => ~Differs(form', widgets', x)
<1>1. /\ search \in Jobs /\ search # None /\ search' = None /\ form' = search.form
      /\ live' = search.live /\ UNCHANGED <<server, loading, io, flight, asked>>
      /\ Renders(widgets) /\ revived' = IF revived = "no" THEN "no" ELSE "yes"
      /\ Marked(FALSE, {})
  BY DEF SearchEnds, FormTyped
<1>2. form' \in Forms /\ form' # None /\ live' \in [Ids -> WorkItems]
  BY <1>1, FormAssumption DEF FormTyped, FormAssumption, Jobs
<1>3. /\ widgets' \in Shown /\ widgets' # None /\ widgets'.id = form'.id
      /\ widgets # None /\ widgets.id = form'.id => widgets' = widgets
  BY <1>1, <1>2, WidgetsOfForm DEF Renders, FormTyped
<1>4. revived = "no" => form # None /\ form'.id = form.id
  BY <1>1 DEF Asking
<1>5. revived = "no" => widgets' = widgets
  BY <1>3, <1>4 DEF FormTyped
<1>6. Blank \in Contents /\ Inputs \subseteq Fields
  BY DEF Blank, Contents, Fields, Inputs
<1>7. /\ entered' = IF revived' = "yes" THEN Blank ELSE entered
      /\ excused' = IF revived' = "yes" THEN Fields
                    ELSE excused \cup {x \in Inputs : /\ form' # None /\ entered'[x] = None
                                                      /\ Differs(form', widgets', x)}
  BY <1>1 DEF Marked
<1>8. entered' \in Contents /\ excused' \subseteq Fields
  BY <1>6, <1>7 DEF FormTyped
<1>9. revived \in {"no", "may", "yes"}
  BY DEF FormTyped
<1> QED
  BY <1>1, <1>2, <1>3, <1>4, <1>5, <1>7, <1>8, <1>9

\* The steps of a form, by what they touch.
LEMMA FormSteps ==
  ASSUME [FormNext]_formVars
  PROVE  \/ \E i \in Ids : OpenForm(i)
         \/ CloseForm \/ SaveForm
         \/ \E x \in Fields, v \in Vals : Enter(x, v)
         \/ \E kind \in {"clear", "other"} : StartJob(kind)
         \/ EmptyDates \/ Search
         \/ Working \/ JobEnds \/ SearchEnds
         \/ \E i \in Ids : Datings(i)
         \/ \E i \in Ids : \/ DatesArrive(i) \/ DatesErr(i)
                           \/ \E x \in Fields, v \in Vals : ForeignEdit(i, x, v)
         \/ UNCHANGED formVars
<1>1. Moved \subseteq Ids
  BY FormAssumption DEF FormAssumption
<1> QED
  BY <1>1 DEF FormNext, UserStep, JobStep, Working, Datings

-----------------------------------------------------------------------------
\* Everything is where the handlers look for it.
LEMMA TypedInit == FormInit => FormTyped
<1> SUFFICES ASSUME FormInit PROVE FormTyped
  OBVIOUS
<1>1. server \in [Ids -> WorkItems]
  BY DEF FormInit, WorkItems, Contents
<1>2. Blank \in Contents
  BY DEF Blank, Contents
<1> QED
  BY <1>1, <1>2 DEF FormInit, FormTyped

\* Emptying the date picker reads the other inputs.
LEMMA DatesEmptied ==
  ASSUME FormTyped, EmptyDates
  PROVE  /\ form \in Forms /\ form # None /\ widgets \in Shown
         /\ form' \in Forms /\ form' # None /\ widgets' \in Shown /\ widgets' # None
         /\ form'.id = form.id /\ form'.rev = form.rev /\ form'.base = form.base
         /\ widgets'.id = widgets.id /\ widgets.id = form.id
         /\ \A x \in Fields \ {"Dates"} :
              /\ form'.draft[x] = Showing(x)
              /\ x \in Inputs => widgets'.val[x] = widgets.val[x]
         /\ excused' = excused \cup {"Dates"} /\ excused' \subseteq Fields
         /\ UNCHANGED <<store, loading, io, search, flight, asked, entered, clouded, revived,
                        foreign, faults>>
<1> DEFINE w == [widgets EXCEPT !.val = [widgets.val EXCEPT !.Dates = None]]
<1>1. form \in Forms /\ form # None /\ widgets \in Shown /\ widgets.id = form.id
  BY DEF EmptyDates, FormTyped
<1>2. /\ w \in Shown /\ w.id = widgets.id
      /\ \A x \in Inputs \ {"Dates"} : w.val[x] = widgets.val[x]
  BY <1>1 DEF Shown, Inputs
<1>3. form' = Read(form, w) /\ widgets' = w
  <2>1. w = [widgets EXCEPT !.val.Dates = None]
    BY <1>1 DEF Shown
  <2> QED
    BY <2>1 DEF EmptyDates
<1>4. /\ excused' = excused \cup {"Dates"} /\ excused' \subseteq Fields
      /\ UNCHANGED <<store, loading, io, search, flight, asked, entered, clouded, revived,
                     foreign, faults>>
  BY DEF EmptyDates, FormTyped, Fields
<1> HIDE DEF w
<1>5. form'.rev = form.rev
  BY <1>1, <1>3 DEF Read, Forms
<1>6. /\ form' \in Forms /\ form'.id = form.id /\ form'.base = form.base
      /\ \A x \in Fields : form'.draft[x] =
           IF x \in Inputs /\ w.val[x] # None THEN w.val[x] ELSE form.draft[x]
  BY <1>1, <1>2, <1>3, ReadForm
<1>7. \A x \in Fields \ {"Dates"} : form'.draft[x] = Showing(x)
  BY <1>2, <1>6 DEF Showing
<1> QED
  BY <1>1, <1>2, <1>3, <1>4, <1>5, <1>6, <1>7, FormAssumption DEF FormAssumption

\* Entering a field reads the inputs if it is one, and nothing else if it is not.
LEMMA FieldEntered ==
  ASSUME FormTyped, NEW y \in Fields, NEW v \in Vals, Enter(y, v)
  PROVE  /\ form \in Forms /\ form # None /\ v # None
         /\ form' \in Forms /\ form' # None /\ widgets' \in Shown /\ widgets' # None
         /\ form'.id = form.id /\ form'.rev = form.rev /\ form'.base = form.base
         /\ widgets'.id = form.id
         /\ form'.draft[y] = v /\ (y \in Inputs => widgets'.val[y] = v)
         /\ \A x \in Fields \ {y} :
              /\ form'.draft[x] \in {form.draft[x], Showing(x)}
              /\ x \in Inputs => widgets'.val[x] = widgets.val[x]
         /\ entered' \in Contents /\ entered'[y] = v
         /\ \A x \in Fields \ {y} : entered'[x] = entered[x]
         /\ excused' \subseteq Fields /\ excused \ {y} \subseteq excused'
         /\ y \notin Inputs /\ (io # None \/ search # None) => y \in excused'
         /\ UNCHANGED <<store, loading, io, search, flight, asked, clouded, revived, foreign, faults>>
<1>1. form \in Forms /\ form # None /\ widgets \in Shown /\ widgets.id = form.id /\ v # None
  BY FormAssumption DEF Enter, FormTyped, FormAssumption
<1>2. /\ entered' = [entered EXCEPT ![y] = v]
      /\ excused' = IF (io = None /\ search = None) \/ y \in Inputs THEN excused \ {y}
                                                                 ELSE excused \cup {y}
      /\ UNCHANGED <<store, loading, io, search, flight, asked, clouded, revived, foreign, faults>>
  BY DEF Enter
<1>3. /\ entered' \in Contents /\ entered'[y] = v
      /\ \A x \in Fields \ {y} : entered'[x] = entered[x]
  BY <1>2 DEF FormTyped, Contents
<1>4. CASE y \in Inputs
  <2> DEFINE w == [widgets EXCEPT !.val = [widgets.val EXCEPT ![y] = v]]
  <2>1. w \in Shown /\ w.id = widgets.id /\ \A x \in Inputs : w.val[x] = IF x = y THEN v ELSE widgets.val[x]
    BY <1>1, <1>4 DEF Shown
  <2>2. form' = Read(form, w) /\ widgets' = w
    <3>1. w = [widgets EXCEPT !.val[y] = v]
      BY <1>1 DEF Shown
    <3> QED
      BY <1>4, <3>1 DEF Enter
  <2> HIDE DEF w
  <2>3. form'.rev = form.rev
    BY <1>1, <2>2 DEF Read, Forms
  <2>4. /\ form' \in Forms /\ form'.id = form.id /\ form'.base = form.base
        /\ \A x \in Fields : form'.draft[x] =
             IF x \in Inputs /\ w.val[x] # None THEN w.val[x] ELSE form.draft[x]
    BY <1>1, <2>1, <2>2, ReadForm
  <2>5. form' # None /\ widgets' # None
    BY <2>1, <2>2, <2>4, FormAssumption DEF FormAssumption
  <2>6. \A x \in Fields \ {y} : form'.draft[x] \in {form.draft[x], Showing(x)}
    BY <2>1, <2>4 DEF Showing
  <2> QED
    BY <1>1, <1>2, <1>3, <1>4, <2>1, <2>2, <2>3, <2>4, <2>5, <2>6 DEF FormTyped
<1>5. CASE y \notin Inputs
  <2>1. form' = [form EXCEPT !.draft = [form.draft EXCEPT ![y] = v]] /\ widgets' = widgets
    BY <1>1, <1>5 DEF Enter, Forms
  <2>2. [form.draft EXCEPT ![y] = v] \in Contents
    BY <1>1 DEF Forms, Contents
  <2>3. /\ form' \in Forms /\ form'.id = form.id /\ form'.base = form.base /\ form'.rev = form.rev
        /\ \A x \in Fields : form'.draft[x] = IF x = y THEN v ELSE form.draft[x]
    BY <1>1, <2>1, <2>2 DEF Forms, Contents
  <2>4. form' # None /\ widgets' # None
    BY <1>1, <2>1, <2>3, FormAssumption DEF FormAssumption
  <2> QED
    BY <1>1, <1>2, <1>3, <1>5, <2>1, <2>3, <2>4 DEF FormTyped
<1> QED
  BY <1>4, <1>5

\* Save reads the inputs.
LEMMA FormRead ==
  ASSUME FormTyped, SaveForm
  PROVE  /\ form \in Forms /\ form # None /\ form' \in Forms /\ form' # None
         /\ form'.id = form.id /\ form'.rev = form.rev /\ form'.base = form.base
         /\ \A x \in Fields : form'.draft[x] = Showing(x)
         /\ UNCHANGED <<store, widgets, loading, search, flight, asked, entered, excused, revived,
                        foreign, faults>>
         /\ \/ io' = io
            \/ /\ io = None /\ io' # None /\ io' \in Jobs
               /\ io'.kind = "save" /\ io'.st = "sent" /\ io'.live = live /\ io'.form = form'
               /\ io'.entered = entered /\ io'.excused = excused
<1>1. form \in Forms /\ form # None /\ widgets \in Shown /\ form' = Read(form, widgets)
  BY DEF SaveForm, FormTyped
<1>2. /\ form' \in Forms /\ form'.id = form.id /\ form'.base = form.base
      /\ \A x \in Fields : form'.draft[x] = Showing(x)
  BY <1>1, ReadForm DEF Showing
<1>3. form'.rev = form.rev
  BY <1>1 DEF Read, Forms
<1>4. /\ UNCHANGED <<store, widgets, loading, search, flight, asked, entered, excused, revived,
                     foreign, faults>>
      /\ \/ io' = io
         \/ io = None /\ io' = [Job("save", form'.id) EXCEPT !.form = form', !.entered = entered,
                                                            !.excused = excused]
  BY DEF SaveForm
<1>5. ASSUME io' = [Job("save", form'.id) EXCEPT !.form = form', !.entered = entered, !.excused = excused]
      PROVE  /\ io' \in Jobs /\ io'.kind = "save" /\ io'.st = "sent" /\ io'.live = live
             /\ io'.form = form' /\ io'.entered = entered /\ io'.excused = excused
  <2>1. Job("save", form'.id) \in Jobs
    BY <1>2, JobTyped DEF Forms
  <2>2. entered \in Contents /\ excused \subseteq Fields
    BY DEF FormTyped
  <2>3. /\ io'.kind = "save" /\ io'.st = "sent" /\ io'.live = live
        /\ io'.form = form' /\ io'.entered = entered /\ io'.excused = excused
    BY <1>5 DEF Job
  <2> QED
    BY <1>2, <1>5, <2>1, <2>2, <2>3 DEF Jobs
<1> QED
  BY <1>1, <1>2, <1>3, <1>4, <1>5, FormAssumption DEF FormAssumption

\* Every step keeps the types.
LEMMA TypedStep ==
  ASSUME FormTyped, Asking, [FormNext]_formVars
  PROVE  FormTyped'
<1>1. ASSUME NEW i \in Ids, OpenForm(i) PROVE FormTyped'
  <2>1. Blank \in Contents
    BY DEF Blank, Contents
  <2>2. io' \in Jobs \cup {None}
    <3>1. CASE io = None
      <4>1. io' = [Job("open", i) EXCEPT !.form = None]
        BY <1>1, <3>1 DEF OpenForm
      <4>2. Job("open", i) \in Jobs
        BY JobTyped
      <4> QED
        BY <4>1, <4>2 DEF Jobs
    <3>2. CASE io # None
      BY <1>1, <3>2 DEF OpenForm, FormTyped
    <3> QED
      BY <3>1, <3>2
  <2>3. loading' \in Ids \cup {None} /\ asked' \in Ids \cup {None}
    BY <1>1 DEF OpenForm
  <2> QED
    BY <1>1, <2>1, <2>2, <2>3 DEF OpenForm, FormTyped, store, Leaves
<1>2. CASE CloseForm
  <2>1. Blank \in Contents
    BY DEF Blank, Contents
  <2> QED
    BY <1>2, <2>1 DEF CloseForm, FormTyped, store, Leaves
<1>3. CASE SaveForm
  BY <1>3, FormRead DEF FormTyped, store
<1>4. ASSUME NEW x \in Fields, NEW v \in Vals, Enter(x, v) PROVE FormTyped'
  BY <1>4, FieldEntered DEF FormTyped, store
<1>5. ASSUME NEW kind \in {"clear", "other"}, StartJob(kind) PROVE FormTyped'
  <2>1. io' \in Jobs
    <3>1. (IF form = None THEN None ELSE form.id) \in Ids \cup {None}
      BY DEF FormTyped, Forms
    <3>2. io' = Job(kind, IF form = None THEN None ELSE form.id)
      BY <1>5 DEF StartJob
    <3> QED
      BY <3>1, <3>2, JobTyped
  <2> QED
    BY <1>5, <2>1 DEF StartJob, FormTyped, store, dialog
<1>6. CASE Working
  BY <1>6, JobWorks DEF FormTyped
<1>7. CASE JobEnds
  BY <1>7, JobReturns DEF FormTyped
<1>8. ASSUME NEW i \in Ids, Datings(i) PROVE FormTyped'
  BY <1>8, DatesReachForm DEF FormTyped
<1>9. ASSUME NEW i \in Ids,
             DatesArrive(i) \/ DatesErr(i) \/ \E x \in Fields, v \in Vals : ForeignEdit(i, x, v)
      PROVE  FormTyped'
  BY <1>9, Elsewhere DEF FormTyped, dialog
<1>10. CASE UNCHANGED formVars
  BY <1>10 DEF FormTyped, formVars, store, dialog, marks
<1>11. CASE EmptyDates
  BY <1>11, DatesEmptied DEF FormTyped, store
<1>12. CASE Search
  <2>1. /\ search' = Job("other", None) /\ form # None
        /\ UNCHANGED <<store, dialog, io, flight, asked, entered, excused, revived>>
    BY <1>12 DEF Search
  <2>2. search' \in Jobs /\ search'.form = form
    BY <2>1, JobTyped DEF Job
  <2> QED
    BY <2>1, <2>2 DEF FormTyped, store, dialog
<1>13. CASE SearchEnds
  BY <1>13, SearchReturns DEF FormTyped
<1> QED
  BY <1>1, <1>2, <1>3, <1>4, <1>5, <1>6, <1>7, <1>8, <1>9, <1>10, <1>11, <1>12, <1>13, FormSteps

-----------------------------------------------------------------------------
\* No job brings back the form of another item than the one asked for.
LEMMA AskingStep ==
  ASSUME FormTyped, Asking, [FormNext]_formVars
  PROVE  Asking'
<1>1. ASSUME NEW i \in Ids, OpenForm(i) PROVE Asking'
  <2>1. CASE io = None
    <3>1. /\ io' = [Job("open", i) EXCEPT !.form = None] /\ loading' = i /\ asked' = i
          /\ form' = None
      BY <1>1, <2>1 DEF OpenForm
    <3>2. Job("open", i) \in Jobs
      BY JobTyped
    <3>3. /\ io'.kind = "open" /\ io'.id = i /\ io'.form = None /\ io'.st = "sent"
          /\ io' \in Jobs
      BY <3>1, <3>2 DEF Job, Jobs
    <3>4. io' # None
      BY <3>3, FormAssumption DEF FormAssumption
    <3>5. search' # None => revived' # "no"
      BY <1>1 DEF OpenForm, Leaves
    <3> QED
      BY <3>1, <3>3, <3>4, <3>5 DEF Asking
  <2>2. CASE io # None
    <3>1. form' = None /\ loading' = None /\ io' = io /\ (search' # None => revived' # "no")
      BY <1>1, <2>2 DEF OpenForm, Leaves
    <3> QED
      BY <3>1 DEF Asking
  <2> QED
    BY <2>1, <2>2
<1>2. CASE CloseForm
  BY <1>2 DEF CloseForm, Leaves, Asking
<1>3. CASE SaveForm
  <2>1. io = None => loading = None
    BY DEF Asking
  <2> QED
    BY <1>3, <2>1, FormRead DEF Asking
<1>4. ASSUME NEW x \in Fields, NEW v \in Vals, Enter(x, v) PROVE Asking'
  BY <1>4, FieldEntered DEF Asking
<1>5. ASSUME NEW kind \in {"clear", "other"}, StartJob(kind) PROVE Asking'
  <2>1. io = None /\ loading = None /\ UNCHANGED <<dialog, search, asked, revived>>
    BY <1>5 DEF StartJob, Asking
  <2>2. /\ io' = Job(kind, IF form = None THEN None ELSE form.id)
        /\ kind = "clear" => form # None
    BY <1>5 DEF StartJob
  <2>3. /\ io'.kind = kind /\ io'.form = form /\ io'.st = "sent"
        /\ kind = "clear" => io'.id = form.id /\ form.id \in Ids
    BY <2>2 DEF Job, FormTyped, Forms
  <2> QED
    BY <2>1, <2>3 DEF Asking, dialog
<1>6. CASE Working
  <2>1. \A node \in WorkItems : io.form # None =>
          Synced(io.form, io.id, node).id = io.form.id
    BY <1>6, JobWorks, SyncedForm DEF Jobs
  <2>2. io' # None
    BY <1>6, JobWorks, FormAssumption DEF FormAssumption
  <2>3. io' # None => io'.form = io.form \/ Loaded \/ Saved \/ Reloaded \/ Refreshed
    BY <1>6, JobWorks
  <2>4. io'.form # None =>
          /\ io'.kind = "open" => io'.form.id = io'.id /\ io'.form.draft = io'.form.base
          /\ form # None => io'.form.id = form.id \/ revived = "yes"
    <3>1. io # None /\ io'.kind = io.kind /\ io'.id = io.id /\ io.form \in Forms \cup {None}
      BY <1>6, JobWorks DEF Jobs
    <3>2. CASE io'.form = io.form
      BY <3>1, <3>2 DEF Asking
    <3>3. CASE Loaded
      BY <3>1, <3>3 DEF Asking, Loaded
    <3>4. CASE Saved
      BY <3>4 DEF Saved
    <3>5. CASE Reloaded
      BY <3>1, <3>5 DEF Asking, Reloaded
    <3>6. CASE Refreshed
      BY <2>1, <3>1, <3>6, SyncedForm DEF Asking, Refreshed
    <3> QED
      BY <2>2, <2>3, <3>2, <3>3, <3>4, <3>5, <3>6
  <2>5. UNCHANGED <<form, loading, asked, search, revived>> /\ io # None
        /\ io'.kind = io.kind /\ io'.id = io.id /\ (io'.st = "done" \/ io'.form = io.form)
        /\ io.st # "done"
    BY <1>6, JobWorks
  <2>6. io'.st = "reload" => io.kind = "save"
    BY <1>6, <2>5, JobWorks DEF Asking, Working, Loads, Saves, Conflicts, Reloads, Clears, Works,
       SaveFails, Done, Jobs
  <2>7. /\ form' # None => form'.id = asked' \/ revived' = "yes"
        /\ loading' # None => asked' = loading' /\ (form' = None \/ revived' = "yes") /\ io' # None
        /\ loading' # None => io'.kind = "open" /\ io'.id = loading'
        /\ search' # None /\ revived' = "no" => form' # None /\ search'.form.id = form'.id
    BY <2>2, <2>5 DEF Asking
  <2>8. /\ io'.kind = "open" => io'.id \in Ids /\ (form' = None \/ revived' = "yes")
        /\ io'.kind = "clear" => io'.id \in Ids
        /\ io'.st = "reload" => io'.kind = "save"
        /\ io'.kind = "save" /\ io'.st # "done" => io'.form # None
    BY <2>2, <2>5, <2>6 DEF Asking
  <2>9. form' = form /\ revived' = revived
    BY <2>5
  <2>10. io'.form # None =>
           /\ io'.kind = "open" => io'.form.id = io'.id /\ io'.form.draft = io'.form.base
           /\ form' # None => io'.form.id = form'.id \/ revived' = "yes"
    BY <2>4, <2>9
  <2> QED
    BY <2>7, <2>8, <2>10 DEF Asking
<1>7. CASE JobEnds
  <2>1. /\ io' = None /\ loading' = None /\ search' = search
        /\ form' # None => form'.id = asked' \/ revived' = "yes"
    BY <1>7, JobReturns
  <2>2. search # None /\ revived' = "no" => ~Anew /\ revived = "no"
    BY <1>7, JobReturns
  <2>3. search # None /\ revived' = "no" => form' # None /\ search.form.id = form'.id
    <3>1. ~Anew /\ revived' # "yes" => form # None /\ form'.id = form.id
      BY <1>7, JobReturns
    <3> QED
      BY <2>2, <3>1 DEF Asking, Anew
  <2> QED
    BY <2>1, <2>3 DEF Asking
<1>8. ASSUME NEW i \in Ids, Datings(i) PROVE Asking'
  BY <1>8, DatesReachForm DEF Asking
<1>9. ASSUME NEW i \in Ids,
             DatesArrive(i) \/ DatesErr(i) \/ \E x \in Fields, v \in Vals : ForeignEdit(i, x, v)
      PROVE  Asking'
  BY <1>9, Elsewhere DEF Asking, dialog
<1>10. CASE UNCHANGED formVars
  BY <1>10 DEF Asking, formVars, dialog, marks
<1>11. CASE EmptyDates
  BY <1>11, DatesEmptied DEF Asking
<1>12. CASE Search
  <2>1. search' = Job("other", None) /\ form # None /\ UNCHANGED <<dialog, io, asked, revived>>
    BY <1>12 DEF Search
  <2>2. search'.form = form
    BY <2>1 DEF Job
  <2> QED
    BY <2>1, <2>2 DEF Asking, dialog
<1>13. CASE SearchEnds
  <2>1. /\ UNCHANGED <<loading, io, asked>> /\ form' # None /\ search' = None
        /\ revived' = IF revived = "no" THEN "no" ELSE "yes"
        /\ revived = "no" => form # None /\ form'.id = form.id
    BY <1>13, SearchReturns
  <2>2. CASE revived = "no"
    BY <2>1, <2>2 DEF Asking
  <2>3. CASE revived # "no"
    <3>1. revived' = "yes"
      BY <2>1, <2>3
    <3> QED
      BY <2>1, <3>1 DEF Asking
  <2> QED
    BY <2>2, <2>3
<1> QED
  BY <1>1, <1>2, <1>3, <1>4, <1>5, <1>6, <1>7, <1>8, <1>9, <1>10, <1>11, <1>12, <1>13, FormSteps

-----------------------------------------------------------------------------
\* An input made from a field that is as it was loaded shows it so.
LEMMA InputSame ==
  ASSUME NEW x \in Inputs, NEW f, NEW b, Same(x, b, f.draft[x])
  PROVE  Same(x, b, InputOf(f, x))
BY FormAssumption DEF FormAssumption, Same, InputOf

\* What the dialog holds of field x after a step.
Kept(x) == /\ entered[x] # None => Typed(x) = entered[x]
           /\ entered[x] = None => Same(x, form.base[x], Showing(x)) /\ Same(x, form.base[x], form.draft[x])

\* A clone that comes back to its own dialog keeps what the dialog held.
LEMMA CloneBack ==
  ASSUME Keeping, form # None, CloneKeeps(form'), entered' = entered,
         NEW x \in Fields \ excused', x \notin excused,
         x \in Inputs => widgets'.val[x] = widgets.val[x],
         x \in Inputs /\ entered'[x] = None => ~Differs(form', widgets', x)
  PROVE  Kept(x)'
<1>1. /\ entered[x] # None => Typed(x) = entered[x]
      /\ entered[x] = None => Same(x, form'.base[x], form'.draft[x])
      /\ entered[x] # None /\ x \notin Inputs => form'.draft[x] = entered[x]
  BY DEF Keeping, CloneKeeps
<1>2. CASE entered[x] # None
  BY <1>1, <1>2 DEF Kept, Typed
<1>3. CASE entered[x] = None
  <2>1. CASE x \in Inputs
    <3>1. Same(x, form'.base[x], InputOf(form', x))
      BY <1>1, <1>3, <2>1, InputSame
    <3>2. widgets'.val[x] \in {None, InputOf(form', x)}
      BY <1>3, <2>1 DEF Differs
    <3> QED
      BY <1>1, <1>3, <3>1, <3>2 DEF Kept, Showing
  <2>2. CASE x \notin Inputs
    BY <1>1, <1>3, <2>2 DEF Kept, Showing
  <2> QED
    BY <2>1, <2>2
<1> QED
  BY <1>2, <1>3

\* The dialog keeps what was entered.
LEMMA KeepingStep ==
  ASSUME FormTyped, Asking, Keeping, Cloned, [FormNext]_formVars
  PROVE  Keeping'
<1> SUFFICES ASSUME form' # None, NEW x \in Fields \ excused' PROVE Kept(x)'
  BY DEF Keeping, Kept
<1>1. ASSUME NEW i \in Ids, OpenForm(i) PROVE FALSE
  BY <1>1 DEF OpenForm
<1>2. CASE CloseForm
  BY <1>2 DEF CloseForm
<1>3. CASE SaveForm
  <2>1. /\ form # None /\ form'.base = form.base /\ form'.draft[x] = Showing(x)
        /\ UNCHANGED <<widgets, entered, excused>>
    BY <1>3, FormRead
  <2> QED
    BY <2>1 DEF Keeping, Kept, Typed, Showing
<1>4. ASSUME NEW y \in Fields, NEW v \in Vals, Enter(y, v) PROVE Kept(x)'
  <2>1. /\ form # None /\ v # None /\ form'.base = form.base
        /\ form'.draft[y] = v /\ (y \in Inputs => widgets'.val[y] = v) /\ entered'[y] = v
        /\ x # y => /\ form'.draft[x] \in {form.draft[x], Showing(x)}
                    /\ x \in Inputs => widgets'.val[x] = widgets.val[x]
                    /\ entered'[x] = entered[x] /\ x \notin excused
    BY <1>4, FieldEntered
  <2>2. CASE x = y
    BY <2>1, <2>2 DEF Kept, Typed
  <2>3. CASE x # y
    BY <2>1, <2>3 DEF Keeping, Kept, Typed, Showing
  <2> QED
    BY <2>2, <2>3
<1>5. ASSUME NEW kind \in {"clear", "other"}, StartJob(kind) PROVE Kept(x)'
  BY <1>5 DEF StartJob, Keeping, Kept, Typed, Showing, dialog
<1>6. CASE Working
  BY <1>6, JobWorks DEF Keeping, Kept, Typed, Showing
<1>7. CASE JobEnds
  <2>1. revived' # "yes" /\ form' = io.form
    BY <1>7, JobReturns
  <2>2. x \in Inputs => (entered'[x] = None => ~Differs(form', widgets', x))
    BY <1>7, JobReturns
  <2>3. CASE Anew
    <3>1. entered' = Blank /\ io.kind = "open" /\ io # None
      BY <1>7, <2>3, JobReturns DEF Anew
    <3>2. form'.draft = form'.base
      BY <2>1, <3>1 DEF Asking
    <3>3. Same(x, form'.base[x], form'.draft[x]) /\ entered'[x] = None
      BY <3>1, <3>2 DEF Same, Blank
    <3>4. Same(x, form'.base[x], Showing(x)')
      <4>1. CASE x \in Inputs
        BY <2>2, <3>3, <4>1, InputSame DEF Differs, Showing
      <4>2. CASE x \notin Inputs
        BY <3>3, <4>2 DEF Showing
      <4> QED
        BY <4>1, <4>2
    <3> QED
      BY <3>3, <3>4 DEF Kept
  <2>4. CASE ~Anew
    <3>1. /\ io # None /\ form # None /\ entered' = entered /\ x \notin excused /\ revived # "yes"
          /\ x \in Inputs => widgets'.val[x] = widgets.val[x]
      BY <1>7, <2>1, <2>4, JobReturns
    <3>2. CloneKeeps(form')
      BY <2>1, <3>1 DEF Cloned
    <3> QED
      BY <2>2, <3>1, <3>2, CloneBack
  <2> QED
    BY <2>3, <2>4
<1>8. ASSUME NEW i \in Ids, Datings(i) PROVE Kept(x)'
  BY <1>8, DatesReachForm DEF Keeping, Kept, Typed, Showing
<1>9. ASSUME NEW i \in Ids,
             DatesArrive(i) \/ DatesErr(i) \/ \E y \in Fields, v \in Vals : ForeignEdit(i, y, v)
      PROVE  Kept(x)'
  BY <1>9, Elsewhere DEF Keeping, Kept, Typed, Showing, dialog
<1>10. CASE UNCHANGED formVars
  BY <1>10 DEF Keeping, Kept, Typed, Showing, formVars, dialog, marks
<1>11. CASE EmptyDates
  <2>1. /\ form # None /\ form'.base = form.base /\ form'.draft[x] = Showing(x)
        /\ x \in Inputs => widgets'.val[x] = widgets.val[x]
        /\ entered' = entered /\ x \notin excused
    BY <1>11, DatesEmptied
  <2> QED
    BY <2>1 DEF Keeping, Kept, Typed, Showing
<1>12. CASE Search
  BY <1>12 DEF Search, Keeping, Kept, Typed, Showing, dialog
<1>13. CASE SearchEnds
  <2>1. /\ search # None /\ revived = "no" /\ form # None /\ form' = search.form
        /\ entered' = entered /\ x \notin excused /\ widgets' = widgets
        /\ x \in Inputs => (entered'[x] = None => ~Differs(form', widgets', x))
    BY <1>13, SearchReturns
  <2>2. CloneKeeps(form')
    BY <2>1 DEF Cloned
  <2> QED
    BY <2>1, <2>2, CloneBack
<1> QED
  BY <1>1, <1>2, <1>3, <1>4, <1>5, <1>6, <1>7, <1>8, <1>9, <1>10, <1>11, <1>12, <1>13, FormSteps

\* A clone has the choices that were made before it was taken.
LEMMA ClonedStep ==
  ASSUME FormTyped, Asking, Keeping, Cloned, [FormNext]_formVars
  PROVE  Cloned'
<1> DEFINE Good(f) == \A x \in Fields \ excused' :
                        /\ entered'[x] = None => Same(x, f.base[x], f.draft[x])
                        /\ entered'[x] # None /\ x \notin Inputs => f.draft[x] = entered'[x]
           InJob == io' # None /\ io'.form # None /\ (form' # None \/ loading' # None) /\ revived' # "yes"
           InSearch == search' # None /\ revived' = "no"
<1> SUFFICES (InJob => Good(io'.form)) /\ (InSearch => Good(search'.form))
  BY DEF Cloned, CloneKeeps
<1>a. ASSUME NEW f, CloneKeeps(f), entered' = entered, excused \subseteq excused' PROVE Good(f)
  BY <1>a DEF CloneKeeps
<1>b. ASSUME NEW f, form # None, entered' = entered, excused' = excused, f.base = form.base,
             \A x \in Fields : f.draft[x] \in {Showing(x), form.draft[x]}
      PROVE  Good(f)
  <2>1. ASSUME NEW x \in Fields \ excused
        PROVE  /\ entered[x] = None => Same(x, f.base[x], f.draft[x])
               /\ entered[x] # None /\ x \notin Inputs => f.draft[x] = entered[x]
    BY <1>b DEF Keeping, Typed, Showing
  <2> QED
    BY <1>b, <2>1
<1>c. /\ io # None /\ io.form # None /\ (form # None \/ loading # None) /\ revived # "yes" =>
           CloneKeeps(io.form)
      /\ search # None /\ revived = "no" => CloneKeeps(search.form)
  BY DEF Cloned
<1> HIDE DEF Good
<1>1. ASSUME NEW i \in Ids, OpenForm(i) PROVE ~InJob /\ ~InSearch
  <2>1. CASE io = None
    <3>1. io' = [Job("open", i) EXCEPT !.form = None]
      BY <1>1, <2>1 DEF OpenForm
    <3>2. io'.form = None
      BY <3>1 DEF Job
    <3> QED
      BY <1>1, <3>2 DEF OpenForm, Leaves
  <2>2. CASE io # None
    BY <1>1, <2>2 DEF OpenForm, Leaves
  <2> QED
    BY <2>1, <2>2
<1>2. CASE CloseForm
  BY <1>2 DEF CloseForm, Leaves
<1>3. CASE SaveForm
  <2>1. /\ form # None /\ form'.base = form.base /\ \A x \in Fields : form'.draft[x] = Showing(x)
        /\ UNCHANGED <<loading, search, entered, excused, revived>>
        /\ io' = io \/ io'.form = form'
    BY <1>3, FormRead
  <2>2. Good(form')
    BY <1>b, <2>1
  <2>3. InJob => Good(io'.form)
    BY <1>a, <1>c, <2>1, <2>2
  <2>4. InSearch => Good(search'.form)
    BY <1>a, <1>c, <2>1
  <2> QED
    BY <2>3, <2>4
<1>4. ASSUME NEW y \in Fields, NEW v \in Vals, Enter(y, v)
      PROVE  (InJob => Good(io'.form)) /\ (InSearch => Good(search'.form))
  <2>1. /\ form # None /\ v # None /\ entered'[y] = v /\ UNCHANGED <<io, search, revived>>
        /\ \A x \in Fields \ {y} : entered'[x] = entered[x]
        /\ excused \ {y} \subseteq excused'
        /\ y \notin Inputs /\ (io # None \/ search # None) => y \in excused'
    BY <1>4, FieldEntered
  <2>2. ASSUME NEW f, CloneKeeps(f), io # None \/ search # None PROVE Good(f)
    <3>1. ASSUME NEW x \in Fields \ excused'
          PROVE  /\ entered'[x] = None => Same(x, f.base[x], f.draft[x])
                 /\ entered'[x] # None /\ x \notin Inputs => f.draft[x] = entered'[x]
      <4>1. CASE x = y
        BY <2>1, <2>2, <4>1
      <4>2. CASE x # y
        BY <2>1, <2>2, <4>2 DEF CloneKeeps
      <4> QED
        BY <4>1, <4>2
    <3> QED
      BY <3>1 DEF Good
  <2> QED
    BY <1>c, <2>1, <2>2
<1>5. ASSUME NEW kind \in {"clear", "other"}, StartJob(kind)
      PROVE  (InJob => Good(io'.form)) /\ (InSearch => Good(search'.form))
  <2>1. io'.form = form /\ UNCHANGED <<dialog, search, entered, excused, revived>>
    BY <1>5 DEF StartJob, Job
  <2>2. form # None => Good(form)
    BY <1>b, <2>1
  <2> QED
    BY <1>a, <1>c, <2>1, <2>2
<1>6. CASE Working
  <2>1. /\ io # None /\ UNCHANGED <<form, loading, search, entered, revived>>
        /\ excused \subseteq excused' /\ io.form \in Forms \cup {None}
        /\ io'.form = io.form \/ Loaded \/ Saved \/ Reloaded \/ Refreshed
    BY <1>6, JobWorks DEF Jobs
  <2>2. InSearch => Good(search'.form)
    BY <1>a, <1>c, <2>1
  <2>3. ASSUME InJob PROVE Good(io'.form)
    <3>1. ASSUME NEW x \in Fields \ excused'
          PROVE  /\ entered'[x] = None => Same(x, io'.form.base[x], io'.form.draft[x])
                 /\ entered'[x] # None /\ x \notin Inputs => io'.form.draft[x] = entered'[x]
      <4>1. io.form # None =>
              /\ entered[x] = None => Same(x, io.form.base[x], io.form.draft[x])
              /\ entered[x] # None /\ x \notin Inputs => io.form.draft[x] = entered[x]
        BY <1>c, <2>1, <2>3 DEF CloneKeeps
      <4>2. CASE io'.form = io.form
        BY <2>1, <2>3, <4>1, <4>2
      <4>3. CASE Loaded
        <5>1. form = None /\ entered[x] = None
          BY <2>1, <2>3, <4>3 DEF Loaded, Asking, FormTyped, Blank
        <5> QED
          BY <2>1, <4>3, <5>1 DEF Loaded, Same
      <4>4. CASE Saved
        BY <2>3, <4>4 DEF Saved
      <4>5. CASE Reloaded
        BY <2>1, <4>1, <4>5 DEF Reloaded
      <4>6. CASE Refreshed
        <5>1. PICK node \in WorkItems : io'.form = Synced(io.form, io.id, node)
          BY <4>6 DEF Refreshed
        <5>2. /\ io.form # None
              /\ x # "Dates" => io'.form.draft[x] = io.form.draft[x] /\ io'.form.base[x] = io.form.base[x]
              /\ io.form.draft.Dates = io.form.base.Dates => io'.form.draft.Dates = io'.form.base.Dates
          BY <2>1, <2>3, <5>1, SyncedForm
        <5>3. CASE x = "Dates"
          BY <2>1, <4>1, <5>2, <5>3 DEF Same, Inputs
        <5>4. CASE x # "Dates"
          BY <2>1, <4>1, <5>2, <5>4
        <5> QED
          BY <5>3, <5>4
      <4> QED
        BY <2>1, <4>2, <4>3, <4>4, <4>5, <4>6
    <3> QED
      BY <3>1 DEF Good
  <2> QED
    BY <2>2, <2>3
<1>7. CASE JobEnds
  <2>1. /\ io' = None /\ search' = search
        /\ revived' = IF ~Anew THEN revived ELSE IF search = None THEN "no" ELSE "may"
        /\ ~Anew /\ revived' # "yes" => entered' = entered /\ excused \subseteq excused'
    BY <1>7, JobReturns
  <2>2. InSearch => ~Anew /\ revived = "no"
    BY <2>1
  <2> QED
    BY <1>a, <1>c, <2>1, <2>2
<1>8. ASSUME NEW i \in Ids, Datings(i)
      PROVE  (InJob => Good(io'.form)) /\ (InSearch => Good(search'.form))
  <2>1. /\ UNCHANGED <<io, search, loading, entered, revived>> /\ excused \subseteq excused'
        /\ form = None <=> form' = None
    BY <1>8, DatesReachForm
  <2> QED
    BY <1>a, <1>c, <2>1
<1>9. ASSUME NEW i \in Ids,
             DatesArrive(i) \/ DatesErr(i) \/ \E y \in Fields, v \in Vals : ForeignEdit(i, y, v)
      PROVE  (InJob => Good(io'.form)) /\ (InSearch => Good(search'.form))
  <2>1. UNCHANGED <<form, loading, io, search, entered, excused, revived>>
    BY <1>9, Elsewhere DEF dialog
  <2> QED
    BY <1>a, <1>c, <2>1
<1>10. CASE UNCHANGED formVars
  <2>1. UNCHANGED <<form, loading, io, search, entered, excused, revived>>
    BY <1>10 DEF formVars, dialog, marks
  <2> QED
    BY <1>a, <1>c, <2>1
<1>11. CASE EmptyDates
  <2>1. /\ form # None /\ excused \subseteq excused'
        /\ UNCHANGED <<loading, io, search, entered, revived>>
    BY <1>11, DatesEmptied
  <2> QED
    BY <1>a, <1>c, <2>1
<1>12. CASE Search
  <2>1. /\ form # None /\ search' = Job("other", None)
        /\ UNCHANGED <<form, loading, io, entered, excused, revived>>
    BY <1>12 DEF Search, dialog
  <2>2. search'.form = form
    BY <2>1 DEF Job
  <2>3. Good(form)
    BY <1>b, <2>1
  <2> QED
    BY <1>a, <1>c, <2>1, <2>2, <2>3
<1>13. CASE SearchEnds
  <2>1. /\ search' = None /\ io' = io
        /\ revived' = IF revived = "no" THEN "no" ELSE "yes"
        /\ revived = "no" => form # None /\ entered' = entered /\ excused \subseteq excused'
    BY <1>13, SearchReturns
  <2>2. InJob => revived = "no"
    BY <2>1
  <2> QED
    BY <1>a, <1>c, <2>1, <2>2
<1> QED
  BY <1>1, <1>2, <1>3, <1>4, <1>5, <1>6, <1>7, <1>8, <1>9, <1>10, <1>11, <1>12, <1>13, FormSteps

\* A save that has started carries what was entered, until it answers.
LEMMA SendingStep ==
  ASSUME FormTyped, Asking, Keeping, Sending, [FormNext]_formVars
  PROVE  Sending'
<1>1. ASSUME NEW i \in Ids, OpenForm(i) PROVE Sending'
  <2>1. CASE io = None
    <3>1. io' = [Job("open", i) EXCEPT !.form = None]
      BY <1>1, <2>1 DEF OpenForm
    <3>2. io'.kind = "open"
      BY <3>1 DEF Job
    <3> QED
      BY <3>2 DEF Sending
  <2>2. CASE io # None
    BY <1>1, <2>2 DEF OpenForm, Sending
  <2> QED
    BY <2>1, <2>2
<1>2. CASE CloseForm \/ EmptyDates \/ Search \/ SearchEnds
  BY <1>2 DEF CloseForm, EmptyDates, Search, SearchEnds, Sending
<1>3. CASE SaveForm
  <2>1. /\ form # None /\ form'.base = form.base /\ \A x \in Fields : form'.draft[x] = Showing(x)
        /\ io' = io \/ (io'.form = form' /\ io'.entered = entered /\ io'.excused = excused)
    BY <1>3, FormRead
  <2>2. CASE io' = io
    BY <2>2 DEF Sending
  <2>3. CASE io'.form = form' /\ io'.entered = entered /\ io'.excused = excused
    <3>1. \A x \in Fields \ excused :
            /\ entered[x] # None => Showing(x) = entered[x]
            /\ entered[x] = None => Same(x, form.base[x], Showing(x))
      BY <2>1 DEF Keeping, Typed, Showing
    <3> QED
      BY <2>1, <2>3, <3>1 DEF Sending
  <2> QED
    BY <2>1, <2>2, <2>3
<1>4. ASSUME NEW x \in Fields, NEW v \in Vals, Enter(x, v) PROVE Sending'
  BY <1>4 DEF Enter, Sending
<1>5. ASSUME NEW kind \in {"clear", "other"}, StartJob(kind) PROVE Sending'
  <2>1. io'.kind = kind
    BY <1>5 DEF StartJob, Job
  <2> QED
    BY <2>1 DEF Sending
<1>6. CASE Working
  BY <1>6, JobWorks DEF Sending
<1>7. CASE JobEnds
  BY <1>7, JobReturns DEF Sending
<1>8. ASSUME NEW i \in Ids, Datings(i) PROVE Sending'
  BY <1>8, DatesReachForm DEF Sending
<1>9. ASSUME NEW i \in Ids,
             DatesArrive(i) \/ DatesErr(i) \/ \E x \in Fields, v \in Vals : ForeignEdit(i, x, v)
      PROVE  Sending'
  BY <1>9, Elsewhere DEF Sending
<1>10. CASE UNCHANGED formVars
  BY <1>10 DEF Sending, formVars
<1> QED
  BY <1>1, <1>2, <1>3, <1>4, <1>5, <1>6, <1>7, <1>8, <1>9, <1>10, FormSteps


-----------------------------------------------------------------------------
\* The invariant holds when the dialog is closed and nothing runs.
LEMMA FormInvInit == FormInit => FormInv
<1>1. FormInit => form = None /\ loading = None /\ io = None /\ search = None
  BY DEF FormInit
<1>2. FormInit => Asking /\ Keeping /\ Cloned /\ Sending
  BY <1>1 DEF Asking, Keeping, Cloned, Sending
<1> QED
  BY <1>2, TypedInit DEF FormInv

\* Every step keeps it.
LEMMA FormInvStep == FormInv /\ [FormNext]_formVars => FormInv'
  BY TypedStep, AskingStep, KeepingStep, ClonedStep, SendingStep DEF FormInv

\* The inductive invariant of the form (open_form, save_form, adopt_spawned).
THEOREM FormInvariant == FormSpec => []FormInv
  BY FormInvInit, FormInvStep, PTL DEF FormSpec

\* The dialog never shows another item than the one last asked for, whichever
\* job ends and whatever was closed meanwhile (ui.rs open_form, discard_form), but for
\* a form that the end of a Search has brought back (adopt_spawned).
THEOREM FormStaysAsked == FormSpec => []FormIsAsked
<1>1. FormInv => FormIsAsked
  BY DEF FormInv, Asking, FormIsAsked
<1> QED
  BY <1>1, FormInvariant, PTL

\* A save carries nothing that the user did not enter (build_form_patch), but for a
\* text that was not set and is read back as empty (sync_form_inputs).
THEOREM SavesOnlyEntered == FormSpec => OnlyEnteredSaved
<1> DEFINE A == Saves => \A x \in Changed(io.form) :
                  io.entered[x] # None \/ x \in io.excused \/ ReadAsEmpty(io.form, x)
<1>1. FormInv => A
  <2> SUFFICES ASSUME FormInv, Saves, NEW x \in Changed(io.form), io.entered[x] = None, x \notin io.excused
               PROVE  ReadAsEmpty(io.form, x)
    OBVIOUS
  <2>1. io # None /\ io.kind = "save" /\ io.st = "sent"
    BY DEF Saves
  <2>2. x \in Fields /\ io.form.draft[x] # io.form.base[x]
    BY DEF Changed
  <2>3. Same(x, io.form.base[x], io.form.draft[x])
    BY <2>1, <2>2 DEF FormInv, Sending
  <2> QED
    BY <2>2, <2>3 DEF Same, ReadAsEmpty
<1>2. FormInv /\ [FormNext]_formVars => [A]_formVars
  BY <1>1
<1> QED
  BY <1>2, FormInvariant, PTL DEF FormSpec, OnlyEnteredSaved

\* What was entered is on the server once the save answers Ok (save_form).
THEOREM EnteredIsSaved == FormSpec => EnteredIsStored
<1> DEFINE A == Saves => \A x \in Fields \ io.excused : io.entered[x] # None =>
                  io.entered[x] \in {server'[io.form.id].val[x], io.form.base[x]}
<1>1. FormInv => A
  <2> SUFFICES ASSUME FormInv, Saves, NEW x \in Fields \ io.excused, io.entered[x] # None
               PROVE  io.entered[x] \in {server'[io.form.id].val[x], io.form.base[x]}
    OBVIOUS
  <2>1. io # None /\ io.kind = "save" /\ io.st = "sent"
    BY DEF Saves
  <2>2. io.form.draft[x] = io.entered[x]
    BY <2>1 DEF FormInv, Sending
  <2>3. io.form \in Forms
    BY <2>1 DEF FormInv, FormTyped, Asking, Jobs
  <2>4. server' = [server EXCEPT ![io.form.id] = Written(server[io.form.id], Changed(io.form), io.form.draft)]
    BY DEF Saves
  <2>5. server'[io.form.id] = Written(server[io.form.id], Changed(io.form), io.form.draft)
    BY <2>3, <2>4 DEF FormInv, FormTyped, Forms
  <2>6. x \in Changed(io.form) => server'[io.form.id].val[x] = io.form.draft[x]
    BY <2>5 DEF Written
  <2> QED
    BY <2>2, <2>6 DEF Changed
<1>2. FormInv /\ [FormNext]_formVars => [A]_formVars
  BY <1>1
<1> QED
  BY <1>2, FormInvariant, PTL DEF FormSpec, EnteredIsStored

-----------------------------------------------------------------------------
(***************************************************************************)
(* Form: whose revision a Save tests.                                      *)
(***************************************************************************)
\* Nobody else edited, every request answered Ok, and no two of a date save, a job and
\* a Search overlapped.
Alone == foreign = 0 /\ faults = 0 /\ clouded = FALSE

\* The row of item i has the server's revision, or its PATCH brings it.
RowFresh(i) ==
  IF flight[i] = None THEN live[i].rev = server[i].rev
  ELSE /\ live[i].val.Dates = flight[i].after
       /\ server[i].rev = IF flight[i].rev = 0 THEN live[i].rev ELSE flight[i].rev

\* So have the rows and the form, or those that the running job will bring back.
RevsFresh ==
  /\ io = None => /\ \A i \in Ids : RowFresh(i)
                  /\ form # None /\ flight[form.id] = None => form.rev = server[form.id].rev
  /\ io # None => /\ \A i \in Ids : flight[i] = None /\ io.live[i].rev = server[i].rev
                  /\ io.form # None => io.form.rev = server[io.form.id].rev
                  /\ io.st # "reload"

\* And those that a Search will bring back, beside which nothing else runs.
SearchFresh ==
  search # None => /\ io = None
                   /\ \A i \in Ids : flight[i] = None /\ search.live[i].rev = server[i].rev
                   /\ search.form.rev = server[search.form.id].rev

OwnInv ==
  /\ clouded \in BOOLEAN /\ foreign \in Nat /\ faults \in Nat
  /\ Alone => RevsFresh /\ SearchFresh

\* A form that adopts an item of its own takes its revision.
LEMMA SyncedRev ==
  ASSUME NEW f \in Forms \cup {None}, f # None, NEW i, NEW node
  PROVE  Synced(f, i, node).id = f.id /\ Synced(f, i, node).rev = IF f.id = i THEN node.rev ELSE f.rev
BY FormAssumption DEF FormAssumption, Synced, Forms

\* A job starts with the revisions of the planner.
LEMMA JobRevs ==
  ASSUME FormTyped, Alone, RevsFresh, io = None, Alone', FormTyped', UNCHANGED <<server, flight>>,
         io' # None => \A i \in Ids : flight'[i] = None,
         io' # None => /\ io'.live = live /\ io'.st # "reload"
                       /\ io'.form # None => form # None /\ io'.form.id = form.id /\ io'.form.rev = form.rev,
         live' = live,
         form' # None => form # None /\ form'.id = form.id /\ form'.rev = form.rev
  PROVE  RevsFresh'
<1>1. /\ \A i \in Ids : RowFresh(i)
      /\ form # None /\ flight[form.id] = None => form.rev = server[form.id].rev
  BY DEF RevsFresh
<1>2. form # None => form.id \in Ids
  BY DEF FormTyped, Forms
<1>3. CASE io' = None
  BY <1>1, <1>3 DEF RevsFresh, RowFresh
<1>4. CASE io' # None
  <2>1. \A i \in Ids : flight[i] = None /\ flight'[i] = None
    BY <1>4
  <2>2. \A i \in Ids : io'.live[i].rev = server'[i].rev
    BY <1>1, <1>4, <2>1 DEF RowFresh
  <2>3. io'.form # None => io'.form.rev = server'[io'.form.id].rev
    BY <1>1, <1>2, <1>4, <2>1
  <2> QED
    BY <1>4, <2>1, <2>2, <2>3 DEF RevsFresh
<1> QED
  BY <1>3, <1>4

\* Edits of others, faults and overlaps are counted for good.
LEMMA AloneStep ==
  ASSUME FormTyped, Asking, OwnInv, [FormNext]_formVars
  PROVE  /\ clouded' \in BOOLEAN /\ foreign' \in Nat /\ faults' \in Nat
         /\ Alone' => Alone /\ UNCHANGED <<foreign, faults>>
<1>1. clouded \in BOOLEAN /\ foreign \in Nat /\ faults \in Nat
  BY DEF OwnInv
<1>2. clouded' = clouded \/ Overlap
  <2>1. Working => clouded' = clouded
    BY DEF Working, Loads, Saves, Conflicts, Reloads, Clears, Works, SaveFails, marks
  <2>2. (\E i \in Ids : Datings(i)) => clouded' = clouded \/ Overlap
    BY DEF Datings, DatesOk, MoveDates
  <2>3. JobEnds \/ SearchEnds \/ CloseForm \/ EmptyDates \/ (\E x \in Fields, v \in Vals : Enter(x, v))
        => clouded' = clouded
    BY DEF JobEnds, SearchEnds, CloseForm, EmptyDates, Enter
  <2>4. (\E i \in Ids : OpenForm(i)) \/ SaveForm \/ Search \/ (\E kind \in {"clear", "other"} : StartJob(kind))
        => Overlap
    BY DEF OpenForm, SaveForm, Search, StartJob
  <2>5. (\E i \in Ids : \/ DatesArrive(i) \/ DatesErr(i)
                        \/ \E x \in Fields, v \in Vals : ForeignEdit(i, x, v)) => clouded' = clouded
    BY DEF DatesArrive, DatesErr, ForeignEdit, marks
  <2>6. UNCHANGED formVars => clouded' = clouded
    BY DEF formVars, marks
  <2> QED
    BY <2>1, <2>2, <2>3, <2>4, <2>5, <2>6, FormSteps
<1>3. clouded' \in BOOLEAN /\ (clouded' = FALSE => clouded = FALSE)
  BY <1>1, <1>2 DEF Overlap, Flying
<1>4. /\ foreign' = foreign \/ foreign' = foreign + 1
      /\ faults' = faults \/ faults' = faults + 1
  <2>1. Working => foreign' = foreign /\ (faults' = faults \/ faults' = faults + 1)
    BY DEF Working, Loads, Saves, Conflicts, Reloads, Clears, Works, SaveFails, counters, Fault
  <2>2. (\E i \in Ids : Datings(i)) => foreign' = foreign /\ faults' = faults
    BY DEF Datings, DatesOk, MoveDates, counters
  <2>3. JobEnds \/ SearchEnds \/ CloseForm \/ EmptyDates \/ (\E x \in Fields, v \in Vals : Enter(x, v))
        => foreign' = foreign /\ faults' = faults
    BY DEF JobEnds, SearchEnds, CloseForm, EmptyDates, Enter, counters
  <2>4. (\E i \in Ids : OpenForm(i)) \/ SaveForm \/ Search \/ (\E kind \in {"clear", "other"} : StartJob(kind))
        => foreign' = foreign /\ faults' = faults
    BY DEF OpenForm, SaveForm, Search, StartJob
  <2>5. (\E i \in Ids : \/ DatesArrive(i) \/ DatesErr(i)
                        \/ \E x \in Fields, v \in Vals : ForeignEdit(i, x, v))
        => /\ foreign' = foreign \/ foreign' = foreign + 1
           /\ faults' = faults \/ faults' = faults + 1
    BY DEF DatesArrive, DatesErr, ForeignEdit, Fault, counters
  <2>6. UNCHANGED formVars => foreign' = foreign /\ faults' = faults
    BY DEF formVars, counters
  <2> QED
    BY <2>1, <2>2, <2>3, <2>4, <2>5, <2>6, FormSteps
<1>5. foreign' \in Nat /\ faults' \in Nat /\ (foreign' = 0 => foreign' = foreign) /\ (faults' = 0 => faults' = faults)
  BY <1>1, <1>4
<1> QED
  BY <1>3, <1>5 DEF Alone

\* With nobody else about every step leaves the revisions as the server has them.
LEMMA RevsStep ==
  ASSUME FormInv, FormInv', Alone, Alone', UNCHANGED <<foreign, faults>>, RevsFresh, SearchFresh,
         foreign \in Nat, faults \in Nat, [FormNext]_formVars
  PROVE  RevsFresh'
<1>1. /\ server \in [Ids -> WorkItems] /\ live \in [Ids -> WorkItems]
      /\ form \in Forms \cup {None} /\ io \in Jobs \cup {None}
      /\ flight \in [Ids -> Flights \cup {None}] /\ FormTyped /\ FormTyped' /\ Asking
      /\ form # None => form.id \in Ids
  BY DEF FormInv, FormTyped, Forms
<1>2. io' # None /\ Overlap => \A i \in Ids : flight'[i] = None
  BY DEF Overlap, Flying, Alone
<1>3. ~Fault
  BY DEF Fault
<1>4. ASSUME NEW i \in Ids, OpenForm(i) PROVE RevsFresh'
  <2>1. form' = None /\ UNCHANGED <<server, live, flight>> /\ Overlap
    BY <1>4 DEF OpenForm, store
  <2>2. CASE io = None
    <3>1. io' = [Job("open", i) EXCEPT !.form = None]
      BY <1>4, <2>2 DEF OpenForm
    <3>2. io'.live = live /\ io'.st = "sent" /\ io'.form = None
      BY <3>1 DEF Job
    <3> QED
      BY <1>1, <1>2, <2>1, <2>2, <3>2, JobRevs
  <2>3. CASE io # None
    <3>1. io' = io
      BY <1>4, <2>3 DEF OpenForm
    <3> QED
      BY <2>1, <2>3, <3>1 DEF RevsFresh
  <2> QED
    BY <2>2, <2>3
<1>5. CASE CloseForm
  BY <1>5 DEF CloseForm, store, RevsFresh, RowFresh
<1>6. CASE SaveForm
  <2>1. /\ form # None /\ form'.id = form.id /\ form'.rev = form.rev
        /\ UNCHANGED <<server, live, flight>> /\ Overlap
        /\ \/ io' = io
           \/ io = None /\ io'.live = live /\ io'.st = "sent" /\ io'.form = form'
    BY <1>1, <1>6, FormRead DEF SaveForm, store
  <2>2. CASE io = None
    BY <1>1, <1>2, <2>1, <2>2, JobRevs
  <2>3. CASE io # None
    BY <2>1, <2>3 DEF RevsFresh
  <2> QED
    BY <2>2, <2>3
<1>7. CASE EmptyDates \/ \E x \in Fields, v \in Vals : Enter(x, v)
  <2>1. /\ form # None /\ form'.id = form.id /\ form'.rev = form.rev
        /\ UNCHANGED <<server, live, flight, io>>
    BY <1>1, <1>7, DatesEmptied, FieldEntered DEF store
  <2> QED
    BY <2>1 DEF RevsFresh, RowFresh
<1>8. ASSUME NEW kind \in {"clear", "other"}, StartJob(kind) PROVE RevsFresh'
  <2>1. /\ io = None /\ UNCHANGED <<server, live, flight, form>> /\ Overlap
        /\ io' = Job(kind, IF form = None THEN None ELSE form.id)
    BY <1>8 DEF StartJob, store, dialog
  <2>2. io'.live = live /\ io'.st = "sent" /\ io'.form = form
    BY <2>1 DEF Job
  <2> QED
    BY <1>1, <1>2, <2>1, <2>2, JobRevs
<1>9. CASE Working
  <2>1. /\ io # None /\ io \in Jobs /\ UNCHANGED <<live, form, flight>> /\ io' \in Jobs /\ io' # None
    BY <1>1, <1>9, JobWorks, FormAssumption DEF FormAssumption
  <2>2. /\ \A i \in Ids : flight[i] = None /\ io.live[i].rev = server[i].rev
        /\ io.form # None => io.form.rev = server[io.form.id].rev
        /\ io.st # "reload"
    BY <2>1 DEF RevsFresh
  <2>3. io.live \in [Ids -> WorkItems] /\ io.form \in Forms \cup {None} /\ (io.form # None => io.form.id \in Ids)
    BY <2>1 DEF Jobs, Forms
  <2>4. ASSUME io'.st # "reload", \A i \in Ids : io'.live[i].rev = server'[i].rev,
               io'.form # None => io'.form.rev = server'[io'.form.id].rev
        PROVE  RevsFresh'
    BY <2>1, <2>2, <2>4 DEF RevsFresh
  <2>5. CASE Loads
    <3>1. Done([io EXCEPT !.form = Draft(io.id, server[io.id])]) /\ server' = server
      BY <1>3, <2>5 DEF Loads, store
    <3>2. io' = [io EXCEPT !.form = Draft(io.id, server[io.id]), !.st = "done"]
      BY <3>1 DEF Done
    <3>3. io'.live = io.live /\ io'.st = "done" /\ io'.form = Draft(io.id, server[io.id])
      BY <2>1, <3>2 DEF Jobs
    <3> QED
      BY <2>2, <2>4, <3>1, <3>3 DEF Draft
  <2>6. CASE Saves
    <3> DEFINE f == io.form
               item == Written(server[f.id], Changed(f), f.draft)
               row == [rev |-> item.rev, val |-> f.draft]
    <3>1. io.form # None
      BY <1>1, <2>6 DEF Saves, Asking
    <3>2. /\ server' = [server EXCEPT ![f.id] = item]
          /\ io' = [[io EXCEPT !.live[f.id] = row, !.form = None] EXCEPT !.st = "done"]
      BY <2>6 DEF Saves, Done
    <3>3. io'.live = [io.live EXCEPT ![f.id] = row] /\ io'.form = None /\ io'.st = "done"
      BY <2>1, <3>2 DEF Jobs
    <3>4. row.rev = item.rev /\ f.id \in Ids
      BY <2>3, <3>1
    <3> HIDE DEF f, item, row
    <3> QED
      BY <1>1, <2>2, <2>3, <2>4, <3>2, <3>3, <3>4
  <2>7. CASE Clears
    <3> DEFINE i == io.id
               item == Written(server[i], {"Dates"}, Blank)
               node == [io.live[i] EXCEPT !.rev = item.rev, !.val.Dates = None]
    <3>1. /\ server' = [server EXCEPT ![i] = item]
          /\ io' = [[io EXCEPT !.live[i] = node, !.form = Synced(@, i, node)] EXCEPT !.st = "done"]
      BY <1>3, <2>7 DEF Clears, Done
    <3>2. i \in Ids
      BY <1>1, <2>7 DEF Clears, Asking
    <3>3. io'.live = [io.live EXCEPT ![i] = node] /\ io'.form = Synced(io.form, i, node) /\ io'.st = "done"
      BY <2>1, <3>1 DEF Jobs
    <3>4. node.rev = item.rev
      BY <2>3, <3>2 DEF WorkItems
    <3> HIDE DEF i, item, node
    <3>5. \A j \in Ids : io'.live[j].rev = server'[j].rev
      BY <1>1, <2>2, <2>3, <3>1, <3>2, <3>3, <3>4
    <3>6. CASE io.form = None
      BY <2>4, <3>3, <3>5, <3>6 DEF Synced
    <3>7. CASE io.form # None
      <4>1. /\ io'.form.id = io.form.id
            /\ io'.form.rev = IF io.form.id = i THEN node.rev ELSE io.form.rev
        BY <2>3, <3>3, <3>7, SyncedRev
      <4> QED
        BY <1>1, <2>2, <2>3, <2>4, <3>1, <3>2, <3>3, <3>4, <3>5, <3>7, <4>1
    <3> QED
      BY <3>6, <3>7
  <2>8. CASE Works
    <3>1. io' = [io EXCEPT !.st = "done"] /\ server' = server
      BY <2>8 DEF Works, Done, store
    <3>2. io'.live = io.live /\ io'.form = io.form /\ io'.st = "done"
      BY <2>1, <3>1 DEF Jobs
    <3> QED
      BY <2>2, <2>4, <3>1, <3>2
  <2>9. CASE Conflicts
    <3>1. io.kind = "save" /\ io.st = "sent" /\ server[io.form.id].rev # io.form.rev
      BY <2>9 DEF Conflicts
    <3>2. io.form # None
      BY <1>1, <2>1, <3>1 DEF Asking
    <3> QED
      BY <2>2, <3>1, <3>2
  <2>10. CASE Reloads
    BY <2>2, <2>10 DEF Reloads
  <2>11. ASSUME NEW applied \in BOOLEAN, SaveFails(applied) PROVE FALSE
    BY <1>3, <2>11 DEF SaveFails
  <2> QED
    BY <1>9, <2>5, <2>6, <2>7, <2>8, <2>9, <2>10, <2>11 DEF Working
<1>10. CASE JobEnds
  <2>1. /\ io # None /\ io' = None /\ UNCHANGED <<server, flight>> /\ live' = io.live
        /\ form' = None \/ form' = io.form
    BY <1>10 DEF JobEnds, Adopted
  <2>2. /\ \A i \in Ids : flight[i] = None /\ io.live[i].rev = server[i].rev
        /\ io.form # None => io.form.rev = server[io.form.id].rev
    BY <2>1 DEF RevsFresh
  <2> QED
    BY <2>1, <2>2 DEF RevsFresh, RowFresh
<1>11. ASSUME NEW i \in Ids, NEW d \in Vals, NEW undone \in BOOLEAN, MoveDates(i, d, undone)
       PROVE  RevsFresh'
  <2> DEFINE node == [live[i] EXCEPT !.val.Dates = d]
             sent == [after |-> d, prev |-> live[i], rev |-> 0]
  <2>1. /\ flight[i] = None /\ UNCHANGED <<server, io>> /\ Overlap
        /\ live' = [live EXCEPT ![i] = node] /\ flight' = [flight EXCEPT ![i] = sent]
        /\ form' = IF undone THEN Synced(form, i, node) ELSE form
    BY <1>11 DEF MoveDates
  <2>2. node.rev = live[i].rev /\ node.val.Dates = d
    BY <1>1 DEF WorkItems, Contents, Fields
  <2>3. sent.after = d /\ sent.rev = 0 /\ sent # None
    <3>1. sent \in Flights
      BY <1>1, <1>11 DEF Flights
    <3>2. flight'[i] = sent
      BY <1>1, <2>1
    <3> QED
      BY <3>1, <3>2, FormAssumption DEF FormAssumption
  <2> HIDE DEF node, sent
  <2>4. io' = None
    BY <1>1, <1>2, <2>1, <2>3
  <2>5. /\ \A j \in Ids : RowFresh(j)
        /\ form # None /\ flight[form.id] = None => form.rev = server[form.id].rev
    BY <2>1, <2>4 DEF RevsFresh
  <2>6. \A j \in Ids : RowFresh(j)'
    BY <1>1, <2>1, <2>2, <2>3, <2>5 DEF RowFresh
  <2>7. ASSUME form' # None, flight'[form'.id] = None PROVE form'.rev = server'[form'.id].rev
    <3>1. form # None
      BY <2>1, <2>7 DEF Synced
    <3>2. form'.id = form.id
      BY <1>1, <2>1, <3>1, SyncedRev
    <3>3. form.id # i
      BY <1>1, <2>1, <2>3, <2>7, <3>1, <3>2
    <3>4. form'.rev = form.rev
      BY <1>1, <2>1, <3>1, <3>3, SyncedRev
    <3> QED
      BY <1>1, <2>1, <2>5, <2>7, <3>1, <3>2, <3>3, <3>4
  <2> QED
    BY <2>4, <2>6, <2>7 DEF RevsFresh
<1>12. ASSUME NEW i \in Ids, DatesOk(i) PROVE RevsFresh'
  <2>1. /\ flight[i] # None /\ flight[i].rev # 0 /\ UNCHANGED <<server, io>>
        /\ flight' = [flight EXCEPT ![i] = None]
    BY <1>12 DEF DatesOk
  <2>2. io = None
    BY <2>1 DEF RevsFresh
  <2>3. /\ \A j \in Ids : RowFresh(j)
        /\ form # None /\ flight[form.id] = None => form.rev = server[form.id].rev
    BY <2>2 DEF RevsFresh
  <2>4. live[i].val.Dates = flight[i].after /\ server[i].rev = flight[i].rev
    BY <2>1, <2>3 DEF RowFresh
  <2>5. live' = [live EXCEPT ![i].rev = flight[i].rev] /\ form' = Synced(form, i, live'[i])
    BY <1>12, <2>4 DEF DatesOk
  <2>6. live'[i].rev = server[i].rev /\ \A j \in Ids : j # i => live'[j] = live[j]
    BY <1>1, <2>4, <2>5 DEF WorkItems
  <2> DEFINE node == live'[i]
  <2>7. form' = Synced(form, i, node) /\ node = live'[i]
    BY <2>5
  <2> HIDE DEF node
  <2>8. \A j \in Ids : RowFresh(j)'
    BY <1>1, <2>1, <2>3, <2>6 DEF RowFresh
  <2>9. ASSUME form' # None, flight'[form'.id] = None PROVE form'.rev = server'[form'.id].rev
    <3>1. form # None
      BY <2>5, <2>9 DEF Synced
    <3>2. form'.id = form.id /\ form'.rev = IF form.id = i THEN live'[i].rev ELSE form.rev
      BY <1>1, <2>7, <3>1, SyncedRev
    <3> QED
      BY <1>1, <2>1, <2>3, <2>6, <2>9, <3>1, <3>2
  <2> QED
    BY <2>1, <2>2, <2>8, <2>9 DEF RevsFresh
<1>13. ASSUME NEW i \in Ids, DatesArrive(i) PROVE RevsFresh'
  <2> DEFINE item == Written(server[i], {"Dates"}, [Blank EXCEPT !.Dates = flight[i].after])
  <2>1. /\ flight[i] # None /\ flight[i].rev = 0 /\ UNCHANGED <<live, form, io>>
        /\ server' = [server EXCEPT ![i] = item]
        /\ flight' = [flight EXCEPT ![i].rev = server'[i].rev]
    BY <1>13 DEF DatesArrive, dialog
  <2>2. io = None
    BY <2>1 DEF RevsFresh
  <2>3. /\ \A j \in Ids : RowFresh(j)
        /\ form # None /\ flight[form.id] = None => form.rev = server[form.id].rev
    BY <2>2 DEF RevsFresh
  <2>4. item.rev = server[i].rev + 1 /\ server[i].rev \in Nat
    BY <1>1 DEF Written, WorkItems
  <2> HIDE DEF item
  <2>5. flight[i] \in Flights
    BY <1>1, <2>1
  <2>6. /\ flight'[i].after = flight[i].after /\ flight'[i].rev = item.rev /\ flight'[i] # None
        /\ server'[i] = item
        /\ \A j \in Ids : j # i => flight'[j] = flight[j] /\ server'[j] = server[j]
    <3>1. server'[i] = item /\ \A j \in Ids : j # i => flight'[j] = flight[j] /\ server'[j] = server[j]
      BY <1>1, <2>1
    <3>2. flight'[i] = [flight[i] EXCEPT !.rev = item.rev]
      BY <1>1, <2>1, <3>1
    <3>3. item.rev \in Nat
      BY <2>4
    <3>4. flight'[i] \in Flights /\ flight'[i].after = flight[i].after /\ flight'[i].rev = item.rev
      BY <2>5, <3>2, <3>3 DEF Flights
    <3> QED
      BY <3>1, <3>4, FormAssumption DEF FormAssumption
  <2>7. \A j \in Ids : RowFresh(j)'
    BY <2>1, <2>3, <2>4, <2>6 DEF RowFresh
  <2> QED
    BY <1>1, <2>1, <2>2, <2>3, <2>6, <2>7 DEF RevsFresh
<1>14. ASSUME NEW i \in Ids, DatesErr(i) PROVE FALSE
  BY <1>3, <1>14 DEF DatesErr
<1>15. ASSUME NEW i \in Ids, NEW x \in Fields, NEW v \in Vals, ForeignEdit(i, x, v) PROVE FALSE
  BY <1>15 DEF ForeignEdit
<1>16. CASE UNCHANGED formVars
  BY <1>16 DEF formVars, store, dialog, RevsFresh, RowFresh
<1>17. CASE Search
  BY <1>17 DEF Search, store, dialog, RevsFresh, RowFresh
<1>18. CASE SearchEnds
  <2>1. /\ search # None /\ UNCHANGED <<server, flight, io>> /\ live' = search.live
        /\ form' = search.form
    BY <1>18 DEF SearchEnds
  <2> QED
    BY <2>1 DEF SearchFresh, RevsFresh, RowFresh
<1> QED
  BY <1>4, <1>5, <1>6, <1>7, <1>8, <1>9, <1>10, <1>11, <1>12, <1>13, <1>14, <1>15, <1>16, <1>17,
     <1>18, FormSteps DEF Datings

\* And so are those in the clone of a Search, while nothing runs beside it.
LEMMA SearchRevs ==
  ASSUME FormInv, FormInv', Alone, Alone', UNCHANGED <<foreign, faults>>, RevsFresh, SearchFresh,
         foreign \in Nat, faults \in Nat, [FormNext]_formVars
  PROVE  SearchFresh'
<1> SUFFICES ASSUME search' # None PROVE SearchFresh'
  BY DEF SearchFresh
<1>1. FormTyped /\ FormTyped' /\ Asking /\ (form # None => form.id \in Ids)
  BY DEF FormInv, FormTyped, Forms
<1>2. Overlap => io' = None /\ \A i \in Ids : flight'[i] = None
  BY DEF Overlap, Flying, Alone
<1>3. ASSUME search' = search, server' = server, io' = None, \A i \in Ids : flight'[i] = None
      PROVE  SearchFresh'
  BY <1>3 DEF SearchFresh
<1>4. search # None => io = None /\ \A i \in Ids : flight[i] = None
  BY DEF SearchFresh
<1>5. CASE (\E i \in Ids : OpenForm(i)) \/ SaveForm \/ \E kind \in {"clear", "other"} : StartJob(kind)
  BY <1>2, <1>3, <1>5 DEF OpenForm, SaveForm, StartJob, store
<1>6. CASE CloseForm \/ EmptyDates \/ \E x \in Fields, v \in Vals : Enter(x, v)
  BY <1>3, <1>4, <1>6 DEF CloseForm, EmptyDates, Enter, store
<1>7. CASE Search
  <2>1. /\ form # None /\ search' = Job("other", None) /\ UNCHANGED <<server, live, io, flight, form>>
        /\ Overlap
    BY <1>7 DEF Search, store, dialog
  <2>2. search'.live = live /\ search'.form = form
    BY <2>1 DEF Job
  <2>3. io = None /\ \A i \in Ids : flight[i] = None
    BY <1>2, <2>1
  <2>4. /\ \A i \in Ids : live[i].rev = server[i].rev
        /\ form.rev = server[form.id].rev
    BY <1>1, <2>1, <2>3 DEF RevsFresh, RowFresh
  <2> QED
    BY <1>1, <2>1, <2>2, <2>3, <2>4 DEF SearchFresh
<1>8. CASE Working \/ JobEnds
  <2>1. io # None /\ search' = search
    BY <1>1, <1>8, JobWorks, JobReturns
  <2> QED
    BY <1>4, <2>1
<1>9. CASE SearchEnds
  BY <1>9 DEF SearchEnds
<1>10. ASSUME NEW i \in Ids, NEW d \in Vals, NEW undone \in BOOLEAN, MoveDates(i, d, undone)
       PROVE  SearchFresh'
  BY <1>2, <1>3, <1>10 DEF MoveDates
<1>11. ASSUME NEW i \in Ids, DatesOk(i) \/ DatesArrive(i) PROVE FALSE
  <2>1. flight[i] # None /\ search' = search
    BY <1>11 DEF DatesOk, DatesArrive
  <2> QED
    BY <1>4, <2>1
<1>12. ASSUME NEW i \in Ids, DatesErr(i) PROVE FALSE
  BY <1>12 DEF DatesErr, Fault
<1>13. ASSUME NEW i \in Ids, NEW x \in Fields, NEW v \in Vals, ForeignEdit(i, x, v) PROVE FALSE
  BY <1>13 DEF ForeignEdit
<1>14. CASE UNCHANGED formVars
  BY <1>3, <1>4, <1>14 DEF formVars, store
<1> QED
  BY <1>5, <1>6, <1>7, <1>8, <1>9, <1>10, <1>11, <1>12, <1>13, <1>14, FormSteps DEF Datings

\* With nobody else about and no fault, a Save of the form meets no 412 but where two of a
\* date save, a job and a Search overlapped (sync_open_form_from_node, adopt_live_node,
\* apply_saved, adopt_spawned).
THEOREM NoOwnConflict == FormSpec => NoConflictOfOwn
<1> DEFINE A == Conflicts => foreign > 0 \/ faults > 0 \/ clouded
<1>1. FormInit => OwnInv
  <2> SUFFICES ASSUME FormInit PROVE OwnInv
    OBVIOUS
  <2>1. /\ live = server /\ form = None /\ io = None /\ search = None
        /\ \A i \in Ids : flight[i] = None
        /\ clouded = FALSE /\ foreign = 0 /\ faults = 0
    BY DEF FormInit
  <2> QED
    BY <2>1 DEF OwnInv, RevsFresh, RowFresh, SearchFresh
<1>2. FormInv /\ FormInv' /\ OwnInv /\ [FormNext]_formVars => OwnInv'
  BY AloneStep, RevsStep, SearchRevs DEF FormInv, OwnInv
<1>3. FormInv /\ OwnInv => A
  <2> SUFFICES ASSUME FormInv, OwnInv, Conflicts, ~(foreign > 0), ~(faults > 0), ~clouded PROVE FALSE
    OBVIOUS
  <2>1. Alone
    BY DEF OwnInv, Alone
  <2>2. io # None /\ io.kind = "save" /\ io.st = "sent" /\ server[io.form.id].rev # io.form.rev
    BY DEF Conflicts
  <2>3. io.form # None
    BY <2>2 DEF FormInv, Asking
  <2> QED
    BY <2>1, <2>2, <2>3 DEF OwnInv, RevsFresh
<1>4. FormInv /\ OwnInv /\ [FormNext]_formVars => [A]_formVars
  BY <1>3
<1> QED
  BY <1>1, <1>2, <1>4, FormInvariant, PTL DEF FormSpec, NoConflictOfOwn

-----------------------------------------------------------------------------
(***************************************************************************)
(* Items: what each part of its state holds, and how the history of a      *)
(* field is read.                                                          *)
(***************************************************************************)
\* Some fields and their values, as a change carries them.
Partial == UNION {[D -> Texts] : D \in SUBSET Names}
Values  == Partial \cup {<< >>}

Entries == {e \in [kind : {"Created", "Fields"}, item : Items, before : Values, after : Values] :
              /\ DOMAIN e.before = DOMAIN e.after
              /\ e.kind = "Created" => e.before = << >> /\ e.after = << >>}

Offers == [kind : {"none", "StackUndo", "StackRedo"}, item : {0}, values : {<< >>}]
          \cup [kind : {"DeleteCreated"}, item : Items, values : {<< >>}]
          \cup [kind : {"RestoreFields"}, item : Items, values : Partial]

Planners == [rows : [Items -> Row \cup {Absent}], undo : Seq(Entries), redo : Seq(Entries),
             toast : Offers]

Kinds == {"add", "delete", "edit", "load", "undo", "redo", "DeleteCreated", "RestoreFields"}

ItemJobs == [kind : Kinds, item : 0..MaxItems, values : Values, row : Row \cup {<< >>},
          clone : Planners]

ItemsTyped ==
  /\ planner \in Planners /\ azure \in [Items -> Row \cup {Absent}]
  /\ job # Absent => job \in ItemJobs
  /\ waiting \in Offers /\ born \in 1..MaxItems /\ spoiled \subseteq Items
  /\ \A i \in Items : i > born => planner.rows[i] = Absent /\ azure[i] = Absent

-----------------------------------------------------------------------------
\* Entry e changes field n of item i.
Touches(e, i, n) == e.item = i /\ n \in DOMAIN e.after

\* The value an entry leads to, and the one it leads from, going up its stack.
To(e, n, side)   == IF side = "undo" THEN e.after[n] ELSE e.before[n]
From(e, n, side) == IF side = "undo" THEN e.before[n] ELSE e.after[n]

\* Going up stack q, field n of item i goes from value to value and ends at y.
Leads(q, i, n, y, side) ==
  \A k \in 1..Len(q) : Touches(q[k], i, n) =>
    /\ (\A m \in 1..Len(q) : m > k => ~Touches(q[m], i, n)) => To(q[k], n, side) = y
    /\ \A m \in 1..Len(q) :
         /\ m > k /\ Touches(q[m], i, n)
         /\ \A l \in 1..Len(q) : k < l /\ l < m => ~Touches(q[l], i, n)
         => To(q[k], n, side) = From(q[m], n, side)

\* No entry of stack q is about item i.
Silent(q, i) == \A k \in 1..Len(q) : q[k].item # i

\* The newest entry about item i, if there is one, changed what `values` restores.
Restores(q, i, values) ==
  \A k \in 1..Len(q) :
    q[k].item = i /\ (\A m \in 1..Len(q) : m > k => q[m].item # i)
      => q[k].kind = "Fields" /\ q[k].before = values

Restorable(s, i, values) == Restores(s.undo, i, values) /\ Silent(s.redo, i)

\* The history of item i fits what its row shows.
Fits(s, i) ==
  IF s.rows[i] = Absent THEN Silent(s.undo, i) /\ Silent(s.redo, i)
  ELSE \A n \in Names : /\ Leads(s.undo, i, n, s.rows[i][n], "undo")
                        /\ Leads(s.redo, i, n, s.rows[i][n], "redo")

\* What a toast offers can be done to s, of items not in sp.
Stands(s, sp) ==
  /\ s.toast.kind = "StackUndo" => s.undo # << >>
  /\ s.toast.kind = "StackRedo" => s.redo # << >>
  /\ s.toast.item \in Items \ sp =>
       /\ s.rows[s.toast.item] # Absent
       /\ s.toast.kind = "RestoreFields" => Restorable(s, s.toast.item, s.toast.values)

Sound(s, sp) == Stands(s, sp) /\ \A i \in Items \ sp : Fits(s, i)

\* The clone a job works on is the planner, but for a toast that has gone since.
SameBut(s, t) == s.rows = t.rows /\ s.undo = t.undo /\ s.redo = t.redo

\* What job j starts from, with planner s and b ids given.
Fit(j, s, sp, b) ==
  /\ SameBut(j.clone, s) /\ Sound(j.clone, sp)
  /\ j.kind = "add" => j.item \in Items /\ j.item = b + 1
  /\ j.kind \in {"delete", "edit", "DeleteCreated", "RestoreFields"} => j.item \in Items
  /\ j.kind \notin {"edit", "RestoreFields"} => j.values = << >>
  /\ j.kind \in {"edit", "RestoreFields"} => j.values \in Partial
  /\ j.kind = "edit" => /\ j.row \in Row /\ s.rows[j.item] # Absent
                        /\ j.item \notin sp => j.row = s.rows[j.item]
  /\ j.kind = "undo" => s.undo # << >>
  /\ j.kind = "redo" => s.redo # << >>
  /\ j.kind = "RestoreFields" /\ j.item \notin sp => Restorable(s, j.item, j.values)

\* A toast's Undo that waits for a job restores what the job leaves alone.
Waits(s, offer, sp) ==
  offer.kind = "RestoreFields" /\ offer.item \notin sp => Restorable(s, offer.item, offer.values)

ItemsInv ==
  /\ ItemsTyped /\ Sound(planner, spoiled)
  /\ job # Absent => Fit(job, planner, spoiled, born)
  /\ waiting # NoOffer =>
       /\ job # Absent /\ ~IsToastUndo(job)
       /\ Waits(planner, waiting, spoiled)
       /\ waiting.kind = "RestoreFields" /\ waiting.item \notin spoiled => About(job) # waiting.item

-----------------------------------------------------------------------------
(***************************************************************************)
(* What the operations on a stack keep of it.                              *)
(***************************************************************************)
\* Stack p is stack q without some entries about other items than i, and without
\* some of the oldest.
Keeps(p, q, i) ==
  \E f \in [1..Len(p) -> 1..Len(q)] :
    /\ \A k, m \in 1..Len(p) : k < m => f[k] < f[m]
    /\ \A k \in 1..Len(p) : p[k] = q[f[k]]
    /\ \A k \in 1..Len(p), m \in 1..Len(q) :
         q[m].item = i /\ m > f[k] => \E l \in 1..Len(p) : f[l] = m

\* So positions compare in p as they do in q
LEMMA KeptOrder ==
  ASSUME NEW a \in Nat, NEW b \in Nat, NEW f \in [1..a -> 1..b],
         \A k, m \in 1..a : k < m => f[k] < f[m]
  PROVE  \A k, m \in 1..a : f[k] < f[m] => k < m
<1> SUFFICES ASSUME NEW k \in 1..a, NEW m \in 1..a, f[k] < f[m], ~(k < m) PROVE FALSE
  OBVIOUS
<1>1. m = k \/ m < k
  OBVIOUS
<1>2. f[k] \in Int /\ f[m] \in Int
  OBVIOUS
<1> QED
  BY <1>1, <1>2

\* A field's history goes on to where it went
LEMMA KeptLeads ==
  ASSUME NEW p \in Seq(Entries), NEW q \in Seq(Entries), NEW i, NEW n, NEW y, NEW side,
         Keeps(p, q, i), Leads(q, i, n, y, side)
  PROVE  Leads(p, i, n, y, side)
<1> DEFINE a == Len(p)
           b == Len(q)
<1>1. a \in Nat /\ b \in Nat
  OBVIOUS
<1>2. PICK f \in [1..a -> 1..b] :
        /\ \A k, m \in 1..a : k < m => f[k] < f[m]
        /\ \A k \in 1..a : p[k] = q[f[k]]
        /\ \A k \in 1..a, m \in 1..b : q[m].item = i /\ m > f[k] => \E l \in 1..a : f[l] = m
  BY DEF Keeps
<1>3. \A k, m \in 1..a : f[k] < f[m] => k < m
  BY <1>1, <1>2, KeptOrder
<1>4. \A k \in 1..b : Touches(q[k], i, n) =>
        /\ (\A m \in 1..b : m > k => ~Touches(q[m], i, n)) => To(q[k], n, side) = y
        /\ \A m \in 1..b :
             /\ m > k /\ Touches(q[m], i, n)
             /\ \A l \in 1..b : k < l /\ l < m => ~Touches(q[l], i, n)
             => To(q[k], n, side) = From(q[m], n, side)
  BY DEF Leads
<1> HIDE DEF a, b
<1>5. ASSUME NEW k \in 1..a, NEW m \in 1..b, m > f[k], Touches(q[m], i, n)
      PROVE  \E l \in 1..a : f[l] = m /\ l > k
  <2>1. PICK l \in 1..a : f[l] = m
    BY <1>2, <1>5 DEF Touches
  <2>2. f[k] < f[l]
    BY <1>5, <2>1
  <2> QED
    BY <1>3, <2>1, <2>2
<1> SUFFICES ASSUME NEW k \in 1..a, Touches(p[k], i, n)
             PROVE  /\ (\A m \in 1..a : m > k => ~Touches(p[m], i, n)) => To(p[k], n, side) = y
                    /\ \A m \in 1..a :
                         /\ m > k /\ Touches(p[m], i, n)
                         /\ \A l \in 1..a : k < l /\ l < m => ~Touches(p[l], i, n)
                         => To(p[k], n, side) = From(p[m], n, side)
  BY DEF Leads, a
<1>6. f[k] \in 1..b /\ p[k] = q[f[k]] /\ Touches(q[f[k]], i, n)
  BY <1>2
<1>7. ASSUME \A m \in 1..a : m > k => ~Touches(p[m], i, n) PROVE To(p[k], n, side) = y
  <2>1. ASSUME NEW m \in 1..b, m > f[k], Touches(q[m], i, n) PROVE FALSE
    <3>1. PICK l \in 1..a : f[l] = m /\ l > k
      BY <1>5, <2>1
    <3>2. p[l] = q[m]
      BY <1>2, <3>1
    <3> QED
      BY <1>7, <2>1, <3>1, <3>2
  <2> QED
    BY <1>4, <1>6, <2>1
<1>8. ASSUME NEW m \in 1..a, m > k, Touches(p[m], i, n),
             \A l \in 1..a : k < l /\ l < m => ~Touches(p[l], i, n)
      PROVE  To(p[k], n, side) = From(p[m], n, side)
  <2>1. f[m] \in 1..b /\ p[m] = q[f[m]] /\ f[k] < f[m] /\ Touches(q[f[m]], i, n)
    BY <1>2, <1>8
  <2>2. ASSUME NEW l \in 1..b, f[k] < l, l < f[m], Touches(q[l], i, n) PROVE FALSE
    <3>1. l > f[k]
      BY <1>1, <2>2
    <3>2. PICK h \in 1..a : f[h] = l /\ h > k
      BY <1>5, <2>2, <3>1
    <3>3. h < m /\ p[h] = q[l]
      BY <1>2, <1>3, <2>2, <3>2
    <3>4. k < h
      BY <1>1, <3>2
    <3> QED
      BY <1>8, <2>2, <3>3, <3>4
  <2>3. f[m] > f[k]
    BY <2>1, <1>6
  <2> QED
    BY <1>4, <1>6, <2>1, <2>2, <2>3
<1> QED
  BY <1>7, <1>8

\* What restores the newest change of item i still does
LEMMA KeptRestores ==
  ASSUME NEW p \in Seq(Entries), NEW q \in Seq(Entries), NEW i, NEW values,
         Keeps(p, q, i), Restores(q, i, values)
  PROVE  Restores(p, i, values)
<1> DEFINE a == Len(p)
           b == Len(q)
<1>1. a \in Nat /\ b \in Nat
  OBVIOUS
<1>2. PICK f \in [1..a -> 1..b] :
        /\ \A k, m \in 1..a : k < m => f[k] < f[m]
        /\ \A k \in 1..a : p[k] = q[f[k]]
        /\ \A k \in 1..a, m \in 1..b : q[m].item = i /\ m > f[k] => \E l \in 1..a : f[l] = m
  BY DEF Keeps
<1>3. \A k, m \in 1..a : f[k] < f[m] => k < m
  BY <1>1, <1>2, KeptOrder
<1>4. \A k \in 1..b : q[k].item = i /\ (\A m \in 1..b : m > k => q[m].item # i)
                        => q[k].kind = "Fields" /\ q[k].before = values
  BY DEF Restores
<1> HIDE DEF a, b
<1> SUFFICES ASSUME NEW k \in 1..a, p[k].item = i, \A m \in 1..a : m > k => p[m].item # i
             PROVE  p[k].kind = "Fields" /\ p[k].before = values
  BY DEF Restores, a
<1>5. f[k] \in 1..b /\ p[k] = q[f[k]]
  BY <1>2
<1>6. ASSUME NEW m \in 1..b, m > f[k], q[m].item = i PROVE FALSE
  <2>1. PICK l \in 1..a : f[l] = m
    BY <1>2, <1>6
  <2>2. f[k] < f[l] /\ p[l] = q[m]
    BY <1>2, <1>5, <1>6, <2>1
  <2>3. l > k
    BY <1>1, <1>3, <2>2
  <2> QED
    BY <1>6, <2>2, <2>3
<1> QED
  BY <1>4, <1>5, <1>6

\* An item no entry is about stays so
LEMMA KeptSilent ==
  ASSUME NEW p \in Seq(Entries), NEW q \in Seq(Entries), NEW i, NEW j,
         Keeps(p, q, j), Silent(q, i)
  PROVE  Silent(p, i)
BY DEF Keeps, Silent

\* By the positions of the entries kept
LEMMA KeepsBy ==
  ASSUME NEW p, NEW q, NEW i, NEW a, a = Len(p), NEW b, b = Len(q), NEW f \in [1..a -> 1..b],
         \A k, m \in 1..a : k < m => f[k] < f[m],
         \A k \in 1..a : p[k] = q[f[k]],
         \A k \in 1..a, m \in 1..b : q[m].item = i /\ m > f[k] => \E l \in 1..a : f[l] = m
  PROVE  Keeps(p, q, i)
BY DEF Keeps

\* A stack that keeps everything
LEMMA KeepsAll ==
  ASSUME NEW q \in Seq(Entries), NEW i
  PROVE  Keeps(q, q, i)
<1> DEFINE f == [k \in 1..Len(q) |-> k]
<1>1. /\ f \in [1..Len(q) -> 1..Len(q)]
      /\ \A k \in 1..Len(q) : f[k] = k
  OBVIOUS
<1> HIDE DEF f
<1> QED
  BY <1>1 DEF Keeps

\* The newest entry and the rest of a stack
LEMMA FrontLast ==
  ASSUME NEW T, NEW q \in Seq(T), q # << >>
  PROVE  /\ Front(q) \in Seq(T) /\ Last(q) \in T /\ Len(Front(q)) = Len(q) - 1
         /\ Len(q) \in Nat /\ Len(q) >= 1 /\ Last(q) = q[Len(q)]
         /\ \A n \in 1..(Len(q) - 1) : Front(q)[n] = q[n]
         /\ Append(Front(q), Last(q)) = q
<1>1. Len(q) \in Nat /\ Len(q) > 0 /\ Len(q) \in 1..Len(q)
  OBVIOUS
<1>2. Last(q) \in T /\ Last(q) = q[Len(q)]
  BY <1>1 DEF Last
<1> DEFINE p == SubSeq(q, 1, Len(q) - 1)
<1>3. p \in Seq(T) /\ Len(p) = Len(q) - 1 /\ \A n \in 1..(Len(q) - 1) : p[n] = q[n]
  <2>1. \A m \in 1..Len(q) :
          /\ SubSeq(q, 1, m - 1) \in Seq(T) /\ Len(SubSeq(q, 1, m - 1)) = m - 1
          /\ \A n \in 1..(m - 1) : SubSeq(q, 1, m - 1)[n] = q[n]
    OBVIOUS
  <2> QED
    BY <1>1, <2>1
<1> HIDE DEF p
<1>4. Append(p, Last(q)) = q
  <2>1. Append(p, Last(q)) \in Seq(T) /\ Len(Append(p, Last(q))) = Len(q)
    BY <1>1, <1>2, <1>3
  <2>2. \A n \in 1..Len(q) : Append(p, Last(q))[n] = q[n]
    <3> TAKE n \in 1..Len(q)
    <3>1. CASE n = Len(q)
      BY <1>1, <1>2, <1>3, <3>1
    <3>2. CASE n \in 1..(Len(q) - 1)
      BY <1>1, <1>2, <1>3, <3>2
    <3>3. n = Len(q) \/ n \in 1..(Len(q) - 1)
      BY <1>1
    <3> QED
      BY <3>1, <3>2, <3>3
  <2> QED
    BY <2>1, <2>2
<1>5. Front(q) = p
  BY DEF Front, p
<1> QED
  BY <1>1, <1>2, <1>3, <1>4, <1>5

\* Taking the newest entry off, about another item
LEMMA FrontKeeps ==
  ASSUME NEW q \in Seq(Entries), q # << >>, NEW i, Last(q).item # i
  PROVE  Keeps(Front(q), q, i)
<1> DEFINE a == Len(q) - 1
           p == Front(q)
           f == [k \in 1..a |-> k]
<1>1. a \in Nat /\ Len(p) = a /\ Len(q) = a + 1 /\ \A n \in 1..a : p[n] = q[n]
  BY FrontLast
<1>2. q[a + 1].item # i
  BY FrontLast, <1>1
<1> HIDE DEF a, p
<1>3. f \in [1..a -> 1..(a + 1)] /\ \A k \in 1..a : f[k] = k
  BY <1>1
<1> HIDE DEF f
<1>4. \A k \in 1..a, m \in 1..(a + 1) : q[m].item = i /\ m > f[k] => \E l \in 1..a : f[l] = m
  <2> SUFFICES ASSUME NEW m \in 1..(a + 1), q[m].item = i PROVE \E l \in 1..a : f[l] = m
    OBVIOUS
  <2>1. m \in 1..a
    BY <1>1, <1>2
  <2> QED
    BY <1>3, <2>1
<1>5. \A k, m \in 1..a : k < m => f[k] < f[m]
  BY <1>3
<1> QED
  BY <1>1, <1>3, <1>4, <1>5 DEF Keeps, p

\* EditHistory::push keeps the newest entries
LEMMA NewestKeeps ==
  ASSUME NEW q \in Seq(Entries), NEW i
  PROVE  Newest(q) \in Seq(Entries) /\ Keeps(Newest(q), q, i)
<1>1. Len(q) \in Nat /\ HistoryCap \in Nat /\ HistoryCap > 0
  BY ItemsAssumption
<1>2. CASE Len(q) > HistoryCap
  <2> DEFINE c == Len(q) - HistoryCap
             p == SubSeq(q, c + 1, Len(q))
             f == [k \in 1..HistoryCap |-> k + c]
  <2>1. c \in 0..Len(q) /\ c + 1 \in 1..Len(q) /\ Len(q) = c + HistoryCap /\ c \in Nat
    BY <1>1, <1>2
  <2>2. Newest(q) = p
    BY <1>1, <1>2 DEF Newest
  <2> HIDE DEF c
  <2>3. p \in Seq(Entries) /\ Len(p) = HistoryCap /\ \A n \in 1..HistoryCap : p[n] = q[n + c]
    BY <1>1, <2>1
  <2> HIDE DEF p
  <2>4. f \in [1..HistoryCap -> 1..Len(q)] /\ \A k \in 1..HistoryCap : f[k] = k + c
    <3>1. \A k \in 1..HistoryCap : k + c \in 1..Len(q)
      BY <1>1, <2>1
    <3> QED
      BY <3>1
  <2> HIDE DEF f
  <2>5. \A k \in 1..HistoryCap, m \in 1..Len(q) : m > f[k] => \E l \in 1..HistoryCap : f[l] = m
    <3> TAKE k \in 1..HistoryCap, m \in 1..Len(q)
    <3> HAVE m > f[k]
    <3>1. m - c \in 1..HistoryCap /\ (m - c) + c = m
      BY <1>1, <2>1, <2>4
    <3> QED
      BY <2>4, <3>1
  <2>6. \A k, m \in 1..HistoryCap : k < m => f[k] < f[m]
    BY <2>1, <2>4
  <2>7. Keeps(p, q, i)
    BY <2>3, <2>4, <2>5, <2>6, KeepsBy
  <2> QED
    BY <2>2, <2>3, <2>7
<1>3. CASE ~(Len(q) > HistoryCap)
  <2>1. Newest(q) = q
    BY <1>1, <1>3 DEF Newest
  <2> QED
    BY <2>1, KeepsAll
<1> QED
  BY <1>2, <1>3

\* Dropping one entry about another item (discard_history_for_undo)
LEMMA RemoveKeeps ==
  ASSUME NEW q \in Seq(Entries), NEW x \in 1..Len(q)
  PROVE  /\ RemoveAt(q, x) \in Seq(Entries)
         /\ \A i : q[x].item # i => Keeps(RemoveAt(q, x), q, i)
         /\ Len(RemoveAt(q, x)) = Len(q) - 1
         /\ \A n \in 1..(Len(q) - 1) : RemoveAt(q, x)[n] = IF n < x THEN q[n] ELSE q[n + 1]
<1> DEFINE a == SubSeq(q, 1, x - 1)
           b == SubSeq(q, x + 1, Len(q))
           p == RemoveAt(q, x)
           len == Len(q)
<1>1. a \in Seq(Entries) /\ Len(a) = x - 1 /\ \A n \in 1..(x - 1) : a[n] = q[n]
  OBVIOUS
<1>2. b \in Seq(Entries) /\ Len(b) = Len(q) - x /\ \A n \in 1..(Len(q) - x) : b[n] = q[n + x]
  OBVIOUS
<1>3. p = a \o b
  BY DEF RemoveAt
<1> HIDE DEF a, b
<1>4. p \in Seq(Entries) /\ Len(p) = len - 1
  <2>3. a \in Seq(Entries) /\ b \in Seq(Entries)
    BY <1>1, <1>2
  <2>1. a \o b \in Seq(Entries) /\ Len(a \o b) = Len(a) + Len(b)
    BY <2>3
  <2>2. (x - 1) + (Len(q) - x) = Len(q) - 1
    BY Len(q) \in Nat
  <2> QED
    BY <1>1, <1>2, <1>3, <2>1, <2>2
<1>5. ASSUME NEW n \in 1..(Len(q) - 1) PROVE p[n] = IF n < x THEN q[n] ELSE q[n + 1]
  <2>1. CASE n < x
    BY <1>1, <1>2, <1>3, <2>1
  <2>2. CASE ~(n < x)
    <3>1. (a \o b)[n] = b[n - (x - 1)]
      BY <1>1, <1>2, <2>2
    <3>2. n - (x - 1) \in 1..(Len(q) - x) /\ (n - (x - 1)) + x = n + 1
      BY <2>2
    <3> QED
      BY <1>2, <1>3, <2>2, <3>1, <3>2
  <2> QED
    BY <2>1, <2>2
<1>6. len \in Nat /\ x \in 1..len /\ x \in Int
  OBVIOUS
<1>7. ASSUME NEW i, q[x].item # i PROVE Keeps(p, q, i)
  <2> DEFINE f == [k \in 1..(len - 1) |-> IF k < x THEN k ELSE k + 1]
  <2>1. \A k \in 1..(len - 1) : f[k] = IF k < x THEN k ELSE k + 1
    OBVIOUS
  <2>2. f \in [1..(len - 1) -> 1..len]
    BY <1>6
  <2> HIDE DEF f
  <2>3. \A k, m \in 1..(len - 1) : k < m => f[k] < f[m]
    BY <1>6, <2>1
  <2>4. \A k \in 1..(len - 1) : p[k] = q[f[k]]
    BY <1>5, <2>1
  <2>5. \A m \in 1..len : q[m].item = i => \E l \in 1..(len - 1) : f[l] = m
    <3> TAKE m \in 1..len
    <3> HAVE q[m].item = i
    <3>1. m # x
      BY <1>7
    <3>2. CASE m < x
      <4>1. m \in 1..(len - 1)
        BY <1>6, <3>2
      <4> QED
        BY <2>1, <3>2, <4>1
    <3>3. CASE m > x
      <4>1. m - 1 \in 1..(len - 1) /\ (m - 1) + 1 = m /\ ~(m - 1 < x)
        BY <1>6, <3>3
      <4> QED
        BY <2>1, <4>1
    <3> QED
      BY <1>6, <3>1, <3>2, <3>3
  <2>6. len = Len(q)
    OBVIOUS
  <2>7. len - 1 = Len(p)
    BY <1>4
  <2>8. \A k \in 1..(len - 1), m \in 1..len :
          q[m].item = i /\ m > f[k] => \E l \in 1..(len - 1) : f[l] = m
    BY <2>5
  <2> HIDE DEF len, p
  <2>9. /\ f \in [1..Len(p) -> 1..Len(q)]
        /\ \A k, m \in 1..Len(p) : k < m => f[k] < f[m]
        /\ \A k \in 1..Len(p) : p[k] = q[f[k]]
        /\ \A k \in 1..Len(p), m \in 1..Len(q) :
             q[m].item = i /\ m > f[k] => \E l \in 1..Len(p) : f[l] = m
    BY <2>2, <2>3, <2>4, <2>6, <2>7, <2>8
  <2> QED
    BY <2>9 DEF Keeps
<1> QED
  BY <1>4, <1>5, <1>7

-----------------------------------------------------------------------------
WithoutLoop == INSTANCE LeftFold WITH Step <- KeepOther

\* Stack s is what of the n oldest entries of q is not about item j.
Sifted(s, q, j, n) ==
  \E f \in [1..Len(s) -> 1..n] :
    /\ \A k, m \in 1..Len(s) : k < m => f[k] < f[m]
    /\ \A k \in 1..Len(s) : s[k] = q[f[k]] /\ q[f[k]].item # j
    /\ \A m \in 1..n : q[m].item # j => \E k \in 1..Len(s) : f[k] = m

\* One turn of drop_history_for_item's retain
LEMMA SiftedOne ==
  ASSUME NEW s \in Seq(Entries), NEW q \in Seq(Entries), NEW j, NEW n \in Nat, n + 1 <= Len(q),
         Sifted(s, q, j, n)
  PROVE  IF q[n + 1].item = j THEN Sifted(s, q, j, n + 1)
         ELSE Sifted(Append(s, q[n + 1]), q, j, n + 1)
<1> DEFINE a == Len(s)
<1>1. a \in Nat /\ n + 1 \in 1..Len(q) /\ q[n + 1] \in Entries
  OBVIOUS
<1>2. PICK f \in [1..a -> 1..n] :
        /\ \A k, m \in 1..a : k < m => f[k] < f[m]
        /\ \A k \in 1..a : s[k] = q[f[k]] /\ q[f[k]].item # j
        /\ \A m \in 1..n : q[m].item # j => \E k \in 1..a : f[k] = m
  BY DEF Sifted
<1>3. CASE q[n + 1].item = j
  <2>1. f \in [1..a -> 1..(n + 1)]
    BY <1>2
  <2>2. \A m \in 1..(n + 1) : q[m].item # j => \E k \in 1..a : f[k] = m
    <3> TAKE m \in 1..(n + 1)
    <3> HAVE q[m].item # j
    <3>1. m \in 1..n
      BY <1>3
    <3> QED
      BY <1>2, <3>1
  <2> QED
    BY <1>2, <1>3, <2>1, <2>2 DEF Sifted
<1>4. CASE q[n + 1].item # j
  <2> DEFINE t == Append(s, q[n + 1])
             g == [k \in 1..(a + 1) |-> IF k <= a THEN f[k] ELSE n + 1]
  <2>1. Len(t) = a + 1 /\ t[a + 1] = q[n + 1] /\ \A k \in 1..a : t[k] = s[k]
    BY <1>1
  <2>2. g[a + 1] = n + 1 /\ \A k \in 1..a : g[k] = f[k]
    BY <1>1
  <2>3. g \in [1..(a + 1) -> 1..(n + 1)]
    BY <1>1, <1>2
  <2> HIDE DEF a, t, g
  <2>4. \A k \in 1..(a + 1) : k = a + 1 \/ k \in 1..a
    BY <1>1
  <2>5. \A k \in 1..a : f[k] < n + 1 /\ f[k] \in 1..n
    BY <1>2
  <2>6. ASSUME NEW k \in 1..(a + 1), NEW m \in 1..(a + 1), k < m PROVE g[k] < g[m]
    <3>1. k \in 1..a
      BY <1>1, <2>6
    <3>2. CASE m = a + 1
      BY <2>2, <2>5, <3>1, <3>2
    <3>3. CASE m \in 1..a
      BY <1>2, <2>2, <2>6, <3>1, <3>3
    <3> QED
      BY <2>4, <3>2, <3>3
  <2>7. ASSUME NEW k \in 1..(a + 1) PROVE t[k] = q[g[k]] /\ q[g[k]].item # j
    <3>1. CASE k = a + 1
      BY <1>4, <2>1, <2>2, <3>1
    <3>2. CASE k \in 1..a
      BY <1>2, <2>1, <2>2, <3>2
    <3> QED
      BY <2>4, <3>1, <3>2
  <2>8. ASSUME NEW m \in 1..(n + 1), q[m].item # j PROVE \E k \in 1..(a + 1) : g[k] = m
    <3>1. CASE m = n + 1
      <4>1. a + 1 \in 1..(a + 1)
        BY <1>1
      <4> QED
        BY <2>2, <3>1, <4>1
    <3>2. CASE m \in 1..n
      <4>1. PICK k \in 1..a : f[k] = m
        BY <1>2, <2>8, <3>2
      <4>2. k \in 1..(a + 1)
        BY <1>1
      <4> QED
        BY <2>2, <4>1, <4>2
    <3> QED
      BY <3>1, <3>2
  <2>9. /\ g \in [1..Len(t) -> 1..(n + 1)]
        /\ \A k, m \in 1..Len(t) : k < m => g[k] < g[m]
        /\ \A k \in 1..Len(t) : t[k] = q[g[k]] /\ q[g[k]].item # j
        /\ \A m \in 1..(n + 1) : q[m].item # j => \E k \in 1..Len(t) : g[k] = m
    BY <2>1, <2>3, <2>6, <2>7, <2>8
  <2>10. Sifted(t, q, j, n + 1)
    BY <2>9 DEF Sifted
  <2> QED
    BY <1>4, <2>10 DEF t
<1> QED
  BY <1>3, <1>4

\* Dropping what is about an item keeps the rest (drop_history_for_item)
LEMMA WithoutKeeps ==
  ASSUME NEW q \in Seq(Entries), NEW j
  PROVE  /\ Without(q, j) \in Seq(Entries) /\ Silent(Without(q, j), j)
         /\ \A i : i # j => Keeps(Without(q, j), q, i)
<1> DEFINE base == [item |-> j, stack |-> << >>]
           len  == Len(q)
           All  == [item : {j}, stack : Seq(Entries)]
<1>1. FoldLeft(KeepOther, base, q) = WithoutLoop!Result(base, q)
  BY DEF FoldLeft, MapThenFoldSet, WithoutLoop!Result, WithoutLoop!Unfolds, Max, WithoutLoop!Max
<1>2. len \in Nat /\ DOMAIN q = 1..len /\ \A k \in 1..len : q[k] \in Entries
  OBVIOUS
<1>3. PICK f : WithoutLoop!Runs(f, base, q, len)
  BY <1>2, WithoutLoop!FoldRuns
<1>4. /\ f[0] = base /\ Without(q, j) = f[len].stack
      /\ \A k \in 1..len : f[k] = KeepOther(f[k - 1], q[k])
  BY <1>1, <1>3 DEF WithoutLoop!Runs, Without
<1>5. base \in All /\ base.stack = << >>
  OBVIOUS
<1> HIDE DEF base
<1> DEFINE S == {k \in Nat : k <= len => f[k] \in All /\ Sifted(f[k].stack, q, j, k)}
<1>6. 0 \in S
  <2> DEFINE h == [k \in 1..0 |-> k]
  <2>3. Len(<< >>) = 0 /\ \A k \in 1..0 : FALSE
    OBVIOUS
  <2>4. h \in [1..0 -> 1..0]
    OBVIOUS
  <2> HIDE DEF h
  <2>2. Sifted(<< >>, q, j, 0)
    BY <2>3, <2>4 DEF Sifted
  <2> QED
    BY <1>4, <1>5, <2>2
<1>7. ASSUME NEW k \in Nat, k \in S PROVE k + 1 \in S
  <2> SUFFICES ASSUME k + 1 <= len PROVE f[k + 1] \in All /\ Sifted(f[k + 1].stack, q, j, k + 1)
    OBVIOUS
  <2>1. k <= len /\ k + 1 \in 1..len /\ (k + 1) - 1 = k
    BY <1>2
  <2>2. f[k] \in All /\ Sifted(f[k].stack, q, j, k)
    BY <1>7, <2>1
  <2>3. f[k + 1] = KeepOther(f[k], q[k + 1]) /\ q[k + 1] \in Entries
    BY <1>2, <1>4, <2>1
  <2>4. IF q[k + 1].item = j THEN Sifted(f[k].stack, q, j, k + 1)
        ELSE Sifted(Append(f[k].stack, q[k + 1]), q, j, k + 1)
    BY <2>2, SiftedOne
  <2>5. f[k].item = j /\ f[k].stack \in Seq(Entries)
    BY <2>2
  <2>6. CASE q[k + 1].item = j
    <3>1. f[k + 1] = f[k]
      BY <2>3, <2>5, <2>6 DEF KeepOther
    <3> QED
      BY <2>2, <2>4, <2>6, <3>1
  <2>7. CASE q[k + 1].item # j
    <3>1. f[k + 1] = [f[k] EXCEPT !.stack = Append(f[k].stack, q[k + 1])]
      BY <2>3, <2>5, <2>7 DEF KeepOther
    <3>2. Append(f[k].stack, q[k + 1]) \in Seq(Entries)
      BY <2>3, <2>5
    <3>3. f[k + 1] \in All /\ f[k + 1].stack = Append(f[k].stack, q[k + 1])
      BY <2>2, <3>1, <3>2
    <3> QED
      BY <2>4, <2>7, <3>3
  <2> QED
    BY <2>6, <2>7
<1> HIDE DEF S
<1>8. \A k \in Nat : k \in S
  BY <1>6, <1>7, WithoutLoop!Induction
<1>9. f[len] \in All /\ Sifted(f[len].stack, q, j, len)
  BY <1>2, <1>8 DEF S
<1> DEFINE p == Without(q, j)
<1>10. p \in Seq(Entries) /\ Sifted(p, q, j, len)
  BY <1>4, <1>9
<1> HIDE DEF p
<1>11. PICK g \in [1..Len(p) -> 1..len] :
         /\ \A k, m \in 1..Len(p) : k < m => g[k] < g[m]
         /\ \A k \in 1..Len(p) : p[k] = q[g[k]] /\ q[g[k]].item # j
         /\ \A m \in 1..len : q[m].item # j => \E k \in 1..Len(p) : g[k] = m
  BY <1>10 DEF Sifted
<1>12. Silent(p, j)
  BY <1>11 DEF Silent
<1>13. ASSUME NEW i, i # j PROVE Keeps(p, q, i)
  <2>1. \A m \in 1..len : q[m].item = i => \E k \in 1..Len(p) : g[k] = m
    BY <1>11, <1>13
  <2> QED
    BY <1>11, <2>1 DEF Keeps
<1> QED
  BY <1>10, <1>12, <1>13 DEF p

-----------------------------------------------------------------------------
(***************************************************************************)
(* What is said of an item's entries, as entries come and go.              *)
(***************************************************************************)
\* An entry on top of a stack
LEMMA Pushed ==
  ASSUME NEW q \in Seq(Entries), NEW e \in Entries
  PROVE  /\ Append(q, e) \in Seq(Entries) /\ Len(Append(q, e)) = Len(q) + 1
         /\ Append(q, e)[Len(q) + 1] = e /\ Len(q) \in Nat
         /\ \A k \in 1..Len(q) : Append(q, e)[k] = q[k]
         /\ Append(q, e) # << >>
OBVIOUS

\* A field's history goes on from where it went, or stays there.
LEMMA LeadsPush ==
  ASSUME NEW q \in Seq(Entries), NEW e \in Entries, NEW i, NEW n, NEW x, NEW y, NEW side,
         Leads(q, i, n, x, side),
         IF Touches(e, i, n) THEN From(e, n, side) = x /\ To(e, n, side) = y ELSE x = y
  PROVE  Leads(Append(q, e), i, n, y, side)
<1> DEFINE a == Len(q)
           p == Append(q, e)
<1>1. a \in Nat /\ Len(p) = a + 1 /\ p[a + 1] = e /\ \A k \in 1..a : p[k] = q[k]
  BY Pushed
<1>2. \A k \in 1..a : Touches(q[k], i, n) =>
        /\ (\A m \in 1..a : m > k => ~Touches(q[m], i, n)) => To(q[k], n, side) = x
        /\ \A m \in 1..a :
             /\ m > k /\ Touches(q[m], i, n)
             /\ \A l \in 1..a : k < l /\ l < m => ~Touches(q[l], i, n)
             => To(q[k], n, side) = From(q[m], n, side)
  BY DEF Leads
<1>3. \A k \in 1..(a + 1) : k = a + 1 \/ k \in 1..a
  BY <1>1
<1>4. a + 1 \in 1..(a + 1) /\ \A k \in 1..a : k \in 1..(a + 1) /\ k < a + 1 /\ a + 1 > k
  BY <1>1
<1> HIDE DEF a, p
<1> SUFFICES ASSUME NEW k \in 1..(a + 1), Touches(p[k], i, n)
             PROVE  /\ (\A m \in 1..(a + 1) : m > k => ~Touches(p[m], i, n))
                         => To(p[k], n, side) = y
                    /\ \A m \in 1..(a + 1) :
                         /\ m > k /\ Touches(p[m], i, n)
                         /\ \A l \in 1..(a + 1) : k < l /\ l < m => ~Touches(p[l], i, n)
                         => To(p[k], n, side) = From(p[m], n, side)
  BY <1>1 DEF Leads, p
<1>5. ASSUME \A m \in 1..(a + 1) : m > k => ~Touches(p[m], i, n) PROVE To(p[k], n, side) = y
  <2>1. CASE k = a + 1
    BY <1>1, <2>1
  <2>2. CASE k \in 1..a
    <3>1. ~Touches(e, i, n)
      BY <1>1, <1>4, <1>5, <2>2
    <3>2. \A m \in 1..a : m > k => ~Touches(q[m], i, n)
      BY <1>1, <1>4, <1>5
    <3> QED
      BY <1>1, <1>2, <2>2, <3>1, <3>2
  <2> QED
    BY <1>3, <2>1, <2>2
<1>6. ASSUME NEW m \in 1..(a + 1), m > k, Touches(p[m], i, n),
             \A l \in 1..(a + 1) : k < l /\ l < m => ~Touches(p[l], i, n)
      PROVE  To(p[k], n, side) = From(p[m], n, side)
  <2>1. k \in 1..a
    BY <1>1, <1>6
  <2>2. CASE m = a + 1
    <3>1. \A l \in 1..a : l > k => ~Touches(q[l], i, n)
      <4> TAKE l \in 1..a
      <4> HAVE l > k
      <4>1. k < l /\ l < m /\ l \in 1..(a + 1) /\ p[l] = q[l]
        BY <1>1, <1>4, <2>2
      <4> QED
        BY <1>6, <4>1
    <3>2. To(q[k], n, side) = x
      BY <1>1, <1>2, <2>1, <3>1
    <3> QED
      BY <1>1, <1>6, <2>1, <2>2, <3>2
  <2>3. CASE m \in 1..a
    <3>1. \A l \in 1..a : k < l /\ l < m => ~Touches(q[l], i, n)
      BY <1>1, <1>4, <1>6
    <3> QED
      BY <1>1, <1>2, <1>6, <2>1, <2>3, <3>1
  <2> QED
    BY <1>3, <2>2, <2>3
<1> QED
  BY <1>5, <1>6

\* Taking the newest entry about an item away goes back by it.
LEMMA LeadsCut ==
  ASSUME NEW q \in Seq(Entries), NEW x \in 1..Len(q), NEW p, Len(p) = Len(q) - 1,
         \A k \in 1..(Len(q) - 1) : p[k] = IF k < x THEN q[k] ELSE q[k + 1],
         NEW i, \A m \in 1..Len(q) : m > x => q[m].item # i,
         NEW n, NEW y, NEW side, Leads(q, i, n, y, side)
  PROVE  IF Touches(q[x], i, n)
           THEN To(q[x], n, side) = y /\ Leads(p, i, n, From(q[x], n, side), side)
           ELSE Leads(p, i, n, y, side)
<1> DEFINE b == Len(q)
           z == IF Touches(q[x], i, n) THEN From(q[x], n, side) ELSE y
<1>1. b \in Nat /\ x \in 1..b /\ x \in Int /\ Len(p) = b - 1
  OBVIOUS
<1>2. \A k \in 1..b : Touches(q[k], i, n) =>
        /\ (\A m \in 1..b : m > k => ~Touches(q[m], i, n)) => To(q[k], n, side) = y
        /\ \A m \in 1..b :
             /\ m > k /\ Touches(q[m], i, n)
             /\ \A l \in 1..b : k < l /\ l < m => ~Touches(q[l], i, n)
             => To(q[k], n, side) = From(q[m], n, side)
  BY DEF Leads
<1>3. \A m \in 1..b : m > x => ~Touches(q[m], i, n)
  BY DEF Touches
<1>4. \A k \in 1..(b - 1) : p[k] = IF k < x THEN q[k] ELSE q[k + 1]
  OBVIOUS
<1> HIDE DEF b
<1>5. ASSUME NEW k \in 1..(b - 1), Touches(p[k], i, n)
      PROVE  k < x /\ k \in 1..b /\ p[k] = q[k]
  <2>1. CASE ~(k < x)
    <3>1. k + 1 \in 1..b /\ k + 1 > x /\ p[k] = q[k + 1]
      BY <1>1, <1>4, <2>1
    <3> QED
      BY <1>3, <1>5, <3>1
  <2>2. CASE k < x
    BY <1>1, <1>4, <2>2
  <2> QED
    BY <2>1, <2>2
<1>6. \A k \in 1..b : k < x => k \in 1..(b - 1) /\ p[k] = q[k]
  BY <1>1, <1>4
<1>7. Touches(q[x], i, n) => To(q[x], n, side) = y
  BY <1>1, <1>2, <1>3
<1>8. Leads(p, i, n, z, side)
  <2> SUFFICES ASSUME NEW k \in 1..(b - 1), Touches(p[k], i, n)
               PROVE  /\ (\A m \in 1..(b - 1) : m > k => ~Touches(p[m], i, n))
                           => To(p[k], n, side) = z
                      /\ \A m \in 1..(b - 1) :
                           /\ m > k /\ Touches(p[m], i, n)
                           /\ \A l \in 1..(b - 1) : k < l /\ l < m => ~Touches(p[l], i, n)
                           => To(p[k], n, side) = From(p[m], n, side)
    BY <1>1 DEF Leads
  <2>1. k < x /\ k \in 1..b /\ p[k] = q[k] /\ Touches(q[k], i, n) /\ x > k
    BY <1>1, <1>5
  <2>2. ASSUME \A m \in 1..(b - 1) : m > k => ~Touches(p[m], i, n)
        PROVE  To(p[k], n, side) = z
    <3>1. \A l \in 1..b : k < l /\ l < x => ~Touches(q[l], i, n)
      <4> TAKE l \in 1..b
      <4> HAVE k < l /\ l < x
      <4>1. l \in 1..(b - 1) /\ p[l] = q[l] /\ l > k
        BY <1>6
      <4> QED
        BY <2>2, <4>1
    <3>2. CASE Touches(q[x], i, n)
      BY <1>1, <1>2, <2>1, <3>1, <3>2
    <3>3. CASE ~Touches(q[x], i, n)
      <4>1. \A m \in 1..b : m > k => ~Touches(q[m], i, n)
        <5> TAKE m \in 1..b
        <5> HAVE m > k
        <5>1. m = x \/ m > x \/ (k < m /\ m < x)
          BY <1>1
        <5> QED
          BY <1>3, <3>1, <3>3, <5>1
      <4> QED
        BY <1>2, <2>1, <3>3, <4>1
    <3> QED
      BY <3>2, <3>3
  <2>3. ASSUME NEW m \in 1..(b - 1), m > k, Touches(p[m], i, n),
               \A l \in 1..(b - 1) : k < l /\ l < m => ~Touches(p[l], i, n)
        PROVE  To(p[k], n, side) = From(p[m], n, side)
    <3>1. m < x /\ m \in 1..b /\ p[m] = q[m]
      BY <1>5, <2>3
    <3>2. \A l \in 1..b : k < l /\ l < m => ~Touches(q[l], i, n)
      <4> TAKE l \in 1..b
      <4> HAVE k < l /\ l < m
      <4>1. l < x
        BY <1>1, <3>1
      <4> QED
        BY <1>6, <2>3, <4>1
    <3> QED
      BY <1>2, <2>1, <2>3, <3>1, <3>2
  <2> QED
    BY <2>2, <2>3
<1> QED
  BY <1>7, <1>8

\* Where an item has no entries, its fields' history leads anywhere.
LEMMA LeadsSilent ==
  ASSUME NEW q, NEW i, Silent(q, i)
  PROVE  \A n, y, side : Leads(q, i, n, y, side)
BY DEF Silent, Leads, Touches

\* What is said of item i by stack q is said by stack p.
Passes(p, q, i) ==
  /\ \A n, y, side : Leads(q, i, n, y, side) => Leads(p, i, n, y, side)
  /\ \A values : Restores(q, i, values) => Restores(p, i, values)
  /\ Silent(q, i) => Silent(p, i)

\* A stack that lost only entries of other items, or from its bottom, passes
LEMMA KeptPasses ==
  ASSUME NEW p \in Seq(Entries), NEW q \in Seq(Entries), NEW i, Keeps(p, q, i)
  PROVE  Passes(p, q, i)
BY KeptLeads, KeptRestores, KeptSilent DEF Passes

\* An empty stack has no history to break
LEMMA EmptyPasses == \A q, i : Passes(<< >>, q, i) /\ Silent(<< >>, i)
<1>1. \A k \in 1..Len(<< >>) : FALSE
  OBVIOUS
<1> QED
  BY <1>1 DEF Passes, Leads, Restores, Silent

\* A stack that has not changed passes
LEMMA SamePasses == \A q, i : Passes(q, q, i)
BY DEF Passes

\* What one change leaves standing, the next one does too
LEMMA PassesOn ==
  ASSUME NEW p, NEW q, NEW r, NEW i, Passes(p, q, i), Passes(q, r, i)
  PROVE  Passes(p, r, i)
BY DEF Passes

\* An entry about another item changes nothing of it
LEMMA PushPasses ==
  ASSUME NEW q \in Seq(Entries), NEW e \in Entries, NEW i, e.item # i
  PROVE  Passes(Append(q, e), q, i)
<1> DEFINE a == Len(q)
           p == Append(q, e)
<1>1. a \in Nat /\ Len(p) = a + 1 /\ p[a + 1] = e /\ \A k \in 1..a : p[k] = q[k]
  BY Pushed
<1>2. ASSUME NEW n, NEW y, NEW side, Leads(q, i, n, y, side) PROVE Leads(p, i, n, y, side)
  BY <1>2, LeadsPush DEF Touches
<1> HIDE DEF a, p
<1>3. \A k \in 1..(a + 1) : p[k].item = i => k \in 1..a
  <2> TAKE k \in 1..(a + 1)
  <2>1. k = a + 1 \/ k \in 1..a
    BY <1>1
  <2> QED
    BY <1>1, <2>1
<1>4. ASSUME NEW values, Restores(q, i, values) PROVE Restores(p, i, values)
  <2> SUFFICES ASSUME NEW k \in 1..(a + 1), p[k].item = i,
                      \A m \in 1..(a + 1) : m > k => p[m].item # i
               PROVE  p[k].kind = "Fields" /\ p[k].before = values
    BY <1>1 DEF Restores
  <2>1. k \in 1..a /\ p[k] = q[k]
    BY <1>1, <1>3
  <2>2. \A m \in 1..a : m > k => q[m].item # i
    <3> TAKE m \in 1..a
    <3>1. m \in 1..(a + 1) /\ p[m] = q[m]
      BY <1>1
    <3> QED
      BY <3>1
  <2> QED
    BY <1>4, <2>1, <2>2 DEF Restores, a
<1>5. Silent(q, i) => Silent(p, i)
  <2> SUFFICES ASSUME Silent(q, i), NEW k \in 1..(a + 1), p[k].item = i PROVE FALSE
    BY <1>1 DEF Silent
  <2>1. k \in 1..a /\ p[k] = q[k]
    BY <1>1, <1>3
  <2> QED
    BY <2>1 DEF Silent, a
<1> QED
  BY <1>2, <1>4, <1>5 DEF Passes, p

-----------------------------------------------------------------------------
(***************************************************************************)
(* What becomes of a planner.                                              *)
(***************************************************************************)
\* Planner s has become t without item i being concerned.
Spares(t, s, i) ==
  t.rows[i] = s.rows[i] /\ Passes(t.undo, s.undo, i) /\ Passes(t.redo, s.redo, i)

\* An item that is not concerned fits as it did, and its fields can be restored as before
LEMMA SparedFits ==
  ASSUME NEW s, NEW t, NEW i, Spares(t, s, i)
  PROVE  /\ Fits(s, i) => Fits(t, i)
         /\ \A values : Restorable(s, i, values) => Restorable(t, i, values)
BY DEF Spares, Passes, Fits, Restorable

\* The parts of a planner
LEMMA PlannerFields ==
  ASSUME NEW s \in Planners
  PROVE  /\ s.rows \in [Items -> Row \cup {Absent}]
         /\ s.undo \in Seq(Entries) /\ s.redo \in Seq(Entries) /\ s.toast \in Offers
BY DEF Planners

\* A planner with its parts replaced is one
LEMMA PlannerIs ==
  ASSUME NEW s \in Planners, NEW rows \in [Items -> Row \cup {Absent}],
         NEW undo \in Seq(Entries), NEW redo \in Seq(Entries), NEW toast \in Offers
  PROVE  [s EXCEPT !.rows = rows, !.undo = undo, !.redo = redo, !.toast = toast] \in Planners
BY DEF Planners

\* The offers that name no item
LEMMA SomeOffers ==
  /\ NoOffer \in Offers /\ OfferUndo \in Offers /\ OfferRedo \in Offers
  /\ NoOffer.item = 0 /\ OfferUndo.item = 0 /\ OfferRedo.item = 0 /\ 0 \notin Items
  /\ NoOffer.kind = "none" /\ OfferUndo.kind = "StackUndo" /\ OfferRedo.kind = "StackRedo"
BY DEF NoOffer, OfferUndo, OfferRedo, Offer, Offers, Items

\* What an entry carries
LEMMA EntryFields ==
  ASSUME NEW e \in Entries
  PROVE  /\ e.kind \in {"Created", "Fields"} /\ e.item \in Items
         /\ e.before \in Values /\ e.after \in Values /\ DOMAIN e.before = DOMAIN e.after
         /\ e.kind = "Created" => e.before = << >> /\ e.after = << >>
BY DEF Entries

\* What a change carries: some of the fields, each with a value
LEMMA ValueFields ==
  ASSUME NEW v \in Values
  PROVE  DOMAIN v \subseteq Names /\ \A n \in DOMAIN v : v[n] \in Texts
<1>1. CASE v \in Partial
  BY <1>1 DEF Partial
<1>2. CASE v = << >>
  <2>1. DOMAIN v = {}
    BY <1>2
  <2> QED
    BY <2>1
<1> QED
  BY <1>1, <1>2 DEF Values

\* A row with some fields given other values is a row
LEMMA OverRow ==
  ASSUME NEW v \in Values, NEW row, row \in Row \/ DOMAIN v = Names
  PROVE  Over(v, row) \in Row
<1>1. DOMAIN v \subseteq Names /\ \A n \in DOMAIN v : v[n] \in Texts
  BY ValueFields
<1>2. CASE row \in Row
  BY <1>1, <1>2 DEF Over, Row
<1>3. CASE DOMAIN v = Names
  BY <1>1, <1>3 DEF Over, Row
<1> QED
  BY <1>2, <1>3

\* drop_history_for_item
LEMMA DroppedSpares ==
  ASSUME NEW s \in Planners, NEW j
  PROVE  /\ Dropped(s, j) \in Planners
         /\ Dropped(s, j).rows = s.rows /\ Dropped(s, j).toast = s.toast
         /\ Silent(Dropped(s, j).undo, j) /\ Silent(Dropped(s, j).redo, j)
         /\ \A i : i # j => Spares(Dropped(s, j), s, i)
<1> DEFINE u == Without(s.undo, j)
           r == Without(s.redo, j)
           t == Dropped(s, j)
<1>1. s.undo \in Seq(Entries) /\ s.redo \in Seq(Entries)
  BY PlannerFields
<1>2. /\ u \in Seq(Entries) /\ Silent(u, j) /\ \A i : i # j => Passes(u, s.undo, i)
      /\ r \in Seq(Entries) /\ Silent(r, j) /\ \A i : i # j => Passes(r, s.redo, i)
  BY <1>1, WithoutKeeps, KeptPasses
<1>3. t = [s EXCEPT !.undo = u, !.redo = r]
  BY DEF Dropped
<1> HIDE DEF u, r, t
<1>4. t \in Planners /\ t.rows = s.rows /\ t.toast = s.toast /\ t.undo = u /\ t.redo = r
  BY <1>2, <1>3 DEF Planners
<1> QED
  BY <1>2, <1>4 DEF Spares, t

\* A row goes, and with it its entries (delete_item)
LEMMA GoneSpares ==
  ASSUME NEW s \in Planners, NEW j \in Items, NEW toast \in Offers
  PROVE  LET t == Dropped([s EXCEPT !.rows[j] = Absent, !.toast = toast], j)
         IN  /\ t \in Planners /\ t.rows = [s.rows EXCEPT ![j] = Absent] /\ t.toast = toast
             /\ Fits(t, j) /\ \A i \in Items : i # j => Spares(t, s, i)
<1> DEFINE g == [s EXCEPT !.rows[j] = Absent, !.toast = toast]
           t == Dropped(g, j)
<1>1. /\ g \in Planners /\ g.rows = [s.rows EXCEPT ![j] = Absent] /\ g.toast = toast
      /\ g.undo = s.undo /\ g.redo = s.redo
  BY DEF Planners
<1> HIDE DEF g
<1>2. /\ t \in Planners /\ t.rows = g.rows /\ t.toast = g.toast
      /\ Silent(t.undo, j) /\ Silent(t.redo, j) /\ \A i : i # j => Spares(t, g, i)
  BY <1>1, DroppedSpares
<1> HIDE DEF t
<1>3. t.rows[j] = Absent
  BY <1>1, <1>2, PlannerFields
<1>4. Fits(t, j)
  BY <1>2, <1>3 DEF Fits
<1>5. \A i \in Items : i # j => Spares(t, s, i)
  <2> TAKE i \in Items
  <2> HAVE i # j
  <2>1. g.rows[i] = s.rows[i]
    BY <1>1, PlannerFields
  <2> QED
    BY <1>1, <1>2, <2>1 DEF Spares
<1> QED
  BY <1>1, <1>2, <1>4, <1>5 DEF g, t

\* A new entry in the history (EditHistory::push)
LEMMA RecordedSpares ==
  ASSUME NEW s \in Planners, NEW e \in Entries, NEW offer \in Offers
  PROVE  LET t == Recorded(s, e, offer)
         IN  /\ t \in Planners /\ t.rows = s.rows /\ t.redo = << >> /\ t.toast = offer
             /\ \A i : Passes(t.undo, Append(s.undo, e), i)
             /\ \A i : i # e.item => Spares(t, s, i)
<1> DEFINE p == Append(s.undo, e)
           u == Newest(p)
           t == Recorded(s, e, offer)
<1>1. s.undo \in Seq(Entries) /\ p \in Seq(Entries)
  BY PlannerFields
<1>2. \A i : i # e.item => Passes(p, s.undo, i)
  BY <1>1, PushPasses
<1> HIDE DEF p
<1>3. u \in Seq(Entries) /\ \A i : Passes(u, p, i)
  BY <1>1, NewestKeeps, KeptPasses
<1>4. t = [s EXCEPT !.undo = u, !.redo = << >>, !.toast = offer]
  BY DEF Recorded, p
<1> HIDE DEF u, t
<1>5. << >> \in Seq(Entries)
  OBVIOUS
<1>6. t \in Planners /\ t.rows = s.rows /\ t.redo = << >> /\ t.toast = offer /\ t.undo = u
  BY <1>3, <1>4, <1>5 DEF Planners
<1>7. \A i : i # e.item => Spares(t, s, i)
  <2> TAKE i
  <2> HAVE i # e.item
  <2>1. Passes(u, s.undo, i)
    BY <1>2, <1>3, PassesOn
  <2> QED
    BY <1>6, <2>1, EmptyPasses DEF Spares
<1> QED
  BY <1>3, <1>6, <1>7 DEF t, p

\* A row with some fields rewritten (patch_node_field)
LEMMA RewrittenSpares ==
  ASSUME NEW s \in Planners, NEW j \in Items, NEW v \in Values,
         s.rows[j] # Absent \/ DOMAIN v = Names
  PROVE  LET t == Rewritten(s, j, v)
         IN  /\ t \in Planners /\ t.rows = [s.rows EXCEPT ![j] = Over(v, s.rows[j])]
             /\ t.undo = s.undo /\ t.redo = s.redo /\ t.toast = s.toast
             /\ t.rows[j] \in Row /\ t.rows[j] = Over(v, s.rows[j])
             /\ \A i \in Items : i # j => Spares(t, s, i)
<1> DEFINE t == Rewritten(s, j, v)
<1>1. s.rows \in [Items -> Row \cup {Absent}]
  BY PlannerFields
<1>2. Over(v, s.rows[j]) \in Row
  BY <1>1, OverRow
<1>3. [s.rows EXCEPT ![j] = Over(v, s.rows[j])] \in [Items -> Row \cup {Absent}]
  BY <1>1, <1>2
<1>4. t = [s EXCEPT !.rows = [s.rows EXCEPT ![j] = Over(v, s.rows[j])]]
  BY DEF Rewritten, Planners
<1> HIDE DEF t
<1>5. /\ t \in Planners /\ t.rows = [s.rows EXCEPT ![j] = Over(v, s.rows[j])]
      /\ t.undo = s.undo /\ t.redo = s.redo /\ t.toast = s.toast
  BY <1>3, <1>4 DEF Planners
<1>6. t.rows[j] = Over(v, s.rows[j]) /\ \A i \in Items : i # j => t.rows[i] = s.rows[i]
  BY <1>1, <1>5
<1> QED
  BY <1>2, <1>5, <1>6, SamePasses DEF Spares, t

\* The last position of a search
LEMMA LastFound ==
  ASSUME NEW n \in Nat, NEW I \in SUBSET (1..n), I # {}
  PROVE  Max(I) \in I /\ \A y \in I : y <= Max(I)
<1>1. PICK x \in I : \A y \in I : y <= x
  BY WithoutLoop!LastExists
<1>2. \A y \in I : x >= y
  BY <1>1
<1>3. Max(I) \in I /\ \A y \in I : Max(I) >= y
  BY <1>2 DEF Max
<1> QED
  BY <1>3

\* What restoring the fields of item j undoes
UndoneBy(q, j, values) ==
  {k \in 1..Len(q) : /\ q[k].kind = "Fields" /\ q[k].item = j
                     /\ \A n \in DOMAIN q[k].before : n \in DOMAIN values /\ values[n] = q[k].before[n]}

\* discard_history_for_undo: at most the last of them goes
LEMMA DiscardedFields ==
  ASSUME NEW s \in Planners, NEW j, NEW values
  PROVE  LET t == Discarded(s, j, values)
         IN  /\ t \in Planners /\ t.rows = s.rows /\ t.redo = s.redo /\ t.toast = s.toast
             /\ UndoneBy(s.undo, j, values) = {} => t.undo = s.undo
             /\ UndoneBy(s.undo, j, values) # {} =>
                  t.undo = RemoveAt(s.undo, Max(UndoneBy(s.undo, j, values)))
             /\ \A i : i # j => Spares(t, s, i)
<1> DEFINE I == UndoneBy(s.undo, j, values)
           t == Discarded(s, j, values)
           last == IF I # {} THEN Max(I) ELSE 0
<1>1. s.undo \in Seq(Entries) /\ Len(s.undo) \in Nat
  BY PlannerFields
<1>2. t = IF last = 0 THEN s ELSE [s EXCEPT !.undo = RemoveAt(@, last)]
  BY DEF Discarded, SelectLastInSeq, UndoneBy
<1>3. I \subseteq 1..Len(s.undo) /\ \A k \in I : s.undo[k].item = j
  BY DEF UndoneBy
<1> HIDE DEF I, t
<1>4. CASE I = {}
  <2>1. t = s
    BY <1>2, <1>4
  <2> QED
    BY <1>4, <2>1, SamePasses DEF Spares, I, t
<1>5. CASE I # {}
  <2>1. last \in I /\ last = Max(I)
    BY <1>1, <1>3, <1>5, LastFound
  <2> HIDE DEF last
  <2>2. last # 0 /\ last \in 1..Len(s.undo) /\ s.undo[last].item = j
    BY <1>1, <1>3, <2>1
  <2> DEFINE u == RemoveAt(s.undo, last)
  <2>3. t = [s EXCEPT !.undo = u]
    BY <1>2, <2>2 DEF Planners
  <2>4. u \in Seq(Entries) /\ \A i : i # j => Passes(u, s.undo, i)
    BY <1>1, <2>2, RemoveKeeps, KeptPasses
  <2> HIDE DEF u
  <2>5. t \in Planners /\ t.rows = s.rows /\ t.redo = s.redo /\ t.toast = s.toast /\ t.undo = u
    BY <2>3, <2>4 DEF Planners
  <2>6. \A i : i # j => Spares(t, s, i)
    BY <2>4, <2>5, SamePasses DEF Spares
  <2> QED
    BY <1>5, <2>1, <2>5, <2>6 DEF I, t, u
<1> QED
  BY <1>4, <1>5

\* A stack without an entry about an item, or its newest one
LEMMA NewestAbout ==
  ASSUME NEW q \in Seq(Entries), NEW j, ~Silent(q, j)
  PROVE  \E x \in 1..Len(q) : q[x].item = j /\ \A m \in 1..Len(q) : m > x => q[m].item # j
<1> DEFINE A == {k \in 1..Len(q) : q[k].item = j}
<1>1. A # {} /\ A \in SUBSET (1..Len(q)) /\ Len(q) \in Nat
  BY DEF Silent
<1>2. PICK x \in A : \A y \in A : y <= x
  BY <1>1, WithoutLoop!LastExists
<1>3. \A m \in 1..Len(q) : m > x => q[m].item # j
  <2> SUFFICES ASSUME NEW m \in 1..Len(q), m > x, q[m].item = j PROVE FALSE
    OBVIOUS
  <2>1. m <= x /\ x \in 1..Len(q)
    BY <1>2
  <2> QED
    BY <2>1
<1> QED
  BY <1>2, <1>3

\* Restoring the newest change of item j: the history goes on to the row restored.
LEMMA DiscardedLeads ==
  ASSUME NEW s \in Planners, NEW j, NEW values \in Values, Restores(s.undo, j, values),
         NEW row, \A n \in Names : Leads(s.undo, j, n, row[n], "undo")
  PROVE  \A n \in Names : Leads(Discarded(s, j, values).undo, j, n, Over(values, row)[n], "undo")
<1> DEFINE q == s.undo
           t == Discarded(s, j, values)
           I == UndoneBy(q, j, values)
<1>1. q \in Seq(Entries) /\ Len(q) \in Nat
  BY PlannerFields
<1>2. /\ I = {} => t.undo = q
      /\ I # {} => t.undo = RemoveAt(q, Max(I))
  BY DiscardedFields
<1> HIDE DEF t
<1>3. CASE Silent(q, j)
  <2>1. I = {}
    BY <1>3 DEF UndoneBy, Silent
  <2> QED
    BY <1>2, <1>3, <2>1, LeadsSilent DEF t
<1>4. CASE ~Silent(q, j)
  <2>1. PICK x \in 1..Len(q) : q[x].item = j /\ \A m \in 1..Len(q) : m > x => q[m].item # j
    BY <1>1, <1>4, NewestAbout
  <2>2. q[x].kind = "Fields" /\ q[x].before = values /\ q[x] \in Entries
    BY <1>1, <2>1 DEF Restores
  <2>3. x \in I
    BY <2>1, <2>2 DEF UndoneBy
  <2>4. \A k \in I : k \in 1..Len(q) /\ q[k].item = j
    BY DEF UndoneBy
  <2>5. I \in SUBSET (1..Len(q)) /\ I # {}
    BY <2>3, <2>4
  <2>6. Max(I) \in I /\ \A k \in I : k <= Max(I)
    BY <1>1, <2>5, LastFound
  <2> HIDE DEF I
  <2>7. Max(I) = x
    <3>1. Max(I) \in 1..Len(q) /\ ~(Max(I) > x) /\ x <= Max(I)
      BY <2>1, <2>3, <2>4, <2>6
    <3> QED
      BY <3>1
  <2> DEFINE p == RemoveAt(q, x)
  <2>8. Len(p) = Len(q) - 1 /\ \A k \in 1..(Len(q) - 1) : p[k] = IF k < x THEN q[k] ELSE q[k + 1]
    BY <1>1, RemoveKeeps
  <2>9. t.undo = p
    BY <1>2, <2>5, <2>7
  <2> HIDE DEF p, q
  <2> SUFFICES ASSUME NEW n \in Names PROVE Leads(p, j, n, Over(values, row)[n], "undo")
    BY <2>9 DEF t
  <2>10. Leads(q, j, n, row[n], "undo")
    BY DEF q
  <2>11. IF Touches(q[x], j, n)
          THEN To(q[x], n, "undo") = row[n] /\ Leads(p, j, n, From(q[x], n, "undo"), "undo")
          ELSE Leads(p, j, n, row[n], "undo")
    BY <1>1, <2>1, <2>8, <2>10, LeadsCut
  <2>12. DOMAIN q[x].after = DOMAIN values
    BY <2>2, EntryFields
  <2>13. Touches(q[x], j, n) <=> n \in DOMAIN values
    BY <2>1, <2>12 DEF Touches
  <2>14. From(q[x], n, "undo") = values[n]
    BY <2>2 DEF From
  <2>15. Over(values, row)[n] = IF n \in DOMAIN values THEN values[n] ELSE row[n]
    BY DEF Over
  <2> QED
    BY <2>11, <2>13, <2>14, <2>15
<1> QED
  BY <1>3, <1>4

\* Undo and Redo move an entry over to the other stack: the histories of its fields
\* go on to what it gives the row back.
LEMMA MovedOver ==
  ASSUME NEW q \in Seq(Entries), q # << >>, NEW r \in Seq(Entries), NEW side, NEW other,
         (side = "undo" /\ other = "redo") \/ (side = "redo" /\ other = "undo"),
         NEW j, Last(q).item = j, NEW n, NEW y,
         Leads(q, j, n, y, side), Leads(r, j, n, y, other),
         NEW v, side = "undo" => v = Last(q).before, side = "redo" => v = Last(q).after,
         NEW z, z = IF n \in DOMAIN v THEN v[n] ELSE y
  PROVE  Leads(Front(q), j, n, z, side) /\ Leads(Append(r, Last(q)), j, n, z, other)
<1> DEFINE e == Last(q)
           p == Front(q)
           x == Len(q)
<1>1. /\ e \in Entries /\ x \in Nat /\ x \in 1..x /\ Len(p) = x - 1 /\ q[x] = e
      /\ \A k \in 1..(x - 1) : p[k] = q[k]
  BY FrontLast
<1>2. \A k \in 1..(x - 1) : p[k] = IF k < x THEN q[k] ELSE q[k + 1]
  BY <1>1
<1>3. \A m \in 1..x : m > x => q[m].item # j
  BY <1>1
<1>4. e.item = j /\ v = IF side = "undo" THEN e.before ELSE e.after
  OBVIOUS
<1> HIDE DEF e, p
<1>5. DOMAIN v = DOMAIN e.after
  BY <1>1, <1>4, EntryFields
<1>6. Touches(e, j, n) <=> n \in DOMAIN v
  BY <1>4, <1>5 DEF Touches
<1>7. IF Touches(q[x], j, n)
        THEN To(q[x], n, side) = y /\ Leads(p, j, n, From(q[x], n, side), side)
        ELSE Leads(p, j, n, y, side)
  BY <1>1, <1>2, <1>3, LeadsCut
<1> HIDE DEF x
<1>8. From(e, n, side) = v[n] /\ To(e, n, other) = v[n] /\ To(e, n, side) = From(e, n, other)
  BY <1>4 DEF From, To
<1>9. Leads(p, j, n, z, side)
  BY <1>1, <1>6, <1>7, <1>8
<1>10. IF Touches(e, j, n) THEN From(e, n, other) = y /\ To(e, n, other) = z ELSE y = z
  BY <1>1, <1>6, <1>7, <1>8
<1>11. Leads(Append(r, e), j, n, z, other)
  BY <1>1, <1>10, LeadsPush
<1> QED
  BY <1>9, <1>11 DEF e, p

\* undo moves the last entry over to the redo stack
LEMMA UndoneMoves ==
  ASSUME NEW q \in Seq(Entries), q # << >>, NEW r \in Seq(Entries),
         NEW i, NEW e, e = Last(q), e.item = i, NEW n, NEW y,
         Leads(q, i, n, y, "undo"), Leads(r, i, n, y, "redo"),
         NEW z, z = IF n \in DOMAIN e.before THEN e.before[n] ELSE y
  PROVE  Leads(Front(q), i, n, z, "undo") /\ Leads(Append(r, e), i, n, z, "redo")
<1> DEFINE side  == "undo"
           other == "redo"
           v     == e.before
<1>1. /\ (side = "undo" /\ other = "redo") \/ (side = "redo" /\ other = "undo")
      /\ side = "undo" => v = Last(q).before
      /\ side = "redo" => v = Last(q).after
      /\ z = IF n \in DOMAIN v THEN v[n] ELSE y
      /\ Leads(q, i, n, y, side) /\ Leads(r, i, n, y, other) /\ Last(q).item = i
  OBVIOUS
<1> HIDE DEF side, other, v
<1>2. Leads(Front(q), i, n, z, side) /\ Leads(Append(r, Last(q)), i, n, z, other)
  BY <1>1, MovedOver
<1> QED
  BY <1>2 DEF side, other

\* redo moves it back
LEMMA RedoneMoves ==
  ASSUME NEW q \in Seq(Entries), q # << >>, NEW r \in Seq(Entries),
         NEW i, NEW e, e = Last(q), e.item = i, NEW n, NEW y,
         Leads(q, i, n, y, "redo"), Leads(r, i, n, y, "undo"),
         NEW z, z = IF n \in DOMAIN e.after THEN e.after[n] ELSE y
  PROVE  Leads(Front(q), i, n, z, "redo") /\ Leads(Append(r, e), i, n, z, "undo")
<1> DEFINE side  == "redo"
           other == "undo"
           v     == e.after
<1>1. /\ (side = "undo" /\ other = "redo") \/ (side = "redo" /\ other = "undo")
      /\ side = "undo" => v = Last(q).before
      /\ side = "redo" => v = Last(q).after
      /\ z = IF n \in DOMAIN v THEN v[n] ELSE y
      /\ Leads(q, i, n, y, side) /\ Leads(r, i, n, y, other) /\ Last(q).item = i
  OBVIOUS
<1> HIDE DEF side, other, v
<1>2. Leads(Front(q), i, n, z, side) /\ Leads(Append(r, Last(q)), i, n, z, other)
  BY <1>1, MovedOver
<1> QED
  BY <1>2 DEF side, other

-----------------------------------------------------------------------------
(***************************************************************************)
(* Jobs.                                                                   *)
(***************************************************************************)
LEMMA NoValues == << >> \in Values
BY DEF Values

\* An offer that stands starts a job that fits.
LEMMA StartedFits ==
  ASSUME NEW s \in Planners, NEW offer \in Offers, NEW sp, NEW b, Sound(s, sp),
         Waits(s, offer, sp), Started(s, offer) # Absent
  PROVE  Started(s, offer) \in ItemJobs /\ Fit(Started(s, offer), s, sp, b)
<1> DEFINE j == Started(s, offer)
<1>1. /\ 0 \in 0..MaxItems /\ Items \subseteq 0..MaxItems /\ << >> \in Row \cup {<< >>}
      /\ MaxItems \in Nat
  BY ItemsAssumption DEF Items
<1>2. SameBut(s, s)
  BY DEF SameBut
<1>11. << >> \in Values
  BY NoValues
<1>9. /\ "undo" \in Kinds /\ "redo" \in Kinds /\ "DeleteCreated" \in Kinds
      /\ "RestoreFields" \in Kinds
  BY DEF Kinds
<1>10. j = Started(s, offer)
  OBVIOUS
<1> HIDE DEF j
<1>3. CASE offer.kind = "StackUndo"
  <2>1. offer.item = 0 /\ offer.values = << >>
    BY <1>3 DEF Offers
  <2>2. s.undo # << >> /\ j = Work("undo", 0, << >>, << >>, s)
    BY <1>3, <2>1, <1>10 DEF Started
  <2>3. j \in ItemJobs /\ j.kind = "undo" /\ j.values = << >> /\ j.clone = s
    BY <1>1, <1>9, <2>2, <1>11 DEF Work, ItemJobs
  <2> QED
    BY <1>2, <2>2, <2>3, <1>10 DEF Fit
<1>4. CASE offer.kind = "StackRedo"
  <2>1. offer.item = 0 /\ offer.values = << >>
    BY <1>4 DEF Offers
  <2>2. s.redo # << >> /\ j = Work("redo", 0, << >>, << >>, s)
    BY <1>4, <2>1, <1>10 DEF Started
  <2>3. j \in ItemJobs /\ j.kind = "redo" /\ j.values = << >> /\ j.clone = s
    BY <1>1, <1>9, <2>2, <1>11 DEF Work, ItemJobs
  <2> QED
    BY <1>2, <2>2, <2>3, <1>10 DEF Fit
<1>5. CASE offer.kind = "DeleteCreated"
  <2>1. offer.item \in Items /\ offer.values = << >>
    BY <1>5 DEF Offers
  <2>2. j = Work("DeleteCreated", offer.item, << >>, << >>, s)
    BY <1>5, <2>1, <1>10 DEF Started
  <2>3. /\ j \in ItemJobs /\ j.kind = "DeleteCreated" /\ j.item \in Items /\ j.values = << >>
        /\ j.clone = s
    BY <1>1, <1>9, <2>1, <2>2, <1>11 DEF Work, ItemJobs
  <2> QED
    BY <1>2, <2>3, <1>10 DEF Fit
<1>6. CASE offer.kind = "RestoreFields"
  <2>1. offer.item \in Items /\ offer.values \in Partial /\ offer.values \in Values
    BY <1>6 DEF Offers, Values
  <2>2. j = Work("RestoreFields", offer.item, offer.values, << >>, s)
    BY <1>6, <1>10 DEF Started
  <2>3. /\ j \in ItemJobs /\ j.kind = "RestoreFields" /\ j.item = offer.item
        /\ j.values = offer.values /\ j.clone = s
    BY <1>1, <1>9, <2>1, <2>2 DEF Work, ItemJobs
  <2> QED
    BY <1>2, <1>6, <2>1, <2>3, <1>10 DEF Fit, Waits
<1>7. CASE offer.kind = "none"
  BY <1>7, <1>10 DEF Started
<1>8. offer.kind \in {"none", "StackUndo", "StackRedo", "DeleteCreated", "RestoreFields"}
  BY DEF Offers
<1> QED
  BY <1>3, <1>4, <1>5, <1>6, <1>7, <1>8

\* A job leaves the planner sound that spares all items but the one it is about,
\* and leaves that one fit; what waited for it can then start.
LEMMA EndStep ==
  ASSUME ItemsInv, job # Absent, NEW s, NEW ok, Ends(s, ok),
         planner' \in Planners, azure' \in [Items -> Row \cup {Absent}], born' \in 1..MaxItems,
         spoiled \subseteq spoiled', spoiled' \subseteq Items,
         \A i \in Items : i > born' => planner'.rows[i] = Absent /\ azure'[i] = Absent,
         Stands(planner', spoiled'),
         \A i \in Items \ spoiled' : i # About(job) => Spares(planner', planner, i),
         About(job) \in Items \ spoiled' => Fits(planner', About(job))
  PROVE  ItemsInv'
<1> DEFINE a == About(job)
<1>1. ASSUME NEW i \in Items \ spoiled' PROVE Fits(planner', i)
  <2>1. CASE i = a
    BY <2>1
  <2>2. CASE i # a
    <3>1. Fits(planner, i)
      BY DEF ItemsInv, Sound
    <3> QED
      BY <2>2, <3>1, SparedFits
  <2> QED
    BY <2>1, <2>2
<1>2. Sound(planner', spoiled')
  BY <1>1 DEF Sound
<1>3. waiting \in Offers
  BY DEF ItemsInv, ItemsTyped
<1>4. Waits(planner', waiting, spoiled')
  <2> SUFFICES ASSUME waiting.kind = "RestoreFields", waiting.item \notin spoiled'
               PROVE  Restorable(planner', waiting.item, waiting.values)
    BY DEF Waits
  <2>1. waiting # NoOffer /\ waiting.item \in Items
    BY <1>3 DEF NoOffer, Offer, Offers
  <2>2. Restorable(planner, waiting.item, waiting.values) /\ a # waiting.item
    BY <2>1 DEF ItemsInv, Waits
  <2> QED
    BY <2>1, <2>2, SparedFits
<1>5. job' = Started(planner', waiting) /\ waiting' = NoOffer
  BY DEF Ends
<1>6. job' # Absent => job' \in ItemJobs /\ Fit(job', planner', spoiled', born')
  BY <1>2, <1>3, <1>4, <1>5, StartedFits
<1>7. ItemsTyped'
  BY <1>5, <1>6, SomeOffers DEF ItemsTyped
<1> QED
  BY <1>2, <1>5, <1>6, <1>7 DEF ItemsInv

-----------------------------------------------------------------------------
(***************************************************************************)
(* Every step keeps the invariant.                                         *)
(***************************************************************************)
LEMMA ItemsInit_Inv == ItemsInit => ItemsInv
<1> SUFFICES ASSUME ItemsInit PROVE ItemsInv
  OBVIOUS
<1>1. PICK row \in Row : azure = [i \in Items |-> IF i = 1 THEN row ELSE Absent]
  BY DEF ItemsInit
<1>2. 1 \in Items /\ 1 \in 1..MaxItems /\ MaxItems \in Nat /\ << >> \in Seq(Entries)
  BY ItemsAssumption DEF Items
<1>3. azure \in [Items -> Row \cup {Absent}]
  BY <1>1
<1>4. /\ planner = [rows |-> azure, undo |-> << >>, redo |-> << >>, toast |-> NoOffer]
      /\ job = Absent /\ waiting = NoOffer /\ born = 1 /\ spoiled = {}
  BY DEF ItemsInit
<1>5. planner \in Planners
  BY <1>2, <1>3, <1>4, SomeOffers DEF Planners
<1>6. \A i \in Items : i > 1 => azure[i] = Absent
  BY <1>1 DEF Items
<1>7. ItemsTyped
  BY <1>2, <1>3, <1>4, <1>5, <1>6, SomeOffers DEF ItemsTyped
<1>8. \A i \in Items : Fits(planner, i)
  BY <1>4, EmptyPasses, LeadsSilent DEF Fits
<1>9. Stands(planner, spoiled)
  BY <1>4, SomeOffers DEF Stands
<1> QED
  BY <1>4, <1>7, <1>8, <1>9 DEF ItemsInv, Sound

\* What holds of all items but some holds of all but more
LEMMA SoundMore ==
  ASSUME NEW s, NEW sp, NEW more, sp \subseteq more, Sound(s, sp)
  PROVE  Sound(s, more)
BY DEF Sound, Stands

\* The more items are excused, the less a job has to fit
LEMMA FitMore ==
  ASSUME NEW j, NEW s, NEW b, NEW sp, NEW more, sp \subseteq more, Fit(j, s, sp, b)
  PROVE  Fit(j, s, more, b)
<1>1. Sound(j.clone, more)
  BY SoundMore DEF Fit
<1> QED
  BY <1>1 DEF Fit

\* A job that starts where none was
LEMMA AskStep ==
  ASSUME ItemsInv, job = Absent, UNCHANGED <<planner, waiting, azure, born>>,
         spoiled \subseteq spoiled', spoiled' \subseteq Items,
         job' # Absent => job' \in ItemJobs /\ Fit(job', planner, spoiled', born)
  PROVE  ItemsInv'
<1>1. Sound(planner, spoiled')
  BY SoundMore DEF ItemsInv
<1>2. waiting = NoOffer
  BY DEF ItemsInv
<1>3. ItemsTyped'
  BY DEF ItemsInv, ItemsTyped
<1> QED
  BY <1>1, <1>2, <1>3 DEF ItemsInv

\* spawn_state's clone
LEMMA WorkFits ==
  ASSUME ItemsInv, NEW kind \in Kinds, kind \notin {"undo", "redo", "RestoreFields"},
         NEW i \in 0..MaxItems, NEW values \in Values, NEW row \in Row \cup {<< >>},
         NEW sp, spoiled \subseteq sp,
         kind = "add" => i \in Items /\ i = born + 1,
         kind \in {"delete", "edit", "DeleteCreated"} => i \in Items,
         kind # "edit" => values = << >>,
         kind = "edit" => /\ values \in Partial /\ row \in Row /\ planner.rows[i] # Absent
                          /\ i \notin sp => row = planner.rows[i]
  PROVE  LET j == Work(kind, i, values, row, planner)
         IN  j \in ItemJobs /\ Fit(j, planner, sp, born)
<1> DEFINE j == Work(kind, i, values, row, planner)
<1>1. planner \in Planners
  BY DEF ItemsInv, ItemsTyped
<1>2. /\ j \in ItemJobs /\ j.kind = kind /\ j.item = i /\ j.values = values
      /\ j.row = row /\ j.clone = planner
  BY <1>1 DEF Work, ItemJobs
<1> HIDE DEF j
<1>3. Sound(planner, sp)
  BY SoundMore DEF ItemsInv
<1>4. SameBut(planner, planner)
  BY DEF SameBut
<1>5. Fit(j, planner, sp, born)
  BY <1>2, <1>3, <1>4 DEF Fit
<1> QED
  BY <1>2, <1>5 DEF j

\* add_item_under, when it is asked for
LEMMA AddItem_Inv == ItemsInv /\ AddItem => ItemsInv'
<1> SUFFICES ASSUME ItemsInv, AddItem PROVE ItemsInv'
  OBVIOUS
<1>1. born \in 1..MaxItems /\ spoiled \subseteq Items
  BY DEF ItemsInv, ItemsTyped
<1>2. /\ job = Absent /\ UNCHANGED <<planner, waiting, azure, born, spoiled>>
      /\ born < MaxItems /\ job' = Work("add", born + 1, << >>, << >>, planner)
  BY DEF AddItem, Asks
<1>3. born + 1 \in Items /\ born + 1 \in 0..MaxItems
  BY <1>1, <1>2, ItemsAssumption DEF Items
<1>4. "add" \in Kinds
  BY DEF Kinds
<1>5. job' \in ItemJobs /\ Fit(job', planner, spoiled, born)
  BY <1>2, <1>3, <1>4, NoValues, WorkFits
<1> QED
  BY <1>1, <1>2, <1>5, AskStep

\* delete_item, when it is asked for
LEMMA DeleteItem_Inv == ASSUME NEW i \in Items PROVE ItemsInv /\ DeleteItem(i) => ItemsInv'
<1> SUFFICES ASSUME ItemsInv, DeleteItem(i) PROVE ItemsInv'
  OBVIOUS
<1>1. spoiled \subseteq Items
  BY DEF ItemsInv, ItemsTyped
<1>2. /\ job = Absent /\ UNCHANGED <<planner, waiting, azure, born, spoiled>>
      /\ job' = Work("delete", i, << >>, << >>, planner)
  BY DEF DeleteItem, Asks
<1>3. i \in 0..MaxItems
  BY ItemsAssumption DEF Items
<1>4. "delete" \in Kinds
  BY DEF Kinds
<1>5. job' \in ItemJobs /\ Fit(job', planner, spoiled, born)
  BY <1>2, <1>3, <1>4, NoValues, WorkFits
<1> QED
  BY <1>1, <1>2, <1>5, AskStep

\* load_hierarchy, when it is asked for
LEMMA Reload_Inv == ItemsInv /\ Reload => ItemsInv'
<1> SUFFICES ASSUME ItemsInv, Reload PROVE ItemsInv'
  OBVIOUS
<1>1. spoiled \subseteq Items
  BY DEF ItemsInv, ItemsTyped
<1>2. /\ job = Absent /\ UNCHANGED <<planner, waiting, azure, born, spoiled>>
      /\ job' = Work("load", 0, << >>, << >>, planner)
  BY DEF Reload, Asks
<1>3. 0 \in 0..MaxItems
  BY ItemsAssumption
<1>4. "load" \in Kinds
  BY DEF Kinds
<1>5. job' \in ItemJobs /\ Fit(job', planner, spoiled, born)
  BY <1>2, <1>3, <1>4, NoValues, WorkFits
<1> QED
  BY <1>1, <1>2, <1>5, AskStep

\* An edit that starts from the row shown, or from what the server holds
LEMMA EditFits ==
  ASSUME ItemsInv, NEW i \in Items, NEW values \in Partial, NEW row \in Row,
         planner.rows[i] # Absent, NEW sp, spoiled \subseteq sp,
         i \notin sp => row = planner.rows[i]
  PROVE  LET j == Work("edit", i, values, row, planner)
         IN  j \in ItemJobs /\ Fit(j, planner, sp, born)
<1>1. i \in 0..MaxItems
  BY ItemsAssumption DEF Items
<1>2. "edit" \in Kinds /\ values \in Values
  BY DEF Kinds, Values
<1> QED
  BY <1>1, <1>2, WorkFits

\* save_title and save_assignee start from the row
LEMMA SaveField_Inv ==
  ASSUME NEW i \in Items, NEW n \in Names, NEW v \in Texts
  PROVE  ItemsInv /\ SaveField(i, n, v) => ItemsInv'
<1> SUFFICES ASSUME ItemsInv, SaveField(i, n, v) PROVE ItemsInv'
  OBVIOUS
<1> DEFINE values == [m \in {n} |-> v]
<1>1. /\ spoiled \subseteq Items /\ planner.rows \in [Items -> Row \cup {Absent}]
  BY PlannerFields DEF ItemsInv, ItemsTyped
<1>2. /\ job = Absent /\ UNCHANGED <<planner, waiting, azure, born, spoiled>>
      /\ planner.rows[i] # Absent
      /\ job' = Work("edit", i, values, planner.rows[i], planner)
  BY DEF SaveField, Asks
<1>3. values \in Partial
  <2>1. {n} \in SUBSET Names /\ values \in [{n} -> Texts]
    OBVIOUS
  <2> QED
    BY <2>1 DEF Partial
<1>4. planner.rows[i] \in Row
  BY <1>1, <1>2
<1> HIDE DEF values
<1>5. job' \in ItemJobs /\ Fit(job', planner, spoiled, born)
  BY <1>2, <1>3, <1>4, EditFits
<1> QED
  BY <1>1, <1>2, <1>5, AskStep

\* A form saved starts from what the server holds, which excuses an item the row differs on
LEMMA SaveEdits_Inv ==
  ASSUME NEW i \in Items, NEW values \in Row
  PROVE  ItemsInv /\ SaveEdits(i, values) => ItemsInv'
<1> SUFFICES ASSUME ItemsInv, SaveEdits(i, values) PROVE ItemsInv'
  OBVIOUS
<1>1. spoiled \subseteq Items /\ azure \in [Items -> Row \cup {Absent}]
  BY DEF ItemsInv, ItemsTyped
<1>2. /\ job = Absent /\ UNCHANGED <<planner, waiting, azure, born>>
      /\ planner.rows[i] # Absent /\ azure[i] # Absent
      /\ job' = Work("edit", i, values, azure[i], planner)
      /\ spoiled' = IF azure[i] # planner.rows[i] THEN spoiled \cup {i} ELSE spoiled
  BY DEF SaveEdits, Asks
<1>3. values \in Partial
  BY DEF Partial, Row
<1>4. azure[i] \in Row /\ spoiled \subseteq spoiled' /\ spoiled' \subseteq Items
  BY <1>1, <1>2
<1>5. i \notin spoiled' => azure[i] = planner.rows[i]
  BY <1>2
<1>6. job' \in ItemJobs /\ Fit(job', planner, spoiled', born)
  BY <1>2, <1>3, <1>4, <1>5, EditFits
<1> QED
  BY <1>2, <1>4, <1>6, AskStep

\* An offer that stands does not wait in vain
LEMMA OfferWaits ==
  ASSUME ItemsInv, NEW sp, spoiled \subseteq sp
  PROVE  Waits(planner, planner.toast, sp)
<1>1. planner.toast \in Offers
  BY PlannerFields DEF ItemsInv, ItemsTyped
<1>2. planner.toast.kind = "RestoreFields" => planner.toast.item \in Items
  BY <1>1 DEF Offers
<1> QED
  BY <1>2 DEF ItemsInv, Sound, Stands, Waits

\* undo_last and redo_last
LEMMA HistoryKey_Inv ==
  ASSUME NEW offer \in {OfferUndo, OfferRedo}
  PROVE  ItemsInv /\ HistoryKey(offer) => ItemsInv'
<1> SUFFICES ASSUME ItemsInv, HistoryKey(offer) PROVE ItemsInv'
  OBVIOUS
<1>1. /\ spoiled \subseteq Items /\ planner \in Planners /\ Sound(planner, spoiled)
  BY DEF ItemsInv, ItemsTyped
<1>2. /\ job = Absent /\ UNCHANGED <<planner, waiting, azure, born, spoiled>>
      /\ job' = Started(planner, offer)
  BY DEF HistoryKey
<1>3. offer \in Offers /\ offer.kind # "RestoreFields"
  BY SomeOffers
<1>4. job' # Absent => job' \in ItemJobs /\ Fit(job', planner, spoiled, born)
  BY <1>1, <1>2, <1>3, StartedFits DEF Waits
<1> QED
  BY <1>1, <1>2, <1>4, AskStep

\* The toast's Undo starts, or waits for the job that runs
LEMMA ToastUndo_Inv == ItemsInv /\ ToastUndo => ItemsInv'
<1> SUFFICES ASSUME ItemsInv, ToastUndo PROVE ItemsInv'
  OBVIOUS
<1>1. /\ spoiled \subseteq Items /\ planner \in Planners /\ Sound(planner, spoiled)
      /\ planner.toast \in Offers
  BY PlannerFields DEF ItemsInv, ItemsTyped
<1>2. UNCHANGED <<planner, azure, born>> /\ planner.toast # NoOffer
  BY DEF ToastUndo
<1>3. CASE job = Absent
  <2>1. job' = Started(planner, planner.toast) /\ UNCHANGED <<waiting, spoiled>>
    BY <1>3 DEF ToastUndo
  <2>2. Waits(planner, planner.toast, spoiled)
    BY OfferWaits
  <2>3. job' # Absent => job' \in ItemJobs /\ Fit(job', planner, spoiled, born)
    BY <1>1, <2>1, <2>2, StartedFits
  <2> QED
    BY <1>1, <1>2, <1>3, <2>1, <2>3, AskStep
<1>4. CASE job # Absent
  <2> DEFINE toast == planner.toast
  <2>1. /\ ~IsToastUndo(job) /\ waiting' = toast /\ job' = job
        /\ spoiled' = IF toast.item \in Items /\ toast.item = About(job)
                      THEN spoiled \cup {toast.item} ELSE spoiled
    BY <1>4 DEF ToastUndo
  <2>2. spoiled \subseteq spoiled' /\ spoiled' \subseteq Items
    BY <1>1, <2>1
  <2>3. Sound(planner, spoiled') /\ Fit(job, planner, spoiled', born)
    BY <1>1, <1>4, <2>2, SoundMore, FitMore DEF ItemsInv
  <2>4. Waits(planner, toast, spoiled')
    BY <2>2, OfferWaits
  <2>5. toast.kind = "RestoreFields" => toast.item \in Items
    BY <1>1 DEF Offers
  <2>6. toast.kind = "RestoreFields" /\ toast.item \notin spoiled' => About(job) # toast.item
    BY <2>1, <2>5
  <2> HIDE DEF toast
  <2>7. ItemsTyped'
    BY <1>1, <1>2, <2>1, <2>2 DEF ItemsInv, ItemsTyped, toast
  <2>8. About(job)' = About(job) /\ IsToastUndo(job)' = IsToastUndo(job)
    BY <2>1 DEF About, Entry, IsToastUndo
  <2> QED
    BY <1>2, <1>4, <2>1, <2>3, <2>4, <2>6, <2>7, <2>8 DEF ItemsInv
<1> QED
  BY <1>3, <1>4

\* A toast that goes takes its offer with it
LEMMA ToastGone_Inv == ItemsInv /\ ToastGone => ItemsInv'
<1> SUFFICES ASSUME ItemsInv, ToastGone PROVE ItemsInv'
  OBVIOUS
<1>1. planner \in Planners /\ Sound(planner, spoiled)
  BY DEF ItemsInv, ItemsTyped
<1>2. /\ planner' = [planner EXCEPT !.toast = NoOffer]
      /\ UNCHANGED <<job, waiting, azure, born, spoiled>>
  BY DEF ToastGone
<1>3. /\ planner' \in Planners /\ planner'.rows = planner.rows /\ planner'.undo = planner.undo
      /\ planner'.redo = planner.redo /\ planner'.toast = NoOffer
  BY <1>1, <1>2, SomeOffers DEF Planners
<1>4. Sound(planner', spoiled)
  <2>1. Stands(planner', spoiled)
    BY <1>3, SomeOffers DEF Stands
  <2>2. \A i \in Items \ spoiled : Fits(planner', i)
    BY <1>1, <1>3 DEF Sound, Fits
  <2> QED
    BY <2>1, <2>2 DEF Sound
<1>5. ItemsTyped'
  BY <1>2, <1>3 DEF ItemsInv, ItemsTyped
<1>6. job # Absent => Fit(job, planner', spoiled, born)
  BY <1>3 DEF ItemsInv, Fit, SameBut, Restorable
<1>7. Waits(planner, waiting, spoiled) => Waits(planner', waiting, spoiled)
  BY <1>3 DEF Waits, Restorable
<1>8. About(job)' = About(job) /\ IsToastUndo(job)' = IsToastUndo(job)
  BY <1>2 DEF About, Entry, IsToastUndo
<1> QED
  BY <1>2, <1>4, <1>5, <1>6, <1>7, <1>8 DEF ItemsInv

-----------------------------------------------------------------------------
\* The end of a job starts from what the job and the planner hold.
LEMMA JobFields ==
  ASSUME ItemsInv, job # Absent
  PROVE  /\ job \in ItemJobs /\ job.clone \in Planners /\ Fit(job, planner, spoiled, born)
         /\ planner \in Planners /\ Sound(planner, spoiled) /\ Sound(job.clone, spoiled)
         /\ job.clone.rows = planner.rows /\ job.clone.undo = planner.undo
         /\ job.clone.redo = planner.redo
         /\ azure \in [Items -> Row \cup {Absent}] /\ born \in 1..MaxItems
         /\ spoiled \subseteq Items
         /\ \A i \in Items : i > born => planner.rows[i] = Absent /\ azure[i] = Absent
         /\ job.kind \in Kinds
<1>1. job \in ItemJobs /\ Fit(job, planner, spoiled, born)
  BY DEF ItemsInv, ItemsTyped
<1>2. job.clone \in Planners /\ job.kind \in Kinds
  BY <1>1 DEF ItemJobs
<1> QED
  BY <1>1, <1>2 DEF ItemsInv, ItemsTyped, Fit, SameBut

\* A planner whose stacks and unspoiled rows are s's, with the toast of s or one
\* that needs nothing
LEMMA SameStands ==
  ASSUME NEW s, NEW t, NEW sp, NEW more, sp \subseteq more, Stands(s, sp),
         t.toast = s.toast, t.undo = s.undo, t.redo = s.redo,
         \A i \in Items \ more : t.rows[i] = s.rows[i]
  PROVE  Stands(t, more)
BY DEF Stands, Restorable

\* An item whose row and stacks are as they were
LEMMA SameSpares ==
  ASSUME NEW s, NEW t, NEW i, t.rows[i] = s.rows[i], t.undo = s.undo, t.redo = s.redo
  PROVE  Spares(t, s, i)
BY SamePasses DEF Spares

\* What two changes in turn leave alone
LEMMA SparesOn ==
  ASSUME NEW r, NEW s, NEW t, NEW i, Spares(t, s, i), Spares(s, r, i)
  PROVE  Spares(t, r, i)
BY PassesOn DEF Spares

\* A row replaced
LEMMA RowSpares ==
  ASSUME NEW s \in Planners, NEW j \in Items, NEW row \in Row \cup {Absent}
  PROVE  LET t == [s EXCEPT !.rows[j] = row]
         IN  /\ t \in Planners /\ t.rows = [s.rows EXCEPT ![j] = row] /\ t.rows[j] = row
             /\ t.undo = s.undo /\ t.redo = s.redo /\ t.toast = s.toast
             /\ \A i \in Items : i # j => Spares(t, s, i) /\ t.rows[i] = s.rows[i]
<1> DEFINE t == [s EXCEPT !.rows[j] = row]
<1>1. s.rows \in [Items -> Row \cup {Absent}]
  BY PlannerFields
<1>2. /\ t \in Planners /\ t.rows = [s.rows EXCEPT ![j] = row]
      /\ t.undo = s.undo /\ t.redo = s.redo /\ t.toast = s.toast
  BY DEF Planners
<1> HIDE DEF t
<1>3. t.rows[j] = row /\ \A i \in Items : i # j => t.rows[i] = s.rows[i]
  BY <1>1, <1>2
<1> QED
  BY <1>2, <1>3, SameSpares DEF t

\* push_stack_toast
LEMMA ToastedFields ==
  ASSUME NEW s \in Planners
  PROVE  /\ AfterUndo(s) \in Planners /\ AfterUndo(s).rows = s.rows
         /\ AfterUndo(s).undo = s.undo /\ AfterUndo(s).redo = s.redo
         /\ \A sp : Stands(AfterUndo(s), sp)
         /\ AfterRedo(s) \in Planners /\ AfterRedo(s).rows = s.rows
         /\ AfterRedo(s).undo = s.undo /\ AfterRedo(s).redo = s.redo
         /\ AfterRedo(s).toast \in {OfferUndo, NoOffer}
         /\ [s EXCEPT !.toast = NoOffer] \in Planners /\ [s EXCEPT !.toast = NoOffer].rows = s.rows
         /\ [s EXCEPT !.toast = NoOffer].undo = s.undo /\ [s EXCEPT !.toast = NoOffer].redo = s.redo
         /\ \A sp : Stands([s EXCEPT !.toast = NoOffer], sp)
<1> DEFINE u == AfterUndo(s)
           r == AfterRedo(s)
           n == [s EXCEPT !.toast = NoOffer]
<1>1. /\ u \in Planners /\ u.rows = s.rows /\ u.undo = s.undo /\ u.redo = s.redo
      /\ u.toast = IF s.redo # << >> THEN OfferRedo ELSE NoOffer
  BY SomeOffers DEF AfterUndo, Planners
<1>2. /\ r \in Planners /\ r.rows = s.rows /\ r.undo = s.undo /\ r.redo = s.redo
      /\ r.toast = IF s.undo # << >> THEN OfferUndo ELSE NoOffer
  BY SomeOffers DEF AfterRedo, Planners
<1>3. /\ n \in Planners /\ n.rows = s.rows /\ n.undo = s.undo /\ n.redo = s.redo
      /\ n.toast = NoOffer
  BY SomeOffers DEF Planners
<1> HIDE DEF u, r, n
<1>4. \A sp : Stands(u, sp) /\ Stands(n, sp)
  BY <1>1, <1>3, SomeOffers DEF Stands
<1>5. r.toast \in {OfferUndo, NoOffer}
  BY <1>2
<1> QED
  BY <1>1, <1>2, <1>3, <1>4, <1>5 DEF u, r, n

\* A job that ends with the planner's stacks and its unspoiled rows
LEMMA SameEnd ==
  ASSUME ItemsInv, job # Absent, NEW s, NEW ok, Ends(s, ok), planner' \in Planners,
         azure' \in [Items -> Row \cup {Absent}], born' \in 1..MaxItems,
         spoiled \subseteq spoiled', spoiled' \subseteq Items,
         \A i \in Items : i > born' => planner'.rows[i] = Absent /\ azure'[i] = Absent,
         Stands(planner', spoiled'),
         planner'.undo = planner.undo, planner'.redo = planner.redo,
         \A i \in Items \ spoiled' : planner'.rows[i] = planner.rows[i]
  PROVE  ItemsInv'
<1>1. \A i \in Items \ spoiled' : Spares(planner', planner, i)
  BY SameSpares
<1>2. \A i \in Items \ spoiled' : Fits(planner', i)
  BY <1>1, SparedFits DEF ItemsInv, Sound
<1> QED
  BY <1>1, <1>2, EndStep

\* A job that ends with its clone as it was
LEMMA IdleEnd ==
  ASSUME ItemsInv, job # Absent, NEW s, NEW ok, Ends(s, ok),
         planner' = job.clone \/ planner' = planner,
         azure' \in [Items -> Row \cup {Absent}], born' \in born..MaxItems,
         spoiled \subseteq spoiled', spoiled' \subseteq Items,
         \A i \in Items : i > born' => azure'[i] = Absent
  PROVE  ItemsInv'
<1>1. /\ job.clone \in Planners /\ Sound(job.clone, spoiled) /\ Sound(planner, spoiled)
      /\ planner \in Planners /\ born \in 1..MaxItems
      /\ job.clone.rows = planner.rows /\ job.clone.undo = planner.undo
      /\ job.clone.redo = planner.redo
      /\ \A i \in Items : i > born => planner.rows[i] = Absent
  BY JobFields
<1>2. planner'.rows = planner.rows /\ planner'.undo = planner.undo /\ planner'.redo = planner.redo
  BY <1>1
<1>3. Stands(planner', spoiled')
  BY <1>1, SoundMore DEF Sound
<1>4. \A i \in Items : i > born' => planner'.rows[i] = Absent
  <2> TAKE i \in Items
  <2> HAVE i > born'
  <2>1. i > born
    BY <1>1 DEF Items
  <2> QED
    BY <1>1, <1>2, <2>1
<1>5. born' \in 1..MaxItems
  BY <1>1
<1> QED
  BY <1>1, <1>2, <1>3, <1>4, <1>5, SameEnd

\* An item created, or a request lost: the new entry is the item's only one
LEMMA AddEnds_Inv ==
  ASSUME NEW ok \in BOOLEAN, NEW applied \in BOOLEAN
  PROVE  ItemsInv /\ AddEnds(ok, applied) => ItemsInv'
<1> SUFFICES ASSUME ItemsInv, AddEnds(ok, applied) PROVE ItemsInv'
  OBVIOUS
<1> DEFINE i == job.item
           e == Created(i)
           offer == DeleteCreated(i)
<1>1. job # Absent /\ job.kind = "add" /\ (ok => applied) /\ UNCHANGED spoiled
  BY DEF AddEnds
<1>2. PICK row \in {[n \in Names |-> CHOOSE v \in Texts : TRUE]} :
        /\ azure' = IF applied THEN [azure EXCEPT ![i] = row] ELSE azure
        /\ Ends(IF ok THEN Recorded([job.clone EXCEPT !.rows[i] = row], e, offer)
                ELSE job.clone, ok)
  BY DEF AddEnds
<1>3. born' = IF applied THEN i ELSE born
  BY DEF AddEnds
<1>4. /\ job.clone \in Planners /\ planner \in Planners /\ Sound(planner, spoiled)
      /\ job.clone.rows = planner.rows /\ job.clone.undo = planner.undo
      /\ job.clone.redo = planner.redo
      /\ azure \in [Items -> Row \cup {Absent}] /\ born \in 1..MaxItems
      /\ spoiled \subseteq Items
      /\ \A j \in Items : j > born => planner.rows[j] = Absent /\ azure[j] = Absent
  BY <1>1, JobFields
<1>5. i \in Items /\ i = born + 1
  BY <1>1, JobFields DEF Fit
<1>6. row \in Row /\ Absent # row
  <2>1. (CHOOSE v \in Texts : TRUE) \in Texts
    BY ItemsAssumption
  <2> QED
    BY <2>1, ItemsAssumption DEF Row
<1>7. azure' \in [Items -> Row \cup {Absent}]
  BY <1>2, <1>4, <1>6
<1>8. born' \in born..MaxItems /\ born' \in 1..MaxItems
  BY <1>3, <1>4, <1>5 DEF Items
<1>9. \A j \in Items : j > born' => azure'[j] = Absent /\ planner.rows[j] = Absent /\ (ok => j # i)
  <2> TAKE j \in Items
  <2> HAVE j > born'
  <2>1. j \in Int /\ j > born /\ (applied => j # i)
    BY <1>3, <1>4, <1>5 DEF Items
  <2> QED
    BY <1>1, <1>2, <1>4, <2>1
<1>10. ~IsToastUndo(job) /\ About(job) = i
  BY <1>1 DEF IsToastUndo, About, Entry, Created
<1>11. CASE ~ok
  <2>1. planner' = Finished(job, job.clone, FALSE)
    BY <1>2, <1>10, <1>11 DEF Ends
  <2>2. planner' = job.clone
    BY <1>1, <2>1 DEF Finished
  <2> QED
    BY <1>1, <1>2, <1>4, <1>7, <1>8, <1>9, <2>2, IdleEnd
<1>12. CASE ok
  <2> DEFINE g == [job.clone EXCEPT !.rows[i] = row]
             t == Recorded(g, e, offer)
  <2>1. Ends(t, ok) /\ planner' = Finished(job, t, TRUE)
    BY <1>2, <1>10, <1>12 DEF Ends
  <2>2. planner' = t
    BY <1>1, <2>1 DEF Finished
  <2>3. /\ g \in Planners /\ g.rows[i] = row /\ g.undo = planner.undo
        /\ \A j \in Items : j # i => Spares(g, job.clone, j) /\ g.rows[j] = planner.rows[j]
    <3>1. job.clone \in Planners /\ i \in Items /\ row \in Row \cup {Absent}
      BY <1>4, <1>5, <1>6
    <3>2. /\ g \in Planners /\ g.rows[i] = row /\ g.undo = job.clone.undo
          /\ \A j \in Items : j # i => Spares(g, job.clone, j) /\ g.rows[j] = job.clone.rows[j]
      BY <3>1, RowSpares
    <3> QED
      BY <1>4, <3>2
  <2>4. e \in Entries /\ e.item = i /\ DOMAIN e.after = {}
    <3>1. DOMAIN << >> = {}
      OBVIOUS
    <3> QED
      BY <1>5, <3>1, NoValues DEF Created, Entries
  <2>5. offer \in Offers /\ offer.kind = "DeleteCreated" /\ offer.item = i
    BY <1>5 DEF DeleteCreated, Offer, Offers
  <2> HIDE DEF g, e, offer
  <2>6. /\ t \in Planners /\ t.rows = g.rows /\ t.redo = << >> /\ t.toast = offer
        /\ \A j : Passes(t.undo, Append(g.undo, e), j)
        /\ \A j : j # e.item => Spares(t, g, j)
    BY <2>3, <2>4, <2>5, RecordedSpares
  <2> HIDE DEF t, i
  <2>7. \A j \in Items : j # i => Spares(t, planner, j)
    <3> TAKE j \in Items
    <3> HAVE j # i
    <3>1. Spares(job.clone, planner, j)
      BY <1>4, SameSpares
    <3>2. Spares(t, g, j) /\ Spares(g, job.clone, j)
      BY <2>3, <2>4, <2>6
    <3> QED
      BY <3>1, <3>2, SparesOn
  <2>8. i \notin spoiled => Fits(t, i)
    <3> SUFFICES ASSUME i \notin spoiled PROVE Fits(t, i)
      OBVIOUS
    <3>1. planner.rows[i] = Absent /\ Fits(planner, i)
      BY <1>4, <1>5 DEF Sound
    <3>2. Silent(g.undo, i)
      BY <2>3, <3>1 DEF Fits
    <3>3. ASSUME NEW n \in Names PROVE Leads(t.undo, i, n, row[n], "undo")
      <4>1. Leads(g.undo, i, n, row[n], "undo")
        BY <3>2, LeadsSilent
      <4>2. ~Touches(e, i, n)
        BY <2>4 DEF Touches
      <4>3. g.undo \in Seq(Entries)
        BY <2>3, PlannerFields
      <4>4. Leads(Append(g.undo, e), i, n, row[n], "undo")
        BY <2>4, <4>1, <4>2, <4>3, LeadsPush
      <4> QED
        BY <2>6, <4>4 DEF Passes
    <3>4. \A n \in Names : Leads(t.redo, i, n, row[n], "redo")
      BY <2>6, EmptyPasses, LeadsSilent
    <3>5. t.rows[i] = row
      BY <2>3, <2>6
    <3> QED
      BY <1>6, <3>3, <3>4, <3>5 DEF Fits
  <2>9. Stands(t, spoiled)
    BY <1>6, <2>3, <2>5, <2>6 DEF Stands
  <2>10. \A j \in Items : j > born' => t.rows[j] = Absent
    BY <1>9, <1>12, <2>3, <2>6
  <2> QED
    BY <1>1, <1>4, <1>7, <1>8, <1>9, <1>10, <2>1, <2>2, <2>6, <2>7, <2>8, <2>9, <2>10, EndStep
<1> QED
  BY <1>11, <1>12

\* The rows loaded replace the clone's; an item they change is excused
LEMMA LoadEnds_Inv ==
  ASSUME NEW ok \in BOOLEAN
  PROVE  ItemsInv /\ LoadEnds(ok) => ItemsInv'
<1> SUFFICES ASSUME ItemsInv, LoadEnds(ok) PROVE ItemsInv'
  OBVIOUS
<1> DEFINE t == [job.clone EXCEPT !.rows = azure]
<1>1. /\ job # Absent /\ job.kind = "load" /\ UNCHANGED <<azure, born>>
      /\ Ends(IF ok THEN t ELSE job.clone, ok)
      /\ spoiled' = IF ok THEN spoiled \cup {i \in Items : azure[i] # planner.rows[i]} ELSE spoiled
  BY DEF LoadEnds
<1>2. /\ job.clone \in Planners /\ Sound(job.clone, spoiled)
      /\ job.clone.rows = planner.rows /\ job.clone.undo = planner.undo
      /\ job.clone.redo = planner.redo
      /\ azure \in [Items -> Row \cup {Absent}] /\ born \in 1..MaxItems
      /\ spoiled \subseteq Items
      /\ \A j \in Items : j > born => planner.rows[j] = Absent /\ azure[j] = Absent
  BY <1>1, JobFields
<1>3. ~IsToastUndo(job)
  BY <1>1 DEF IsToastUndo
<1>4. spoiled \subseteq spoiled' /\ spoiled' \subseteq Items /\ born' \in born..MaxItems
  BY <1>1, <1>2
<1>5. CASE ~ok
  <2>1. planner' = Finished(job, job.clone, FALSE)
    BY <1>1, <1>3, <1>5 DEF Ends
  <2>2. planner' = job.clone
    BY <1>1, <2>1 DEF Finished
  <2> QED
    BY <1>1, <1>2, <1>4, <2>2, IdleEnd
<1>6. CASE ok
  <2>1. Ends(t, ok) /\ planner' = Finished(job, t, TRUE)
    BY <1>1, <1>3, <1>6 DEF Ends
  <2>2. planner' = t
    BY <1>1, <2>1 DEF Finished
  <2>3. /\ t \in Planners /\ t.rows = azure /\ t.undo = job.clone.undo /\ t.redo = job.clone.redo
        /\ t.toast = job.clone.toast
    BY <1>2 DEF Planners
  <2> HIDE DEF t
  <2>4. \A i \in Items \ spoiled' : t.rows[i] = job.clone.rows[i]
    BY <1>1, <1>2, <1>6, <2>3
  <2>5. Stands(t, spoiled')
    BY <1>2, <1>4, <2>3, <2>4, SameStands DEF Sound
  <2> QED
    BY <1>1, <1>2, <1>4, <2>1, <2>2, <2>3, <2>4, <2>5, SameEnd
<1> QED
  BY <1>5, <1>6

\* An edit answered puts its entry on top of a history that led to the row
LEMMA EditEnds_Inv ==
  ASSUME NEW ok \in BOOLEAN, NEW applied \in BOOLEAN
  PROVE  ItemsInv /\ EditEnds(ok, applied) => ItemsInv'
<1> SUFFICES ASSUME ItemsInv, EditEnds(ok, applied) PROVE ItemsInv'
  OBVIOUS
<1> DEFINE i == job.item
           v == job.values
           before == [n \in DOMAIN v |-> job.row[n]]
           e == Edited(i, before, v)
           offer == RestoreFields(i, before)
           g == Rewritten(job.clone, i, Over(v, job.row))
           t == Recorded(g, e, offer)
<1>1. job # Absent /\ job.kind = "edit" /\ (ok => applied) /\ UNCHANGED <<born, spoiled>>
  BY DEF EditEnds
<1>2. /\ azure[i] = Absent => ~applied
      /\ azure' = IF applied THEN [azure EXCEPT ![i] = Over(v, azure[i])] ELSE azure
      /\ Ends(IF ok THEN t ELSE job.clone, ok)
  BY DEF EditEnds
<1>3. /\ job.clone \in Planners /\ planner \in Planners /\ Sound(planner, spoiled)
      /\ job.clone.rows = planner.rows /\ job.clone.undo = planner.undo
      /\ job.clone.redo = planner.redo
      /\ azure \in [Items -> Row \cup {Absent}] /\ born \in 1..MaxItems
      /\ spoiled \subseteq Items
      /\ \A j \in Items : j > born => planner.rows[j] = Absent /\ azure[j] = Absent
  BY <1>1, JobFields
<1>4. /\ i \in Items /\ v \in Partial /\ v \in Values /\ job.row \in Row
      /\ planner.rows[i] # Absent /\ (i \notin spoiled => job.row = planner.rows[i])
  BY <1>1, JobFields DEF Fit, Values
<1>5. azure' \in [Items -> Row \cup {Absent}] /\ \A j \in Items : j > born => azure'[j] = Absent
  <2>1. CASE applied
    <3>1. azure[i] \in Row
      BY <1>2, <1>3, <1>4, <2>1
    <3>2. Over(v, azure[i]) \in Row
      BY <1>4, <3>1, OverRow
    <3>3. ~(i > born)
      BY <1>2, <1>3, <1>4, <2>1
    <3> QED
      BY <1>2, <1>3, <2>1, <3>2, <3>3
  <2> QED
    BY <1>2, <1>3, <2>1
<1>6. ~IsToastUndo(job) /\ About(job) = i
  BY <1>1 DEF IsToastUndo, About, Entry, Created
<1>7. CASE ~ok
  <2>1. planner' = Finished(job, job.clone, FALSE)
    BY <1>2, <1>6, <1>7 DEF Ends
  <2>2. planner' = job.clone
    BY <1>1, <2>1 DEF Finished
  <2>3. born' \in born..MaxItems
    BY <1>1, <1>3
  <2> QED
    BY <1>1, <1>2, <1>3, <1>5, <2>2, <2>3, IdleEnd
<1>8. CASE ok
  <2>1. Ends(t, ok) /\ planner' = Finished(job, t, TRUE)
    BY <1>2, <1>6, <1>8 DEF Ends
  <2>2. planner' = t
    BY <1>1, <2>1 DEF Finished
  <2>3. DOMAIN v \subseteq Names
    BY <1>4, ValueFields
  <2>4. before \in Partial /\ DOMAIN before = DOMAIN v /\ \A n \in DOMAIN v : before[n] = job.row[n]
    <3>1. DOMAIN v \in SUBSET Names /\ before \in [DOMAIN v -> Texts]
      BY <1>4, <2>3 DEF Row
    <3> QED
      BY <3>1 DEF Partial
  <2>5. /\ Over(v, job.row) \in Row /\ DOMAIN Over(v, job.row) = Names
        /\ \A n \in Names : Over(v, job.row)[n] = IF n \in DOMAIN v THEN v[n] ELSE job.row[n]
    BY <1>4, OverRow DEF Over
  <2>6. Over(v, job.row) \in Values
    BY <2>5 DEF Values, Partial, Row
  <2> DEFINE row == Over(v, job.row)
  <2>7. row \in Row /\ row \in Values /\ DOMAIN row = Names
    BY <2>5, <2>6
  <2>8. /\ g \in Planners /\ g.undo = job.clone.undo
        /\ g.rows = [job.clone.rows EXCEPT ![i] = Over(row, job.clone.rows[i])]
        /\ g.rows[i] = Over(row, job.clone.rows[i])
        /\ \A j \in Items : j # i => Spares(g, job.clone, j)
    <3>1. job.clone \in Planners /\ i \in Items /\ row \in Values /\ DOMAIN row = Names
      BY <1>3, <1>4, <2>7
    <3> HIDE DEF row, i
    <3>2. g = Rewritten(job.clone, i, row)
      BY DEF row
    <3> QED
      BY <3>1, <3>2, RewrittenSpares
  <2>9. e \in Entries /\ e.item = i /\ e.before = before /\ e.after = v /\ e.kind = "Fields"
    BY <1>4, <2>4 DEF Edited, Entries, Values
  <2>10. /\ offer \in Offers /\ offer.kind = "RestoreFields" /\ offer.item = i
         /\ offer.values = before
    BY <1>4, <2>4 DEF RestoreFields, Offer, Offers
  <2> HIDE DEF g, e, offer, before
  <2>11. /\ t \in Planners /\ t.rows = g.rows /\ t.redo = << >> /\ t.toast = offer
         /\ \A j : Passes(t.undo, Append(g.undo, e), j)
         /\ \A j : j # e.item => Spares(t, g, j)
    BY <2>8, <2>9, <2>10, RecordedSpares
  <2> HIDE DEF t, i, v
  <2>12. g.undo \in Seq(Entries) /\ g.undo = planner.undo
    BY <1>3, <2>8, PlannerFields
  <2>13. t.rows[i] = row
    <3>1. Over(row, job.clone.rows[i]) = row
      BY <2>5 DEF Over
    <3> QED
      BY <2>8, <2>11, <3>1
  <2>14. t.rows[i] # Absent
    BY <2>7, <2>13, ItemsAssumption
  <2>15. \A j \in Items : j # i => Spares(t, planner, j)
    <3> TAKE j \in Items
    <3> HAVE j # i
    <3>1. Spares(job.clone, planner, j)
      BY <1>3, SameSpares
    <3>2. Spares(t, g, j) /\ Spares(g, job.clone, j)
      BY <2>8, <2>9, <2>11
    <3> QED
      BY <3>1, <3>2, SparesOn
  <2>16. i \notin spoiled => Fits(t, i)
    <3> SUFFICES ASSUME i \notin spoiled PROVE Fits(t, i)
      OBVIOUS
    <3>1. planner.rows[i] # Absent /\ Fits(planner, i) /\ job.row = planner.rows[i]
      BY <1>3, <1>4 DEF Sound
    <3>2. ASSUME NEW n \in Names PROVE Leads(t.undo, i, n, row[n], "undo")
      <4>1. Leads(g.undo, i, n, job.row[n], "undo")
        BY <2>12, <3>1 DEF Fits
      <4>2. Touches(e, i, n) <=> n \in DOMAIN v
        BY <2>9 DEF Touches
      <4>3. n \in DOMAIN v => From(e, n, "undo") = job.row[n] /\ To(e, n, "undo") = v[n]
        BY <2>4, <2>9 DEF From, To
      <4>4. IF Touches(e, i, n) THEN From(e, n, "undo") = job.row[n] /\ To(e, n, "undo") = row[n]
            ELSE job.row[n] = row[n]
        BY <2>5, <4>2, <4>3
      <4>5. Leads(Append(g.undo, e), i, n, row[n], "undo")
        BY <2>9, <2>12, <4>1, <4>4, LeadsPush
      <4> QED
        BY <2>11, <4>5 DEF Passes
    <3>3. \A n \in Names : Leads(t.redo, i, n, row[n], "redo")
      BY <2>11, EmptyPasses, LeadsSilent
    <3> QED
      BY <2>13, <2>14, <3>2, <3>3 DEF Fits
  <2>17. Restorable(t, i, before)
    <3> DEFINE p == Append(g.undo, e)
               a == Len(g.undo)
    <3>1. a \in Nat /\ Len(p) = a + 1 /\ p[a + 1] = e
      BY <2>9, <2>12, Pushed
    <3> HIDE DEF p, a
    <3>2. Restores(p, i, before)
      <4> SUFFICES ASSUME NEW k \in 1..(a + 1), \A m \in 1..(a + 1) : m > k => p[m].item # i
                   PROVE  p[k].kind = "Fields" /\ p[k].before = before
        BY <3>1 DEF Restores
      <4>1. a + 1 \in 1..(a + 1) /\ p[a + 1].item = i
        BY <2>9, <3>1
      <4>2. k = a + 1
        BY <3>1, <4>1
      <4> QED
        BY <2>9, <3>1, <4>2
    <3>3. Restores(t.undo, i, before)
      BY <2>11, <3>2 DEF Passes, p
    <3> QED
      BY <2>11, <3>3, EmptyPasses DEF Restorable
  <2>18. Stands(t, spoiled)
    BY <2>10, <2>11, <2>14, <2>17 DEF Stands
  <2>19. \A j \in Items : j > born => t.rows[j] = Absent
    <3> TAKE j \in Items
    <3> HAVE j > born
    <3>1. planner.rows[j] = Absent /\ j # i
      BY <1>3, <1>4
    <3> QED
      BY <1>3, <2>8, <2>11, <3>1 DEF Spares
  <2> HIDE DEF row
  <2>20. About(job) = i
    BY <1>6
  <2> QED
    BY <1>1, <1>3, <1>5, <2>1, <2>2, <2>11, <2>15, <2>16, <2>18, <2>19, <2>20, EndStep
<1> QED
  BY <1>7, <1>8

\* The entry an Undo or a Redo is about
LEMMA EntryOf ==
  ASSUME ItemsInv, job # Absent
  PROVE  /\ job.kind = "undo" =>
              /\ planner.undo # << >> /\ job.clone.undo # << >>
              /\ Entry(job) = Last(job.clone.undo) /\ Entry(job) \in Entries
         /\ job.kind = "redo" =>
              /\ planner.redo # << >> /\ job.clone.redo # << >>
              /\ Entry(job) = Last(job.clone.redo) /\ Entry(job) \in Entries
         /\ job.kind \notin {"undo", "redo"} => About(job) = job.item
<1>1. /\ Fit(job, planner, spoiled, born) /\ job.clone \in Planners
      /\ job.clone.undo = planner.undo /\ job.clone.redo = planner.redo
  BY JobFields
<1>2. job.clone.undo \in Seq(Entries) /\ job.clone.redo \in Seq(Entries)
  BY <1>1, PlannerFields
<1>3. CASE job.kind = "undo"
  <2>1. job.clone.undo # << >> /\ Entry(job) = Last(job.clone.undo)
    BY <1>1, <1>3 DEF Fit, Entry
  <2> QED
    BY <1>1, <1>2, <1>3, <2>1, FrontLast
<1>4. CASE job.kind = "redo"
  <2>1. job.clone.redo # << >> /\ Entry(job) = Last(job.clone.redo)
    BY <1>1, <1>4 DEF Fit, Entry
  <2> QED
    BY <1>1, <1>2, <1>4, <2>1, FrontLast
<1>5. CASE job.kind \notin {"undo", "redo"}
  BY <1>5 DEF About, Entry, Created
<1> QED
  BY <1>3, <1>4, <1>5

\* undo and redo put back the entry of a change that did not go through
LEMMA PutBack ==
  ASSUME NEW s \in Planners
  PROVE  /\ s.undo # << >> =>
              LET p == [s EXCEPT !.undo = Front(@)]
              IN  /\ p \in Planners /\ p.rows = s.rows /\ p.redo = s.redo /\ p.toast = s.toast
                  /\ p.undo = Front(s.undo)
         /\ s.redo # << >> =>
              LET p == [s EXCEPT !.redo = Front(@)]
              IN  /\ p \in Planners /\ p.rows = s.rows /\ p.undo = s.undo /\ p.toast = s.toast
                  /\ p.redo = Front(s.redo)
<1>1. s.undo \in Seq(Entries) /\ s.redo \in Seq(Entries)
  BY PlannerFields
<1>2. ASSUME s.undo # << >>
      PROVE  LET p == [s EXCEPT !.undo = Front(@)]
             IN  /\ p \in Planners /\ p.rows = s.rows /\ p.redo = s.redo /\ p.toast = s.toast
                 /\ p.undo = Front(s.undo)
  <2>1. Front(s.undo) \in Seq(Entries)
    BY <1>1, <1>2, FrontLast
  <2> QED
    BY <2>1 DEF Planners
<1>3. ASSUME s.redo # << >>
      PROVE  LET p == [s EXCEPT !.redo = Front(@)]
             IN  /\ p \in Planners /\ p.rows = s.rows /\ p.undo = s.undo /\ p.toast = s.toast
                 /\ p.redo = Front(s.redo)
  <2>1. Front(s.redo) \in Seq(Entries)
    BY <1>1, <1>3, FrontLast
  <2> QED
    BY <2>1 DEF Planners
<1> QED
  BY <1>2, <1>3

\* An item gone, with what is left of its history
LEMMA GoneEnd ==
  ASSUME ItemsInv, job # Absent, NEW s, NEW ok, Ends(s, ok), NEW i \in Items, About(job) = i,
         planner' \in Planners, planner'.rows = [planner.rows EXCEPT ![i] = Absent],
         Fits(planner', i), \A j \in Items : j # i => Spares(planner', planner, j),
         \A sp : Stands(planner', sp),
         azure' \in [Items -> Row \cup {Absent}], UNCHANGED <<born, spoiled>>,
         \A j \in Items : j > born => azure'[j] = Absent
  PROVE  ItemsInv'
<1>1. /\ planner \in Planners /\ born \in 1..MaxItems /\ spoiled \subseteq Items
      /\ \A j \in Items : j > born => planner.rows[j] = Absent
  BY JobFields
<1>2. \A j \in Items : j > born => planner'.rows[j] = Absent
  BY <1>1, PlannerFields
<1> QED
  BY <1>1, <1>2, EndStep

\* An item deleted takes its entries and its toast along
LEMMA DeleteEnds_Inv ==
  ASSUME NEW ok \in BOOLEAN, NEW applied \in BOOLEAN
  PROVE  ItemsInv /\ DeleteEnds(ok, applied) => ItemsInv'
<1> SUFFICES ASSUME ItemsInv, DeleteEnds(ok, applied) PROVE ItemsInv'
  OBVIOUS
<1> DEFINE i == About(job)
           c == job.clone
           s == IF ok THEN Deleted(Popped(job), i) ELSE Popped(job)
<1>1. /\ job # Absent /\ Deletes(job) /\ (ok => applied) /\ UNCHANGED <<born, spoiled>>
      /\ azure' = IF applied THEN [azure EXCEPT ![i] = Absent] ELSE azure
      /\ Ends(s, ok)
  BY DEF DeleteEnds
<1>2. /\ c \in Planners /\ planner \in Planners /\ Sound(planner, spoiled)
      /\ c.rows = planner.rows /\ c.undo = planner.undo /\ c.redo = planner.redo
      /\ azure \in [Items -> Row \cup {Absent}] /\ born \in 1..MaxItems
      /\ spoiled \subseteq Items /\ Fit(job, planner, spoiled, born)
      /\ \A j \in Items : j > born => planner.rows[j] = Absent /\ azure[j] = Absent
  BY <1>1, JobFields
<1>3. \/ job.kind = "delete" \/ job.kind = "DeleteCreated"
      \/ job.kind = "undo" /\ Entry(job).kind = "Created"
  BY <1>1 DEF Deletes
<1>4. i \in Items
  <2>1. CASE job.kind = "undo"
    BY <1>1, <2>1, EntryOf, EntryFields DEF About
  <2>2. CASE job.kind # "undo"
    BY <1>1, <1>2, <1>3, <2>2, EntryOf DEF Fit
  <2> QED
    BY <2>1, <2>2
<1>5. /\ azure' \in [Items -> Row \cup {Absent}] /\ \A j \in Items : j > born => azure'[j] = Absent
      /\ born' \in born..MaxItems
  BY <1>1, <1>2, <1>4
<1>6. ASSUME NEW t \in Planners, t.rows = planner.rows, NEW toast \in Offers,
             \A j \in Items : j # i => Spares(t, planner, j),
             NEW d, d = Dropped([t EXCEPT !.rows[i] = Absent, !.toast = toast], i)
      PROVE  /\ d \in Planners /\ d.rows = [planner.rows EXCEPT ![i] = Absent]
             /\ Fits(d, i) /\ \A j \in Items : j # i => Spares(d, planner, j)
  <2> HIDE DEF i
  <2>1. /\ d \in Planners /\ d.rows = [t.rows EXCEPT ![i] = Absent]
        /\ Fits(d, i) /\ \A j \in Items : j # i => Spares(d, t, j)
    BY <1>4, <1>6, GoneSpares
  <2>2. \A j \in Items : j # i => Spares(d, planner, j)
    BY <1>6, <2>1, SparesOn
  <2> QED
    BY <1>2, <1>6, <2>1, <2>2
<1>7. \A j \in Items : j # i => Spares(c, planner, j)
  BY <1>2, SameSpares
<1>12. About(job) = i
  OBVIOUS
<1>8. ASSUME NEW t \in Planners
      PROVE  \E toast \in Offers :
               Deleted(t, i) = Dropped([t EXCEPT !.rows[i] = Absent, !.toast = toast], i)
  <2> DEFINE toast == IF t.toast.item = i THEN NoOffer ELSE t.toast
  <2>1. toast \in Offers
    BY PlannerFields, SomeOffers
  <2>2. [t EXCEPT !.rows[i] = Absent, !.toast = IF @.item = i THEN NoOffer ELSE @]
          = [t EXCEPT !.rows[i] = Absent, !.toast = toast]
    BY DEF Planners
  <2>3. Deleted(t, i) = Dropped([t EXCEPT !.rows[i] = Absent, !.toast = toast], i)
    BY <2>2 DEF Deleted
  <2> QED
    BY <2>1, <2>3
<1>9. CASE job.kind = "delete"
  <2>1. Popped(job) = c /\ ~IsToastUndo(job)
    BY <1>9 DEF Popped, IsToastUndo
  <2>2. CASE ~ok
    <3>1. planner' = c
      BY <1>1, <1>9, <2>1, <2>2 DEF Ends, Finished
    <3> QED
      BY <1>1, <1>2, <1>5, <3>1, IdleEnd
  <2>3. CASE ok
    <3> DEFINE d == Deleted(c, i)
    <3>1. planner' = [d EXCEPT !.toast = NoOffer]
      BY <1>1, <1>9, <2>1, <2>3 DEF Ends, Finished
    <3>2. PICK toast \in Offers : d = Dropped([c EXCEPT !.rows[i] = Absent, !.toast = toast], i)
      BY <1>2, <1>8
    <3> HIDE DEF d, c, i
    <3>6. c \in Planners /\ c.rows = planner.rows /\ \A j \in Items : j # i => Spares(c, planner, j)
      BY <1>2, <1>7
    <3>3. /\ d \in Planners /\ d.rows = [planner.rows EXCEPT ![i] = Absent]
          /\ Fits(d, i) /\ \A j \in Items : j # i => Spares(d, planner, j)
      BY <1>6, <3>2, <3>6
    <3>4. /\ planner' \in Planners /\ planner'.rows = d.rows /\ planner'.undo = d.undo
          /\ planner'.redo = d.redo /\ \A sp : Stands(planner', sp)
      BY <3>1, <3>3, ToastedFields
    <3>5. Fits(planner', i) /\ \A j \in Items : j # i => Spares(planner', planner, j)
      BY <3>3, <3>4 DEF Fits, Spares
    <3> QED
      BY <1>1, <1>4, <1>5, <3>3, <3>4, <3>5, <1>12, GoneEnd
  <2> QED
    BY <2>2, <2>3
<1>10. CASE job.kind = "DeleteCreated"
  <2>1. IsToastUndo(job) /\ i = job.item
    BY <1>1, <1>10, EntryOf DEF IsToastUndo
  <2>2. CASE ~ok
    <3>1. planner' = planner
      BY <1>1, <2>1, <2>2 DEF Ends
    <3> QED
      BY <1>1, <1>2, <1>5, <3>1, IdleEnd
  <2>3. CASE ok
    <3> DEFINE d == Dropped([planner EXCEPT !.rows[i] = Absent], i)
    <3>1. planner' = AfterUndo(d)
      BY <1>1, <2>1, <2>3 DEF Ends, Merged
    <3>2. planner.toast \in Offers
      BY <1>2, PlannerFields
    <3>3. [planner EXCEPT !.rows[i] = Absent]
            = [planner EXCEPT !.rows[i] = Absent, !.toast = planner.toast]
      BY <1>2 DEF Planners
    <3>4. \A j \in Items : j # i => Spares(planner, planner, j)
      BY SamePasses DEF Spares
    <3>8. d = Dropped([planner EXCEPT !.rows[i] = Absent, !.toast = planner.toast], i)
      BY <3>3
    <3> HIDE DEF d, c, i
    <3>5. /\ d \in Planners /\ d.rows = [planner.rows EXCEPT ![i] = Absent]
          /\ Fits(d, i) /\ \A j \in Items : j # i => Spares(d, planner, j)
      BY <1>2, <1>6, <3>2, <3>4, <3>8
    <3>6. /\ planner' \in Planners /\ planner'.rows = d.rows /\ planner'.undo = d.undo
          /\ planner'.redo = d.redo /\ \A sp : Stands(planner', sp)
      BY <3>1, <3>5, ToastedFields
    <3>7. Fits(planner', i) /\ \A j \in Items : j # i => Spares(planner', planner, j)
      BY <3>5, <3>6 DEF Fits, Spares
    <3> QED
      BY <1>1, <1>4, <1>5, <3>5, <3>6, <3>7, <1>12, GoneEnd
  <2> QED
    BY <2>2, <2>3
<1>11. CASE job.kind = "undo" /\ Entry(job).kind = "Created"
  <2> DEFINE e == Entry(job)
             p == [c EXCEPT !.undo = Front(@)]
  <2>1. /\ Popped(job) = p /\ ~IsToastUndo(job) /\ c.undo # << >> /\ e = Last(c.undo)
        /\ e \in Entries /\ e.item = i
    BY <1>1, <1>11, EntryOf DEF Popped, IsToastUndo, About
  <2>2. /\ p \in Planners /\ p.rows = c.rows /\ p.redo = c.redo /\ p.toast = c.toast
        /\ p.undo = Front(c.undo)
    BY <1>2, <2>1, PutBack
  <2>3. c.undo \in Seq(Entries)
    BY <1>2, PlannerFields
  <2>4. CASE ~ok
    <3>1. planner' = [p EXCEPT !.undo = Append(@, e)]
      BY <1>1, <1>11, <2>1, <2>4 DEF Ends, Finished, Undone
    <3>2. Append(p.undo, e) = c.undo
      BY <2>1, <2>2, <2>3, FrontLast
    <3>3. planner' = c
      BY <1>2, <2>2, <3>1, <3>2 DEF Planners
    <3> QED
      BY <1>1, <1>2, <1>5, <3>3, IdleEnd
  <2>5. CASE ok
    <3> DEFINE d == Deleted(p, i)
    <3>1. planner' = AfterUndo(d)
      BY <1>1, <1>11, <2>1, <2>5 DEF Ends, Finished, Undone
    <3>2. PICK toast \in Offers : d = Dropped([p EXCEPT !.rows[i] = Absent, !.toast = toast], i)
      BY <1>8, <2>2
    <3>3. \A j \in Items : j # i => Spares(p, planner, j)
      <4> TAKE j \in Items
      <4> HAVE j # i
      <4>1. Passes(Front(c.undo), c.undo, j)
        <5>1. Front(c.undo) \in Seq(Entries)
          BY <2>1, <2>3, FrontLast
        <5>2. Last(c.undo).item # j
          BY <2>1
        <5> QED
          BY <2>1, <2>3, <5>1, <5>2, FrontKeeps, KeptPasses
      <4> QED
        BY <1>2, <2>2, <4>1, SamePasses DEF Spares
    <3> HIDE DEF d, p, c, i
    <3>4. /\ d \in Planners /\ d.rows = [planner.rows EXCEPT ![i] = Absent]
          /\ Fits(d, i) /\ \A j \in Items : j # i => Spares(d, planner, j)
      BY <1>2, <1>6, <2>2, <3>2, <3>3
    <3>5. /\ planner' \in Planners /\ planner'.rows = d.rows /\ planner'.undo = d.undo
          /\ planner'.redo = d.redo /\ \A sp : Stands(planner', sp)
      BY <3>1, <3>4, ToastedFields
    <3>6. Fits(planner', i) /\ \A j \in Items : j # i => Spares(planner', planner, j)
      BY <3>4, <3>5 DEF Fits, Spares
    <3> QED
      BY <1>1, <1>4, <1>5, <3>4, <3>5, <3>6, <1>12, GoneEnd
  <2> QED
    BY <2>4, <2>5
<1> QED
  BY <1>3, <1>9, <1>10, <1>11

\* The row that restore_fields leaves, having taken the values v of the fields `taken`
RestoredRow(s, p, i, v, taken) ==
  /\ s \in Planners /\ s.undo = p.undo /\ s.redo = p.redo /\ s.toast = p.toast
  /\ \A j \in Items : j # i => s.rows[j] = p.rows[j]
  /\ taken = {} => s.rows = p.rows
  /\ p.rows[i] = Absent => s.rows[i] = Absent
  /\ taken = DOMAIN v /\ p.rows[i] # Absent =>
       /\ s.rows[i] # Absent
       /\ \A n \in Names : s.rows[i][n] = IF n \in DOMAIN v THEN v[n] ELSE p.rows[i][n]

\* Some of the fields of a change are a change
LEMMA SomeValues ==
  ASSUME NEW v \in Values, NEW set, set \subseteq DOMAIN v
  PROVE  [n \in set |-> v[n]] \in Values /\ DOMAIN [n \in set |-> v[n]] = set
<1>1. DOMAIN v \subseteq Names /\ \A n \in DOMAIN v : v[n] \in Texts
  BY ValueFields
<1>2. set \in SUBSET Names /\ [n \in set |-> v[n]] \in [set -> Texts]
  BY <1>1
<1> QED
  BY <1>2 DEF Values, Partial

\* restore_fields
LEMMA RestoredRows ==
  ASSUME NEW p \in Planners, NEW i \in Items, NEW v \in Values, NEW taken, taken \subseteq DOMAIN v,
         p.rows[i] = Absent => taken = {},
         NEW s, s = IF taken = {} THEN p ELSE Rewritten(p, i, [n \in taken |-> v[n]])
  PROVE  RestoredRow(s, p, i, v, taken)
<1> DEFINE w == [n \in taken |-> v[n]]
<1>1. p.rows \in [Items -> Row \cup {Absent}]
  BY PlannerFields
<1>2. CASE taken = {}
  BY <1>2 DEF RestoredRow
<1>3. CASE taken # {}
  <2>1. w \in Values /\ DOMAIN w = taken /\ \A n \in taken : w[n] = v[n]
    BY SomeValues
  <2>2. p.rows[i] # Absent /\ s = Rewritten(p, i, w)
    BY <1>3
  <2> HIDE DEF w
  <2>3. /\ s \in Planners /\ s.rows = [p.rows EXCEPT ![i] = Over(w, p.rows[i])]
        /\ s.undo = p.undo /\ s.redo = p.redo /\ s.toast = p.toast
        /\ s.rows[i] \in Row /\ s.rows[i] = Over(w, p.rows[i])
    BY <2>1, <2>2, RewrittenSpares
  <2>4. \A j \in Items : j # i => s.rows[j] = p.rows[j]
    BY <1>1, <2>3
  <2>5. s.rows[i] # Absent
    BY <2>3, ItemsAssumption
  <2>6. taken = DOMAIN v =>
          \A n \in Names : s.rows[i][n] = IF n \in DOMAIN v THEN v[n] ELSE p.rows[i][n]
    BY <2>1, <2>3 DEF Over
  <2> QED
    BY <1>3, <2>2, <2>3, <2>4, <2>5, <2>6 DEF RestoredRow
<1> QED
  BY <1>2, <1>3

\* What Undo, Redo or a toast's Undo restores
LEMMA RestoreOf ==
  ASSUME ItemsInv, job # Absent, Sends(job) # << >>, job.kind # "edit"
  PROVE  /\ \/ job.kind = "undo" /\ Entry(job).kind = "Fields" /\ Sends(job) = Entry(job).before
            \/ job.kind = "redo" /\ Sends(job) = Entry(job).after
            \/ job.kind = "RestoreFields" /\ Sends(job) = job.values
         /\ Sends(job) \in Values /\ About(job) \in Items
<1>1. Fit(job, planner, spoiled, born)
  BY JobFields
<1>2. CASE job.kind = "undo"
  <2>1. Sends(job) = Entry(job).before /\ Entry(job) \in Entries
    BY <1>2, EntryOf DEF Sends
  <2> QED
    BY <1>2, <2>1, EntryFields DEF About
<1>3. CASE job.kind = "redo"
  <2>1. Sends(job) = Entry(job).after /\ Entry(job) \in Entries
    BY <1>3, EntryOf DEF Sends
  <2> QED
    BY <1>3, <2>1, EntryFields DEF About
<1>4. CASE job.kind \notin {"undo", "redo"}
  <2>1. Sends(job) = job.values
    BY <1>4 DEF Sends
  <2>2. job.kind = "RestoreFields" /\ job.values \in Values /\ job.item \in Items
    BY <1>1, <2>1 DEF Fit, Values
  <2> QED
    BY <1>4, <2>1, <2>2, EntryOf
<1> QED
  BY <1>2, <1>3, <1>4

\* Fields restored by undo, by redo or by a toast's Undo, in whole or in part
LEMMA RestoreEnds_Inv ==
  ASSUME NEW taken \in SUBSET Names, NEW lost \in SUBSET Names
  PROVE  ItemsInv /\ RestoreEnds(taken, lost) => ItemsInv'
<1> SUFFICES ASSUME ItemsInv, RestoreEnds(taken, lost) PROVE ItemsInv'
  OBVIOUS
<1> DEFINE i == About(job)
           v == Sends(job)
           c == job.clone
           e == Entry(job)
           ok == taken = DOMAIN v
           s == IF taken = {} THEN Popped(job) ELSE Rewritten(Popped(job), i, [n \in taken |-> v[n]])
<1>1. /\ job # Absent /\ v # << >> /\ job.kind # "edit" /\ born' = born
      /\ taken \subseteq DOMAIN v /\ lost \subseteq DOMAIN v
      /\ azure[i] = Absent \/ c.rows[i] = Absent => taken = {} /\ lost = {}
      /\ azure' = IF taken \cup lost = {} THEN azure
                  ELSE [azure EXCEPT ![i] = Over([n \in taken \cup lost |-> v[n]], azure[i])]
      /\ Ends(s, ok)
      /\ spoiled' = IF taken # {} /\ ~ok THEN spoiled \cup {i} ELSE spoiled
  BY DEF RestoreEnds
<1>2. /\ c \in Planners /\ planner \in Planners /\ Sound(planner, spoiled) /\ Sound(c, spoiled)
      /\ c.rows = planner.rows /\ c.undo = planner.undo /\ c.redo = planner.redo
      /\ azure \in [Items -> Row \cup {Absent}] /\ born \in 1..MaxItems
      /\ spoiled \subseteq Items /\ Fit(job, planner, spoiled, born)
      /\ \A j \in Items : j > born => planner.rows[j] = Absent /\ azure[j] = Absent
  BY <1>1, JobFields
<1>3. /\ \/ job.kind = "undo" /\ e.kind = "Fields" /\ v = e.before
         \/ job.kind = "redo" /\ v = e.after
         \/ job.kind = "RestoreFields" /\ v = job.values
      /\ v \in Values /\ i \in Items
  BY <1>1, RestoreOf
<1>4. azure' \in [Items -> Row \cup {Absent}] /\ \A j \in Items : j > born => azure'[j] = Absent
  <2>1. CASE taken \cup lost # {}
    <3> DEFINE w == [n \in taken \cup lost |-> v[n]]
    <3>1. w \in Values
      BY <1>1, <1>3, SomeValues
    <3>2. azure[i] # Absent /\ azure[i] \in Row
      BY <1>1, <1>2, <1>3, <2>1
    <3> HIDE DEF w
    <3>3. Over(w, azure[i]) \in Row
      BY <3>1, <3>2, OverRow
    <3>4. azure' = [azure EXCEPT ![i] = Over(w, azure[i])]
      BY <1>1, <2>1 DEF w
    <3>5. ~(i > born)
      BY <1>2, <1>3, <3>2
    <3> QED
      BY <1>2, <1>3, <3>3, <3>4, <3>5
  <2>2. CASE taken \cup lost = {}
    BY <1>1, <1>2, <2>2
  <2> QED
    BY <2>1, <2>2
<1>5. spoiled \subseteq spoiled' /\ spoiled' \subseteq Items /\ born' \in born..MaxItems
  BY <1>1, <1>2, <1>3
<1>6. c.undo \in Seq(Entries) /\ c.redo \in Seq(Entries)
  BY <1>2, PlannerFields
<1>7. ASSUME NEW p \in Planners, p.rows = c.rows, Popped(job) = p
      PROVE  RestoredRow(s, p, i, v, taken)
  <2>1. p.rows[i] = Absent => taken = {}
    BY <1>1, <1>7
  <2>2. s = IF taken = {} THEN p ELSE Rewritten(p, i, [n \in taken |-> v[n]])
    BY <1>7
  <2> HIDE DEF s, i, v
  <2> QED
    BY <1>1, <1>3, <1>7, <2>1, <2>2, RestoredRows
\* It leaves the stacks as they were: undone in part, the item is spoiled.
<1>8. ASSUME NEW t \in Planners, planner' = t, t.rows = s.rows, t.undo = c.undo, t.redo = c.redo,
             t.toast = c.toast, ~ok, NEW p, p.rows = c.rows, RestoredRow(s, p, i, v, taken)
      PROVE  ItemsInv'
  <2>1. \A j \in Items \ spoiled' : t.rows[j] = planner.rows[j]
    BY <1>1, <1>2, <1>8 DEF RestoredRow
  <2>2. Stands(t, spoiled')
    BY <1>2, <1>5, <1>8, <2>1, SameStands DEF Sound
  <2>3. \A j \in Items : j > born => t.rows[j] = Absent
    BY <1>2, <1>8 DEF RestoredRow
  <2>4. Ends(s, ok) /\ born' \in 1..MaxItems /\ \A j \in Items : j > born' => azure'[j] = Absent
    BY <1>1, <1>2, <1>4
  <2>5. \A j \in Items : j > born' => planner'.rows[j] = Absent /\ azure'[j] = Absent
    BY <1>1, <1>8, <2>3, <2>4
  <2> HIDE DEF s, ok
  <2> QED
    BY <1>1, <1>2, <1>4, <1>5, <1>8, <2>1, <2>2, <2>4, <2>5, SameEnd
\* It leaves a planner with the row restored.
<1>9. ASSUME NEW t \in Planners, planner' = t, ok, \A j \in Items : j # i => Spares(t, planner, j),
             \A j \in Items : j > born => t.rows[j] = Absent,
             \A sp : Stands(t, sp), i \notin spoiled => Fits(t, i)
      PROVE  ItemsInv'
  <2>1. spoiled' = spoiled /\ Ends(s, ok) /\ About(job) = i
    BY <1>1, <1>9
  <2> HIDE DEF s, ok, i
  <2> QED
    BY <1>1, <1>2, <1>4, <1>5, <1>9, <2>1, EndStep
<1>10. CASE job.kind = "undo" /\ e.kind = "Fields" /\ v = e.before
  <2> DEFINE p == [c EXCEPT !.undo = Front(@)]
  <2>1. /\ Popped(job) = p /\ ~IsToastUndo(job) /\ c.undo # << >> /\ e = Last(c.undo)
        /\ e \in Entries /\ e.item = i
    BY <1>1, <1>10, EntryOf DEF Popped, IsToastUndo, About
  <2>2. /\ p \in Planners /\ p.rows = c.rows /\ p.redo = c.redo /\ p.toast = c.toast
        /\ p.undo = Front(c.undo)
    BY <1>2, <2>1, PutBack
  <2>3. RestoredRow(s, p, i, v, taken)
    BY <1>7, <2>1, <2>2
  <2>4. planner' = Undone(s, e, ok)
    BY <1>1, <1>10, <2>1 DEF Ends, Finished
  <2> HIDE DEF p, s, v
  <2>5. CASE ~ok
    <3> DEFINE t == [s EXCEPT !.undo = Append(@, e)]
    <3>1. planner' = t
      BY <2>4, <2>5 DEF Undone
    <3>2. Append(s.undo, e) = c.undo
      BY <1>6, <2>1, <2>2, <2>3, FrontLast DEF RestoredRow
    <3>3. /\ t \in Planners /\ t.rows = s.rows /\ t.undo = c.undo /\ t.redo = c.redo
          /\ t.toast = c.toast
      BY <1>6, <2>2, <2>3, <3>2 DEF Planners, RestoredRow
    <3> QED
      BY <1>8, <2>2, <2>3, <2>5, <3>1, <3>3
  <2>6. CASE ok
    <3> DEFINE t == [s EXCEPT !.redo = Append(@, e)]
               u == AfterUndo(t)
    <3>1. planner' = u
      BY <1>10, <2>4, <2>6 DEF Undone
    <3>2. s \in Planners /\ s.undo = Front(c.undo) /\ s.redo = c.redo
      BY <2>2, <2>3 DEF RestoredRow
    <3>3. Append(c.redo, e) \in Seq(Entries) /\ Front(c.undo) \in Seq(Entries)
      BY <1>6, <2>1, Pushed, FrontLast
    <3>4. /\ t \in Planners /\ t.rows = s.rows /\ t.undo = Front(c.undo)
          /\ t.redo = Append(c.redo, e)
      BY <3>2, <3>3 DEF Planners
    <3> HIDE DEF t
    <3>5. /\ u \in Planners /\ u.rows = s.rows /\ u.undo = Front(c.undo)
          /\ u.redo = Append(c.redo, e) /\ \A sp : Stands(u, sp)
      BY <3>4, ToastedFields
    <3> HIDE DEF u
    <3>6. \A j \in Items : j # i => s.rows[j] = planner.rows[j]
      BY <1>2, <2>2, <2>3 DEF RestoredRow
    <3>7. \A j \in Items : j # i => Spares(u, planner, j)
      <4> TAKE j \in Items
      <4> HAVE j # i
      <4>1. Passes(Front(c.undo), c.undo, j) /\ Passes(Append(c.redo, e), c.redo, j)
        BY <1>6, <2>1, <3>3, FrontKeeps, KeptPasses, PushPasses
      <4> QED
        BY <1>2, <3>5, <3>6, <4>1 DEF Spares
    <3>8. \A j \in Items : j > born => u.rows[j] = Absent
      BY <1>2, <2>2, <2>3, <3>5 DEF RestoredRow
    <3>9. i \notin spoiled => Fits(u, i)
      <4> SUFFICES ASSUME i \notin spoiled PROVE Fits(u, i)
        OBVIOUS
      <4>1. Fits(planner, i)
        BY <1>2, <1>3 DEF Sound
      <4>2. c.rows[i] # Absent
        <5>1. Len(c.undo) \in 1..Len(c.undo) /\ c.undo[Len(c.undo)].item = i
          BY <1>6, <2>1, FrontLast
        <5>2. ~Silent(c.undo, i)
          BY <5>1 DEF Silent
        <5> QED
          BY <1>2, <4>1, <5>2 DEF Fits
      <4>3. ASSUME NEW n \in Names
            PROVE  Leads(u.undo, i, n, u.rows[i][n], "undo") /\ Leads(u.redo, i, n, u.rows[i][n], "redo")
        <5> DEFINE y == c.rows[i][n]
                   z == IF n \in DOMAIN v THEN v[n] ELSE y
        <5>1. Leads(c.undo, i, n, y, "undo") /\ Leads(c.redo, i, n, y, "redo")
          BY <1>2, <4>1, <4>2 DEF Fits
        <5>2. v = e.before /\ e = Last(c.undo) /\ e.item = i /\ c.undo # << >>
          BY <1>10, <2>1
        <5>3. z = IF n \in DOMAIN e.before THEN e.before[n] ELSE y
          BY <5>2
        <5>4. u.rows[i][n] = z
          BY <2>2, <2>3, <2>6, <3>5, <4>2 DEF RestoredRow
        <5> HIDE DEF y, z, i, e, c
        <5>5. Leads(Front(c.undo), i, n, z, "undo") /\ Leads(Append(c.redo, e), i, n, z, "redo")
          BY <1>6, <5>1, <5>2, <5>3, UndoneMoves
        <5> QED
          BY <3>5, <5>4, <5>5
      <4>4. u.rows[i] # Absent
        BY <2>2, <2>3, <2>6, <3>5, <4>2 DEF RestoredRow
      <4> QED
        BY <4>3, <4>4 DEF Fits
    <3> QED
      BY <1>9, <2>6, <3>1, <3>5, <3>7, <3>8, <3>9
  <2> QED
    BY <2>5, <2>6
<1>11. CASE job.kind = "redo" /\ v = e.after
  <2> DEFINE p == [c EXCEPT !.redo = Front(@)]
  <2>1. /\ Popped(job) = p /\ ~IsToastUndo(job) /\ c.redo # << >> /\ e = Last(c.redo)
        /\ e \in Entries /\ e.item = i
    BY <1>1, <1>11, EntryOf DEF Popped, IsToastUndo, About
  <2>2. /\ p \in Planners /\ p.rows = c.rows /\ p.undo = c.undo /\ p.toast = c.toast
        /\ p.redo = Front(c.redo)
    BY <1>2, <2>1, PutBack
  <2>3. RestoredRow(s, p, i, v, taken)
    BY <1>7, <2>1, <2>2
  <2>4. planner' = Redone(s, e, ok)
    BY <1>1, <1>11, <2>1 DEF Ends, Finished
  <2> HIDE DEF p, s, v
  <2>5. CASE ~ok
    <3> DEFINE t == [s EXCEPT !.redo = Append(@, e)]
    <3>1. planner' = t
      BY <2>4, <2>5 DEF Redone
    <3>2. Append(s.redo, e) = c.redo
      BY <1>6, <2>1, <2>2, <2>3, FrontLast DEF RestoredRow
    <3>3. /\ t \in Planners /\ t.rows = s.rows /\ t.undo = c.undo /\ t.redo = c.redo
          /\ t.toast = c.toast
      BY <1>6, <2>2, <2>3, <3>2 DEF Planners, RestoredRow
    <3> QED
      BY <1>8, <2>2, <2>3, <2>5, <3>1, <3>3
  <2>6. CASE ok
    <3> DEFINE r == AfterRedo(s)
               u == [r EXCEPT !.undo = Append(@, e)]
    <3>1. planner' = u
      BY <2>4, <2>6 DEF Redone
    <3>2. s \in Planners /\ s.redo = Front(c.redo) /\ s.undo = c.undo
      BY <2>2, <2>3 DEF RestoredRow
    <3>3. Append(c.undo, e) \in Seq(Entries) /\ Front(c.redo) \in Seq(Entries) /\ Append(c.undo, e) # << >>
      BY <1>6, <2>1, Pushed, FrontLast
    <3>4. /\ r \in Planners /\ r.rows = s.rows /\ r.redo = Front(c.redo) /\ r.undo = c.undo
          /\ r.toast \in {OfferUndo, NoOffer}
      BY <3>2, ToastedFields
    <3> HIDE DEF r
    <3>5. /\ u \in Planners /\ u.rows = s.rows /\ u.undo = Append(c.undo, e)
          /\ u.redo = Front(c.redo) /\ u.toast = r.toast
      BY <3>3, <3>4 DEF Planners
    <3> HIDE DEF u
    <3>6. \A j \in Items : j # i => s.rows[j] = planner.rows[j]
      BY <1>2, <2>2, <2>3 DEF RestoredRow
    <3>7. \A j \in Items : j # i => Spares(u, planner, j)
      <4> TAKE j \in Items
      <4> HAVE j # i
      <4>1. Passes(Front(c.redo), c.redo, j) /\ Passes(Append(c.undo, e), c.undo, j)
        BY <1>6, <2>1, <3>3, FrontKeeps, KeptPasses, PushPasses
      <4> QED
        BY <1>2, <3>5, <3>6, <4>1 DEF Spares
    <3>8. \A j \in Items : j > born => u.rows[j] = Absent
      BY <1>2, <2>2, <2>3, <3>5 DEF RestoredRow
    <3>9. i \notin spoiled => Fits(u, i)
      <4> SUFFICES ASSUME i \notin spoiled PROVE Fits(u, i)
        OBVIOUS
      <4>1. Fits(planner, i)
        BY <1>2, <1>3 DEF Sound
      <4>2. c.rows[i] # Absent
        <5>1. Len(c.redo) \in 1..Len(c.redo) /\ c.redo[Len(c.redo)].item = i
          BY <1>6, <2>1, FrontLast
        <5>2. ~Silent(c.redo, i)
          BY <5>1 DEF Silent
        <5> QED
          BY <1>2, <4>1, <5>2 DEF Fits
      <4>3. ASSUME NEW n \in Names
            PROVE  Leads(u.undo, i, n, u.rows[i][n], "undo") /\ Leads(u.redo, i, n, u.rows[i][n], "redo")
        <5> DEFINE y == c.rows[i][n]
                   z == IF n \in DOMAIN v THEN v[n] ELSE y
        <5>1. Leads(c.undo, i, n, y, "undo") /\ Leads(c.redo, i, n, y, "redo")
          BY <1>2, <4>1, <4>2 DEF Fits
        <5>2. v = e.after /\ e = Last(c.redo) /\ e.item = i /\ c.redo # << >>
          BY <1>11, <2>1
        <5>3. z = IF n \in DOMAIN e.after THEN e.after[n] ELSE y
          BY <5>2
        <5>4. u.rows[i][n] = z
          BY <2>2, <2>3, <2>6, <3>5, <4>2 DEF RestoredRow
        <5> HIDE DEF y, z, i, e, c
        <5>5. Leads(Front(c.redo), i, n, z, "redo") /\ Leads(Append(c.undo, e), i, n, z, "undo")
          BY <1>6, <5>1, <5>2, <5>3, RedoneMoves
        <5> QED
          BY <3>5, <5>4, <5>5
      <4>4. u.rows[i] # Absent
        BY <2>2, <2>3, <2>6, <3>5, <4>2 DEF RestoredRow
      <4> QED
        BY <4>3, <4>4 DEF Fits
    <3>10. \A sp : Stands(u, sp)
      BY <3>3, <3>4, <3>5, SomeOffers DEF Stands
    <3> QED
      BY <1>9, <2>6, <3>1, <3>5, <3>7, <3>8, <3>9, <3>10
  <2> QED
    BY <2>5, <2>6
<1>12. CASE job.kind = "RestoreFields" /\ v = job.values
  <2>1. Popped(job) = c /\ IsToastUndo(job) /\ i = job.item /\ ~Deletes(job)
    BY <1>1, <1>12, EntryOf DEF Popped, IsToastUndo, Deletes
  <2>2. RestoredRow(s, c, i, v, taken)
    BY <1>2, <1>7, <2>1
  <2>3. CASE ~ok
    <3>1. planner' = planner
      BY <1>1, <2>1, <2>3 DEF Ends
    <3>2. Ends(s, ok) /\ \A j \in Items : j > born' => azure'[j] = Absent
      BY <1>1, <1>4
    <3> HIDE DEF s, ok
    <3> QED
      BY <1>1, <1>2, <1>4, <1>5, <3>1, <3>2, IdleEnd
  <2>4. CASE ok
    <3> DEFINE t == [planner EXCEPT !.rows[i] = s.rows[i]]
               d == Discarded(t, i, v)
               u == AfterUndo(d)
    <3>1. planner' = u
      BY <1>1, <1>12, <2>1, <2>4 DEF Ends, Merged
    <3> HIDE DEF s, v, i
    <3>2. s.rows[i] \in Row \cup {Absent}
      BY <1>3, <2>2, PlannerFields DEF RestoredRow
    <3>3. /\ t \in Planners /\ t.rows = [planner.rows EXCEPT ![i] = s.rows[i]]
          /\ t.rows[i] = s.rows[i]
          /\ t.undo = planner.undo /\ t.redo = planner.redo
          /\ \A j \in Items : j # i => Spares(t, planner, j) /\ t.rows[j] = planner.rows[j]
      BY <1>2, <1>3, <3>2, RowSpares
    <3> HIDE DEF t
    <3>4. /\ d \in Planners /\ d.rows = t.rows /\ d.redo = t.redo
          /\ UndoneBy(t.undo, i, v) = {} => d.undo = t.undo
          /\ \A j : j # i => Spares(d, t, j)
      BY <3>3, DiscardedFields
    <3> HIDE DEF d
    <3>5. /\ u \in Planners /\ u.rows = d.rows /\ u.undo = d.undo /\ u.redo = d.redo
          /\ \A sp : Stands(u, sp)
      BY <3>4, ToastedFields
    <3> HIDE DEF u
    <3>6. \A j \in Items : j # i => Spares(u, planner, j)
      <4> TAKE j \in Items
      <4> HAVE j # i
      <4>1. Spares(d, planner, j)
        BY <3>3, <3>4, SparesOn
      <4> QED
        BY <3>5, <4>1 DEF Spares
    <3>7. \A j \in Items : j > born => u.rows[j] = Absent
      <4> TAKE j \in Items
      <4> HAVE j > born
      <4>1. planner.rows[j] = Absent
        BY <1>2
      <4>2. j = i => s.rows[j] = Absent
        BY <1>2, <2>2, <4>1 DEF RestoredRow
      <4> QED
        BY <3>3, <3>4, <3>5, <4>1, <4>2
    <3>8. i \notin spoiled => Fits(u, i)
      <4> SUFFICES ASSUME i \notin spoiled PROVE Fits(u, i)
        OBVIOUS
      <4>1. Fits(planner, i)
        BY <1>2, <1>3 DEF Sound
      <4>2. Restores(t.undo, i, v) /\ Silent(u.redo, i)
        BY <1>2, <1>12, <2>1, <3>3, <3>4, <3>5 DEF Fit, Restorable
      <4>3. CASE planner.rows[i] = Absent
        <5>1. u.rows[i] = Absent
          BY <1>2, <2>2, <3>3, <3>4, <3>5, <4>3 DEF RestoredRow
        <5>2. Silent(t.undo, i)
          BY <3>3, <4>1, <4>3 DEF Fits
        <5>3. UndoneBy(t.undo, i, v) = {}
          BY <5>2 DEF UndoneBy, Silent
        <5> QED
          BY <3>4, <3>5, <4>2, <5>1, <5>2, <5>3 DEF Fits
      <4>4. CASE planner.rows[i] # Absent
        <5> DEFINE row == planner.rows[i]
        <5>1. \A n \in Names : Leads(t.undo, i, n, row[n], "undo")
          BY <3>3, <4>1, <4>4 DEF Fits
        <5>2. \A n \in Names : Leads(u.undo, i, n, Over(v, row)[n], "undo")
          BY <1>3, <3>3, <3>5, <4>2, <5>1, DiscardedLeads DEF d
        <5>3. /\ u.rows[i] # Absent
              /\ \A n \in Names : u.rows[i][n] = IF n \in DOMAIN v THEN v[n] ELSE row[n]
          BY <1>2, <2>2, <2>4, <3>3, <3>4, <3>5, <4>4 DEF RestoredRow
        <5>4. \A n \in Names : u.rows[i][n] = Over(v, row)[n]
          BY <5>3 DEF Over
        <5> HIDE DEF row
        <5>5. \A n \in Names : Leads(u.redo, i, n, u.rows[i][n], "redo")
          BY <4>2, LeadsSilent
        <5> QED
          BY <5>2, <5>3, <5>4, <5>5 DEF Fits
      <4> QED
        BY <4>3, <4>4
    <3> QED
      BY <1>9, <2>4, <3>1, <3>5, <3>6, <3>7, <3>8
  <2> QED
    BY <2>3, <2>4
<1> QED
  BY <1>3, <1>10, <1>11, <1>12

-----------------------------------------------------------------------------
(***************************************************************************)
(* The theorems.                                                           *)
(***************************************************************************)
LEMMA ItemsNext_Inv == ItemsInv /\ [ItemsNext]_itemVars => ItemsInv'
<1> SUFFICES ASSUME ItemsInv, [ItemsNext]_itemVars PROVE ItemsInv'
  OBVIOUS
<1>1. CASE UNCHANGED itemVars
  <2>1. UNCHANGED <<planner, job, waiting, azure, born, spoiled>>
    BY <1>1 DEF itemVars
  <2>2. ItemsTyped'
    BY <2>1 DEF ItemsInv, ItemsTyped
  <2>3. About(job)' = About(job) /\ IsToastUndo(job)' = IsToastUndo(job)
    BY <2>1 DEF About, Entry, IsToastUndo
  <2> QED
    BY <2>1, <2>2, <2>3 DEF ItemsInv
<1>2. CASE AddItem
  BY <1>2, AddItem_Inv
<1>3. CASE Reload
  BY <1>3, Reload_Inv
<1>4. CASE ToastUndo
  BY <1>4, ToastUndo_Inv
<1>5. CASE ToastGone
  BY <1>5, ToastGone_Inv
<1>6. ASSUME NEW i \in Items, DeleteItem(i) PROVE ItemsInv'
  BY <1>6, DeleteItem_Inv
<1>7. ASSUME NEW i \in Items, NEW n \in Names, NEW v \in Texts, SaveField(i, n, v) PROVE ItemsInv'
  BY <1>7, SaveField_Inv
<1>8. ASSUME NEW i \in Items, NEW values \in Row, SaveEdits(i, values) PROVE ItemsInv'
  BY <1>8, SaveEdits_Inv
<1>9. ASSUME NEW offer \in {OfferUndo, OfferRedo}, HistoryKey(offer) PROVE ItemsInv'
  BY <1>9, HistoryKey_Inv
<1>10. ASSUME NEW ok \in BOOLEAN, NEW applied \in BOOLEAN, AddEnds(ok, applied) PROVE ItemsInv'
  BY <1>10, AddEnds_Inv
<1>11. ASSUME NEW ok \in BOOLEAN, NEW applied \in BOOLEAN, DeleteEnds(ok, applied) PROVE ItemsInv'
  BY <1>11, DeleteEnds_Inv
<1>12. ASSUME NEW ok \in BOOLEAN, NEW applied \in BOOLEAN, EditEnds(ok, applied) PROVE ItemsInv'
  BY <1>12, EditEnds_Inv
<1>13. ASSUME NEW taken \in SUBSET Names, NEW lost \in SUBSET Names, RestoreEnds(taken, lost)
       PROVE  ItemsInv'
  BY <1>13, RestoreEnds_Inv
<1>14. ASSUME NEW ok \in BOOLEAN, LoadEnds(ok) PROVE ItemsInv'
  BY <1>14, LoadEnds_Inv
<1> QED
  BY <1>1, <1>2, <1>3, <1>4, <1>5, <1>6, <1>7, <1>8, <1>9, <1>10, <1>11, <1>12, <1>13, <1>14
  DEF ItemsNext

\* The invariant of the rows, their history and the one job with its clone.
THEOREM ItemsInvariant == ItemsSpec => []ItemsInv
BY ItemsInit_Inv, ItemsNext_Inv, PTL DEF ItemsSpec

\* The invariant gives what is offered
LEMMA StandsOffers == ItemsInv => OffersStand
<1> SUFFICES ASSUME ItemsInv PROVE OffersStand
  OBVIOUS
<1> DEFINE s == planner
<1>1. /\ s \in Planners /\ Stands(s, spoiled) /\ \A i \in Items \ spoiled : Fits(s, i)
      /\ s.undo \in Seq(Entries) /\ s.redo \in Seq(Entries)
  BY PlannerFields DEF ItemsInv, ItemsTyped, Sound
<1>2. s.toast = OfferRedo => s.redo # << >>
  BY <1>1, SomeOffers DEF Stands
<1>3. s.toast = OfferUndo => s.undo # << >>
  BY <1>1, SomeOffers DEF Stands
<1>4. s.toast.item \in Items \ spoiled => s.rows[s.toast.item] # Absent
  BY <1>1 DEF Stands
<1>5. ASSUME NEW q \in {s.undo, s.redo}, NEW e \in Range(q), e.item \in Items \ spoiled,
             s.rows[e.item] = Absent
      PROVE  FALSE
  <2>1. Silent(q, e.item)
    BY <1>1, <1>5 DEF Fits
  <2>2. PICK k \in 1..Len(q) : e = q[k]
    BY <1>1, <1>5 DEF Range
  <2> QED
    BY <2>1, <2>2 DEF Silent
<1> QED
  BY <1>2, <1>3, <1>4, <1>5 DEF OffersStand

\* Where a search of a stack above its entry k stops
LEMMA FoundUp ==
  ASSUME NEW q \in Seq(Entries), NEW k \in 1..Len(q), NEW i, NEW n
  PROVE  LET up == NextUp(q, k, i, n)
         IN  IF up = 0 THEN \A m \in 1..Len(q) : m > k => ~Touches(q[m], i, n)
             ELSE /\ up \in 1..Len(q) /\ up > k /\ Touches(q[up], i, n)
                  /\ \A l \in 1..Len(q) : k < l /\ l < up => ~Touches(q[l], i, n)
<1> DEFINE x  == Len(q)
           I  == {m \in (k + 1)..x : q[m].item = i /\ n \in DOMAIN q[m].after}
           up == NextUp(q, k, i, n)
<1>1. x \in Nat /\ k \in 1..x
  OBVIOUS
<1>2. up = IF I # {} THEN Min(I) ELSE 0
  BY DEF NextUp, SelectInSubSeq
<1>3. \A m \in 1..x : m \in I <=> m > k /\ Touches(q[m], i, n)
  BY <1>1 DEF Touches
<1>4. I \in SUBSET (1..x)
  BY <1>1
<1> HIDE DEF x, I, up
<1>5. CASE I = {}
  BY <1>2, <1>3, <1>5 DEF up, x
<1>6. CASE I # {}
  <2>1. PICK m \in I : \A l \in I : m <= l
    BY <1>1, <1>4, <1>6, WithoutLoop!FirstExists
  <2>2. up \in I /\ \A l \in I : up <= l
    BY <1>2, <1>6, <2>1 DEF Min
  <2>3. up \in 1..x /\ up # 0
    BY <1>1, <1>4, <2>2
  <2>4. up > k /\ Touches(q[up], i, n)
    BY <1>3, <2>2, <2>3
  <2>5. \A l \in 1..x : k < l /\ l < up => ~Touches(q[l], i, n)
    BY <1>1, <1>3, <2>2, <2>3
  <2> QED
    BY <2>3, <2>4, <2>5 DEF up, x
<1> QED
  BY <1>5, <1>6

\* A history that leads to y, read as the search reads it
LEMMA LeadsFound ==
  ASSUME NEW q \in Seq(Entries), NEW i, NEW n, NEW y, NEW side, Leads(q, i, n, y, side),
         NEW k \in Changes(q, i, n)
  PROVE  LET up == NextUp(q, k, i, n)
         IN  To(q[k], n, side) = IF up = 0 THEN y ELSE From(q[up], n, side)
<1>1. k \in 1..Len(q) /\ Touches(q[k], i, n)
  BY DEF Changes, Touches
<1> QED
  BY <1>1, FoundUp DEF Leads

\* The invariant gives the chains of each field
LEMMA FitsChains == ItemsInv => HistoryChains
<1> SUFFICES ASSUME ItemsInv, NEW i \in Items \ spoiled, NEW n \in Names, planner.rows[i] # Absent
             PROVE  LET shown == planner.rows[i][n]
                        undo  == planner.undo
                        redo  == planner.redo
                    IN  /\ \A k \in Changes(undo, i, n) : LET up == NextUp(undo, k, i, n) IN
                             undo[k].after[n] = IF up = 0 THEN shown ELSE undo[up].before[n]
                        /\ \A k \in Changes(redo, i, n) : LET up == NextUp(redo, k, i, n) IN
                             redo[k].before[n] = IF up = 0 THEN shown ELSE redo[up].after[n]
  BY DEF HistoryChains
<1> DEFINE shown == planner.rows[i][n]
           undo  == planner.undo
           redo  == planner.redo
<1>1. undo \in Seq(Entries) /\ redo \in Seq(Entries) /\ Fits(planner, i)
  BY PlannerFields DEF ItemsInv, ItemsTyped, Sound
<1>2. Leads(undo, i, n, shown, "undo") /\ Leads(redo, i, n, shown, "redo")
  BY <1>1 DEF Fits
<1> HIDE DEF shown, undo, redo
<1>3. ASSUME NEW k \in Changes(undo, i, n)
      PROVE  LET up == NextUp(undo, k, i, n)
             IN  undo[k].after[n] = IF up = 0 THEN shown ELSE undo[up].before[n]
  BY <1>1, <1>2, LeadsFound DEF To, From
<1>4. ASSUME NEW k \in Changes(redo, i, n)
      PROVE  LET up == NextUp(redo, k, i, n)
             IN  redo[k].before[n] = IF up = 0 THEN shown ELSE redo[up].after[n]
  BY <1>1, <1>2, LeadsFound DEF To, From
<1> QED
  BY <1>3, <1>4 DEF shown, undo, redo

\* What Undo, Redo and the toast offer can be done, however the items they are about
\* were deleted, whatever failed and whichever clone was adopted (drop_history_for_item,
\* delete_item, merge_undo_action).
THEOREM OffersAlwaysStand == ItemsSpec => []OffersStand
<1>1. ItemsInv => OffersStand
  BY StandsOffers
<1> QED
  BY <1>1, ItemsInvariant, PTL

\* The history of a field leads to what its row shows and on from it, through edits
\* that push the oldest entry out, undos, redos, toast Undos that take an entry out of
\* the middle, and requests that fail (EditHistory, discard_history_for_undo).
THEOREM HistoryAlwaysChains == ItemsSpec => []HistoryChains
<1>1. ItemsInv => HistoryChains
  BY FitsChains
<1> QED
  BY <1>1, ItemsInvariant, PTL
=============================================================================
