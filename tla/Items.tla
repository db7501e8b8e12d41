---------------------------------- MODULE Items ----------------------------------
(***************************************************************************)
(* Work Items created, deleted and edited in the rows, and their place in  *)
(* the history: crates/app/src/state.rs (add_item_under, delete_item,      *)
(* patch_node_field, restore_fields, undo, redo, apply_undo,               *)
(* merge_undo_action, drop_history_for_item, discard_history_for_undo),    *)
(* toasts.rs and ui.rs (spawn_io, spawn_toast_undo, undo_last, redo_last). *)
(*                                                                         *)
(* Every one of them is a job on a clone of the planner, one at a time.    *)
(* The clone becomes the planner, except after a toast's Undo, which is    *)
(* merged item by item; a toast's Undo asked for meanwhile waits.          *)
(***************************************************************************)
EXTENDS Integers, Sequences, SequencesExt

CONSTANTS
  Names,     \* the fields a row edits: title, assignee
  Texts,     \* their values
  Absent,    \* no row, no job
  HistoryCap, \* EditHistory::CAP
  MaxItems,  \* bound: items there ever are; the first is loaded
  MaxActs,   \* bound: what the user does
  MaxLosses  \* bound: requests that fail or lose their answer

Items == 1..MaxItems
Row   == [Names -> Texts]

ASSUME ItemsAssumption ==
  /\ Absent \notin Row /\ Texts # {}
  /\ HistoryCap \in Nat \ {0} /\ MaxItems \in Nat \ {0} /\ MaxActs \in Nat /\ MaxLosses \in Nat

VARIABLES
  planner, \* rows, undo and redo, and what the one success toast offers
  job,     \* the job that holds io_busy, with its clone
  waiting, \* pending_toast_undo
  azure,   \* the items Azure DevOps holds
  born,    \* ids given so far
  spoiled, \* items whose row a load or a form changed, whose fields were restored in
           \* part, or whose toast's Undo waited for another change of theirs
  acts, losses

itemVars == <<planner, job, waiting, azure, born, spoiled, acts, losses>>

-----------------------------------------------------------------------------
(***************************************************************************)
(* History entries, and what a toast offers.                               *)
(***************************************************************************)
Created(i)               == [kind |-> "Created", item |-> i, before |-> << >>, after |-> << >>]
Edited(i, before, after) == [kind |-> "Fields", item |-> i, before |-> before, after |-> after]

Offer(kind, i, values)   == [kind |-> kind, item |-> i, values |-> values]
NoOffer                  == Offer("none", 0, << >>)
OfferUndo                == Offer("StackUndo", 0, << >>)
OfferRedo                == Offer("StackRedo", 0, << >>)
DeleteCreated(i)         == Offer("DeleteCreated", i, << >>)
RestoreFields(i, values) == Offer("RestoreFields", i, values)

-----------------------------------------------------------------------------
(***************************************************************************)
(* What is done to a planner s.                                            *)
(***************************************************************************)
\* One entry of the stack that is filtered
KeepOther(kept, e) ==
  IF e.item = kept.item THEN kept ELSE [kept EXCEPT !.stack = Append(@, e)]

\* A stack without the entries about item i
Without(stack, i) == FoldLeft(KeepOther, [item |-> i, stack |-> << >>], stack).stack

\* Mutant of Dropped: entries waiting to be redone are forgotten about
DroppedFromUndo(s, i) == [s EXCEPT !.undo = Without(@, i)]

\* drop_history_for_item
Dropped(s, i) == [s EXCEPT !.undo = Without(@, i), !.redo = Without(@, i)]

\* delete_item, once the server did
Deleted(s, i) ==
  Dropped([s EXCEPT !.rows[i] = Absent, !.toast = IF @.item = i THEN NoOffer ELSE @], i)

\* EditHistory::push drops the oldest entries of a stack that has grown too long
Newest(stack) ==
  IF Len(stack) > HistoryCap
    THEN SubSeq(stack, Len(stack) - HistoryCap + 1, Len(stack)) ELSE stack

Recorded(s, e, offer) ==
  [s EXCEPT !.undo = Newest(Append(@, e)), !.redo = << >>, !.toast = offer]

\* A row with some of its fields given other values
Over(values, row) == [n \in Names |-> IF n \in DOMAIN values THEN values[n] ELSE row[n]]

Rewritten(s, i, values) == [s EXCEPT !.rows[i] = Over(values, @)]

\* Mutant of Discarded: the entry that was undone stays on the stack
DiscardedNothing(s, i, values) == s

\* discard_history_for_undo of restored fields: the last entry they undo
Discarded(s, i, values) ==
  LET undoes(e) == e.kind = "Fields" /\ e.item = i
                   /\ \A n \in DOMAIN e.before : n \in DOMAIN values /\ values[n] = e.before[n]
      last == SelectLastInSeq(s.undo, undoes)
  IN  IF last = 0 THEN s ELSE [s EXCEPT !.undo = RemoveAt(@, last)]

\* push_stack_toast
AfterUndo(s) == [s EXCEPT !.toast = IF s.redo # << >> THEN OfferRedo ELSE NoOffer]
AfterRedo(s) == [s EXCEPT !.toast = IF s.undo # << >> THEN OfferUndo ELSE NoOffer]

\* undo: s has lost its last entry and, as far as the requests went, its change
Undone(s, e, ok) ==
  CASE ~ok                         -> [s EXCEPT !.undo = Append(@, e)]
    [] ok /\ e.kind = "Created"    -> AfterUndo(s)
    [] OTHER                       -> AfterUndo([s EXCEPT !.redo = Append(@, e)])

\* redo, whose toast offers Undo only of what was there before
Redone(s, e, ok) ==
  IF ok THEN LET shown == AfterRedo(s) IN [shown EXCEPT !.undo = Append(@, e)]
        ELSE [s EXCEPT !.redo = Append(@, e)]

-----------------------------------------------------------------------------
(***************************************************************************)
(* The job j: what it is about, and what it asks of the server.            *)
(***************************************************************************)
\* spawn_io's clone of the planner s, and the row that a change starts from
Work(kind, i, values, row, s) ==
  [kind |-> kind, item |-> i, values |-> values, row |-> row, clone |-> s]

Entry(j) == CASE j.kind = "undo" -> Last(j.clone.undo)
              [] j.kind = "redo" -> Last(j.clone.redo)
              [] OTHER           -> Created(j.item)

About(j) == Entry(j).item

Sends(j) == CASE j.kind = "undo" -> Entry(j).before
               [] j.kind = "redo" -> Entry(j).after
               [] OTHER           -> j.values

Deletes(j) ==
  \/ j.kind \in {"delete", "DeleteCreated"}
  \/ j.kind = "undo" /\ Entry(j).kind = "Created"

IsToastUndo(j) == j.kind \in {"DeleteCreated", "RestoreFields"}

\* undo and redo take their entry off the stack first
Popped(j) == CASE j.kind = "undo" -> [j.clone EXCEPT !.undo = Front(@)]
               [] j.kind = "redo" -> [j.clone EXCEPT !.redo = Front(@)]
               [] OTHER           -> j.clone

\* The clone s when the job ends
Finished(j, s, ok) ==
  CASE j.kind = "undo"          -> Undone(s, Entry(j), ok)
    [] j.kind = "redo"          -> Redone(s, Entry(j), ok)
    [] j.kind = "delete" /\ ok  -> [s EXCEPT !.toast = NoOffer]
    [] OTHER                    -> s

\* merge_undo_action and the toast that follows it
Merged(s, done, j) ==
  AfterUndo(IF Deletes(j) THEN Dropped([s EXCEPT !.rows[j.item] = Absent], j.item)
            ELSE Discarded([s EXCEPT !.rows[j.item] = done.rows[j.item]], j.item, j.values))

\* spawn_state, spawn_toast_undo: what an offer starts on the planner s
Started(s, offer) ==
  LET starts(kind) == Work(kind, offer.item, offer.values, << >>, s)
  IN  CASE offer.kind = "StackUndo" -> IF s.undo = << >> THEN Absent ELSE starts("undo")
        [] offer.kind = "StackRedo" -> IF s.redo = << >> THEN Absent ELSE starts("redo")
        [] offer.kind = "none"      -> Absent
        [] OTHER                    -> starts(offer.kind)

\* The end of a job with clone s: adopted or merged, and a waiting Undo replayed
Ends(s, ok) ==
  /\ planner' = CASE ~IsToastUndo(job) -> Finished(job, s, ok)
                  [] IsToastUndo(job) /\ ok -> Merged(planner, s, job)
                  [] OTHER -> planner
  /\ job' = Started(planner', waiting)
  /\ waiting' = NoOffer
  /\ UNCHANGED acts

-----------------------------------------------------------------------------
(***************************************************************************)
(* The user.  spawn_state refuses while a job runs.                        *)
(***************************************************************************)
Acts == acts < MaxActs /\ acts' = acts + 1

Asks(kind, i, values, row) ==
  /\ Acts /\ job = Absent
  /\ job' = Work(kind, i, values, row, planner)
  /\ UNCHANGED <<planner, waiting, azure, born, losses>>

AddItem == born < MaxItems /\ Asks("add", born + 1, << >>, << >>) /\ UNCHANGED spoiled

DeleteItem(i) ==
  planner.rows[i] # Absent /\ Asks("delete", i, << >>, << >>) /\ UNCHANGED spoiled

\* save_title and save_assignee
SaveField(i, n, v) ==
  planner.rows[i] # Absent /\ Asks("edit", i, [m \in {n} |-> v], planner.rows[i]) /\ UNCHANGED spoiled

\* A form, opened and saved with nothing in between, starts from what the server
\* holds, sends what it changes of it and leaves the row as it is itself
SaveEdits(i, values) ==
  /\ planner.rows[i] # Absent /\ azure[i] # Absent
  /\ \A n \in DOMAIN values : values[n] # azure[i][n]
  /\ Asks("edit", i, values, azure[i])
  /\ spoiled' = IF azure[i] # planner.rows[i] THEN spoiled \cup {i} ELSE spoiled

Reload == Asks("load", 0, << >>, << >>) /\ UNCHANGED spoiled

HistoryKey(offer) ==
  /\ Acts /\ job = Absent
  /\ job' = Started(planner, offer) /\ job' # Absent
  /\ UNCHANGED <<planner, waiting, azure, born, spoiled, losses>>

\* The toast's button: apply_toast_undo
ToastUndo ==
  /\ Acts
  /\ planner.toast # NoOffer
  /\ IF job = Absent
       THEN job' = Started(planner, planner.toast) /\ UNCHANGED <<waiting, spoiled>>
       ELSE /\ ~IsToastUndo(job)
            /\ waiting' = planner.toast
            /\ spoiled' = IF planner.toast.item \in Items /\ planner.toast.item = About(job)
                          THEN spoiled \cup {planner.toast.item} ELSE spoiled
            /\ UNCHANGED job
  /\ UNCHANGED <<planner, azure, born, losses>>

ToastGone ==
  /\ planner.toast # NoOffer
  /\ planner' = [planner EXCEPT !.toast = NoOffer]
  /\ UNCHANGED <<job, waiting, azure, born, spoiled, acts, losses>>

-----------------------------------------------------------------------------
(***************************************************************************)
(* The requests of the job.  One that fails may have been applied.         *)
(***************************************************************************)
Fails(ok) == IF ok THEN losses' = losses ELSE losses < MaxLosses /\ losses' = losses + 1

\* add_item_under
AddEnds(ok, applied) ==
  /\ job # Absent /\ job.kind = "add"
  /\ ok => applied
  /\ Fails(ok)
  /\ \E row \in {[n \in Names |-> CHOOSE v \in Texts : TRUE]} :
       /\ azure' = IF applied THEN [azure EXCEPT ![job.item] = row] ELSE azure
       /\ Ends(IF ok THEN Recorded([job.clone EXCEPT !.rows[job.item] = row],
                                   Created(job.item), DeleteCreated(job.item))
               ELSE job.clone, ok)
  /\ born' = IF applied THEN job.item ELSE born
  /\ UNCHANGED spoiled

\* delete_item; a server without the item refuses
DeleteEnds(ok, applied) ==
  /\ job # Absent /\ Deletes(job)
  /\ ok => applied
  /\ LET i == About(job)
     IN  /\ IF azure[i] = Absent THEN ~applied /\ losses' = losses ELSE Fails(ok)
         /\ azure' = IF applied THEN [azure EXCEPT ![i] = Absent] ELSE azure
         /\ Ends(IF ok THEN Deleted(Popped(job), i) ELSE Popped(job), ok)
  /\ UNCHANGED <<born, spoiled>>

\* patch_node_field and save_form: one PATCH
EditEnds(ok, applied) ==
  /\ job # Absent /\ job.kind = "edit"
  /\ ok => applied
  /\ LET i == job.item
         before == [n \in DOMAIN job.values |-> job.row[n]]
     IN  /\ IF azure[i] = Absent THEN ~applied /\ losses' = losses ELSE Fails(ok)
         /\ azure' = IF applied THEN [azure EXCEPT ![i] = Over(job.values, @)] ELSE azure
         /\ Ends(IF ok THEN Recorded(Rewritten(job.clone, i, Over(job.values, job.row)),
                                     Edited(i, before, job.values), RestoreFields(i, before))
                 ELSE job.clone, ok)
  /\ UNCHANGED <<born, spoiled>>

\* restore_fields: a PATCH for each field in turn, the first to fail ends it.  The
\* fields in `taken` answered Ok, those in `lost` were applied without an answer.
RestoreEnds(taken, lost) ==
  /\ job # Absent /\ Sends(job) # << >> /\ job.kind # "edit"
  /\ taken \subseteq DOMAIN Sends(job)
  /\ lost \in {{}} \cup {{n} : n \in DOMAIN Sends(job) \ taken}
  /\ LET i     == About(job)
         ok    == taken = DOMAIN Sends(job)
         some(set) == [n \in set |-> Sends(job)[n]]
     IN  /\ IF azure[i] = Absent \/ job.clone.rows[i] = Absent
              THEN taken = {} /\ lost = {} /\ losses' = losses
              ELSE Fails(ok)
         /\ azure' = IF taken \cup lost = {} THEN azure
                     ELSE [azure EXCEPT ![i] = Over(some(taken \cup lost), @)]
         /\ Ends(IF taken = {} THEN Popped(job) ELSE Rewritten(Popped(job), i, some(taken)), ok)
         /\ spoiled' = IF taken # {} /\ ~ok THEN spoiled \cup {i} ELSE spoiled
  /\ UNCHANGED born

\* load_hierarchy
LoadEnds(ok) ==
  /\ job # Absent /\ job.kind = "load"
  /\ Fails(ok)
  /\ Ends(IF ok THEN [job.clone EXCEPT !.rows = azure] ELSE job.clone, ok)
  /\ spoiled' = IF ok THEN spoiled \cup {i \in Items : azure[i] # planner.rows[i]} ELSE spoiled
  /\ UNCHANGED <<azure, born>>

-----------------------------------------------------------------------------
ItemsInit ==
  /\ \E row \in Row : azure = [i \in Items |-> IF i = 1 THEN row ELSE Absent]
  /\ planner = [rows |-> azure, undo |-> << >>, redo |-> << >>, toast |-> NoOffer]
  /\ job = Absent /\ waiting = NoOffer /\ born = 1 /\ spoiled = {} /\ acts = 0 /\ losses = 0

ItemsNext ==
  \/ AddItem \/ Reload \/ ToastUndo \/ ToastGone
  \/ \E i \in Items : DeleteItem(i)
                      \/ \E n \in Names, v \in Texts : SaveField(i, n, v)
                      \/ \E values \in Row : SaveEdits(i, values)
  \/ \E offer \in {OfferUndo, OfferRedo} : HistoryKey(offer)
  \/ \E ok, applied \in BOOLEAN : \/ AddEnds(ok, applied) \/ DeleteEnds(ok, applied)
                                  \/ EditEnds(ok, applied)
  \/ \E taken, lost \in SUBSET Names : RestoreEnds(taken, lost)
  \/ \E ok \in BOOLEAN : LoadEnds(ok)

ItemsSpec == ItemsInit /\ [][ItemsNext]_itemVars

-----------------------------------------------------------------------------
(***************************************************************************)
(* Properties.                                                             *)
(***************************************************************************)
\* What Undo, Redo and the toast offer can be done: none is about an item that
\* is not in the rows, however it was deleted, and a toast that offers Undo or
\* Redo has something on the stack.  Excused is what a load took from the rows.
OffersStand ==
  LET s == planner
  IN  /\ \A e \in Range(s.undo) \cup Range(s.redo) \cup {s.toast} :
           e.item \in Items \ spoiled => s.rows[e.item] # Absent
      /\ s.toast = OfferRedo => s.redo # << >>
      /\ s.toast = OfferUndo => s.undo # << >>

\* The entries of a stack that change field n of item i, and the next one up
Changes(stack, i, n) == {k \in DOMAIN stack : stack[k].item = i /\ n \in DOMAIN stack[k].after}

NextUp(stack, k, i, n) ==
  SelectInSubSeq(stack, k + 1, Len(stack), LAMBDA e : e.item = i /\ n \in DOMAIN e.after)

\* The history of a field leads to what the row shows and on from it: each entry to
\* be undone ends, and each to be redone starts, where the one above it begins from,
\* and the topmost of each stack at what is shown, through undos, redos, toast
\* Undos, failures and deletions.  Excused are the items in `spoiled`.
HistoryChains ==
  \A i \in Items \ spoiled, n \in Names : planner.rows[i] # Absent =>
    LET shown == planner.rows[i][n]
        undo  == planner.undo
        redo  == planner.redo
    IN  /\ \A k \in Changes(undo, i, n) : LET up == NextUp(undo, k, i, n) IN
             undo[k].after[n] = IF up = 0 THEN shown ELSE undo[up].before[n]
        /\ \A k \in Changes(redo, i, n) : LET up == NextUp(redo, k, i, n) IN
             redo[k].before[n] = IF up = 0 THEN shown ELSE redo[up].after[n]
=============================================================================
