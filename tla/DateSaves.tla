------------------------------ MODULE DateSaves ------------------------------
(***************************************************************************)
(* The date-save pipeline of the planner: crates/app/src/ui.rs             *)
(* (enqueue_date_save, drain_date_saves, spawn_one_date_save) over the     *)
(* edits, undo and redo of crates/app/src/state.rs.                        *)
(*                                                                         *)
(* Every edit of a bar is applied to the live nodes and to the undo        *)
(* history at once, and its PATCH is queued.  The UI thread drains the     *)
(* queue after every edit and after every answer: at most one PATCH per    *)
(* Work Item is in flight, a newer save of an item supersedes a queued     *)
(* one, and a Shift-drag holds the saves of the descendants until the      *)
(* parent's PATCH is known.  Each action is one turn of the UI thread.     *)
(***************************************************************************)
EXTENDS SaveQueue, Integers, FiniteSets

CONSTANTS
  Kids,       \* Kids[i]: the descendants of i, as descendant_ids lists them
  None,       \* no toast, no stash
  HistoryCap, \* EditHistory::CAP: entries the undo stack keeps, 50
  MaxEdits,   \* bound: user actions in a behaviour
  MaxFaults   \* bound: PATCHes that do not answer Ok

ASSUME PipelineAssumption ==
  /\ IsFiniteSet(Ids) /\ IsFiniteSet(Dates) /\ Dates \subseteq Int
  /\ Kids \in [Ids -> Seq(Ids)]
  /\ HistoryCap \in Nat \ {0}
  /\ MaxEdits \in Nat /\ MaxFaults \in Nat

VARIABLES
  live,     \* state.nodes: the dates the planner shows
  queue,    \* date_save_queue
  busy,     \* date_save_busy
  flight,   \* PATCHes awaiting their answer, with the worker's Shift stash
  shifted,  \* state.shifted_children
  undo,     \* history.undo: sequences of changes, a single Dates has length 1
  redo,     \* history.redo
  toast,    \* the date Undo offered by the one success toast, or None
  server,   \* the dates Azure DevOps holds
  failed,   \* items whose last settled save failed or was rolled back
  orphaned, \* descendants whose shift was abandoned (see Abandoned)
  offstack, \* items whose dates and history went apart: toast restores and the items
            \* of the entries they drop, children folded into an entry that has them
            \* or while a redo is pending, dropped shifts
  edits, faults

pipeline == <<live, queue, busy, flight, shifted>>
history  == <<undo, redo>>
marks    == <<failed, orphaned, offstack>>
vars     == <<pipeline, history, toast, server, marks, edits, faults>>

Change  == [id : Ids, before : Dates, after : Dates]
Restore == [id : Ids, date : Dates]

-----------------------------------------------------------------------------
(***************************************************************************)
(* The UI thread's own state as a value, for the calls a handler chains.   *)
(***************************************************************************)
Desk == [live |-> live, queue |-> queue, busy |-> busy, flight |-> flight,
         shifted |-> shifted]

Becomes(desk) ==
  \E d \in {desk} :
    /\ live' = d.live     /\ queue' = d.queue
    /\ busy' = d.busy     /\ flight' = d.flight
    /\ shifted' = d.shifted

\* live_dates_match
Matches(desk, s) == desk.live[s.id] = s.after

\* restore_cascade_saves over the kids that still sit at their shifted dates
RestoreKids(desk, kids) ==
  LET back == {n \in DOMAIN kids : Matches(desk, kids[n])}
  IN  [desk EXCEPT !.live = [i \in Ids |->
         IF \E n \in back : kids[n].id = i
           THEN kids[CHOOSE n \in back : kids[n].id = i].prev
           ELSE @[i]]]

\* discard_stale_date_save
DiscardStale(desk, s) ==
  IF s.role = "Commit" THEN RestoreKids(desk, s.kids) ELSE desk

\* spawn_one_date_save up to the PATCH.  A Commit's worker keeps the stash of
\* shifted children for its toast and take_shifted_children drops the live one.
Spawn(desk, s) ==
  [desk EXCEPT
     !.busy    = @ \cup {s.id},
     !.flight  = @ \cup {[save |-> s,
                          stash |-> IF s.role = "Commit" THEN desk.shifted[s.id] ELSE None]},
     !.shifted = IF s.role = "Commit" THEN [@ EXCEPT ![s.id] = None] ELSE @]

\* Mutant of DrainOne: the item's PATCH in flight is not waited for
DrainOneBusyOrNot(desk, s) ==
  IF Matches(desk, s) THEN Spawn(desk, s) ELSE DiscardStale(desk, s)

\* One turn of the loop of drain_date_saves
DrainOne(desk, s) ==
  IF s.id \in desk.busy THEN [desk EXCEPT !.queue = Append(@, s)]
  ELSE IF Matches(desk, s) THEN Spawn(desk, s)
  ELSE DiscardStale(desk, s)

Drain(desk) ==
  FoldLeft(DrainOne, [desk EXCEPT !.queue = << >>], Coalesce(desk.queue))

Enqueue(desk, s) == Drain([desk EXCEPT !.queue = Append(@, s)])

EnqueueAll(desk, saves) == FoldLeft(Enqueue, desk, saves)

\* enqueue_matching_cascade
EnqueueKid(desk, kid) == IF Matches(desk, kid) THEN Enqueue(desk, AsCascade(kid)) ELSE desk

EnqueueMatching(desk, kids) == FoldLeft(EnqueueKid, desk, kids)

\* Mutant of FollowUp: the dates just saved are queued instead of the live ones
FollowUpSaved(now, s) ==
  [id |-> s.id, after |-> s.after, prev |-> s.after, role |-> "Commit", kids |-> << >>]

\* follow_up_date_save
FollowUp(now, s) ==
  [id |-> s.id, after |-> now, prev |-> s.after, role |-> "Commit", kids |-> << >>]

-----------------------------------------------------------------------------
(***************************************************************************)
(* History, as [undo, redo] pairs.                                         *)
(***************************************************************************)
Involves(entry, i) == \E n \in DOMAIN entry : entry[n].id = i

\* discard_dates_after: the newest entry led by i that ends at `after`
DiscardAfter(h, i, after) ==
  LET n == SelectLastInSeq(h.undo, LAMBDA e : e[1].id = i /\ e[1].after = after)
  IN  IF n = 0 THEN h ELSE [h EXCEPT !.undo = RemoveAt(@, n)]

\* discard_history_for_undo(RestoreDates): the oldest entry led by i from `before`,
\* which takes along whatever else it holds
LedBefore(h, i, before) ==
  SelectInSeq(h.undo, LAMBDA e : e[1].id = i /\ e[1].before = before)

DiscardBefore(h, i, before) ==
  LET n == LedBefore(h, i, before)
  IN  IF n = 0 THEN h ELSE [h EXCEPT !.undo = RemoveAt(@, n)]

DiscardedWith(h, i, before) ==
  LET n == LedBefore(h, i, before)
  IN  {k \in Ids : n # 0 /\ Involves(h.undo[n], k)}

\* restore_failed_date_undo
UnfailUndo(h, i) ==
  IF h.redo # << >> /\ Involves(Last(h.redo), i)
    THEN [undo |-> Append(h.undo, Last(h.redo)), redo |-> Front(h.redo)]
    ELSE h

\* restore_failed_date_redo
UnfailRedo(h, i) ==
  IF h.undo # << >> /\ Involves(Last(h.undo), i)
    THEN [undo |-> Front(h.undo), redo |-> Append(h.redo, Last(h.undo))]
    ELSE h

\* revert_date_save_history
RevertHistory(h, s) ==
  CASE s.role = "Commit"  -> DiscardAfter(h, s.id, s.after)
    [] s.role = "Undo"    -> UnfailUndo(h, s.id)
    [] s.role = "Redo"    -> UnfailRedo(h, s.id)
    [] s.role = "Restore" -> h
    [] s.role = "Cascade" -> UnfailUndo(DiscardAfter(h, s.id, s.after), s.id)

-----------------------------------------------------------------------------
(***************************************************************************)
(* Edits.                                                                  *)
(***************************************************************************)
RestoresOf(kids) == [n \in DOMAIN kids |-> [id |-> kids[n].id, date |-> kids[n].prev]]
ChangesOf(kids)  == [n \in DOMAIN kids |->
                       [id |-> kids[n].id, before |-> kids[n].prev, after |-> kids[n].after]]

\* shift_descendants_now: what moving the descendants of i by delta changes
ShiftedKids(i, delta) ==
  [n \in DOMAIN Kids[i] |-> [id    |-> Kids[i][n],
                             after |-> live[Kids[i][n]] + delta,
                             prev  |-> live[Kids[i][n]]]]

Move(dates, m) == [dates EXCEPT ![m.id] = m.after]

Moved(dates, moves) == FoldLeft(Move, dates, moves)

\* Mutant of Record: a new edit leaves the redo stack
RecordKeepingRedo(entry) == undo' = Append(undo, entry) /\ redo' = redo

\* EditHistory::push drops the oldest entries of a stack that has grown too long
Newest(stack) ==
  IF Len(stack) > HistoryCap
    THEN SubSeq(stack, Len(stack) - HistoryCap + 1, Len(stack)) ELSE stack

\* record, EditHistory::push
Record(entry) == undo' = Newest(Append(undo, entry)) /\ redo' = << >>

UserActs == edits < MaxEdits /\ edits' = edits + 1

\* commit_range_dates_now and commit_date_gesture_now, then enqueue_date_save
CommitDates(i, d) ==
  /\ UserActs
  /\ d # live[i]
  /\ Becomes(Enqueue([Desk EXCEPT !.live[i] = d],
                     [id |-> i, after |-> d, prev |-> live[i],
                      role |-> "Commit", kids |-> << >>]))
  /\ Record(<<[id |-> i, before |-> live[i], after |-> d]>>)
  /\ toast' = [items |-> <<[id |-> i, date |-> live[i]]>>, extra |-> 0]
  /\ UNCHANGED <<server, marks, faults>>

\* commit_gesture with Shift held: shift_children_with_committed_move folds the
\* descendants into the parent's history entry and save
ShiftDrag(i, d) ==
  LET kids == ShiftedKids(i, d - live[i])
      move == [id |-> i, after |-> d, prev |-> live[i], role |-> "Commit", kids |-> kids]
  IN  /\ UserActs
      /\ d # live[i] /\ kids # << >>
      /\ \A n \in DOMAIN kids : kids[n].after \in Dates
      /\ Becomes(Enqueue([Desk EXCEPT !.live = [Moved(@, kids) EXCEPT ![i] = d],
                                      !.shifted[i] = RestoresOf(kids)], move))
      /\ Record(<<[id |-> i, before |-> live[i], after |-> d]>> \o ChangesOf(kids))
      /\ toast' = [items |-> <<[id |-> i, date |-> live[i]]>> \o RestoresOf(kids),
                   extra |-> 0]
      /\ UNCHANGED <<server, marks, faults>>

\* "Move children too" of a toast: apply_toast_extra
MoveChildrenToo ==
  /\ UserActs
  /\ toast # None /\ toast.extra # 0
  /\ LET i == toast.items[1].id
         kids == ShiftedKids(i, toast.extra)
         fold == undo # << >> /\ Last(undo)[1].id = i
     IN  /\ \A n \in DOMAIN kids : kids[n].after \in Dates
         /\ Becomes(EnqueueAll([Desk EXCEPT !.live = Moved(@, kids),
                                            !.shifted[i] = RestoresOf(kids)],
                               [n \in DOMAIN kids |-> AsCascade(kids[n])]))
         /\ IF fold
              THEN /\ undo' = Append(Front(undo), Last(undo) \o ChangesOf(kids))
                   /\ redo' = redo
              ELSE Record(ChangesOf(kids))
         /\ toast' = [items |-> IF Len(toast.items) = 1 THEN toast.items \o RestoresOf(kids)
                                                       ELSE toast.items,
                      extra |-> 0]
         /\ offstack' = offstack \cup
              {k \in Range(Kids[i]) : fold /\ (redo # << >> \/ Involves(Last(undo), k))}
  /\ UNCHANGED <<server, failed, orphaned, faults>>

\* pending_from_dates_group and apply_toast_restore_dates_all: the saves that
\* put `moves` in place one after the other, each remembering the dates it
\* found; the first has the given role, the rest are Cascade
Replay(moves, role) ==
  [n \in DOMAIN moves |-> [id |-> moves[n].id, after |-> moves[n].after,
                           prev |-> Moved(live, SubSeq(moves, 1, n - 1))[moves[n].id],
                           role |-> IF n = 1 THEN role ELSE "Cascade", kids |-> << >>]]

Befores(entry) == [n \in DOMAIN entry |-> [id |-> entry[n].id, after |-> entry[n].before]]
Afters(entry)  == [n \in DOMAIN entry |-> [id |-> entry[n].id, after |-> entry[n].after]]
Dated(items)   == [n \in DOMAIN items |-> [id |-> items[n].id, after |-> items[n].date]]

ApplyAll(saves) == Becomes(EnqueueAll([Desk EXCEPT !.live = Moved(@, saves)], saves))

\* undo_date_stack_now
UndoStack ==
  /\ undo # << >>
  /\ ApplyAll(Replay(Befores(Last(undo)), "Undo"))
  /\ undo' = Front(undo)
  /\ redo' = Append(redo, Last(undo))
  /\ toast' = None

\* undo_last (Ctrl+Z)
UndoLast == UserActs /\ UndoStack /\ UNCHANGED <<server, marks, faults>>

\* redo_last (Ctrl+Shift+Z), redo_date_stack_now
RedoLast ==
  /\ UserActs
  /\ redo # << >>
  /\ ApplyAll(Replay(Afters(Last(redo)), "Redo"))
  /\ redo' = Front(redo)
  /\ undo' = Append(undo, Last(redo))
  /\ toast' = None
  /\ UNCHANGED <<server, marks, faults>>

\* Undo of a toast: toast_restore_or_undo_dates.  The history stack is used
\* when its last entry is led by the toast's item; otherwise the dates are
\* restored and the history entry stays until the PATCH succeeds.
ToastUndo ==
  /\ UserActs
  /\ toast # None
  /\ IF undo # << >> /\ Last(undo)[1].id = toast.items[1].id
       THEN UndoStack /\ offstack' = offstack
       ELSE /\ ApplyAll(Replay(Dated(toast.items), "Restore"))
            /\ toast' = None
            /\ offstack' = offstack \cup {r.id : r \in Range(toast.items)}
            /\ UNCHANGED history
  /\ UNCHANGED <<server, failed, orphaned, faults>>

\* The toast expires, is dismissed, or is pushed out by other toasts
ToastGone ==
  /\ toast # None
  /\ toast' = None
  /\ UNCHANGED <<pipeline, history, server, marks, edits, faults>>

-----------------------------------------------------------------------------
(***************************************************************************)
(* Answers.                                                                *)
(***************************************************************************)
\* push_dates_moved_toast on the worker's clone, copied to the live state
MovedToast(f) ==
  LET s == f.save
      own == <<[id |-> s.id, date |-> s.prev]>>
  IN  IF f.stash # None THEN [items |-> own \o f.stash, extra |-> 0]
      ELSE [items |-> own, extra |-> IF Kids[s.id] = << >> THEN 0 ELSE s.after - s.prev]

\* Mutant of Landed: the item stays busy
LandedStillBusy(f) == [Desk EXCEPT !.flight = @ \ {f}]

\* The answer is in: date_save_busy.remove
Landed(f) == [Desk EXCEPT !.busy = @ \ {f.save.id}, !.flight = @ \ {f}]

\* A Shift-drag in the queue or in flight still owns the dates of i
Held(i) ==
  \E s \in {f.save : f \in flight} \cup Range(queue) :
    \E n \in DOMAIN s.kids : s.kids[n].id = i /\ live[i] = s.kids[n].after

\* This turn ends the shift that owned i, or moves i, and leaves it no PATCH:
\* an Undo, Redo, Restore or Cascade save took over a superseded cascade, which
\* it neither sends nor restores, or a stale Shift-drag was dropped
Abandoned(i) ==
  i \notin busy' /\ (live'[i] # live[i] \/ (Held(i) /\ ~Held(i)'))

\* The PATCH answered Ok
SaveOk(f) ==
  LET s == f.save
      still == Matches(Desk, s)
      own == IF still THEN Landed(f) ELSE Enqueue(Landed(f), FollowUp(live[s.id], s))
      all == IF s.role = "Commit" THEN EnqueueMatching(own, s.kids) ELSE own
  IN  /\ server' = [server EXCEPT ![s.id] = s.after]
      /\ failed' = failed \ {s.id}
      /\ Becomes(Drain(all))
      /\ orphaned' = (orphaned \ {s.id}) \cup {i \in Ids : Abandoned(i)}
      /\ toast' = IF still /\ s.role = "Commit" THEN MovedToast(f) ELSE toast
      /\ IF still /\ s.role = "Restore"
           THEN LET was == [undo |-> undo, redo |-> redo]
                    h == DiscardBefore(was, s.id, s.after)
                IN  /\ undo' = h.undo /\ redo' = h.redo
                    /\ offstack' = offstack \cup {i \in Ids : live'[i] # live[i]}
                                            \cup DiscardedWith(was, s.id, s.after)
           ELSE /\ UNCHANGED history
                /\ offstack' = offstack \cup {i \in Ids : live'[i] # live[i]}
      /\ UNCHANGED <<edits, faults>>

\* Mutant of RolledBack: dates edited since the save are rolled back too
RolledBackAlways(f) == [Landed(f) EXCEPT !.live[f.save.id] = f.save.prev]

\* restore_node of the dates a failed save had set, if they are still shown
RolledBack(f) ==
  IF Matches(Desk, f.save) THEN [Landed(f) EXCEPT !.live[f.save.id] = f.save.prev]
                           ELSE Landed(f)

\* The PATCH answered an error.  `applied`: the server had applied it, and only
\* its answer was lost (the client gives up after its timeout).
SaveErr(f, applied) ==
  LET s == f.save
      still == Matches(Desk, s)
      own == RolledBack(f)
      h == IF still THEN RevertHistory([undo |-> undo, redo |-> redo], s)
                    ELSE [undo |-> undo, redo |-> redo]
  IN  /\ faults < MaxFaults
      /\ faults' = faults + 1
      /\ server' = IF applied THEN [server EXCEPT ![s.id] = s.after] ELSE server
      /\ Becomes(Drain(IF s.role = "Commit" THEN RestoreKids(own, s.kids) ELSE own))
      /\ orphaned' = orphaned \cup {i \in Ids : Abandoned(i)}
      /\ failed' = failed \cup {s.id} \cup {i \in Ids : live'[i] # live[i]}
      /\ undo' = h.undo /\ redo' = h.redo
      /\ toast' = CASE still /\ s.role = "Commit"  -> None
                    [] still /\ s.role = "Restore" ->
                         [items |-> <<[id |-> s.id, date |-> s.after]>>, extra |-> 0]
                    [] OTHER -> toast
      /\ UNCHANGED <<offstack, edits>>

Answer(f) == SaveOk(f) \/ \E applied \in BOOLEAN : SaveErr(f, applied)

-----------------------------------------------------------------------------
\* apply_hierarchy has just loaded the rows: what is shown is what is stored
Init ==
  /\ live \in [Ids -> Dates] /\ server = live
  /\ queue = << >> /\ busy = {} /\ flight = {}
  /\ shifted = [i \in Ids |-> None]
  /\ undo = << >> /\ redo = << >> /\ toast = None
  /\ failed = {} /\ orphaned = {} /\ offstack = {} /\ edits = 0 /\ faults = 0

UserStep ==
  \/ \E i \in Ids, d \in Dates : CommitDates(i, d) \/ ShiftDrag(i, d)
  \/ MoveChildrenToo \/ UndoLast \/ RedoLast \/ ToastUndo \/ ToastGone

Next == UserStep \/ \E f \in flight : Answer(f)

Spec == Init /\ [][Next]_vars

\* Every request ends, with an answer or by the HTTP client's timeout.  This is
\* weak fairness of Answer, whose guard is that some PATCH is in flight.
Answers == []<>(flight = {}) \/ []<><<\E f \in flight : Answer(f)>>_vars

-----------------------------------------------------------------------------
(***************************************************************************)
(* Properties.                                                             *)
(***************************************************************************)
\* No two PATCHes of one Work Item are ever in flight, whatever chain of
\* follow-ups and cascades an answer enqueues, and `busy` (date_save_busy) is
\* exactly the items that have one.
SingleFlight ==
  /\ busy = {f.save.id : f \in flight}
  /\ \A f, g \in flight : f.save.id = g.save.id => f = g

\* Between turns of the UI thread the queue never strands a save: each waits
\* for a PATCH of its own item, whose answer drains it, and there is one per
\* item (drain_date_saves, coalesce_superseded_date_saves).
NoStrandedSave ==
  /\ \A n \in DOMAIN queue : queue[n].id \in busy
  /\ \A m, n \in DOMAIN queue : queue[m].id = queue[n].id => m = n

Settled(i) == i \notin busy /\ (\A n \in DOMAIN queue : queue[n].id # i) /\ ~Held(i)

\* An item with nothing left to save shows what the server holds, unless its
\* last save failed or its shift was dropped with an adopted cascade.  Edits,
\* undos and shifts may land while the item's PATCH is in flight: the queue and
\* the follow-up of spawn_one_date_save must still converge on the last one.
Agreement == \A i \in Ids \ (failed \cup orphaned) : Settled(i) => live[i] = server[i]

\* Without the exemption for dropped cascades.  The comment on
\* coalesce_superseded_date_saves says a trailing non-Shift save inherits the
\* superseded children, and its test that such a persist "must still persist
\* the Shift-drag children"; only saves of role Commit do.
ShiftedChildrenPersist == \A i \in Ids \ failed : Settled(i) => live[i] = server[i]

\* The change of i in the newest entry of a stack that touches it
Latest(stack, i) ==
  LET n == SelectLastInSeq(stack, LAMBDA e : Involves(e, i))
  IN  stack[n][SelectLastInSeq(stack[n], LAMBDA ch : ch.id = i)]

Recorded(stack, i) == \E n \in DOMAIN stack : Involves(stack[n], i)

AgreesAt(i) ==
  /\ Recorded(undo, i) => Latest(undo, i).after = live[i]
  /\ Recorded(redo, i) => Latest(redo, i).before = live[i]

\* While no PATCH fails, Undo and Redo start from what is shown: the newest
\* undo entry of an item ends, and its newest redo entry starts, at its live
\* dates.  Items whose dates moved beside the stacks are exempt.
HistoryAgrees == faults = 0 => \A i \in Ids \ offstack : AgreesAt(i)

\* The comment on fold_descendant_dates promises that folding a child's shift
\* into the parent's move makes "one Undo" revert both: Ctrl+Z returns every item
\* of the entry to its dates before the first of the moves folded into it.
OneUndoRevertsAll ==
  [][UndoLast => \A i \in Ids : Involves(Last(undo), i) =>
       LET first == SelectInSeq(Last(undo), LAMBDA ch : ch.id = i)
       IN  live'[i] = Last(undo)[first].before]_vars

\* A DateSaveRole records why a PATCH was queued "so a failed persist can put
\* history back": when a failure rolls an item's dates back, history agrees
\* with them again.
FailedPutsHistoryBack ==
  [][\A f \in flight :
       LET i == f.save.id
           rolledBack == live[i] = f.save.after /\ live'[i] = f.save.prev
       IN  (\E applied \in BOOLEAN : SaveErr(f, applied)) /\ rolledBack
             /\ i \notin offstack /\ AgreesAt(i) => AgreesAt(i)']_vars

\* Every behaviour that stops editing settles: no save is retried for ever and
\* no follow-up chases another.
Settles == <>[](busy = {} /\ queue = << >>)
=============================================================================
