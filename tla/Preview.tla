-------------------------------- MODULE Preview --------------------------------
(***************************************************************************)
(* Dates shown before they are saved: keyboard nudges, bar drags and the   *)
(* idle flush, in crates/app/src/gantt.rs (begin_gesture, update_gesture,  *)
(* apply_nudge), state.rs (nudge, flush_nudge, cancel_gesture) and ui.rs   *)
(* (schedule_nudge_flush, release_bar_gesture, select_relative_row).       *)
(*                                                                         *)
(* A nudge writes its preview into the live nodes and waits for half a     *)
(* second of silence; a drag keeps its preview in the gesture until the    *)
(* button is released.  A flush runs on a clone of the whole planner that  *)
(* then replaces it (SpawnState); a drag goes through the date-save        *)
(* pipeline, here one lane per Work Item (DateLane).                       *)
(***************************************************************************)
EXTENDS Integers, FiniteSets

CONSTANTS
  Ids, Days,
  Starts,     \* the dates items have when they are loaded
  BarDays,    \* DEFAULT_BAR_DAYS: the length painted for an open-ended item
  None,
  MaxEdits,   \* bound: key presses, mouse presses and other work
  MaxFaults   \* bound: requests that do not answer Ok

VARIABLES
  live,      \* state.nodes: Start Date and Target Date shown
  nudge,     \* gantt.pending_nudge
  gesture,   \* gantt.gesture, a date gesture
  selected,  \* gantt.selected_id
  lastNudge, \* last_nudge_at, as the number of the key press, 0 if none
  held,      \* the mouse button is down
  timers,    \* key presses whose idle timer has not fired
  io,        \* the work that holds io_busy, with its clone
  flight,    \* the date PATCH in flight of each item
  queued,    \* the date save queued behind it
  server,    \* what Azure DevOps holds
  want,      \* the dates each item was last given or put back to
  stray,     \* items two owners previewed or saved at once, or whose preview was dropped
  touched,   \* items whose dates changed since io's clone was taken
  missed,    \* an idle flush met io_busy, or an adopted clone brought a nudge back
  edits, faults

gantt    == <<nudge, gesture, selected, lastNudge>>
lanes    == <<flight, queued, server>>
marks    == <<stray, touched>>
counters == <<edits, faults>>
vars     == <<live, gantt, held, timers, io, lanes, want, marks, missed, counters>>

Sides == {"s", "t"}
Dates == [Sides -> Days \cup {None}]
Had(d) == {f \in Sides : d[f] # None}

Spans == [Sides -> Int]
Kinds == {"Move", "ResizeStart", "ResizeEnd"}

\* PendingNudge and Gesture of gantt.rs, PendingDateSave of state.rs, and the
\* clone spawn_state works on: the fields the properties tell apart
Moments == [Sides -> Int \cup {None}]
PendingNudge == [id : Ids, span : Spans, orig : Spans, had : SUBSET Sides]
Gesture == [id : Ids, kind : Kinds, span : Spans, now : Spans, had : SUBSET Sides]
DateSave == [after : Moments, prev : Moments]
Work == [id : Ids \cup {None}, before : Moments \cup {None}, patch : Moments \cup {None},
         live : [Ids -> Moments], nudge : PendingNudge \cup {None},
         gesture : Gesture \cup {None}, selected : Ids \cup {None}, lastNudge : Nat]

ASSUME PreviewAssumption ==
  /\ IsFiniteSet(Ids) /\ Days \subseteq Int
  /\ None \notin Int \cup Ids \cup Moments
  /\ None \notin PendingNudge \cup Gesture \cup DateSave \cup Work
  /\ Starts \subseteq {d \in Dates : Had(d) = Sides => d.s <= d.t}
  /\ BarDays \in Nat \ {0} /\ MaxEdits \in Nat /\ MaxFaults \in Nat

\* An update that gives some sides only: apply_optimistic_partial, build_dates_patch
Patch(d, p) == [f \in Sides |-> IF p[f] = None THEN d[f] ELSE p[f]]

\* had_start.then_some(start), had_target.then_some(target)
Keep(span, had) == [f \in Sides |-> IF f \in had THEN span[f] ELSE None]

\* gantt_bar_display of an item with at least one date
Shown(d) == [s |-> IF d.s # None THEN d.s ELSE d.t,
             t |-> IF d.t # None THEN d.t ELSE d.s + BarDays - 1]

Shift(span, sides, n) == [f \in Sides |-> IF f \in sides THEN span[f] + n ELSE span[f]]

Legal(d) == \A f \in Sides : d[f] \in Days \cup {None}

-----------------------------------------------------------------------------
(***************************************************************************)
(* Who owns the dates of an item, and the bookkeeping of the properties.   *)
(***************************************************************************)
Nudged(i)   == nudge # None /\ nudge.id = i
Dragged(i)  == gesture # None /\ gesture.id = i
Flushing(i) == io # None /\ io.id = i

\* The nudge a flush saves stays where it is until the clone is adopted
Owners(i) == (IF Flushing(i) THEN {"flush"} ELSE IF Nudged(i) THEN {"nudge"} ELSE {})
      \cup (IF Dragged(i) THEN {"drag"} ELSE {})
      \cup (IF flight[i] # None THEN {"save"} ELSE {})

Shared(i) == \E x, y \in Owners(i) : x # y

Mark(lost) ==
  /\ stray' = stray \cup lost \cup {i \in Ids : Shared(i)'}
  /\ touched' = IF io = None THEN {}
                ELSE (touched \cup {i \in Ids : live'[i] # live[i]}) \ stray'

Quiet(i) == Owners(i) = {} /\ io = None

UserActs == edits < MaxEdits /\ edits' = edits + 1

-----------------------------------------------------------------------------
(***************************************************************************)
(* Nudges.                                                                 *)
(***************************************************************************)
\* apply_nudge: the pending nudge of the selected item, or a new one
Pending(i) ==
  IF Nudged(i) THEN nudge
  ELSE [id |-> i, span |-> Shown(live[i]), orig |-> Shown(live[i]), had |-> Had(live[i])]

\* Mutant of Nudged1: an edge may pass the other
Nudged1Unordered(p, sides, n) == [p EXCEPT !.span = Shift(@, sides, n)]

\* One edge stops at the other
Nudged1(p, sides, n) ==
  LET span == Shift(p.span, sides, n)
  IN  IF span.s <= span.t THEN [p EXCEPT !.span = span] ELSE p

\* on_key left/right, nudge
Nudge(sides, n) ==
  LET p == Nudged1(Pending(selected), sides, n)
      d == Patch(live[selected], Keep(p.span, p.had))
  IN  /\ selected # None /\ Had(live[selected]) # {}
      /\ UserActs
      /\ Legal(d)
      /\ nudge' = p
      /\ lastNudge' = edits' /\ timers' = timers \cup {edits'}
      /\ live' = [live EXCEPT ![selected] = d]
      /\ want' = [want EXCEPT ![selected] = d]
      /\ missed' = FALSE
      /\ UNCHANGED <<gesture, selected, held, io, lanes, faults>>
      /\ Mark(IF nudge # None /\ nudge.id # selected THEN {nudge.id} ELSE {})

\* Nothing is selected or the item is unscheduled: the timer is set all the same
NudgeRefused ==
  /\ selected # None => Had(live[selected]) = {}
  /\ UserActs
  /\ timers' = timers \cup {edits'}
  /\ UNCHANGED <<live, gantt, held, io, lanes, want, marks, missed, faults>>

\* Mutant of Restored: the preview stays
RestoredNothing(p) == live

\* restore_nudge
Restored(p) == [live EXCEPT ![p.id] = Keep(p.orig, p.had)]

\* A click on a tree row: discard_nudge unless the row is the nudged one
ClickRow(j) ==
  /\ UserActs
  /\ selected' = j
  /\ IF nudge # None /\ nudge.id # j
       THEN /\ live' = Restored(nudge)
            /\ want' = [want EXCEPT ![nudge.id] = live'[nudge.id]]
            /\ nudge' = None /\ lastNudge' = 0
       ELSE UNCHANGED <<live, want, nudge, lastNudge>>
  /\ UNCHANGED <<gesture, held, timers, io, lanes, missed, faults>>
  /\ Mark({})

\* Home, End and a press on a summary edge select, and leave the nudge alone
Select(j) ==
  /\ UserActs
  /\ selected' = j
  /\ UNCHANGED <<live, nudge, gesture, lastNudge, held, timers, io, lanes, want, marks, missed,
                 faults>>

\* select_relative_row (arrows, page keys, wheel): the nudge is dropped and both
\* of its original dates are shown, also a side the item never had
SelectRelative(j) ==
  LET leaves == nudge # None /\ nudge.id # j
  IN  /\ UserActs
      /\ selected' = j
      /\ live' = IF leaves THEN [live EXCEPT ![nudge.id] = nudge.orig] ELSE live
      /\ want' = IF leaves THEN [want EXCEPT ![nudge.id] = nudge.orig] ELSE want
      /\ nudge' = IF leaves THEN None ELSE nudge
      /\ leaves => Legal(nudge.orig)
      /\ UNCHANGED <<gesture, lastNudge, held, timers, io, lanes, missed, faults>>
      /\ Mark(IF leaves /\ nudge.had # Sides THEN {nudge.id} ELSE {})

-----------------------------------------------------------------------------
(***************************************************************************)
(* Drags.                                                                  *)
(***************************************************************************)
\* begin_gesture: a milestone and an unscheduled item can only be moved; the
\* latter starts at today
Press(i, kind, today) ==
  LET had == Had(live[i])
      span == IF had = {} THEN [s |-> today, t |-> today + BarDays - 1] ELSE Shown(live[i])
  IN  /\ UserActs
      /\ ~held /\ held' = TRUE
      /\ had \in {{}, {"t"}} => kind = "Move"
      /\ gesture' = [id |-> i, kind |-> kind, span |-> span, now |-> span, had |-> had]
      /\ selected' = i
      /\ UNCHANGED <<live, nudge, lastNudge, timers, io, lanes, want, missed, faults>>
      /\ Mark({})

\* update_gesture: the dates under a pointer n days from the press
Dragging(g, n) ==
  CASE g.kind = "Move" -> Shift(g.span, Sides, n)
    [] g.kind = "ResizeStart" /\ "t" \notin g.had ->
         [s |-> g.span.s + n, t |-> g.span.s + n + BarDays - 1]
    [] g.kind = "ResizeStart" /\ "t" \in g.had ->
         IF g.span.s + n <= g.span.t THEN Shift(g.span, {"s"}, n) ELSE g.now
    [] g.kind = "ResizeEnd" ->
         IF g.span.t + n >= g.span.s THEN Shift(g.span, {"t"}, n) ELSE g.now

Drag(n) ==
  /\ gesture # None /\ held
  /\ gesture' = [gesture EXCEPT !.now = Dragging(gesture, n)]
  /\ gesture'.now # gesture.now
  /\ gesture'.now.s \in Days
  /\ gesture.had # {"s"} \/ gesture.kind = "ResizeEnd" => gesture'.now.t \in Days
  /\ UNCHANGED <<live, nudge, selected, lastNudge, held, timers, io, lanes, want, marks,
                 missed, counters>>

\* gesture_patch_dates
PatchDates(g) ==
  CASE g.had = {}             -> g.now
    [] g.kind = "ResizeStart" -> Keep(g.now, {"s"})
    [] g.kind = "ResizeEnd"   -> Keep(g.now, {"t"})
    [] OTHER                  -> Keep(g.now, g.had)

\* cancel_gesture of the state: the dragged bar, then the nudged one, go back
Cancelled ==
  LET dragged == IF gesture = None THEN live
                 ELSE [live EXCEPT ![gesture.id] = Keep(gesture.span, gesture.had)]
  IN  IF nudge = None THEN dragged
      ELSE [dragged EXCEPT ![nudge.id] = Keep(nudge.orig, nudge.had)]

CancelGesture ==
  /\ live' = Cancelled
  /\ want' = [i \in Ids |-> IF live'[i] # live[i] THEN live'[i] ELSE want[i]]
  /\ gesture' = None /\ nudge' = None

\* enqueue_date_save: sent now, or waits for the PATCH in flight
Submit(i, save) ==
  IF flight[i] = None THEN flight' = [flight EXCEPT ![i] = save] /\ queued' = queued
                      ELSE queued' = [queued EXCEPT ![i] = save] /\ flight' = flight

\* commit_date_gesture_now
CommitGesture ==
  LET i == gesture.id
      d == Patch(live[i], PatchDates(gesture))
  IN  /\ live' = [live EXCEPT ![i] = d]
      /\ want' = [want EXCEPT ![i] = d]
      /\ gesture' = None /\ nudge' = nudge
      /\ Submit(i, [after |-> d, prev |-> live[i]])

\* The button goes up, or the pointer moves with the button up while a gesture
\* is there (a missed mouse-up, or a gesture an adopted clone brought back):
\* release_bar_gesture, commit_gesture.  A gesture that moved no date is cancelled.
Release ==
  /\ held \/ gesture # None
  /\ held' = FALSE
  /\ IF gesture = None THEN UNCHANGED <<live, want, gesture, nudge, flight, queued>>
     ELSE IF gesture.now = gesture.span
       THEN CancelGesture /\ UNCHANGED <<flight, queued>>
       ELSE CommitGesture
  /\ UNCHANGED <<selected, lastNudge, timers, io, server, missed, counters>>
  /\ Mark(IF gesture # None /\ Nudged(gesture.id) THEN {gesture.id} ELSE {})

\* Escape and a press on a toast: dismiss_all_overlays, arm_toast_pointer
Escape ==
  /\ gesture # None \/ nudge # None
  /\ CancelGesture
  /\ UNCHANGED <<selected, lastNudge, held, timers, io, lanes, missed, counters>>
  /\ Mark({})

-----------------------------------------------------------------------------
(***************************************************************************)
(* Saves and other work.                                                   *)
(***************************************************************************)
\* spawn_one_date_save: Ok.  Dates shown by then, previews too, follow up.
SaveOk(i) ==
  /\ flight[i] # None
  /\ server' = [server EXCEPT ![i] = flight[i].after]
  /\ flight' = [flight EXCEPT ![i] =
                  IF live[i] # @.after THEN [after |-> live[i], prev |-> @.after]
                  ELSE IF queued[i] # None /\ queued[i].after = live[i] THEN queued[i]
                  ELSE None]
  /\ queued' = [queued EXCEPT ![i] = None]
  /\ UNCHANGED <<live, gantt, held, timers, io, want, missed, counters>>
  /\ Mark({})

\* It fails: dates still shown go back
SaveErr(i, applied) ==
  /\ flight[i] # None
  /\ faults < MaxFaults /\ faults' = faults + 1
  /\ server' = IF applied THEN [server EXCEPT ![i] = flight[i].after] ELSE server
  /\ live' = [live EXCEPT ![i] = IF @ = flight[i].after THEN flight[i].prev ELSE @]
  /\ want' = [want EXCEPT ![i] = IF live[i] = flight[i].after THEN live'[i] ELSE @]
  /\ flight' = [flight EXCEPT ![i] =
                  IF queued[i] # None /\ queued[i].after = live'[i] THEN queued[i] ELSE None]
  /\ queued' = [queued EXCEPT ![i] = None]
  /\ UNCHANGED <<gantt, held, timers, io, missed, edits>>
  /\ Mark(IF applied THEN {i} ELSE {})

\* flush_nudge on the clone, up to its PATCH: the originals are restored, so
\* that history starts from them, and the nudged dates applied again
FlushWork ==
  LET before == Keep(nudge.orig, nudge.had)
  IN  [id |-> nudge.id, before |-> before,
       patch |-> Keep(nudge.span, nudge.had),
       live |-> [live EXCEPT ![nudge.id] = Patch(before, Keep(nudge.span, nudge.had))],
       nudge |-> None, gesture |-> gesture, selected |-> selected, lastNudge |-> 0]

\* Any other work of spawn_state, that changes no dates
OtherWork ==
  [id |-> None, before |-> None, patch |-> None, live |-> live,
   nudge |-> nudge, gesture |-> gesture, selected |-> selected, lastNudge |-> lastNudge]

\* spawn_state, refused while io_busy
StartOther ==
  /\ UserActs
  /\ io = None
  /\ io' = OtherWork
  /\ UNCHANGED <<live, gantt, held, timers, lanes, want, missed, faults>>
  /\ Mark({})

\* Mutant of Idle: the timer of the last key press itself finds the keys not at rest
IdleLater(s) == nudge # None /\ lastNudge # 0 /\ lastNudge < s

\* nudge_is_idle when the timer of key press s fires
Idle(s) == nudge # None /\ lastNudge # 0 /\ lastNudge <= s

\* schedule_nudge_flush: timers fire in the order of their key presses; the
\* flush is refused while io_busy and not scheduled again
FireTimer ==
  \E s \in timers :
    /\ \A r \in timers : s <= r
    /\ timers' = timers \ {s}
    /\ io' = IF Idle(s) /\ io = None THEN FlushWork ELSE io
    /\ missed' = (missed \/ (Idle(s) /\ io # None))
    /\ UNCHANGED <<live, gantt, held, lanes, want, counters>>
    /\ Mark({})

\* adopt_spawned: nodes, nudge and gesture are the clone's.  When that changes
\* the selection, after_io_selection_change drops the nudge of another row.
Adopt(dates, lost) ==
  LET drops == io.selected # selected /\ io.nudge # None /\ io.nudge.id # io.selected
  IN  /\ live' = dates
      /\ want' = IF io.id = None THEN want ELSE [want EXCEPT ![io.id] = dates[io.id]]
      /\ gesture' = io.gesture /\ selected' = io.selected /\ lastNudge' = io.lastNudge
      /\ nudge' = IF drops /\ io.selected # None THEN None ELSE io.nudge
      /\ io' = None
      /\ missed' = (missed \/ (io.nudge # None /\ io.nudge # nudge))
      /\ UNCHANGED <<held, timers, flight, queued, edits>>
      /\ Mark(lost \cup touched
                   \cup (IF drops THEN {io.nudge.id} ELSE {}))

FinishOk ==
  /\ io # None
  /\ server' = IF io.id = None THEN server
               ELSE [server EXCEPT ![io.id] = Patch(@, io.patch)]
  /\ faults' = faults
  /\ Adopt(io.live, {})

\* save_partial_dates fails: the node as it was before the nudges
FinishErr(applied) ==
  /\ io # None /\ io.id # None
  /\ faults < MaxFaults /\ faults' = faults + 1
  /\ server' = IF applied THEN [server EXCEPT ![io.id] = Patch(@, io.patch)] ELSE server
  /\ Adopt([io.live EXCEPT ![io.id] = io.before], IF applied THEN {io.id} ELSE {})

-----------------------------------------------------------------------------
PreviewInit ==
  /\ live \in [Ids -> Starts]
  /\ server = live /\ want = live /\ selected \in Ids \cup {None}
  /\ nudge = None /\ gesture = None /\ lastNudge = 0
  /\ held = FALSE /\ timers = {} /\ io = None /\ missed = FALSE
  /\ flight = [i \in Ids |-> None] /\ queued = [i \in Ids |-> None]
  /\ stray = {} /\ touched = {} /\ edits = 0 /\ faults = 0

Answered == \E i \in Ids : SaveOk(i) \/ \E applied \in BOOLEAN : SaveErr(i, applied)
Finished == FinishOk \/ \E applied \in BOOLEAN : FinishErr(applied)

KeyStep ==
  \/ \E sides \in {{"s"}, {"t"}, Sides}, n \in {-1, 1} : Nudge(sides, n)
  \/ NudgeRefused \/ Escape
  \/ \E j \in Ids : Select(j) \/ SelectRelative(j)

MouseStep ==
  \/ \E i \in Ids, kind \in Kinds, today \in Days : Press(i, kind, today)
  \/ \E i \in Ids : ClickRow(i)
  \/ \E n \in {a - b : a, b \in Days} : Drag(n)
  \/ Release

PreviewNext == KeyStep \/ MouseStep \/ StartOther \/ FireTimer \/ Finished \/ Answered

PreviewSpec == PreviewInit /\ [][PreviewNext]_vars

\* Timers fire and work ends; the user owes nothing
PreviewFair == WF_vars(FireTimer) /\ WF_vars(Finished)

-----------------------------------------------------------------------------
(***************************************************************************)
(* Properties.                                                             *)
(***************************************************************************)
\* Whatever the user nudged, dragged, cancelled or left, an item that nothing
\* previews or saves any more shows the dates it was last given or put back to,
\* and they are the ones stored.  Exempt is an item that two owners had at once,
\* that changed while a clone was away, or whose nudge was replaced by another's.
PreviewsSettle ==
  \A i \in Ids \ stray : Quiet(i) => live[i] = server[i] /\ live[i] = want[i]

\* No chain of nudges, resizes and restores turns a bar around: the edges are
\* moved one by one against dates remembered at the first key press or at the
\* press of the button.
StartBeforeTarget ==
  \A i \in Ids \ stray : Had(live[i]) = Sides => live[i].s <= live[i].t

\* A nudge is saved or given up once the keys rest, unless its timer found
\* other work under way or a clone older than its end brought it back.
NudgeEnds == (nudge # None) ~> (nudge = None \/ missed)
=============================================================================
