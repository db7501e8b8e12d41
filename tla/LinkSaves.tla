------------------------------ MODULE LinkSaves ------------------------------
(***************************************************************************)
(* Dependencies between Work Items and the gate they are saved through.    *)
(*                                                                         *)
(* A link drawn in the Gantt shows at once.  Its PATCH, like every other   *)
(* job but date saves, runs on a clone of the whole planner state, one job *)
(* at a time (io_busy): links drawn meanwhile wait in link_save_queue, a   *)
(* toast's Undo in pending_toast_undo, anything else is refused.  When the *)
(* job ends its clone becomes the state (adopt_spawned), except after a    *)
(* toast's Undo, which only merges the items it changed.  Each action is   *)
(* one turn of the UI thread, crates/app/src/ui.rs.                        *)
(***************************************************************************)
EXTENDS Integers, Sequences, SequencesExt

CONSTANTS
  Links,      \* pairs <<successor, predecessor>>
  None,
  MaxEdits,   \* bound: user actions in a behaviour
  MaxFaults   \* bound: requests that fail or lose their answer

Entry == [link : Links, linked : BOOLEAN]
Action ==
  [kind : {"RemoveLink", "RestoreLink"}, link : Links]
  \cup [kind : {"StackUndo", "StackRedo"}, link : {None}]
Planner == [links : SUBSET Links, undo : Seq(Entry), redo : Seq(Entry),
            toast : {None} \cup Action]
\* A job of the background thread, with the clone it works on
Job == [kind : {"persist", "remove", "undo", "redo", "RemoveLink", "RestoreLink", "load"},
        link : Links \cup {None}, clone : Planner]

ASSUME LinksAssumption ==
  /\ None \notin Links \cup Action /\ None \notin Job
  /\ MaxEdits \in Nat /\ MaxFaults \in Nat

VARIABLES
  state,    \* PlannerState: predecessors, history, the one success toast
  io,       \* the job running on a clone of it (io_busy), or None
  queue,    \* link_save_queue
  waiting,  \* pending_toast_undo, or None
  server,   \* the links Azure DevOps holds
  stray,    \* links whose last request failed
  unsaved,  \* links dequeued by an Undo (see Dequeue)
  edits, faults

vars == <<state, io, queue, waiting, server, stray, unsaved, edits, faults>>

StackUndo == [kind |-> "StackUndo", link |-> None]
StackRedo == [kind |-> "StackRedo", link |-> None]

\* What the toast of an added, and of a removed, link offers
RemoveLink(l)  == [kind |-> "RemoveLink", link |-> l]
RestoreLink(l) == [kind |-> "RestoreLink", link |-> l]

-----------------------------------------------------------------------------
(***************************************************************************)
(* What the jobs do to their clone s.  `ok`: the request, if the job needs *)
(* one, was accepted.                                                      *)
(***************************************************************************)
Recorded(s, e) == [s EXCEPT !.undo = Append(@, e), !.redo = << >>]

\* persist_added_dependency: a failed one is taken back with its undo entry
Persist(s, l, ok) ==
  IF ok THEN s
  ELSE [links |-> s.links \ {l},
        undo  |-> IF s.undo # << >> /\ Last(s.undo) = [link |-> l, linked |-> TRUE]
                    THEN Front(s.undo) ELSE s.undo,
        redo  |-> s.redo,
        toast |-> IF s.toast = RemoveLink(l) THEN None ELSE s.toast]

\* add_dependency with history_recording off
AddBack(s, l, ok) ==
  IF l \in s.links THEN s ELSE Persist([s EXCEPT !.links = @ \cup {l}], l, ok)

\* remove_dependency with history_recording off
TakeAway(s, l, ok) == IF ok THEN [s EXCEPT !.links = @ \ {l}] ELSE s

\* remove_dependency of the selected arrow
RemoveArrow(s, l, ok) ==
  IF l \in s.links /\ ok
    THEN [Recorded(TakeAway(s, l, ok), [link |-> l, linked |-> FALSE])
            EXCEPT !.toast = RestoreLink(l)]
    ELSE s

\* PlannerState::undo
Undone(s, ok) ==
  LET e  == Last(s.undo)
      s0 == [s EXCEPT !.undo = Front(@)]
      s1 == IF e.linked THEN TakeAway(s0, e.link, ok) ELSE AddBack(s0, e.link, ok)
  IN  IF ok THEN [s1 EXCEPT !.redo = Append(@, e), !.toast = StackRedo]
            ELSE [s1 EXCEPT !.undo = Append(@, e)]

\* PlannerState::redo; its toast offers Undo only of what was there before
Redone(s, ok) ==
  LET e  == Last(s.redo)
      s0 == [s EXCEPT !.redo = Front(@)]
      s1 == IF e.linked THEN AddBack(s0, e.link, ok) ELSE TakeAway(s0, e.link, ok)
  IN  IF ok THEN [s1 EXCEPT !.undo  = Append(@, e),
                            !.toast = IF s1.undo # << >> THEN StackUndo ELSE None]
            ELSE [s1 EXCEPT !.redo = Append(@, e)]

\* The link a job is about, and whether it adds it
JobLink(j) ==
  CASE j.kind = "undo" -> Last(j.clone.undo).link
    [] j.kind = "redo" -> Last(j.clone.redo).link
    [] OTHER           -> j.link

JobAdds(j) ==
  CASE j.kind = "undo" -> ~Last(j.clone.undo).linked
    [] j.kind = "redo" -> Last(j.clone.redo).linked
    [] OTHER           -> j.kind \in {"persist", "RestoreLink"}

\* A persist always sends; the others find nothing to do on some clones
JobSends(j) ==
  /\ j.kind # "load"
  /\ j.kind # "persist" => (JobAdds(j) <=> JobLink(j) \notin j.clone.links)

JobDone(j, ok) ==
  LET s == j.clone
  IN  CASE j.kind = "persist"     -> Persist(s, j.link, ok)
        [] j.kind = "remove"      -> RemoveArrow(s, j.link, ok)
        [] j.kind = "undo"        -> Undone(s, ok)
        [] j.kind = "redo"        -> Redone(s, ok)
        [] j.kind = "RemoveLink"  -> TakeAway(s, j.link, ok)
        [] j.kind = "RestoreLink" -> AddBack(s, j.link, ok)
        [] j.kind = "load"        -> IF ok THEN [s EXCEPT !.links = server] ELSE s

-----------------------------------------------------------------------------
(***************************************************************************)
(* What a turn of the UI thread does to its view v, call by call.          *)
(***************************************************************************)
View == [state |-> state, io |-> io, queue |-> queue, waiting |-> waiting,
         unsaved |-> unsaved]

Becomes(view) ==
  \E v \in {view} :
    /\ state' = v.state     /\ io' = v.io           /\ queue' = v.queue
    /\ waiting' = v.waiting /\ unsaved' = v.unsaved

\* spawn_state, spawn_toast_undo: refused while a job runs
Start(v, kind, l) ==
  IF v.io # None THEN v
  ELSE [v EXCEPT !.io = [kind |-> kind, link |-> l, clone |-> v.state]]

\* restore_optimistic_link with ensure_link_undo
Restore(s, l) ==
  LET e == [link |-> l, linked |-> TRUE]
      shown == [s EXCEPT !.links = @ \cup {l}]
  IN  IF \E n \in DOMAIN s.undo : s.undo[n] = e THEN shown
      ELSE [Recorded(shown, e) EXCEPT !.toast = RemoveLink(l)]

\* restore_queued_links
RestoreQueued(v) == [v EXCEPT !.state = FoldLeft(Restore, @, v.queue)]

\* Mutant of DrainLinks: the running job is not waited for
DrainLinksBusyOrNot(v) ==
  IF v.queue = << >> THEN v
  ELSE LET l == Head(v.queue)
       IN  Start([v EXCEPT !.queue = Tail(@), !.state = Restore(@, l)], "persist", l)

\* drain_link_saves
DrainLinks(v) ==
  IF v.io # None \/ v.queue = << >> THEN v
  ELSE LET l == Head(v.queue)
       IN  Start([v EXCEPT !.queue = Tail(@), !.state = Restore(@, l)], "persist", l)

\* Mutant of Dequeue: an Undo leaves the save of its link queued
DequeueNothing(v, l) ==
  [v EXCEPT !.unsaved = IF Contains(v.queue, l) THEN @ \cup {l} ELSE @]

\* dequeue_link_save by an Undo; the queue holds a link once (Link).  If the Undo
\* is refused or finds a clone that still shows the link, nothing saves or removes
\* the link any more: `unsaved`.
Dequeue(v, l) ==
  [v EXCEPT !.queue   = RemoveFirst(@, l),
            !.unsaved = IF Contains(v.queue, l) THEN @ \cup {l} ELSE @]

\* undo_last, once the entry is known not to be of dates
UndoLast(v) ==
  IF v.state.undo = << >> THEN v
  ELSE LET e == Last(v.state.undo)
       IN  Start(IF e.linked THEN Dequeue(v, e.link) ELSE v, "undo", None)

RedoLast(v) == IF v.state.redo = << >> THEN v ELSE Start(v, "redo", None)

IsToastUndo(j) == j.kind \in {"RemoveLink", "RestoreLink"}

\* apply_toast_undo_with
ApplyToastUndo(v, a) ==
  LET w == IF a.kind = "RemoveLink" THEN Dequeue(v, a.link) ELSE v
  IN  CASE v.io # None /\ IsToastUndo(v.io) -> v
        [] v.io # None /\ ~IsToastUndo(v.io) -> [w EXCEPT !.waiting = a]
        [] v.io = None /\ a = StackUndo -> UndoLast(v)
        [] v.io = None /\ a = StackRedo -> RedoLast(v)
        [] OTHER -> Start(w, a.kind, a.link)

\* replay_pending_toast_undo
Replay(v) ==
  IF v.waiting = None THEN v ELSE ApplyToastUndo([v EXCEPT !.waiting = None], v.waiting)

-----------------------------------------------------------------------------
UserActs == edits < MaxEdits /\ edits' = edits + 1

\* An arrow is drawn: apply_link_now, enqueue_link_save
Link(l) ==
  LET s == [Recorded(state, [link |-> l, linked |-> TRUE])
              EXCEPT !.links = @ \cup {l}, !.toast = RemoveLink(l)]
  IN  /\ UserActs
      /\ l \notin state.links
      /\ Becomes(DrainLinks([View EXCEPT !.state = s,
           !.queue = IF Contains(@, l) THEN @ ELSE Append(@, l)]))
      /\ UNCHANGED <<server, stray, faults>>

\* Delete on the selected arrow: remove_link
Unlink(l) ==
  /\ UserActs
  /\ l \in state.links /\ io = None
  /\ Becomes(Start(View, "remove", l))
  /\ UNCHANGED <<server, stray, faults>>

\* Ctrl+Z and Ctrl+Y
UndoKey ==
  /\ UserActs
  /\ state.undo # << >>
  /\ Becomes(UndoLast(View))
  /\ UNCHANGED <<server, stray, faults>>

RedoKey ==
  /\ UserActs
  /\ state.redo # << >> /\ io = None
  /\ Becomes(RedoLast(View))
  /\ UNCHANGED <<server, stray, faults>>

\* The button of the toast: apply_toast_undo
ToastUndo ==
  /\ UserActs
  /\ state.toast # None
  /\ Becomes(ApplyToastUndo(View, state.toast))
  /\ UNCHANGED <<server, stray, faults>>

ToastGone ==
  /\ state.toast # None
  /\ state' = [state EXCEPT !.toast = None]
  /\ UNCHANGED <<io, queue, waiting, server, stray, unsaved, edits, faults>>

\* Any other background work of spawn_io; this one reloads the rows
Load ==
  /\ UserActs
  /\ io = None
  /\ Becomes(Start(View, "load", None))
  /\ UNCHANGED <<server, stray, faults>>

-----------------------------------------------------------------------------
\* Azure DevOps takes a change that is one
Accepts(j) == JobAdds(j) <=> JobLink(j) \notin server

Sent(j) == IF JobAdds(j) THEN server \cup {JobLink(j)} ELSE server \ {JobLink(j)}

\* The request of the running job: accepted, refused, failed, or accepted and
\* its answer lost.
Request(ok) ==
  LET sends   == JobSends(io)
      refused == sends /\ ~Accepts(io)
      faulty  == ~ok /\ ~refused
  IN  /\ ok => ~refused
      /\ faulty => faults < MaxFaults /\ (sends \/ io.kind = "load")
      /\ faults' = IF faulty THEN faults + 1 ELSE faults
      /\ server' \in CASE ~sends \/ refused -> {server}
                       [] sends /\ ok        -> {Sent(io)}
                       [] OTHER              -> {server, Sent(io)}
      /\ stray' = CASE io.kind = "load" /\ ok -> {}
                    [] sends /\ ok            -> stray \ {JobLink(io)}
                    [] sends /\ ~ok           -> stray \cup {JobLink(io)}
                    [] OTHER                  -> stray

\* The link an Undo dequeued is settled when it is gone, or saved after all
Settle(v, sent) == [v EXCEPT !.unsaved = @ \cap (v.state.links \ sent)]

\* Mutant of FinishIo: the queued links are not put back on the adopted clone
FinishIoForgetting(ok) ==
  /\ io # None /\ ~IsToastUndo(io)
  /\ Request(ok)
  /\ Becomes(DrainLinks(Replay([View EXCEPT !.io = None, !.state = JobDone(io, ok)])))
  /\ UNCHANGED edits

\* The end of a job of spawn_io
FinishIo(ok) ==
  /\ io # None /\ ~IsToastUndo(io)
  /\ Request(ok)
  /\ Becomes(DrainLinks(Replay(RestoreQueued(
       [Settle([View EXCEPT !.state = JobDone(io, ok)], server')
          EXCEPT !.io = None]))))
  /\ UNCHANGED edits

\* merge_undo_action: the predecessors of both items come from the clone, the
\* newest entry of the link moves to the redo stack
Merged(s, done, l) ==
  LET own == {x \in Links : x[1] \in {l[1], l[2]}}
      n   == SelectLastInSeq(s.undo, LAMBDA e : e.link = l)
      s1  == [s EXCEPT !.links = (@ \ own) \cup (done.links \cap own)]
      s2  == IF n = 0 THEN s1
             ELSE [s1 EXCEPT !.undo = RemoveAt(@, n), !.redo = Append(@, s.undo[n])]
  IN  [s2 EXCEPT !.toast = IF s2.redo # << >> THEN StackRedo ELSE None]

\* The end of spawn_toast_undo, which neither restores nor drains the queue
FinishToastUndo(ok) ==
  /\ io # None /\ IsToastUndo(io)
  /\ Request(ok)
  /\ Becomes(Replay([Settle([View EXCEPT
       !.state = IF ok THEN Merged(state, JobDone(io, ok), io.link) ELSE state], server')
          EXCEPT !.io = None]))
  /\ UNCHANGED edits

Finish(ok) == FinishIo(ok) \/ FinishToastUndo(ok)

\* apply_hierarchy has loaded the rows
Init ==
  /\ server \in SUBSET Links
  /\ state = [links |-> server, undo |-> << >>, redo |-> << >>, toast |-> None]
  /\ io = None /\ queue = << >> /\ waiting = None
  /\ stray = {} /\ unsaved = {} /\ edits = 0 /\ faults = 0

UserStep ==
  \/ \E l \in Links : Link(l) \/ Unlink(l)
  \/ UndoKey \/ RedoKey \/ ToastUndo \/ ToastGone \/ Load

Next == UserStep \/ \E ok \in BOOLEAN : Finish(ok)

Spec == Init /\ [][Next]_vars

-----------------------------------------------------------------------------
(***************************************************************************)
(* Properties.                                                             *)
(***************************************************************************)
\* Adopting clones taken at any time, undos and reloads included, the rows show
\* the links Azure DevOps holds once nothing is left to do, but for links whose
\* request failed or whose save an Undo took away without effect.
LinksAgree ==
  io = None /\ queue = << >> =>
    \A l \in Links \ (stray \cup unsaved) : l \in state.links <=> l \in server

\* A test of enqueue_link_save says of a link drawn during background work
\* "io_busy must queue the persist instead of dropping it": a queued link waits
\* for a running job only, since the end of that job saves it.
NoStrandedLink == queue # << >> => io # None

\* A test of adopt_spawned says it "must not wipe the queued link": when a job
\* that adopts its clone ends, each link that still has a save to come is shown
\* and can be undone, though the clone may be older than the link.
QueuedShown ==
  [][(\E ok \in BOOLEAN : FinishIo(ok)) =>
       \A l \in Links :
         Contains(queue', l) \/ (io' # None /\ io'.kind = "persist" /\ io'.link = l)
           => /\ l \in state'.links
              /\ Contains(state'.undo, [link |-> l, linked |-> TRUE])]_vars

\* A test says "Undo of a queued link must not PATCH it after I/O frees": a save
\* that an Undo dequeued is never sent, whatever ran or was adopted meanwhile.
UndoneNotSaved == io # None /\ io.kind = "persist" => io.link \notin unsaved
=============================================================================
