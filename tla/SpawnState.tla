------------------------------ MODULE SpawnState ------------------------------
(***************************************************************************)
(* Date edits beside the other background work of the planner:             *)
(* crates/app/src/ui.rs spawn_io (spawn_state, spawn_load) and state.rs    *)
(* adopt_spawned.  Opening the details of an item, saving a title, a link  *)
(* or the form run on a clone of the whole planner state while the user    *)
(* keeps working; the clone then replaces the live state.  The save queue, *)
(* date_save_busy and the PATCHes in flight belong to the view, so they    *)
(* survive; nodes, history, toasts and shifted_children are the clone's.   *)
(*                                                                         *)
(* The work modelled here is any that changes no dates.                    *)
(***************************************************************************)
EXTENDS DateSaves

VARIABLES
  io,          \* the clone that work runs on while io_busy, or None
  wanted,      \* the dates each item last moved to by an edit or a rollback
  overwritten  \* items whose dates an adopted clone has replaced

spawnVars == <<io, wanted, overwritten>>
allVars   == <<vars, spawnVars>>

Clone == [live |-> live, shifted |-> shifted, undo |-> undo, redo |-> redo, toast |-> toast]

\* spawn_io, refused while io_busy
StartIo ==
  /\ io = None
  /\ edits < MaxEdits
  /\ edits' = edits + 1
  /\ io' = Clone
  /\ UNCHANGED <<pipeline, history, toast, server, marks, faults, wanted, overwritten>>

\* Mutant of FinishIo: the saves under way belong to the replaced state
FinishIoForgettingSaves ==
  /\ io # None
  /\ io' = None
  /\ live' = io.live /\ shifted' = io.shifted
  /\ undo' = io.undo /\ redo' = io.redo /\ toast' = io.toast
  /\ queue' = << >> /\ busy' = {} /\ flight' = {}
  /\ overwritten' = overwritten \cup {i \in Ids : live[i] # io.live[i]}
  /\ UNCHANGED <<server, marks, edits, faults, wanted>>

\* The work ends: adopt_spawned.  It drains no date saves.
FinishIo ==
  /\ io # None
  /\ io' = None
  /\ live' = io.live /\ shifted' = io.shifted
  /\ undo' = io.undo /\ redo' = io.redo /\ toast' = io.toast
  /\ overwritten' = overwritten \cup {i \in Ids : live[i] # io.live[i]}
  /\ UNCHANGED <<queue, busy, flight, server, marks, edits, faults, wanted>>

\* Everything DateSaves does goes on meanwhile
PlannerStep ==
  /\ Next
  /\ wanted' = [i \in Ids |-> IF live'[i] # live[i] THEN live'[i] ELSE wanted[i]]
  /\ UNCHANGED <<io, overwritten>>

SpawnInit == Init /\ io = None /\ wanted = live /\ overwritten = {}

SpawnNext == StartIo \/ FinishIo \/ PlannerStep

SpawnSpec == SpawnInit /\ [][SpawnNext]_allVars

\* Every request ends (DateSaves); the user, and the end of the other work, owe
\* nothing
SpawnFairSpec == SpawnSpec /\ Answers

-----------------------------------------------------------------------------
\* Adopting a clone never disturbs an item that was not edited while the work
\* ran: once settled it shows what the server holds, although history, toasts
\* and stashes of the whole planner went back in time.
UntouchedAgree ==
  \A i \in Ids \ (failed \cup orphaned \cup overwritten) : Settled(i) => live[i] = server[i]

\* The PATCHes that enter flight in a step
Entering == {f \in flight' : f \notin flight}

\* The comment on follow_up_date_save says that a PATCH follows up because "a
\* later local edit landed while this persist was in flight": the dates it
\* sends are the last ones the item was given.
FollowUpSendsLatestEdit ==
  [][\A f \in flight : SaveOk(f) =>
       \A h \in Entering : h.save.id = f.save.id => h.save.after = wanted[h.save.id]]_allVars
=============================================================================
