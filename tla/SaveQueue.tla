------------------------------ MODULE SaveQueue ------------------------------
(***************************************************************************)
(* The queue of date saves of crates/app/src/state.rs: what a pending save *)
(* is, and how coalesce_superseded_date_saves thins the queue before the   *)
(* UI drains it.                                                           *)
(*                                                                         *)
(* A bar is abstracted to one date: Start and Target always travel         *)
(* together through this code, which only ever compares or assigns the     *)
(* pair.  The save's `rev` is left out: drain_date_saves overwrites it with *)
(* the live one just before the PATCH (module RevRetry models revisions).  *)
(***************************************************************************)
EXTENDS Naturals, Sequences, SequencesExt

CONSTANTS
  Ids,    \* Work Items
  Dates   \* the dates a bar can have

Roles == {"Commit", "Undo", "Redo", "Restore", "Cascade"}

\* A descendant carried by a Shift-drag: the dates it was given, and the dates
\* its node had before.  Its role is always Cascade and its own cascade empty.
Kid == [id : Ids, after : Dates, prev : Dates]

\* PendingDateSave: `prev` is the node to go back to when the PATCH fails.
Save == [id : Ids, after : Dates, prev : Dates, role : Roles, kids : Seq(Kid)]

AsCascade(kid) == [id |-> kid.id, after |-> kid.after, prev |-> kid.prev,
                   role |-> "Cascade", kids |-> << >>]

\* adopt_cascade_from_superseded
Adopt(later, dropped) ==
  IF later.kids = << >> THEN [later EXCEPT !.kids = dropped.kids] ELSE later

\* The nearest position after i that holds a save of the same item, or 0.
NextSame(q, i) == SelectInSubSeq(q, i + 1, Len(q), LAMBDA s : s.id = q[i].id)

\* One turn of the loop at position i: a superseded save is removed and its
\* cascade parked on the nearest later save of that item.
CoalesceAt(q, i) ==
  RemoveAt([q EXCEPT ![NextSame(q, i)] = Adopt(@, q[i])], i)

\* One turn of the loop of coalesce_superseded_date_saves: the index only moves
\* past a save that no later save of the queue supersedes.
CoalesceTurn(loop, turn) ==
  IF NextSame(loop.q, loop.index) = 0
    THEN [loop EXCEPT !.index = @ + 1]
    ELSE [loop EXCEPT !.q = CoalesceAt(@, loop.index)]

\* Mutant of Coalesce: superseded saves stay in the queue
CoalesceNothing(queue) == queue

\* coalesce_superseded_date_saves.  A turn moves the index on or takes a save out,
\* so the loop makes one turn per save of the queue it is given.
Coalesce(queue) == FoldLeft(CoalesceTurn, [q |-> queue, index |-> 1], queue).q
=============================================================================
