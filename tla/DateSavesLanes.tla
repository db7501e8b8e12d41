---------------------------- MODULE DateSavesLanes ----------------------------
(***************************************************************************)
(* DateSaves implements one DateLane per Work Item: whatever the saves of  *)
(* other items, cascades, undo groups and dropped shifts do in a turn, each *)
(* item sees one step of its lane.                                         *)
(***************************************************************************)
EXTENDS DateSaves

\* descendant_ids walks the children of children: on a cycle of parents it would
\* not end, so no list it returns holds the item it was asked about; and a node has
\* one parent, so it lists no item twice.
ASSUME LanesAssumption ==
  /\ None \notin Dates
  /\ \A i \in Ids : i \notin Range(Kids[i]) /\ IsInjective(Kids[i])

FlightOf(i) ==
  IF \E f \in flight : f.save.id = i
    THEN (CHOOSE f \in flight : f.save.id = i).save.after ELSE None

QueuedOf(i) ==
  IF \E n \in DOMAIN queue : queue[n].id = i
    THEN queue[SelectLastInSeq(queue, LAMBDA s : s.id = i)].after ELSE None

Lane(i) == INSTANCE DateLane WITH
  LaneDates <- Dates,     NoDates <- None,
  live   <- live[i],      stored <- server[i],
  flight <- FlightOf(i),  queued <- QueuedOf(i),
  held   <- Held(i),      stray  <- i \in failed \cup orphaned

\* Every Work Item behaves as its lane: Lane(i)!LaneSpec for every i, in the form
\* TLC evaluates.  It is about drain_date_saves and spawn_one_date_save, with
\* the cascades, follow-ups and rollbacks they start.
ImplementsLanes ==
  /\ \A i \in Ids : Lane(i)!LaneInit
  /\ [][\A i \in Ids : [Lane(i)!LaneNext]_(Lane(i)!laneVars)]_vars
=============================================================================
