------------------------------- MODULE DateLane -------------------------------
(***************************************************************************)
(* What the date-save pipeline promises for one Work Item, without queues, *)
(* histories, cascades or roles: at most one PATCH in flight, at most one  *)
(* save waiting behind it, and dates that agree with the server once       *)
(* nothing is left to do.  DateSaves implements one lane per Work Item     *)
(* (DateSavesLanes; proved in DateSavesProofs), and LaneAgrees holds for   *)
(* any dates (UnitsProofs).                                                *)
(***************************************************************************)
CONSTANTS LaneDates, NoDates

ASSUME LaneAssumption == NoDates \notin LaneDates

VARIABLES
  live,    \* the dates shown
  stored,  \* the dates stored
  flight,  \* the dates of the PATCH in flight, or NoDates
  queued,  \* the dates of the save behind it, or NoDates
  held,    \* a Shift-drag not yet answered owns the dates shown
  stray    \* the last save failed, or the shift that owned the item was abandoned

laneVars == <<live, stored, flight, queued, held, stray>>

\* Every variable of a lane keeps its type; in particular no rollback or late
\* answer brings a date that was never given.
LaneTypes ==
  /\ live \in LaneDates /\ stored \in LaneDates
  /\ flight \in LaneDates \cup {NoDates} /\ queued \in LaneDates \cup {NoDates}
  /\ held \in BOOLEAN /\ stray \in BOOLEAN

LaneInit ==
  /\ live \in LaneDates /\ stored = live
  /\ flight = NoDates /\ queued = NoDates /\ held = FALSE /\ stray = FALSE

\* An edit, or the cascade of a parent that was saved, sets the dates and
\* sends them: now, or behind the PATCH in flight in place of an older save.  An
\* undo entry that lists the item twice sends them now and queues them again.
Submit(d) ==
  /\ live' = d
  /\ IF flight = NoDates THEN flight' = d /\ queued' \in {NoDates, d}
                      ELSE flight' = flight /\ queued' = d
  /\ held' \in BOOLEAN
  /\ UNCHANGED <<stored, stray>>

\* The item moves with a Shift-drag of an ancestor, which will send it.
Hold(d) ==
  /\ live' = d /\ held' = TRUE
  /\ UNCHANGED <<stored, flight, queued, stray>>

\* The shift ends: it goes back to dates d, or is abandoned where it is.  Its save
\* may already wait behind the PATCH in flight: the parent's answer queued it, and
\* a stale second shift of the parent, dropped in the same turn, took it back.
LetGo(d) ==
  /\ held
  /\ live' = d
  /\ held' \in BOOLEAN /\ stray' \in BOOLEAN
  /\ stray => stray'
  /\ flight = NoDates /\ ~held' => stray'
  /\ queued' = queued \/ (flight # NoDates /\ queued' = live)
  /\ UNCHANGED <<stored, flight>>

\* Mutant of LaneOk: dates edited meanwhile are not sent
LaneOkWithoutFollowUp ==
  /\ flight # NoDates
  /\ stored' = flight
  /\ flight' = IF queued = live /\ live = flight THEN live ELSE NoDates
  /\ queued' = NoDates
  /\ stray' = FALSE
  /\ UNCHANGED <<live, held>>

\* The PATCH was accepted: dates edited meanwhile are sent next.
LaneOk ==
  /\ flight # NoDates
  /\ stored' = flight
  /\ flight' = IF live # flight \/ queued = live THEN live ELSE NoDates
  /\ queued' = NoDates
  /\ stray' = FALSE
  /\ UNCHANGED <<live, held>>

\* The PATCH failed, though the server may have applied it: dates still shown
\* are rolled back, dates edited meanwhile stay, and a save of what is then
\* shown is sent next.
LaneErr(d) ==
  /\ flight # NoDates
  /\ stored' \in {stored, flight}
  /\ live' = IF live = flight THEN d ELSE live
  /\ flight' = IF queued # NoDates /\ queued = live' THEN queued ELSE NoDates
  /\ queued' = NoDates
  /\ held' \in BOOLEAN
  /\ stray' = TRUE

LaneNext == LaneOk \/ \E d \in LaneDates : Submit(d) \/ Hold(d) \/ LetGo(d) \/ LaneErr(d)

LaneSpec == LaneInit /\ [][LaneNext]_laneVars

\* A save never waits without a PATCH ahead of it whose answer will send it.
LaneWaits == queued # NoDates => flight # NoDates

\* An item with nothing in flight that no shift owns shows what is stored,
\* unless its last save failed.
LaneAgrees == flight = NoDates /\ ~held /\ ~stray => live = stored
=============================================================================
