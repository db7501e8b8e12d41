-------------------------------- MODULE MCUnits --------------------------------
(***************************************************************************)
(* Six machines that share nothing and are small enough for one run: one  *)
(* of them runs, the others rest.  RevRetry and RelationIndex are the      *)
(* client's operations that retry, HierarchyLoad is its load in batches,   *)
(* DateLane is the promise of the date saves, and CoalesceLoop and Walks   *)
(* are algorithms on the state.                                            *)
(***************************************************************************)
EXTENDS RevRetry, RelationIndex, HierarchyLoad, DateLane, CoalesceLoop, Walks

CONSTANTS date1, date2, date3, item1, item2

MCIds   == {date1, date2}
MCDates == 0..MaxSaves
MCLaneDates == {date1, date2, date3}
MCItems == {item1, item2}
MCNodes == 1..4
MCSpans == {[from |-> 1, to |-> 4], [from |-> 2, to |-> 3]}

\* An Epic-like item with a child, a grandchild and another child; the middle
\* ones are of any type and in the team's areas or not
MCWorkIds == 1..4
MCItem(k, p, d, a) == [kind |-> k, parent |-> p, preds |-> d, at |-> a]
MCStocks ==
  {<<MCItem("A", 0, {}, "area"), MCItem(k2, 1, {}, a2), MCItem(k3, 2, {1}, a3), MCItem("B", 1, {}, "area")>> :
     k2 \in Kinds, k3 \in Kinds, a2 \in {"area", "elsewhere"}, a3 \in {"area", "elsewhere"}}

VARIABLE unit

unitVars == <<unit, vars, relVars, loadVars, laneVars, loopVars, walkVars>>

RetryRests == Init

RelRests ==
  /\ relations = << >> /\ relRev = 1 /\ relWire = {} /\ relReply = "none"
  /\ changes = 0 /\ change = Resting /\ foreign = 0

LoadRests ==
  /\ stock = [i \in WorkIds |-> MCItem("A", 0, {}, "area")] /\ team = {}
  /\ load = Starting /\ touched = {} /\ unread = {} /\ moves = 0 /\ lapses = 0

LaneRests ==
  /\ live = date1 /\ stored = live
  /\ flight = NoDates /\ queued = NoDates /\ held = FALSE /\ stray = FALSE

LoopRests == given = << >> /\ queue = given /\ index = 1

WalksRest ==
  /\ input = Input("related", NoParents, NoPreds, NoSpans, 1, {}, {})
  /\ todo = << >> /\ at = 0 /\ seen = {} /\ found = {1} /\ done = TRUE

UnitsInit ==
  \/ unit = "retry"     /\ Init /\ RelRests /\ LoadRests /\ LaneRests /\ LoopRests /\ WalksRest
  \/ unit = "relations" /\ RetryRests /\ RelInit /\ LoadRests /\ LaneRests /\ LoopRests /\ WalksRest
  \/ unit = "load"      /\ RetryRests /\ RelRests /\ LoadInit /\ LaneRests /\ LoopRests /\ WalksRest
  \/ unit = "lane"      /\ RetryRests /\ RelRests /\ LoadRests /\ LaneInit /\ LoopRests /\ WalksRest
  \/ unit = "loop"      /\ RetryRests /\ RelRests /\ LoadRests /\ LaneRests /\ LoopInit /\ WalksRest
  \/ unit = "walks"     /\ RetryRests /\ RelRests /\ LoadRests /\ LaneRests /\ LoopRests /\ WalkInit

UnitsNext ==
  /\ UNCHANGED unit
  /\ \/ unit = "retry"     /\ Next     /\ UNCHANGED <<relVars, loadVars, laneVars, loopVars, walkVars>>
     \/ unit = "relations" /\ RelNext  /\ UNCHANGED <<vars, loadVars, laneVars, loopVars, walkVars>>
     \/ unit = "load"      /\ LoadNext /\ UNCHANGED <<vars, relVars, laneVars, loopVars, walkVars>>
     \/ unit = "lane"      /\ LaneNext /\ UNCHANGED <<vars, relVars, loadVars, loopVars, walkVars>>
     \/ unit = "loop"      /\ LoopNext /\ UNCHANGED <<vars, relVars, loadVars, laneVars, walkVars>>
     \/ unit = "walks"     /\ WalkNext /\ UNCHANGED <<vars, relVars, loadVars, laneVars, loopVars>>

\* A walk goes on until it is done; the other machines owe nothing
UnitsSpec == UnitsInit /\ [][UnitsNext]_unitVars /\ WF_unitVars(unit = "walks" /\ UnitsNext)
=============================================================================
