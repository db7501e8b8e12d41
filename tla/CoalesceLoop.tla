----------------------------- MODULE CoalesceLoop -----------------------------
(***************************************************************************)
(* The loop of coalesce_superseded_date_saves, one turn at a time, from    *)
(* every queue of up to MaxSaves edits of a few items, against what its    *)
(* comment says it leaves: the latest save of each item, with the most     *)
(* recent Shift-drag children.                                             *)
(***************************************************************************)
EXTENDS SaveQueue, FiniteSets

CONSTANTS
  Child,    \* the descendant a Shift-drag carries
  MaxSaves  \* bound: saves in the queue

ASSUME LoopAssumption == MaxSaves \in Nat /\ 0..MaxSaves \subseteq Dates /\ Child \in Ids

VARIABLES
  given,  \* the queue before the loop
  queue,  \* the queue
  index   \* the position the loop looks at (from 1)

loopVars == <<given, queue, index>>

\* The nth edit: each gives its item new dates, and a Shift-drag its child too
EditAt(n, i, shift) ==
  [id |-> i, after |-> n, prev |-> n - 1, role |-> "Commit",
   kids |-> IF shift THEN <<[id |-> Child, after |-> n, prev |-> n - 1]>> ELSE << >>]

Queues ==
  UNION {{[n \in 1..len |-> EditAt(n, who[n], shift[n])] :
            who \in [1..len -> Ids], shift \in [1..len -> BOOLEAN]} : len \in 0..MaxSaves}

LoopInit == given \in Queues /\ queue = given /\ index = 1

Keep ==
  /\ NextSame(queue, index) = 0
  /\ index' = index + 1
  /\ UNCHANGED <<given, queue>>

\* Mutant of Supersede: the save that moved up to this position is skipped
SupersedeSkipping ==
  /\ NextSame(queue, index) # 0
  /\ queue' = CoalesceAt(queue, index)
  /\ index' = index + 1
  /\ UNCHANGED given

Supersede ==
  /\ NextSame(queue, index) # 0
  /\ queue' = CoalesceAt(queue, index)
  /\ UNCHANGED <<given, index>>

LoopNext == index <= Len(queue) /\ (Keep \/ Supersede)

LoopSpec == LoopInit /\ [][LoopNext]_loopVars

-----------------------------------------------------------------------------
\* The children of the most recent Shift-drag of q[n]'s item up to n
LatestKids(q, n) ==
  LET shift == SelectLastInSubSeq(q, 1, n, LAMBDA s : s.id = q[n].id /\ s.kids # << >>)
  IN  IF shift = 0 THEN << >> ELSE q[shift].kids

\* r is what queue q amounts to: per item its latest save, in the order of q, with
\* the item's latest children
Thinned(r, q) ==
  LET latest == {n \in DOMAIN q : NextSame(q, n) = 0}
  IN  \E at \in [DOMAIN r -> latest] :
        /\ \A k, l \in DOMAIN r : k < l => at[k] < at[l]
        /\ \A n \in latest : \E k \in DOMAIN r : at[k] = n
        /\ \A k \in DOMAIN r : r[k] = [q[at[k]] EXCEPT !.kids = LatestKids(q, at[k])]

\* The loop ends with the thinned queue, which is also what Coalesce of
\* module SaveQueue, used by DateSaves, computes.
EndsThinned ==
  index > Len(queue) => Thinned(queue, given) /\ queue = Coalesce(given)
=============================================================================
