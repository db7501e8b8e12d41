----------------------------- MODULE RelationIndex -----------------------------
(***************************************************************************)
(* crates/ado-client/src/client.rs add_dependency and remove_dependency:   *)
(* the relations of a Work Item are a list, a dependency is removed at its *)
(* index in that list, and the index is read before the PATCH that tests   *)
(* the revision.  A 412 is answered by reading the revision only.          *)
(*                                                                         *)
(* One successor, called again and again while other users edit it.  As in *)
(* RevRetry, a request may land after the client gave up on it.            *)
(***************************************************************************)
EXTENDS Naturals, Sequences, SequencesExt

CONSTANTS
  Items,       \* what a relation may point at
  MaxChanges,  \* bound: calls of the client
  MaxForeign   \* bound: edits by other users

ASSUME RelationAssumption == MaxChanges \in Nat /\ MaxForeign \in Nat

VARIABLES
  relations,  \* the server's list
  relRev,     \* the server's revision
  changes,    \* calls so far
  change,     \* the call under way: where it is, what it does, the index it took from
              \* the list it read
  relWire,    \* its PATCHes, and those of calls given up, on their way
  relReply,   \* the answer to the PATCH it waits for, or "none"
  foreign     \* edits by other users

relServer == <<relations, relRev>>
relVars   == <<relServer, changes, change, relWire, relReply, foreign>>

\* Dependency-Reverse, and any other type of link
Rels     == {"predecessor", "other"}
Relation == [rel : Rels, to : Items]

Pred(i)  == [rel |-> "predecessor", to |-> i]
Resting  == [phase |-> "idle", op |-> "none", to |-> CHOOSE i \in Items : TRUE, index |-> 0, read |-> << >>]

-----------------------------------------------------------------------------
\* Where a list holds one of some relations, 0 for nowhere
Position(list, wanted) ==
  IF \E n \in DOMAIN list : list[n] \in wanted THEN CHOOSE n \in DOMAIN list : list[n] \in wanted
  ELSE 0

\* Mutant of IndexOf: the type of the link is not looked at
IndexOfAny(list, i) == Position(list, {[rel |-> kind, to |-> i] : kind \in Rels})

\* dependency_relation_index: a list holds a relation only once
IndexOf(list, i) == Position(list, {Pred(i)})

\* patch_work_item with the document of the call; `stale`, which is not sent:
\* whether the list changed since the index was read
Sent(c, rev) == relWire \cup {[op |-> c.op, to |-> c.to, index |-> c.index, rev |-> rev,
                               call |-> changes', stale |-> relations # c.read]}

\* add_dependency starts with a PATCH, at a revision the planner has seen
Link(i) ==
  /\ change.phase = "idle" /\ changes < MaxChanges
  /\ changes' = changes + 1
  /\ change' = [phase |-> "first", op |-> "add", to |-> i, index |-> 0, read |-> relations]
  /\ \E known \in 0..relRev : relWire' = Sent(change', known)
  /\ relReply' = "none"
  /\ UNCHANGED <<relServer, foreign>>

\* remove_dependency starts by reading the item with its relations; without
\* such a relation it answers an error
Unlink(i) ==
  /\ change.phase = "idle" /\ changes < MaxChanges
  /\ IndexOf(relations, i) # 0
  /\ changes' = changes + 1
  /\ change' = [phase |-> "first", op |-> "remove", to |-> i, index |-> IndexOf(relations, i),
                 read |-> relations]
  /\ relWire' = Sent(change', relRev)
  /\ relReply' = "none"
  /\ UNCHANGED <<relServer, foreign>>

\* It ends: with an answer, or without one, to a PATCH or to get_work_item_rev
Finish ==
  /\ change.phase # "idle"
  /\ change' = Resting /\ relReply' = "none"
  /\ UNCHANGED <<relServer, changes, relWire, foreign>>

\* A first 412: get_work_item_rev, and the document with the revision it read
Refetch ==
  /\ change.phase = "first" /\ relReply = "conflict"
  /\ change' = [change EXCEPT !.phase = "second"] /\ relReply' = "none"
  /\ UNCHANGED changes
  /\ relWire' = Sent(change', relRev)
  /\ UNCHANGED <<relServer, foreign>>

-----------------------------------------------------------------------------
(***************************************************************************)
(* Azure DevOps.                                                           *)
(***************************************************************************)
Replied(q, how) ==
  /\ relWire' = relWire \ {q}
  /\ relReply' = IF q.call = changes /\ change.phase # "idle" THEN how ELSE relReply
  /\ UNCHANGED <<changes, change, foreign>>

Adds(q) ==
  /\ q.op = "add" /\ q.rev = relRev /\ ~Contains(relations, Pred(q.to))
  /\ relations' = Append(relations, Pred(q.to)) /\ relRev' = relRev + 1
  /\ Replied(q, "ok")

Removes(q) ==
  /\ q.op = "remove" /\ q.rev = relRev /\ q.index \in DOMAIN relations
  /\ relations' = RemoveAt(relations, q.index) /\ relRev' = relRev + 1
  /\ Replied(q, "ok")

\* The test of /rev fails; or a relation is added twice, or removed where there is none
Fails(q) ==
  /\ UNCHANGED relServer
  /\ \/ q.rev # relRev /\ Replied(q, "conflict")
     \/ /\ q.rev = relRev
        /\ q.op = "add" => Contains(relations, Pred(q.to))
        /\ q.op = "remove" => q.index \notin DOMAIN relations
        /\ Replied(q, "refused")

\* Another user edits a field, or adds or removes a relation
OthersChange(list) ==
  /\ foreign < MaxForeign /\ foreign' = foreign + 1
  /\ relations' = list /\ relRev' = relRev + 1
  /\ UNCHANGED <<changes, change, relWire, relReply>>

ForeignLists ==
  {relations}
  \cup {RemoveAt(relations, n) : n \in DOMAIN relations}
  \cup {Append(relations, r) : r \in {x \in Relation : ~Contains(relations, x)}}

-----------------------------------------------------------------------------
RelInit ==
  /\ relations \in SetToAllKPermutations(Relation) /\ relRev = 1
  /\ changes = 0 /\ change = Resting /\ relWire = {} /\ relReply = "none" /\ foreign = 0

RelNext ==
  \/ \E i \in Items : Link(i) \/ Unlink(i)
  \/ Finish \/ Refetch
  \/ \E q \in relWire : Adds(q) \/ Removes(q) \/ Fails(q)
  \/ \E list \in ForeignLists : OthersChange(list)

RelSpec == RelInit /\ [][RelNext]_relVars

-----------------------------------------------------------------------------
\* A PATCH removes the dependency it was asked to remove and no other link, not
\* even when it lands after the client gave up on it.  Excused is the second
\* PATCH of a call, if the list changed after its index was read: it tests a
\* revision newer than the list the index is of.
OnlyTheLinkGoes ==
  [][\A q \in relWire : Removes(q) => relations[q.index] = Pred(q.to) \/ q.stale]_relVars
=============================================================================
