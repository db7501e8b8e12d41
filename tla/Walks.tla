--------------------------------- MODULE Walks ---------------------------------
(***************************************************************************)
(* The loops that walk the Work Items, turn by turn, from every small      *)
(* hierarchy, set of links and dates: HierarchyIndex::rollup (ado-core/    *)
(* dates.rs), apply_overlays (overlays.rs), critical_path and              *)
(* related_dependency_ids and flatten_visible (app/gantt.rs),              *)
(* descendant_ids (app/state.rs).                                          *)
(*                                                                         *)
(* Items are loaded in batches, read at different times, so that parents   *)
(* can form a cycle; a test of dates.rs expects rollup to stop on one, and *)
(* the climbs of apply_overlays and descendant_ids do not stop.            *)
(***************************************************************************)
EXTENDS Integers, FiniteSets, Sequences, SequencesExt, FiniteSetsExt

CONSTANTS
  Nodes,   \* ids of Work Items, in the order of the list of nodes
  Linked,  \* those that can have dependencies
  Spans    \* the [from, to] an item with both dates can have

ASSUME WalkAssumption ==
  /\ Nodes \subseteq Nat /\ IsFiniteSet(Nodes) /\ Linked \subseteq Nodes
  /\ Spans \subseteq [from : Nat, to : Nat]

VARIABLES
  input,  \* the items, and the walk: what it starts from
  todo,   \* the ids to visit: a stack, or the starts left
  at,     \* the item a chain has reached, 0 for none
  seen,   \* the ids a walk remembers; for rollup, visits left
  found,  \* what it has found
  done

walkVars == <<input, todo, at, seen, found, done>>

-----------------------------------------------------------------------------
(***************************************************************************)
(* What the walks are given, and what they look up.                        *)
(***************************************************************************)
NodeList == SetToSortSeq(Nodes, LAMBDA x, y : x < y)
Kids(i)  == SelectSeq(NodeList, LAMBDA k : input.parent[k] = i)

Dated == {i \in Nodes : input.span[i].to > 0}

\* The predecessor that itself finishes latest, ties broken by the id; 0 for none
Best(i) ==
  LET preds == input.preds[i] \cap Dated
  IN  IF i \notin Dated \/ preds = {} THEN 0
      ELSE CHOOSE p \in preds : \A q \in preds :
             \/ input.span[q].to < input.span[p].to
             \/ input.span[q].to = input.span[p].to /\ q <= p

Neighbours(i) == input.preds[i] \cup {k \in Nodes : i \in input.preds[k]}

NoSpan    == [from |-> 0, to |-> 0]
Parents   == {f \in [Nodes -> Nodes \cup {0}] : \A i \in Nodes : f[i] # i}
SpanOf    == [Nodes -> Spans \cup {NoSpan}]
Preds     == {f \in [Nodes -> SUBSET Linked] :
                \A i \in Nodes : i \notin f[i] /\ (i \notin Linked => f[i] = {})}
NoParents == [i \in Nodes |-> 0]
NoPreds   == [i \in Nodes |-> {}]
NoSpans   == [i \in Nodes |-> NoSpan]

\* The items whose chain of parents from i, i included, in some number of steps
RECURSIVE Above(_, _)
Above(i, steps) ==
  IF i = 0 THEN {} ELSE {i} \cup (IF steps = 0 THEN {} ELSE Above(input.parent[i], steps - 1))

Ancestors(i) == Above(input.parent[i], Cardinality(Nodes))
Below(i)     == {k \in Nodes : i \in Ancestors(k)}
OnCycle(i)   == i \in Ancestors(i)

-----------------------------------------------------------------------------
(***************************************************************************)
(* HierarchyIndex::rollup.                                                 *)
(***************************************************************************)
Joined(a, s) ==
  IF s = NoSpan THEN a
  ELSE IF a = NoSpan THEN s
  ELSE [from |-> Min({a.from, s.from}), to |-> Max({a.to, s.to})]

\* One id is popped and its children are visited, while visits are left
Roll ==
  /\ input.walk = "rollup" /\ ~done
  /\ IF todo = << >> THEN done' = TRUE /\ UNCHANGED <<todo, seen, found>>
     ELSE LET kids == Kids(Last(todo))
              some == SubSeq(kids, 1, Min({seen, Len(kids)}))
          IN  /\ todo' = Front(todo) \o some
              /\ seen' = seen - Len(some)
              /\ found' = FoldLeft(LAMBDA a, k : Joined(a, input.span[k]), found, some)
              /\ done' = (Len(some) < Len(kids))
  /\ UNCHANGED <<input, at>>

-----------------------------------------------------------------------------
(***************************************************************************)
(* critical_path: from each dated item that ends last, in any order.       *)
(***************************************************************************)
Ends == {i \in Dated : \A k \in Dated : input.span[k].to <= input.span[i].to}

PathStarts ==
  /\ input.walk = "path" /\ ~done /\ at = 0
  /\ IF todo = {} THEN done' = TRUE /\ UNCHANGED <<todo, at, seen, found>>
     ELSE \E i \in todo :
            /\ todo' = todo \ {i} /\ at' = i /\ seen' = {}
            /\ found' = [found EXCEPT !.ids = @ \cup {i}]
            /\ UNCHANGED done
  /\ UNCHANGED input

\* Mutant of PathGoesOn: a cycle of dependencies is not noticed
PathGoesRound ==
  /\ input.walk = "path" /\ ~done /\ at # 0
  /\ at' = Best(at)
  /\ found' = IF at' = 0 THEN found
              ELSE [ids |-> found.ids \cup {at'}, links |-> found.links \cup {<<at', at>>}]
  /\ UNCHANGED <<input, todo, seen, done>>

PathGoesOn ==
  /\ input.walk = "path" /\ ~done /\ at # 0
  /\ at' = IF at \in seen THEN 0 ELSE Best(at)
  /\ seen' = seen \cup {at}
  /\ found' = IF at' = 0 THEN found
              ELSE [ids |-> found.ids \cup {at'}, links |-> found.links \cup {<<at', at>>}]
  /\ UNCHANGED <<input, todo, done>>

-----------------------------------------------------------------------------
\* Rows of the items in ids, all of one depth
RowsAt(ids, depth) == [n \in DOMAIN ids |-> [id |-> ids[n], depth |-> depth]]

\* related_dependency_ids: the ids that are new go on the stack
Relate ==
  /\ input.walk = "related" /\ ~done
  /\ IF todo = << >> THEN done' = TRUE /\ UNCHANGED <<todo, found>>
     ELSE LET new == Neighbours(Last(todo)) \ found
          IN  /\ found' = found \cup new
              /\ todo' = Front(todo) \o SetToSeq(new)
              /\ UNCHANGED done
  /\ UNCHANGED <<input, at, seen>>

\* Bound: how far the list of descendant_ids is followed when it has no end
MaxListed == 2 * Cardinality(Nodes)

\* descendant_ids: every child of what is popped is pushed
Descend ==
  /\ input.walk = "below" /\ ~done /\ Len(found) < MaxListed
  /\ IF todo = << >> THEN done' = TRUE /\ UNCHANGED <<todo, found>>
     ELSE /\ found' = Append(found, Last(todo))
          /\ todo' = Front(todo) \o Kids(Last(todo))
          /\ UNCHANGED done
  /\ UNCHANGED <<input, at, seen>>

\* flatten_visible: an item goes into the list, its children go before what is
\* left to do; those in input.passed are collapsed
Flatten ==
  /\ input.walk = "rows" /\ ~done
  /\ IF todo = << >> THEN done' = TRUE /\ UNCHANGED <<todo, found>>
     ELSE LET row  == Head(todo)
              kids == IF row.id \in input.passed THEN << >> ELSE Kids(row.id)
          IN  /\ found' = Append(found, row)
              /\ todo' = RowsAt(kids, row.depth + 1) \o Tail(todo)
              /\ UNCHANGED done
  /\ UNCHANGED <<input, at, seen>>

-----------------------------------------------------------------------------
(***************************************************************************)
(* apply_overlays.  An empty input.roots is a filter without root types.   *)
(***************************************************************************)
\* is_under_root_type climbs from an item to the first of a root type
Under ==
  /\ input.walk = "under" /\ ~done
  /\ IF at \in input.roots \cup {0}
     THEN found' = (at # 0) /\ done' = TRUE /\ UNCHANGED at
     ELSE at' = input.parent[at] /\ UNCHANGED <<found, done>>
  /\ UNCHANGED <<input, todo, seen>>

UnderRoot(i) == Above(i, Cardinality(Nodes)) \cap input.roots # {}
Matching     == {i \in input.passed : input.roots = {} \/ UnderRoot(i)}

ClimbStarts ==
  /\ input.walk = "climb" /\ ~done /\ at = 0
  /\ IF todo = {} THEN done' = TRUE /\ UNCHANGED <<todo, at>>
     ELSE \E i \in todo : todo' = todo \ {i} /\ at' = i /\ UNCHANGED done
  /\ UNCHANGED <<input, seen, found>>

\* Mutant of ClimbGoesOn: it climbs past a root type
ClimbPastRoots ==
  /\ input.walk = "climb" /\ ~done /\ at # 0
  /\ at' = input.parent[at]
  /\ found' = found \cup ({at'} \ {0})
  /\ UNCHANGED <<input, todo, seen, done>>

\* The parents of a match are made visible, up to the first of a root type
ClimbGoesOn ==
  /\ input.walk = "climb" /\ ~done /\ at # 0
  /\ at' = IF at \in input.roots THEN 0 ELSE input.parent[at]
  /\ found' = found \cup ({at'} \ {0})
  /\ UNCHANGED <<input, todo, seen, done>>

-----------------------------------------------------------------------------
Input(walk, parent, preds, span, top, roots, passed) ==
  [walk |-> walk, parent |-> parent, preds |-> preds, span |-> span,
   top |-> top, roots |-> roots, passed |-> passed]

\* Items without dates, links or parents where a walk does not look at them
WalkInit ==
  /\ done = FALSE
  /\ \/ \E p \in Parents, s \in SpanOf, i \in Nodes :
          /\ input = Input("rollup", p, NoPreds, s, i, {}, {})
          /\ todo = <<i>> /\ seen = Cardinality(Nodes) /\ found = NoSpan
     \/ \E d \in Preds, s \in SpanOf :
          /\ input = Input("path", NoParents, d, s, 0, {}, {})
          /\ todo = Ends /\ seen = {} /\ found = [ids |-> {}, links |-> {}]
     \/ \E d \in Preds, i \in Nodes :
          /\ input = Input("related", NoParents, d, NoSpans, i, {}, {})
          /\ todo = <<i>> /\ seen = {} /\ found = {i}
     \/ \E p \in Parents, i \in Nodes :
          /\ input = Input("below", p, NoPreds, NoSpans, i, {}, {})
          /\ todo = Kids(i) /\ seen = {} /\ found = << >>
     \/ \E p \in Parents, collapsed \in SUBSET Nodes :
          /\ input = Input("rows", p, NoPreds, NoSpans, 0, {}, collapsed)
          /\ todo = RowsAt(Kids(0), 0) /\ seen = {} /\ found = << >>
     \/ \E p \in Parents, r \in SUBSET Nodes \ {{}}, i \in Nodes :
          /\ input = Input("under", p, NoPreds, NoSpans, i, r, {})
          /\ todo = {} /\ seen = {} /\ found = FALSE
     \/ \E p \in Parents, r \in SUBSET Nodes, m \in kSubset(2, Nodes) :
          /\ input = Input("climb", p, NoPreds, NoSpans, 0, r, m)
          /\ todo = Matching /\ seen = {} /\ found = Matching
  /\ at = IF input.walk = "under" THEN input.top ELSE 0

WalkNext ==
  \/ Roll \/ PathStarts \/ PathGoesOn \/ Relate \/ Descend \/ Flatten
  \/ Under \/ ClimbStarts \/ ClimbGoesOn

WalkSpec == WalkInit /\ [][WalkNext]_walkVars /\ WF_walkVars(WalkNext)

-----------------------------------------------------------------------------
(***************************************************************************)
(* What the comments of the code say they compute.                         *)
(***************************************************************************)
\* The least set that holds S and, with an item, what step[item] names
RECURSIVE Closure(_, _)
Closure(S, step) ==
  LET more == S \cup UNION {step[i] : i \in S}
  IN  IF more = S THEN S ELSE Closure(more, step)

PathItems == Closure(Ends, [i \in Nodes |-> {Best(i)} \ {0}])

Promised ==
  CASE input.walk = "rollup" ->
         LET spans == {input.span[k] : k \in Below(input.top)} \ {NoSpan}
         IN  IF spans = {} THEN NoSpan
             ELSE [from |-> Min({s.from : s \in spans}), to |-> Max({s.to : s \in spans})]
    [] input.walk = "path" ->
         [ids |-> PathItems, links |-> {<<Best(i), i>> : i \in {k \in PathItems : Best(k) # 0}}]
    [] input.walk = "related" -> Closure({input.top}, [i \in Nodes |-> Neighbours(i)])
    [] input.walk = "below" -> Below(input.top)
    [] input.walk = "rows" ->
         {[id |-> i, depth |-> Cardinality(Ancestors(i))] :
            i \in {k \in Nodes : /\ Ancestors(k) \cap input.passed = {}
                               /\ \A a \in {k} \cup Ancestors(k) : ~OnCycle(a)}}
    [] input.walk = "under" -> UnderRoot(input.top)
    [] input.walk = "climb" ->
         Closure(Matching, [i \in Nodes |-> IF i \in input.roots THEN {} ELSE {input.parent[i]} \ {0}])

\* The parent of a row is the nearest one above it that is one step less deep
Outlined ==
  \A n \in DOMAIN found : LET above == {k \in 1..n : found[k].depth < found[n].depth}
                         IN  input.parent[found[n].id] = IF above = {} THEN 0 ELSE found[Max(above)].id

\* Each walk finds what its comment promises, each item once, and the rows draw
\* the hierarchy.  Excused is a rollup from an item that is its own ancestor: it
\* runs out of visits.
WalksFindPromised ==
  done /\ ~(input.walk = "rollup" /\ OnCycle(input.top)) =>
    IF input.walk \in {"below", "rows"}
    THEN Range(found) = Promised /\ IsInjective(found) /\ (input.walk = "rows" => Outlined)
    ELSE found = Promised

\* Above one of these items is a cycle of parents, and no root type
Unguarded(starts) ==
  \E i \in starts : /\ Above(i, Cardinality(Nodes)) \cap input.roots = {}
                    /\ \E a \in Ancestors(i) : OnCycle(a)

\* The walks that nothing stops: the climbs of apply_overlays from such items, and
\* descendant_ids from an item that is its own ancestor
Endless ==
  CASE input.walk = "under" -> Unguarded({input.top})
    [] input.walk = "climb" -> Unguarded(Matching)
    [] input.walk = "below" -> OnCycle(input.top)
    [] OTHER -> FALSE

\* Where parents or dependencies form cycles, rollup, critical_path,
\* related_dependency_ids and flatten_visible end from every start, and the other
\* three from all but those that Endless names, from which they never do.
WalksEnd == <>[](done <=> ~Endless)
=============================================================================
