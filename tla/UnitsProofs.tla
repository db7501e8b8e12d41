----------------------------- MODULE UnitsProofs ------------------------------
(***************************************************************************)
(* What the small machines promise, for every value of the constants: the  *)
(* revision-checked PATCH, the removal of a link by its index, the load of *)
(* a hierarchy in batches, the lane of one item's dates and the loop that  *)
(* coalesces queued saves.                                                 *)
(***************************************************************************)
EXTENDS RevRetry, RelationIndex, HierarchyLoad, DateLane, CoalesceLoop, TLAPS

-----------------------------------------------------------------------------
(***************************************************************************)
(* DateLane keeps its promises for every set of dates.  The invariant is   *)
(* the conjunction of what the run checks: a step of the lane compares the *)
(* queue with what is shown, so LaneAgrees needs the types and the queue   *)
(* discipline of LaneWaits in the same induction.                          *)
(***************************************************************************)

LaneInv == LaneTypes /\ LaneWaits /\ LaneAgrees

\* A lane starts with nothing in flight and what is shown stored (apply_hierarchy).
LEMMA LaneInvInit == LaneInit => LaneInv
  BY LaneAssumption DEF LaneInit, LaneInv, LaneTypes, LaneWaits, LaneAgrees

\* No step of a lane breaks the invariant.
LEMMA LaneInvStep == LaneInv /\ [LaneNext]_laneVars => LaneInv'
<1> SUFFICES ASSUME LaneInv, [LaneNext]_laneVars PROVE LaneInv'
  OBVIOUS
<1> USE DEF LaneInv, LaneTypes, LaneWaits, LaneAgrees
<1>1. CASE LaneOk
  BY <1>1, LaneAssumption DEF LaneOk
<1>2. ASSUME NEW d \in LaneDates, Submit(d) PROVE LaneInv'
  <2>1. CASE flight = NoDates
    BY <1>2, <2>1, LaneAssumption DEF Submit
  <2>2. CASE flight # NoDates
    BY <1>2, <2>2, LaneAssumption DEF Submit
  <2> QED
    BY <2>1, <2>2
<1>3. ASSUME NEW d \in LaneDates, Hold(d) PROVE LaneInv'
  BY <1>3 DEF Hold
<1>4. ASSUME NEW d \in LaneDates, LetGo(d) PROVE LaneInv'
  <2>1. LaneTypes' /\ LaneWaits'
    BY <1>4 DEF LetGo
  <2>2. LaneAgrees'
    \* with no PATCH in flight, a shift that ends leaves the item stray
    BY <1>4 DEF LetGo
  <2> QED
    BY <2>1, <2>2
<1>5. ASSUME NEW d \in LaneDates, LaneErr(d) PROVE LaneInv'
  <2>1. live' \in LaneDates /\ flight' \in LaneDates \cup {NoDates}
    BY <1>5 DEF LaneErr
  <2>2. stored' \in LaneDates
    BY <1>5 DEF LaneErr
  <2>3. queued' = NoDates /\ stray' /\ held' \in BOOLEAN
    BY <1>5 DEF LaneErr
  <2> QED
    BY <2>1, <2>2, <2>3
<1>6. CASE UNCHANGED laneVars
  BY <1>6 DEF laneVars
<1> QED
  BY <1>1, <1>2, <1>3, <1>4, <1>5, <1>6 DEF LaneNext

\* Every variable of a lane keeps its type.
THEOREM LaneTypeOK == LaneSpec => []LaneTypes
<1>1. LaneInv => LaneTypes
  BY DEF LaneInv
<1> QED
  BY LaneInvInit, LaneInvStep, <1>1, PTL DEF LaneSpec

\* A save waiting behind a PATCH is never stranded (drain_date_saves).
THEOREM LaneNeverStrands == LaneSpec => []LaneWaits
<1>1. LaneInv => LaneWaits
  BY DEF LaneInv
<1> QED
  BY LaneInvInit, LaneInvStep, <1>1, PTL DEF LaneSpec

\* With nothing left to do an item shows what is stored, unless it is stray
\* (spawn_one_date_save, whichever edits land while its PATCH is in flight).
THEOREM LaneAgreement == LaneSpec => []LaneAgrees
<1>1. LaneInv => LaneAgrees
  BY DEF LaneInv
<1> QED
  BY LaneInvInit, LaneInvStep, <1>1, PTL DEF LaneSpec

-----------------------------------------------------------------------------
(***************************************************************************)
(* RevRetry's safety for any number of calls and of edits by other users.  *)
(* AppliedAtMostOnce and ResultTellsTruth are not inductive: they need to  *)
(* know where the documents are (Wire: a document on its way has not been  *)
(* applied, has one copy, and tests a revision that a later call has made  *)
(* unreachable), and what the current phase has seen (Seen).               *)
(***************************************************************************)

\* Documents on their way
Wire ==
  /\ \A p \in wire : /\ p.call <= call /\ p.rev <= rev
                     /\ applied[p.call] = 0
                     /\ last > p.call => p.rev < rev
  /\ \A p, q \in wire : p.call = q.call => p = q
  /\ last <= call

\* What the current call has seen of its documents
Seen ==
  /\ phase # "idle" => call \in Calls /\ result[call] = "none"
  /\ phase = "idle" => reply = None
  /\ phase = "fetching" => reply = None
  /\ reply = "ok" => applied[call] = 1 /\ \A p \in wire : p.call # call
  /\ reply \in {"conflict", "refused"} \/ phase = "fetching" =>
       applied[call] = 0 /\ \A p \in wire : p.call # call
  /\ \A c \in Calls : c > call => applied[c] = 0 /\ result[c] = "none"

IInv == TypeOK /\ Wire /\ Seen /\ AppliedAtMostOnce /\ ResultTellsTruth

\* Nothing has been sent yet when the planner starts.
LEMMA InitIInv == Init => IInv
  BY RetryAssumption DEF Init, IInv, TypeOK, Wire, Seen, AppliedAtMostOnce,
     ResultTellsTruth, Calls, Phases, Results, Replies, Patch

\* Each step of the client, the server and the other users keeps the invariant.
LEMMA NextIInv == IInv /\ [Next]_vars => IInv'
<1> SUFFICES ASSUME IInv, [Next]_vars PROVE IInv'
  OBVIOUS
<1> USE RetryAssumption
<1> USE DEF IInv, TypeOK, Wire, Seen, AppliedAtMostOnce, ResultTellsTruth,
            Calls, Phases, Results, Replies, Patch
<1>1. CASE Begin
  BY <1>1 DEF Begin, server
<1>2. CASE GiveUp
  BY <1>2 DEF GiveUp, End, Waiting, server
<1>3. CASE Succeed
  BY <1>3 DEF Succeed, End, Waiting, server
<1>4. CASE Refuse
  <2>1. ASSUME Waiting, reply = "refused", End("refused") PROVE IInv'
    BY <2>1 DEF End, Waiting, server
  <2>2. ASSUME phase = "second", reply = "conflict", End("conflict") PROVE IInv'
    BY <2>2 DEF End, server
  <2> QED
    BY <1>4, <2>1, <2>2 DEF Refuse
<1>5. CASE Conflict
  BY <1>5 DEF Conflict, server
<1>6. CASE FetchFails
  BY <1>6 DEF FetchFails, End, server
<1>7. CASE Repatch
  BY <1>7 DEF Repatch, server
<1>8. CASE OthersEdit
  BY <1>8 DEF OthersEdit, client
<1>9. ASSUME NEW p \in wire, ServerApplies(p) PROVE IInv'
  BY <1>9 DEF ServerApplies, Answers, Waiting, client
<1>10. ASSUME NEW p \in wire, ServerConflicts(p) PROVE IInv'
  BY <1>10 DEF ServerConflicts, Answers, Waiting, client, server
<1>11. ASSUME NEW p \in wire, ServerRefuses(p) PROVE IInv'
  BY <1>11 DEF ServerRefuses, Answers, Waiting, client, server
<1>12. CASE UNCHANGED vars
  BY <1>12 DEF vars, server, client
<1> QED
  BY <1>1, <1>2, <1>3, <1>4, <1>5, <1>6, <1>7, <1>8, <1>9, <1>10, <1>11, <1>12
     DEF Next, ClientStep, ServerStep

\* The invariant holds throughout every behaviour.
LEMMA SpecIInv == Spec => []IInv
  BY InitIInv, NextIInv, PTL DEF Spec

\* Every variable keeps its type, however many calls and edits there are.
THEOREM RetryTypeOK == Spec => []TypeOK
<1>1. IInv => TypeOK
  BY DEF IInv
<1> QED
  BY SpecIInv, <1>1, PTL

\* patch_work_item_with_rev_retry never applies a document twice.
THEOREM RetryAppliedAtMostOnce == Spec => []AppliedAtMostOnce
<1>1. IInv => AppliedAtMostOnce
  BY DEF IInv
<1> QED
  BY SpecIInv, <1>1, PTL

\* The result of patch_work_item_with_rev_retry is right about the server,
\* except when the call was lost.
THEOREM RetryResultTellsTruth == Spec => []ResultTellsTruth
<1>1. IInv => ResultTellsTruth
  BY DEF IInv
<1> QED
  BY SpecIInv, <1>1, PTL

\* A PATCH the client gave up on cannot undo a later call's: a document on its
\* way from an earlier call than `last` tests a revision that is gone.
THEOREM RetryNoLateOverwrite == Spec => NoLateOverwrite
<1>1. IInv /\ [Next]_vars => [last' >= last]_vars
  <2> SUFFICES ASSUME IInv, Next PROVE last' >= last
    OBVIOUS
  <2> USE DEF IInv, TypeOK
  <2>1. CASE ClientStep
    BY <2>1 DEF ClientStep, Begin, GiveUp, Succeed, Refuse, Conflict, FetchFails,
       Repatch, End, server
  <2>2. CASE OthersEdit
    BY <2>2 DEF OthersEdit
  <2>3. ASSUME NEW p \in wire, ServerApplies(p) PROVE last' >= last
    <3>1. ~(last > p.call)
      BY <2>3 DEF Wire, ServerApplies
    <3> QED
      BY <2>3, <3>1, RetryAssumption DEF ServerApplies, Patch, Calls
  <2>4. ASSUME NEW p \in wire, ServerConflicts(p) \/ ServerRefuses(p)
        PROVE  last' >= last
    BY <2>4, RetryAssumption DEF ServerConflicts, ServerRefuses, server
  <2> QED
    BY <2>1, <2>2, <2>3, <2>4 DEF Next, ServerStep
<1> QED
  BY SpecIInv, <1>1, PTL DEF Spec, NoLateOverwrite

-----------------------------------------------------------------------------
(***************************************************************************)
(* remove_dependency removes no other link, for every set of items and     *)
(* every number of calls, of late requests and of others' edits.           *)
(***************************************************************************)

\* An index is a link's in the list that was read.
Names(list, n, i) == n \in DOMAIN list /\ list[n] = Pred(i)

\* What the call under way read, and what a PATCH that can still land removes:
\* the list changes only with its revision.
RelInv ==
  /\ relRev \in Nat
  /\ change = [phase |-> change.phase, op |-> change.op, to |-> change.to,
               index |-> change.index, read |-> change.read]
  /\ change.op = "remove" => Names(change.read, change.index, change.to)
  /\ \A q \in relWire :
       /\ q.rev \in Nat /\ q.rev <= relRev
       /\ q.op = "remove" /\ ~q.stale /\ q.rev = relRev => Names(relations, q.index, q.to)

\* No PATCH has been sent before the first call of remove_dependency.
LEMMA RelInvInit == RelInit => RelInv
  BY DEF RelInit, RelInv, Resting

\* dependency_relation_index finds the link, where there is one.
LEMMA IndexNames ==
  ASSUME NEW list, NEW i, IndexOf(list, i) # 0
  PROVE  Names(list, IndexOf(list, i), i)
  BY DEF IndexOf, Position, Names

\* A step that changes the list raises the revision over those of all PATCHes.
LEMMA Overtaken ==
  ASSUME RelInv, relRev' = relRev + 1, relWire' \subseteq relWire, change' = change
  PROVE  RelInv'
  BY DEF RelInv, Names, Pred

\* No call, answer or edit by another user breaks the invariant.
LEMMA RelInvStep == ASSUME RelInv, [RelNext]_relVars PROVE RelInv'
<1>1. ASSUME NEW i \in Items, Link(i) PROVE RelInv'
  BY <1>1 DEF Link, Sent, RelInv, Names, Pred, relServer
<1>2. ASSUME NEW i \in Items, Unlink(i) PROVE RelInv'
  <2>1. Names(relations, IndexOf(relations, i), i)
    BY <1>2, IndexNames DEF Unlink
  <2> QED
    BY <1>2, <2>1 DEF Unlink, Sent, RelInv, Names, Pred, relServer
<1>3. CASE Finish
  BY <1>3 DEF Finish, Resting, RelInv, Names, Pred, relServer
<1>4. CASE Refetch
  <2>1. /\ change'.op = change.op /\ change'.to = change.to
        /\ change'.index = change.index /\ change'.read = change.read
    BY <1>4 DEF Refetch, RelInv
  <2>2. change' = [phase |-> change'.phase, op |-> change'.op, to |-> change'.to,
                   index |-> change'.index, read |-> change'.read]
    BY <1>4 DEF Refetch, RelInv
  <2>3. ASSUME NEW q \in relWire'
        PROVE  /\ q.rev \in Nat /\ q.rev <= relRev
               /\ q.op = "remove" /\ ~q.stale /\ q.rev = relRev => Names(relations, q.index, q.to)
    <3>1. CASE q \in relWire
      BY <3>1 DEF RelInv
    <3>2. CASE q = [op |-> change'.op, to |-> change'.to, index |-> change'.index,
                    rev |-> relRev, call |-> changes', stale |-> relations # change'.read]
      <4>1. q.op = change.op /\ q.to = change.to /\ q.index = change.index /\ q.rev = relRev
        BY <3>2, <2>1
      <4>2. q.stale <=> relations # change.read
        BY <3>2, <2>1, Zenon
      <4> QED
        BY <4>1, <4>2 DEF RelInv
    <3> QED
      BY <1>4, <3>1, <3>2 DEF Refetch, Sent
  <2> QED
    BY <1>4, <2>1, <2>2, <2>3 DEF Refetch, RelInv, relServer, Names
<1>5. ASSUME NEW q \in relWire, Adds(q) \/ Removes(q) PROVE RelInv'
  BY <1>5, Overtaken DEF Adds, Removes, Replied
<1>6. ASSUME NEW q \in relWire, Fails(q) PROVE RelInv'
  BY <1>6 DEF Fails, Replied, RelInv, Names, Pred, relServer
<1>7. ASSUME NEW list \in ForeignLists, OthersChange(list) PROVE RelInv'
  BY <1>7, Overtaken DEF OthersChange
<1>8. CASE UNCHANGED relVars
  BY <1>8 DEF relVars, relServer, RelInv, Names, Pred
<1> QED
  BY <1>1, <1>2, <1>3, <1>4, <1>5, <1>6, <1>7, <1>8 DEF RelNext

\* A PATCH of remove_dependency removes the dependency it was asked to remove,
\* unless it is a retry and the list changed since the index was read.
THEOREM OnlyTheLinkIsRemoved == RelSpec => OnlyTheLinkGoes
<1>1. RelInv /\ [RelNext]_relVars =>
        [\A q \in relWire : Removes(q) => relations[q.index] = Pred(q.to) \/ q.stale]_relVars
  BY DEF RelInv, Removes, Names
<1> QED
  BY <1>1, RelInvInit, RelInvStep, PTL DEF RelSpec, OnlyTheLinkGoes

-----------------------------------------------------------------------------
(***************************************************************************)
(* A load shows what the server holds of every item nobody edited during   *)
(* it: for every set of items and types, every cap and size of batches and *)
(* any number of edits and failures.                                       *)
(***************************************************************************)

RowType == [kind : Kinds, parent : WorkIds \cup {0}, preds : SUBSET WorkIds, dates : BOOLEAN]

\* Fields of a load
IsLoad(l) ==
  /\ l = [step |-> l.step, warned |-> l.warned, ids |-> l.ids, due |-> l.due,
          dated |-> l.dated, rows |-> l.rows]
  /\ l.warned \in BOOLEAN /\ l.ids \in Seq(WorkIds) /\ l.due \in Seq(WorkIds)
  /\ DOMAIN l.rows \subseteq WorkIds /\ l.rows \in [DOMAIN l.rows -> RowType]

LoadTyped ==
  /\ stock \in [WorkIds -> Item] /\ team \subseteq Kinds
  /\ touched \subseteq WorkIds /\ unread \subseteq WorkIds
  /\ IsLoad(load)

Reading == {"items", "links", "discover"}

\* What is known about the load as a whole, from step to step
Staged ==
  /\ load.step \in {"backlogs", "query", "fields"} => DOMAIN load.rows = {}
  /\ load.step = "backlogs" => ~load.warned
  /\ load.step = "fields" => load.due = load.ids
  /\ load.step = "discover" => load.warned /\ load.due = << >>
  /\ load.step \in Reading => /\ load.dated = IF load.warned THEN {} ELSE team \cap DatedKinds
                              /\ Range(load.due) \subseteq Range(load.ids)

\* An item is among the ids when it matches
Asked(i) ==
  /\ i \in Range(load.ids) => Matches(i)
  /\ Matches(i) => i \in Range(load.ids) \/ Len(load.ids) = ResultCap

\* It is in a row once its batch was read, and has its links once they were
Kept(i) ==
  /\ i \in DOMAIN load.rows =>
       /\ i \in Range(load.ids)
       /\ load.rows[i].kind = stock[i].kind /\ load.rows[i].parent = stock[i].parent
       /\ load.rows[i].dates = (stock[i].kind \in load.dated)
  /\ i \in Range(load.ids) /\ (load.step = "items" => i \notin Range(load.due)) => i \in DOMAIN load.rows
  /\ load.step # "items" /\ i \in Range(load.ids) \ (Range(load.due) \cup unread) =>
       load.rows[i].preds = stock[i].preds

LoadInv ==
  /\ LoadTyped /\ Staged
  /\ load.step \in Reading \cup {"fields"} => \A i \in WorkIds \ touched : Asked(i)
  /\ load.step \in Reading => \A i \in WorkIds \ touched : Kept(i)
  /\ LoadedAsItWas

-----------------------------------------------------------------------------
\* A batch and what is due after it are what was due.
LEMMA Batches ==
  ASSUME load.due \in Seq(WorkIds)
  PROVE  /\ Rest \in Seq(WorkIds) /\ Chunk \cup Range(Rest) = Range(load.due)
         /\ Chunk \subseteq WorkIds /\ Range(<< >>) = {}
<1> DEFINE d == load.due
<1>1. d \in Seq(WorkIds) /\ BatchSize \in Nat /\ BatchSize > 0
  BY HierarchyAssumption
<1>2. Rest = SubSeq(d, BatchSize + 1, Len(d)) /\ Chunk = {d[n] : n \in {k \in DOMAIN d : k <= BatchSize}}
  BY DEF Rest, Chunk
<1> HIDE DEF d
<1>3. /\ Rest \in Seq(WorkIds)
      /\ BatchSize + 1 <= Len(d) => Len(Rest) = Len(d) - BatchSize /\ \A k \in 1..Len(Rest) : Rest[k] = d[k + BatchSize]
      /\ BatchSize + 1 > Len(d) => Len(Rest) = 0
  BY <1>1, <1>2
<1>4. DOMAIN Rest = 1..Len(Rest) /\ DOMAIN d = 1..Len(d)
  BY <1>1, <1>3
<1> HIDE <1>2
<1>5. Range(Rest) = {Rest[k] : k \in 1..Len(Rest)} /\ Range(d) = {d[k] : k \in 1..Len(d)}
  BY <1>4 DEF Range
<1>6. ASSUME NEW n \in 1..Len(d) PROVE d[n] \in Chunk \cup Range(Rest)
  <2>1. CASE n <= BatchSize
    BY <1>2, <1>4, <2>1
  <2>2. CASE n > BatchSize
    <3>1. n - BatchSize \in 1..Len(Rest) /\ Rest[n - BatchSize] = d[n]
      BY <1>1, <1>3, <2>2
    <3> QED
      BY <1>5, <3>1
  <2> QED
    BY <1>1, <2>1, <2>2
<1>7. ASSUME NEW k \in 1..Len(Rest) PROVE Rest[k] \in Range(d)
  <2>1. k + BatchSize \in 1..Len(d) /\ Rest[k] = d[k + BatchSize]
    BY <1>1, <1>3
  <2> QED
    BY <1>5, <2>1
<1>8. Chunk \subseteq Range(d)
  BY <1>2, <1>4, <1>5
<1>9. ASSUME NEW k \in 1..Len(d) PROVE d[k] \in WorkIds
  BY <1>1
<1>10. Range(d) \subseteq WorkIds
  BY <1>5, <1>9
<1>11. Range(<< >>) = {}
  BY DEF Range
<1> QED
  BY <1>3, <1>5, <1>6, <1>7, <1>8, <1>10, <1>11 DEF d

-----------------------------------------------------------------------------
\* The first state, and the steps that read no item.
LEMMA LoadInvInit == LoadInit => LoadInv
<1> SUFFICES ASSUME LoadInit PROVE LoadInv
  OBVIOUS
<1>1. load = [step |-> "backlogs", warned |-> FALSE, ids |-> << >>, due |-> << >>, dated |-> {},
              rows |-> [i \in {} |-> 0]]
  BY DEF LoadInit, Starting
<1>2. DOMAIN load.rows = {} /\ load.rows \in [{} -> RowType]
  BY <1>1
<1>3. LoadTyped
  BY <1>1, <1>2, HierarchyAssumption DEF LoadInit, LoadTyped, IsLoad
<1>4. Staged /\ LoadedAsItWas /\ load.step \notin Reading \cup {"fields"}
  BY <1>1, <1>2 DEF Staged, LoadedAsItWas, Reading
<1> QED
  BY <1>3, <1>4 DEF LoadInv

\* A team without types has no items of its types.
LEMMA BacklogsReadKeeps == ASSUME LoadInv, BacklogsRead PROVE LoadInv'
<1>1. IsLoad(load) /\ load.step = "backlogs" /\ ~load.warned /\ DOMAIN load.rows = {}
  BY DEF LoadInv, LoadTyped, Staged, BacklogsRead
<1> DEFINE s == IF team = {} THEN "ok" ELSE "query"
<1>2. load' = [load EXCEPT !.step = s]
  BY DEF BacklogsRead
<1> HIDE DEF s
<1>3. load' = [step |-> s, warned |-> load.warned, ids |-> load.ids, due |-> load.due,
               dated |-> load.dated, rows |-> load.rows]
  BY <1>1, <1>2 DEF IsLoad
<1>4. s \in {"ok", "query"} /\ (s = "ok" => team = {})
  BY DEF s
<1>5. LoadTyped'
  BY <1>1, <1>3 DEF LoadInv, LoadTyped, IsLoad, BacklogsRead
<1>6. Staged' /\ load'.step \notin Reading \cup {"fields"}
  BY <1>1, <1>3, <1>4 DEF Staged, Reading
<1>7. LoadedAsItWas'
  BY <1>1, <1>3, <1>4 DEF LoadedAsItWas, Matches, BacklogsRead
<1> QED
  BY <1>5, <1>6, <1>7 DEF LoadInv

\* The backlogs cannot be read: the load goes on without them
LEMMA BacklogsFailKeeps == ASSUME LoadInv, BacklogsFail PROVE LoadInv'
<1>1. IsLoad(load) /\ DOMAIN load.rows = {}
  BY DEF LoadInv, LoadTyped, Staged, BacklogsFail
<1>2. load' = [step |-> "query", warned |-> TRUE, ids |-> load.ids, due |-> load.due,
               dated |-> load.dated, rows |-> load.rows]
  BY <1>1 DEF IsLoad, BacklogsFail
<1>3. LoadTyped'
  BY <1>1, <1>2 DEF LoadInv, LoadTyped, IsLoad, BacklogsFail
<1>4. Staged' /\ LoadedAsItWas' /\ load'.step \notin Reading \cup {"fields"}
  BY <1>1, <1>2 DEF Staged, LoadedAsItWas, Reading
<1> QED
  BY <1>3, <1>4 DEF LoadInv

\* A request fails and the load with it
LEMMA LoadFailsKeeps == ASSUME LoadInv, LoadFails PROVE LoadInv'
<1>1. IsLoad(load)
  BY DEF LoadInv, LoadTyped
<1>2. load' = [step |-> "err", warned |-> load.warned, ids |-> load.ids, due |-> load.due,
               dated |-> load.dated, rows |-> load.rows]
  BY <1>1 DEF IsLoad, LoadFails
<1>3. LoadTyped'
  BY <1>1, <1>2 DEF LoadInv, LoadTyped, IsLoad, LoadFails
<1>4. Staged' /\ LoadedAsItWas' /\ load'.step \notin Reading \cup {"fields"}
  BY <1>2 DEF Staged, LoadedAsItWas, Reading
<1> QED
  BY <1>3, <1>4 DEF LoadInv

\* An answer to the query holds items that match, all of them below the cap.
LEMMA IdListsMatch ==
  ASSUME NEW list \in IdLists
  PROVE  /\ list \in Seq(WorkIds)
         /\ \A i \in Range(list) : Matches(i)
         /\ Len(list) = ResultCap \/ \A i \in WorkIds : Matches(i) => i \in Range(list)
<1> DEFINE M == {i \in WorkIds : Matches(i)}
<1>1. /\ list \in SeqOf(M, ResultCap)
      /\ Len(list) = ResultCap \/ \A i \in WorkIds : Matches(i) => i \in Range(list)
  BY DEF IdLists
<1>2. \A i \in M : i \in WorkIds /\ Matches(i)
  OBVIOUS
<1> HIDE DEF M
<1>3. PICK n \in 0..ResultCap : list \in [1..n -> M]
  BY <1>1 DEF SeqOf
<1>4. n \in Nat
  BY <1>3, HierarchyAssumption
<1>5. list \in [1..n -> WorkIds] /\ \A k \in 1..n : Matches(list[k])
  BY <1>2, <1>3
<1>6. list \in Seq(WorkIds) /\ DOMAIN list = 1..n
  BY <1>4, <1>5
<1>7. \A i \in Range(list) : Matches(i)
  BY <1>5, <1>6 DEF Range
<1> QED
  BY <1>1, <1>6, <1>7

\* The WIQL query answers with ids
LEMMA IdsReadKeeps == ASSUME LoadInv, IdsRead PROVE LoadInv'
<1>1. IsLoad(load) /\ DOMAIN load.rows = {} /\ load.step = "query"
  BY DEF LoadInv, LoadTyped, Staged, IdsRead
<1>2. PICK list \in IdLists : load' = [load EXCEPT !.step = "fields", !.ids = list, !.due = list]
  BY DEF IdsRead
<1>3. load' = [step |-> "fields", warned |-> load.warned, ids |-> list, due |-> list,
               dated |-> load.dated, rows |-> load.rows]
  BY <1>1, <1>2 DEF IsLoad
<1>4. /\ list \in Seq(WorkIds)
      /\ \A i \in Range(list) : Matches(i)
      /\ Len(list) = ResultCap \/ \A i \in WorkIds : Matches(i) => i \in Range(list)
  BY IdListsMatch
<1>5. LoadTyped'
  BY <1>1, <1>3, <1>4 DEF LoadInv, LoadTyped, IsLoad, IdsRead
<1>6. Staged' /\ LoadedAsItWas' /\ load'.step \notin Reading
  BY <1>1, <1>3 DEF Staged, LoadedAsItWas, Reading
<1>7. ASSUME NEW i \in WorkIds PROVE Asked(i)'
  <2>1. Matches(i)' <=> Matches(i)
    BY <1>3 DEF Matches, IdsRead
  <2>2. load'.ids = list
    BY <1>3
  <2> QED
    BY <1>4, <2>1, <2>2 DEF Asked
<1> QED
  BY <1>5, <1>6, <1>7 DEF LoadInv

\* Every batch is still due.
LEMMA FieldsReadKeeps == ASSUME LoadInv, FieldsRead PROVE LoadInv'
<1>1. IsLoad(load) /\ DOMAIN load.rows = {} /\ load.step = "fields" /\ load.due = load.ids
  BY DEF LoadInv, LoadTyped, Staged, FieldsRead
<1> DEFINE s == IF load.ids = << >> THEN "ok" ELSE "items"
           t == IF load.warned THEN {} ELSE team \cap DatedKinds
<1>2. load' = [load EXCEPT !.step = s, !.dated = t]
  BY DEF FieldsRead
<1>3. s \in {"ok", "items"} /\ (s = "ok" => load.ids = << >>)
  OBVIOUS
<1> HIDE DEF s, t
<1>4. load' = [step |-> s, warned |-> load.warned, ids |-> load.ids, due |-> load.due,
               dated |-> t, rows |-> load.rows]
  BY <1>1, <1>2 DEF IsLoad
<1>5. LoadTyped'
  BY <1>1, <1>4 DEF LoadInv, LoadTyped, IsLoad, FieldsRead
<1>6. Staged'
  <2>1. t = IF load'.warned THEN {} ELSE team' \cap DatedKinds
    BY <1>4 DEF t, FieldsRead
  <2> QED
    BY <1>1, <1>3, <1>4, <2>1 DEF Staged
<1>7. ASSUME NEW i \in WorkIds \ touched PROVE Asked(i)' /\ Asked(i)
  <2>1. Asked(i)
    BY <1>1 DEF LoadInv
  <2>2. (Matches(i)' <=> Matches(i)) /\ load'.ids = load.ids
    BY <1>4 DEF Matches, FieldsRead
  <2> QED
    BY <2>1, <2>2 DEF Asked
<1>8. ASSUME NEW i \in WorkIds \ touched, s = "items" PROVE Kept(i)'
  <2>1. /\ load'.step = "items" /\ load'.ids = load.ids /\ load'.due = load.ids
        /\ DOMAIN load'.rows = {}
    BY <1>1, <1>4, <1>8
  <2> QED
    BY <2>1 DEF Kept
<1>9. LoadedAsItWas'
  <2> SUFFICES ASSUME load'.step = "ok" PROVE LoadedAsItWas'
    BY DEF LoadedAsItWas
  <2>1. Range(load'.ids) = {} /\ DOMAIN load'.rows = {}
    BY <1>1, <1>3, <1>4, HierarchyAssumption, Batches DEF IsLoad
  <2> QED
    BY <1>7, <2>1 DEF LoadedAsItWas, Asked, FieldsRead
<1>10. touched' = touched
  BY DEF FieldsRead
<1> QED
  BY <1>3, <1>4, <1>5, <1>6, <1>7, <1>8, <1>9, <1>10 DEF LoadInv, Reading

-----------------------------------------------------------------------------
\* An untouched item of the query is in the area, so no answer leaves it out.
LEMMA DueAreHere ==
  ASSUME NEW i \in Chunk, Asked(i), i \in Range(load.ids)
  PROVE  i \in Here
  BY DEF Asked, Matches, Here

\* The rows of a batch.
LEMMA ItemsReadKeeps == ASSUME LoadInv, ItemsRead PROVE LoadInv'
<1>1. /\ IsLoad(load) /\ load.step = "items" /\ stock \in [WorkIds -> Item]
      /\ load.dated = IF load.warned THEN {} ELSE team \cap DatedKinds
      /\ Range(load.due) \subseteq Range(load.ids)
  BY DEF LoadInv, LoadTyped, Staged, Reading, ItemsRead
<1>2. /\ Rest \in Seq(WorkIds) /\ Chunk \cup Range(Rest) = Range(load.due)
      /\ Chunk \subseteq WorkIds /\ Range(<< >>) = {}
  BY <1>1, Batches DEF IsLoad
<1> DEFINE r == [i \in DOMAIN load.rows \cup Here |-> IF i \in Here THEN Row(i) ELSE load.rows[i]]
           d == IF Rest = << >> THEN load.ids ELSE Rest
           s == IF Rest = << >> THEN "links" ELSE "items"
<1>3. load' = [load EXCEPT !.rows = r, !.due = d, !.step = s]
  BY DEF ItemsRead
<1>4. s \in {"items", "links"} /\ (s = "items" => d = Rest) /\ (s = "links" => Rest = << >> /\ d = load.ids)
  OBVIOUS
<1>5. d \in Seq(WorkIds) /\ Range(d) \subseteq Range(load.ids)
  BY <1>1, <1>2, <1>4 DEF IsLoad
<1>6. Here \subseteq Chunk
  BY DEF Here
<1>7. /\ DOMAIN r = DOMAIN load.rows \cup Here
      /\ \A i \in DOMAIN r : r[i] = IF i \in Here THEN Row(i) ELSE load.rows[i]
  OBVIOUS
<1>8. \A i \in WorkIds : Row(i) \in RowType
  BY <1>1 DEF Row, RowType, Item
<1>9. DOMAIN r \subseteq WorkIds /\ r \in [DOMAIN r -> RowType]
  BY <1>1, <1>2, <1>6, <1>8 DEF IsLoad
<1> HIDE DEF r, d, s
<1>10. load' = [step |-> s, warned |-> load.warned, ids |-> load.ids, due |-> d,
                dated |-> load.dated, rows |-> r]
  BY <1>1, <1>3 DEF IsLoad
<1>11. stock' = stock /\ team' = team /\ touched' = touched /\ unread' = unread
  BY DEF ItemsRead
<1>12. LoadTyped'
  BY <1>1, <1>5, <1>9, <1>10, <1>11 DEF LoadInv, LoadTyped, IsLoad
<1>13. Staged'
  BY <1>1, <1>4, <1>5, <1>10, <1>11 DEF Staged
<1>14. ASSUME NEW i \in WorkIds \ touched PROVE Asked(i)' /\ Asked(i)
  <2>1. Asked(i)
    BY <1>1 DEF LoadInv, Reading
  <2>2. (Matches(i)' <=> Matches(i)) /\ load'.ids = load.ids
    BY <1>10, <1>11 DEF Matches
  <2> QED
    BY <2>1, <2>2 DEF Asked
<1>15. ASSUME NEW i \in WorkIds \ touched PROVE Kept(i)'
  <2>1. Kept(i) /\ Asked(i)
    BY <1>1, <1>14 DEF LoadInv, Reading
  <2>2. /\ load'.step = s /\ load'.ids = load.ids /\ load'.due = d /\ load'.dated = load.dated
        /\ load'.rows = r /\ stock' = stock /\ unread' = unread
    BY <1>10, <1>11
  <2>3. i \in DOMAIN r =>
          /\ i \in Range(load.ids)
          /\ r[i].kind = stock[i].kind /\ r[i].parent = stock[i].parent
          /\ r[i].dates = (stock[i].kind \in load.dated)
    <3>1. CASE i \in Here
      <4>1. r[i] = Row(i) /\ i \in Range(load.ids)
        BY <1>1, <1>2, <1>6, <1>7, <3>1
      <4>2. Row(i).dates = (stock[i].kind \in load.dated)
        BY Zenon DEF Row
      <4>3. Row(i).kind = stock[i].kind /\ Row(i).parent = stock[i].parent
        BY DEF Row
      <4> QED
        BY <4>1, <4>2, <4>3
    <3>2. CASE i \notin Here
      BY <1>7, <2>1, <3>2 DEF Kept
    <3> QED
      BY <3>1, <3>2
  <2>4. i \in Range(load.ids) /\ (s = "items" => i \notin Range(d)) => i \in DOMAIN r
    <3> SUFFICES ASSUME i \in Range(load.ids), s = "items" => i \notin Range(d)
                 PROVE  i \in DOMAIN r
      OBVIOUS
    <3>1. i \notin Range(Rest)
      BY <1>2, <1>4
    <3>2. CASE i \in Chunk
      BY <1>7, <2>1, <3>2, DueAreHere
    <3>3. CASE i \notin Chunk
      BY <1>1, <1>2, <1>7, <2>1, <3>1, <3>3 DEF Kept
    <3> QED
      BY <3>2, <3>3
  <2>5. s # "items" => Range(load.ids) \ (Range(d) \cup unread) = {}
    BY <1>4
  <2> QED
    BY <2>2, <2>3, <2>4, <2>5 DEF Kept
<1>16. LoadedAsItWas'
  BY <1>4, <1>10 DEF LoadedAsItWas
<1> QED
  BY <1>12, <1>13, <1>14, <1>15, <1>16, <1>11 DEF LoadInv

\* Parents outside the rows become no parent, and nothing else changes.
LEMMA AssembledRows ==
  ASSUME NEW rows, NEW S \in SUBSET WorkIds, rows \in [S -> RowType]
  PROVE  /\ Assembled(rows) \in [S -> RowType]
         /\ \A i \in S :
              /\ Assembled(rows)[i].kind = rows[i].kind /\ Assembled(rows)[i].preds = rows[i].preds
              /\ Assembled(rows)[i].dates = rows[i].dates
              /\ Assembled(rows)[i].parent = IF rows[i].parent \in S THEN rows[i].parent ELSE 0
<1>1. DOMAIN rows = S
  OBVIOUS
<1>2. Assembled(rows) = [i \in S |->
        [rows[i] EXCEPT !.parent = IF rows[i].parent \in S THEN rows[i].parent ELSE 0]]
  BY <1>1 DEF Assembled
<1>3. ASSUME NEW i \in S
      PROVE  /\ Assembled(rows)[i] \in RowType
             /\ Assembled(rows)[i].kind = rows[i].kind /\ Assembled(rows)[i].preds = rows[i].preds
             /\ Assembled(rows)[i].dates = rows[i].dates
             /\ Assembled(rows)[i].parent = IF rows[i].parent \in S THEN rows[i].parent ELSE 0
  <2> DEFINE row == rows[i]  q == IF rows[i].parent \in S THEN rows[i].parent ELSE 0
  <2>1. row \in RowType /\ q \in WorkIds \cup {0} /\ Assembled(rows)[i] = [row EXCEPT !.parent = q]
    BY <1>2
  <2> HIDE DEF row, q
  <2>2. /\ Assembled(rows)[i] \in RowType
        /\ Assembled(rows)[i].kind = row.kind /\ Assembled(rows)[i].preds = row.preds
        /\ Assembled(rows)[i].dates = row.dates /\ Assembled(rows)[i].parent = q
    BY <2>1 DEF RowType
  <2> QED
    BY <2>2 DEF row, q
<1> QED
  BY <1>2, <1>3

\* After a batch of relations, whichever rows came of it: they say of every item
\* what the rows before did, except for the links of the batch, which are right
\* or in unread.
LEMMA OnwardKeeps ==
  ASSUME LoadInv, load.step = "links", NEW rows, Onward(rows),
         stock' = stock, team' = team, touched' = touched, unread' \subseteq WorkIds,
         unread \subseteq unread', rows \in [DOMAIN load.rows -> RowType],
         \A i \in DOMAIN load.rows :
           /\ rows[i].kind = load.rows[i].kind /\ rows[i].parent = load.rows[i].parent
           /\ rows[i].dates = load.rows[i].dates,
         \A i \in (WorkIds \ touched) \cap DOMAIN load.rows : i \notin unread' =>
           rows[i].preds = IF i \in Chunk THEN stock[i].preds ELSE load.rows[i].preds
  PROVE  LoadInv'
<1> DEFINE S == DOMAIN load.rows
<1>1. /\ IsLoad(load) /\ stock \in [WorkIds -> Item] /\ S \subseteq WorkIds
      /\ load.dated = IF load.warned THEN {} ELSE team \cap DatedKinds
      /\ Range(load.due) \subseteq Range(load.ids)
  BY DEF LoadInv, LoadTyped, Staged, Reading, IsLoad
<1>2. /\ Rest \in Seq(WorkIds) /\ Chunk \cup Range(Rest) = Range(load.due) /\ Range(<< >>) = {}
  BY <1>1, Batches DEF IsLoad
<1> DEFINE r == IF Rest = << >> /\ ~load.warned THEN Assembled(rows) ELSE rows
           s == IF Rest # << >> THEN "links" ELSE IF load.warned THEN "discover" ELSE "ok"
<1>3. load' = [load EXCEPT !.rows = r, !.due = Rest, !.step = s]
  BY DEF Onward
<1>4. /\ s \in {"links", "discover", "ok"}
      /\ s = "links" => Rest # << >>
      /\ s = "discover" => Rest = << >> /\ load.warned
      /\ s = "ok" => Rest = << >> /\ ~load.warned /\ r = Assembled(rows)
      /\ s # "ok" => r = rows
  BY <1>1 DEF IsLoad
<1>5. /\ Assembled(rows) \in [S -> RowType]
      /\ \A i \in S :
           /\ Assembled(rows)[i].kind = rows[i].kind /\ Assembled(rows)[i].preds = rows[i].preds
           /\ Assembled(rows)[i].dates = rows[i].dates
           /\ Assembled(rows)[i].parent = IF rows[i].parent \in S THEN rows[i].parent ELSE 0
  BY <1>1, AssembledRows
<1>6. r \in [S -> RowType] /\ DOMAIN r = S
  BY <1>4, <1>5
<1> HIDE DEF r, s
<1>7. load' = [step |-> s, warned |-> load.warned, ids |-> load.ids, due |-> Rest,
               dated |-> load.dated, rows |-> r]
  BY <1>1, <1>3 DEF IsLoad
<1> DEFINE l == load'
<1>8. /\ l.step = s /\ l.warned = load.warned /\ l.ids = load.ids /\ l.due = Rest
      /\ l.dated = load.dated /\ l.rows = r /\ DOMAIN l.rows = S
  BY <1>6, <1>7
<1>9. LoadTyped'
  BY <1>1, <1>2, <1>6, <1>7 DEF LoadInv, LoadTyped, IsLoad
<1>10. Staged'
  BY <1>1, <1>2, <1>4, <1>8 DEF Staged, Reading
<1>11. ASSUME NEW i \in WorkIds \ touched
       PROVE /\ Asked(i)' /\ Asked(i) /\ (Matches(i)' <=> Matches(i)) /\ Kept(i)
  <2>1. Asked(i) /\ Kept(i)
    BY DEF LoadInv, Reading
  <2>2. (Matches(i)' <=> Matches(i)) /\ l.ids = load.ids
    BY <1>8 DEF Matches
  <2> QED
    BY <2>1, <2>2 DEF Asked
<1>12. ASSUME NEW i \in WorkIds \ touched, i \in Range(load.ids) \ (Range(Rest) \cup unread')
       PROVE  i \in S /\ rows[i].preds = stock[i].preds
  <2>1. i \in S
    BY <1>11, <1>12 DEF Kept
  <2>2. rows[i].preds = IF i \in Chunk THEN stock[i].preds ELSE load.rows[i].preds
    BY <1>12, <2>1
  <2>3. i \notin Chunk => i \in Range(load.ids) \ (Range(load.due) \cup unread)
    BY <1>2, <1>12
  <2>4. i \notin Chunk => load.rows[i].preds = stock[i].preds
    BY <1>11, <2>3 DEF Kept
  <2> QED
    BY <2>1, <2>2, <2>4
<1>13. ASSUME NEW i \in WorkIds \ touched, s # "ok" PROVE Kept(i)'
  <2>1. i \in S => /\ i \in Range(load.ids)
                   /\ rows[i].kind = stock[i].kind /\ rows[i].parent = stock[i].parent
                   /\ rows[i].dates = (stock[i].kind \in load.dated)
    BY <1>11 DEF Kept
  <2>2. i \in Range(load.ids) => i \in S
    BY <1>11 DEF Kept
  <2>3. l.rows = rows /\ l.step # "items"
    BY <1>4, <1>8, <1>13
  <2> QED
    BY <1>8, <1>12, <2>1, <2>2, <2>3 DEF Kept
<1>14. LoadedAsItWas'
  <2> SUFFICES ASSUME s = "ok", NEW i \in WorkIds \ touched
               PROVE  /\ i \in S => Matches(i) /\ Faithful(i)'
                      /\ Matches(i) => i \in S \/ Len(load.ids) = ResultCap
    BY <1>8, <1>11 DEF LoadedAsItWas
  <2>1. i \in S => i \in Range(load.ids) /\ Matches(i)
    BY <1>11 DEF Kept, Asked
  <2>2. Matches(i) => i \in S \/ Len(load.ids) = ResultCap
    BY <1>11 DEF Kept, Asked
  <2>3. ASSUME i \in S PROVE Faithful(i)'
    <3>1. ~load.warned /\ load.dated = team \cap DatedKinds /\ stock[i].kind \in team
      BY <1>1, <1>4, <2>1, <2>3 DEF Matches
    <3>2. /\ load.rows[i].kind = stock[i].kind /\ load.rows[i].parent = stock[i].parent
          /\ load.rows[i].dates = (stock[i].kind \in load.dated)
      BY <1>11, <2>3 DEF Kept
    <3>3. /\ r[i].kind = rows[i].kind /\ r[i].preds = rows[i].preds /\ r[i].dates = rows[i].dates
          /\ r[i].parent = IF rows[i].parent \in S THEN rows[i].parent ELSE 0
      BY <1>4, <1>5, <2>3
    <3>4. r[i].kind = stock[i].kind /\ r[i].parent = IF stock[i].parent \in S THEN stock[i].parent ELSE 0
      BY <2>3, <3>2, <3>3
    <3>5. r[i].dates = (stock[i].kind \in DatedKinds)
      BY <2>3, <3>1, <3>2, <3>3
    <3>6. i \notin unread' => r[i].preds = stock[i].preds
      BY <1>2, <1>4, <1>12, <2>1, <2>3, <3>3
    <3> QED
      BY <1>8, <3>4, <3>5, <3>6 DEF Faithful
  <2> QED
    BY <2>1, <2>2, <2>3
<1> QED
  BY <1>4, <1>8, <1>9, <1>10, <1>11, <1>13, <1>14 DEF LoadInv, Reading

\* A batch of relations that arrives, and one that fails.
LEMMA LinksReadKeeps == ASSUME LoadInv, LinksRead PROVE LoadInv'
<1> DEFINE S == DOMAIN load.rows
           rows == [i \in S |->
             IF i \in Here THEN [load.rows[i] EXCEPT !.preds = stock[i].preds] ELSE load.rows[i]]
<1>1. /\ load.step = "links" /\ stock' = stock /\ team' = team /\ touched' = touched
      /\ unread' = unread /\ Onward(rows)
  BY DEF LinksRead
<1>2. /\ load.rows \in [S -> RowType] /\ S \subseteq WorkIds /\ stock \in [WorkIds -> Item]
      /\ unread \subseteq WorkIds
  BY DEF LoadInv, LoadTyped, IsLoad
<1>3. ASSUME NEW i \in S
      PROVE  /\ rows[i] \in RowType
             /\ rows[i].kind = load.rows[i].kind /\ rows[i].parent = load.rows[i].parent
             /\ rows[i].dates = load.rows[i].dates
             /\ rows[i].preds = IF i \in Here THEN stock[i].preds ELSE load.rows[i].preds
  <2> DEFINE row == load.rows[i]  q == stock[i].preds  new == [row EXCEPT !.preds = q]
  <2>1. row \in RowType /\ q \in SUBSET WorkIds
    BY <1>2 DEF Item
  <2>2. rows[i] = IF i \in Here THEN new ELSE row
    OBVIOUS
  <2>3. new \in RowType /\ new.kind = row.kind /\ new.parent = row.parent /\ new.dates = row.dates
        /\ new.preds = q
    <3> HIDE DEF row, q
    <3> QED
      BY <2>1 DEF RowType
  <2> HIDE DEF new, rows
  <2> QED
    BY <2>1, <2>2, <2>3
<1>4. rows \in [S -> RowType]
  BY <1>3
<1> HIDE DEF rows
<1>5. ASSUME NEW i \in (WorkIds \ touched) \cap S
      PROVE  i \in Here <=> i \in Chunk
  <2>1. Asked(i) /\ i \in Range(load.ids)
    BY <1>1 DEF LoadInv, Reading, Kept
  <2> QED
    BY <2>1, DueAreHere DEF Here
<1> QED
  BY <1>1, <1>2, <1>3, <1>4, <1>5, OnwardKeeps

\* A batch of links fails: the load warns and goes on
LEMMA LinksFailKeeps == ASSUME LoadInv, LinksFail PROVE LoadInv'
<1>1. /\ load.step = "links" /\ stock' = stock /\ team' = team /\ touched' = touched
      /\ unread' = unread \cup Chunk /\ Onward(load.rows)
  BY DEF LinksFail
<1>2. load.rows \in [DOMAIN load.rows -> RowType] /\ unread \subseteq WorkIds /\ Chunk \subseteq WorkIds
  BY Batches DEF LoadInv, LoadTyped, IsLoad
<1> QED
  BY <1>1, <1>2, OnwardKeeps

\* The dates of a load with a warning.
LEMMA DiscoverKeeps == ASSUME LoadInv, Discover PROVE LoadInv'
<1> DEFINE S == DOMAIN load.rows
           rows == [i \in S |-> [load.rows[i] EXCEPT !.dates = load.rows[i].kind \in DatedKinds]]
<1>1. /\ IsLoad(load) /\ load.step = "discover" /\ load.warned /\ load.due = << >>
      /\ S \subseteq WorkIds /\ load.rows \in [S -> RowType] /\ Range(<< >>) = {}
  BY Batches DEF LoadInv, LoadTyped, Staged, IsLoad, Discover
<1>2. stock' = stock /\ team' = team /\ touched' = touched /\ unread' = unread
  BY DEF Discover
<1>3. ASSUME NEW i \in S
      PROVE  /\ rows[i] \in RowType
             /\ rows[i].kind = load.rows[i].kind /\ rows[i].parent = load.rows[i].parent
             /\ rows[i].preds = load.rows[i].preds
             /\ rows[i].dates = (load.rows[i].kind \in DatedKinds)
  <2> DEFINE row == load.rows[i]  q == row.kind \in DatedKinds  new == [row EXCEPT !.dates = q]
  <2>1. row \in RowType /\ q \in BOOLEAN /\ rows[i] = new
    BY <1>1
  <2>2. new \in RowType /\ new.kind = row.kind /\ new.parent = row.parent /\ new.preds = row.preds
        /\ new.dates = q
    <3> HIDE DEF row, q
    <3> QED
      BY <2>1 DEF RowType
  <2> HIDE DEF new, rows
  <2> QED
    BY <2>1, <2>2
<1>4. rows \in [S -> RowType]
  BY <1>3
<1>5. load' = [load EXCEPT !.step = "ok", !.rows = Assembled(rows)]
  BY DEF Discover
<1> HIDE DEF rows
<1>6. load' = [step |-> "ok", warned |-> load.warned, ids |-> load.ids, due |-> load.due,
               dated |-> load.dated, rows |-> Assembled(rows)]
  BY <1>1, <1>5 DEF IsLoad
<1>7. /\ Assembled(rows) \in [S -> RowType]
      /\ \A i \in S :
           /\ Assembled(rows)[i].kind = rows[i].kind /\ Assembled(rows)[i].preds = rows[i].preds
           /\ Assembled(rows)[i].dates = rows[i].dates
           /\ Assembled(rows)[i].parent = IF rows[i].parent \in S THEN rows[i].parent ELSE 0
  BY <1>1, <1>4, AssembledRows
<1>8. DOMAIN Assembled(rows) = S
  BY <1>7
<1>9. LoadTyped' /\ Staged' /\ load'.step = "ok"
  BY <1>1, <1>2, <1>6, <1>7, <1>8 DEF LoadInv, LoadTyped, IsLoad, Staged, Reading
<1>10. ASSUME NEW i \in WorkIds \ touched
       PROVE  /\ i \in S => Matches(i)' /\ Faithful(i)'
              /\ Matches(i)' => i \in S \/ Len(load.ids) = ResultCap
  <2>1. Asked(i) /\ Kept(i) /\ (Matches(i)' <=> Matches(i))
    BY <1>1, <1>2, <1>6 DEF LoadInv, Reading, Matches
  <2>2. i \in S => i \in Range(load.ids) /\ Matches(i)
    BY <2>1 DEF Kept, Asked
  <2>3. Matches(i) => i \in S \/ Len(load.ids) = ResultCap
    BY <1>1, <2>1 DEF Kept, Asked
  <2>4. ASSUME i \in S PROVE Faithful(i)'
    <3> DEFINE row == Assembled(rows)[i]
    <3>1. load.rows[i].kind = stock[i].kind /\ load.rows[i].parent = stock[i].parent
      BY <2>1, <2>4 DEF Kept
    <3>2. /\ row.kind = stock[i].kind
          /\ row.parent = IF stock[i].parent \in S THEN stock[i].parent ELSE 0
      BY <1>3, <1>7, <2>4, <3>1
    <3>3. row.dates = (stock[i].kind \in DatedKinds)
      BY <1>3, <1>7, <2>4, <3>1
    <3>4. i \notin unread => row.preds = stock[i].preds
      <4>1. i \notin unread => load.rows[i].preds = stock[i].preds
        BY <1>1, <2>1, <2>2, <2>4 DEF Kept
      <4> QED
        BY <1>3, <1>7, <2>4, <4>1
    <3>5. load'.rows[i] = row /\ DOMAIN load'.rows = S
      BY <1>6, <1>8
    <3> HIDE DEF row
    <3> QED
      BY <1>2, <3>2, <3>3, <3>4, <3>5 DEF Faithful
  <2> QED
    BY <2>1, <2>2, <2>3, <2>4
<1>11. LoadedAsItWas'
  <2>1. load'.ids = load.ids /\ DOMAIN load'.rows = S
    BY <1>6, <1>8
  <2> QED
    BY <1>2, <1>10, <2>1 DEF LoadedAsItWas
<1> QED
  BY <1>9, <1>11 DEF LoadInv, Reading

-----------------------------------------------------------------------------
\* An edit leaves an item an item.
LEMMA EditsAreItems == ASSUME NEW old \in Item PROVE Edits(old) \subseteq Item
<1>1. ASSUME NEW k \in Kinds PROVE [old EXCEPT !.kind = k] \in Item
  BY DEF Item
<1>2. ASSUME NEW p \in WorkIds \cup {0} PROVE [old EXCEPT !.parent = p] \in Item
  BY DEF Item
<1>3. ASSUME NEW p \in WorkIds
      PROVE  [old EXCEPT !.preds = (@ \cup {p}) \ (@ \cap {p})] \in Item
  <2> DEFINE q == (old.preds \cup {p}) \ (old.preds \cap {p})
  <2>1. q \in SUBSET WorkIds
    BY DEF Item
  <2> HIDE DEF q
  <2>2. [old EXCEPT !.preds = q] \in Item
    BY <2>1 DEF Item
  <2> QED
    BY <2>2 DEF q
<1>4. ASSUME NEW a \in {"area", "elsewhere", "bin"} PROVE [old EXCEPT !.at = a] \in Item
  BY DEF Item
<1> QED
  BY <1>1, <1>2, <1>3, <1>4 DEF Edits

\* An edit of another user says nothing about any other item.
LEMMA OthersMoveKeeps ==
  ASSUME LoadInv, NEW i \in WorkIds, NEW new \in Edits(stock[i]), OthersMove(i, new)
  PROVE  LoadInv'
<1>1. /\ stock' = [stock EXCEPT ![i] = new] /\ touched' = touched \cup {i}
      /\ team' = team /\ load' = load /\ unread' = unread
  BY DEF OthersMove
<1>2. stock \in [WorkIds -> Item] /\ touched \subseteq WorkIds
  BY DEF LoadInv, LoadTyped
<1>3. new \in Item
  BY <1>2, EditsAreItems
<1>4. stock' \in [WorkIds -> Item] /\ \A j \in WorkIds \ touched' : stock'[j] = stock[j] /\ j \notin touched
  BY <1>1, <1>2, <1>3
<1>5. LoadTyped' /\ Staged'
  BY <1>1, <1>2, <1>4 DEF LoadInv, LoadTyped, IsLoad, Staged, Reading
<1>6. ASSUME NEW j \in WorkIds \ touched'
      PROVE  /\ (Matches(j)' <=> Matches(j)) /\ (Asked(j)' <=> Asked(j))
             /\ (Kept(j)' <=> Kept(j)) /\ (Faithful(j)' <=> Faithful(j))
  <2>1. Matches(j)' <=> Matches(j)
    BY <1>1, <1>4 DEF Matches
  <2>2. (Kept(j)' <=> Kept(j)) /\ (Faithful(j)' <=> Faithful(j))
    BY <1>1, <1>4 DEF Kept, Faithful
  <2>3. Asked(j)' <=> Asked(j)
    BY <1>1, <2>1 DEF Asked
  <2> QED
    BY <2>1, <2>2, <2>3
<1>7. LoadedAsItWas'
  BY <1>1, <1>4, <1>6 DEF LoadInv, LoadedAsItWas
<1> QED
  BY <1>1, <1>4, <1>5, <1>6, <1>7 DEF LoadInv

\* No step of a load breaks the invariant
LEMMA LoadInvStep == LoadInv /\ [LoadNext]_loadVars => LoadInv'
<1> SUFFICES ASSUME LoadInv, [LoadNext]_loadVars PROVE LoadInv'
  OBVIOUS
<1>1. CASE BacklogsRead  BY <1>1, BacklogsReadKeeps
<1>2. CASE BacklogsFail  BY <1>2, BacklogsFailKeeps
<1>3. CASE IdsRead       BY <1>3, IdsReadKeeps
<1>4. CASE FieldsRead    BY <1>4, FieldsReadKeeps
<1>5. CASE ItemsRead     BY <1>5, ItemsReadKeeps
<1>6. CASE LinksRead     BY <1>6, LinksReadKeeps
<1>7. CASE LinksFail     BY <1>7, LinksFailKeeps
<1>8. CASE Discover      BY <1>8, DiscoverKeeps
<1>9. CASE LoadFails     BY <1>9, LoadFailsKeeps
<1>10. CASE \E i \in WorkIds : \E new \in Edits(stock[i]) : OthersMove(i, new)
  BY <1>10, OthersMoveKeeps
<1>11. CASE UNCHANGED loadVars
  BY <1>11 DEF loadVars, LoadInv, LoadTyped, IsLoad, Staged, Reading, Asked, Kept, Matches,
               LoadedAsItWas, Faithful
<1> QED
  BY <1>1, <1>2, <1>3, <1>4, <1>5, <1>6, <1>7, <1>8, <1>9, <1>10, <1>11 DEF LoadNext

\* A load that answers Ok shows every item of the team that nobody edited during
\* it as the server holds it, and no other untouched item: load_hierarchy, for
\* any items, batches, edits of others and failed requests.
THEOREM UntouchedAreLoaded == LoadSpec => []LoadedAsItWas
<1>1. LoadInv => LoadedAsItWas
  BY DEF LoadInv
<1> QED
  BY LoadInvInit, LoadInvStep, <1>1, PTL DEF LoadSpec

-----------------------------------------------------------------------------
(***************************************************************************)
(* The coalescing loop, from every queue.  The loop is part of the way:    *)
(* behind its index are the saves of the queue that no later one           *)
(* supersedes, with their final children; ahead are the saves it has not   *)
(* looked at, and the first of each item holds what was parked on it.      *)
(***************************************************************************)
\* A save with other children
WithKids(s, kids) == [s EXCEPT !.kids = kids]

\* The children parked for item i when the loop has passed the first c saves of q
Parked(q, i, c) ==
  LET shift == SelectLastInSubSeq(q, 1, c, LAMBDA s : s.id = i /\ s.kids # << >>)
  IN  IF shift = 0 THEN << >> ELSE q[shift].kids

\* The children of q[n] when the loop is at q[c]: the first save of an item that
\* is still ahead holds what was parked on it.
KidsAt(q, n, c) ==
  IF q[n].kids # << >> THEN q[n].kids
  ELSE IF \E m \in c..(n - 1) : q[m].id = q[n].id THEN << >>
  ELSE Parked(q, q[n].id, c - 1)

\* The loop at position i of queue r, d saves of q having been dropped: what is
\* ahead are the saves of q; what is behind, those of q that no later one
\* supersedes, at the positions at.
Ahead(q, r, i, d) ==
  \A k \in i..Len(r) : r[k] = WithKids(q[k + d], KidsAt(q, k + d, i + d))

Passed(q, c) == {n \in 1..(c - 1) : NextSame(q, n) = 0}

Behind(q, r, i, d, at) ==
  /\ at \in [1..(i - 1) -> Passed(q, i + d)]
  /\ \A k, l \in 1..(i - 1) : k < l => at[k] < at[l]
  /\ \A n \in Passed(q, i + d) : \E k \in 1..(i - 1) : at[k] = n
  /\ \A k \in 1..(i - 1) : r[k] = WithKids(q[at[k]], Parked(q, q[at[k]].id, at[k]))

Partway(q, r, i, d) ==
  /\ r \in Seq(Save) /\ i \in Nat /\ d \in Nat /\ i >= 1
  /\ Len(q) = Len(r) + d /\ i <= Len(r) + 1
  /\ Ahead(q, r, i, d)
  /\ \E at : Behind(q, r, i, d, at)

Loop == INSTANCE LeftFold WITH Step <- CoalesceTurn

\* What WithKids does to the fields
LEMMA KidsFields ==
  ASSUME NEW s \in Save, NEW a \in Seq(Kid), NEW b \in Seq(Kid)
  PROVE  /\ WithKids(s, a) \in Save /\ WithKids(s, a).id = s.id /\ WithKids(s, a).kids = a
         /\ WithKids(WithKids(s, a), b) = WithKids(s, b)
         /\ WithKids(s, s.kids) = s
<1>1. s = [id |-> s.id, after |-> s.after, prev |-> s.prev, role |-> s.role, kids |-> s.kids]
  BY DEF Save
<1> QED
  BY <1>1 DEF Save, WithKids

\* The children of a save
LEMMA KidsType == \A s \in Save : s.kids \in Seq(Kid)
BY DEF Save

\* A save may have none
LEMMA NoKids == << >> \in Seq(Kid)
OBVIOUS

\* adopt_cascade_from_superseded: a save without children takes the dropped one's.
LEMMA AdoptFields ==
  ASSUME NEW s \in Save, NEW t \in Save
  PROVE  Adopt(s, t) = IF s.kids = << >> THEN WithKids(s, t.kids) ELSE s
BY DEF Adopt, WithKids

\* RemoveAt closes the gap.
LEMMA Removed ==
  ASSUME NEW q \in Seq(Save), NEW m \in 1..Len(q)
  PROVE  /\ RemoveAt(q, m) \in Seq(Save) /\ Len(RemoveAt(q, m)) = Len(q) - 1
         /\ \A k \in 1..(Len(q) - 1) : RemoveAt(q, m)[k] = IF k < m THEN q[k] ELSE q[k + 1]
<1> DEFINE a == SubSeq(q, 1, m - 1)
           b == SubSeq(q, m + 1, Len(q))
<1>1. a \in Seq(Save) /\ Len(a) = m - 1 /\ \A n \in 1..(m - 1) : a[n] = q[n]
  OBVIOUS
<1>2. b \in Seq(Save) /\ Len(b) = Len(q) - m /\ \A n \in 1..(Len(q) - m) : b[n] = q[n + m]
  OBVIOUS
<1>3. RemoveAt(q, m) = a \o b
  BY DEF RemoveAt
<1> HIDE DEF a, b
<1>4. a \o b \in Seq(Save) /\ Len(a \o b) = Len(q) - 1
  <2>1. a \in Seq(Save) /\ b \in Seq(Save)
    BY <1>1, <1>2
  <2>2. a \o b \in Seq(Save) /\ Len(a \o b) = Len(a) + Len(b)
    BY <2>1
  <2>3. (m - 1) + (Len(q) - m) = Len(q) - 1
    BY Len(q) \in Nat
  <2> QED
    BY <1>1, <1>2, <2>2, <2>3
<1>5. ASSUME NEW n \in 1..(Len(q) - 1) PROVE (a \o b)[n] = IF n < m THEN q[n] ELSE q[n + 1]
  <2>1. CASE n < m
    BY <1>1, <1>2, <2>1
  <2>2. CASE ~(n < m)
    <3>1. (a \o b)[n] = b[n - (m - 1)]
      BY <1>1, <1>2, <2>2
    <3>2. n - (m - 1) \in 1..(Len(q) - m) /\ (n - (m - 1)) + m = n + 1
      BY <2>2
    <3> QED
      BY <1>2, <2>2, <3>1, <3>2
  <2> QED
    BY <2>1, <2>2
<1> QED
  BY <1>3, <1>4, <1>5

\* The next save of an item: none, or the nearest.
LEMMA NextFound ==
  ASSUME NEW q \in Seq(Save), NEW i \in 1..Len(q)
  PROVE  \/ NextSame(q, i) = 0 /\ \A j \in (i + 1)..Len(q) : q[j].id # q[i].id
         \/ /\ NextSame(q, i) \in (i + 1)..Len(q)
            /\ q[NextSame(q, i)].id = q[i].id
            /\ \A j \in (i + 1)..(NextSame(q, i) - 1) : q[j].id # q[i].id
<1> DEFINE I == {j \in (i + 1)..Len(q) : q[j].id = q[i].id}
<1>1. NextSame(q, i) = IF I # {} THEN Min(I) ELSE 0
  BY DEF NextSame, SelectInSubSeq
<1>2. CASE I = {}
  BY <1>1, <1>2
<1>3. CASE I # {}
  <2>1. I \in SUBSET (1..Len(q)) /\ Len(q) \in Nat
    OBVIOUS
  <2> HIDE DEF I
  <2>2. PICK x \in I : \A y \in I : x <= y
    BY <1>3, <2>1, Loop!FirstExists
  <2>3. \A y \in I : (\A z \in I : y <= z) => y = x
    <3> TAKE y \in I
    <3> HAVE \A z \in I : y <= z
    <3>1. x <= y /\ y <= x /\ x \in Int /\ y \in Int
      BY <2>1, <2>2
    <3> QED
      BY <3>1
  <2>4. Min(I) = x
    BY <2>2, <2>3 DEF Min
  <2>5. NextSame(q, i) = x
    BY <1>1, <1>3, <2>4
  <2>6. x \in (i + 1)..Len(q) /\ q[x].id = q[i].id
    BY DEF I
  <2>7. ASSUME NEW j \in (i + 1)..(x - 1) PROVE q[j].id # q[i].id
    <3>1. j \in (i + 1)..Len(q) /\ j < x
      BY <2>6
    <3>2. j \notin I
      <4>1. ~(x <= j)
        BY <2>6, <3>1
      <4> QED
        BY <2>2, <4>1
    <3> QED
      BY <3>1, <3>2 DEF I
  <2> QED
    BY <2>5, <2>6, <2>7
<1> QED
  BY <1>2, <1>3

\* What is parked for an item changes only when a Shift-drag of it is passed.
LEMMA ParkedTurn ==
  ASSUME NEW q \in Seq(Save), NEW i, NEW c \in 1..Len(q)
  PROVE  Parked(q, i, c) = IF q[c].id = i /\ q[c].kids # << >> THEN q[c].kids
                           ELSE Parked(q, i, c - 1)
<1> DEFINE I(n) == {m \in 1..n : q[m].id = i /\ q[m].kids # << >>}
           shift(n) == IF I(n) # {} THEN Max(I(n)) ELSE 0
<1>1. \A n : Parked(q, i, n) = IF shift(n) = 0 THEN << >> ELSE q[shift(n)].kids
  BY DEF Parked, SelectLastInSubSeq
<1>2. c \in Nat /\ c \in 1..c
  OBVIOUS
<1>3. CASE q[c].id = i /\ q[c].kids # << >>
  <2> DEFINE s == I(c)
  <2>1. c \in s /\ s \subseteq 0..c
    BY <1>2, <1>3
  <2> HIDE DEF s
  <2>2. Max(s) = c
    BY <1>2, <2>1, Loop!MaxIsLast DEF Max, Loop!Max
  <2>3. shift(c) = c /\ c # 0
    BY <1>2, <2>1, <2>2 DEF s
  <2> HIDE DEF shift
  <2> QED
    BY <1>1, <1>3, <2>3
<1>4. CASE ~(q[c].id = i /\ q[c].kids # << >>)
  <2>1. I(c) = I(c - 1)
    BY <1>4
  <2> HIDE DEF I
  <2>2. shift(c) = shift(c - 1)
    BY <2>1
  <2> HIDE DEF shift
  <2> QED
    BY <1>1, <1>4, <2>2
<1> QED
  BY <1>3, <1>4

\* What is parked is a list of children
LEMMA ParkedType ==
  ASSUME NEW q \in Seq(Save), NEW i
  PROVE  \A c \in 0..Len(q) : Parked(q, i, c) \in Seq(Kid)
<1> DEFINE S == {c \in Nat : c <= Len(q) => Parked(q, i, c) \in Seq(Kid)}
<1>1. 0 \in S
  <2>1. {m \in 1..0 : q[m].id = i /\ q[m].kids # << >>} = {}
    OBVIOUS
  <2>2. Parked(q, i, 0) = << >>
    BY <2>1 DEF Parked, SelectLastInSubSeq
  <2> QED
    BY <2>2, NoKids
<1>2. ASSUME NEW c \in Nat, c \in S PROVE c + 1 \in S
  <2> SUFFICES ASSUME c + 1 <= Len(q) PROVE Parked(q, i, c + 1) \in Seq(Kid)
    OBVIOUS
  <2>1. c + 1 \in 1..Len(q) /\ (c + 1) - 1 = c /\ Parked(q, i, c) \in Seq(Kid)
    BY <1>2
  <2>2. q[c + 1].kids \in Seq(Kid)
    BY <2>1, KidsType
  <2> QED
    BY <2>1, <2>2, ParkedTurn
<1> HIDE DEF S
<1>3. \A c \in Nat : c \in S
  BY <1>1, <1>2, Loop!Induction
<1> QED
  BY <1>3, Len(q) \in Nat DEF S

LEMMA KidsAtType ==
  ASSUME NEW q \in Seq(Save), NEW c \in 1..(Len(q) + 1), NEW n \in c..Len(q)
  PROVE  KidsAt(q, n, c) \in Seq(Kid)
<1>1. n \in 1..Len(q) /\ c - 1 \in 0..Len(q)
  OBVIOUS
<1>2. q[n].kids \in Seq(Kid) /\ << >> \in Seq(Kid)
  BY <1>1, KidsType, NoKids
<1> QED
  BY <1>1, <1>2, ParkedType DEF KidsAt

\* The save the loop is at holds all that was parked for its item
LEMMA KidsHere ==
  ASSUME NEW q \in Seq(Save), NEW c \in 1..Len(q)
  PROVE  KidsAt(q, c, c) = Parked(q, q[c].id, c)
<1>1. c..(c - 1) = {}
  OBVIOUS
<1> QED
  BY <1>1, ParkedTurn DEF KidsAt

\* A save that is kept moves from what is ahead to what is behind.
LEMMA KeepsOn ==
  ASSUME NEW q \in Seq(Save), NEW r, NEW i, NEW d, Partway(q, r, i, d),
         i <= Len(r), NextSame(r, i) = 0
  PROVE  Partway(q, r, i + 1, d)
<1>1. /\ r \in Seq(Save) /\ i \in Nat /\ d \in Nat /\ i >= 1 /\ i \in 1..Len(r)
      /\ Len(q) = Len(r) + d /\ Len(r) \in Nat /\ Len(q) \in Nat
  BY DEF Partway
<1> DEFINE c == i + d
<1>2. /\ c \in 1..Len(q) /\ c \in Nat /\ i + 1 \in Nat /\ (i + 1) + d = c + 1 /\ (i + 1) - 1 = i
      /\ i + 1 <= Len(r) + 1 /\ i + 1 >= 1 /\ (c + 1) - 1 = c
  BY <1>1
<1>3. \A k \in i..Len(r) : r[k] = WithKids(q[k + d], KidsAt(q, k + d, c))
  BY DEF Partway, Ahead
<1>4. ASSUME NEW k \in i..Len(r) PROVE r[k].id = q[k + d].id
  <2>1. k + d \in c..Len(q) /\ k + d \in 1..Len(q) /\ c \in 1..(Len(q) + 1)
    BY <1>1
  <2>2. KidsAt(q, k + d, c) \in Seq(Kid) /\ q[k + d] \in Save
    BY <2>1, KidsAtType
  <2> QED
    BY <1>3, <2>2, KidsFields, NoKids
<1>5. ASSUME NEW n \in (c + 1)..Len(q) PROVE q[n].id # q[c].id
  <2> DEFINE k == n - d
  <2>1. k \in (i + 1)..Len(r) /\ k \in i..Len(r) /\ i \in i..Len(r) /\ k + d = n
    BY <1>1
  <2>2. r[k].id # r[i].id
    BY <1>1, <2>1, NextFound
  <2>3. r[k].id = q[k + d].id /\ r[i].id = q[c].id
    BY <1>4, <2>1
  <2> QED
    BY <2>1, <2>2, <2>3
<1>6. NextSame(q, c) = 0
  <2>1. c \in 1..Len(q)
    BY <1>2
  <2> HIDE DEF c
  <2>2. ~(NextSame(q, c) \in (c + 1)..Len(q) /\ q[NextSame(q, c)].id = q[c].id)
    BY <1>5
  <2> QED
    BY <2>1, <2>2, NextFound
<1>7. Ahead(q, r, i + 1, d)
  <2> SUFFICES ASSUME NEW k \in (i + 1)..Len(r)
               PROVE  r[k] = WithKids(q[k + d], KidsAt(q, k + d, (i + 1) + d))
    BY DEF Ahead
  <2> DEFINE n == k + d
  <2>1. k \in i..Len(r) /\ n \in (c + 1)..Len(q) /\ n \in 1..Len(q)
    BY <1>1
  <2>2. q[n].id # q[c].id
    BY <1>5, <2>1
  <2>3. KidsAt(q, n, c) = KidsAt(q, n, c + 1)
    <3>1. c..(n - 1) = {c} \cup ((c + 1)..(n - 1))
      BY <1>1, <2>1
    <3>2. Parked(q, q[n].id, c) = Parked(q, q[n].id, c - 1)
      BY <1>2, <2>2, ParkedTurn
    <3>3. (c + 1) - 1 = c
      BY <1>2
    <3> HIDE DEF c, n
    <3>4. (\E m \in c..(n - 1) : q[m].id = q[n].id) <=> (\E m \in (c + 1)..(n - 1) : q[m].id = q[n].id)
      BY <2>2, <3>1
    <3> QED
      BY <3>2, <3>3, <3>4 DEF KidsAt
  <2> QED
    BY <1>2, <1>3, <2>1, <2>3
<1>8. \E at : Behind(q, r, i + 1, d, at)
  <2>1. PICK at : Behind(q, r, i, d, at)
    BY DEF Partway
  <2> DEFINE on == [k \in 1..i |-> IF k = i THEN c ELSE at[k]]
  <2>2. /\ at \in [1..(i - 1) -> Passed(q, c)]
        /\ \A k, l \in 1..(i - 1) : k < l => at[k] < at[l]
        /\ \A n \in Passed(q, c) : \E k \in 1..(i - 1) : at[k] = n
        /\ \A k \in 1..(i - 1) : r[k] = WithKids(q[at[k]], Parked(q, q[at[k]].id, at[k]))
    BY <2>1 DEF Behind
  <2>3. on[i] = c /\ \A k \in 1..(i - 1) : on[k] = at[k]
    BY <1>1
  <2>4. Passed(q, c + 1) = Passed(q, c) \cup {c}
    BY <1>2, <1>6 DEF Passed
  <2>5. 1..i = (1..(i - 1)) \cup {i}
    BY <1>1
  <2>6. \A k \in 1..(i - 1) : at[k] \in Passed(q, c) /\ at[k] < c
    BY <1>2, <2>2 DEF Passed
  <2>7. \A k \in 1..i : on[k] \in Passed(q, c + 1)
    BY <2>3, <2>4, <2>5, <2>6
  <2>8. on \in [1..i -> Passed(q, c + 1)]
    BY <2>7
  <2> HIDE DEF on
  <2>9. ASSUME NEW k \in 1..i, NEW l \in 1..i, k < l PROVE on[k] < on[l]
    <3>1. k \in 1..(i - 1)
      BY <1>1, <2>9
    <3> HIDE DEF c
    <3> QED
      BY <2>2, <2>3, <2>5, <2>6, <2>9, <3>1
  <2>10. ASSUME NEW n \in Passed(q, c + 1) PROVE \E k \in 1..i : on[k] = n
    <3> HIDE DEF c
    <3>1. i \in 1..i
      BY <1>1
    <3> QED
      BY <2>2, <2>3, <2>4, <2>5, <3>1
  <2>11. r[i] = WithKids(q[c], Parked(q, q[c].id, c))
    <3>1. i \in i..Len(r)
      BY <1>1
    <3>2. r[i] = WithKids(q[c], KidsAt(q, c, c))
      BY <1>3, <3>1
    <3>3. KidsAt(q, c, c) = Parked(q, q[c].id, c)
      BY <1>2, KidsHere
    <3> QED
      BY <3>2, <3>3
  <2>12. \A k \in 1..i : r[k] = WithKids(q[on[k]], Parked(q, q[on[k]].id, on[k]))
    <3> HIDE DEF c
    <3> QED
      BY <2>2, <2>3, <2>5, <2>11
  <2>13. Behind(q, r, i + 1, d, on)
    BY <1>2, <2>8, <2>9, <2>10, <2>12 DEF Behind
  <2> QED
    BY <2>13
<1> QED
  BY <1>1, <1>2, <1>7, <1>8 DEF Partway

\* A save that is superseded is dropped, and its children parked on the next save
\* of its item.
LEMMA DropsOn ==
  ASSUME NEW q \in Seq(Save), NEW r, NEW i, NEW d, Partway(q, r, i, d),
         i <= Len(r), NextSame(r, i) # 0
  PROVE  Partway(q, CoalesceAt(r, i), i, d + 1)
<1>1. /\ r \in Seq(Save) /\ i \in Nat /\ d \in Nat /\ i >= 1 /\ i \in 1..Len(r)
      /\ Len(q) = Len(r) + d /\ Len(r) \in Nat /\ Len(q) \in Nat
  BY DEF Partway
<1> DEFINE c == i + d
           j == NextSame(r, i)
           p == [r EXCEPT ![j] = Adopt(r[j], r[i])]
<1>2. /\ c \in 1..Len(q) /\ c \in Nat /\ i + (d + 1) = c + 1 /\ (c + 1) - 1 = c
      /\ c \in 1..(Len(q) + 1) /\ i \in i..Len(r)
  BY <1>1
<1>3. \A k \in i..Len(r) : r[k] = WithKids(q[k + d], KidsAt(q, k + d, c))
  BY DEF Partway, Ahead
<1>4. ASSUME NEW k \in i..Len(r)
      PROVE  /\ q[k + d] \in Save /\ KidsAt(q, k + d, c) \in Seq(Kid) /\ r[k] \in Save
             /\ r[k].id = q[k + d].id /\ r[k].kids = KidsAt(q, k + d, c)
  <2>1. k + d \in c..Len(q) /\ k + d \in 1..Len(q) /\ k \in 1..Len(r)
    BY <1>1
  <2>2. q[k + d] \in Save /\ r[k] \in Save
    BY <1>1, <2>1
  <2>3. KidsAt(q, k + d, c) \in Seq(Kid)
    <3> HIDE DEF c
    <3> QED
      BY <1>2, <2>1, KidsAtType
  <2> QED
    BY <1>3, <2>2, <2>3, KidsFields
<1>5. /\ j \in (i + 1)..Len(r) /\ r[j].id = r[i].id
      /\ \A k \in (i + 1)..(j - 1) : r[k].id # r[i].id
  BY <1>1, NextFound
<1>6. CoalesceAt(r, i) = RemoveAt(p, i)
  BY DEF CoalesceAt
<1> HIDE DEF j
<1>7. j \in i..Len(r) /\ j \in 1..Len(r) /\ j # i /\ j \in Nat
  BY <1>1, <1>5
<1> DEFINE kids == Parked(q, q[c].id, c)
<1>8. r[i].kids = kids /\ r[i].id = q[c].id /\ kids \in Seq(Kid)
  <2>1. KidsAt(q, c, c) = kids
    BY <1>2, KidsHere
  <2> QED
    BY <1>2, <1>4, <2>1
<1> HIDE DEF kids
<1>9. Adopt(r[j], r[i]) = IF r[j].kids = << >> THEN WithKids(q[j + d], kids) ELSE r[j]
  <2>1. Adopt(r[j], r[i]) = IF r[j].kids = << >> THEN WithKids(r[j], r[i].kids) ELSE r[j]
    BY <1>2, <1>4, <1>7, AdoptFields
  <2>2. WithKids(r[j], r[i].kids) = WithKids(q[j + d], kids)
    BY <1>3, <1>4, <1>7, <1>8, KidsFields
  <2> QED
    BY <2>1, <2>2
<1>10. /\ p \in Seq(Save) /\ Len(p) = Len(r)
       /\ \A k \in 1..Len(r) : p[k] = IF k = j THEN Adopt(r[j], r[i]) ELSE r[k]
  <2>1. Adopt(r[j], r[i]) \in Save
    BY <1>4, <1>7, <1>8, <1>9, KidsFields
  <2> DEFINE a == Adopt(r[j], r[i])
  <2>2. a \in Save
    BY <2>1
  <2> HIDE DEF a
  <2>3. [r EXCEPT ![j] = a] \in Seq(Save) /\ Len([r EXCEPT ![j] = a]) = Len(r)
        /\ \A k \in 1..Len(r) : [r EXCEPT ![j] = a][k] = IF k = j THEN a ELSE r[k]
    BY <1>1, <1>7, <2>2
  <2> QED
    BY <2>3 DEF a
<1> HIDE DEF p
<1> DEFINE u == CoalesceAt(r, i)
<1>11. /\ u \in Seq(Save) /\ Len(u) = Len(r) - 1
       /\ \A k \in 1..(Len(r) - 1) : u[k] = IF k < i THEN p[k] ELSE p[k + 1]
  <2>1. u = RemoveAt(p, i) /\ i \in 1..Len(p) /\ Len(p) = Len(r)
    BY <1>1, <1>6, <1>10
  <2> HIDE DEF u
  <2> QED
    BY <1>10, <2>1, Removed
<1> HIDE DEF u
<1>12. Ahead(q, u, i, d + 1)
  <2> SUFFICES ASSUME NEW k \in i..Len(u)
               PROVE  u[k] = WithKids(q[k + (d + 1)], KidsAt(q, k + (d + 1), i + (d + 1)))
    BY DEF Ahead
  <2> DEFINE h == k + 1
             n == h + d
  <2>1. /\ k \in 1..(Len(r) - 1) /\ ~(k < i) /\ h \in (i + 1)..Len(r) /\ h \in i..Len(r)
        /\ h \in 1..Len(r) /\ k + (d + 1) = n /\ n \in (c + 1)..Len(q) /\ n \in 1..Len(q)
    BY <1>1, <1>11
  <2>2. u[k] = IF h = j THEN Adopt(r[j], r[i]) ELSE r[h]
    BY <1>10, <1>11, <2>1
  <2> HIDE DEF h
  <2>3. c..(n - 1) = {c} \cup ((c + 1)..(n - 1))
    BY <1>2, <2>1
  <2>4. r[h] = WithKids(q[n], KidsAt(q, n, c)) /\ r[h].id = q[n].id /\ r[h].kids = KidsAt(q, n, c)
    BY <1>3, <1>4, <2>1
  <2>5. CASE q[n].id # q[c].id
    <3>1. h # j
      BY <1>5, <1>8, <2>4, <2>5
    <3>2. Parked(q, q[n].id, c) = Parked(q, q[n].id, c - 1)
      BY <1>2, <2>5, ParkedTurn
    <3> HIDE DEF n, c
    <3>3. (\E m \in c..(n - 1) : q[m].id = q[n].id) <=> (\E m \in (c + 1)..(n - 1) : q[m].id = q[n].id)
      BY <2>3, <2>5
    <3>4. KidsAt(q, n, c) = KidsAt(q, n, c + 1)
      BY <1>2, <3>2, <3>3 DEF KidsAt
    <3> QED
      BY <1>2, <2>1, <2>2, <2>4, <3>1, <3>4
  <2>6. CASE q[n].id = q[c].id
    <3>1. KidsAt(q, n, c) = IF q[n].kids # << >> THEN q[n].kids ELSE << >>
      <4> HIDE DEF n, c
      <4> QED
        BY <2>3, <2>6 DEF KidsAt
    <3>2. CASE h = j
      <4>1. ASSUME NEW m \in (c + 1)..(n - 1) PROVE q[m].id # q[n].id
        <5> DEFINE x == m - d
        <5>1. x \in (i + 1)..(j - 1) /\ x \in i..Len(r) /\ x + d = m
          BY <1>1, <1>7, <2>1, <3>2
        <5>2. r[x].id # r[i].id /\ r[x].id = q[x + d].id
          BY <1>4, <1>5, <5>1
        <5> QED
          BY <1>8, <2>6, <5>1, <5>2
      <4> HIDE DEF n, c
      <4>2. KidsAt(q, n, c + 1) = IF q[n].kids # << >> THEN q[n].kids ELSE kids
        BY <1>2, <2>6, <4>1 DEF KidsAt, kids
      <4>3. r[j].kids = KidsAt(q, n, c) /\ j + d = n /\ r[j] = WithKids(q[n], KidsAt(q, n, c))
        BY <2>4, <3>2 DEF n
      <4>4. Adopt(r[j], r[i]) = IF r[j].kids = << >> THEN WithKids(q[n], kids) ELSE r[j]
        BY <1>9, <4>3
      <4> QED
        BY <1>2, <2>1, <2>2, <3>1, <3>2, <4>2, <4>3, <4>4
    <3>3. CASE h # j
      <4>1. ~(h < j)
        <5>1. SUFFICES ASSUME h < j PROVE FALSE
          OBVIOUS
        <5>2. h \in (i + 1)..(j - 1)
          BY <1>1, <1>7, <2>1, <5>1
        <5> QED
          BY <1>5, <1>8, <2>4, <2>6, <5>2
      <4>2. j + d \in (c + 1)..(n - 1)
        BY <1>1, <1>5, <1>7, <2>1, <3>3, <4>1
      <4>3. q[j + d].id = q[n].id
        BY <1>4, <1>5, <1>7, <1>8, <2>6
      <4> HIDE DEF n, c
      <4>4. KidsAt(q, n, c + 1) = KidsAt(q, n, c)
        BY <3>1, <4>2, <4>3 DEF KidsAt
      <4> QED
        BY <1>2, <2>1, <2>2, <2>4, <3>3, <4>4
    <3> QED
      BY <3>2, <3>3
  <2> QED
    BY <2>5, <2>6
<1>13. \E at : Behind(q, u, i, d + 1, at)
  <2>1. PICK at : Behind(q, r, i, d, at)
    BY DEF Partway
  <2>2. Passed(q, c + 1) = Passed(q, c)
    <3>1. \E n \in (c + 1)..Len(q) : q[n].id = q[c].id
      <4>1. j + d \in (c + 1)..Len(q)
        BY <1>1, <1>5
      <4> QED
        BY <1>4, <1>5, <1>7, <1>8, <4>1
    <3> HIDE DEF c
    <3>2. NextSame(q, c) # 0
      BY <1>2, <3>1, NextFound
    <3>3. 1..((c + 1) - 1) = (1..(c - 1)) \cup {c}
      BY <1>2
    <3> QED
      BY <3>2, <3>3 DEF Passed
  <2>3. ASSUME NEW k \in 1..(i - 1) PROVE u[k] = r[k]
    <3>1. k \in 1..(Len(r) - 1) /\ k < i /\ k # j /\ k \in 1..Len(r)
      BY <1>1, <1>5
    <3> QED
      BY <1>10, <1>11, <3>1
  <2>4. Behind(q, u, i, d + 1, at)
    BY <1>2, <2>1, <2>2, <2>3 DEF Behind
  <2> QED
    BY <2>4
<1>14. d + 1 \in Nat /\ Len(q) = Len(u) + (d + 1) /\ i <= Len(u) + 1
  BY <1>1, <1>11
<1> QED
  BY <1>1, <1>11, <1>12, <1>13, <1>14 DEF Partway, u
-----------------------------------------------------------------------------
\* The turns of Coalesce, which module SaveQueue writes as a fold
CoalesceRun(f, q) ==
  /\ f[0] = [q |-> q, index |-> 1]
  /\ \A k \in 1..Len(q) : f[k] = CoalesceTurn(f[k - 1], q[k])
  /\ Coalesce(q) = f[Len(q)].q

\* The fold has its turns
LEMMA CoalesceRuns == \A q \in Seq(Save) : \E f : CoalesceRun(f, q)
<1> TAKE q \in Seq(Save)
<1> DEFINE base == [q |-> q, index |-> 1]
<1>1. Coalesce(q) = Loop!Result(base, q).q
  BY DEF Coalesce, FoldLeft, MapThenFoldSet, Loop!Result, Loop!Unfolds, Max, Loop!Max
<1> HIDE DEF base
<1>2. PICK f : Loop!Runs(f, base, q, Len(q))
  BY Loop!FoldRuns, Len(q) \in Nat, DOMAIN q = 1..Len(q)
<1> QED
  BY <1>1, <1>2 DEF Loop!Runs, CoalesceRun, base

\* The loop has dropped d saves and taken as many turns as it has passed or
\* dropped saves.
LoopAt(d) ==
  /\ given \in Seq(Save)
  /\ Partway(given, queue, index, d)
  /\ \A f : CoalesceRun(f, given) => f[(index + d) - 1] = [q |-> queue, index |-> index]

LoopInv == \E d \in Nat : LoopAt(d)

\* The queues the loop starts from are queues of saves
LEMMA QueuesType == Queues \subseteq Seq(Save)
<1> SUFFICES ASSUME NEW q \in Queues PROVE q \in Seq(Save)
  OBVIOUS
<1> PICK len \in 0..MaxSaves :
           \E who \in [1..len -> Ids], shift \in [1..len -> BOOLEAN] :
             q = [n \in 1..len |-> EditAt(n, who[n], shift[n])]
  BY DEF Queues
<1>0. PICK who \in [1..len -> Ids], shift \in [1..len -> BOOLEAN] :
        q = [n \in 1..len |-> EditAt(n, who[n], shift[n])]
  OBVIOUS
<1>1. len \in Nat /\ \A n \in 1..len : n \in Dates /\ n - 1 \in Dates
  BY LoopAssumption
<1>2. ASSUME NEW n \in 1..len PROVE EditAt(n, who[n], shift[n]) \in Save
  <2>1. [id |-> Child, after |-> n, prev |-> n - 1] \in Kid
    BY <1>1, LoopAssumption DEF Kid
  <2>2. <<[id |-> Child, after |-> n, prev |-> n - 1]>> \in Seq(Kid) /\ << >> \in Seq(Kid)
    BY <2>1
  <2>3. who[n] \in Ids /\ "Commit" \in Roles
    BY DEF Roles
  <2> DEFINE kids == IF shift[n] THEN <<[id |-> Child, after |-> n, prev |-> n - 1]>> ELSE << >>
  <2>4. kids \in Seq(Kid)
    BY <2>2
  <2>5. EditAt(n, who[n], shift[n]) = [id |-> who[n], after |-> n, prev |-> n - 1,
                                       role |-> "Commit", kids |-> kids]
    BY DEF EditAt
  <2> HIDE DEF kids
  <2> QED
    BY <1>1, <2>3, <2>4, <2>5 DEF Save
<1> QED
  BY <1>0, <1>1, <1>2

\* Before the first turn nothing is passed, dropped or parked.
LEMMA StartsPartway ==
  ASSUME NEW q \in Seq(Save)
  PROVE  Partway(q, q, 1, 0)
<1>1. Ahead(q, q, 1, 0)
  <2> SUFFICES ASSUME NEW k \in 1..Len(q)
               PROVE  q[k] = WithKids(q[k + 0], KidsAt(q, k + 0, 1 + 0))
    BY DEF Ahead
  <2>1. k + 0 = k /\ 1 + 0 = 1 /\ 1 - 1 = 0
    OBVIOUS
  <2>2. \A i : Parked(q, i, 0) = << >>
    <3>1. \A i : {m \in 1..0 : q[m].id = i /\ q[m].kids # << >>} = {}
      OBVIOUS
    <3> QED
      BY <3>1 DEF Parked, SelectLastInSubSeq
  <2>3. KidsAt(q, k, 1) = q[k].kids
    BY <2>1, <2>2 DEF KidsAt
  <2> QED
    BY <2>1, <2>3, KidsFields, KidsType
<1>2. \E at : Behind(q, q, 1, 0, at)
  <2> DEFINE at == [k \in 1..0 |-> 0]
  <2>1. Passed(q, 1 + 0) = {}
    BY DEF Passed
  <2>2. Behind(q, q, 1, 0, at)
    BY <2>1 DEF Behind
  <2> QED
    BY <2>2
<1> QED
  BY <1>1, <1>2, Len(q) \in Nat DEF Partway

\* The loop starts at the first save, with nothing dropped (coalesce_superseded_date_saves)
LEMMA LoopInvInit == LoopInit => LoopInv
<1> SUFFICES ASSUME LoopInit PROVE LoopAt(0)
  BY DEF LoopInv
<1>1. given \in Seq(Save) /\ queue = given /\ index = 1
  BY QueuesType DEF LoopInit
<1>2. (index + 0) - 1 = 0
  BY <1>1
<1> QED
  BY <1>1, <1>2, StartsPartway DEF LoopAt, CoalesceRun

\* A turn of the loop is a turn of the fold.
LEMMA LoopTurn ==
  ASSUME NEW d \in Nat, LoopAt(d), index <= Len(queue), NEW f, CoalesceRun(f, given)
  PROVE  f[index + d] = CoalesceTurn([q |-> queue, index |-> index], given[index + d])
<1>1. index \in Nat /\ index >= 1 /\ Len(given) = Len(queue) + d /\ Len(queue) \in Nat
  BY DEF LoopAt, Partway
<1>2. index + d \in 1..Len(given)
  BY <1>1
<1>3. f[(index + d) - 1] = [q |-> queue, index |-> index]
  BY DEF LoopAt
<1> DEFINE c == index + d
           loop == [q |-> queue, index |-> index]
<1>4. c \in 1..Len(given)
  BY <1>2
<1>5. f[c - 1] = loop
  BY <1>3
<1> HIDE DEF c, loop
<1>6. f[c] = CoalesceTurn(loop, given[c])
  BY <1>4, <1>5 DEF CoalesceRun
<1> QED
  BY <1>6 DEF c, loop

\* Each turn keeps the loop part of the way
LEMMA LoopInvStep == LoopInv /\ [LoopNext]_loopVars => LoopInv'
<1> SUFFICES ASSUME NEW d \in Nat, LoopAt(d), [LoopNext]_loopVars PROVE LoopInv'
  BY DEF LoopInv
<1>1. index \in Nat /\ given \in Seq(Save) /\ Partway(given, queue, index, d)
  BY DEF LoopAt, Partway
<1>2. CASE Keep /\ index <= Len(queue)
  <2>1. NextSame(queue, index) = 0 /\ index' = index + 1 /\ given' = given /\ queue' = queue
    BY <1>2 DEF Keep
  <2>2. Partway(given, queue, index + 1, d)
    BY <1>1, <1>2, <2>1, KeepsOn
  <2>3. ASSUME NEW f, CoalesceRun(f, given)
        PROVE  f[((index + 1) + d) - 1] = [q |-> queue, index |-> index + 1]
    <3>1. ((index + 1) + d) - 1 = index + d
      BY <1>1
    <3> QED
      BY <1>2, <2>1, <2>3, <3>1, LoopTurn DEF CoalesceTurn
  <2>4. LoopAt(d)'
    BY <1>1, <2>1, <2>2, <2>3 DEF LoopAt
  <2> QED
    BY <2>4 DEF LoopInv
<1>3. CASE Supersede /\ index <= Len(queue)
  <2>1. NextSame(queue, index) # 0 /\ index' = index /\ given' = given
        /\ queue' = CoalesceAt(queue, index)
    BY <1>3 DEF Supersede
  <2>2. Partway(given, CoalesceAt(queue, index), index, d + 1)
    BY <1>1, <1>3, <2>1, DropsOn
  <2>3. ASSUME NEW f, CoalesceRun(f, given)
        PROVE  f[(index + (d + 1)) - 1] = [q |-> CoalesceAt(queue, index), index |-> index]
    <3>1. (index + (d + 1)) - 1 = index + d
      BY <1>1
    <3> QED
      BY <1>3, <2>1, <2>3, <3>1, LoopTurn DEF CoalesceTurn
  <2>4. LoopAt(d + 1)'
    BY <1>1, <2>1, <2>2, <2>3 DEF LoopAt
  <2> QED
    BY <2>4 DEF LoopInv
<1>4. CASE UNCHANGED loopVars
  <2>1. LoopAt(d)'
    BY <1>4 DEF loopVars, LoopAt
  <2> QED
    BY <2>1 DEF LoopInv
<1> QED
  BY <1>2, <1>3, <1>4 DEF LoopNext

\* At its end nothing is ahead, and what is behind is the thinned queue.
LEMMA ThinnedAtEnd ==
  ASSUME NEW q \in Seq(Save), NEW r, NEW i, NEW d, Partway(q, r, i, d), i > Len(r)
  PROVE  Thinned(r, q)
<1>1. /\ r \in Seq(Save) /\ i \in Nat /\ d \in Nat /\ Len(q) = Len(r) + d
      /\ Len(r) \in Nat /\ Len(q) \in Nat /\ i <= Len(r) + 1
  BY DEF Partway
<1>2. i - 1 = Len(r) /\ (i + d) - 1 = Len(q)
  BY <1>1
<1>3. PICK at : Behind(q, r, i, d, at)
  BY DEF Partway
<1> DEFINE latest == {n \in DOMAIN q : NextSame(q, n) = 0}
<1>4. Passed(q, i + d) = latest
  BY <1>1, <1>2 DEF Passed
<1>5. DOMAIN r = 1..(i - 1)
  BY <1>1, <1>2
<1>6. \A n : LatestKids(q, n) = Parked(q, q[n].id, n)
  BY DEF LatestKids, Parked
<1> HIDE DEF latest
<1>7. /\ at \in [DOMAIN r -> latest]
      /\ \A k, l \in DOMAIN r : k < l => at[k] < at[l]
      /\ \A n \in latest : \E k \in DOMAIN r : at[k] = n
      /\ \A k \in DOMAIN r : r[k] = [q[at[k]] EXCEPT !.kids = LatestKids(q, at[k])]
  BY <1>3, <1>4, <1>5, <1>6 DEF Behind, WithKids
<1> QED
  BY <1>7 DEF Thinned, latest

\* When the loop ends, the fold has made its turns.
LEMMA LoopEnds == LoopInv => EndsThinned
<1> SUFFICES ASSUME NEW d \in Nat, LoopAt(d), index > Len(queue)
             PROVE  Thinned(queue, given) /\ queue = Coalesce(given)
  BY DEF LoopInv, EndsThinned
<1>1. Thinned(queue, given)
  BY ThinnedAtEnd DEF LoopAt
<1>2. (index + d) - 1 = Len(given)
  BY DEF LoopAt, Partway
<1>3. PICK f : CoalesceRun(f, given)
  BY CoalesceRuns DEF LoopAt
<1>4. f[Len(given)] = [q |-> queue, index |-> index]
  BY <1>2, <1>3 DEF LoopAt
<1> QED
  BY <1>1, <1>3, <1>4 DEF CoalesceRun

\* coalesce_superseded_date_saves leaves of any queue the latest save of each item,
\* in order and with the children of the item's most recent Shift-drag, and the fold
\* that module SaveQueue writes for it is that loop.
THEOREM QueueEndsThinned == LoopSpec => []EndsThinned
<1> QED
  BY LoopInvInit, LoopInvStep, LoopEnds, PTL DEF LoopSpec

\* The same of any queue of saves at all: Shift-drags of whole subtrees, Undos and
\* cascades in any order.
THEOREM CoalesceIsThinned == \A q \in Seq(Save) : Thinned(Coalesce(q), q)
<1> TAKE q \in Seq(Save)
<1>1. PICK f : CoalesceRun(f, q)
  BY CoalesceRuns
<1> DEFINE Reached(k, r, i, d) ==
             f[k] = [q |-> r, index |-> i] /\ Partway(q, r, i, d) /\ i + d = k + 1
           S == {k \in Nat : k <= Len(q) => \E r, i, d : Reached(k, r, i, d)}
<1>2. 0 \in S
  <2>1. Reached(0, q, 1, 0)
    BY <1>1, StartsPartway DEF CoalesceRun
  <2> QED
    BY <2>1
<1>3. ASSUME NEW k \in Nat, k \in S PROVE k + 1 \in S
  <2> SUFFICES ASSUME k + 1 <= Len(q) PROVE \E r, i, d : Reached(k + 1, r, i, d)
    OBVIOUS
  <2>1. PICK r, i, d : Reached(k, r, i, d)
    BY <1>3
  <2>2. i \in Nat /\ d \in Nat /\ i <= Len(r)
    BY <2>1 DEF Partway
  <2>3. f[k + 1] = CoalesceTurn([q |-> r, index |-> i], q[k + 1])
    <3>1. k + 1 \in 1..Len(q) /\ (k + 1) - 1 = k
      OBVIOUS
    <3> QED
      BY <1>1, <2>1, <3>1 DEF CoalesceRun
  <2>4. CASE NextSame(r, i) = 0
    <3>1. Partway(q, r, i + 1, d)
      BY <2>1, <2>2, <2>4, KeepsOn
    <3>2. f[k + 1] = [q |-> r, index |-> i + 1]
      BY <2>3, <2>4 DEF CoalesceTurn
    <3>3. (i + 1) + d = (k + 1) + 1
      BY <2>1, <2>2
    <3> QED
      BY <3>1, <3>2, <3>3
  <2>5. CASE NextSame(r, i) # 0
    <3>1. Partway(q, CoalesceAt(r, i), i, d + 1)
      BY <2>1, <2>2, <2>5, DropsOn
    <3>2. f[k + 1] = [q |-> CoalesceAt(r, i), index |-> i]
      BY <2>3, <2>5 DEF CoalesceTurn
    <3>3. i + (d + 1) = (k + 1) + 1
      BY <2>1, <2>2
    <3> QED
      BY <3>1, <3>2, <3>3
  <2> QED
    BY <2>4, <2>5
<1> HIDE DEF S
<1>4. \A k \in Nat : k \in S
  BY <1>2, <1>3, Loop!Induction
<1>5. PICK r, i, d : Reached(Len(q), r, i, d)
  BY <1>4, Len(q) \in Nat DEF S
<1>6. Coalesce(q) = r
  BY <1>1, <1>5 DEF CoalesceRun
<1>7. i > Len(r)
  <2>1. i \in Nat /\ d \in Nat /\ Len(r) \in Nat /\ Len(q) = Len(r) + d /\ i + d = Len(q) + 1
    BY <1>5 DEF Partway
  <2> QED
    BY <2>1
<1> QED
  BY <1>5, <1>6, <1>7, ThinnedAtEnd
=============================================================================
