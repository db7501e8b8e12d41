--------------------------- MODULE DateSavesProofs ---------------------------
(***************************************************************************)
(* What module DateSaves promises, for every set of items, every tree of   *)
(* descendants, every set of dates and any number of edits and failures.   *)
(*                                                                         *)
(* The pipeline is a desk: the dates shown, the queue, the busy items, the *)
(* PATCHes in flight and the stashes of dropped children.  Its loops       *)
(* (drain_date_saves, coalesce_superseded_date_saves, the groups of saves  *)
(* and the descendants of a Shift-drag) are left folds; module LeftFold    *)
(* gives each its turns, and the lemmas about them are inductions over the *)
(* turns.                                                                  *)
(*                                                                         *)
(* PipelineInv is the queue discipline: one PATCH per item, busy names     *)
(* exactly the items with a PATCH, no two queued saves are of one item,    *)
(* and each waits for the PATCH of its own item.  SingleFlight and         *)
(* NoStrandedSave follow.  Inside a handler that discipline is weaker      *)
(* (Ready): an answer frees its item, and the save behind it is sent or    *)
(* dropped by the drain that ends the handler.                             *)
(*                                                                         *)
(* Agreement needs one thing more, KidsOwn: a save carries descendants of  *)
(* its own item only.  A new save may take over the cascade of the one it  *)
(* supersedes, so a Shift-drag may be superseded without an item being     *)
(* forgotten.  A user action can break an item's agreement only by         *)
(* changing dates without leaving the item busy (UserAgrees); what an      *)
(* answer drops on the way it records in orphaned, and what it puts back   *)
(* it records in failed.                                                   *)
(*                                                                         *)
(* SavesImplementLanes says the most: a turn of the UI thread, however     *)
(* many saves it sends, is at most one step of the lane of each item.  A   *)
(* lane sees the dates of an item that fly and that wait.  Every save of   *)
(* a handler's chain touches the lane of its own item only; the parts of   *)
(* the chain add up to one step (Turned), with the save that a stale or a  *)
(* superseded one was replaced by resolved in its place (Cleared).         *)
(*                                                                         *)
(* HistoryLeadsToShown says of the undo and redo stacks what HistoryAgrees *)
(* says of their newest entries: the entries of each item are a chain of   *)
(* dates that ends at those shown (Traced), which Undo and Redo walk.      *)
(***************************************************************************)
EXTENDS DateSavesLanes, TLAPS

\* A Shift-drag's dropped children, the PATCHes in flight and the date-save
\* pipeline
Stashes == Seq(Restore) \cup {None}
Flights == [save : Save, stash : Stashes]
Desks   == [live : [Ids -> Dates], queue : Seq(Save), busy : SUBSET Ids,
            flight : SUBSET Flights, shifted : [Ids -> Stashes]]

-----------------------------------------------------------------------------
\* A desk is its five fields.
LEMMA DeskFields ==
  ASSUME NEW d \in Desks
  PROVE  /\ d = [live |-> d.live, queue |-> d.queue, busy |-> d.busy,
                 flight |-> d.flight, shifted |-> d.shifted]
         /\ d.live \in [Ids -> Dates] /\ d.queue \in Seq(Save) /\ d.busy \in SUBSET Ids
         /\ d.flight \in SUBSET Flights /\ d.shifted \in [Ids -> Stashes]
BY DEF Desks

\* Two desks with the same fields are one
LEMMA SameDesk ==
  ASSUME NEW d \in Desks, NEW e \in Desks,
         d.live = e.live, d.queue = e.queue, d.busy = e.busy,
         d.flight = e.flight, d.shifted = e.shifted
  PROVE  d = e
BY DeskFields

\* Replacing the queue, the dates shown.
LEMMA SetQueue ==
  ASSUME NEW d \in Desks, NEW q \in Seq(Save)
  PROVE  LET e == [d EXCEPT !.queue = q]
         IN  /\ e \in Desks /\ e.queue = q /\ e.live = d.live /\ e.busy = d.busy
             /\ e.flight = d.flight /\ e.shifted = d.shifted
BY DEF Desks

\* Replacing the dates shown
LEMMA SetLive ==
  ASSUME NEW d \in Desks, NEW l \in [Ids -> Dates]
  PROVE  LET e == [d EXCEPT !.live = l]
         IN  /\ e \in Desks /\ e.live = l /\ e.queue = d.queue /\ e.busy = d.busy
             /\ e.flight = d.flight /\ e.shifted = d.shifted
BY DEF Desks

\* Restoring a dropped cascade only changes the dates shown (restore_cascade_saves).
LEMMA RestoreKidsFields ==
  ASSUME NEW d \in Desks, NEW kids \in Seq(Kid)
  PROVE  LET e == RestoreKids(d, kids)
         IN  /\ e \in Desks /\ e.queue = d.queue /\ e.busy = d.busy
             /\ e.flight = d.flight /\ e.shifted = d.shifted
             /\ \A i \in Ids : e.live[i] # d.live[i] =>
                  \E n \in DOMAIN kids : kids[n].id = i /\ d.live[i] = kids[n].after
<1> DEFINE back == {n \in DOMAIN kids : Matches(d, kids[n])}
           l == [i \in Ids |-> IF \E n \in back : kids[n].id = i
                   THEN kids[CHOOSE n \in back : kids[n].id = i].prev
                   ELSE d.live[i]]
<1>1. RestoreKids(d, kids) = [d EXCEPT !.live = l]
  BY DEF RestoreKids
<1>2. l \in [Ids -> Dates]
  <2>1. ASSUME NEW i \in Ids PROVE l[i] \in Dates
    <3>1. ASSUME NEW n \in back PROVE kids[n].prev \in Dates
      <4>1. kids[n] \in Kid
        OBVIOUS
      <4> QED
        BY <4>1 DEF Kid
    <3>2. d.live[i] \in Dates
      BY DeskFields
    <3> HIDE DEF back
    <3>3. CASE \E n \in back : kids[n].id = i
      <4>1. (CHOOSE n \in back : kids[n].id = i) \in back
        BY <3>3
      <4> QED
        BY <3>1, <3>3, <4>1
    <3> QED
      BY <3>2, <3>3
  <2> HIDE DEF back
  <2> QED
    BY <2>1
<1>3. ASSUME NEW i \in Ids, l[i] # d.live[i]
      PROVE  \E n \in DOMAIN kids : kids[n].id = i /\ d.live[i] = kids[n].after
  <2>1. PICK n \in back : kids[n].id = i
    BY <1>3
  <2> QED
    BY <2>1 DEF Matches
<1> HIDE DEF l
<1> QED
  BY <1>1, <1>2, <1>3, SetLive

\* Dropping a stale save only puts its descendants back (discard_stale_date_save)
LEMMA DiscardFields ==
  ASSUME NEW d \in Desks, NEW s \in Save
  PROVE  LET e == DiscardStale(d, s)
         IN  /\ e \in Desks /\ e.queue = d.queue /\ e.busy = d.busy
             /\ e.flight = d.flight /\ e.shifted = d.shifted
             /\ \A i \in Ids : e.live[i] # d.live[i] =>
                  \E n \in DOMAIN s.kids : s.kids[n].id = i /\ d.live[i] = s.kids[n].after
<1>1. s.kids \in Seq(Kid)
  BY DEF Save
<1> QED
  BY <1>1, RestoreKidsFields DEF DiscardStale

\* Sending a save makes its item busy and adds one PATCH (spawn_one_date_save).
LEMMA SpawnFields ==
  ASSUME NEW d \in Desks, NEW s \in Save
  PROVE  LET e == Spawn(d, s)
         IN  /\ e \in Desks /\ e.queue = d.queue /\ e.live = d.live
             /\ e.busy = d.busy \cup {s.id}
             /\ \E f \in Flights : f.save = s /\ e.flight = d.flight \cup {f}
<1> DEFINE stash == IF s.role = "Commit" THEN d.shifted[s.id] ELSE None
           f == [save |-> s, stash |-> stash]
           sh == IF s.role = "Commit" THEN [d.shifted EXCEPT ![s.id] = None] ELSE d.shifted
           busy2 == d.busy \cup {s.id}
           flight2 == d.flight \cup {f}
<1>1. s.id \in Ids
  BY DEF Save
<1>2. stash \in Stashes
  BY <1>1, DeskFields DEF Stashes
<1>3. sh \in [Ids -> Stashes]
  BY <1>1, DeskFields DEF Stashes
<1>4. f \in Flights
  BY <1>2 DEF Flights
<1>5. Spawn(d, s) = [d EXCEPT !.busy = busy2, !.flight = flight2, !.shifted = sh]
  BY DEF Spawn
<1>6. busy2 \in SUBSET Ids /\ flight2 \in SUBSET Flights
  BY <1>1, <1>4, DeskFields
<1>7. f.save = s
  OBVIOUS
<1> HIDE DEF sh, busy2, flight2
<1>8. Spawn(d, s) \in Desks
  BY <1>3, <1>5, <1>6, DeskFields DEF Desks
<1>9. /\ Spawn(d, s).queue = d.queue /\ Spawn(d, s).live = d.live
      /\ Spawn(d, s).busy = busy2 /\ Spawn(d, s).flight = flight2
  BY <1>5
<1> HIDE DEF f
<1> QED
  BY <1>4, <1>7, <1>8, <1>9 DEF busy2, flight2

-----------------------------------------------------------------------------
\* One PATCH per item, and busy is the items of the PATCHes in flight
InFlight(d) ==
  /\ d.busy = {f.save.id : f \in d.flight}
  /\ \A f, g \in d.flight : f.save.id = g.save.id => f = g

\* No two saves of the queue are of one item
Distinct(q) == \A m, n \in DOMAIN q : q[m].id = q[n].id => m = n

\* Every queued save waits for a PATCH of its item
Waiting(d) == \A n \in DOMAIN d.queue : d.queue[n].id \in d.busy

\* A desk between two calls of the same handler: its queue may hold a save to
\* send
Ready(d) == d \in Desks /\ InFlight(d) /\ Distinct(d.queue)

\* A desk between handlers
DeskInv(d) == Ready(d) /\ Waiting(d)

\* No turn of a loop takes a PATCH back, or makes an item idle.
Grows(d, e) == d.busy \subseteq e.busy /\ d.flight \subseteq e.flight

DrainLoop == INSTANCE LeftFold WITH Step <- DrainOne

\* The loop of drain_date_saves, turn by turn
DrainRun(f, d, c) ==
  /\ f[0] = d
  /\ \A k \in 1..Len(c) : f[k] = DrainOne(f[k - 1], c[k])
  /\ FoldLeft(DrainOne, d, c) = f[Len(c)]

\* The loop of drain_date_saves has its turns
LEMMA DrainRuns == \A d : \A c \in Seq(Save) : \E f : DrainRun(f, d, c)
<1> TAKE d
<1> TAKE c \in Seq(Save)
<1>1. FoldLeft(DrainOne, d, c) = DrainLoop!Result(d, c)
  BY DEF FoldLeft, MapThenFoldSet, DrainLoop!Result, DrainLoop!Unfolds, Max, DrainLoop!Max
<1>2. PICK f : DrainLoop!Runs(f, d, c, Len(c))
  BY DrainLoop!FoldRuns, Len(c) \in Nat, DOMAIN c = 1..Len(c)
<1> QED
  BY <1>1, <1>2 DEF DrainLoop!Runs, DrainRun

\* One turn: a save of a busy item goes back to the queue, any other is sent or
\* dropped
LEMMA DrainOneFields ==
  ASSUME NEW d \in Desks, InFlight(d), NEW s \in Save
  PROVE  LET e == DrainOne(d, s)
         IN  /\ e \in Desks /\ InFlight(e) /\ Grows(d, e)
             /\ \/ s.id \in d.busy /\ e = [d EXCEPT !.queue = Append(d.queue, s)]
                \/ s.id \notin d.busy /\ e.queue = d.queue
<1>1. CASE s.id \in d.busy
  <2>1. Append(d.queue, s) \in Seq(Save)
    BY DeskFields
  <2>2. DrainOne(d, s) = [d EXCEPT !.queue = Append(d.queue, s)]
    BY <1>1 DEF DrainOne
  <2> DEFINE e == [d EXCEPT !.queue = Append(d.queue, s)]
  <2>3. e \in Desks /\ e.busy = d.busy /\ e.flight = d.flight
    BY <2>1, SetQueue
  <2> HIDE DEF e
  <2>4. InFlight(e) /\ Grows(d, e)
    BY <2>3 DEF InFlight, Grows
  <2>5. DrainOne(d, s) = e
    BY <2>2 DEF e
  <2> QED
    BY <1>1, <2>3, <2>4, <2>5 DEF e
<1>2. CASE s.id \notin d.busy /\ Matches(d, s)
  <2>1. DrainOne(d, s) = Spawn(d, s)
    BY <1>2 DEF DrainOne
  <2>2. PICK f \in Flights : f.save = s /\ Spawn(d, s).flight = d.flight \cup {f}
    BY SpawnFields
  <2>3. Spawn(d, s).busy = d.busy \cup {s.id} /\ Spawn(d, s) \in Desks
        /\ Spawn(d, s).queue = d.queue
    BY SpawnFields
  <2>4. InFlight(Spawn(d, s))
    <3>1. \A g \in d.flight : g.save.id \in d.busy
      BY DEF InFlight
    <3> QED
      BY <1>2, <2>2, <2>3, <3>1 DEF InFlight
  <2> QED
    BY <1>2, <2>1, <2>2, <2>3, <2>4 DEF Grows
<1>3. CASE s.id \notin d.busy /\ ~Matches(d, s)
  <2>1. DrainOne(d, s) = DiscardStale(d, s)
    BY <1>3 DEF DrainOne
  <2> QED
    BY <1>3, <2>1, DiscardFields DEF InFlight, Grows
<1> QED
  BY <1>1, <1>2, <1>3

\* Draining saves of distinct items keeps one PATCH per item and leaves behind
\* only saves that wait for one (drain_date_saves).
LEMMA DrainKeeps ==
  ASSUME NEW d \in Desks, InFlight(d), NEW c \in Seq(Save), Distinct(c)
  PROVE  LET e == FoldLeft(DrainOne, [d EXCEPT !.queue = << >>], c)
         IN  DeskInv(e) /\ Grows(d, e)
<1> DEFINE d0 == [d EXCEPT !.queue = << >>]
<1>1. PICK f : DrainRun(f, d0, c)
  BY DrainRuns
<1>2. /\ d0 \in Desks /\ d0.queue = << >> /\ d0.busy = d.busy /\ d0.flight = d.flight
      /\ InFlight(d0)
  BY SetQueue, << >> \in Seq(Save) DEF InFlight
<1> HIDE DEF d0
<1> DEFINE S == {k \in Nat : k <= Len(c) =>
                   /\ DeskInv(f[k]) /\ Grows(d, f[k])
                   /\ \A n \in DOMAIN f[k].queue : \E m \in 1..k : f[k].queue[n] = c[m]}
<1>3. 0 \in S
  BY <1>1, <1>2 DEF DrainRun, DeskInv, Ready, Distinct, Waiting, Grows
<1>4. ASSUME NEW k \in Nat, k \in S PROVE k + 1 \in S
  <2> SUFFICES ASSUME k + 1 <= Len(c)
               PROVE  /\ DeskInv(f[k + 1]) /\ Grows(d, f[k + 1])
                      /\ \A n \in DOMAIN f[k + 1].queue :
                           \E m \in 1..(k + 1) : f[k + 1].queue[n] = c[m]
    OBVIOUS
  <2>1. f[k + 1] = DrainOne(f[k], c[k + 1])
    <3>1. k + 1 \in 1..Len(c) /\ (k + 1) - 1 = k
      OBVIOUS
    <3> QED
      BY <1>1, <3>1 DEF DrainRun
  <2>2. /\ DeskInv(f[k]) /\ Grows(d, f[k])
        /\ \A n \in DOMAIN f[k].queue : \E m \in 1..k : f[k].queue[n] = c[m]
    BY <1>4
  <2>3. c[k + 1] \in Save
    BY Len(c) \in Nat
  <2> DEFINE g == f[k]
             e == f[k + 1]
             s == c[k + 1]
  <2>4. g \in Desks /\ InFlight(g) /\ g.queue \in Seq(Save)
    BY <2>2, DeskFields DEF DeskInv, Ready
  <2>5. /\ e \in Desks /\ InFlight(e) /\ Grows(g, e)
        /\ \/ s.id \in g.busy /\ e = [g EXCEPT !.queue = Append(g.queue, s)]
           \/ s.id \notin g.busy /\ e.queue = g.queue
    BY <2>1, <2>3, <2>4, DrainOneFields
  <2>6. Grows(d, e)
    BY <2>2, <2>5 DEF Grows
  <2> HIDE DEF g, e, s
  <2>7. CASE s.id \in g.busy /\ e = [g EXCEPT !.queue = Append(g.queue, s)]
    <3>1. e.queue = Append(g.queue, s) /\ e.busy = g.busy
      BY <2>4, <2>7, <2>3, SetQueue, Append(g.queue, s) \in Seq(Save) DEF s
    <3>2. \A n \in DOMAIN g.queue : \E m \in 1..k : g.queue[n] = c[m]
      BY <2>2 DEF g
    <3>3. \A n \in DOMAIN e.queue : (n \in DOMAIN g.queue /\ e.queue[n] = g.queue[n])
                                    \/ (n = Len(g.queue) + 1 /\ e.queue[n] = c[k + 1])
      BY <3>1, <2>4 DEF s
    <3>4. \A n \in DOMAIN e.queue : \E m \in 1..(k + 1) : e.queue[n] = c[m]
      BY <3>2, <3>3
    <3>5. \A n \in DOMAIN g.queue : g.queue[n].id # c[k + 1].id
      <4> TAKE n \in DOMAIN g.queue
      <4>1. PICK m \in 1..k : g.queue[n] = c[m]
        BY <3>2
      <4>2. m \in DOMAIN c /\ k + 1 \in DOMAIN c /\ m # k + 1
        BY DOMAIN c = 1..Len(c), Len(c) \in Nat
      <4> QED
        BY <4>1, <4>2 DEF Distinct
    <3>6. Distinct(g.queue) /\ Waiting(g)
      BY <2>2 DEF DeskInv, Ready, g
    <3>7. Distinct(e.queue)
      BY <3>3, <3>5, <3>6 DEF Distinct
    <3>8. Waiting(e)
      BY <2>7, <3>1, <3>3, <3>6 DEF Waiting, s
    <3> QED
      BY <2>5, <2>6, <3>4, <3>7, <3>8 DEF DeskInv, Ready, e
  <2>8. CASE s.id \notin g.busy /\ e.queue = g.queue
    <3>1. Distinct(e.queue) /\ Waiting(e)
      BY <2>2, <2>5, <2>8 DEF DeskInv, Ready, Distinct, Waiting, Grows, g
    <3>2. \A n \in DOMAIN e.queue : \E m \in 1..(k + 1) : e.queue[n] = c[m]
      BY <2>2, <2>8 DEF g
    <3> QED
      BY <2>5, <2>6, <3>1, <3>2 DEF DeskInv, Ready, e
  <2> QED
    BY <2>5, <2>7, <2>8
<1> HIDE DEF S
<1>5. \A k \in Nat : k \in S
  BY <1>3, <1>4, DrainLoop!Induction
<1>6. DeskInv(f[Len(c)]) /\ Grows(d, f[Len(c)])
  BY <1>5, Len(c) \in Nat DEF S
<1> QED
  BY <1>1, <1>6 DEF DrainRun, d0
-----------------------------------------------------------------------------
\* RemoveAt closes the gap.
LEMMA RemoveAtFields ==
  ASSUME NEW T, NEW q \in Seq(T), NEW m \in 1..Len(q)
  PROVE  /\ RemoveAt(q, m) \in Seq(T) /\ Len(RemoveAt(q, m)) = Len(q) - 1
         /\ \A n \in 1..(Len(q) - 1) :
              RemoveAt(q, m)[n] = IF n < m THEN q[n] ELSE q[n + 1]
<1> DEFINE a == SubSeq(q, 1, m - 1)
           b == SubSeq(q, m + 1, Len(q))
<1>1. a \in Seq(T) /\ Len(a) = m - 1 /\ \A n \in 1..(m - 1) : a[n] = q[n]
  OBVIOUS
<1>2. b \in Seq(T) /\ Len(b) = Len(q) - m /\ \A n \in 1..(Len(q) - m) : b[n] = q[n + m]
  OBVIOUS
<1>3. RemoveAt(q, m) = a \o b
  BY DEF RemoveAt
<1> HIDE DEF a, b
<1>4. a \o b \in Seq(T) /\ Len(a \o b) = Len(q) - 1
  <2>1. a \in Seq(T) /\ b \in Seq(T)
    BY <1>1, <1>2
  <2>2. a \o b \in Seq(T) /\ Len(a \o b) = Len(a) + Len(b)
    BY <2>1
  <2>3. (m - 1) + (Len(q) - m) = Len(q) - 1
    BY Len(q) \in Nat
  <2> QED
    BY <1>1, <1>2, <2>2, <2>3
<1>5. ASSUME NEW n \in 1..(Len(q) - 1) PROVE (a \o b)[n] = IF n < m THEN q[n] ELSE q[n + 1]
  <2>1. CASE n < m
    BY <1>1, <1>2, <2>1
  <2>2. CASE ~(n < m)
    <3>1. (a \o b)[n] = b[n - (m - 1)]
      BY <1>1, <1>2, <2>2
    <3>2. n - (m - 1) \in 1..(Len(q) - m) /\ (n - (m - 1)) + m = n + 1
      BY <2>2
    <3> QED
      BY <1>2, <2>2, <3>1, <3>2
  <2> QED
    BY <2>1, <2>2
<1> QED
  BY <1>3, <1>4, <1>5

CoalesceLoop == INSTANCE LeftFold WITH Step <- CoalesceTurn

\* The loop of coalesce_superseded_date_saves, turn by turn
CoalesceRun(f, q) ==
  /\ f[0] = [q |-> q, index |-> 1]
  /\ \A k \in 1..Len(q) : f[k] = CoalesceTurn(f[k - 1], q[k])
  /\ Coalesce(q) = f[Len(q)].q

\* The loop of coalesce_superseded_date_saves has its turns
LEMMA CoalesceRuns == \A q \in Seq(Save) : \E f : CoalesceRun(f, q)
<1> TAKE q \in Seq(Save)
<1> DEFINE base == [q |-> q, index |-> 1]
<1>1. Coalesce(q) = CoalesceLoop!Result(base, q).q
  BY DEF Coalesce, FoldLeft, MapThenFoldSet, CoalesceLoop!Result, CoalesceLoop!Unfolds, Max,
         CoalesceLoop!Max
<1> HIDE DEF base
<1>2. PICK f : CoalesceLoop!Runs(f, base, q, Len(q))
  BY CoalesceLoop!FoldRuns, Len(q) \in Nat, DOMAIN q = 1..Len(q)
<1> QED
  BY <1>1, <1>2 DEF CoalesceLoop!Runs, CoalesceRun, base

\* A save is kept when no later one is of its item, and superseded otherwise.
LEMMA NoNextSame ==
  ASSUME NEW q \in Seq(Save), NEW i \in 1..Len(q),
         \A j \in (i + 1)..Len(q) : q[j].id # q[i].id
  PROVE  NextSame(q, i) = 0
BY DEF NextSame, SelectInSubSeq

\* The later save of the same item is found
LEMMA OneNextSame ==
  ASSUME NEW q \in Seq(Save), NEW i \in 1..Len(q), NEW k \in (i + 1)..Len(q),
         q[k].id = q[i].id, \A j \in (i + 1)..Len(q) : q[j].id = q[i].id => j = k
  PROVE  NextSame(q, i) = k
<1> DEFINE I == {j \in (i + 1)..Len(q) : q[j].id = q[i].id}
<1>1. I = {k}
  OBVIOUS
<1>2. NextSame(q, i) = Min(I)
  BY <1>1 DEF NextSame, SelectInSubSeq
<1> HIDE DEF I
<1>3. Min({k}) = k
  BY k \in Int DEF Min
<1> QED
  BY <1>1, <1>2, <1>3

\* One turn of the loop, on a save that is kept and on one that is superseded.
LEMMA TurnKeeps ==
  ASSUME NEW q, NEW i, NextSame(q, i) = 0, NEW x
  PROVE  CoalesceTurn([q |-> q, index |-> i], x) = [q |-> q, index |-> i + 1]
BY DEF CoalesceTurn

\* A superseded save is dropped and the index stays
LEMMA TurnDrops ==
  ASSUME NEW q, NEW i, NextSame(q, i) # 0, NEW x
  PROVE  CoalesceTurn([q |-> q, index |-> i], x) = [q |-> CoalesceAt(q, i), index |-> i]
BY DEF CoalesceTurn

\* A queue of distinct items is left as it is.
LEMMA CoalesceDistinct ==
  ASSUME NEW q \in Seq(Save), Distinct(q)
  PROVE  Coalesce(q) = q
<1>1. PICK f : CoalesceRun(f, q)
  BY CoalesceRuns
<1> DEFINE S == {k \in Nat : k <= Len(q) => f[k] = [q |-> q, index |-> k + 1]}
<1>2. 0 \in S
  BY <1>1 DEF CoalesceRun
<1>3. ASSUME NEW k \in Nat, k \in S PROVE k + 1 \in S
  <2> SUFFICES ASSUME k + 1 <= Len(q)
               PROVE  f[k + 1] = [q |-> q, index |-> (k + 1) + 1]
    OBVIOUS
  <2>1. f[k] = [q |-> q, index |-> k + 1]
    BY <1>3
  <2>2. f[k + 1] = CoalesceTurn(f[k], q[k + 1])
    <3>1. k + 1 \in 1..Len(q) /\ (k + 1) - 1 = k
      OBVIOUS
    <3> QED
      BY <1>1, <3>1 DEF CoalesceRun
  <2>3. NextSame(q, k + 1) = 0
    <3>1. k + 1 \in 1..Len(q) /\ \A j \in ((k + 1) + 1)..Len(q) : q[j].id # q[k + 1].id
      BY DEF Distinct
    <3> QED
      BY <3>1, NoNextSame
  <2> QED
    BY <2>1, <2>2, <2>3 DEF CoalesceTurn
<1> HIDE DEF S
<1>4. \A k \in Nat : k \in S
  BY <1>2, <1>3, CoalesceLoop!Induction
<1>5. f[Len(q)] = [q |-> q, index |-> Len(q) + 1]
  BY <1>4, Len(q) \in Nat DEF S
<1> QED
  BY <1>1, <1>5 DEF CoalesceRun

\* The last element of a sequence is replaced
LEMMA ReplaceLast ==
  ASSUME NEW T, NEW q \in Seq(T), NEW x \in T, NEW y \in T
  PROVE  [Append(q, x) EXCEPT ![Len(q) + 1] = y] = Append(q, y)
<1> DEFINE p == Append(q, x)
           o == Append(q, y)
           e == [p EXCEPT ![Len(q) + 1] = y]
<1>1. /\ p \in Seq(T) /\ Len(p) = Len(q) + 1 /\ DOMAIN p = 1..(Len(q) + 1)
      /\ \A n \in 1..Len(q) : p[n] = q[n]
  OBVIOUS
<1>2. /\ o \in Seq(T) /\ Len(o) = Len(q) + 1 /\ o[Len(q) + 1] = y
      /\ \A n \in 1..Len(q) : o[n] = q[n]
  OBVIOUS
<1> HIDE DEF p, o
<1>3. e \in Seq(T) /\ Len(e) = Len(q) + 1
  BY <1>1
<1>4. ASSUME NEW n \in 1..(Len(q) + 1) PROVE e[n] = o[n]
  <2>1. CASE n = Len(q) + 1
    BY <1>1, <1>2, <2>1
  <2>2. CASE n \in 1..Len(q)
    BY <1>1, <1>2, <2>2
  <2> QED
    BY <2>1, <2>2
<1> HIDE DEF e
<1>5. e = o
  BY <1>2, <1>3, <1>4
<1> QED
  BY <1>5 DEF e, p, o

\* A new save of an item supersedes the one queued before it: it takes the last
\* place, with the cascade of the old one if it brings none.
LEMMA CoalesceAppend ==
  ASSUME NEW r \in Seq(Save), Distinct(r), NEW s \in Save,
         NEW m \in 1..Len(r), r[m].id = s.id
  PROVE  Coalesce(Append(r, s)) = Append(RemoveAt(r, m), Adopt(s, r[m]))
<1> DEFINE q == Append(r, s)
           a == Adopt(s, r[m])
           q2 == Append(RemoveAt(r, m), a)
           len == Len(r) + 1
<1>1. /\ q \in Seq(Save) /\ Len(q) = len /\ q[len] = s
      /\ \A n \in 1..Len(r) : q[n] = r[n]
  OBVIOUS
<1>2. a \in Save /\ a.id = s.id
  <2>1. r[m] \in Save
    OBVIOUS
  <2>2. r[m].kids \in Seq(Kid)
    BY <2>1 DEF Save
  <2> QED
    BY <2>2 DEF Adopt, Save
<1>3. /\ RemoveAt(r, m) \in Seq(Save) /\ Len(RemoveAt(r, m)) = Len(r) - 1
      /\ \A n \in 1..(Len(r) - 1) : RemoveAt(r, m)[n] = IF n < m THEN r[n] ELSE r[n + 1]
  BY RemoveAtFields
<1>4. /\ q2 \in Seq(Save) /\ Len(q2) = Len(r) /\ q2[Len(r)] = a
      /\ \A n \in 1..(Len(r) - 1) : q2[n] = IF n < m THEN r[n] ELSE r[n + 1]
  BY <1>2, <1>3
<1> HIDE DEF q, a, q2
<1>5. PICK f : CoalesceRun(f, q)
  BY <1>1, CoalesceRuns
<1>6. ASSUME NEW k \in 0..Len(r) PROVE f[k + 1] = CoalesceTurn(f[k], q[k + 1])
  <2>1. k + 1 \in 1..Len(q) /\ (k + 1) - 1 = k
    BY <1>1
  <2> QED
    BY <1>5, <2>1 DEF CoalesceRun
<1> DEFINE At(k) == IF k < m THEN [q |-> q, index |-> k + 1] ELSE [q |-> q2, index |-> k]
           S == {k \in Nat : k <= len => f[k] = At(k)}
<1>7. 0 \in S
  BY <1>5 DEF CoalesceRun
<1>8. ASSUME NEW k \in Nat, k \in S PROVE k + 1 \in S
  <2> SUFFICES ASSUME k + 1 <= len PROVE f[k + 1] = At(k + 1)
    OBVIOUS
  <2>1. f[k] = At(k) /\ k \in 0..Len(r)
    BY <1>8
  <2>2. CASE k + 1 < m
    <3>1. k + 1 \in 1..Len(q) /\ \A j \in ((k + 1) + 1)..Len(q) : q[j].id # q[k + 1].id
      <4> SUFFICES ASSUME NEW j \in ((k + 1) + 1)..len PROVE q[j].id # q[k + 1].id
        BY <1>1
      <4>1. q[k + 1] = r[k + 1] /\ k + 1 \in DOMAIN r /\ k + 1 # m /\ m \in DOMAIN r
        BY <1>1, <2>2
      <4>2. CASE j = len
        BY <1>1, <4>1, <4>2 DEF Distinct
      <4>3. CASE j # len
        <5>1. j \in DOMAIN r /\ q[j] = r[j] /\ j # k + 1
          BY <1>1, <4>3
        <5> QED
          BY <4>1, <5>1 DEF Distinct
      <4> QED
        BY <4>2, <4>3
    <3>2. NextSame(q, k + 1) = 0
      BY <1>1, <3>1, NoNextSame
    <3>3. f[k] = [q |-> q, index |-> k + 1] /\ At(k + 1) = [q |-> q, index |-> (k + 1) + 1]
      BY <2>1, <2>2
    <3> QED
      BY <1>6, <2>1, <3>2, <3>3, TurnKeeps
  <2>3. CASE k + 1 = m
    <3>1. NextSame(q, m) = len
      <4>1. m \in 1..Len(q) /\ len \in (m + 1)..Len(q) /\ q[len].id = q[m].id
        BY <1>1
      <4>2. \A j \in (m + 1)..Len(q) : q[j].id = q[m].id => j = len
        BY <1>1 DEF Distinct
      <4> HIDE DEF len
      <4> QED
        BY <1>1, <4>1, <4>2, OneNextSame
    <3>2. [q EXCEPT ![len] = Adopt(q[len], q[m])] = Append(r, a)
      <4>1. Adopt(q[len], q[m]) = a
        BY <1>1 DEF a
      <4>2. [Append(r, s) EXCEPT ![len] = a] = Append(r, a)
        BY <1>2, ReplaceLast
      <4> QED
        BY <4>1, <4>2 DEF q
    <3>3. RemoveAt(Append(r, a), m) = q2
      <4> DEFINE p == Append(r, a)
      <4>1. /\ p \in Seq(Save) /\ Len(p) = len /\ p[len] = a
            /\ \A n \in 1..Len(r) : p[n] = r[n]
        BY <1>2
      <4> HIDE DEF p
      <4>2. /\ RemoveAt(p, m) \in Seq(Save) /\ Len(RemoveAt(p, m)) = Len(r)
            /\ \A n \in 1..Len(r) : RemoveAt(p, m)[n] = IF n < m THEN p[n] ELSE p[n + 1]
        <5>1. m \in 1..Len(p) /\ Len(p) - 1 = Len(r)
          BY <4>1
        <5> QED
          BY <4>1, <5>1, RemoveAtFields
      <4>3. ASSUME NEW n \in 1..Len(r) PROVE RemoveAt(p, m)[n] = q2[n]
        <5>1. CASE n = Len(r)
          BY <1>4, <4>1, <4>2, <5>1
        <5>2. CASE n \in 1..(Len(r) - 1)
          BY <1>4, <4>1, <4>2, <5>2
        <5> QED
          BY <5>1, <5>2
      <4>4. RemoveAt(p, m) = q2
        BY <1>4, <4>2, <4>3
      <4> QED
        BY <4>4 DEF p
    <3>4. CoalesceAt(q, m) = q2
      BY <3>1, <3>2, <3>3 DEF CoalesceAt
    <3>5. f[k] = [q |-> q, index |-> m] /\ At(k + 1) = [q |-> q2, index |-> m]
      BY <2>1, <2>3
    <3>6. NextSame(q, m) # 0
      BY <3>1
    <3> QED
      BY <1>6, <2>1, <3>4, <3>5, <3>6, TurnDrops
  <2>4. CASE k >= m
    <3>1. k \in 1..Len(q2) /\ \A j \in (k + 1)..Len(q2) : q2[j].id # q2[k].id
      <4> SUFFICES ASSUME NEW j \in (k + 1)..Len(r) PROVE q2[j].id # q2[k].id
        BY <1>4, <2>1, <2>4
      <4>1. q2[k] = r[k + 1] /\ k + 1 \in DOMAIN r /\ m \in DOMAIN r
        BY <1>4, <2>4
      <4>2. CASE j = Len(r)
        BY <1>2, <1>4, <2>4, <4>1, <4>2 DEF Distinct
      <4>3. CASE j # Len(r)
        <5>1. q2[j] = r[j + 1] /\ j + 1 \in DOMAIN r /\ j # k
          BY <1>4, <2>4, <4>3
        <5> QED
          BY <4>1, <5>1 DEF Distinct
      <4> QED
        BY <4>2, <4>3
    <3>2. NextSame(q2, k) = 0
      BY <1>4, <3>1, NoNextSame
    <3>3. f[k] = [q |-> q2, index |-> k] /\ At(k + 1) = [q |-> q2, index |-> k + 1]
      BY <2>1, <2>4
    <3> QED
      BY <1>6, <2>1, <3>2, <3>3, TurnKeeps
  <2> QED
    BY <2>2, <2>3, <2>4
<1> HIDE DEF S, At
<1>9. \A k \in Nat : k \in S
  BY <1>7, <1>8, CoalesceLoop!Induction
<1>10. f[len] = [q |-> q2, index |-> len]
  <2>1. len \in Nat /\ ~(len < m)
    OBVIOUS
  <2>2. f[len] = At(len)
    BY <1>9, <2>1 DEF S
  <2> QED
    BY <2>1, <2>2 DEF At
<1> QED
  BY <1>1, <1>5, <1>10 DEF CoalesceRun, q, q2, a

-----------------------------------------------------------------------------
\* What coalescing leaves of a queue r of distinct items with s behind it: s, or
\* s with the cascade it adopts, comes last, and the other items keep their saves.
Thinned(c, r, s) ==
  /\ c \in Seq(Save) /\ Distinct(c) /\ Len(c) > 0
  /\ \/ c[Len(c)] = s /\ \A m \in DOMAIN r : r[m].id # s.id
     \/ \E m \in DOMAIN r : r[m].id = s.id /\ c[Len(c)] = Adopt(s, r[m])
  /\ \A n \in 1..(Len(c) - 1) : c[n].id # s.id /\ \E m \in DOMAIN r : c[n] = r[m]
  /\ \A m \in DOMAIN r : r[m].id # s.id => \E n \in 1..(Len(c) - 1) : c[n] = r[m]

\* Adopting a cascade changes nothing else of a save (adopt_cascade_from_superseded).
LEMMA AdoptFields ==
  ASSUME NEW s \in Save, NEW x \in Save
  PROVE  LET a == Adopt(s, x)
         IN  /\ a \in Save /\ a.id = s.id /\ a.after = s.after /\ a.role = s.role
             /\ a.kids = IF s.kids = << >> THEN x.kids ELSE s.kids
<1>1. x.kids \in Seq(Kid)
  BY DEF Save
<1> QED
  BY <1>1 DEF Adopt, Save

\* Coalescing a queue of distinct items with one save behind it thins it that way
LEMMA CoalesceThins ==
  ASSUME NEW r \in Seq(Save), Distinct(r), NEW s \in Save
  PROVE  Thinned(Coalesce(Append(r, s)), r, s)
<1> DEFINE q == Append(r, s)
<1>1. /\ q \in Seq(Save) /\ Len(q) = Len(r) + 1 /\ q[Len(q)] = s
      /\ \A n \in 1..Len(r) : q[n] = r[n]
  OBVIOUS
<1> HIDE DEF q
<1>2. CASE \A m \in DOMAIN r : r[m].id # s.id
  <2>1. ASSUME NEW i \in DOMAIN q, NEW j \in DOMAIN q, q[i].id = q[j].id PROVE i = j
    <3>1. i \in 1..(Len(r) + 1) /\ j \in 1..(Len(r) + 1)
      BY <1>1
    <3>2. CASE i = Len(r) + 1 \/ j = Len(r) + 1
      BY <1>1, <1>2, <2>1, <3>1, <3>2
    <3>3. CASE i \in 1..Len(r) /\ j \in 1..Len(r)
      BY <1>1, <2>1, <3>3 DEF Distinct
    <3> QED
      BY <3>1, <3>2, <3>3
  <2>2. Distinct(q)
    BY <2>1 DEF Distinct
  <2>3. Coalesce(q) = q
    BY <1>1, <2>2, CoalesceDistinct
  <2>4. Thinned(q, r, s)
    BY <1>1, <1>2, <2>2 DEF Thinned
  <2> QED
    BY <2>3, <2>4 DEF q
<1>3. ASSUME NEW m \in DOMAIN r, r[m].id = s.id PROVE Thinned(Coalesce(q), r, s)
  <2> DEFINE a == Adopt(s, r[m])
             c == Append(RemoveAt(r, m), a)
  <2>1. m \in 1..Len(r) /\ r[m] \in Save
    OBVIOUS
  <2>2. a \in Save /\ a.id = s.id
    BY <2>1, AdoptFields
  <2>3. /\ RemoveAt(r, m) \in Seq(Save) /\ Len(RemoveAt(r, m)) = Len(r) - 1
        /\ \A n \in 1..(Len(r) - 1) : RemoveAt(r, m)[n] = IF n < m THEN r[n] ELSE r[n + 1]
    BY <2>1, RemoveAtFields
  <2>4. Coalesce(q) = c
    BY <1>3, <2>1, CoalesceAppend DEF q
  <2> HIDE DEF a
  <2>5. /\ c \in Seq(Save) /\ Len(c) = Len(r) /\ c[Len(r)] = a
        /\ \A n \in 1..(Len(r) - 1) : c[n] = IF n < m THEN r[n] ELSE r[n + 1]
    BY <2>2, <2>3
  <2> HIDE DEF c
  <2>6. ASSUME NEW n \in 1..(Len(r) - 1)
        PROVE  \E k \in DOMAIN r : k # m /\ c[n] = r[k]
               /\ k = IF n < m THEN n ELSE n + 1
    BY <2>1, <2>5
  <2>7. ASSUME NEW n \in 1..(Len(r) - 1) PROVE c[n].id # s.id
    BY <1>3, <2>6 DEF Distinct
  <2>8. ASSUME NEW i \in DOMAIN c, NEW j \in DOMAIN c, c[i].id = c[j].id PROVE i = j
    <3>1. i \in 1..Len(r) /\ j \in 1..Len(r)
      BY <2>5
    <3>2. CASE i = Len(r) \/ j = Len(r)
      BY <2>2, <2>5, <2>7, <2>8, <3>1, <3>2
    <3>3. CASE i \in 1..(Len(r) - 1) /\ j \in 1..(Len(r) - 1)
      <4>1. PICK k \in DOMAIN r : c[i] = r[k] /\ k = IF i < m THEN i ELSE i + 1
        BY <2>6, <3>3
      <4>2. PICK l \in DOMAIN r : c[j] = r[l] /\ l = IF j < m THEN j ELSE j + 1
        BY <2>6, <3>3
      <4>3. k = l
        BY <2>8, <4>1, <4>2 DEF Distinct
      <4> QED
        BY <2>1, <3>3, <4>1, <4>2, <4>3
    <3> QED
      BY <3>1, <3>2, <3>3
  <2>9. ASSUME NEW k \in DOMAIN r, r[k].id # s.id PROVE \E n \in 1..(Len(r) - 1) : c[n] = r[k]
    <3>1. k # m
      BY <1>3, <2>9
    <3>2. CASE k < m
      <4>1. k \in 1..(Len(r) - 1) /\ c[k] = r[k]
        BY <2>1, <2>5, <3>2
      <4> QED
        BY <4>1
    <3>3. CASE k > m
      <4>1. k - 1 \in 1..(Len(r) - 1) /\ ~(k - 1 < m) /\ (k - 1) + 1 = k
        BY <2>1, <3>3
      <4> QED
        BY <2>5, <4>1
    <3> QED
      BY <2>1, <3>1, <3>2, <3>3
  <2>10. Distinct(c)
    BY <2>8 DEF Distinct
  <2>11. /\ Len(c) > 0
         /\ \E k \in DOMAIN r : r[k].id = s.id /\ c[Len(c)] = Adopt(s, r[k])
    BY <1>3, <2>1, <2>5 DEF a
  <2>12. \A n \in 1..(Len(c) - 1) : c[n].id # s.id /\ \E k \in DOMAIN r : c[n] = r[k]
    BY <2>5, <2>6, <2>7
  <2>13. \A k \in DOMAIN r : r[k].id # s.id => \E n \in 1..(Len(c) - 1) : c[n] = r[k]
    BY <2>5, <2>9
  <2> QED
    BY <2>4, <2>5, <2>10, <2>11, <2>12, <2>13 DEF Thinned
<1> QED
  BY <1>2, <1>3 DEF q

-----------------------------------------------------------------------------
\* Draining leaves only saves that wait for a PATCH of their own item.
LEMMA DrainInv ==
  ASSUME NEW d, Ready(d)
  PROVE  DeskInv(Drain(d)) /\ Grows(d, Drain(d))
<1>1. d \in Desks /\ InFlight(d) /\ Distinct(d.queue) /\ d.queue \in Seq(Save)
  BY DeskFields DEF Ready
<1>2. Coalesce(d.queue) = d.queue
  BY <1>1, CoalesceDistinct
<1> QED
  BY <1>1, <1>2, DrainKeeps DEF Drain

\* Enqueueing a save keeps the queue discipline (enqueue_date_save)
LEMMA EnqueueInv ==
  ASSUME NEW d, Ready(d), NEW s \in Save
  PROVE  DeskInv(Enqueue(d, s)) /\ Grows(d, Enqueue(d, s))
<1> DEFINE c == Coalesce(Append(d.queue, s))
           e == [d EXCEPT !.queue = Append(d.queue, s)]
<1>1. d \in Desks /\ InFlight(d) /\ Distinct(d.queue) /\ d.queue \in Seq(Save)
  BY DeskFields DEF Ready
<1>2. c \in Seq(Save) /\ Distinct(c)
  BY <1>1, CoalesceThins DEF Thinned
<1>3. /\ e \in Desks /\ e.queue = Append(d.queue, s) /\ e.busy = d.busy
      /\ e.flight = d.flight /\ InFlight(e)
  BY <1>1, SetQueue, Append(d.queue, s) \in Seq(Save) DEF InFlight
<1>4. Enqueue(d, s) = FoldLeft(DrainOne, [e EXCEPT !.queue = << >>], c)
  BY <1>3 DEF Enqueue, Drain
<1> HIDE DEF c, e
<1>5. DeskInv(Enqueue(d, s)) /\ Grows(e, Enqueue(d, s))
  BY <1>2, <1>3, <1>4, DrainKeeps
<1> QED
  BY <1>3, <1>5 DEF Grows

EnqueueLoop == INSTANCE LeftFold WITH Step <- Enqueue

\* The loop that enqueues a group of saves, turn by turn
EnqueueRun(f, d, saves) ==
  /\ f[0] = d
  /\ \A k \in 1..Len(saves) : f[k] = Enqueue(f[k - 1], saves[k])
  /\ EnqueueAll(d, saves) = f[Len(saves)]

\* That loop has its turns
LEMMA EnqueueRuns == \A d : \A saves \in Seq(Save) : \E f : EnqueueRun(f, d, saves)
<1> TAKE d
<1> TAKE saves \in Seq(Save)
<1>1. EnqueueAll(d, saves) = EnqueueLoop!Result(d, saves)
  BY DEF EnqueueAll, FoldLeft, MapThenFoldSet, EnqueueLoop!Result, EnqueueLoop!Unfolds, Max,
         EnqueueLoop!Max
<1>2. PICK f : EnqueueLoop!Runs(f, d, saves, Len(saves))
  BY EnqueueLoop!FoldRuns, Len(saves) \in Nat, DOMAIN saves = 1..Len(saves)
<1> QED
  BY <1>1, <1>2 DEF EnqueueLoop!Runs, EnqueueRun

\* Queueing saves one after the other, each drained at once (enqueue_date_save).
LEMMA EnqueueAllInv ==
  ASSUME NEW d, DeskInv(d), NEW saves \in Seq(Save)
  PROVE  DeskInv(EnqueueAll(d, saves)) /\ Grows(d, EnqueueAll(d, saves))
<1>1. PICK f : EnqueueRun(f, d, saves)
  BY EnqueueRuns
<1> DEFINE S == {k \in Nat : k <= Len(saves) => DeskInv(f[k]) /\ Grows(d, f[k])}
<1>2. 0 \in S
  BY <1>1 DEF EnqueueRun, Grows
<1>3. ASSUME NEW k \in Nat, k \in S PROVE k + 1 \in S
  <2> SUFFICES ASSUME k + 1 <= Len(saves) PROVE DeskInv(f[k + 1]) /\ Grows(d, f[k + 1])
    OBVIOUS
  <2>1. f[k + 1] = Enqueue(f[k], saves[k + 1]) /\ saves[k + 1] \in Save
    <3>1. k + 1 \in 1..Len(saves) /\ (k + 1) - 1 = k
      OBVIOUS
    <3> QED
      BY <1>1, <3>1 DEF EnqueueRun
  <2>2. Ready(f[k]) /\ Grows(d, f[k])
    BY <1>3 DEF DeskInv
  <2>3. DeskInv(f[k + 1]) /\ Grows(f[k], f[k + 1])
    BY <2>1, <2>2, EnqueueInv
  <2> QED
    BY <2>2, <2>3 DEF Grows
<1> HIDE DEF S
<1>4. \A k \in Nat : k \in S
  BY <1>2, <1>3, EnqueueLoop!Induction
<1> QED
  BY <1>1, <1>4, Len(saves) \in Nat DEF S, EnqueueRun

KidLoop == INSTANCE LeftFold WITH Step <- EnqueueKid

\* The loop of enqueue_matching_cascade, turn by turn
KidRun(f, d, kids) ==
  /\ f[0] = d
  /\ \A k \in 1..Len(kids) : f[k] = EnqueueKid(f[k - 1], kids[k])
  /\ EnqueueMatching(d, kids) = f[Len(kids)]

\* That loop has its turns
LEMMA KidRuns == \A d : \A kids \in Seq(Kid) : \E f : KidRun(f, d, kids)
<1> TAKE d
<1> TAKE kids \in Seq(Kid)
<1>1. EnqueueMatching(d, kids) = KidLoop!Result(d, kids)
  BY DEF EnqueueMatching, FoldLeft, MapThenFoldSet, KidLoop!Result, KidLoop!Unfolds, Max,
         KidLoop!Max
<1>2. PICK f : KidLoop!Runs(f, d, kids, Len(kids))
  BY KidLoop!FoldRuns, Len(kids) \in Nat, DOMAIN kids = 1..Len(kids)
<1> QED
  BY <1>1, <1>2 DEF KidLoop!Runs, KidRun

\* A descendant's save (enqueue_matching_cascade)
LEMMA AsCascadeType == \A kid \in Kid : AsCascade(kid) \in Save
<1>1. << >> \in Seq(Kid)
  OBVIOUS
<1> QED
  BY <1>1 DEF AsCascade, Kid, Save, Roles

\* The children of a saved Shift-drag (enqueue_matching_cascade).
LEMMA EnqueueMatchingInv ==
  ASSUME NEW d, Ready(d), NEW kids \in Seq(Kid)
  PROVE  Ready(EnqueueMatching(d, kids)) /\ Grows(d, EnqueueMatching(d, kids))
<1>1. PICK f : KidRun(f, d, kids)
  BY KidRuns
<1> DEFINE S == {k \in Nat : k <= Len(kids) => Ready(f[k]) /\ Grows(d, f[k])}
<1>2. 0 \in S
  BY <1>1 DEF KidRun, Grows
<1>3. ASSUME NEW k \in Nat, k \in S PROVE k + 1 \in S
  <2> SUFFICES ASSUME k + 1 <= Len(kids) PROVE Ready(f[k + 1]) /\ Grows(d, f[k + 1])
    OBVIOUS
  <2>1. f[k + 1] = EnqueueKid(f[k], kids[k + 1]) /\ kids[k + 1] \in Kid
    <3>1. k + 1 \in 1..Len(kids) /\ (k + 1) - 1 = k
      OBVIOUS
    <3> QED
      BY <1>1, <3>1 DEF KidRun
  <2>2. Ready(f[k]) /\ Grows(d, f[k])
    BY <1>3
  <2>3. CASE Matches(f[k], kids[k + 1])
    <3>1. f[k + 1] = Enqueue(f[k], AsCascade(kids[k + 1]))
      BY <2>1, <2>3 DEF EnqueueKid
    <3>2. DeskInv(f[k + 1]) /\ Grows(f[k], f[k + 1])
      BY <2>1, <2>2, <3>1, AsCascadeType, EnqueueInv
    <3> QED
      BY <2>2, <3>2 DEF Grows, DeskInv
  <2>4. CASE ~Matches(f[k], kids[k + 1])
    BY <2>1, <2>2, <2>4 DEF EnqueueKid
  <2> QED
    BY <2>3, <2>4
<1> HIDE DEF S
<1>4. \A k \in Nat : k \in S
  BY <1>2, <1>3, KidLoop!Induction
<1> QED
  BY <1>1, <1>4, Len(kids) \in Nat DEF S, KidRun

-----------------------------------------------------------------------------
(***************************************************************************)
(* What the operators on dates and on the history return.                  *)
(***************************************************************************)
MoveLoop == INSTANCE LeftFold WITH Step <- Move

\* The last of the positions of `moves` that move item j is k.
LastMove(moves, n, j, k) ==
  k \in 1..n /\ moves[k].id = j /\ \A m \in (k + 1)..n : moves[m].id # j

\* Applying moves one after the other gives an item the dates of its last move,
\* and leaves an item without one alone.
LEMMA MovedResult ==
  ASSUME NEW dates \in [Ids -> Dates], NEW n \in Nat, NEW moves, DOMAIN moves = 1..n,
         \A k \in 1..n : moves[k].id \in Ids /\ moves[k].after \in Dates
  PROVE  /\ Moved(dates, moves) \in [Ids -> Dates]
         /\ \A j \in Ids : \A k \in 1..n :
              LastMove(moves, n, j, k) => Moved(dates, moves)[j] = moves[k].after
         /\ \A j \in Ids : (\A k \in 1..n : moves[k].id # j) => Moved(dates, moves)[j] = dates[j]
<1>1. Moved(dates, moves) = MoveLoop!Result(dates, moves)
  BY DEF Moved, FoldLeft, MapThenFoldSet, MoveLoop!Result, MoveLoop!Unfolds, Max, MoveLoop!Max
<1>2. PICK f : MoveLoop!Runs(f, dates, moves, n)
  BY MoveLoop!FoldRuns
<1>3. /\ f[0] = dates
      /\ \A k \in 1..n : f[k] = Move(f[k - 1], moves[k])
      /\ Moved(dates, moves) = f[n]
  BY <1>1, <1>2 DEF MoveLoop!Runs
<1> DEFINE Ok(k) == /\ f[k] \in [Ids -> Dates]
                    /\ \A j \in Ids : \A m \in 1..k :
                         LastMove(moves, k, j, m) => f[k][j] = moves[m].after
                    /\ \A j \in Ids : (\A m \in 1..k : moves[m].id # j) => f[k][j] = dates[j]
           S == {k \in Nat : k <= n => Ok(k)}
<1>4. 0 \in S
  BY <1>3
<1>5. ASSUME NEW k \in Nat, k \in S PROVE k + 1 \in S
  <2> SUFFICES ASSUME k + 1 <= n PROVE Ok(k + 1)
    OBVIOUS
  <2>1. k + 1 \in 1..n /\ (k + 1) - 1 = k
    OBVIOUS
  <2>2. f[k + 1] = [f[k] EXCEPT ![moves[k + 1].id] = moves[k + 1].after]
    BY <1>3, <2>1 DEF Move
  <2>3. Ok(k) /\ moves[k + 1].id \in Ids /\ moves[k + 1].after \in Dates
    BY <1>5, <2>1
  <2>4. f[k + 1] \in [Ids -> Dates]
    BY <2>2, <2>3
  <2>5. ASSUME NEW j \in Ids, NEW m \in 1..(k + 1), LastMove(moves, k + 1, j, m)
        PROVE  f[k + 1][j] = moves[m].after
    <3>1. CASE m = k + 1
      BY <2>2, <2>3, <2>5, <3>1 DEF LastMove
    <3>2. CASE m # k + 1
      <4>1. m \in 1..k /\ k + 1 \in (m + 1)..(k + 1)
        BY <3>2
      <4>2. moves[k + 1].id # j /\ LastMove(moves, k, j, m)
        BY <2>5, <4>1 DEF LastMove
      <4> QED
        BY <2>2, <2>3, <4>1, <4>2
    <3> QED
      BY <3>1, <3>2
  <2>6. ASSUME NEW j \in Ids, \A m \in 1..(k + 1) : moves[m].id # j
        PROVE  f[k + 1][j] = dates[j]
    <3>1. moves[k + 1].id # j /\ \A m \in 1..k : moves[m].id # j
      BY <2>6
    <3> QED
      BY <2>2, <2>3, <3>1
  <2> QED
    BY <2>4, <2>5, <2>6
<1> HIDE DEF S
<1>6. \A k \in Nat : k \in S
  BY <1>4, <1>5, MoveLoop!Induction
<1>7. Ok(n)
  BY <1>6 DEF S
<1> QED
  BY <1>3, <1>7

Entries   == Seq(Change) \ {<< >>}

\* The undo and redo stacks
Histories == [undo : Seq(Entries), redo : Seq(Entries)]

\* Searching a sequence returns 0 or a position of it.
LEMMA SearchFound ==
  ASSUME NEW n \in Nat, NEW I \in SUBSET (1..n), I # {}
  PROVE  Max(I) \in I /\ Min(I) \in I
<1>1. PICK x \in I : \A y \in I : y <= x
  BY MoveLoop!LastExists
<1>2. PICK z \in I : \A y \in I : z <= y
  BY MoveLoop!FirstExists
<1>3. \A y \in I : x >= y
  BY <1>1
<1> QED
  BY <1>2, <1>3 DEF Max, Min

\* Discarding from a stack leaves a stack (discard_dates_after)
LEMMA DiscardsType ==
  ASSUME NEW h \in Histories, NEW i, NEW d
  PROVE  DiscardAfter(h, i, d) \in Histories /\ DiscardBefore(h, i, d) \in Histories
<1>1. h.undo \in Seq(Entries) /\ h.redo \in Seq(Entries)
  BY DEF Histories
<1>2. \A n \in 1..Len(h.undo) : RemoveAt(h.undo, n) \in Seq(Entries)
  BY <1>1, RemoveAtFields
<1>3. ASSUME NEW n \in 1..Len(h.undo) PROVE [h EXCEPT !.undo = RemoveAt(h.undo, n)] \in Histories
  <2> DEFINE u == RemoveAt(h.undo, n)
  <2>1. u \in Seq(Entries)
    BY <1>2
  <2> HIDE DEF u
  <2>2. [h EXCEPT !.undo = u] \in Histories
    BY <2>1 DEF Histories
  <2> QED
    BY <2>2 DEF u
<1>4. DiscardAfter(h, i, d) \in Histories
  <2> DEFINE I == {n \in 1..Len(h.undo) : h.undo[n][1].id = i /\ h.undo[n][1].after = d}
             n == IF I # {} THEN Max(I) ELSE 0
  <2>1. DiscardAfter(h, i, d) = IF n = 0 THEN h ELSE [h EXCEPT !.undo = RemoveAt(h.undo, n)]
    BY DEF DiscardAfter, SelectLastInSeq
  <2>2. n = 0 \/ n \in 1..Len(h.undo)
    <3>1. Len(h.undo) \in Nat /\ I \in SUBSET (1..Len(h.undo))
      BY <1>1
    <3> QED
      BY <3>1, SearchFound
  <2> HIDE DEF n
  <2> QED
    BY <1>3, <2>1, <2>2
<1>5. DiscardBefore(h, i, d) \in Histories
  <2> DEFINE I == {n \in 1..Len(h.undo) : h.undo[n][1].id = i /\ h.undo[n][1].before = d}
             n == IF I # {} THEN Min(I) ELSE 0
  <2>1. DiscardBefore(h, i, d) = IF n = 0 THEN h ELSE [h EXCEPT !.undo = RemoveAt(h.undo, n)]
    BY DEF DiscardBefore, LedBefore, SelectInSeq
  <2>2. n = 0 \/ n \in 1..Len(h.undo)
    <3>1. Len(h.undo) \in Nat /\ I \in SUBSET (1..Len(h.undo))
      BY <1>1
    <3> QED
      BY <3>1, SearchFound
  <2> HIDE DEF n
  <2> QED
    BY <1>3, <2>1, <2>2
<1> QED
  BY <1>4, <1>5

\* The last element and the rest of a non-empty sequence.
LEMMA FrontLast ==
  ASSUME NEW T, NEW q \in Seq(T), q # << >>
  PROVE  /\ Front(q) \in Seq(T) /\ Last(q) \in T /\ Len(Front(q)) = Len(q) - 1
         /\ \A n \in 1..(Len(q) - 1) : Front(q)[n] = q[n]
<1>1. Len(q) \in Nat /\ Len(q) > 0 /\ Len(q) \in 1..Len(q)
  OBVIOUS
<1>2. Last(q) \in T
  BY <1>1 DEF Last
<1> DEFINE p == SubSeq(q, 1, Len(q) - 1)
<1>3. p \in Seq(T) /\ Len(p) = Len(q) - 1 /\ \A n \in 1..(Len(q) - 1) : p[n] = q[n]
  <2>1. \A m \in 1..Len(q) :
          /\ SubSeq(q, 1, m - 1) \in Seq(T) /\ Len(SubSeq(q, 1, m - 1)) = m - 1
          /\ \A n \in 1..(m - 1) : SubSeq(q, 1, m - 1)[n] = q[n]
    OBVIOUS
  <2> QED
    BY <1>1, <2>1
<1> QED
  BY <1>2, <1>3 DEF Front

\* A failed save takes its entry off the stacks
LEMMA RevertType ==
  ASSUME NEW h \in Histories, NEW s \in Save
  PROVE  RevertHistory(h, s) \in Histories
<1>1. ASSUME NEW g \in Histories, NEW i PROVE UnfailUndo(g, i) \in Histories
  <2>1. g.undo \in Seq(Entries) /\ g.redo \in Seq(Entries)
    BY DEF Histories
  <2>2. CASE g.redo # << >>
    <3>1. Front(g.redo) \in Seq(Entries) /\ Last(g.redo) \in Entries
      BY <2>1, <2>2, FrontLast
    <3>2. Append(g.undo, Last(g.redo)) \in Seq(Entries)
      BY <2>1, <3>1
    <3> QED
      BY <3>1, <3>2 DEF UnfailUndo, Histories
  <2> QED
    BY <2>2 DEF UnfailUndo
<1>2. ASSUME NEW g \in Histories, NEW i PROVE UnfailRedo(g, i) \in Histories
  <2>1. g.undo \in Seq(Entries) /\ g.redo \in Seq(Entries)
    BY DEF Histories
  <2>2. CASE g.undo # << >>
    <3>1. Front(g.undo) \in Seq(Entries) /\ Last(g.undo) \in Entries
      BY <2>1, <2>2, FrontLast
    <3>2. Append(g.redo, Last(g.undo)) \in Seq(Entries)
      BY <2>1, <3>1
    <3> QED
      BY <3>1, <3>2 DEF UnfailRedo, Histories
  <2> QED
    BY <2>2 DEF UnfailRedo
<1>3. s.role \in Roles
  BY DEF Save
<1> QED
  BY <1>1, <1>2, <1>3, DiscardsType DEF RevertHistory, Roles

-----------------------------------------------------------------------------
(***************************************************************************)
(* The state invariant.                                                    *)
(***************************************************************************)
Toasts == [items : Seq(Restore) \ {<< >>}, extra : Int]

\* The types; an entry of the history and a toast are never empty.
DateSavesTypes ==
  /\ Desk \in Desks
  /\ undo \in Seq(Entries) /\ redo \in Seq(Entries)
  /\ toast \in Toasts \cup {None}
  /\ server \in [Ids -> Dates]
  /\ failed \in SUBSET Ids /\ orphaned \in SUBSET Ids /\ offstack \in SUBSET Ids
  /\ edits \in 0..MaxEdits /\ faults \in 0..MaxFaults

\* Only a toast of an item with descendants offers to move them too.
OffersChildren ==
  toast # None /\ toast.extra # 0 => Kids[toast.items[1].id] # << >>

\* The inductive invariant of the pipeline
PipelineInv == DateSavesTypes /\ DeskInv(Desk) /\ OffersChildren

\* What the invariant says of the pipeline's fields
LEMMA PipelineFacts ==
  ASSUME PipelineInv
  PROVE  /\ Desk \in Desks /\ Ready(Desk) /\ DeskInv(Desk)
         /\ live \in [Ids -> Dates] /\ queue \in Seq(Save) /\ busy \in SUBSET Ids
         /\ flight \in SUBSET Flights /\ shifted \in [Ids -> Stashes]
BY DeskFields DEF PipelineInv, DateSavesTypes, DeskInv, Desk

\* What the desk becomes is the next state's desk.
LEMMA NextDesk ==
  ASSUME NEW e, e \in Desks, Becomes(e)
  PROVE  /\ Desk' = e
         /\ live' = e.live /\ queue' = e.queue /\ busy' = e.busy /\ flight' = e.flight
BY DeskFields DEF Becomes, Desk

\* Dates and stashes play no part in the queue discipline.
LEMMA ShowsOther ==
  ASSUME NEW d, DeskInv(d), NEW l \in [Ids -> Dates]
  PROVE  DeskInv([d EXCEPT !.live = l])
<1>1. d \in Desks
  BY DEF DeskInv, Ready
<1>2. LET e == [d EXCEPT !.live = l]
      IN  e \in Desks /\ e.queue = d.queue /\ e.busy = d.busy /\ e.flight = d.flight
  BY <1>1, SetLive
<1> DEFINE e == [d EXCEPT !.live = l]
<1> HIDE DEF e
<1>3. e \in Desks /\ e.queue = d.queue /\ e.busy = d.busy /\ e.flight = d.flight
  BY <1>2 DEF e
<1>4. DeskInv(e)
  BY <1>3 DEF DeskInv, Ready, InFlight, Waiting
<1> QED
  BY <1>4 DEF e

\* One date of a desk.
LEMMA SetOneDate ==
  ASSUME NEW d \in Desks, NEW i \in Ids, NEW x \in Dates
  PROVE  /\ [d EXCEPT !.live[i] = x] = [d EXCEPT !.live = [d.live EXCEPT ![i] = x]]
         /\ [d.live EXCEPT ![i] = x] \in [Ids -> Dates]
BY DeskFields

\* The history entry and the toast of one change
LEMMA OneChange ==
  ASSUME NEW i \in Ids, NEW a \in Dates, NEW b \in Dates
  PROVE  /\ <<[id |-> i, before |-> a, after |-> b]>> \in Entries
         /\ <<[id |-> i, date |-> a]>> \in Seq(Restore) \ {<< >>}
<1>1. [id |-> i, before |-> a, after |-> b] \in Change /\ [id |-> i, date |-> a] \in Restore
  BY DEF Change, Restore
<1> QED
  BY <1>1 DEF Entries

\* The newest entries of a stack
LEMMA NewestFields ==
  ASSUME NEW q \in Seq(Entries)
  PROVE  \E k \in 0..Len(q) :
           /\ Newest(q) \in Seq(Entries) /\ Len(Newest(q)) = Len(q) - k
           /\ Len(Newest(q)) <= HistoryCap
           /\ \A n \in 1..(Len(q) - k) : Newest(q)[n] = q[n + k]
<1>1. Len(q) \in Nat /\ HistoryCap \in Nat /\ HistoryCap > 0
  BY PipelineAssumption
<1>2. CASE Len(q) > HistoryCap
  <2> DEFINE k == Len(q) - HistoryCap
             r == SubSeq(q, k + 1, Len(q))
  <2>1. k \in 0..Len(q) /\ k + 1 \in 1..Len(q) /\ Len(q) - k = HistoryCap
    BY <1>1, <1>2
  <2>2. Newest(q) = r
    BY <1>1, <1>2 DEF Newest
  <2> HIDE DEF k
  <2>3. r \in Seq(Entries) /\ Len(r) = Len(q) - k /\ \A n \in 1..(Len(q) - k) : r[n] = q[n + k]
    BY <1>1, <2>1
  <2> HIDE DEF r
  <2> QED
    BY <1>1, <2>1, <2>2, <2>3
<1>3. CASE ~(Len(q) > HistoryCap)
  <2>1. Newest(q) = q /\ Len(q) <= HistoryCap
    BY <1>1, <1>3 DEF Newest
  <2>2. 0 \in 0..Len(q) /\ Len(q) = Len(q) - 0 /\ \A n \in 1..(Len(q) - 0) : q[n] = q[n + 0]
    BY <1>1
  <2> QED
    BY <2>1, <2>2
<1> QED
  BY <1>2, <1>3

\* What recording an entry leaves on the stacks
LEMMA RecordType ==
  ASSUME undo \in Seq(Entries), NEW e \in Entries, Record(e)
  PROVE  undo' \in Seq(Entries) /\ redo' \in Seq(Entries)
<1> DEFINE q == Append(undo, e)
<1>1. q \in Seq(Entries)
  OBVIOUS
<1>2. undo' = Newest(q) /\ redo' = << >>
  BY DEF Record
<1> HIDE DEF q
<1>3. Newest(q) \in Seq(Entries)
  BY <1>1, NewestFields
<1> QED
  BY <1>2, <1>3

\* An edit of one item's dates: commit_dates and enqueue_date_save
LEMMA CommitDatesInv ==
  ASSUME PipelineInv, NEW i \in Ids, NEW d \in Dates, CommitDates(i, d)
  PROVE  PipelineInv'
<1> DEFINE base == [Desk EXCEPT !.live[i] = d]
           s == [id |-> i, after |-> d, prev |-> live[i], role |-> "Commit", kids |-> << >>]
           e == Enqueue(base, s)
           entry == <<[id |-> i, before |-> live[i], after |-> d]>>
           item == <<[id |-> i, date |-> live[i]]>>
<1>1. live[i] \in Dates
  BY PipelineFacts
<1>2. DeskInv(base)
  <2>1. Desk \in Desks /\ DeskInv(Desk)
    BY PipelineFacts
  <2> QED
    BY <2>1, SetOneDate, ShowsOther
<1>3. s \in Save
  BY <1>1, << >> \in Seq(Kid) DEF Save, Roles
<1> HIDE DEF base, s
<1>4. DeskInv(e)
  BY <1>2, <1>3, EnqueueInv DEF DeskInv
<1> HIDE DEF e
<1>5. Desk' = e
  <2>1. Becomes(e)
    BY DEF CommitDates, e, base, s
  <2>2. e \in Desks
    BY <1>4 DEF DeskInv, Ready
  <2> QED
    BY <2>1, <2>2, NextDesk
<1>6. entry \in Entries /\ item \in Seq(Restore) \ {<< >>}
  BY <1>1, OneChange
<1> HIDE DEF entry, item
<1>7. undo' \in Seq(Entries) /\ redo' \in Seq(Entries)
  <2>1. Record(entry) /\ undo \in Seq(Entries)
    BY DEF CommitDates, entry, PipelineInv, DateSavesTypes
  <2> QED
    BY <1>6, <2>1, RecordType
<1>8. toast' \in Toasts /\ toast'.extra = 0
  <2>1. toast' = [items |-> item, extra |-> 0]
    BY DEF CommitDates, item
  <2> QED
    BY <1>6, <2>1 DEF Toasts
<1>9. /\ server' = server /\ failed' = failed /\ orphaned' = orphaned /\ offstack' = offstack
      /\ faults' = faults /\ edits < MaxEdits /\ edits' = edits + 1
  BY DEF CommitDates, UserActs, marks
<1>10. DateSavesTypes'
  <2>1. Desk' \in Desks
    BY <1>4, <1>5 DEF DeskInv, Ready
  <2>2. edits' \in 0..MaxEdits
    BY <1>9, PipelineAssumption DEF PipelineInv, DateSavesTypes
  <2> QED
    BY <1>7, <1>8, <1>9, <2>1, <2>2 DEF PipelineInv, DateSavesTypes
<1> QED
  BY <1>4, <1>5, <1>8, <1>10 DEF PipelineInv, OffersChildren

\* A function on 1..n is a sequence
LEMMA FnIsSeq ==
  ASSUME NEW T, NEW n \in Nat, NEW f \in [1..n -> T]
  PROVE  f \in Seq(T) /\ Len(f) = n /\ DOMAIN f = 1..n
OBVIOUS

\* A Shift-drag's descendants, their restores and their changes.
LEMMA ShiftedKidsType ==
  ASSUME PipelineInv, NEW i \in Ids, NEW delta,
         \A n \in DOMAIN ShiftedKids(i, delta) : ShiftedKids(i, delta)[n].after \in Dates
  PROVE  LET kids == ShiftedKids(i, delta)
         IN  /\ kids \in Seq(Kid) /\ DOMAIN kids = DOMAIN Kids[i] /\ Len(kids) = Len(Kids[i])
             /\ \A n \in DOMAIN kids : kids[n].id = Kids[i][n]
<1> DEFINE kids == ShiftedKids(i, delta)
<1>1. Kids[i] \in Seq(Ids)
  BY PipelineAssumption
<1>2. PICK len \in Nat : len = Len(Kids[i]) /\ DOMAIN Kids[i] = 1..len
  BY <1>1
<1>3. /\ DOMAIN kids = 1..len
      /\ kids = [n \in 1..len |-> kids[n]]
      /\ \A n \in 1..len : kids[n] = [id |-> Kids[i][n], after |-> live[Kids[i][n]] + delta,
                                      prev |-> live[Kids[i][n]]]
  BY <1>2 DEF ShiftedKids
<1>4. \A n \in 1..len : kids[n].after \in Dates
  BY <1>3
<1> HIDE DEF kids
<1>5. \A n \in 1..len : kids[n] \in Kid /\ kids[n].id = Kids[i][n]
  <2> TAKE n \in 1..len
  <2>1. Kids[i][n] \in Ids /\ live[Kids[i][n]] \in Dates
    BY <1>1, <1>2, PipelineFacts
  <2> QED
    BY <1>3, <1>4, <2>1 DEF Kid
<1>6. kids \in [1..len -> Kid]
  BY <1>3, <1>5
<1>7. kids \in Seq(Kid) /\ Len(kids) = len
  BY <1>6, FnIsSeq
<1> QED
  BY <1>2, <1>3, <1>5, <1>7 DEF kids

\* The history entries and restores of a Shift-drag's descendants
LEMMA KidsHistory ==
  ASSUME NEW kids \in Seq(Kid)
  PROVE  /\ RestoresOf(kids) \in Seq(Restore) /\ ChangesOf(kids) \in Seq(Change)
         /\ Len(RestoresOf(kids)) = Len(kids) /\ Len(ChangesOf(kids)) = Len(kids)
<1> DEFINE r == RestoresOf(kids)
           c == ChangesOf(kids)
<1>1. Len(kids) \in Nat /\ DOMAIN kids = 1..Len(kids)
  OBVIOUS
<1>2. \A n \in 1..Len(kids) : kids[n] \in Kid
  OBVIOUS
<1>3. r \in [1..Len(kids) -> Restore]
  BY <1>1, <1>2 DEF RestoresOf, Restore, Kid
<1>4. c \in [1..Len(kids) -> Change]
  BY <1>1, <1>2 DEF ChangesOf, Change, Kid
<1> HIDE DEF r, c
<1>5. /\ r \in Seq(Restore) /\ c \in Seq(Change)
      /\ Len(r) = Len(kids) /\ Len(c) = Len(kids)
  BY <1>1, <1>3, <1>4, FnIsSeq
<1> QED
  BY <1>5 DEF r, c

\* The descendants moved
LEMMA KidsMoved ==
  ASSUME NEW dates \in [Ids -> Dates], NEW kids \in Seq(Kid)
  PROVE  Moved(dates, kids) \in [Ids -> Dates]
<1>1. Len(kids) \in Nat /\ DOMAIN kids = 1..Len(kids)
  OBVIOUS
<1>2. \A n \in 1..Len(kids) : kids[n].id \in Ids /\ kids[n].after \in Dates
  <2>1. \A n \in 1..Len(kids) : kids[n] \in Kid
    OBVIOUS
  <2> QED
    BY <2>1 DEF Kid
<1> QED
  BY <1>1, <1>2, MovedResult

\* Two sequences one behind the other
LEMMA Concatenation ==
  ASSUME NEW T, NEW a \in Seq(T), NEW b \in Seq(T)
  PROVE  /\ a \o b \in Seq(T) /\ Len(a \o b) = Len(a) + Len(b)
         /\ (a # << >> \/ b # << >>) => a \o b # << >>
         /\ \A n \in 1..Len(a) : (a \o b)[n] = a[n]
         /\ \A n \in 1..Len(b) : (a \o b)[Len(a) + n] = b[n]
<1>1. /\ a \o b \in Seq(T) /\ Len(a \o b) = Len(a) + Len(b)
      /\ \A n \in 1..Len(a) : (a \o b)[n] = a[n]
      /\ \A n \in 1..Len(b) : (a \o b)[Len(a) + n] = b[n]
  OBVIOUS
<1>2. ASSUME a # << >> \/ b # << >> PROVE a \o b # << >>
  <2>1. Len(a) > 0 \/ Len(b) > 0
    BY <1>2
  <2>2. Len(a \o b) > 0
    BY <1>1, <2>1, Len(a) \in Nat, Len(b) \in Nat
  <2> QED
    BY <2>2
<1> QED
  BY <1>1, <1>2

\* Nor do the stashes of shifted children.
LEMMA Shifts ==
  ASSUME NEW d, DeskInv(d), NEW l \in [Ids -> Dates], NEW i \in Ids, NEW r \in Stashes
  PROVE  DeskInv([d EXCEPT !.live = l, !.shifted[i] = r])
<1> DEFINE sh == [d.shifted EXCEPT ![i] = r]
           e == [d EXCEPT !.live = l, !.shifted = sh]
<1>1. d \in Desks
  BY DEF DeskInv, Ready
<1>2. sh \in [Ids -> Stashes]
  BY <1>1, DeskFields
<1>3. [d EXCEPT !.live = l, !.shifted[i] = r] = e
  BY <1>1 DEF Desks
<1> HIDE DEF sh
<1>4. e \in Desks /\ e.queue = d.queue /\ e.busy = d.busy /\ e.flight = d.flight
  BY <1>1, <1>2 DEF Desks
<1> HIDE DEF e
<1>5. DeskInv(e)
  BY <1>4 DEF DeskInv, Ready, InFlight, Waiting
<1> QED
  BY <1>3, <1>5

\* A Shift-drag: the item and its descendants move, one save carries them
LEMMA ShiftDragInv ==
  ASSUME PipelineInv, NEW i \in Ids, NEW d \in Dates, ShiftDrag(i, d)
  PROVE  PipelineInv'
<1> DEFINE kids == ShiftedKids(i, d - live[i])
           l == [Moved(live, kids) EXCEPT ![i] = d]
           base == [Desk EXCEPT !.live = l, !.shifted[i] = RestoresOf(kids)]
           s == [id |-> i, after |-> d, prev |-> live[i], role |-> "Commit", kids |-> kids]
           e == Enqueue(base, s)
           entry == <<[id |-> i, before |-> live[i], after |-> d]>> \o ChangesOf(kids)
           items == <<[id |-> i, date |-> live[i]]>> \o RestoresOf(kids)
<1>1. live[i] \in Dates /\ live \in [Ids -> Dates] /\ Desk \in Desks
  BY PipelineFacts
<1>2. kids \in Seq(Kid)
  <2>1. \A n \in DOMAIN kids : kids[n].after \in Dates
    BY DEF ShiftDrag
  <2> QED
    BY <2>1, ShiftedKidsType
<1>3. Becomes(e) /\ Record(entry) /\ toast' = [items |-> items, extra |-> 0]
  BY DEF ShiftDrag, Desk
<1>4. /\ server' = server /\ failed' = failed /\ orphaned' = orphaned /\ offstack' = offstack
      /\ faults' = faults /\ edits < MaxEdits /\ edits' = edits + 1
  BY DEF ShiftDrag, UserActs, marks
<1> HIDE DEF kids
<1>5. l \in [Ids -> Dates]
  BY <1>1, <1>2, KidsMoved
<1> HIDE DEF l
<1>6. RestoresOf(kids) \in Stashes
  BY <1>2, KidsHistory DEF Stashes
<1>7. DeskInv(base)
  BY <1>5, <1>6, PipelineFacts, Shifts
<1>9. s \in Save
  BY <1>1, <1>2 DEF Save, Roles
<1> HIDE DEF base, s
<1>10. DeskInv(e)
  BY <1>7, <1>9, EnqueueInv DEF DeskInv
<1> HIDE DEF e
<1>11. Desk' = e /\ Desk' \in Desks
  BY <1>3, <1>10, NextDesk DEF DeskInv, Ready
<1>12. entry \in Entries /\ items \in Seq(Restore) \ {<< >>}
  <2> DEFINE a == <<[id |-> i, before |-> live[i], after |-> d]>>
             b == <<[id |-> i, date |-> live[i]]>>
             c == ChangesOf(kids)
             r == RestoresOf(kids)
  <2>1. a \in Entries /\ b \in Seq(Restore) \ {<< >>} /\ Len(a) = 1 /\ Len(b) = 1
    BY <1>1, OneChange
  <2>2. c \in Seq(Change) /\ r \in Seq(Restore)
    BY <1>2, KidsHistory
  <2> HIDE DEF a, b, c, r
  <2>3. a \in Seq(Change) /\ a # << >> /\ b \in Seq(Restore) /\ b # << >>
    BY <2>1 DEF Entries
  <2>4. a \o c \in Seq(Change) /\ a \o c # << >>
    BY <2>2, <2>3, Concatenation
  <2>5. b \o r \in Seq(Restore) /\ b \o r # << >>
    BY <2>2, <2>3, Concatenation
  <2> QED
    BY <2>4, <2>5 DEF Entries, a, b, c, r
<1> HIDE DEF entry, items
<1>13. undo' \in Seq(Entries) /\ redo' \in Seq(Entries)
  BY <1>3, <1>12, RecordType DEF PipelineInv, DateSavesTypes
<1>14. toast' \in Toasts /\ toast'.extra = 0
  BY <1>3, <1>12 DEF Toasts
<1>15. DateSavesTypes'
  <2>1. edits' \in 0..MaxEdits
    BY <1>4, PipelineAssumption DEF PipelineInv, DateSavesTypes
  <2> QED
    BY <1>4, <1>11, <1>13, <1>14, <2>1 DEF PipelineInv, DateSavesTypes
<1> QED
  BY <1>10, <1>11, <1>14, <1>15 DEF PipelineInv, OffersChildren

\* The toast's "Move children too"
LEMMA MoveChildrenInv ==
  ASSUME PipelineInv, MoveChildrenToo
  PROVE  PipelineInv'
<1> DEFINE i == toast.items[1].id
           kids == ShiftedKids(i, toast.extra)
           l == Moved(live, kids)
           base == [Desk EXCEPT !.live = l, !.shifted[i] = RestoresOf(kids)]
           saves == [n \in DOMAIN kids |-> AsCascade(kids[n])]
           e == EnqueueAll(base, saves)
           changes == ChangesOf(kids)
           lost == {k \in Range(Kids[i]) : /\ undo # << >> /\ Last(undo)[1].id = i
                                           /\ redo # << >> \/ Involves(Last(undo), k)}
<1>1. /\ live \in [Ids -> Dates] /\ DeskInv(Desk)
      /\ undo \in Seq(Entries) /\ redo \in Seq(Entries) /\ toast \in Toasts
  BY PipelineFacts DEF PipelineInv, DateSavesTypes, MoveChildrenToo
<1>2. i \in Ids /\ toast.items \in Seq(Restore) /\ toast.items # << >>
  <2>1. toast.items \in Seq(Restore) /\ toast.items # << >>
    BY <1>1 DEF Toasts
  <2>2. toast.items[1] \in Restore
    BY <2>1
  <2> QED
    BY <2>1, <2>2 DEF Restore
<1>3. Kids[i] # << >>
  BY DEF PipelineInv, OffersChildren, MoveChildrenToo
<1>4. \A n \in DOMAIN kids : kids[n].after \in Dates
  BY DEF MoveChildrenToo
<1>5. Becomes(e)
  BY DEF MoveChildrenToo, Desk
<1>6. IF undo # << >> /\ Last(undo)[1].id = i
        THEN undo' = Append(Front(undo), Last(undo) \o changes) /\ redo' = redo
        ELSE Record(changes)
  BY DEF MoveChildrenToo
<1>7. /\ toast' = [items |-> IF Len(toast.items) = 1 THEN toast.items \o RestoresOf(kids)
                                                     ELSE toast.items,
                   extra |-> 0]
      /\ offstack' = offstack \cup lost
  BY DEF MoveChildrenToo
<1>8. /\ server' = server /\ failed' = failed /\ orphaned' = orphaned
      /\ faults' = faults /\ edits < MaxEdits /\ edits' = edits + 1
  BY DEF MoveChildrenToo, UserActs
<1>9. kids \in Seq(Kid) /\ Len(kids) = Len(Kids[i])
  BY <1>2, <1>4, ShiftedKidsType
<1>10. Kids[i] \in Seq(Ids)
  BY <1>2, PipelineAssumption
<1> HIDE DEF i, kids
<1>11. kids # << >>
  BY <1>3, <1>9, <1>10
<1>12. l \in [Ids -> Dates] /\ RestoresOf(kids) \in Seq(Restore) /\ changes \in Seq(Change)
       /\ RestoresOf(kids) \in Stashes /\ Len(changes) = Len(kids)
  BY <1>1, <1>9, KidsMoved, KidsHistory DEF Stashes
<1>13. saves \in Seq(Save)
  <2>1. Len(kids) \in Nat /\ DOMAIN kids = 1..Len(kids) /\ \A n \in 1..Len(kids) : kids[n] \in Kid
    BY <1>9
  <2>2. saves \in [1..Len(kids) -> Save]
    BY <2>1, AsCascadeType
  <2> QED
    BY <2>1, <2>2, FnIsSeq
<1>14. lost \in SUBSET Ids
  BY <1>10 DEF Range
<1> HIDE DEF l, saves, changes, lost
<1>15. DeskInv(base)
  BY <1>1, <1>2, <1>12, Shifts
<1> HIDE DEF base
<1>16. DeskInv(e)
  BY <1>13, <1>15, EnqueueAllInv
<1> HIDE DEF e
<1>17. Desk' = e /\ Desk' \in Desks
  BY <1>5, <1>16, NextDesk DEF DeskInv, Ready
<1>18. changes \in Entries
  <2>1. Len(kids) # 0
    BY <1>9, <1>11
  <2> QED
    BY <1>12, <2>1 DEF Entries
<1>19. undo' \in Seq(Entries) /\ redo' \in Seq(Entries)
  <2>1. CASE undo # << >> /\ Last(undo)[1].id = i
    <3>1. Front(undo) \in Seq(Entries) /\ Last(undo) \in Entries
      BY <1>1, <2>1, FrontLast
    <3>2. Last(undo) \in Seq(Change) /\ Last(undo) # << >>
      BY <3>1 DEF Entries
    <3>3. Last(undo) \o changes \in Entries
      BY <1>12, <3>2, Concatenation DEF Entries
    <3>4. undo' = Append(Front(undo), Last(undo) \o changes) /\ redo' = redo
      BY <1>6, <2>1
    <3> QED
      BY <1>1, <3>1, <3>3, <3>4
  <2>2. CASE ~(undo # << >> /\ Last(undo)[1].id = i)
    <3>1. Record(changes)
      BY <1>6, <2>2
    <3> QED
      BY <1>1, <1>18, <3>1, RecordType
  <2> QED
    BY <2>1, <2>2
<1>20. toast' \in Toasts /\ toast'.extra = 0
  <2>1. toast.items \o RestoresOf(kids) \in Seq(Restore) /\ toast.items \o RestoresOf(kids) # << >>
    BY <1>2, <1>12, Concatenation
  <2> QED
    BY <1>2, <1>7, <2>1 DEF Toasts
<1>21. DateSavesTypes'
  <2>1. edits' \in 0..MaxEdits
    BY <1>8, PipelineAssumption DEF PipelineInv, DateSavesTypes
  <2>2. offstack' \in SUBSET Ids
    BY <1>7, <1>14 DEF PipelineInv, DateSavesTypes
  <2> QED
    BY <1>8, <1>17, <1>19, <1>20, <2>1, <2>2 DEF PipelineInv, DateSavesTypes
<1> QED
  BY <1>16, <1>17, <1>20, <1>21 DEF PipelineInv, OffersChildren

\* A list of dates to put in place, as an undo, a redo or a toast builds it.
Moves == Seq([id : Ids, after : Dates])

\* What is undone, redone or restored is a list of dates
LEMMA MovesType ==
  /\ \A entry \in Seq(Change) : Befores(entry) \in Moves /\ Afters(entry) \in Moves
  /\ \A items \in Seq(Restore) : Dated(items) \in Moves
<1> DEFINE M == [id : Ids, after : Dates]
<1>1. ASSUME NEW entry \in Seq(Change) PROVE Befores(entry) \in Moves /\ Afters(entry) \in Moves
  <2>1. /\ Len(entry) \in Nat /\ DOMAIN entry = 1..Len(entry)
        /\ \A n \in 1..Len(entry) : entry[n] \in Change
    OBVIOUS
  <2>2. Befores(entry) \in [1..Len(entry) -> M] /\ Afters(entry) \in [1..Len(entry) -> M]
    BY <2>1 DEF Befores, Afters, Change
  <2> HIDE DEF M
  <2>3. Befores(entry) \in Seq(M) /\ Afters(entry) \in Seq(M)
    BY <2>1, <2>2, FnIsSeq
  <2> QED
    BY <2>3 DEF Moves, M
<1>2. ASSUME NEW items \in Seq(Restore) PROVE Dated(items) \in Moves
  <2>1. /\ Len(items) \in Nat /\ DOMAIN items = 1..Len(items)
        /\ \A n \in 1..Len(items) : items[n] \in Restore
    OBVIOUS
  <2>2. Dated(items) \in [1..Len(items) -> M]
    BY <2>1 DEF Dated, Restore
  <2> HIDE DEF M
  <2>3. Dated(items) \in Seq(M)
    BY <2>1, <2>2, FnIsSeq
  <2> QED
    BY <2>3 DEF Moves, M
<1> QED
  BY <1>1, <1>2

\* Every save of a replay is well formed: it remembers dates the planner showed.
LEMMA ReplayType ==
  ASSUME live \in [Ids -> Dates], NEW moves \in Moves, NEW role \in Roles
  PROVE  Replay(moves, role) \in Seq(Save) /\ Len(Replay(moves, role)) = Len(moves)
<1> DEFINE len == Len(moves)
           saves == Replay(moves, role)
<1>1. /\ len \in Nat /\ DOMAIN moves = 1..len
      /\ \A n \in 1..len : moves[n].id \in Ids /\ moves[n].after \in Dates
  <2> DEFINE M == [id : Ids, after : Dates]
  <2>1. \A m \in M : m.id \in Ids /\ m.after \in Dates
    OBVIOUS
  <2>2. moves \in Seq(M)
    BY DEF Moves
  <2> HIDE DEF M
  <2>3. len \in Nat /\ DOMAIN moves = 1..len /\ \A n \in 1..len : moves[n] \in M
    BY <2>2
  <2> QED
    BY <2>1, <2>3
<1>2. \A n \in 1..len :
        /\ DOMAIN SubSeq(moves, 1, n - 1) = 1..(n - 1)
        /\ \A k \in 1..(n - 1) : SubSeq(moves, 1, n - 1)[k] = moves[k]
  BY DEF Moves
<1>3. ASSUME NEW n \in 1..len PROVE Moved(live, SubSeq(moves, 1, n - 1)) \in [Ids -> Dates]
  <2> DEFINE p == SubSeq(moves, 1, n - 1)
             k == n - 1
  <2>1. k \in Nat /\ k < n
    BY <1>1
  <2>2. DOMAIN p = 1..k /\ \A m \in 1..k : p[m].id \in Ids /\ p[m].after \in Dates
    BY <1>1, <1>2
  <2> HIDE DEF p, k
  <2>3. Moved(live, p) \in [Ids -> Dates]
    BY <2>1, <2>2, MovedResult
  <2> QED
    BY <2>3 DEF p
<1> DEFINE prev(n) == Moved(live, SubSeq(moves, 1, n - 1))[moves[n].id]
<1>4. \A n \in 1..len : prev(n) \in Dates
  BY <1>1, <1>3
<1>5. saves = [n \in 1..len |-> [id |-> moves[n].id, after |-> moves[n].after, prev |-> prev(n),
                                 role |-> IF n = 1 THEN role ELSE "Cascade", kids |-> << >>]]
  BY <1>1 DEF Replay
<1> HIDE DEF prev, saves
<1>6. << >> \in Seq(Kid)
  OBVIOUS
<1>7. saves \in [1..len -> Save]
  BY <1>1, <1>4, <1>5, <1>6 DEF Save, Roles
<1>8. saves \in Seq(Save) /\ Len(saves) = len
  BY <1>1, <1>7, FnIsSeq
<1> QED
  BY <1>8 DEF saves

\* The dates of a list of saves put in place
LEMMA SavesMoved ==
  ASSUME NEW dates \in [Ids -> Dates], NEW saves \in Seq(Save)
  PROVE  Moved(dates, saves) \in [Ids -> Dates]
<1>1. Len(saves) \in Nat /\ DOMAIN saves = 1..Len(saves)
  OBVIOUS
<1>2. \A n \in 1..Len(saves) : saves[n].id \in Ids /\ saves[n].after \in Dates
  <2>1. \A n \in 1..Len(saves) : saves[n] \in Save
    OBVIOUS
  <2> QED
    BY <2>1 DEF Save
<1> QED
  BY <1>1, <1>2, MovedResult

\* Dates put in place and a save for each enqueued
LEMMA ApplyAllInv ==
  ASSUME PipelineInv, NEW moves \in Moves, NEW role \in Roles, ApplyAll(Replay(moves, role))
  PROVE  DeskInv(Desk)' /\ Desk' \in Desks
<1> DEFINE saves == Replay(moves, role)
           base == [Desk EXCEPT !.live = Moved(live, saves)]
           e == EnqueueAll(base, saves)
<1>1. live \in [Ids -> Dates] /\ DeskInv(Desk)
  BY PipelineFacts
<1>2. saves \in Seq(Save)
  BY <1>1, ReplayType
<1>3. Becomes(e)
  BY DEF ApplyAll, Desk
<1> HIDE DEF saves
<1>4. DeskInv(base)
  BY <1>1, <1>2, SavesMoved, ShowsOther
<1> HIDE DEF base
<1>5. DeskInv(e)
  BY <1>2, <1>4, EnqueueAllInv
<1> HIDE DEF e
<1>6. Desk' = e
  BY <1>3, <1>5, NextDesk DEF DeskInv, Ready
<1> QED
  BY <1>5, <1>6 DEF DeskInv, Ready

\* The last entry of the undo stack is undone
LEMMA UndoStackInv ==
  ASSUME PipelineInv, UndoStack
  PROVE  /\ DeskInv(Desk)' /\ Desk' \in Desks
         /\ undo' \in Seq(Entries) /\ redo' \in Seq(Entries) /\ toast' = None
<1>1. undo # << >> /\ undo \in Seq(Entries) /\ redo \in Seq(Entries)
  BY DEF PipelineInv, DateSavesTypes, UndoStack
<1>2. Front(undo) \in Seq(Entries) /\ Last(undo) \in Entries
  BY <1>1, FrontLast
<1>3. Last(undo) \in Seq(Change)
  BY <1>2 DEF Entries
<1>4. Befores(Last(undo)) \in Moves
  BY <1>3, MovesType
<1>5. ApplyAll(Replay(Befores(Last(undo)), "Undo"))
  BY DEF UndoStack
<1>6. DeskInv(Desk)' /\ Desk' \in Desks
  BY <1>4, <1>5, ApplyAllInv DEF Roles
<1>7. undo' = Front(undo) /\ redo' = Append(redo, Last(undo)) /\ toast' = None
  BY DEF UndoStack
<1> QED
  BY <1>1, <1>2, <1>6, <1>7

\* A user action counts one edit.
LEMMA ActsCounted ==
  ASSUME PipelineInv, UserActs
  PROVE  edits' \in 0..MaxEdits
BY PipelineAssumption DEF PipelineInv, DateSavesTypes, UserActs

\* Undo from the keyboard
LEMMA UndoLastInv ==
  ASSUME PipelineInv, UndoLast
  PROVE  PipelineInv'
<1>1. UndoStack /\ UserActs /\ UNCHANGED <<server, marks, faults>>
  BY DEF UndoLast
<1>2. /\ DeskInv(Desk)' /\ Desk' \in Desks
      /\ undo' \in Seq(Entries) /\ redo' \in Seq(Entries) /\ toast' = None
  BY <1>1, UndoStackInv
<1> QED
  BY <1>1, <1>2, ActsCounted DEF PipelineInv, DateSavesTypes, OffersChildren, marks

\* Redo from the keyboard
LEMMA RedoLastInv ==
  ASSUME PipelineInv, RedoLast
  PROVE  PipelineInv'
<1>1. redo # << >> /\ undo \in Seq(Entries) /\ redo \in Seq(Entries)
  BY DEF PipelineInv, DateSavesTypes, RedoLast
<1>2. Front(redo) \in Seq(Entries) /\ Last(redo) \in Entries
  BY <1>1, FrontLast
<1>3. Last(redo) \in Seq(Change)
  BY <1>2 DEF Entries
<1>4. Afters(Last(redo)) \in Moves
  BY <1>3, MovesType
<1>5. ApplyAll(Replay(Afters(Last(redo)), "Redo"))
  BY DEF RedoLast
<1>6. DeskInv(Desk)' /\ Desk' \in Desks
  BY <1>4, <1>5, ApplyAllInv DEF Roles
<1>7. /\ redo' = Front(redo) /\ undo' = Append(undo, Last(redo)) /\ toast' = None
      /\ UserActs /\ UNCHANGED <<server, marks, faults>>
  BY DEF RedoLast
<1>8. undo' \in Seq(Entries) /\ redo' \in Seq(Entries)
  BY <1>1, <1>2, <1>7
<1> QED
  BY <1>6, <1>7, <1>8, ActsCounted DEF PipelineInv, DateSavesTypes, OffersChildren, marks

\* Undo from the toast
LEMMA ToastUndoInv ==
  ASSUME PipelineInv, ToastUndo
  PROVE  PipelineInv'
<1>1. toast \in Toasts /\ undo \in Seq(Entries) /\ redo \in Seq(Entries)
  BY DEF PipelineInv, DateSavesTypes, ToastUndo
<1>2. UserActs /\ UNCHANGED <<server, failed, orphaned, faults>>
  BY DEF ToastUndo
<1>3. /\ DeskInv(Desk)' /\ Desk' \in Desks
      /\ undo' \in Seq(Entries) /\ redo' \in Seq(Entries) /\ toast' = None
      /\ offstack' \in SUBSET Ids
  <2>1. CASE undo # << >> /\ Last(undo)[1].id = toast.items[1].id
    <3>1. UndoStack /\ offstack' = offstack
      BY <2>1 DEF ToastUndo
    <3> QED
      BY <3>1, UndoStackInv DEF PipelineInv, DateSavesTypes
  <2>2. CASE ~(undo # << >> /\ Last(undo)[1].id = toast.items[1].id)
    <3> DEFINE restored == {r.id : r \in Range(toast.items)}
    <3>1. /\ ApplyAll(Replay(Dated(toast.items), "Restore")) /\ toast' = None
          /\ offstack' = offstack \cup restored
          /\ undo' = undo /\ redo' = redo
      BY <2>2 DEF ToastUndo, history
    <3>2. toast.items \in Seq(Restore)
      BY <1>1 DEF Toasts
    <3>3. Dated(toast.items) \in Moves
      BY <3>2, MovesType
    <3>4. DeskInv(Desk)' /\ Desk' \in Desks
      BY <3>1, <3>3, ApplyAllInv DEF Roles
    <3>5. restored \in SUBSET Ids
      <4>1. \A r \in Range(toast.items) : r \in Restore
        BY <3>2 DEF Range
      <4> QED
        BY <4>1 DEF Restore
    <3> HIDE DEF restored
    <3> QED
      BY <1>1, <3>1, <3>4, <3>5 DEF PipelineInv, DateSavesTypes
  <2> QED
    BY <2>1, <2>2
<1> QED
  BY <1>2, <1>3, ActsCounted DEF PipelineInv, DateSavesTypes, OffersChildren

\* The toast is closed or times out
LEMMA ToastGoneInv ==
  ASSUME PipelineInv, ToastGone
  PROVE  PipelineInv'
<1>1. /\ toast' = None /\ live' = live /\ queue' = queue /\ busy' = busy /\ flight' = flight
      /\ shifted' = shifted /\ undo' = undo /\ redo' = redo /\ server' = server
      /\ failed' = failed /\ orphaned' = orphaned /\ offstack' = offstack
      /\ edits' = edits /\ faults' = faults
  BY DEF ToastGone, pipeline, history, marks
<1>2. Desk' = Desk
  BY <1>1 DEF Desk
<1> QED
  BY <1>1, <1>2 DEF PipelineInv, DateSavesTypes, OffersChildren

-----------------------------------------------------------------------------
\* An answer frees its item: the queue may then hold a save that waits for
\* nothing, which the drain at the end of the turn sends or drops.
LEMMA LandedReady ==
  ASSUME PipelineInv, NEW f \in flight
  PROVE  /\ Ready(Landed(f)) /\ Landed(f).live = live /\ Landed(f).queue = queue
         /\ Landed(f).busy = busy \ {f.save.id} /\ Landed(f).flight = flight \ {f}
         /\ f.save \in Save /\ f.stash \in Stashes
<1> DEFINE b == busy \ {f.save.id}
           p == flight \ {f}
           e == [Desk EXCEPT !.busy = b, !.flight = p]
<1>1. /\ busy \in SUBSET Ids /\ flight \in SUBSET Flights /\ queue \in Seq(Save)
      /\ live \in [Ids -> Dates] /\ shifted \in [Ids -> Stashes] /\ DeskInv(Desk)
  BY PipelineFacts
<1>2. f.save \in Save /\ f.stash \in Stashes
  BY <1>1 DEF Flights
<1>3. Landed(f) = e
  BY DEF Landed, Desk
<1>4. b \in SUBSET Ids /\ p \in SUBSET Flights
  BY <1>1
<1>5. Distinct(queue) /\ busy = {g.save.id : g \in flight}
      /\ \A g, h \in flight : g.save.id = h.save.id => g = h
  BY <1>1 DEF DeskInv, Ready, InFlight, Desk
<1>6. b = {g.save.id : g \in p} /\ \A g, h \in p : g.save.id = h.save.id => g = h
  BY <1>5
<1> HIDE DEF b, p
<1>7. e \in Desks /\ e.busy = b /\ e.flight = p /\ e.queue = queue /\ e.live = live
  BY <1>1, <1>4 DEF Desks, Desk
<1> HIDE DEF e
<1>8. InFlight(e)
  BY <1>6, <1>7 DEF InFlight
<1>9. Ready(e)
  BY <1>5, <1>7, <1>8 DEF Ready
<1> QED
  BY <1>2, <1>3, <1>7, <1>9 DEF b, p

\* The toast of a saved move offers its children only where there are some.
LEMMA MovedToastType ==
  ASSUME NEW f \in Flights
  PROVE  /\ MovedToast(f) \in Toasts
         /\ MovedToast(f).extra # 0 => Kids[MovedToast(f).items[1].id] # << >>
<1> DEFINE s == f.save
           own == <<[id |-> s.id, date |-> s.prev]>>
<1>1. s \in Save /\ f.stash \in Stashes
  BY DEF Flights
<1>2. s.id \in Ids /\ s.prev \in Dates /\ s.after \in Dates
  BY <1>1 DEF Save
<1>3. own \in Seq(Restore) /\ own # << >> /\ own[1].id = s.id
  BY <1>2 DEF Restore
<1>4. s.after - s.prev \in Int
  <2>1. Dates \subseteq Int
    BY PipelineAssumption
  <2>2. s.after \in Int /\ s.prev \in Int
    BY <1>2, <2>1
  <2> QED
    BY <2>2
<1>5. MovedToast(f) = IF f.stash # None THEN [items |-> own \o f.stash, extra |-> 0]
        ELSE [items |-> own, extra |-> IF Kids[s.id] = << >> THEN 0 ELSE s.after - s.prev]
  BY DEF MovedToast
<1> HIDE DEF own
<1>6. CASE f.stash # None
  <2>1. f.stash \in Seq(Restore)
    BY <1>1, <1>6 DEF Stashes
  <2>2. own \o f.stash \in Seq(Restore) /\ own \o f.stash # << >>
    BY <1>3, <2>1, Concatenation
  <2> QED
    BY <1>5, <1>6, <2>2 DEF Toasts
<1>7. CASE f.stash = None
  BY <1>3, <1>4, <1>5, <1>7 DEF Toasts
<1> QED
  BY <1>6, <1>7

\* The items whose shift a step drops
LEMMA AbandonedIds == {i \in Ids : Abandoned(i)} \in SUBSET Ids
OBVIOUS

\* The chain of an Ok answer, up to its last drain.
Followed(f) ==
  IF Matches(Desk, f.save) THEN Landed(f)
                           ELSE Enqueue(Landed(f), FollowUp(live[f.save.id], f.save))

\* and of a Shift-drag's Ok answer, with its descendants sent
Answered(f) ==
  IF f.save.role = "Commit" THEN EnqueueMatching(Followed(f), f.save.kids) ELSE Followed(f)

\* The follow-up save of dates edited meanwhile
LEMMA FollowUpType ==
  ASSUME NEW s \in Save, NEW now \in Dates
  PROVE  FollowUp(now, s) \in Save
<1>1. << >> \in Seq(Kid)
  OBVIOUS
<1> QED
  BY <1>1 DEF FollowUp, Save, Roles

\* An Ok answer leaves a desk that is ready to drain
LEMMA AnsweredReady ==
  ASSUME PipelineInv, NEW f \in flight
  PROVE  Ready(Followed(f)) /\ Ready(Answered(f))
<1>1. Ready(Landed(f)) /\ f.save \in Save /\ live \in [Ids -> Dates]
  BY LandedReady, PipelineFacts
<1>2. FollowUp(live[f.save.id], f.save) \in Save /\ f.save.kids \in Seq(Kid)
  BY <1>1, FollowUpType DEF Save
<1>3. Ready(Followed(f))
  BY <1>1, <1>2, EnqueueInv DEF Followed, DeskInv
<1>4. Ready(Answered(f))
  BY <1>2, <1>3, EnqueueMatchingInv DEF Answered
<1> QED
  BY <1>3, <1>4

\* A PATCH answers Ok (spawn_one_date_save)
LEMMA SaveOkInv ==
  ASSUME PipelineInv, NEW f \in flight, SaveOk(f)
  PROVE  PipelineInv'
<1> DEFINE s == f.save
           still == Matches(Desk, s)
           e == Drain(Answered(f))
           h == DiscardBefore([undo |-> undo, redo |-> redo], s.id, s.after)
           moved == {i \in Ids : live'[i] # live[i]}
           lost == {i \in Ids : Abandoned(i)}
           gone == DiscardedWith([undo |-> undo, redo |-> redo], s.id, s.after)
<1>1. f \in Flights /\ s \in Save /\ s.id \in Ids /\ s.after \in Dates
  BY PipelineFacts, LandedReady DEF Save
<1>2. Becomes(e)
  BY DEF SaveOk, Answered, Followed
<1>3. /\ server' = [server EXCEPT ![s.id] = s.after]
      /\ failed' = failed \ {s.id}
      /\ orphaned' = (orphaned \ {s.id}) \cup lost
      /\ toast' = MovedToast(f) \/ toast' = toast
      /\ (undo' = h.undo /\ redo' = h.redo) \/ (undo' = undo /\ redo' = redo)
      /\ offstack' = offstack \cup moved \/ offstack' = offstack \cup moved \cup gone
      /\ edits' = edits /\ faults' = faults
  BY DEF SaveOk, history
<1>4. DeskInv(e)
  BY AnsweredReady, DrainInv
<1> HIDE DEF e, still
<1>5. Desk' = e /\ Desk' \in Desks
  BY <1>2, <1>4, NextDesk DEF DeskInv, Ready
<1>6. h \in Histories /\ h.undo \in Seq(Entries) /\ h.redo \in Seq(Entries)
  <2> DEFINE g == [undo |-> undo, redo |-> redo]
  <2>1. g \in Histories
    BY DEF PipelineInv, DateSavesTypes, Histories
  <2> HIDE DEF g
  <2>2. DiscardBefore(g, s.id, s.after) \in Histories
    BY <2>1, DiscardsType
  <2>3. h \in Histories
    BY <2>2 DEF g
  <2> HIDE DEF h
  <2> QED
    BY <2>3 DEF Histories
<1>7. moved \in SUBSET Ids /\ lost \in SUBSET Ids /\ gone \in SUBSET Ids
  BY DEF DiscardedWith
<1> HIDE DEF h, moved, lost, gone
<1>8. toast' \in Toasts \cup {None} /\ OffersChildren'
  BY <1>1, <1>3, MovedToastType DEF PipelineInv, DateSavesTypes, OffersChildren
<1>9. undo' \in Seq(Entries) /\ redo' \in Seq(Entries)
  BY <1>3, <1>6 DEF PipelineInv, DateSavesTypes
<1>10. /\ server' \in [Ids -> Dates] /\ failed' \in SUBSET Ids /\ orphaned' \in SUBSET Ids
       /\ offstack' \in SUBSET Ids
  BY <1>1, <1>3, <1>7 DEF PipelineInv, DateSavesTypes
<1>11. DateSavesTypes'
  BY <1>3, <1>5, <1>8, <1>9, <1>10 DEF PipelineInv, DateSavesTypes
<1> QED
  BY <1>4, <1>5, <1>8, <1>11 DEF PipelineInv

\* A failed save puts its item back, and its descendants if it was a Shift-drag.
Undone(f) ==
  IF f.save.role = "Commit" THEN RestoreKids(RolledBack(f), f.save.kids) ELSE RolledBack(f)

\* A failed PATCH frees its item and puts its dates back, if they are still its
\* own
LEMMA RolledBackReady ==
  ASSUME PipelineInv, NEW f \in flight
  PROVE  LET e == RolledBack(f)
         IN  /\ Ready(e) /\ e.queue = queue /\ e.busy = busy \ {f.save.id}
             /\ e.flight = flight \ {f}
             /\ \A i \in Ids \ {f.save.id} : e.live[i] = live[i]
<1> DEFINE d == Landed(f)
           x == f.save.prev
           i == f.save.id
           l == [d.live EXCEPT ![i] = x]
           e == [d EXCEPT !.live = l]
<1>1. /\ Ready(d) /\ d \in Desks /\ d.live = live /\ d.queue = queue
      /\ d.busy = busy \ {i} /\ d.flight = flight \ {f}
      /\ i \in Ids /\ x \in Dates
  BY LandedReady DEF Ready, Save
<1>2. RolledBack(f) = [d EXCEPT !.live[i] = x] \/ RolledBack(f) = d
  BY DEF RolledBack
<1> HIDE DEF d, x, i
<1>3. [d EXCEPT !.live[i] = x] = e /\ l \in [Ids -> Dates]
  BY <1>1, SetOneDate
<1>4. \A j \in Ids \ {i} : l[j] = live[j]
  BY <1>1, DeskFields
<1> HIDE DEF l
<1>5. /\ e \in Desks /\ e.live = l /\ e.queue = d.queue /\ e.busy = d.busy
      /\ e.flight = d.flight
  BY <1>1, <1>3 DEF Desks
<1> HIDE DEF e
<1>6. Ready(e)
  BY <1>1, <1>5 DEF Ready, InFlight
<1> QED
  BY <1>1, <1>2, <1>3, <1>4, <1>5, <1>6 DEF i

\* So does a failed Shift-drag, with its descendants
LEMMA UndoneReady ==
  ASSUME PipelineInv, NEW f \in flight
  PROVE  Ready(Undone(f))
<1> DEFINE e == RestoreKids(RolledBack(f), f.save.kids)
<1>1. Ready(RolledBack(f)) /\ RolledBack(f) \in Desks /\ f.save.kids \in Seq(Kid)
  BY RolledBackReady, LandedReady DEF Ready, Save
<1>2. /\ e \in Desks /\ e.queue = RolledBack(f).queue /\ e.busy = RolledBack(f).busy
      /\ e.flight = RolledBack(f).flight
  BY <1>1, RestoreKidsFields
<1>3. Ready(e)
  BY <1>1, <1>2 DEF Ready, InFlight
<1> QED
  BY <1>1, <1>3 DEF Undone

\* A PATCH fails (spawn_one_date_save)
LEMMA SaveErrInv ==
  ASSUME PipelineInv, NEW f \in flight, NEW applied \in BOOLEAN, SaveErr(f, applied)
  PROVE  PipelineInv'
<1> DEFINE s == f.save
           still == Matches(Desk, s)
           e == Drain(Undone(f))
           g == [undo |-> undo, redo |-> redo]
           h == IF still THEN RevertHistory(g, s) ELSE g
           again == [items |-> <<[id |-> s.id, date |-> s.after]>>, extra |-> 0]
           moved == {i \in Ids : live'[i] # live[i]}
           lost == {i \in Ids : Abandoned(i)}
<1>1. s \in Save /\ s.id \in Ids /\ s.after \in Dates
  BY LandedReady DEF Save
<1>2. Becomes(e)
  BY DEF SaveErr, Undone
<1>3. /\ server' = [server EXCEPT ![s.id] = s.after] \/ server' = server
      /\ failed' = failed \cup {s.id} \cup moved
      /\ orphaned' = orphaned \cup lost
      /\ toast' = None \/ toast' = again \/ toast' = toast
      /\ undo' = h.undo /\ redo' = h.redo
      /\ offstack' = offstack /\ edits' = edits
      /\ faults < MaxFaults /\ faults' = faults + 1
  BY DEF SaveErr
<1>4. DeskInv(e)
  BY UndoneReady, DrainInv
<1> HIDE DEF e
<1>5. Desk' = e /\ Desk' \in Desks
  BY <1>2, <1>4, NextDesk DEF DeskInv, Ready
<1>6. h \in Histories
  <2>1. g \in Histories
    BY DEF PipelineInv, DateSavesTypes, Histories
  <2> HIDE DEF g, still
  <2> QED
    BY <1>1, <2>1, RevertType
<1>7. moved \in SUBSET Ids /\ lost \in SUBSET Ids
  OBVIOUS
<1> HIDE DEF h, moved, lost
<1>8. h.undo \in Seq(Entries) /\ h.redo \in Seq(Entries)
  BY <1>6 DEF Histories
<1>9. again \in Toasts /\ again.extra = 0
  <2>1. <<[id |-> s.id, date |-> s.after]>> \in Seq(Restore) \ {<< >>}
    BY <1>1, OneChange
  <2> QED
    BY <2>1 DEF Toasts
<1> HIDE DEF again
<1>10. toast' \in Toasts \cup {None} /\ OffersChildren'
  BY <1>3, <1>9 DEF PipelineInv, DateSavesTypes, OffersChildren
<1>11. /\ server' \in [Ids -> Dates] /\ failed' \in SUBSET Ids /\ orphaned' \in SUBSET Ids
  BY <1>1, <1>3, <1>7 DEF PipelineInv, DateSavesTypes
<1>12. faults' \in 0..MaxFaults
  BY <1>3, PipelineAssumption DEF PipelineInv, DateSavesTypes
<1>13. DateSavesTypes'
  BY <1>3, <1>5, <1>8, <1>10, <1>11, <1>12 DEF PipelineInv, DateSavesTypes
<1> QED
  BY <1>4, <1>5, <1>10, <1>13 DEF PipelineInv

-----------------------------------------------------------------------------
\* A loaded planner has nothing to save
LEMMA PipelineInvInit == Init => PipelineInv
<1> SUFFICES ASSUME Init PROVE PipelineInv
  OBVIOUS
<1>1. /\ live \in [Ids -> Dates] /\ server = live /\ queue = << >> /\ busy = {} /\ flight = {}
      /\ shifted = [i \in Ids |-> None] /\ undo = << >> /\ redo = << >> /\ toast = None
      /\ failed = {} /\ orphaned = {} /\ offstack = {} /\ edits = 0 /\ faults = 0
  BY DEF Init
<1>2. Desk \in Desks
  BY <1>1 DEF Desks, Desk, Stashes
<1>3. DeskInv(Desk)
  BY <1>1, <1>2 DEF DeskInv, Ready, InFlight, Distinct, Waiting, Desk
<1>4. DateSavesTypes
  BY <1>1, <1>2, PipelineAssumption DEF DateSavesTypes
<1> QED
  BY <1>1, <1>3, <1>4 DEF PipelineInv, OffersChildren

\* No step breaks the pipeline's invariant
LEMMA PipelineInvStep == PipelineInv /\ [Next]_vars => PipelineInv'
<1> SUFFICES ASSUME PipelineInv, [Next]_vars PROVE PipelineInv'
  OBVIOUS
<1>1. ASSUME NEW i \in Ids, NEW d \in Dates, CommitDates(i, d) \/ ShiftDrag(i, d)
      PROVE  PipelineInv'
  BY <1>1, CommitDatesInv, ShiftDragInv
<1>2. CASE MoveChildrenToo
  BY <1>2, MoveChildrenInv
<1>3. CASE UndoLast \/ RedoLast
  BY <1>3, UndoLastInv, RedoLastInv
<1>4. CASE ToastUndo \/ ToastGone
  BY <1>4, ToastUndoInv, ToastGoneInv
<1>5. ASSUME NEW f \in flight, Answer(f) PROVE PipelineInv'
  BY <1>5, SaveOkInv, SaveErrInv DEF Answer
<1>6. CASE UNCHANGED vars
  <2>1. /\ toast' = toast /\ live' = live /\ queue' = queue /\ busy' = busy /\ flight' = flight
        /\ shifted' = shifted /\ undo' = undo /\ redo' = redo /\ server' = server
        /\ failed' = failed /\ orphaned' = orphaned /\ offstack' = offstack
        /\ edits' = edits /\ faults' = faults
    BY <1>6 DEF vars, pipeline, history, marks
  <2>2. Desk' = Desk
    BY <2>1 DEF Desk
  <2> QED
    BY <2>1, <2>2 DEF PipelineInv, DateSavesTypes, OffersChildren
<1> QED
  BY <1>1, <1>2, <1>3, <1>4, <1>5, <1>6 DEF Next, UserStep

\* The pipeline's inductive invariant, for every set of items, trees and dates:
\* one PATCH per item, busy names exactly those items, the queue has one save per
\* item and each waits for the PATCH of its own item
THEOREM PipelineInvariant == Spec => []PipelineInv
BY PipelineInvInit, PipelineInvStep, PTL DEF Spec

\* The pipeline's, the stacks' and the toast's variables keep their types: no
\* stack entry and no toast is ever empty
THEOREM DateSavesTypeOK == Spec => []DateSavesTypes
<1>1. PipelineInv => DateSavesTypes
  BY DEF PipelineInv
<1> QED
  BY <1>1, PipelineInvariant, PTL

\* One PATCH per Work Item at a time, and `busy` names exactly those items:
\* whatever an answer's follow-up, cascade and drain send, none overtakes another
\* (spawn_one_date_save, drain_date_saves).
THEOREM OnePatchPerItem == Spec => []SingleFlight
<1>1. PipelineInv => SingleFlight
  BY DEF PipelineInv, DeskInv, Ready, InFlight, SingleFlight, Desk
<1> QED
  BY <1>1, PipelineInvariant, PTL

\* Every queued save waits for a PATCH of its own item, and no item has two
\* (drain_date_saves, coalesce_superseded_date_saves).
THEOREM NoSaveStranded == Spec => []NoStrandedSave
<1>1. PipelineInv => NoStrandedSave
  BY DEF PipelineInv, DeskInv, Ready, Distinct, Waiting, NoStrandedSave, Desk
<1> QED
  BY <1>1, PipelineInvariant, PTL

-----------------------------------------------------------------------------
(***************************************************************************)
(* Agreement: what the saves in flight and in the queue carry.             *)
(***************************************************************************)

\* The saves a desk has yet to settle
Carried(d) == {f.save : f \in d.flight} \cup Range(d.queue)

\* The descendants a save carries are descendants of its item.
Own(x) == \A n \in DOMAIN x.kids : x.kids[n].id \in Range(Kids[x.id])

\* No save carries another item's descendants, whatever it superseded
KidsOwn(d) == \A x \in Carried(d) : Own(x)

\* The elements of a sequence with one more
LEMMA RangeAppend ==
  ASSUME NEW T, NEW q \in Seq(T), NEW x \in T
  PROVE  Append(q, x) \in Seq(T) /\ Range(Append(q, x)) = Range(q) \cup {x}
<1> DEFINE p == Append(q, x)
<1>1. /\ p \in Seq(T) /\ DOMAIN p = 1..(Len(q) + 1) /\ DOMAIN q = 1..Len(q) /\ Len(q) \in Nat
      /\ p[Len(q) + 1] = x /\ \A n \in 1..Len(q) : p[n] = q[n]
  OBVIOUS
<1> HIDE DEF p
<1>2. Range(p) \subseteq Range(q) \cup {x}
  <2>1. ASSUME NEW n \in DOMAIN p PROVE p[n] \in Range(q) \cup {x}
    <3>1. n = Len(q) + 1 \/ n \in 1..Len(q)
      BY <1>1
    <3> QED
      BY <1>1, <3>1 DEF Range
  <2> QED
    BY <2>1 DEF Range
<1>3. x \in Range(p)
  <2>1. Len(q) + 1 \in DOMAIN p
    BY <1>1
  <2> QED
    BY <1>1, <2>1 DEF Range
<1>4. Range(q) \subseteq Range(p)
  <2>1. ASSUME NEW n \in DOMAIN q PROVE q[n] \in Range(p)
    <3>1. n \in DOMAIN p /\ p[n] = q[n]
      BY <1>1
    <3> QED
      BY <3>1 DEF Range
  <2> QED
    BY <2>1 DEF Range
<1>5. p \in Seq(T) /\ Range(p) = Range(q) \cup {x}
  BY <1>1, <1>2, <1>3, <1>4
<1> QED
  BY <1>5 DEF p

\* A turn of the drain carries no save it was not given.
LEMMA DrainOneCarries ==
  ASSUME NEW d \in Desks, NEW s \in Save
  PROVE  Carried(DrainOne(d, s)) \subseteq Carried(d) \cup {s}
<1>1. CASE s.id \in d.busy
  <2> DEFINE q == Append(d.queue, s)
             e == [d EXCEPT !.queue = q]
  <2>1. q \in Seq(Save) /\ Range(q) = Range(d.queue) \cup {s}
    <3>1. d.queue \in Seq(Save)
      BY DeskFields
    <3> QED
      BY <3>1, RangeAppend
  <2>2. DrainOne(d, s) = e
    BY <1>1 DEF DrainOne
  <2> HIDE DEF q
  <2>3. e.queue = q /\ e.flight = d.flight
    BY <2>1, SetQueue
  <2> HIDE DEF e
  <2> QED
    BY <2>1, <2>2, <2>3 DEF Carried
<1>2. CASE s.id \notin d.busy /\ Matches(d, s)
  <2>1. DrainOne(d, s) = Spawn(d, s)
    BY <1>2 DEF DrainOne
  <2>2. PICK f \in Flights : f.save = s /\ Spawn(d, s).flight = d.flight \cup {f}
    BY SpawnFields
  <2>3. Spawn(d, s).queue = d.queue
    BY SpawnFields
  <2> QED
    BY <2>1, <2>2, <2>3 DEF Carried
<1>3. CASE s.id \notin d.busy /\ ~Matches(d, s)
  <2>1. DrainOne(d, s) = DiscardStale(d, s)
    BY <1>3 DEF DrainOne
  <2>2. DiscardStale(d, s).queue = d.queue /\ DiscardStale(d, s).flight = d.flight
    BY DiscardFields
  <2> QED
    BY <2>1, <2>2 DEF Carried
<1> QED
  BY <1>1, <1>2, <1>3

\* Nor does the whole drain
LEMMA DrainCarries ==
  ASSUME NEW d \in Desks, InFlight(d), NEW c \in Seq(Save)
  PROVE  Carried(FoldLeft(DrainOne, [d EXCEPT !.queue = << >>], c))
           \subseteq {f.save : f \in d.flight} \cup Range(c)
<1> DEFINE d0 == [d EXCEPT !.queue = << >>]
           all == {f.save : f \in d.flight} \cup Range(c)
<1>1. PICK f : DrainRun(f, d0, c)
  BY DrainRuns
<1>2. d0 \in Desks /\ d0.queue = << >> /\ d0.flight = d.flight /\ InFlight(d0)
  BY SetQueue, << >> \in Seq(Save) DEF InFlight
<1> HIDE DEF d0
<1> DEFINE S == {k \in Nat : k <= Len(c) =>
                   f[k] \in Desks /\ InFlight(f[k]) /\ Carried(f[k]) \subseteq all}
<1>3. 0 \in S
  BY <1>1, <1>2 DEF DrainRun, Carried, Range
<1>4. ASSUME NEW k \in Nat, k \in S PROVE k + 1 \in S
  <2> SUFFICES ASSUME k + 1 <= Len(c)
               PROVE  /\ f[k + 1] \in Desks /\ InFlight(f[k + 1])
                      /\ Carried(f[k + 1]) \subseteq all
    OBVIOUS
  <2>1. k + 1 \in 1..Len(c) /\ (k + 1) - 1 = k
    OBVIOUS
  <2>2. f[k + 1] = DrainOne(f[k], c[k + 1]) /\ c[k + 1] \in Save /\ c[k + 1] \in Range(c)
    BY <1>1, <2>1 DEF DrainRun, Range
  <2>3. f[k] \in Desks /\ InFlight(f[k]) /\ Carried(f[k]) \subseteq all
    BY <1>4
  <2>4. f[k + 1] \in Desks /\ InFlight(f[k + 1])
    BY <2>2, <2>3, DrainOneFields
  <2>5. Carried(f[k + 1]) \subseteq Carried(f[k]) \cup {c[k + 1]}
    BY <2>2, <2>3, DrainOneCarries
  <2> QED
    BY <2>2, <2>3, <2>4, <2>5
<1> HIDE DEF S
<1>5. \A k \in Nat : k \in S
  BY <1>3, <1>4, DrainLoop!Induction
<1>6. Carried(f[Len(c)]) \subseteq all
  BY <1>5, Len(c) \in Nat DEF S
<1> QED
  BY <1>1, <1>6 DEF DrainRun, d0

\* The drain carries only own descendants
LEMMA DrainOwn ==
  ASSUME NEW d, Ready(d), KidsOwn(d)
  PROVE  KidsOwn(Drain(d))
<1>1. d \in Desks /\ InFlight(d) /\ Distinct(d.queue) /\ d.queue \in Seq(Save)
  BY DeskFields DEF Ready
<1>2. Coalesce(d.queue) = d.queue
  BY <1>1, CoalesceDistinct
<1>3. Carried(Drain(d)) \subseteq Carried(d)
  BY <1>1, <1>2, DrainCarries DEF Drain, Carried
<1> QED
  BY <1>3 DEF KidsOwn

\* A save enqueued may adopt the cascade of the one it supersedes, never another's.
LEMMA EnqueueOwn ==
  ASSUME NEW d, Ready(d), KidsOwn(d), NEW s \in Save, Own(s)
  PROVE  KidsOwn(Enqueue(d, s))
<1> DEFINE c == Coalesce(Append(d.queue, s))
           e == [d EXCEPT !.queue = Append(d.queue, s)]
<1>1. d \in Desks /\ InFlight(d) /\ Distinct(d.queue) /\ d.queue \in Seq(Save)
  BY DeskFields DEF Ready
<1>2. Thinned(c, d.queue, s)
  BY <1>1, CoalesceThins
<1>3. /\ e \in Desks /\ e.queue = Append(d.queue, s) /\ e.flight = d.flight /\ InFlight(e)
  BY <1>1, SetQueue, Append(d.queue, s) \in Seq(Save) DEF InFlight
<1>4. Enqueue(d, s) = FoldLeft(DrainOne, [e EXCEPT !.queue = << >>], c)
  BY <1>3 DEF Enqueue, Drain
<1> HIDE DEF c, e
<1>5. c \in Seq(Save)
  BY <1>2 DEF Thinned
<1>6. Carried(Enqueue(d, s)) \subseteq {f.save : f \in d.flight} \cup Range(c)
  BY <1>3, <1>4, <1>5, DrainCarries
<1>7. ASSUME NEW n \in 1..Len(c) PROVE Own(c[n])
  <2>1. CASE n = Len(c)
    <3>1. CASE c[n] = s
      BY <3>1
    <3>2. ASSUME NEW m \in DOMAIN d.queue, d.queue[m].id = s.id, c[n] = Adopt(s, d.queue[m])
          PROVE  Own(c[n])
      <4>1. d.queue[m] \in Save /\ Own(d.queue[m])
        BY <1>1 DEF KidsOwn, Carried, Range
      <4>2. /\ c[n].id = s.id
            /\ c[n].kids = IF s.kids = << >> THEN d.queue[m].kids ELSE s.kids
        BY <3>2, <4>1, AdoptFields
      <4> QED
        BY <3>2, <4>1, <4>2 DEF Own
    <3> QED
      BY <1>2, <2>1, <3>1, <3>2 DEF Thinned
  <2>2. CASE n # Len(c)
    <3>1. n \in 1..(Len(c) - 1)
      BY <2>2
    <3>2. \E m \in DOMAIN d.queue : c[n] = d.queue[m]
      BY <1>2, <3>1 DEF Thinned
    <3> QED
      BY <3>2 DEF KidsOwn, Carried, Range
  <2> QED
    BY <2>1, <2>2
<1>8. \A x \in Range(c) : Own(x)
  BY <1>5, <1>7 DEF Range
<1> QED
  BY <1>6, <1>8 DEF KidsOwn, Carried

\* A save without descendants
LEMMA NoKidsOwn == \A s \in Save : s.kids = << >> => Own(s)
BY DEF Own

\* Saves whose items are busy go back to the queue, and nothing else changes.
LEMMA DrainWaiting ==
  ASSUME NEW d \in Desks, NEW c \in Seq(Save), Len(c) > 0,
         \A n \in 1..(Len(c) - 1) : c[n].id \in d.busy
  PROVE  \E g \in Desks :
           /\ g.live = d.live /\ g.busy = d.busy /\ g.flight = d.flight
           /\ Range(g.queue) = {c[m] : m \in 1..(Len(c) - 1)}
           /\ FoldLeft(DrainOne, [d EXCEPT !.queue = << >>], c) = DrainOne(g, c[Len(c)])
<1> DEFINE d0 == [d EXCEPT !.queue = << >>]
<1>1. PICK f : DrainRun(f, d0, c)
  BY DrainRuns
<1>2. d0 \in Desks /\ d0.queue = << >> /\ d0.live = d.live /\ d0.busy = d.busy /\ d0.flight = d.flight
  BY SetQueue, << >> \in Seq(Save)
<1> HIDE DEF d0
<1>3. Len(c) \in Nat /\ \A n \in 1..Len(c) : c[n] \in Save
  OBVIOUS
<1> DEFINE Same(g, k) == /\ g \in Desks
                         /\ g.live = d.live /\ g.busy = d.busy /\ g.flight = d.flight
                         /\ Range(g.queue) = {c[m] : m \in 1..k}
           S == {k \in Nat : k < Len(c) => Same(f[k], k)}
<1>4. 0 \in S
  <2>1. Range(d0.queue) = {c[m] : m \in 1..0}
    BY <1>2 DEF Range
  <2> QED
    BY <1>1, <1>2, <2>1 DEF DrainRun
<1>5. ASSUME NEW k \in Nat, k \in S PROVE k + 1 \in S
  <2> SUFFICES ASSUME k + 1 < Len(c) PROVE Same(f[k + 1], k + 1)
    OBVIOUS
  <2>1. k + 1 \in 1..Len(c) /\ k + 1 \in 1..(Len(c) - 1) /\ (k + 1) - 1 = k
    BY <1>3
  <2> DEFINE g == f[k]
             s == c[k + 1]
             q == Append(g.queue, s)
             e == [g EXCEPT !.queue = q]
  <2>2. f[k + 1] = DrainOne(g, s) /\ s \in Save /\ s.id \in d.busy
    BY <1>1, <1>3, <2>1 DEF DrainRun
  <2>3. Same(g, k)
    BY <1>5
  <2> HIDE DEF g, s
  <2>4. g.queue \in Seq(Save)
    BY <2>3, DeskFields
  <2>5. q \in Seq(Save) /\ Range(q) = Range(g.queue) \cup {s}
    BY <2>2, <2>4, RangeAppend
  <2>6. f[k + 1] = e
    BY <2>2, <2>3 DEF DrainOne
  <2> HIDE DEF q
  <2>7. e \in Desks /\ e.queue = q /\ e.live = g.live /\ e.busy = g.busy /\ e.flight = g.flight
    BY <2>3, <2>5, SetQueue
  <2> HIDE DEF e
  <2>8. {c[m] : m \in 1..(k + 1)} = {c[m] : m \in 1..k} \cup {s}
    <3>1. 1..(k + 1) = (1..k) \cup {k + 1}
      OBVIOUS
    <3> QED
      BY <3>1 DEF s
  <2> QED
    BY <2>3, <2>5, <2>6, <2>7, <2>8
<1> HIDE DEF S
<1>6. \A k \in Nat : k \in S
  BY <1>4, <1>5, DrainLoop!Induction
<1> DEFINE l == Len(c) - 1
<1>7. l \in Nat /\ l < Len(c) /\ l + 1 = Len(c) /\ Len(c) \in 1..Len(c)
  BY <1>3
<1>8. Same(f[l], l)
  BY <1>6, <1>7 DEF S
<1>9. f[Len(c)] = DrainOne(f[l], c[Len(c)])
  BY <1>1, <1>7 DEF DrainRun
<1> HIDE DEF l
<1>10. FoldLeft(DrainOne, d0, c) = DrainOne(f[l], c[Len(c)])
  BY <1>1, <1>9 DEF DrainRun
<1> QED
  BY <1>8, <1>10 DEF d0, l

\* What the save a takes from the queue it supersedes.
Took(d, s, a) ==
  /\ a \in Save /\ a.id = s.id /\ a.after = s.after /\ a.role = s.role
  /\ \/ a = s /\ \A m \in DOMAIN d.queue : d.queue[m].id # s.id
     \/ \E m \in DOMAIN d.queue : d.queue[m].id = s.id /\ a = Adopt(s, d.queue[m])

\* Enqueueing a save when every other queued save waits for its own PATCH: the
\* dates shown stay, the item has a PATCH if it had one or shows what is saved,
\* and no other save is lost (enqueue_date_save).
LEMMA EnqueueEffect ==
  ASSUME NEW d, Ready(d), NEW s \in Save, Matches(d, s) \/ s.role # "Commit",
         \A n \in DOMAIN d.queue : d.queue[n].id \in d.busy \/ d.queue[n].id = s.id
  PROVE  /\ Enqueue(d, s).live = d.live
         /\ \E a : /\ Took(d, s, a)
                   /\ Matches(d, s) \/ s.id \in d.busy =>
                        s.id \in Enqueue(d, s).busy /\ a \in Carried(Enqueue(d, s))
         /\ \A x \in Carried(d) : \/ x \in Carried(Enqueue(d, s))
                                  \/ x.id = s.id /\ \E m \in DOMAIN d.queue : x = d.queue[m]
<1> DEFINE c == Coalesce(Append(d.queue, s))
           a == c[Len(c)]
           e0 == [d EXCEPT !.queue = Append(d.queue, s)]
           e == Enqueue(d, s)
<1>1. d \in Desks /\ InFlight(d) /\ Distinct(d.queue) /\ d.queue \in Seq(Save)
  BY DeskFields DEF Ready
<1>2. Thinned(c, d.queue, s)
  BY <1>1, CoalesceThins
<1>3. /\ e0 \in Desks /\ e0.queue = Append(d.queue, s) /\ e0.live = d.live
      /\ e0.busy = d.busy /\ e0.flight = d.flight
  BY <1>1, SetQueue, Append(d.queue, s) \in Seq(Save)
<1>4. e = FoldLeft(DrainOne, [e0 EXCEPT !.queue = << >>], c)
  BY <1>3 DEF Enqueue, Drain
<1> HIDE DEF c, e, e0
<1>5. c \in Seq(Save) /\ Len(c) > 0 /\ Len(c) \in 1..Len(c)
  BY <1>2 DEF Thinned
<1>6. \A n \in 1..(Len(c) - 1) : c[n].id \in d.busy
  BY <1>2 DEF Thinned
<1>7. PICK g \in Desks :
        /\ g.live = d.live /\ g.busy = d.busy /\ g.flight = d.flight
        /\ Range(g.queue) = {c[m] : m \in 1..(Len(c) - 1)}
        /\ e = DrainOne(g, a)
  <2>1. \A n \in 1..(Len(c) - 1) : c[n].id \in e0.busy
    BY <1>3, <1>6
  <2>2. \E g \in Desks :
          /\ g.live = e0.live /\ g.busy = e0.busy /\ g.flight = e0.flight
          /\ Range(g.queue) = {c[m] : m \in 1..(Len(c) - 1)}
          /\ FoldLeft(DrainOne, [e0 EXCEPT !.queue = << >>], c) = DrainOne(g, c[Len(c)])
    BY <1>3, <1>5, <2>1, DrainWaiting
  <2> QED
    BY <1>3, <1>4, <2>2
<1>8. Took(d, s, a)
  <2>1. a \in Save
    BY <1>5
  <2>2. CASE a = s /\ \A m \in DOMAIN d.queue : d.queue[m].id # s.id
    BY <2>2 DEF Took
  <2>3. ASSUME NEW m \in DOMAIN d.queue, d.queue[m].id = s.id, a = Adopt(s, d.queue[m])
        PROVE  Took(d, s, a)
    <3>1. d.queue[m] \in Save
      BY <1>1
    <3> QED
      BY <2>3, <3>1, AdoptFields DEF Took
  <2> QED
    BY <1>2, <2>2, <2>3 DEF Thinned
<1>9. a \in Save /\ a.id = s.id /\ a.after = s.after /\ a.role = s.role
  BY <1>8 DEF Took
<1> HIDE DEF a
<1>10. e.live = d.live /\ Carried(g) \subseteq Carried(e)
       /\ (Matches(d, s) \/ s.id \in d.busy => s.id \in e.busy /\ a \in Carried(e))
  <2>1. CASE a.id \in g.busy
    <3> DEFINE q == Append(g.queue, a)
               h == [g EXCEPT !.queue = q]
    <3>1. e = h
      BY <1>7, <2>1 DEF DrainOne
    <3>2. q \in Seq(Save) /\ Range(q) = Range(g.queue) \cup {a}
      BY <1>9, DeskFields, RangeAppend
    <3> HIDE DEF q
    <3>3. h.queue = q /\ h.live = g.live /\ h.busy = g.busy /\ h.flight = g.flight
      BY <3>2, SetQueue
    <3> HIDE DEF h
    <3> QED
      BY <1>7, <1>9, <2>1, <3>1, <3>2, <3>3 DEF Carried
  <2>2. CASE a.id \notin g.busy /\ Matches(g, a)
    <3>1. e = Spawn(g, a)
      BY <1>7, <2>2 DEF DrainOne
    <3>2. PICK f \in Flights : f.save = a /\ Spawn(g, a).flight = g.flight \cup {f}
      BY <1>9, SpawnFields
    <3>3. Spawn(g, a).queue = g.queue /\ Spawn(g, a).live = g.live
          /\ Spawn(g, a).busy = g.busy \cup {a.id}
      BY <1>9, SpawnFields
    <3> QED
      BY <1>7, <1>9, <3>1, <3>2, <3>3 DEF Carried
  <2>3. CASE a.id \notin g.busy /\ ~Matches(g, a)
    <3>1. ~Matches(d, s) /\ s.id \notin d.busy /\ a.role # "Commit"
      BY <1>7, <1>9, <2>3 DEF Matches
    <3>2. e = g
      BY <1>7, <2>3, <3>1 DEF DrainOne, DiscardStale
    <3> QED
      BY <1>7, <3>1, <3>2
  <2> QED
    BY <2>1, <2>2, <2>3
<1>11. ASSUME NEW x \in Carried(d)
       PROVE  x \in Carried(e) \/ (x.id = s.id /\ \E m \in DOMAIN d.queue : x = d.queue[m])
  <2>1. CASE x \in {f.save : f \in d.flight}
    BY <1>7, <1>10, <2>1 DEF Carried
  <2>2. CASE x \in Range(d.queue)
    <3>1. PICK m \in DOMAIN d.queue : x = d.queue[m]
      BY <2>2 DEF Range
    <3>2. CASE x.id # s.id
      <4>1. \E n \in 1..(Len(c) - 1) : c[n] = x
        BY <1>2, <3>1, <3>2 DEF Thinned
      <4> QED
        BY <1>7, <1>10, <4>1 DEF Carried
    <3> QED
      BY <3>1, <3>2
  <2> QED
    BY <2>1, <2>2 DEF Carried
<1> QED
  BY <1>8, <1>10, <1>11 DEF e

\* A save without a cascade of its own keeps every cascade that is carried.
LEMMA EnqueueHolds ==
  ASSUME NEW d, DeskInv(d), NEW s \in Save, Matches(d, s) \/ s.role # "Commit", s.kids = << >>
  PROVE  /\ Enqueue(d, s).live = d.live
         /\ Matches(d, s) => s.id \in Enqueue(d, s).busy
         /\ \A x \in Carried(d) : x.kids # << >> =>
              \E y \in Carried(Enqueue(d, s)) : y.kids = x.kids
<1> DEFINE e == Enqueue(d, s)
<1>1. Ready(d) /\ Waiting(d) /\ d.queue \in Seq(Save) /\ Distinct(d.queue)
  BY DeskFields DEF DeskInv, Ready
<1>2. \A n \in DOMAIN d.queue : d.queue[n].id \in d.busy \/ d.queue[n].id = s.id
  BY <1>1 DEF Waiting
<1>3. /\ e.live = d.live
      /\ \E a : /\ Took(d, s, a)
                /\ Matches(d, s) \/ s.id \in d.busy => s.id \in e.busy /\ a \in Carried(e)
      /\ \A x \in Carried(d) : \/ x \in Carried(e)
                               \/ x.id = s.id /\ \E m \in DOMAIN d.queue : x = d.queue[m]
  BY <1>1, <1>2, EnqueueEffect
<1> HIDE DEF e
<1>4. PICK a : /\ Took(d, s, a)
               /\ Matches(d, s) \/ s.id \in d.busy => s.id \in e.busy /\ a \in Carried(e)
  BY <1>3
<1>5. ASSUME NEW x \in Carried(d), x.kids # << >> PROVE \E y \in Carried(e) : y.kids = x.kids
  <2>1. CASE x \in Carried(e)
    BY <2>1
  <2>2. ASSUME NEW m \in DOMAIN d.queue, x = d.queue[m], x.id = s.id
        PROVE  \E y \in Carried(e) : y.kids = x.kids
    <3>1. s.id \in d.busy
      BY <1>1, <2>2 DEF Waiting
    <3>2. PICK n \in DOMAIN d.queue : d.queue[n].id = s.id /\ a = Adopt(s, d.queue[n])
      BY <1>4, <2>2 DEF Took
    <3>3. n = m
      BY <1>1, <2>2, <3>2 DEF Distinct
    <3>4. x \in Save
      BY <1>1, <2>2
    <3>5. a.kids = x.kids
      BY <2>2, <3>2, <3>3, <3>4, AdoptFields
    <3> QED
      BY <1>4, <3>1, <3>5
  <2> QED
    BY <1>3, <2>1, <2>2
<1> QED
  BY <1>3, <1>4, <1>5 DEF e

\* Every cascade d carries is carried by e.
Carries(d, e) == \A x \in Carried(d) : x.kids # << >> => \E y \in Carried(e) : y.kids = x.kids

\* The same for a group of saves whose last ones show what they save, as an undo,
\* a redo, a toast or "Move children too" enqueues them.
LEMMA EnqueueAllHolds ==
  ASSUME NEW d, DeskInv(d), KidsOwn(d), NEW saves \in Seq(Save),
         \A n \in 1..Len(saves) : saves[n].kids = << >> /\ saves[n].role # "Commit",
         \A n \in 1..Len(saves) :
           LastMove(saves, Len(saves), saves[n].id, n) => Matches(d, saves[n])
  PROVE  LET e == EnqueueAll(d, saves)
         IN  /\ e.live = d.live /\ Carries(d, e) /\ KidsOwn(e)
             /\ \A n \in 1..Len(saves) : saves[n].id \in e.busy
<1>1. PICK f : EnqueueRun(f, d, saves)
  BY EnqueueRuns
<1> DEFINE len == Len(saves)
<1>2. len \in Nat /\ \A n \in 1..len : saves[n] \in Save
  OBVIOUS
<1> DEFINE Ok(k) == /\ DeskInv(f[k]) /\ KidsOwn(f[k]) /\ f[k].live = d.live /\ Carries(d, f[k])
                    /\ \A n \in 1..k :
                         LastMove(saves, len, saves[n].id, n) => saves[n].id \in f[k].busy
           S == {k \in Nat : k <= len => Ok(k)}
<1>3. 0 \in S
  BY <1>1 DEF EnqueueRun, Carries
<1>4. ASSUME NEW k \in Nat, k \in S PROVE k + 1 \in S
  <2> SUFFICES ASSUME k + 1 <= len PROVE Ok(k + 1)
    OBVIOUS
  <2>1. k + 1 \in 1..len /\ (k + 1) - 1 = k
    BY <1>2
  <2> DEFINE g == f[k]
             s == saves[k + 1]
             e == f[k + 1]
  <2>2. e = Enqueue(g, s) /\ s \in Save /\ s.kids = << >> /\ s.role # "Commit"
    BY <1>1, <1>2, <2>1 DEF EnqueueRun
  <2>3. /\ DeskInv(g) /\ Ready(g) /\ KidsOwn(g) /\ g.live = d.live /\ Carries(d, g)
        /\ \A n \in 1..k :
             LastMove(saves, len, saves[n].id, n) => saves[n].id \in g.busy
    BY <1>4 DEF DeskInv
  <2>4. LastMove(saves, len, s.id, k + 1) => Matches(g, s)
    BY <2>1, <2>3 DEF Matches
  <2> HIDE DEF g, s, e
  <2>5. DeskInv(e) /\ Grows(g, e) /\ KidsOwn(e)
    BY <2>2, <2>3, EnqueueInv, EnqueueOwn, NoKidsOwn
  <2>6. e.live = g.live /\ Carries(g, e) /\ (Matches(g, s) => s.id \in e.busy)
    BY <2>2, <2>3, EnqueueHolds DEF Carries
  <2>7. Carries(d, e)
    BY <2>3, <2>6 DEF Carries
  <2>8. ASSUME NEW n \in 1..(k + 1), LastMove(saves, len, saves[n].id, n)
        PROVE  saves[n].id \in e.busy
    <3>1. CASE n = k + 1
      BY <2>4, <2>6, <2>8, <3>1 DEF s
    <3>2. CASE n \in 1..k
      BY <2>3, <2>5, <2>8, <3>2 DEF Grows
    <3> QED
      BY <3>1, <3>2
  <2> QED
    BY <2>3, <2>5, <2>6, <2>7, <2>8 DEF e
<1> HIDE DEF S
<1>5. \A k \in Nat : k \in S
  BY <1>3, <1>4, EnqueueLoop!Induction
<1>6. Ok(len)
  BY <1>2, <1>5 DEF S
<1>7. ASSUME NEW n \in 1..len PROVE saves[n].id \in f[len].busy
  <2> DEFINE I == {m \in 1..len : saves[m].id = saves[n].id}
  <2>1. PICK m \in I : \A k \in I : k <= m
    <3>1. I \in SUBSET (1..len) /\ I # {} /\ len \in Nat
      BY <1>2
    <3> QED
      BY <3>1, EnqueueLoop!LastExists
  <2>2. LastMove(saves, len, saves[m].id, m)
    BY <1>2, <2>1 DEF LastMove
  <2> QED
    BY <1>6, <2>1, <2>2
<1>8. EnqueueAll(d, saves) = f[len]
  BY <1>1 DEF EnqueueRun
<1> QED
  BY <1>6, <1>7, <1>8

\* A Shift-drag that is still to be answered owns the dates item j shows
HeldAt(d, j) ==
  \E x \in Carried(d) : \E n \in DOMAIN x.kids : x.kids[n].id = j /\ d.live[j] = x.kids[n].after

\* It is what Held says of the planner
LEMMA HeldDesk == \A j : (Held(j) <=> HeldAt(Desk, j)) /\ (Held(j) <=> HeldAt(Desk, j))'
BY DEF Held, HeldAt, Carried, Desk

\* An item's dates stay owned when they stay and every cascade is still carried
LEMMA HeldKept ==
  ASSUME NEW d, NEW e, NEW j, e.live[j] = d.live[j], Carries(d, e), HeldAt(d, j)
  PROVE  HeldAt(e, j)
<1>1. PICK x \in Carried(d) : \E n \in DOMAIN x.kids : x.kids[n].id = j /\ d.live[j] = x.kids[n].after
  BY DEF HeldAt
<1>2. x.kids # << >>
  BY <1>1
<1>3. PICK y \in Carried(e) : y.kids = x.kids
  BY <1>2 DEF Carries
<1> QED
  BY <1>1, <1>3 DEF HeldAt

\* What the proof of Agreement rests on, and Agreement item by item: module
\* SpawnState keeps some items out.
OwnInv == PipelineInv /\ KidsOwn(Desk)

\* Agreement, for one item
AgreesFor(j) == j \notin failed \cup orphaned /\ Settled(j) => live[j] = server[j]

\* No item that agreed stops agreeing
AgreementKept == \A j \in Ids : AgreesFor(j) => AgreesFor(j)'

\* The dates of an item, and the Shift-drag that owns them, are left alone.
Left(d, e, j) == e.live[j] = d.live[j] /\ (HeldAt(d, j) => HeldAt(e, j))

\* The saves whose PATCHes are in flight, and the dates of item j among them and
\* among the saves that wait: what its lane shows.
Sending(d)  == {f.save : f \in d.flight}
After(X, j) == {x.after : x \in {y \in X : y.id = j}}
Flies(d, j) == After(Sending(d), j)
Waits(d, j) == After(Range(d.queue), j)
SameLane(d, e, j) == Flies(e, j) = Flies(d, j) /\ Waits(e, j) = Waits(d, j)

\* From d to e the save x, of an idle item, was sent or found stale.
Resolved(d, e, x) ==
  \/ /\ Matches(d, x) /\ e.live = d.live
     /\ e.busy = d.busy \cup {x.id} /\ Sending(e) = Sending(d) \cup {x}
  \/ /\ ~Matches(d, x) /\ e.busy = d.busy /\ Sending(e) = Sending(d)
     /\ \A j \in Ids : e.live[j] # d.live[j] =>
          \E n \in DOMAIN x.kids : x.kids[n].id = j /\ d.live[j] = x.kids[n].after
     /\ x.role # "Commit" => e.live = d.live

\* One turn of the loop of drain_date_saves: a save whose item is busy goes back to
\* the queue, any other is resolved.
LEMMA DrainOneTurns ==
  ASSUME NEW g \in Desks, NEW a \in Save
  PROVE  LET e == DrainOne(g, a)
         IN  /\ a.id \in g.busy =>
                  /\ e.live = g.live /\ e.busy = g.busy /\ Sending(e) = Sending(g)
                  /\ Range(e.queue) = Range(g.queue) \cup {a} /\ e \in Desks
             /\ a.id \notin g.busy => Resolved(g, e, a) /\ e.queue = g.queue /\ e \in Desks
<1> DEFINE e == DrainOne(g, a)
<1>1. CASE a.id \in g.busy
  <2> DEFINE q == Append(g.queue, a)
             h == [g EXCEPT !.queue = q]
  <2>1. e = h
    BY <1>1 DEF DrainOne
  <2>2. q \in Seq(Save) /\ Range(q) = Range(g.queue) \cup {a}
    BY DeskFields, RangeAppend
  <2> HIDE DEF q
  <2>3. h \in Desks /\ h.queue = q /\ h.live = g.live /\ h.busy = g.busy /\ h.flight = g.flight
    BY <2>2, SetQueue
  <2> HIDE DEF h, e
  <2> QED
    BY <1>1, <2>1, <2>2, <2>3 DEF Sending, e
<1>2. CASE a.id \notin g.busy /\ Matches(g, a)
  <2>1. e = Spawn(g, a)
    BY <1>2 DEF DrainOne
  <2>2. PICK f \in Flights : f.save = a /\ Spawn(g, a).flight = g.flight \cup {f}
    BY SpawnFields
  <2>3. /\ Spawn(g, a) \in Desks /\ Spawn(g, a).queue = g.queue /\ Spawn(g, a).live = g.live
        /\ Spawn(g, a).busy = g.busy \cup {a.id}
    BY SpawnFields
  <2> HIDE DEF e
  <2> QED
    BY <1>2, <2>1, <2>2, <2>3 DEF Sending, Resolved, e
<1>3. CASE a.id \notin g.busy /\ ~Matches(g, a)
  <2>1. e = DiscardStale(g, a)
    BY <1>3 DEF DrainOne
  <2>2. /\ e \in Desks /\ e.queue = g.queue /\ e.busy = g.busy /\ e.flight = g.flight
        /\ \A j \in Ids : e.live[j] # g.live[j] =>
             \E n \in DOMAIN a.kids : a.kids[n].id = j /\ g.live[j] = a.kids[n].after
    BY <2>1, DiscardFields
  <2>3. a.role # "Commit" => e.live = g.live
    BY <2>1 DEF DiscardStale
  <2> HIDE DEF e
  <2> QED
    BY <1>3, <2>2, <2>3 DEF Sending, Resolved, e
<1> QED
  BY <1>1, <1>2, <1>3

\* The first l saves of c but the one at p.
ButAt(c, l, p) == {c[m] : m \in (1..l) \ {p}}

\* Desk g is d with the first l saves of c in its queue, but the one at p: that one is
\* resolved.
Around(d, g, c, l, p) ==
  /\ g \in Desks /\ Range(g.queue) = ButAt(c, l, p)
  /\ p \in 1..l => Resolved(d, g, c[p])
  /\ p \notin 1..l => g.live = d.live /\ g.busy = d.busy /\ Sending(g) = Sending(d)

\* A drain over saves of busy items but for one idle item at p: they go back to the
\* queue, and that one is resolved.
LEMMA DrainAround ==
  ASSUME NEW d \in Desks, NEW c \in Seq(Save), NEW f,
         NEW d0, d0 = [d EXCEPT !.queue = << >>], DrainRun(f, d0, c),
         NEW l \in 0..Len(c), NEW p \in Nat, \A n \in 1..l : n # p <=> c[n].id \in d.busy,
         \A m, n \in 1..l : c[m].id = c[n].id => m = n
  PROVE  Around(d, f[l], c, l, p)
<1>2. /\ d0 \in Desks /\ d0.queue = << >> /\ d0.live = d.live /\ d0.busy = d.busy
      /\ d0.flight = d.flight
  BY SetQueue, << >> \in Seq(Save)
<1>1. DrainRun(f, d0, c)
  OBVIOUS
<1>3. \A n \in 1..Len(c) : c[n] \in Save
  OBVIOUS
<1>8. Len(c) \in Nat /\ l \in Nat /\ l <= Len(c)
  OBVIOUS
<1> DEFINE At(k) == /\ f[k] \in Desks /\ Range(f[k].queue) = ButAt(c, k, p)
                    /\ p \in 1..k => Resolved(d, f[k], c[p])
                    /\ p \notin 1..k => /\ f[k].live = d.live /\ f[k].busy = d.busy
                                        /\ Sending(f[k]) = Sending(d)
           S == {k \in Nat : k <= l => At(k)}
<1>4. 0 \in S
  <2>1. Range(d0.queue) = {} /\ (1..0) = {}
    BY <1>2 DEF Range
  <2>2. ButAt(c, 0, p) = {}
    BY <2>1 DEF ButAt
  <2>3. f[0] = d0
    BY <1>1 DEF DrainRun
  <2>4. At(0)
    BY <1>2, <2>1, <2>2, <2>3 DEF Sending
  <2> QED
    BY <2>4
<1>5. ASSUME NEW k \in Nat, k \in S PROVE k + 1 \in S
  <2> SUFFICES ASSUME k + 1 <= l PROVE At(k + 1)
    OBVIOUS
  <2> HIDE DEF At
  <2>1. k + 1 \in 1..Len(c) /\ k + 1 \in 1..l /\ (k + 1) - 1 = k
    BY <1>8
  <2>2. At(k)
    BY <1>5, <1>8
  <2> USE DEF At
  <2> DEFINE g == f[k]
             s == c[k + 1]
             e == f[k + 1]
  <2>3. e = DrainOne(g, s) /\ s \in Save
    BY <1>1, <1>3, <2>1 DEF DrainRun
  <2>4. g \in Desks
    BY <2>2
  <2> HIDE DEF g, s, e
  <2>5. /\ s.id \in g.busy =>
             /\ e.live = g.live /\ e.busy = g.busy /\ Sending(e) = Sending(g)
             /\ Range(e.queue) = Range(g.queue) \cup {s} /\ e \in Desks
        /\ s.id \notin g.busy => Resolved(g, e, s) /\ e.queue = g.queue /\ e \in Desks
    BY <2>3, <2>4, DrainOneTurns
  <2> USE DEF g, s, e
  <2>6. 1..(k + 1) = (1..k) \cup {k + 1}
    OBVIOUS
  <2>7. CASE k + 1 = p
    <3>1. p \notin 1..k /\ p \in 1..(k + 1)
      BY <2>7
    <3>2. s.id \notin g.busy
      BY <2>1, <2>2, <2>7, <3>1
    <3>3. (1..(k + 1)) \ {p} = (1..k) \ {p}
      BY <2>6, <2>7
    <3>4. ButAt(c, k + 1, p) = ButAt(c, k, p)
      BY <3>3 DEF ButAt
    <3>5. Resolved(d, e, c[p])
      <4>1. Resolved(g, e, s) /\ s = c[p] /\ g.live = d.live /\ g.busy = d.busy /\ Sending(g) = Sending(d)
        BY <2>2, <2>5, <2>7, <3>1, <3>2
      <4> HIDE DEF g, e, s
      <4> QED
        BY <4>1 DEF Resolved, Matches
    <3> QED
      BY <2>2, <2>5, <3>1, <3>2, <3>4, <3>5
  <2>8. CASE k + 1 # p
    <3>1. s.id \in d.busy /\ (p \in 1..(k + 1) <=> p \in 1..k)
      BY <2>1, <2>6, <2>8
    <3>2. s.id \in g.busy
      BY <2>2, <3>1 DEF Resolved
    <3>3. (1..(k + 1)) \ {p} = ((1..k) \ {p}) \cup {k + 1}
      BY <2>6, <2>8
    <3>4. ButAt(c, k + 1, p) = ButAt(c, k, p) \cup {s}
      BY <3>3 DEF ButAt
    <3>5. p \in 1..k => Resolved(d, e, c[p])
      <4>1. e.live = g.live /\ e.busy = g.busy /\ Sending(e) = Sending(g)
        BY <2>5, <3>2
      <4>2. p \in 1..k => Resolved(d, g, c[p])
        BY <2>2
      <4> HIDE DEF g, e
      <4> QED
        BY <4>1, <4>2 DEF Resolved
    <3> QED
      BY <2>2, <2>5, <3>1, <3>2, <3>4, <3>5
  <2> QED
    BY <2>7, <2>8
<1> HIDE DEF S
<1>6. \A k \in Nat : k \in S
  BY <1>4, <1>5, DrainLoop!Induction
<1>7. At(l)
  <2> HIDE DEF At
  <2> QED
    BY <1>6, <1>8 DEF S
<1> QED
  BY <1>7 DEF Around

\* The queue a desk is left with when the saves of i and of J are taken out.
QueuedBut(d, i, J) == {x \in Range(d.queue) : x.id # i /\ x.id \notin J}

\* Desk g is d with the saves of i and of J out of the queue, that of i resolved
\* unless it is one of J.
Cleared(d, g, i, J) ==
  /\ g \in Desks /\ Range(g.queue) = QueuedBut(d, i, J)
  /\ \/ /\ i \notin J /\ \E x \in Range(d.queue) : x.id = i /\ Resolved(d, g, x)
     \/ /\ i \in J \/ \A x \in Range(d.queue) : x.id # i
        /\ g.live = d.live /\ g.busy = d.busy /\ Sending(g) = Sending(d)

\* What enqueueing the save s does when i is the one idle item whose save may
\* still wait: that save is resolved, then s is taken with what it supersedes.
LEMMA EnqueueTurns ==
  ASSUME NEW d, Ready(d), NEW s \in Save, NEW i, i = s.id \/ i \notin d.busy,
         \A x \in Range(d.queue) : x.id \in d.busy \/ x.id = i
  PROVE  \E g, a : Took(d, s, a) /\ Cleared(d, g, i, {s.id}) /\ Enqueue(d, s) = DrainOne(g, a)
<1> DEFINE c == Coalesce(Append(d.queue, s))
           a == c[Len(c)]
           l == Len(c) - 1
           e0 == [d EXCEPT !.queue = Append(d.queue, s)]
           e == Enqueue(d, s)
<1>1. d \in Desks /\ InFlight(d) /\ Distinct(d.queue) /\ d.queue \in Seq(Save)
  BY DeskFields DEF Ready
<1>2. Thinned(c, d.queue, s)
  BY <1>1, CoalesceThins
<1>3. /\ e0 \in Desks /\ e0.queue = Append(d.queue, s) /\ e0.live = d.live
      /\ e0.busy = d.busy /\ e0.flight = d.flight
  BY <1>1, SetQueue, Append(d.queue, s) \in Seq(Save)
<1>4. e = FoldLeft(DrainOne, [e0 EXCEPT !.queue = << >>], c)
  BY <1>3 DEF Enqueue, Drain
<1> HIDE DEF c, e, e0
<1>5. c \in Seq(Save) /\ Distinct(c) /\ Len(c) \in Nat /\ Len(c) > 0
  BY <1>2 DEF Thinned
<1>6. /\ l \in 0..Len(c) /\ l + 1 = Len(c) /\ Len(c) \in 1..Len(c) /\ l \in Nat
      /\ \A n \in 1..l : n \in 1..Len(c)
  BY <1>5
<1>7. /\ \A n \in 1..l : c[n].id # s.id /\ c[n] \in Range(d.queue)
      /\ \A x \in Range(d.queue) : x.id # s.id => \E n \in 1..l : c[n] = x
  <2>1. ASSUME NEW n \in 1..l PROVE c[n].id # s.id /\ c[n] \in Range(d.queue)
    BY <1>2 DEF Thinned, Range
  <2>2. ASSUME NEW x \in Range(d.queue), x.id # s.id PROVE \E n \in 1..l : c[n] = x
    <3>1. PICK m \in DOMAIN d.queue : x = d.queue[m]
      BY DEF Range
    <3> QED
      BY <1>2, <2>2, <3>1 DEF Thinned
  <2> QED
    BY <2>1, <2>2
<1>8. Took(d, s, a)
  <2>1. a \in Save
    BY <1>5, <1>6
  <2>2. CASE a = s /\ \A m \in DOMAIN d.queue : d.queue[m].id # s.id
    BY <2>2 DEF Took
  <2>3. ASSUME NEW m \in DOMAIN d.queue, d.queue[m].id = s.id, a = Adopt(s, d.queue[m])
        PROVE  Took(d, s, a)
    <3>1. d.queue[m] \in Save
      BY <1>1
    <3> QED
      BY <2>3, <3>1, AdoptFields DEF Took
  <2> QED
    BY <1>2, <2>2, <2>3 DEF Thinned
<1>9. \A m, n \in 1..l : c[m].id = c[n].id => m = n
  BY <1>5, <1>6 DEF Distinct
<1>10. PICK f : DrainRun(f, [e0 EXCEPT !.queue = << >>], c)
  BY <1>5, DrainRuns
<1>11. e = DrainOne(f[l], a)
  <2> HIDE DEF l, a
  <2>1. Len(c) - 1 = l
    BY DEF l
  <2> QED
    BY <1>4, <1>6, <1>10, <2>1 DEF DrainRun, a
<1>12. \A x \in Range(d.queue) : x \in Save
  BY <1>1 DEF Range
<1> HIDE DEF a, l
<1>15. \A p \in Nat : (\A n \in 1..l : n # p <=> c[n].id \in e0.busy)
                      => Around(e0, f[l], c, l, p)
  <2> SUFFICES ASSUME NEW p \in Nat, \A n \in 1..l : n # p <=> c[n].id \in e0.busy
               PROVE  Around(e0, f[l], c, l, p)
    OBVIOUS
  <2>1. e0 \in Desks /\ c \in Seq(Save) /\ l \in 0..Len(c)
    BY <1>3, <1>5, <1>6
  <2>2. DrainRun(f, [e0 EXCEPT !.queue = << >>], c) /\ e0 \in Desks
    BY <1>10, <2>1
  <2> DEFINE d0 == [e0 EXCEPT !.queue = << >>]
  <2>3. DrainRun(f, d0, c) /\ d0 = [e0 EXCEPT !.queue = << >>]
    BY <2>2
  <2> HIDE DEF d0
  <2> QED
    BY <1>9, <2>1, <2>3, DrainAround
<1>16. Sending(e0) = Sending(d) /\ \A x : Matches(e0, x) <=> Matches(d, x)
  BY <1>3 DEF Sending, Matches
<1>13. CASE \E p \in 1..l : c[p].id = i
  <2>1. PICK p \in 1..l : c[p].id = i
    BY <1>13
  <2>2. i # s.id /\ i \notin d.busy
    BY <1>7, <2>1
  <2>3. \A n \in 1..l : n # p <=> c[n].id \in e0.busy
    BY <1>3, <1>7, <1>9, <2>1, <2>2
  <2>4. p \in Nat
    BY <1>6
  <2>5. /\ f[l] \in Desks /\ Range(f[l].queue) = ButAt(c, l, p)
        /\ Resolved(e0, f[l], c[p])
    BY <1>15, <2>1, <2>3, <2>4 DEF Around
  <2>6. Resolved(d, f[l], c[p])
    BY <1>3, <1>16, <2>5 DEF Resolved
  <2>7. ButAt(c, l, p) = QueuedBut(d, i, {s.id})
    <3>1. ASSUME NEW m \in (1..l) \ {p} PROVE c[m] \in QueuedBut(d, i, {s.id})
      BY <1>7, <1>9, <2>1 DEF QueuedBut
    <3>2. ASSUME NEW x \in QueuedBut(d, i, {s.id}) PROVE \E m \in (1..l) \ {p} : c[m] = x
      <4>1. PICK m \in 1..l : c[m] = x
        BY <1>7 DEF QueuedBut
      <4> QED
        BY <2>1, <4>1 DEF QueuedBut
    <3> QED
      BY <3>1, <3>2 DEF ButAt
  <2>8. Cleared(d, f[l], i, {s.id})
    BY <1>7, <2>1, <2>2, <2>5, <2>6, <2>7 DEF Cleared
  <2> QED
    BY <1>8, <1>11, <2>8 DEF e
<1>14. CASE \A p \in 1..l : c[p].id # i
  <2>1. \A n \in 1..l : n # 0 <=> c[n].id \in e0.busy
    BY <1>3, <1>7, <1>14
  <2>2. /\ f[l] \in Desks /\ Range(f[l].queue) = ButAt(c, l, 0)
        /\ f[l].live = e0.live /\ f[l].busy = e0.busy /\ Sending(f[l]) = Sending(e0)
    <3>1. 0 \in Nat /\ 0 \notin 1..l
      BY <1>6
    <3> QED
      BY <1>15, <2>1, <3>1 DEF Around
  <2>3. i = s.id \/ \A x \in Range(d.queue) : x.id # i
    BY <1>7, <1>14
  <2>4. ButAt(c, l, 0) = QueuedBut(d, i, {s.id})
    <3>1. ASSUME NEW m \in (1..l) \ {0} PROVE c[m] \in QueuedBut(d, i, {s.id})
      BY <1>7, <1>14 DEF QueuedBut
    <3>2. ASSUME NEW x \in QueuedBut(d, i, {s.id}) PROVE \E m \in (1..l) \ {0} : c[m] = x
      <4>1. PICK m \in 1..l : c[m] = x
        BY <1>7 DEF QueuedBut
      <4> QED
        BY <4>1
    <3> QED
      BY <3>1, <3>2 DEF ButAt
  <2>5. Cleared(d, f[l], i, {s.id})
    BY <1>3, <1>16, <2>2, <2>3, <2>4 DEF Cleared
  <2> QED
    BY <1>8, <1>11, <2>5 DEF e
<1> QED
  BY <1>13, <1>14

\* What one more save adds to the dates of an item.
LEMMA AfterOneMore ==
  ASSUME NEW X, NEW a, NEW j
  PROVE  After(X \cup {a}, j) = IF j = a.id THEN After(X, j) \cup {a.after} ELSE After(X, j)
BY DEF After

\* One turn of the drain as the lanes see it: only the item of the save is touched.
LEMMA DrainOneLanes ==
  ASSUME NEW g \in Desks, NEW a \in Save
  PROVE  LET e == DrainOne(g, a)
             j == a.id
         IN  /\ \A k : k # j => SameLane(g, e, k)
             /\ j \in g.busy => /\ e.live = g.live /\ Flies(e, j) = Flies(g, j)
                                /\ Waits(e, j) = Waits(g, j) \cup {a.after}
             /\ j \notin g.busy /\ Matches(g, a) =>
                  /\ e.live = g.live /\ Flies(e, j) = Flies(g, j) \cup {a.after}
                  /\ Waits(e, j) = Waits(g, j)
             /\ j \notin g.busy /\ ~Matches(g, a) =>
                  SameLane(g, e, j) /\ (a.role # "Commit" => e.live = g.live)
<1> DEFINE e == DrainOne(g, a)
           j == a.id
<1>1. /\ a.id \in g.busy =>
           /\ e.live = g.live /\ e.busy = g.busy /\ Sending(e) = Sending(g)
           /\ Range(e.queue) = Range(g.queue) \cup {a} /\ e \in Desks
      /\ a.id \notin g.busy => Resolved(g, e, a) /\ e.queue = g.queue /\ e \in Desks
  BY DrainOneTurns
<1> HIDE DEF e
<1>2. CASE j \in g.busy
  <2>1. e.live = g.live /\ Sending(e) = Sending(g) /\ Range(e.queue) = Range(g.queue) \cup {a}
    BY <1>1, <1>2
  <2>2. \A k : Flies(e, k) = Flies(g, k)
    BY <2>1 DEF Flies
  <2>3. \A k : Waits(e, k) = IF k = j THEN Waits(g, k) \cup {a.after} ELSE Waits(g, k)
    <3>1. \A k : After(Range(g.queue) \cup {a}, k)
                  = IF k = j THEN After(Range(g.queue), k) \cup {a.after} ELSE After(Range(g.queue), k)
      BY AfterOneMore
    <3> QED
      BY <2>1, <3>1 DEF Waits
  <2> QED
    BY <1>2, <2>1, <2>2, <2>3 DEF SameLane, e
<1>3. CASE j \notin g.busy /\ Matches(g, a)
  <2>1. e.live = g.live /\ Sending(e) = Sending(g) \cup {a} /\ e.queue = g.queue
    BY <1>1, <1>3 DEF Resolved
  <2>2. \A k : Flies(e, k) = IF k = j THEN Flies(g, k) \cup {a.after} ELSE Flies(g, k)
    BY <2>1, AfterOneMore DEF Flies
  <2>3. \A k : Waits(e, k) = Waits(g, k)
    BY <2>1 DEF Waits
  <2> QED
    BY <1>3, <2>1, <2>2, <2>3 DEF SameLane, e
<1>4. CASE j \notin g.busy /\ ~Matches(g, a)
  <2>1. Sending(e) = Sending(g) /\ e.queue = g.queue /\ (a.role # "Commit" => e.live = g.live)
    BY <1>1, <1>4 DEF Resolved
  <2>2. \A k : Flies(e, k) = Flies(g, k) /\ Waits(e, k) = Waits(g, k)
    BY <2>1 DEF Flies, Waits
  <2> QED
    BY <1>4, <2>1, <2>2 DEF SameLane, e
<1> QED
  BY <1>2, <1>3, <1>4

\* An item is busy exactly when a date of its flies.
LEMMA BusyFlies ==
  ASSUME NEW d, InFlight(d), NEW j
  PROVE  j \in d.busy <=> Flies(d, j) # {}
BY DEF InFlight, Flies, After, Sending

\* What is left of the stale item i: it flies its date when a save of it waited,
\* and nothing of it waits.
Decided(d, i) == IF d.live[i] \in Waits(d, i) THEN {d.live[i]} ELSE {}

\* The lanes of a desk whose save of i was resolved and whose save of j was taken.
LEMMA ClearedLanes ==
  ASSUME NEW d, Ready(d), NEW g, NEW i, NEW J, Cleared(d, g, i, J), i \in J \/ i \notin d.busy
  PROVE  /\ \A k : k # i => Flies(g, k) = Flies(d, k)
         /\ \A k : k # i /\ k \notin J => Waits(g, k) = Waits(d, k)
         /\ Waits(g, i) = {} /\ \A k \in J : Waits(g, k) = {}
         /\ i \in J => Flies(g, i) = Flies(d, i)
         /\ i \notin J => Flies(g, i) = Decided(d, i)
<1>1. d \in Desks /\ InFlight(d) /\ Distinct(d.queue) /\ Range(g.queue) = QueuedBut(d, i, J)
  BY DEF Ready, Cleared
<1>2. \A k : k # i /\ k \notin J => Waits(g, k) = Waits(d, k)
  BY <1>1 DEF Waits, After, QueuedBut
<1>3. Waits(g, i) = {} /\ \A k \in J : Waits(g, k) = {}
  BY <1>1 DEF Waits, After, QueuedBut
<1>4. CASE i \in J \/ \A x \in Range(d.queue) : x.id # i
  <2>1. Sending(g) = Sending(d)
    BY <1>4 DEF Cleared
  <2>2. \A k : Flies(g, k) = Flies(d, k)
    BY <2>1 DEF Flies
  <2>3. i \notin J => Flies(d, i) = {} /\ Waits(d, i) = {}
    BY <1>1, <1>4, BusyFlies DEF Waits, After
  <2> QED
    BY <1>2, <1>3, <2>2, <2>3 DEF Decided
<1>5. ASSUME i \notin J, NEW x \in Range(d.queue), x.id = i, Resolved(d, g, x)
      PROVE  /\ \A k : k # i => Flies(g, k) = Flies(d, k)
             /\ Flies(g, i) = Decided(d, i)
  <2>1. Waits(d, i) = {x.after}
    <3>1. \A y \in Range(d.queue) : y.id = i => y = x
      BY <1>1, <1>5 DEF Distinct, Range
    <3> QED
      BY <1>5, <3>1 DEF Waits, After
  <2>2. Flies(d, i) = {}
    BY <1>1, <1>5, BusyFlies
  <2>3. CASE Matches(d, x)
    <3>1. Sending(g) = Sending(d) \cup {x}
      BY <1>5, <2>3 DEF Resolved
    <3>2. \A k : Flies(g, k) = IF k = i THEN Flies(d, k) \cup {x.after} ELSE Flies(d, k)
      <4>1. \A k : After(Sending(d) \cup {x}, k)
                    = IF k = x.id THEN After(Sending(d), k) \cup {x.after} ELSE After(Sending(d), k)
        BY AfterOneMore
      <4> QED
        BY <1>5, <3>1, <4>1 DEF Flies
    <3> QED
      BY <1>5, <2>1, <2>2, <2>3, <3>2 DEF Decided, Matches
  <2>4. CASE ~Matches(d, x)
    <3>1. Sending(g) = Sending(d)
      BY <1>5, <2>4 DEF Resolved
    <3>2. \A k : Flies(g, k) = Flies(d, k)
      BY <3>1 DEF Flies
    <3> QED
      BY <1>5, <2>1, <2>2, <2>4, <3>2 DEF Decided, Matches
  <2> QED
    BY <2>3, <2>4
<1> QED
  BY <1>2, <1>3, <1>4, <1>5 DEF Cleared

\* A save is enqueued when no save of another idle item waits: the lanes of the
\* other items are left alone.
LEMMA EnqueueLane ==
  ASSUME NEW d, Ready(d), NEW s \in Save, Matches(d, s) \/ s.role # "Commit",
         \A x \in Range(d.queue) : x.id \in d.busy \/ x.id = s.id
  PROVE  LET e == Enqueue(d, s)
             j == s.id
         IN  /\ e.live = d.live
             /\ \A k : k # j => SameLane(d, e, k)
             /\ j \in d.busy => Flies(e, j) = Flies(d, j) /\ Waits(e, j) = {s.after}
             /\ j \notin d.busy /\ Matches(d, s) => Flies(e, j) = {s.after} /\ Waits(e, j) = {}
             /\ j \notin d.busy /\ ~Matches(d, s) => Flies(e, j) = {} /\ Waits(e, j) = {}
<1> DEFINE e == Enqueue(d, s)
           j == s.id
<1>1. PICK g, a : Took(d, s, a) /\ Cleared(d, g, j, {j}) /\ e = DrainOne(g, a)
  BY EnqueueTurns
<1> HIDE DEF e
<1>2. a \in Save /\ a.id = j /\ a.after = s.after /\ a.role = s.role
  BY <1>1 DEF Took
<1>3. g \in Desks /\ g.live = d.live /\ g.busy = d.busy /\ Sending(g) = Sending(d)
  BY <1>1 DEF Cleared
<1>4. /\ \A k : k # j => Flies(g, k) = Flies(d, k)
      /\ \A k : k # j => Waits(g, k) = Waits(d, k)
      /\ Waits(g, j) = {} /\ Flies(g, j) = Flies(d, j)
  BY <1>1, ClearedLanes
<1>5. /\ \A k : k # j => SameLane(g, e, k)
      /\ j \in g.busy => /\ e.live = g.live /\ Flies(e, j) = Flies(g, j)
                         /\ Waits(e, j) = Waits(g, j) \cup {s.after}
      /\ j \notin g.busy /\ Matches(g, a) =>
           /\ e.live = g.live /\ Flies(e, j) = Flies(g, j) \cup {s.after}
           /\ Waits(e, j) = Waits(g, j)
      /\ j \notin g.busy /\ ~Matches(g, a) =>
           SameLane(g, e, j) /\ (s.role # "Commit" => e.live = g.live)
  BY <1>1, <1>2, <1>3, DrainOneLanes
<1>6. Matches(g, a) <=> Matches(d, s)
  BY <1>2, <1>3 DEF Matches
<1>7. j \notin d.busy => Flies(d, j) = {}
  BY BusyFlies DEF Ready
<1>8. \A k : k # j => SameLane(d, e, k)
  BY <1>4, <1>5 DEF SameLane
<1> HIDE DEF j
<1> QED
  BY <1>3, <1>4, <1>5, <1>6, <1>7, <1>8 DEF SameLane, e, j

\* The dates shown of j were sent: they fly, or wait behind what flew already.
Sent(b, e, j) ==
  IF Flies(b, j) = {} THEN Flies(e, j) = {e.live[j]} /\ Waits(e, j) \subseteq {e.live[j]}
                      ELSE Flies(e, j) = Flies(b, j) /\ Waits(e, j) = {e.live[j]}

\* Nothing of j was sent, and its dates moved only where a shift owned them.
Spared(b, e, j) == SameLane(b, e, j) /\ (e.live[j] = b.live[j] \/ HeldAt(b, j))

\* The dates j had by a shift wait behind what flies, though the shift was taken back.
TakenBack(b, e, j) ==
  HeldAt(b, j) /\ Flies(b, j) # {} /\ Flies(e, j) = Flies(b, j) /\ Waits(e, j) = {b.live[j]}

\* What an answer about i may do to another item.
Turned(b, e, j) == Sent(b, e, j) \/ Spared(b, e, j) \/ TakenBack(b, e, j)

\* Item i is idle and is the only idle one a save of which may still wait.
IdleBut(d, i) ==
  /\ Ready(d) /\ i \in Ids \ d.busy
  /\ \A x \in Range(d.queue) : x.id \in d.busy \/ x.id = i

\* What has settled after an answer about i: every other item was turned, and of i the
\* dates F fly and none wait.
Arranged(b, e, i, F) ==
  /\ e.live[i] = b.live[i] /\ Flies(e, i) = F /\ Waits(e, i) = {}
  /\ \A j \in Ids \ {i} : Turned(b, e, j)

\* Resolving the stale save of i moves only dates a shift owned, and not those of i.
LEMMA ClearedDates ==
  ASSUME NEW d, NEW i \in Ids, IdleBut(d, i), KidsOwn(d), NEW g, NEW J, i \notin J, Cleared(d, g, i, J)
  PROVE  g.live[i] = d.live[i] /\ \A k \in Ids : g.live[k] = d.live[k] \/ HeldAt(d, k)
<1>1. CASE g.live = d.live
  BY <1>1
<1>2. ASSUME NEW x \in Range(d.queue), x.id = i, Resolved(d, g, x), ~Matches(d, x)
      PROVE  g.live[i] = d.live[i] /\ \A k \in Ids : g.live[k] = d.live[k] \/ HeldAt(d, k)
  <2>1. \A k \in Ids : g.live[k] # d.live[k] =>
          \E n \in DOMAIN x.kids : x.kids[n].id = k /\ d.live[k] = x.kids[n].after
    BY <1>2 DEF Resolved
  <2>2. x \in Carried(d)
    BY DEF Carried
  <2>3. \A k \in Ids : g.live[k] = d.live[k] \/ HeldAt(d, k)
    BY <2>1, <2>2 DEF HeldAt
  <2>4. \A n \in DOMAIN x.kids : x.kids[n].id \in Range(Kids[i])
    BY <1>2, <2>2 DEF KidsOwn, Own
  <2>5. i \notin Range(Kids[i])
    BY LanesAssumption
  <2> QED
    BY <2>1, <2>3, <2>4, <2>5
<1> QED
  BY <1>1, <1>2 DEF Cleared, Resolved

\* The first descendant sent after an answer about i resolves the save of i that still
\* waited, before its own save is taken.
LEMMA EnqueueStale ==
  ASSUME NEW d, NEW i \in Ids, IdleBut(d, i), KidsOwn(d), NEW s \in Save, Matches(d, s),
         s.role # "Commit", s.id # i
  PROVE  Arranged(d, Enqueue(d, s), i, Decided(d, i))
<1> DEFINE e == Enqueue(d, s)
           j == s.id
<1>1. PICK g, a : Took(d, s, a) /\ Cleared(d, g, i, {j}) /\ e = DrainOne(g, a)
  BY EnqueueTurns DEF IdleBut
<1> HIDE DEF e
<1>2. a \in Save /\ a.id = j /\ a.after = s.after /\ a.role = s.role /\ j \in Ids
  <2>1. s.id \in Ids
    BY DEF Save
  <2> QED
    BY <1>1, <2>1 DEF Took
<1>3. g \in Desks
  BY <1>1 DEF Cleared
<1>4. /\ \A k : k # i => Flies(g, k) = Flies(d, k)
      /\ \A k : k # i /\ k # j => Waits(g, k) = Waits(d, k)
      /\ Waits(g, j) = {} /\ Waits(g, i) = {} /\ Flies(g, i) = Decided(d, i)
  BY <1>1, ClearedLanes DEF IdleBut
<1>5. g.live[i] = d.live[i] /\ \A k \in Ids : g.live[k] = d.live[k] \/ HeldAt(d, k)
  BY <1>1, ClearedDates
<1>6. j \in g.busy <=> j \in d.busy
  BY <1>1 DEF Cleared, Resolved
<1>7. /\ \A k : k # j => SameLane(g, e, k)
      /\ j \in g.busy => /\ e.live = g.live /\ Flies(e, j) = Flies(g, j)
                         /\ Waits(e, j) = Waits(g, j) \cup {s.after}
      /\ j \notin g.busy /\ Matches(g, a) =>
           /\ e.live = g.live /\ Flies(e, j) = Flies(g, j) \cup {s.after}
           /\ Waits(e, j) = Waits(g, j)
      /\ j \notin g.busy /\ ~Matches(g, a) =>
           SameLane(g, e, j) /\ (s.role # "Commit" => e.live = g.live)
  BY <1>1, <1>2, <1>3, DrainOneLanes
<1>8. e.live = g.live
  BY <1>7
<1>9. j \in d.busy <=> Flies(d, j) # {}
  BY BusyFlies DEF IdleBut, Ready
<1>10. j \notin d.busy => Waits(d, j) = {}
  BY DEF IdleBut, Waits, After
<1>11. /\ Matches(g, a) <=> g.live[j] = s.after
       /\ d.live[j] = s.after
  BY <1>2 DEF Matches
<1> HIDE DEF j
<1>12. Turned(d, e, j)
  <2>1. CASE j \in d.busy /\ g.live[j] = d.live[j]
    <3>1. Sent(d, e, j)
      BY <1>4, <1>6, <1>7, <1>9, <1>11, <2>1, i # j DEF Sent, j
    <3> QED
      BY <3>1 DEF Turned
  <2>2. CASE j \in d.busy /\ g.live[j] # d.live[j]
    <3>1. TakenBack(d, e, j)
      BY <1>2, <1>4, <1>5, <1>6, <1>7, <1>9, <1>11, <2>2, i # j DEF TakenBack, j
    <3> QED
      BY <3>1 DEF Turned
  <2>3. CASE j \notin d.busy /\ Matches(g, a)
    <3>1. Sent(d, e, j)
      BY <1>4, <1>6, <1>7, <1>9, <1>11, <2>3, i # j DEF Sent, j
    <3> QED
      BY <3>1 DEF Turned
  <2>4. CASE j \notin d.busy /\ ~Matches(g, a)
    <3>1. Spared(d, e, j)
      BY <1>2, <1>4, <1>5, <1>6, <1>7, <1>8, <1>9, <1>10, <2>4, i # j DEF Spared, SameLane, j
    <3> QED
      BY <3>1 DEF Turned
  <2> QED
    BY <2>1, <2>2, <2>3, <2>4
<1>13. ASSUME NEW k \in Ids, k # i, k # j PROVE Turned(d, e, k)
  <2>1. Spared(d, e, k)
    BY <1>4, <1>5, <1>7, <1>8, <1>13 DEF Spared, SameLane
  <2> QED
    BY <2>1 DEF Turned
<1>14. Flies(e, i) = Decided(d, i) /\ Waits(e, i) = {}
  BY <1>4, <1>7 DEF SameLane, j
<1> QED
  BY <1>5, <1>8, <1>12, <1>13, <1>14 DEF Arranged, e

\* The drain that ends an answer about i resolves the save of i that still waits, if
\* no descendant was sent before.
LEMMA DrainClears ==
  ASSUME NEW d, NEW i, IdleBut(d, i)
  PROVE  Cleared(d, Drain(d), i, {})
<1> DEFINE c == d.queue
           l == Len(c)
           d0 == [d EXCEPT !.queue = << >>]
<1>1. d \in Desks /\ InFlight(d) /\ Distinct(c) /\ c \in Seq(Save) /\ i \notin d.busy
      /\ \A x \in Range(c) : x.id \in d.busy \/ x.id = i
  BY DeskFields DEF IdleBut, Ready
<1>2. Drain(d) = FoldLeft(DrainOne, d0, c)
  BY <1>1, CoalesceDistinct DEF Drain
<1>3. PICK f : DrainRun(f, d0, c)
  BY <1>1, DrainRuns
<1>4. d0 = [d EXCEPT !.queue = << >>]
  OBVIOUS
<1> HIDE DEF c, d0
<1>5. l \in Nat /\ l \in 0..Len(c) /\ DOMAIN c = 1..l
  BY <1>1
<1>6. \A m, n \in 1..l : c[m].id = c[n].id => m = n
  BY <1>1, <1>5 DEF Distinct
<1>7. /\ \A n \in 1..l : c[n] \in Range(c)
      /\ \A x \in Range(c) : \E n \in 1..l : c[n] = x
  BY <1>5 DEF Range
<1>9. Drain(d) = f[l]
  BY <1>2, <1>3 DEF DrainRun
<1> HIDE DEF l
<1>8. \A p \in Nat : (\A n \in 1..l : n # p <=> c[n].id \in d.busy)
                      => Around(d, f[l], c, l, p)
  <2> SUFFICES ASSUME NEW p \in Nat, \A n \in 1..l : n # p <=> c[n].id \in d.busy
               PROVE  Around(d, f[l], c, l, p)
    OBVIOUS
  <2>1. d \in Desks /\ c \in Seq(Save) /\ l \in 0..Len(c)
    BY <1>1, <1>5
  <2>2. DrainRun(f, d0, c) /\ d0 = [d EXCEPT !.queue = << >>]
    BY <1>3, <1>4
  <2> QED
    BY <1>6, <2>1, <2>2, DrainAround
<1>10. CASE \E p \in 1..l : c[p].id = i
  <2>1. PICK p \in 1..l : c[p].id = i
    BY <1>10
  <2>2. \A n \in 1..l : n # p <=> c[n].id \in d.busy
    BY <1>1, <1>6, <1>7, <2>1
  <2>3. p \in Nat
    BY <1>5
  <2>4. f[l] \in Desks /\ Range(f[l].queue) = ButAt(c, l, p) /\ Resolved(d, f[l], c[p])
    BY <1>8, <2>1, <2>2, <2>3 DEF Around
  <2>5. ButAt(c, l, p) = QueuedBut(d, i, {})
    <3>1. ASSUME NEW m \in (1..l) \ {p} PROVE c[m] \in QueuedBut(d, i, {})
      BY <1>6, <1>7, <2>1 DEF QueuedBut, c
    <3>2. ASSUME NEW x \in QueuedBut(d, i, {}) PROVE \E m \in (1..l) \ {p} : c[m] = x
      <4>1. PICK m \in 1..l : c[m] = x
        BY <1>7 DEF QueuedBut, c
      <4> QED
        BY <2>1, <4>1 DEF QueuedBut
    <3> QED
      BY <3>1, <3>2 DEF ButAt
  <2> QED
    BY <1>7, <1>9, <2>1, <2>4, <2>5 DEF Cleared, c
<1>11. CASE \A p \in 1..l : c[p].id # i
  <2>1. \A n \in 1..l : n # 0 <=> c[n].id \in d.busy
    BY <1>1, <1>5, <1>7, <1>11
  <2>2. 0 \in Nat /\ 0 \notin 1..l
    BY <1>5
  <2>3. /\ f[l] \in Desks /\ Range(f[l].queue) = ButAt(c, l, 0)
        /\ f[l].live = d.live /\ f[l].busy = d.busy /\ Sending(f[l]) = Sending(d)
    BY <1>8, <2>1, <2>2 DEF Around
  <2>4. ButAt(c, l, 0) = QueuedBut(d, i, {})
    <3>1. ASSUME NEW m \in (1..l) \ {0} PROVE c[m] \in QueuedBut(d, i, {})
      BY <1>7, <1>11 DEF QueuedBut, c
    <3>2. ASSUME NEW x \in QueuedBut(d, i, {}) PROVE \E m \in (1..l) \ {0} : c[m] = x
      BY <1>7, <2>2 DEF QueuedBut, c
    <3> QED
      BY <3>1, <3>2 DEF ButAt
  <2>5. \A x \in Range(d.queue) : x.id # i
    BY <1>7, <1>11 DEF c
  <2> QED
    BY <1>9, <2>3, <2>4, <2>5 DEF Cleared
<1> QED
  BY <1>10, <1>11
\* A drain with no save of an idle item changes nothing a lane shows.
LEMMA DrainIdle ==
  ASSUME NEW d, DeskInv(d)
  PROVE  LET e == Drain(d)
         IN  /\ e.live = d.live /\ \A k : SameLane(d, e, k)
             /\ Carried(e) = Carried(d)
<1> DEFINE c == d.queue
           l == Len(c)
           d0 == [d EXCEPT !.queue = << >>]
           e == Drain(d)
<1>1. /\ d \in Desks /\ InFlight(d) /\ Distinct(c) /\ c \in Seq(Save)
      /\ \A n \in DOMAIN c : c[n].id \in d.busy
  BY DeskFields DEF DeskInv, Ready, Waiting
<1>2. Drain(d) = FoldLeft(DrainOne, d0, c)
  BY <1>1, CoalesceDistinct DEF Drain
<1>3. PICK f : DrainRun(f, d0, c)
  BY <1>1, DrainRuns
<1>4. d0 = [d EXCEPT !.queue = << >>]
  OBVIOUS
<1> HIDE DEF c, d0
<1>5. l \in Nat /\ l \in 0..Len(c) /\ DOMAIN c = 1..l
  BY <1>1
<1>6. \A m, n \in 1..l : c[m].id = c[n].id => m = n
  BY <1>1, <1>5 DEF Distinct
<1>7. e = f[l]
  BY <1>2, <1>3 DEF DrainRun
<1> HIDE DEF l, e
<1>8. Around(d, f[l], c, l, 0)
  <2>1. d \in Desks /\ c \in Seq(Save) /\ l \in 0..Len(c) /\ 0 \in Nat
    BY <1>1, <1>5
  <2>2. DrainRun(f, d0, c) /\ d0 = [d EXCEPT !.queue = << >>]
    BY <1>3, <1>4
  <2>3. \A n \in 1..l : n # 0 <=> c[n].id \in d.busy
    BY <1>1, <1>5
  <2> QED
    BY <1>6, <2>1, <2>2, <2>3, DrainAround
<1>9. ButAt(c, l, 0) = Range(d.queue)
  <2>1. (1..l) \ {0} = DOMAIN c
    BY <1>5
  <2> QED
    BY <2>1 DEF ButAt, Range, c
<1>10. e.live = d.live /\ Sending(e) = Sending(d) /\ Range(e.queue) = Range(d.queue)
  BY <1>5, <1>7, <1>8, <1>9 DEF Around
<1>11. \A k : SameLane(d, e, k)
  BY <1>10 DEF SameLane, Flies, Waits
<1>12. Carried(e) = Carried(d)
  BY <1>10 DEF Carried, Sending
<1> QED
  BY <1>10, <1>11, <1>12 DEF e

\* The drain that ends an answer about i, when no descendant was sent.
LEMMA DrainStale ==
  ASSUME NEW d, NEW i \in Ids, IdleBut(d, i), KidsOwn(d)
  PROVE  /\ Arranged(d, Drain(d), i, Decided(d, i))
         /\ \A j \in Ids \ {i} : Spared(d, Drain(d), j)
<1> DEFINE e == Drain(d)
<1>1. Cleared(d, e, i, {})
  BY DrainClears
<1> HIDE DEF e
<1>2. /\ \A k : k # i => Flies(e, k) = Flies(d, k) /\ Waits(e, k) = Waits(d, k)
      /\ Waits(e, i) = {} /\ Flies(e, i) = Decided(d, i)
  BY <1>1, ClearedLanes DEF IdleBut
<1>3. e.live[i] = d.live[i] /\ \A k \in Ids : e.live[k] = d.live[k] \/ HeldAt(d, k)
  BY <1>1, ClearedDates
<1>4. \A j \in Ids \ {i} : Spared(d, e, j)
  BY <1>2, <1>3 DEF Spared, SameLane
<1> QED
  BY <1>2, <1>3, <1>4 DEF Arranged, Turned, e

\* The cascades that name i are the same in d and e.
SameHold(d, e, i) ==
  \A k : (\E n \in DOMAIN k : k[n].id = i) =>
    ((\E x \in Carried(d) : x.kids = k) <=> (\E x \in Carried(e) : x.kids = k))

\* A shift owns i in both or in neither.
LEMMA HoldSame ==
  ASSUME NEW d, NEW e, NEW i, SameHold(d, e, i), e.live[i] = d.live[i]
  PROVE  HeldAt(d, i) <=> HeldAt(e, i)
BY DEF SameHold, HeldAt

\* Taking out the save of i loses no cascade that names i, and brings none.
LEMMA ClearedCarries ==
  ASSUME NEW d, KidsOwn(d), NEW g, NEW i \in Ids, NEW J, Cleared(d, g, i, J)
  PROVE  /\ Carried(g) \subseteq Carried(d)
         /\ \A y \in Carried(d) : (\E n \in DOMAIN y.kids : y.kids[n].id = i) =>
              y \in Carried(g) \/ (y.id \in J /\ y.id # i /\ y \in Range(d.queue))
<1>1. Carried(d) = Sending(d) \cup Range(d.queue) /\ Carried(g) = Sending(g) \cup Range(g.queue)
  BY DEF Carried, Sending
<1>2. Sending(d) \subseteq Sending(g) /\ Sending(g) \subseteq Sending(d) \cup Range(d.queue)
  BY DEF Cleared, Resolved
<1>3. Range(g.queue) = QueuedBut(d, i, J)
  BY DEF Cleared
<1>4. ASSUME NEW y \in Carried(d), \E n \in DOMAIN y.kids : y.kids[n].id = i PROVE y.id # i
  <2>1. \A n \in DOMAIN y.kids : y.kids[n].id \in Range(Kids[y.id])
    BY DEF KidsOwn, Own
  <2> QED
    BY <1>4, <2>1, LanesAssumption
<1> QED
  BY <1>1, <1>2, <1>3, <1>4 DEF QueuedBut

\* Sending a save without a cascade of its own neither drops nor brings a cascade
\* that names the idle item i.
LEMMA EnqueueSameHold ==
  ASSUME NEW d, Ready(d), KidsOwn(d), NEW s \in Save, s.kids = << >>, NEW i \in Ids,
         i = s.id \/ i \notin d.busy, \A x \in Range(d.queue) : x.id \in d.busy \/ x.id = i
  PROVE  SameHold(d, Enqueue(d, s), i)
<1> DEFINE e == Enqueue(d, s)
<1>1. PICK g, a : Took(d, s, a) /\ Cleared(d, g, i, {s.id}) /\ e = DrainOne(g, a)
  BY EnqueueTurns
<1> HIDE DEF e
<1>2. /\ Carried(g) \subseteq Carried(d)
      /\ \A y \in Carried(d) : (\E n \in DOMAIN y.kids : y.kids[n].id = i) =>
           y \in Carried(g) \/ (y.id = s.id /\ y.id # i /\ y \in Range(d.queue))
  BY <1>1, ClearedCarries
<1>3. a \in Save /\ a.id = s.id /\ g \in Desks
  BY <1>1 DEF Took, Cleared
<1>4. Carried(e) \subseteq Carried(g) \cup {a}
  BY <1>1, <1>3, DrainOneCarries
<1>5. Distinct(d.queue) /\ d.queue \in Seq(Save)
  BY DeskFields DEF Ready
<1>6. \A y \in Carried(g) : y \in Carried(e)
  <2>1. Sending(g) \subseteq Sending(e) /\ Range(g.queue) \subseteq Range(e.queue)
    <3>1. /\ a.id \in g.busy => Sending(e) = Sending(g) /\ Range(e.queue) = Range(g.queue) \cup {a}
          /\ a.id \notin g.busy => Resolved(g, e, a) /\ e.queue = g.queue
      BY <1>1, <1>3, DrainOneTurns
    <3> QED
      BY <3>1 DEF Resolved
  <2> QED
    BY <2>1 DEF Carried, Sending
<1>7. a.kids = << >> \/ \E y \in Range(d.queue) : a.kids = y.kids
  <2>1. ASSUME NEW m \in DOMAIN d.queue, a = Adopt(s, d.queue[m])
        PROVE  \E y \in Range(d.queue) : a.kids = y.kids
    <3>1. d.queue[m] \in Save /\ d.queue[m] \in Range(d.queue)
      BY <1>5 DEF Range
    <3> QED
      BY <2>1, <3>1, AdoptFields
  <2> QED
    BY <1>1, <2>1 DEF Took
<1>8. ASSUME NEW k, NEW n \in DOMAIN k, k[n].id = i, NEW x \in Carried(d), x.kids = k
      PROVE  \E y \in Carried(e) : y.kids = k
  <2>1. CASE x \in Carried(g)
    BY <1>6, <1>8, <2>1
  <2>2. CASE x.id = s.id /\ x.id # i /\ x \in Range(d.queue)
    <3>1. PICK m \in DOMAIN d.queue : x = d.queue[m]
      BY <2>2 DEF Range
    <3>2. PICK m2 \in DOMAIN d.queue : d.queue[m2].id = s.id /\ a = Adopt(s, d.queue[m2])
      BY <1>1, <2>2, <3>1 DEF Took
    <3>3. m2 = m /\ x \in Save
      BY <1>5, <2>2, <3>1, <3>2 DEF Distinct
    <3>4. a.kids = x.kids
      BY <3>1, <3>2, <3>3, AdoptFields
    <3>5. s.id \in g.busy
      BY <1>1, <2>2 DEF Cleared, Resolved
    <3>6. a \in Range(e.queue)
      BY <1>1, <1>3, <3>5, DrainOneTurns
    <3> QED
      BY <1>8, <3>4, <3>6 DEF Carried
  <2> QED
    BY <1>2, <1>8, <2>1, <2>2
<1>9. ASSUME NEW k, NEW n \in DOMAIN k, k[n].id = i, NEW x \in Carried(e), x.kids = k
      PROVE  \E y \in Carried(d) : y.kids = k
  <2>1. CASE x \in Carried(g)
    BY <1>2, <1>9, <2>1
  <2>2. CASE x = a
    <3>1. a.kids # << >>
      BY <1>9, <2>2
    <3> QED
      BY <1>7, <1>9, <2>2, <3>1 DEF Carried
  <2> QED
    BY <1>4, <2>1, <2>2
<1> QED
  BY <1>8, <1>9 DEF SameHold, e

\* The drain that ends an answer about i keeps the cascades that name i.
LEMMA DrainSameHold ==
  ASSUME NEW d, NEW i \in Ids, IdleBut(d, i), KidsOwn(d)
  PROVE  SameHold(d, Drain(d), i)
<1> DEFINE e == Drain(d)
<1>1. Cleared(d, e, i, {})
  BY DrainClears
<1> HIDE DEF e
<1>2. /\ Carried(e) \subseteq Carried(d)
      /\ \A y \in Carried(d) : (\E n \in DOMAIN y.kids : y.kids[n].id = i) => y \in Carried(e)
  BY <1>1, ClearedCarries
<1> QED
  BY <1>2 DEF SameHold, e

\* A desk that shows other dates has the same lanes otherwise.
LEMMA SameCarriedLanes ==
  ASSUME NEW d, NEW e, e.queue = d.queue, e.flight = d.flight
  PROVE  \A k : SameLane(d, e, k)
BY DEF SameLane, Flies, Waits, Sending

\* A save of the dates shown: its item was sent, and no other lane is touched.
LEMMA EnqueueSent ==
  ASSUME NEW d, DeskInv(d), NEW s \in Save, Matches(d, s)
  PROVE  LET e == Enqueue(d, s)
         IN  /\ Sent(d, e, s.id) /\ \A j : j # s.id => SameLane(d, e, j)
<1> DEFINE e == Enqueue(d, s)
           j == s.id
<1>1. Ready(d) /\ \A x \in Range(d.queue) : x.id \in d.busy
  BY DEF DeskInv, Waiting, Range
<1>2. /\ e.live = d.live
      /\ \A k : k # j => SameLane(d, e, k)
      /\ j \in d.busy => Flies(e, j) = Flies(d, j) /\ Waits(e, j) = {s.after}
      /\ j \notin d.busy => Flies(e, j) = {s.after} /\ Waits(e, j) = {}
  BY <1>1, EnqueueLane
<1>3. (j \in d.busy <=> Flies(d, j) # {}) /\ d.live[j] = s.after
  BY <1>1, BusyFlies DEF Ready, Matches
<1> HIDE DEF e, j
<1> QED
  BY <1>2, <1>3 DEF Sent, e, j

\* A group of saves the last of which show what they save: each of their items was
\* sent, though an item listed twice may have been sent or queued on the way.
LEMMA EnqueueAllLanes ==
  ASSUME NEW d, DeskInv(d), NEW saves \in Seq(Save),
         \A n \in 1..Len(saves) : saves[n].role # "Commit",
         \A n \in 1..Len(saves) :
           LastMove(saves, Len(saves), saves[n].id, n) => Matches(d, saves[n])
  PROVE  LET e == EnqueueAll(d, saves)
         IN  \A j : /\ (\A n \in 1..Len(saves) : saves[n].id # j) => SameLane(d, e, j)
                    /\ (\E n \in 1..Len(saves) : saves[n].id = j) => Sent(d, e, j)
<1> DEFINE len == Len(saves)
<1>1. len \in Nat /\ \A n \in 1..len : saves[n] \in Save
  OBVIOUS
<1>2. PICK f : EnqueueRun(f, d, saves)
  BY EnqueueRuns
<1>3. /\ f[0] = d /\ EnqueueAll(d, saves) = f[len]
      /\ \A k \in 1..len : f[k] = Enqueue(f[k - 1], saves[k])
  BY <1>2 DEF EnqueueRun
<1> HIDE DEF len
<1> DEFINE Flew(e, j) == /\ Flies(d, j) # {} => Flies(e, j) = Flies(d, j)
                         /\ Flies(d, j) = {} => Flies(e, j) \subseteq {d.live[j]}
           Took1(e, j, x) == IF Flies(d, j) # {} THEN Waits(e, j) = {x}
                             ELSE x = d.live[j] => Flies(e, j) = {x} /\ Waits(e, j) \subseteq {x}
           At(k) == /\ DeskInv(f[k]) /\ f[k].live = d.live
                    /\ \A j : Flew(f[k], j)
                    /\ \A j : (\A n \in 1..k : saves[n].id # j) => SameLane(d, f[k], j)
                    /\ \A j : \A m \in 1..k : LastMove(saves, k, j, m) => Took1(f[k], j, saves[m].after)
           S == {k \in Nat : k <= len => At(k)}
<1>4. 0 \in S
  <2>1. 1..0 = {}
    OBVIOUS
  <2>2. \A j : Flew(d, j) /\ SameLane(d, d, j)
    BY DEF SameLane
  <2> QED
    BY <1>3, <2>1, <2>2
<1>5. ASSUME NEW k \in Nat, k \in S PROVE k + 1 \in S
  <2> SUFFICES ASSUME k + 1 <= len PROVE At(k + 1)
    OBVIOUS
  <2> DEFINE g == f[k]
             s == saves[k + 1]
             e == f[k + 1]
             i == s.id
  <2> HIDE DEF At
  <2>1. At(k) /\ k + 1 \in 1..len /\ (k + 1) - 1 = k
    BY <1>1, <1>5
  <2>2. DeskInv(g) /\ g.live = d.live
    BY <2>1 DEF At
  <2>3. e = Enqueue(g, s) /\ s \in Save /\ s.role # "Commit"
    BY <1>1, <1>3, <2>1 DEF len
  <2> HIDE DEF g, s, e
  <2>4. Ready(g) /\ Waiting(g) /\ \A x \in Range(g.queue) : x.id \in g.busy \/ x.id = i
    BY <2>2 DEF DeskInv, Waiting, Range
  <2>5. /\ e.live = g.live
        /\ \A j : j # i => SameLane(g, e, j)
        /\ i \in g.busy => Flies(e, i) = Flies(g, i) /\ Waits(e, i) = {s.after}
        /\ i \notin g.busy /\ Matches(g, s) => Flies(e, i) = {s.after} /\ Waits(e, i) = {}
        /\ i \notin g.busy /\ ~Matches(g, s) => Flies(e, i) = {} /\ Waits(e, i) = {}
    BY <2>3, <2>4, EnqueueLane
  <2>6. i \in g.busy <=> Flies(g, i) # {}
    BY <2>4, BusyFlies DEF Ready
  <2>7. DeskInv(e)
    BY <2>3, <2>4, EnqueueInv
  <2>8. Matches(g, s) <=> d.live[i] = s.after
    BY <2>2 DEF Matches
  <2>9. /\ \A j : Flew(g, j)
        /\ \A j : (\A n \in 1..k : saves[n].id # j) => SameLane(d, g, j)
        /\ \A j : \A m \in 1..k : LastMove(saves, k, j, m) => Took1(g, j, saves[m].after)
    BY <2>1 DEF At, g
  <2> HIDE DEF i
  <2>10. \A j : Flew(e, j)
    <3> TAKE j
    <3>1. CASE j = i
      BY <2>5, <2>6, <2>8, <2>9, <3>1
    <3>2. CASE j # i
      BY <2>5, <2>9, <3>2 DEF SameLane
    <3> QED
      BY <3>1, <3>2
  <2>11. 1..(k + 1) = (1..k) \cup {k + 1} /\ k + 1 \notin 1..k
    OBVIOUS
  <2>12. ASSUME NEW j, \A n \in 1..(k + 1) : saves[n].id # j PROVE SameLane(d, e, j)
    <3>1. j # i /\ \A n \in 1..k : saves[n].id # j
      BY <2>11, <2>12 DEF i, s
    <3> QED
      BY <2>5, <2>9, <3>1 DEF SameLane
  <2>13. ASSUME NEW j, NEW m \in 1..(k + 1), LastMove(saves, k + 1, j, m)
         PROVE  Took1(e, j, saves[m].after)
    <3>1. CASE m = k + 1
      <4>1. j = i /\ saves[m].after = s.after
        BY <2>13, <3>1 DEF LastMove, i, s
      <4>2. Flies(d, i) # {} => Flies(g, i) # {}
        BY <2>9
      <4>3. CASE Flies(d, i) # {}
        BY <2>5, <2>6, <4>1, <4>2, <4>3
      <4>4. CASE Flies(d, i) = {} /\ s.after = d.live[i]
        <5>1. Flies(g, i) \subseteq {s.after}
          BY <2>9, <4>4
        <5> QED
          BY <2>5, <2>6, <2>8, <4>1, <4>4, <5>1
      <4> QED
        BY <4>1, <4>3, <4>4
    <3>2. CASE m # k + 1
      <4>1. m \in 1..k /\ k + 1 \in (m + 1)..(k + 1)
        BY <3>2
      <4>2. LastMove(saves, k, j, m)
        BY <2>13, <4>1 DEF LastMove
      <4>3. j # i
        BY <2>13, <4>1 DEF LastMove, i, s
      <4> QED
        BY <2>5, <2>9, <4>1, <4>2, <4>3 DEF SameLane
    <3> QED
      BY <3>1, <3>2
  <2> QED
    BY <2>2, <2>5, <2>7, <2>10, <2>12, <2>13 DEF At, e
<1> HIDE DEF S
<1>6. \A k \in Nat : k \in S
  BY <1>4, <1>5, EnqueueLoop!Induction
<1> DEFINE e == f[len]
<1>7. DeskInv(e) /\ e.live = d.live /\ At(len)
  <2> HIDE DEF At
  <2>1. At(len)
    BY <1>1, <1>6 DEF S
  <2> QED
    BY <2>1 DEF At
<1>8. /\ \A j : (\A n \in 1..len : saves[n].id # j) => SameLane(d, e, j)
      /\ \A j : Flew(e, j)
      /\ \A j : \A m \in 1..len : LastMove(saves, len, j, m) => Took1(e, j, saves[m].after)
  BY <1>7
<1> HIDE DEF e, At
<1>9. ASSUME NEW j, NEW n \in 1..len, saves[n].id = j PROVE Sent(d, e, j)
  <2> DEFINE I == {m \in 1..len : saves[m].id = j}
  <2>1. PICK k \in I : \A m \in I : m <= k
    <3>1. I \in SUBSET (1..len) /\ I # {}
      BY <1>9
    <3> QED
      BY <1>1, <3>1, EnqueueLoop!LastExists
  <2>2. k \in 1..len /\ saves[k].id = j /\ LastMove(saves, len, j, k)
    BY <1>1, <2>1 DEF LastMove
  <2>3. saves[k].after = d.live[j]
    BY <2>2 DEF Matches, len
  <2>4. Took1(e, j, d.live[j]) /\ Flew(e, j)
    BY <1>8, <2>2, <2>3
  <2> QED
    BY <1>7, <2>4 DEF Sent
<1> QED
  BY <1>3, <1>8, <1>9 DEF e, len

\* What a user action does to an item: it sends it, hands it to a shift, or leaves its
\* dates, and the shift that owns them, alone.
UserTurn(d, e, j) ==
  \/ Sent(d, e, j)
  \/ SameLane(d, e, j) /\ (HeldAt(e, j) \/ Left(d, e, j))

\* The condition under which a user action breaks no item's agreement
LEMMA UserAgrees ==
  ASSUME PipelineInv, server' = server, failed' = failed, orphaned' = orphaned,
         busy \subseteq busy', DeskInv(Desk'), \A j \in Ids : UserTurn(Desk, Desk', j)
  PROVE  AgreementKept
<1> SUFFICES ASSUME NEW i \in Ids \ (failed' \cup orphaned'), Settled(i)', AgreesFor(i)
             PROVE  live'[i] = server'[i]
  BY DEF AgreementKept, AgreesFor
<1>1. i \notin busy' /\ ~HeldAt(Desk', i)
  BY HeldDesk DEF Settled
<1>6. Flies(Desk', i) = {}
  <2>1. InFlight(Desk') /\ i \notin Desk'.busy
    BY <1>1 DEF DeskInv, Ready, Desk
  <2> QED
    BY <2>1, BusyFlies
<1>7. ~Sent(Desk, Desk', i)
  BY <1>6 DEF Sent
<1>2. Left(Desk, Desk', i)
  BY <1>1, <1>7 DEF UserTurn
<1>3. i \notin busy /\ ~Held(i) /\ live'[i] = live[i]
  BY <1>1, <1>2, HeldDesk DEF Left, Desk
<1>4. \A n \in DOMAIN queue : queue[n].id # i
  BY <1>3 DEF PipelineInv, DeskInv, Waiting, Desk
<1>5. Settled(i)
  BY <1>3, <1>4 DEF Settled
<1> QED
  BY <1>3, <1>5 DEF AgreesFor

\* Setting one date, or all, leaves what is carried alone.
LEMMA SetDates ==
  ASSUME NEW d, DeskInv(d), NEW l \in [Ids -> Dates]
  PROVE  LET b == [d EXCEPT !.live = l]
         IN  /\ DeskInv(b) /\ b.live = l /\ b.busy = d.busy /\ Carried(b) = Carried(d)
             /\ (KidsOwn(d) => KidsOwn(b)) /\ \A k : SameLane(d, b, k)
<1> DEFINE b == [d EXCEPT !.live = l]
<1>1. d \in Desks
  BY DEF DeskInv, Ready
<1>2. b.live = l /\ b.queue = d.queue /\ b.busy = d.busy /\ b.flight = d.flight
  BY <1>1 DEF Desks
<1>3. DeskInv(b)
  BY ShowsOther
<1> HIDE DEF b
<1>4. \A k : SameLane(d, b, k)
  BY <1>2, SameCarriedLanes
<1> QED
  BY <1>2, <1>3, <1>4 DEF Carried, KidsOwn, b

\* An edit of one item's dates
LEMMA CommitDatesAgrees ==
  ASSUME OwnInv, NEW i \in Ids, NEW d \in Dates, CommitDates(i, d)
  PROVE  /\ KidsOwn(Desk)' /\ AgreementKept /\ \A j \in Ids : UserTurn(Desk, Desk', j)
         /\ live' = [live EXCEPT ![i] = d]
<1> DEFINE l == [live EXCEPT ![i] = d]
           b == [Desk EXCEPT !.live = l]
           s == [id |-> i, after |-> d, prev |-> live[i], role |-> "Commit", kids |-> << >>]
           e == Enqueue(b, s)
<1>1. /\ live \in [Ids -> Dates] /\ Desk \in Desks /\ DeskInv(Desk) /\ KidsOwn(Desk)
      /\ Desk.live = live /\ Desk.busy = busy
  BY PipelineFacts DEF OwnInv, Desk
<1>2. l \in [Ids -> Dates]
  BY <1>1
<1>3. s \in Save /\ s.id = i /\ s.after = d /\ s.kids = << >>
  BY <1>1, << >> \in Seq(Kid) DEF Save, Roles
<1>4. [Desk EXCEPT !.live[i] = d] = b
  BY <1>1, SetOneDate
<1>5. Becomes(e)
  BY <1>4 DEF CommitDates
<1>6. /\ server' = server /\ failed' = failed /\ orphaned' = orphaned
  BY DEF CommitDates, marks
<1>7. /\ DeskInv(b) /\ b.live = l /\ b.busy = busy /\ Carried(b) = Carried(Desk) /\ KidsOwn(b)
      /\ \A k : SameLane(Desk, b, k)
  BY <1>1, <1>2, SetDates
<1>8. l[i] = d /\ \A j \in Ids : j # i => l[j] = live[j]
  BY <1>1
<1> HIDE DEF l, b, s
<1>9. Matches(b, s)
  BY <1>3, <1>7, <1>8 DEF Matches
<1>10. DeskInv(e) /\ Grows(b, e) /\ KidsOwn(e)
  BY <1>3, <1>7, EnqueueInv, EnqueueOwn, NoKidsOwn DEF DeskInv
<1>11. e.live = l /\ i \in e.busy /\ Carries(b, e)
  BY <1>3, <1>7, <1>9, EnqueueHolds DEF Carries
<1> HIDE DEF e
<1>12. Desk' = e /\ busy' = e.busy /\ live' = e.live
  BY <1>5, <1>10, NextDesk DEF DeskInv, Ready
<1>13. Carries(Desk, e)
  BY <1>7, <1>11 DEF Carries
<1>17. Sent(b, e, i) /\ \A j : j # i => SameLane(b, e, j)
  BY <1>3, <1>7, <1>9, EnqueueSent DEF e
<1>14. \A j \in Ids : UserTurn(Desk, Desk', j)
  <2> TAKE j \in Ids
  <2>1. CASE j = i
    BY <1>7, <1>12, <1>17, <2>1 DEF UserTurn, SameLane, Sent
  <2>2. CASE j # i
    <3>1. e.live[j] = Desk.live[j]
      BY <1>1, <1>8, <1>11, <2>2
    <3>2. SameLane(Desk, e, j)
      BY <1>7, <1>17, <2>2 DEF SameLane
    <3> QED
      BY <1>12, <1>13, <3>1, <3>2, HeldKept DEF Left, UserTurn
  <2> QED
    BY <2>1, <2>2
<1>15. busy \subseteq busy'
  BY <1>7, <1>10, <1>12 DEF Grows
<1>16. KidsOwn(Desk)'
  BY <1>10, <1>12
<1>18. DeskInv(Desk')
  BY <1>10, <1>12
<1> QED
  BY <1>6, <1>11, <1>12, <1>14, <1>15, <1>16, <1>18, UserAgrees DEF OwnInv, l

\* A group of saves enqueued behind the moves they save.
LEMMA GroupAgrees ==
  ASSUME OwnInv, server' = server, failed' = failed, orphaned' = orphaned,
         NEW b, DeskInv(b), KidsOwn(b), b.busy = busy, Carried(b) = Carried(Desk),
         \A k : SameLane(Desk, b, k),
         NEW saves \in Seq(Save),
         \A n \in 1..Len(saves) : saves[n].kids = << >> /\ saves[n].role # "Commit",
         \A n \in 1..Len(saves) :
           LastMove(saves, Len(saves), saves[n].id, n) => Matches(b, saves[n]),
         \A j \in Ids : (\A n \in 1..Len(saves) : saves[n].id # j) => b.live[j] = live[j],
         Becomes(EnqueueAll(b, saves))
  PROVE  /\ KidsOwn(Desk)' /\ AgreementKept /\ \A j \in Ids : UserTurn(Desk, Desk', j)
         /\ live' = b.live
<1> DEFINE e == EnqueueAll(b, saves)
<1>1. DeskInv(e) /\ Grows(b, e)
  BY EnqueueAllInv
<1>2. /\ e.live = b.live /\ Carries(b, e) /\ KidsOwn(e)
      /\ \A n \in 1..Len(saves) : saves[n].id \in e.busy
  BY EnqueueAllHolds
<1>8. \A j : (\E n \in 1..Len(saves) : saves[n].id = j) => Sent(b, e, j)
  BY EnqueueAllLanes
<1>10. \A j : (\A n \in 1..Len(saves) : saves[n].id # j) => SameLane(b, e, j)
  BY EnqueueAllLanes
<1> HIDE DEF e
<1>3. Desk' = e /\ busy' = e.busy /\ live' = e.live
  <2>1. Becomes(e)
    BY DEF e
  <2> QED
    BY <1>1, <2>1, NextDesk DEF DeskInv, Ready
<1>4. Carries(Desk, e)
  BY <1>2 DEF Carries
<1>5. \A j \in Ids : UserTurn(Desk, Desk', j)
  <2> TAKE j \in Ids
  <2>1. CASE \E n \in 1..Len(saves) : saves[n].id = j
    <3>1. Sent(b, e, j)
      BY <1>8, <2>1
    <3> QED
      BY <1>3, <3>1 DEF UserTurn, Sent, SameLane
  <2>2. CASE \A n \in 1..Len(saves) : saves[n].id # j
    <3>1. e.live[j] = Desk.live[j]
      BY <1>2, <2>2 DEF Desk
    <3>2. SameLane(Desk, e, j)
      <4>1. SameLane(b, e, j)
        BY <1>10, <2>2
      <4>2. SameLane(Desk, b, j)
        OBVIOUS
      <4> QED
        BY <4>1, <4>2 DEF SameLane
    <3> QED
      BY <1>3, <1>4, <3>1, <3>2, HeldKept DEF Left, UserTurn
  <2> QED
    BY <2>1, <2>2
<1>6. busy \subseteq busy'
  BY <1>1, <1>3 DEF Grows
<1>7. KidsOwn(Desk)'
  BY <1>2, <1>3
<1>9. DeskInv(Desk')
  BY <1>1, <1>3
<1> QED
  BY <1>2, <1>3, <1>5, <1>6, <1>7, <1>9, UserAgrees DEF OwnInv

\* After the moves of a group, item j shows the dates of its last move, or is where
\* it was.
Shows(moves, j) ==
  /\ \A k \in 1..Len(moves) : LastMove(moves, Len(moves), j, k) => live'[j] = moves[k].after
  /\ (\A k \in 1..Len(moves) : moves[k].id # j) => live'[j] = live[j]

\* Dates put in place and a save for each
LEMMA ApplyAllAgrees ==
  ASSUME OwnInv, server' = server, failed' = failed, orphaned' = orphaned,
         NEW moves \in Moves, NEW role \in Roles \ {"Commit"}, ApplyAll(Replay(moves, role))
  PROVE  /\ KidsOwn(Desk)' /\ AgreementKept /\ \A j \in Ids : UserTurn(Desk, Desk', j)
         /\ \A j \in Ids : Shows(moves, j)
<1> DEFINE saves == Replay(moves, role)
           len == Len(moves)
           l == Moved(live, saves)
           b == [Desk EXCEPT !.live = l]
<1>1. /\ live \in [Ids -> Dates] /\ DeskInv(Desk) /\ KidsOwn(Desk)
      /\ Desk.live = live /\ Desk.busy = busy
  BY PipelineFacts DEF OwnInv, Desk
<1>2. saves \in Seq(Save) /\ Len(saves) = len
  BY <1>1, ReplayType
<1>3. \A n \in 1..len : saves[n].kids = << >> /\ saves[n].role # "Commit"
  <2>1. DOMAIN moves = 1..len
    BY DEF Moves
  <2> QED
    BY <2>1 DEF Replay
<1>4. Becomes(EnqueueAll(b, saves))
  BY DEF ApplyAll, Desk
<1> HIDE DEF saves
<1>5. /\ len \in Nat /\ DOMAIN saves = 1..len
      /\ \A n \in 1..len : saves[n].id \in Ids /\ saves[n].after \in Dates
  <2>1. len \in Nat /\ DOMAIN saves = 1..len /\ \A n \in 1..len : saves[n] \in Save
    BY <1>2
  <2> QED
    BY <2>1 DEF Save
<1> HIDE DEF len
<1>6. /\ l \in [Ids -> Dates]
      /\ \A j \in Ids : \A k \in 1..len : LastMove(saves, len, j, k) => l[j] = saves[k].after
      /\ \A j \in Ids : (\A k \in 1..len : saves[k].id # j) => l[j] = live[j]
  BY <1>1, <1>5, MovedResult
<1> HIDE DEF l
<1>7. /\ DeskInv(b) /\ b.live = l /\ b.busy = busy /\ Carried(b) = Carried(Desk) /\ KidsOwn(b)
      /\ \A k : SameLane(Desk, b, k)
  BY <1>1, <1>6, SetDates
<1> HIDE DEF b
<1>8. \A n \in 1..Len(saves) :
        LastMove(saves, Len(saves), saves[n].id, n) => Matches(b, saves[n])
  BY <1>2, <1>5, <1>6, <1>7 DEF Matches
<1>9. \A j \in Ids : (\A n \in 1..Len(saves) : saves[n].id # j) => b.live[j] = live[j]
  BY <1>2, <1>6, <1>7
<1>10. \A n \in 1..len : saves[n].id = moves[n].id /\ saves[n].after = moves[n].after
  <2>1. DOMAIN moves = 1..len
    BY DEF Moves, len
  <2> QED
    BY <2>1 DEF Replay, saves
<1>11. ASSUME live' = b.live, NEW j \in Ids PROVE Shows(moves, j)
  <2>1. ASSUME NEW k \in 1..len, LastMove(moves, len, j, k) PROVE live'[j] = moves[k].after
    <3>1. LastMove(saves, len, j, k)
      BY <1>5, <1>10, <2>1 DEF LastMove
    <3> QED
      BY <1>6, <1>7, <1>10, <1>11, <2>1, <3>1
  <2>2. ASSUME \A k \in 1..len : moves[k].id # j PROVE live'[j] = live[j]
    BY <1>6, <1>7, <1>10, <1>11, <2>2
  <2> QED
    BY <2>1, <2>2 DEF Shows, len
<1> QED
  BY <1>2, <1>3, <1>4, <1>7, <1>8, <1>9, <1>11, GroupAgrees

\* The last entry undone
LEMMA UndoStackAgrees ==
  ASSUME OwnInv, UndoStack, server' = server, failed' = failed, orphaned' = orphaned
  PROVE  KidsOwn(Desk)' /\ AgreementKept /\ \A j \in Ids : UserTurn(Desk, Desk', j)
<1>1. undo # << >> /\ undo \in Seq(Entries)
  BY DEF OwnInv, PipelineInv, DateSavesTypes, UndoStack
<1>2. Last(undo) \in Seq(Change)
  BY <1>1, FrontLast DEF Entries
<1>3. Befores(Last(undo)) \in Moves
  BY <1>2, MovesType
<1>4. ApplyAll(Replay(Befores(Last(undo)), "Undo")) /\ "Undo" \in Roles \ {"Commit"}
  BY DEF UndoStack, Roles
<1> QED
  BY <1>3, <1>4, ApplyAllAgrees

\* Undo, redo and the toast's undo
LEMMA ReplaysAgree ==
  ASSUME OwnInv, UndoLast \/ RedoLast \/ ToastUndo
  PROVE  KidsOwn(Desk)' /\ AgreementKept /\ \A j \in Ids : UserTurn(Desk, Desk', j)
<1>1. server' = server /\ failed' = failed /\ orphaned' = orphaned
  BY DEF UndoLast, RedoLast, ToastUndo, marks
<1>2. CASE UndoLast
  BY <1>1, <1>2, UndoStackAgrees DEF UndoLast
<1>3. CASE RedoLast
  <2>1. redo # << >> /\ redo \in Seq(Entries)
    BY <1>3 DEF OwnInv, PipelineInv, DateSavesTypes, RedoLast
  <2>2. Last(redo) \in Seq(Change)
    BY <2>1, FrontLast DEF Entries
  <2>3. Afters(Last(redo)) \in Moves
    BY <2>2, MovesType
  <2>4. ApplyAll(Replay(Afters(Last(redo)), "Redo")) /\ "Redo" \in Roles \ {"Commit"}
    BY <1>3 DEF RedoLast, Roles
  <2> QED
    BY <1>1, <2>3, <2>4, ApplyAllAgrees
<1>4. CASE ToastUndo
  <2>1. CASE UndoStack
    BY <1>1, <2>1, UndoStackAgrees
  <2>2. CASE ApplyAll(Replay(Dated(toast.items), "Restore"))
    <3>1. toast \in Toasts
      BY <1>4 DEF ToastUndo, OwnInv, PipelineInv, DateSavesTypes
    <3>2. toast.items \in Seq(Restore)
      BY <3>1 DEF Toasts
    <3>3. Dated(toast.items) \in Moves /\ "Restore" \in Roles \ {"Commit"}
      BY <3>2, MovesType DEF Roles
    <3> QED
      BY <1>1, <2>2, <3>3, ApplyAllAgrees
  <2> QED
    BY <1>4, <2>1, <2>2 DEF ToastUndo
<1> QED
  BY <1>2, <1>3, <1>4

\* The stashes of shifted children play no part in what is carried either.
Shifting(l, i, r) == [Desk EXCEPT !.live = l, !.shifted[i] = r]

\* The stashes change nothing of what is carried
LEMMA SetShifted ==
  ASSUME PipelineInv, NEW l \in [Ids -> Dates], NEW i \in Ids, NEW r \in Stashes
  PROVE  LET b == Shifting(l, i, r)
         IN  /\ DeskInv(b) /\ b.live = l /\ b.busy = busy /\ b.queue = queue
             /\ Carried(b) = Carried(Desk) /\ (KidsOwn(Desk) => KidsOwn(b))
             /\ \A k : SameLane(Desk, b, k)
<1> DEFINE b == Shifting(l, i, r)
<1>1. b.live = l /\ b.queue = queue /\ b.busy = busy /\ b.flight = flight
  BY DEF Desk, Shifting
<1>2. DeskInv(b)
  BY PipelineFacts, Shifts DEF Shifting
<1> HIDE DEF b
<1>3. Carried(b) = Carried(Desk)
  BY <1>1 DEF Carried, Desk
<1>4. \A k : SameLane(Desk, b, k)
  <2>1. Desk.queue = queue /\ Desk.flight = flight
    BY DEF Desk
  <2> QED
    BY <1>1, <2>1, SameCarriedLanes
<1> QED
  BY <1>1, <1>2, <1>3, <1>4 DEF KidsOwn, b

\* "Move children too": each child gets a save of its own
LEMMA MoveChildrenAgrees ==
  ASSUME OwnInv, MoveChildrenToo
  PROVE  /\ KidsOwn(Desk)' /\ AgreementKept /\ \A j \in Ids : UserTurn(Desk, Desk', j)
         /\ live' = Moved(live, ShiftedKids(toast.items[1].id, toast.extra))
<1> DEFINE i == toast.items[1].id
           kids == ShiftedKids(i, toast.extra)
           len == Len(kids)
           l == Moved(live, kids)
           b == [Desk EXCEPT !.live = l, !.shifted[i] = RestoresOf(kids)]
           saves == [n \in DOMAIN kids |-> AsCascade(kids[n])]
<1>1. /\ live \in [Ids -> Dates] /\ DeskInv(Desk) /\ KidsOwn(Desk) /\ PipelineInv
      /\ Desk.live = live /\ Desk.busy = busy
  BY PipelineFacts DEF OwnInv, Desk
<1>2. i \in Ids
  <2>1. toast \in Toasts
    BY DEF MoveChildrenToo, OwnInv, PipelineInv, DateSavesTypes
  <2>2. toast.items \in Seq(Restore) /\ toast.items # << >>
    BY <2>1 DEF Toasts
  <2>3. toast.items[1] \in Restore
    BY <2>2
  <2> QED
    BY <2>3 DEF Restore
<1>3. \A n \in DOMAIN kids : kids[n].after \in Dates
  BY DEF MoveChildrenToo
<1>4. Becomes(EnqueueAll(b, saves))
  BY DEF MoveChildrenToo, Desk
<1>5. server' = server /\ failed' = failed /\ orphaned' = orphaned
  BY DEF MoveChildrenToo
<1>6. kids \in Seq(Kid)
  BY <1>1, <1>2, <1>3, ShiftedKidsType
<1> HIDE DEF i, kids
<1>7. RestoresOf(kids) \in Stashes
  BY <1>6, KidsHistory DEF Stashes
<1>8. /\ len \in Nat /\ DOMAIN kids = 1..len
      /\ \A n \in 1..len : kids[n] \in Kid /\ kids[n].id \in Ids /\ kids[n].after \in Dates
  <2>1. len \in Nat /\ DOMAIN kids = 1..len /\ \A n \in 1..len : kids[n] \in Kid
    BY <1>6
  <2> QED
    BY <2>1 DEF Kid
<1> HIDE DEF len
<1>9. /\ saves \in Seq(Save) /\ Len(saves) = len
      /\ \A n \in 1..len : /\ saves[n].id = kids[n].id /\ saves[n].after = kids[n].after
                           /\ saves[n].kids = << >> /\ saves[n].role # "Commit"
  <2>1. saves \in [1..len -> Save]
    BY <1>8, AsCascadeType
  <2>2. saves \in Seq(Save) /\ Len(saves) = len
    BY <1>8, <2>1, FnIsSeq
  <2>3. \A n \in 1..len : saves[n] = AsCascade(kids[n])
    BY <1>8
  <2> HIDE DEF saves
  <2> QED
    BY <2>2, <2>3 DEF AsCascade
<1> HIDE DEF saves
<1>10. /\ l \in [Ids -> Dates]
       /\ \A j \in Ids : \A k \in 1..len : LastMove(kids, len, j, k) => l[j] = kids[k].after
       /\ \A j \in Ids : (\A k \in 1..len : kids[k].id # j) => l[j] = live[j]
  BY <1>1, <1>8, MovedResult
<1> HIDE DEF l
<1>11. /\ DeskInv(b) /\ b.live = l /\ b.busy = busy /\ Carried(b) = Carried(Desk) /\ KidsOwn(b)
       /\ \A k : SameLane(Desk, b, k)
  <2>1. b = Shifting(l, i, RestoresOf(kids))
    BY DEF Shifting
  <2> QED
    BY <1>1, <1>2, <1>10, <1>7, <2>1, SetShifted
<1> HIDE DEF b
<1>12. \A n \in 1..Len(saves) :
         LastMove(saves, Len(saves), saves[n].id, n) => Matches(b, saves[n])
  <2> SUFFICES ASSUME NEW n \in 1..len, LastMove(saves, len, saves[n].id, n)
               PROVE  Matches(b, saves[n])
    BY <1>9
  <2>1. LastMove(kids, len, kids[n].id, n)
    BY <1>8, <1>9 DEF LastMove
  <2> QED
    BY <1>8, <1>9, <1>10, <1>11, <2>1 DEF Matches
<1>13. \A j \in Ids : (\A n \in 1..Len(saves) : saves[n].id # j) => b.live[j] = live[j]
  BY <1>9, <1>10, <1>11
<1>14. l = Moved(live, ShiftedKids(toast.items[1].id, toast.extra))
  BY DEF l, kids, i
<1> QED
  BY <1>4, <1>5, <1>9, <1>11, <1>12, <1>13, <1>14, GroupAgrees

\* A Shift-drag: the save it supersedes hands over no item that the new one does
\* not move
LEMMA ShiftDragAgrees ==
  ASSUME OwnInv, NEW i \in Ids, NEW d \in Dates, ShiftDrag(i, d)
  PROVE  /\ KidsOwn(Desk)' /\ AgreementKept /\ \A j \in Ids : UserTurn(Desk, Desk', j)
         /\ live' = [Moved(live, ShiftedKids(i, d - live[i])) EXCEPT ![i] = d]
<1> DEFINE kids == ShiftedKids(i, d - live[i])
           len == Len(kids)
           m == Moved(live, kids)
           l == [m EXCEPT ![i] = d]
           b == [Desk EXCEPT !.live = l, !.shifted[i] = RestoresOf(kids)]
           s == [id |-> i, after |-> d, prev |-> live[i], role |-> "Commit", kids |-> kids]
           e == Enqueue(b, s)
<1>1. /\ live \in [Ids -> Dates] /\ DeskInv(Desk) /\ KidsOwn(Desk) /\ PipelineInv
      /\ Desk.live = live /\ Desk.busy = busy
  BY PipelineFacts DEF OwnInv, Desk
<1>2. Becomes(e) /\ kids # << >> /\ \A n \in DOMAIN kids : kids[n].after \in Dates
  BY DEF ShiftDrag, Desk
<1>3. server' = server /\ failed' = failed /\ orphaned' = orphaned
  BY DEF ShiftDrag, marks
<1>4. /\ kids \in Seq(Kid) /\ DOMAIN kids = DOMAIN Kids[i]
      /\ \A n \in DOMAIN kids : kids[n].id = Kids[i][n]
  BY <1>1, <1>2, ShiftedKidsType
<1> HIDE DEF kids
<1>5. RestoresOf(kids) \in Stashes
  BY <1>4, KidsHistory DEF Stashes
<1>6. /\ len \in Nat /\ DOMAIN kids = 1..len
      /\ \A n \in 1..len : kids[n].id \in Ids /\ kids[n].after \in Dates
  <2>1. len \in Nat /\ DOMAIN kids = 1..len /\ \A n \in 1..len : kids[n] \in Kid
    BY <1>4
  <2> QED
    BY <2>1 DEF Kid
<1> HIDE DEF len
<1>7. /\ m \in [Ids -> Dates]
      /\ \A j \in Ids : \A k \in 1..len : LastMove(kids, len, j, k) => m[j] = kids[k].after
      /\ \A j \in Ids : (\A k \in 1..len : kids[k].id # j) => m[j] = live[j]
  BY <1>1, <1>6, MovedResult
<1> HIDE DEF m
<1>8. l \in [Ids -> Dates] /\ l[i] = d /\ \A j \in Ids : j # i => l[j] = m[j]
  BY <1>7
<1> HIDE DEF l
<1>9. /\ DeskInv(b) /\ b.live = l /\ b.busy = busy /\ Carried(b) = Carried(Desk) /\ KidsOwn(b)
      /\ \A k : SameLane(Desk, b, k)
  <2>1. b = Shifting(l, i, RestoresOf(kids))
    BY DEF Shifting
  <2> QED
    BY <1>1, <1>8, <1>5, <2>1, SetShifted
<1>10. s \in Save /\ s.id = i /\ s.after = d /\ s.kids = kids
  BY <1>1, <1>4 DEF Save, Roles
<1> HIDE DEF b, s
<1>11. Own(s)
  BY <1>4, <1>10 DEF Own, Range
<1>12. Matches(b, s) /\ Ready(b) /\ \A n \in DOMAIN b.queue : b.queue[n].id \in b.busy
  BY <1>8, <1>9, <1>10 DEF Matches, DeskInv, Waiting
<1>13. DeskInv(e) /\ Grows(b, e) /\ KidsOwn(e)
  BY <1>9, <1>10, <1>11, <1>12, EnqueueInv, EnqueueOwn
<1>14. /\ e.live = l
       /\ \E a : Took(b, s, a) /\ i \in e.busy /\ a \in Carried(e)
       /\ \A x \in Carried(b) : x \in Carried(e) \/ x.id = i
  BY <1>9, <1>10, <1>12, EnqueueEffect
<1>15. \E a \in Carried(e) : a.kids = kids
  <2>1. PICK a \in Carried(e) : Took(b, s, a)
    BY <1>14
  <2>2. ASSUME NEW k \in DOMAIN b.queue, a = Adopt(s, b.queue[k]) PROVE a.kids = s.kids
    <3>1. b.queue \in Seq(Save)
      BY <1>12, DeskFields DEF Ready
    <3>2. b.queue[k] \in Save
      BY <3>1
    <3> QED
      BY <1>2, <1>10, <2>2, <3>2, AdoptFields
  <2>3. a.kids = s.kids
    BY <2>1, <2>2 DEF Took
  <2> QED
    BY <1>10, <2>1, <2>3
<1>20. Sent(b, e, i) /\ \A j : j # i => SameLane(b, e, j)
  BY <1>9, <1>10, <1>12, EnqueueSent
<1> HIDE DEF e
<1>16. Desk' = e /\ busy' = e.busy
  BY <1>2, <1>13, NextDesk DEF DeskInv, Ready
<1>23. live' = e.live
  BY <1>2, <1>13, NextDesk DEF DeskInv, Ready
<1>17. \A j \in Ids : UserTurn(Desk, Desk', j)
  <2> TAKE j \in Ids
  <2>4. j # i => SameLane(Desk, e, j)
    BY <1>9, <1>20 DEF SameLane
  <2>1. CASE j = i
    BY <1>9, <1>16, <1>20, <2>1 DEF UserTurn, SameLane, Sent
  <2>2. CASE j # i /\ \E n \in 1..len : kids[n].id = j
    <3> DEFINE I == {n \in 1..len : kids[n].id = j}
    <3>1. PICK k \in I : \A n \in I : n <= k
      <4>1. I \in SUBSET (1..len) /\ I # {}
        BY <2>2
      <4> QED
        BY <1>6, <4>1, EnqueueLoop!LastExists
    <3>2. LastMove(kids, len, j, k)
      BY <1>6, <3>1 DEF LastMove
    <3>3. e.live[j] = kids[k].after /\ k \in DOMAIN kids /\ kids[k].id = j
      BY <1>6, <1>7, <1>8, <1>14, <2>2, <3>1, <3>2
    <3>4. HeldAt(e, j)
      BY <1>15, <3>3 DEF HeldAt
    <3> QED
      BY <1>16, <2>2, <2>4, <3>4 DEF UserTurn
  <2>3. CASE j # i /\ \A n \in 1..len : kids[n].id # j
    <3>1. e.live[j] = Desk.live[j]
      BY <1>1, <1>7, <1>8, <1>14, <2>3
    <3>2. ASSUME HeldAt(Desk, j) PROVE HeldAt(e, j)
      <4>1. PICK x \in Carried(Desk) :
              \E n \in DOMAIN x.kids : x.kids[n].id = j /\ Desk.live[j] = x.kids[n].after
        BY <3>2 DEF HeldAt
      <4>2. j \notin Range(Kids[i])
        BY <1>4, <1>6, <2>3 DEF Range
      <4>3. x.id # i
        BY <1>1, <4>1, <4>2 DEF KidsOwn, Own
      <4>4. x \in Carried(e)
        BY <1>9, <1>14, <4>3
      <4> QED
        BY <3>1, <4>1, <4>4 DEF HeldAt
    <3> QED
      BY <1>16, <2>3, <2>4, <3>1, <3>2 DEF Left, UserTurn
  <2> QED
    BY <2>1, <2>2, <2>3
<1>18. busy \subseteq busy'
  BY <1>9, <1>13, <1>16 DEF Grows
<1>19. KidsOwn(Desk)'
  BY <1>13, <1>16
<1>21. DeskInv(Desk')
  BY <1>13, <1>16
<1>22. live' = [Moved(live, ShiftedKids(i, d - live[i])) EXCEPT ![i] = d]
  BY <1>14, <1>23 DEF l, m, kids
<1> QED
  BY <1>1, <1>3, <1>17, <1>18, <1>19, <1>21, <1>22, UserAgrees DEF OwnInv

\* Sending the children of a saved Shift-drag.
LEMMA EnqueueMatchingOwn ==
  ASSUME NEW d, Ready(d), KidsOwn(d), NEW kids \in Seq(Kid)
  PROVE  KidsOwn(EnqueueMatching(d, kids))
<1>1. PICK f : KidRun(f, d, kids)
  BY KidRuns
<1> DEFINE S == {k \in Nat : k <= Len(kids) => Ready(f[k]) /\ KidsOwn(f[k])}
<1>2. 0 \in S
  BY <1>1 DEF KidRun
<1>3. ASSUME NEW k \in Nat, k \in S PROVE k + 1 \in S
  <2> SUFFICES ASSUME k + 1 <= Len(kids) PROVE Ready(f[k + 1]) /\ KidsOwn(f[k + 1])
    OBVIOUS
  <2>1. f[k + 1] = EnqueueKid(f[k], kids[k + 1]) /\ kids[k + 1] \in Kid
    <3>1. k + 1 \in 1..Len(kids) /\ (k + 1) - 1 = k
      OBVIOUS
    <3> QED
      BY <1>1, <3>1 DEF KidRun
  <2>2. Ready(f[k]) /\ KidsOwn(f[k])
    BY <1>3
  <2>3. CASE Matches(f[k], kids[k + 1])
    <3> DEFINE s == AsCascade(kids[k + 1])
    <3>1. f[k + 1] = Enqueue(f[k], s)
      BY <2>1, <2>3 DEF EnqueueKid
    <3>2. s \in Save /\ s.kids = << >>
      BY <2>1, AsCascadeType DEF AsCascade
    <3> HIDE DEF s
    <3> QED
      BY <2>2, <3>1, <3>2, EnqueueInv, EnqueueOwn, NoKidsOwn DEF DeskInv
  <2>4. CASE ~Matches(f[k], kids[k + 1])
    BY <2>1, <2>2, <2>4 DEF EnqueueKid
  <2> QED
    BY <2>3, <2>4
<1> HIDE DEF S
<1>4. \A k \in Nat : k \in S
  BY <1>2, <1>3, KidLoop!Induction
<1> QED
  BY <1>1, <1>4, Len(kids) \in Nat DEF S, KidRun

\* An answer takes a save away and adds none
LEMMA LandedOwn ==
  ASSUME PipelineInv, KidsOwn(Desk), NEW f \in flight, NEW d, d.queue = queue, d.flight = flight \ {f}
  PROVE  KidsOwn(d)
BY DEF KidsOwn, Carried, Desk

\* Items other than the one an answer is for: what the answer does to them is
\* recorded in `orphaned`, unless they keep a PATCH.
LEMMA OthersAgree ==
  ASSUME OwnInv, NEW i \in Ids, busy \ {i} \subseteq busy',
         NEW j \in Ids, j # i, j \notin failed, j \notin orphaned, ~Abandoned(j),
         server'[j] = server[j], Settled(j)', AgreesFor(j)
  PROVE  live'[j] = server'[j]
<1>1. j \notin busy' /\ ~Held(j)'
  BY DEF Settled
<1>2. j \notin busy /\ live'[j] = live[j] /\ ~Held(j)
  BY <1>1 DEF Abandoned
<1>3. \A n \in DOMAIN queue : queue[n].id # j
  BY <1>2 DEF OwnInv, PipelineInv, DeskInv, Waiting, Desk
<1>4. Settled(j)
  BY <1>2, <1>3 DEF Settled
<1> QED
  BY <1>2, <1>4 DEF AgreesFor

\* Dates edited while a PATCH was in flight are sent by its follow-up.
LEMMA FollowUpSent ==
  ASSUME PipelineInv, NEW f \in flight, ~Matches(Desk, f.save)
  PROVE  f.save.id \in Followed(f).busy
<1> DEFINE s == f.save
           u == FollowUp(live[s.id], s)
           d == Landed(f)
<1>1. Ready(d) /\ d.live = live /\ d.queue = queue /\ d.busy = busy \ {s.id} /\ s \in Save
  BY LandedReady
<1>2. s.id \in Ids /\ live[s.id] \in Dates
  BY <1>1, PipelineFacts DEF Save
<1>3. u \in Save /\ u.id = s.id /\ u.after = live[s.id]
  BY <1>1, <1>2, FollowUpType DEF FollowUp
<1>4. Followed(f) = Enqueue(d, u)
  BY DEF Followed
<1>5. \A n \in DOMAIN queue : queue[n].id \in busy
  BY DEF PipelineInv, DeskInv, Waiting, Desk
<1> HIDE DEF u, d
<1>6. Matches(d, u) /\ \A n \in DOMAIN d.queue : d.queue[n].id \in d.busy \/ d.queue[n].id = u.id
  BY <1>1, <1>3, <1>5 DEF Matches
<1>7. u.id \in Enqueue(d, u).busy
  BY <1>1, <1>3, <1>6, EnqueueEffect
<1> QED
  BY <1>3, <1>4, <1>7

\* A PATCH answers Ok: the item is stored as sent, or its follow-up is on the way
LEMMA SaveOkAgrees ==
  ASSUME OwnInv, NEW f \in flight, SaveOk(f)
  PROVE  KidsOwn(Desk)' /\ AgreementKept
<1> DEFINE s == f.save
           i == s.id
           e == Drain(Answered(f))
<1>1. /\ PipelineInv /\ KidsOwn(Desk) /\ f \in Flights /\ s \in Save /\ i \in Ids
      /\ s.kids \in Seq(Kid)
      /\ Ready(Landed(f)) /\ Landed(f).queue = queue /\ Landed(f).flight = flight \ {f}
      /\ Landed(f).busy = busy \ {i} /\ Landed(f).live = live
      /\ Ready(Followed(f)) /\ Ready(Answered(f)) /\ live \in [Ids -> Dates]
  BY PipelineFacts, LandedReady, AnsweredReady DEF OwnInv, Save
<1>2. Becomes(e) /\ DeskInv(e) /\ Grows(Answered(f), e)
  BY <1>1, DrainInv DEF SaveOk, Answered, Followed
<1>3. /\ server' = [server EXCEPT ![i] = s.after]
      /\ failed' = failed \ {i}
      /\ orphaned' = (orphaned \ {i}) \cup {j \in Ids : Abandoned(j)}
  BY DEF SaveOk
<1>4. KidsOwn(Landed(f))
  BY <1>1, LandedOwn
<1>5. KidsOwn(Followed(f)) /\ Grows(Landed(f), Followed(f))
  <2>1. CASE Matches(Desk, s)
    BY <1>4, <2>1 DEF Followed, Grows
  <2>2. CASE ~Matches(Desk, s)
    <3> DEFINE u == FollowUp(live[i], s)
    <3>1. u \in Save /\ u.kids = << >>
      BY <1>1, FollowUpType DEF FollowUp
    <3> HIDE DEF u
    <3>2. Followed(f) = Enqueue(Landed(f), u)
      BY <2>2 DEF Followed, u
    <3> QED
      BY <1>1, <1>4, <3>1, <3>2, EnqueueInv, EnqueueOwn, NoKidsOwn
  <2> QED
    BY <2>1, <2>2
<1>6. KidsOwn(Answered(f)) /\ Grows(Followed(f), Answered(f))
  <2>1. CASE s.role = "Commit"
    <3>1. Answered(f) = EnqueueMatching(Followed(f), s.kids)
      BY <2>1 DEF Answered
    <3> QED
      BY <1>1, <1>5, <3>1, EnqueueMatchingInv, EnqueueMatchingOwn
  <2>2. CASE s.role # "Commit"
    BY <1>5, <2>2 DEF Answered, Grows
  <2> QED
    BY <2>1, <2>2
<1>7. KidsOwn(e)
  BY <1>1, <1>6, DrainOwn
<1> HIDE DEF e
<1>8. Desk' = e /\ busy' = e.busy
  BY <1>2, NextDesk DEF DeskInv, Ready
<1>9. Followed(f).busy \subseteq busy' /\ busy \ {i} \subseteq busy'
  BY <1>1, <1>2, <1>5, <1>6, <1>8 DEF Grows
<1>10. ASSUME NEW j \in Ids \ (failed' \cup orphaned'), Settled(j)', AgreesFor(j)
       PROVE  live'[j] = server'[j]
  <2>1. ~Abandoned(j) /\ j \notin busy' /\ server \in [Ids -> Dates]
    BY <1>1, <1>3, <1>10 DEF Settled, PipelineInv, DateSavesTypes
  <2>2. CASE j # i
    <3>1. j \notin failed /\ j \notin orphaned /\ server'[j] = server[j]
      BY <1>3, <2>1, <2>2
    <3> QED
      BY <1>1, <1>9, <1>10, <2>1, <2>2, <3>1, OthersAgree
  <2>3. CASE j = i
    <3>1. live'[i] = live[i] /\ server'[i] = s.after
      BY <1>1, <1>3, <2>1, <2>3 DEF Abandoned
    <3>2. Matches(Desk, s)
      BY <1>1, <1>9, <2>1, <2>3, FollowUpSent
    <3> QED
      BY <2>3, <3>1, <3>2 DEF Matches, Desk
  <2> QED
    BY <2>2, <2>3
<1>11. KidsOwn(Desk)'
  BY <1>7, <1>8
<1> QED
  BY <1>10, <1>11 DEF AgreementKept, AgreesFor

\* A PATCH fails: the item is put back, or recorded in failed or orphaned
LEMMA SaveErrAgrees ==
  ASSUME OwnInv, NEW f \in flight, NEW applied \in BOOLEAN, SaveErr(f, applied)
  PROVE  KidsOwn(Desk)' /\ AgreementKept
<1> DEFINE s == f.save
           i == s.id
           d == Undone(f)
           e == Drain(d)
<1>1. PipelineInv /\ KidsOwn(Desk) /\ s \in Save /\ i \in Ids /\ s.kids \in Seq(Kid) /\ Ready(d)
  BY LandedReady, UndoneReady DEF OwnInv, Save
<1>2. d.queue = queue /\ d.flight = flight \ {f} /\ d.busy = busy \ {i}
  <2> DEFINE r == RolledBack(f)
  <2>1. Ready(r) /\ r \in Desks /\ r.queue = queue /\ r.busy = busy \ {i} /\ r.flight = flight \ {f}
    BY <1>1, RolledBackReady DEF Ready
  <2> HIDE DEF r
  <2>2. LET x == RestoreKids(r, s.kids)
        IN  x.queue = r.queue /\ x.busy = r.busy /\ x.flight = r.flight
    BY <1>1, <2>1, RestoreKidsFields
  <2>3. d = RestoreKids(r, s.kids) \/ d = r
    BY DEF Undone, r
  <2> QED
    BY <2>1, <2>2, <2>3
<1>3. Becomes(e)
  BY DEF SaveErr, Undone
<1>4. /\ server' = [server EXCEPT ![i] = s.after] \/ server' = server
      /\ failed \cup {i} \subseteq failed'
      /\ orphaned' = orphaned \cup {j \in Ids : Abandoned(j)}
  BY DEF SaveErr
<1> HIDE DEF d
<1>5. DeskInv(e) /\ Grows(d, e) /\ KidsOwn(e)
  BY <1>1, <1>2, LandedOwn, DrainInv, DrainOwn
<1> HIDE DEF e
<1>6. Desk' = e /\ busy' = e.busy
  BY <1>3, <1>5, NextDesk DEF DeskInv, Ready
<1>7. busy \ {i} \subseteq busy'
  BY <1>2, <1>5, <1>6 DEF Grows
<1>8. ASSUME NEW j \in Ids \ (failed' \cup orphaned'), Settled(j)', AgreesFor(j)
       PROVE  live'[j] = server'[j]
  <2>1. ~Abandoned(j) /\ j # i /\ j \notin failed /\ j \notin orphaned
    BY <1>4
  <2>2. server'[j] = server[j]
    BY <1>1, <1>4, <2>1 DEF PipelineInv, DateSavesTypes
  <2> QED
    BY <1>1, <1>7, <1>8, <2>1, <2>2, OthersAgree
<1>9. KidsOwn(Desk)'
  BY <1>5, <1>6
<1> QED
  BY <1>8, <1>9 DEF AgreementKept, AgreesFor

\* The inductive invariant of Agreement
AgreeInv == OwnInv /\ Agreement

\* A loaded planner shows what is stored
LEMMA AgreeInvInit == Init => AgreeInv
<1> SUFFICES ASSUME Init PROVE AgreeInv
  OBVIOUS
<1>1. PipelineInv
  BY PipelineInvInit
<1>2. Carried(Desk) = {}
  BY DEF Init, Carried, Desk, Range
<1>3. server = live
  BY DEF Init
<1> QED
  BY <1>1, <1>2, <1>3 DEF AgreeInv, OwnInv, KidsOwn, Agreement

\* No step breaks the queue discipline or any item's agreement
LEMMA OwnInvStep ==
  ASSUME OwnInv, [Next]_vars
  PROVE  OwnInv' /\ AgreementKept
<1>1. PipelineInv'
  BY PipelineInvStep DEF OwnInv
<1> SUFFICES KidsOwn(Desk)' /\ AgreementKept
  BY <1>1 DEF OwnInv
<1>2. ASSUME NEW i \in Ids, NEW d \in Dates, CommitDates(i, d) \/ ShiftDrag(i, d)
      PROVE  KidsOwn(Desk)' /\ AgreementKept
  BY <1>2, CommitDatesAgrees, ShiftDragAgrees
<1>3. CASE MoveChildrenToo
  BY <1>3, MoveChildrenAgrees
<1>4. CASE UndoLast \/ RedoLast \/ ToastUndo
  BY <1>4, ReplaysAgree
<1>5. ASSUME NEW f \in flight, Answer(f) PROVE KidsOwn(Desk)' /\ AgreementKept
  BY <1>5, SaveOkAgrees, SaveErrAgrees DEF Answer
<1>6. CASE ToastGone \/ UNCHANGED vars
  <2>1. /\ live' = live /\ queue' = queue /\ busy' = busy /\ flight' = flight
        /\ shifted' = shifted /\ server' = server /\ failed' = failed /\ orphaned' = orphaned
    BY <1>6 DEF ToastGone, vars, pipeline, history, marks
  <2>2. Desk' = Desk
    BY <2>1 DEF Desk
  <2>3. \A j \in Ids : Settled(j)' = Settled(j)
    BY <2>1 DEF Settled, Held
  <2> QED
    BY <2>1, <2>2, <2>3 DEF OwnInv, AgreementKept, AgreesFor
<1> QED
  BY <1>2, <1>3, <1>4, <1>5, <1>6 DEF Next, UserStep

\* No step breaks Agreement
LEMMA AgreeInvStep == AgreeInv /\ [Next]_vars => AgreeInv'
BY OwnInvStep DEF AgreeInv, AgreementKept, AgreesFor, Agreement

\* An item with nothing left to save shows what Azure DevOps holds, unless its last
\* save failed or its shift was dropped: edits, undos, redos, toasts and shifts
\* may land while its PATCH is in flight, and the queue, the cascades and the
\* follow-up still converge (enqueue_date_save, spawn_one_date_save).
THEOREM SettledAgrees == Spec => []Agreement
<1>1. AgreeInv => Agreement
  BY DEF AgreeInv
<1> QED
  BY <1>1, AgreeInvInit, AgreeInvStep, PTL DEF Spec

-----------------------------------------------------------------------------
(***************************************************************************)
(* The refinement: what a step does to one item is a step of its lane.     *)
(***************************************************************************)
\* The dates A of an item, one at most, are shown by the lane as X.
ShownAs(A, X) == (A = {} /\ X = None) \/ \E x \in Dates : A = {x} /\ X = x

\* A lane's flight is the date of the item's one PATCH.
LEMMA FlightShown ==
  ASSUME NEW F \in SUBSET Flights, \A f, g \in F : f.save.id = g.save.id => f = g, NEW j
  PROVE  ShownAs(After({f.save : f \in F}, j),
                 IF \E f \in F : f.save.id = j
                   THEN (CHOOSE f \in F : f.save.id = j).save.after ELSE None)
<1> DEFINE A == After({f.save : f \in F}, j)
<1>1. CASE \A f \in F : f.save.id # j
  <2>1. A = {}
    BY <1>1 DEF After
  <2> QED
    BY <1>1, <2>1 DEF ShownAs
<1>2. CASE \E f \in F : f.save.id = j
  <2> DEFINE f == CHOOSE f \in F : f.save.id = j
  <2>1. f \in F /\ f.save.id = j
    BY <1>2
  <2> HIDE DEF f
  <2>2. f.save.after \in Dates
    BY <2>1 DEF Flights, Save
  <2>3. A = {f.save.after}
    BY <2>1 DEF After
  <2> QED
    BY <1>2, <2>2, <2>3 DEF ShownAs, f
<1> QED
  BY <1>1, <1>2

\* What a lane has queued is the date of the item's one save that waits.
LEMMA QueueShown ==
  ASSUME NEW q \in Seq(Save), Distinct(q), NEW j
  PROVE  ShownAs(After(Range(q), j),
                 IF \E n \in DOMAIN q : q[n].id = j
                   THEN q[SelectLastInSeq(q, LAMBDA s : s.id = j)].after ELSE None)
<1> DEFINE A == After(Range(q), j)
<1>1. CASE \A n \in DOMAIN q : q[n].id # j
  <2>1. A = {}
    BY <1>1 DEF After, Range
  <2> QED
    BY <1>1, <2>1 DEF ShownAs
<1>2. ASSUME NEW n \in DOMAIN q, q[n].id = j
      PROVE  ShownAs(A, q[SelectLastInSeq(q, LAMBDA s : s.id = j)].after)
  <2> DEFINE I == {m \in 1..Len(q) : q[m].id = j}
  <2>1. Len(q) \in Nat /\ n \in I /\ I \in SUBSET (1..Len(q))
    BY <1>2
  <2>2. Max(I) \in I
    BY <2>1, SearchFound
  <2>3. SelectLastInSeq(q, LAMBDA s : s.id = j) = Max(I)
    BY <2>1 DEF SelectLastInSeq
  <2>4. Max(I) = n
    BY <1>2, <2>2 DEF Distinct
  <2>5. A = {q[n].after}
    BY <1>2 DEF After, Range, Distinct
  <2>6. q[n].after \in Dates
    <3>1. q[n] \in Save
      OBVIOUS
    <3> QED
      BY <3>1 DEF Save
  <2> HIDE DEF I, A
  <2> QED
    BY <2>3, <2>4, <2>5, <2>6 DEF ShownAs
<1> QED
  BY <1>1, <1>2

\* A lane shows the desk, before and after a step.
LEMMA LaneShown ==
  ASSUME PipelineInv, PipelineInv', NEW j
  PROVE  /\ ShownAs(Flies(Desk, j), FlightOf(j)) /\ ShownAs(Waits(Desk, j), QueuedOf(j))
         /\ ShownAs(Flies(Desk', j), FlightOf(j)') /\ ShownAs(Waits(Desk', j), QueuedOf(j)')
<1>1. Desk.flight = flight /\ Desk.queue = queue /\ Desk'.flight = flight' /\ Desk'.queue = queue'
  BY DEF Desk
<1>2. /\ flight \in SUBSET Flights /\ \A f, g \in flight : f.save.id = g.save.id => f = g
      /\ queue \in Seq(Save) /\ Distinct(queue)
  BY <1>1, PipelineFacts DEF Ready, InFlight
<1>3. /\ flight' \in SUBSET Flights /\ \A f, g \in flight' : f.save.id = g.save.id => f = g
      /\ queue' \in Seq(Save) /\ Distinct(queue')
  BY <1>1, DeskFields DEF PipelineInv, DateSavesTypes, DeskInv, Ready, InFlight
<1>4. ShownAs(Flies(Desk, j), FlightOf(j)) /\ ShownAs(Waits(Desk, j), QueuedOf(j))
  BY <1>1, <1>2, FlightShown, QueueShown DEF Flies, Waits, Sending, FlightOf, QueuedOf
<1>5. ShownAs(Flies(Desk', j), FlightOf(j)') /\ ShownAs(Waits(Desk', j), QueuedOf(j)')
  <2>1. ShownAs(After({f.save : f \in flight'}, j),
                IF \E f \in flight' : f.save.id = j
                  THEN (CHOOSE f \in flight' : f.save.id = j).save.after ELSE None)
    BY <1>3, FlightShown
  <2>2. ShownAs(After(Range(queue'), j),
                IF \E n \in DOMAIN queue' : queue'[n].id = j
                  THEN queue'[SelectLastInSeq(queue', LAMBDA s : s.id = j)].after ELSE None)
    BY <1>3, QueueShown
  <2>3. ShownAs(Flies(Desk', j), FlightOf(j)')
    BY <1>1, <2>1 DEF Flies, Sending, FlightOf
  <2>4. ShownAs(Waits(Desk', j), QueuedOf(j)')
    BY <1>1, <2>2 DEF Waits, QueuedOf, SelectLastInSeq
  <2> QED
    BY <2>3, <2>4
<1> QED
  BY <1>4, <1>5

\* What a step does to the mark of a lane whose last save failed or whose shift was
\* abandoned.
Stray(j) == j \in failed \cup orphaned

\* A date flies or waits, or none does.
LEMMA ShownFacts ==
  ASSUME NEW A, NEW X, ShownAs(A, X)
  PROVE  /\ A = {} <=> X = None
         /\ X # None => X \in Dates /\ A = {X}
         /\ \A x \in Dates : A = {x} => X = x
         /\ \A x \in Dates : A \subseteq {x} => X \in {None, x}
BY LanesAssumption DEF ShownAs

\* Two lanes that show the same dates show the same.
LEMMA SameShown ==
  ASSUME NEW A, NEW X, NEW Y, ShownAs(A, X), ShownAs(A, Y)
  PROVE  X = Y
BY LanesAssumption DEF ShownAs

\* What the lane of j shows of a step.
LEMMA LaneParts ==
  ASSUME PipelineInv, PipelineInv', NEW j \in Ids
  PROVE  /\ live[j] \in Dates /\ live'[j] \in Dates
         /\ Desk.live = live /\ Desk'.live = live' /\ Desk.busy = busy /\ Desk'.busy = busy'
         /\ Held(j) \in BOOLEAN /\ Held(j)' \in BOOLEAN
         /\ Stray(j) \in BOOLEAN /\ Stray(j)' \in BOOLEAN
         /\ j \in busy <=> FlightOf(j) # None
         /\ j \in busy' <=> FlightOf(j)' # None
         /\ Held(j) <=> HeldAt(Desk, j)
         /\ Held(j)' <=> HeldAt(Desk', j)
<1>1. Desk.live = live /\ Desk'.live = live' /\ Desk.busy = busy /\ Desk'.busy = busy'
  BY DEF Desk
<1>2. live[j] \in Dates /\ live'[j] \in Dates
  <2>1. live \in [Ids -> Dates] /\ live' \in [Ids -> Dates]
    BY <1>1, DeskFields DEF PipelineInv, DateSavesTypes
  <2> QED
    BY <2>1
<1>3. InFlight(Desk) /\ InFlight(Desk')
  BY DEF PipelineInv, DeskInv, Ready
<1>4. (j \in busy <=> FlightOf(j) # None) /\ (j \in busy' <=> FlightOf(j)' # None)
  BY <1>1, <1>3, BusyFlies, LaneShown, ShownFacts
<1>5. Held(j) \in BOOLEAN /\ Held(j)' \in BOOLEAN
  BY DEF Held
<1>6. Stray(j) \in BOOLEAN /\ Stray(j)' \in BOOLEAN
  BY DEF Stray
<1> QED
  BY <1>1, <1>2, <1>4, <1>5, <1>6, HeldDesk

\* The lane of j accepts an edit that was sent.
LEMMA LaneSubmits ==
  ASSUME PipelineInv, PipelineInv', NEW j \in Ids, Sent(Desk, Desk', j),
         server'[j] = server[j], Stray(j)' = Stray(j)
  PROVE  Lane(j)!LaneNext
<1>1. /\ live'[j] \in Dates /\ Desk'.live = live' /\ Held(j)' \in BOOLEAN
  BY LaneParts
<1>2. /\ ShownAs(Flies(Desk, j), FlightOf(j)) /\ ShownAs(Waits(Desk, j), QueuedOf(j))
      /\ ShownAs(Flies(Desk', j), FlightOf(j)') /\ ShownAs(Waits(Desk', j), QueuedOf(j)')
  BY LaneShown
<1>3. Lane(j)!Submit(live'[j])
  <2>1. CASE FlightOf(j) = None
    <3>1. Flies(Desk, j) = {}
      BY <1>2, <2>1, ShownFacts
    <3>2. Flies(Desk', j) = {live'[j]} /\ Waits(Desk', j) \subseteq {live'[j]}
      BY <1>1, <3>1 DEF Sent
    <3>3. FlightOf(j)' = live'[j] /\ QueuedOf(j)' \in {None, live'[j]}
      BY <1>1, <1>2, <3>2, ShownFacts
    <3> QED
      BY <1>1, <2>1, <3>3 DEF Lane!Submit, Stray
  <2>2. CASE FlightOf(j) # None
    <3>1. Flies(Desk, j) # {}
      BY <1>2, <2>2, ShownFacts
    <3>2. Flies(Desk', j) = Flies(Desk, j) /\ Waits(Desk', j) = {live'[j]}
      BY <1>1, <3>1 DEF Sent
    <3>3. FlightOf(j)' = FlightOf(j) /\ QueuedOf(j)' = live'[j]
      BY <1>1, <1>2, <3>2, ShownFacts, SameShown
    <3> QED
      BY <1>1, <2>2, <3>3 DEF Lane!Submit, Stray
  <2> QED
    BY <2>1, <2>2
<1> QED
  BY <1>1, <1>3 DEF Lane!LaneNext

\* The lane of j accepts the move of an item that a shift owns from then on.
LEMMA LaneHolds ==
  ASSUME PipelineInv, PipelineInv', NEW j \in Ids, SameLane(Desk, Desk', j), HeldAt(Desk', j),
         server'[j] = server[j], Stray(j)' = Stray(j)
  PROVE  Lane(j)!LaneNext
<1>1. live'[j] \in Dates /\ Held(j)'
  BY LaneParts
<1>2. FlightOf(j)' = FlightOf(j) /\ QueuedOf(j)' = QueuedOf(j)
  BY LaneShown, SameShown DEF SameLane
<1>3. Lane(j)!Hold(live'[j])
  BY <1>1, <1>2 DEF Lane!Hold, Stray
<1> QED
  BY <1>1, <1>3 DEF Lane!LaneNext

\* The lane of j accepts a step that sends nothing of it: its dates move only out of a
\* shift, and a shift that leaves it idle marks it.
LEMMA LaneSpared ==
  ASSUME PipelineInv, PipelineInv', NEW j \in Ids, Spared(Desk, Desk', j),
         server'[j] = server[j], Stray(j) => Stray(j)',
         live'[j] = live[j] /\ (Held(j) => Held(j)') => Stray(j)' = Stray(j),
         j \notin busy' /\ ~Held(j)' /\ (Held(j) \/ live'[j] # live[j]) => Stray(j)'
  PROVE  [Lane(j)!LaneNext]_(Lane(j)!laneVars)
<1>1. /\ live'[j] \in Dates /\ Desk'.live = live' /\ Desk.live = live
      /\ Held(j) \in BOOLEAN /\ Held(j)' \in BOOLEAN
      /\ Stray(j) \in BOOLEAN /\ Stray(j)' \in BOOLEAN
      /\ j \in busy' <=> FlightOf(j)' # None
      /\ Held(j) <=> HeldAt(Desk, j)
      /\ Held(j)' <=> HeldAt(Desk', j)
  BY LaneParts
<1>2. FlightOf(j)' = FlightOf(j) /\ QueuedOf(j)' = QueuedOf(j)
  BY LaneShown, SameShown DEF SameLane, Spared
<1>3. live'[j] = live[j] \/ Held(j)
  BY <1>1 DEF Spared
<1>4. CASE live'[j] = live[j] /\ Held(j)' = Held(j)
  <2>1. Stray(j)' = Stray(j)
    BY <1>1, <1>4
  <2>2. UNCHANGED Lane(j)!laneVars
    BY <1>2, <1>4, <2>1 DEF Lane!laneVars, Stray
  <2> QED
    BY <2>2
<1>5. CASE live'[j] = live[j] /\ ~Held(j) /\ Held(j)'
  <2>1. Stray(j)' = Stray(j)
    BY <1>1, <1>5
  <2>2. Lane(j)!LaneNext
    BY <1>1, <1>5, <2>1, LaneHolds DEF Spared
  <2> QED
    BY <2>2
<1>6. CASE Held(j) /\ (live'[j] # live[j] \/ ~Held(j)')
  <2>1. FlightOf(j) = None /\ ~Held(j)' => Stray(j)'
    BY <1>1, <1>2, <1>6
  <2>2. Lane(j)!LetGo(live'[j])
    BY <1>1, <1>2, <1>6, <2>1 DEF Lane!LetGo, Stray
  <2>3. Lane(j)!LaneNext
    BY <1>1, <2>2 DEF Lane!LaneNext
  <2> QED
    BY <2>3
<1> QED
  BY <1>1, <1>3, <1>4, <1>5, <1>6

\* The lane of j accepts a shift that was sent and taken back in one turn.
LEMMA LaneTakenBack ==
  ASSUME PipelineInv, PipelineInv', NEW j \in Ids, TakenBack(Desk, Desk', j),
         server'[j] = server[j], Stray(j) => Stray(j)'
  PROVE  Lane(j)!LaneNext
<1>1. /\ live'[j] \in Dates /\ live[j] \in Dates /\ Desk.live = live
      /\ Held(j)' \in BOOLEAN /\ Stray(j)' \in BOOLEAN /\ Held(j)
  BY LaneParts DEF TakenBack
<1>2. /\ ShownAs(Flies(Desk, j), FlightOf(j)) /\ ShownAs(Waits(Desk, j), QueuedOf(j))
      /\ ShownAs(Flies(Desk', j), FlightOf(j)') /\ ShownAs(Waits(Desk', j), QueuedOf(j)')
  BY LaneShown
<1>3. FlightOf(j)' = FlightOf(j) /\ FlightOf(j) # None /\ QueuedOf(j)' = live[j]
  BY <1>1, <1>2, ShownFacts, SameShown DEF TakenBack
<1>4. Lane(j)!LetGo(live'[j])
  BY <1>1, <1>3 DEF Lane!LetGo, Stray
<1> QED
  BY <1>1, <1>4 DEF Lane!LaneNext

\* The lane of j accepts what a user action does to it.
LEMMA UserLane ==
  ASSUME PipelineInv, PipelineInv', server' = server, failed' = failed, orphaned' = orphaned,
         NEW j \in Ids, UserTurn(Desk, Desk', j)
  PROVE  [Lane(j)!LaneNext]_(Lane(j)!laneVars)
<1>1. Stray(j)' = Stray(j) /\ server'[j] = server[j]
  BY DEF Stray
<1>2. CASE Sent(Desk, Desk', j)
  BY <1>1, <1>2, LaneSubmits
<1>3. CASE SameLane(Desk, Desk', j) /\ HeldAt(Desk', j)
  BY <1>1, <1>3, LaneHolds
<1>4. CASE SameLane(Desk, Desk', j) /\ Left(Desk, Desk', j)
  <2>1. /\ Held(j) <=> HeldAt(Desk, j)
        /\ Held(j)' <=> HeldAt(Desk', j)
        /\ Desk'.live = live' /\ Desk.live = live
    BY LaneParts
  <2>2. live'[j] = live[j] /\ (Held(j) => Held(j)')
    BY <1>4, <2>1 DEF Left
  <2>3. Spared(Desk, Desk', j)
    BY <1>4 DEF Spared, Left
  <2> QED
    BY <1>1, <2>2, <2>3, LaneSpared
<1> QED
  BY <1>2, <1>3, <1>4 DEF UserTurn

\* What was turned stays turned when it is left alone or sent afterwards.
LEMMA TurnedOn ==
  ASSUME NEW b, NEW d, NEW e, NEW j, Turned(b, d, j), e.live = d.live,
         SameLane(d, e, j) \/ Sent(d, e, j)
  PROVE  Turned(b, e, j)
<1>1. CASE SameLane(d, e, j)
  BY <1>1 DEF Turned, Sent, Spared, TakenBack, SameLane
<1>2. CASE Sent(d, e, j)
  <2>1. Sent(b, e, j)
    <3>1. CASE Sent(b, d, j)
      BY <1>2, <3>1 DEF Sent
    <3>2. CASE Spared(b, d, j)
      BY <1>2, <3>2 DEF Sent, Spared, SameLane
    <3>3. CASE TakenBack(b, d, j)
      BY <1>2, <3>3 DEF Sent, TakenBack
    <3> QED
      BY <3>1, <3>2, <3>3 DEF Turned
  <2> QED
    BY <2>1 DEF Turned
<1> QED
  BY <1>1, <1>2

\* A save without a cascade of its own neither drops nor brings a cascade.
LEMMA EnqueueSameKids ==
  ASSUME NEW d, DeskInv(d), KidsOwn(d), NEW s \in Save, Matches(d, s), s.kids = << >>
  PROVE  \A i : SameHold(d, Enqueue(d, s), i)
<1> DEFINE e == Enqueue(d, s)
<1>1. /\ Ready(d) /\ s.id \in Ids /\ d.queue \in Seq(Save)
      /\ \A x \in Range(d.queue) : x.id \in d.busy \/ x.id = s.id
  BY DeskFields DEF DeskInv, Ready, Waiting, Range, Save
<1>2. PICK g, a : Took(d, s, a) /\ Cleared(d, g, s.id, {s.id}) /\ e = DrainOne(g, a)
  BY <1>1, EnqueueTurns
<1>3. Carries(d, e)
  BY EnqueueHolds DEF Carries
<1> HIDE DEF e
<1>4. Carried(g) \subseteq Carried(d) /\ a \in Save /\ g \in Desks
  BY <1>1, <1>2, ClearedCarries DEF Took, Cleared
<1>5. Carried(e) \subseteq Carried(g) \cup {a}
  BY <1>2, <1>4, DrainOneCarries
<1>6. a.kids = << >> \/ \E y \in Carried(d) : a.kids = y.kids
  <2>1. ASSUME NEW m \in DOMAIN d.queue, a = Adopt(s, d.queue[m])
        PROVE  \E y \in Carried(d) : a.kids = y.kids
    <3>1. d.queue[m] \in Save /\ d.queue[m] \in Carried(d)
      BY <1>1 DEF Range, Carried
    <3> QED
      BY <2>1, <3>1, AdoptFields
  <2> QED
    BY <1>2, <2>1 DEF Took
<1>7. ASSUME NEW x \in Carried(e), x.kids # << >> PROVE \E y \in Carried(d) : y.kids = x.kids
  BY <1>4, <1>5, <1>6, <1>7
<1>8. ASSUME NEW k, NEW n \in DOMAIN k
      PROVE  (\E x \in Carried(d) : x.kids = k) <=> (\E x \in Carried(e) : x.kids = k)
  <2>1. k # << >>
    BY <1>8
  <2> QED
    BY <1>3, <1>7, <2>1 DEF Carries
<1> QED
  BY <1>8 DEF SameHold, e

\* What a save of the dates shown does after an answer about i has turned some items.
LEMMA EnqueueArranged ==
  ASSUME NEW b, NEW d, NEW i \in Ids, NEW F, DeskInv(d), KidsOwn(d), Arranged(b, d, i, F),
         SameHold(b, d, i), NEW s \in Save, Matches(d, s), s.kids = << >>, s.id # i
  PROVE  LET e == Enqueue(d, s)
         IN  DeskInv(e) /\ KidsOwn(e) /\ Arranged(b, e, i, F) /\ SameHold(b, e, i)
<1> DEFINE e == Enqueue(d, s)
<1>1. DeskInv(e) /\ KidsOwn(e)
  BY EnqueueInv, EnqueueOwn, NoKidsOwn DEF DeskInv
<1>2. e.live = d.live
  BY EnqueueHolds
<1>3. Sent(d, e, s.id) /\ \A j : j # s.id => SameLane(d, e, j)
  BY EnqueueSent
<1>4. SameHold(d, e, i)
  BY EnqueueSameKids
<1> HIDE DEF e
<1>5. SameHold(b, e, i)
  BY <1>4 DEF SameHold
<1>6. e.live[i] = b.live[i] /\ Flies(e, i) = F /\ Waits(e, i) = {}
  BY <1>2, <1>3 DEF Arranged, SameLane
<1>7. ASSUME NEW j \in Ids \ {i} PROVE Turned(b, e, j)
  <2>1. Turned(b, d, j)
    BY DEF Arranged
  <2>2. SameLane(d, e, j) \/ Sent(d, e, j)
    BY <1>3
  <2> QED
    BY <1>2, <2>1, <2>2, TurnedOn
<1> QED
  BY <1>1, <1>5, <1>6, <1>7 DEF Arranged, e

\* A desk between turns on which an answer about i, who was idle on b, has settled so
\* far: F flies of i, and the shifts that own i are those of b.
Prepared(b, d, i, F) ==
  DeskInv(d) /\ KidsOwn(d) /\ Arranged(b, d, i, F) /\ SameHold(b, d, i)

\* A desk on which nothing was settled yet, or Prepared.
Settling(b, d, i, F) == (d = b /\ F = Decided(b, i)) \/ Prepared(b, d, i, F)

\* The descendants of a saved Shift-drag: the first one sent resolves what still waits
\* of i, and each is sent if it shows its dates (enqueue_matching_cascade).
LEMMA MatchingLanes ==
  ASSUME NEW b, NEW i \in Ids, IdleBut(b, i), KidsOwn(b), NEW kids \in Seq(Kid),
         \A n \in 1..Len(kids) : kids[n].id # i, NEW d, NEW F, Settling(b, d, i, F)
  PROVE  Settling(b, EnqueueMatching(d, kids), i, F)
<1>1. PICK f : KidRun(f, d, kids)
  BY KidRuns
<1> DEFINE S == {k \in Nat : k <= Len(kids) => Settling(b, f[k], i, F)}
<1>2. 0 \in S
  BY <1>1 DEF KidRun
<1>3. ASSUME NEW k \in Nat, k \in S PROVE k + 1 \in S
  <2> SUFFICES ASSUME k + 1 <= Len(kids) PROVE Settling(b, f[k + 1], i, F)
    OBVIOUS
  <2> DEFINE g == f[k]
             kid == kids[k + 1]
             s == AsCascade(kid)
  <2>1. f[k + 1] = EnqueueKid(g, kid) /\ kid \in Kid /\ kid.id # i
    <3>1. k + 1 \in 1..Len(kids) /\ (k + 1) - 1 = k
      OBVIOUS
    <3> QED
      BY <1>1, <3>1 DEF KidRun
  <2>2. Settling(b, g, i, F)
    BY <1>3
  <2>3. s \in Save /\ s.kids = << >> /\ s.role = "Cascade" /\ s.id = kid.id /\ s.after = kid.after
    BY <2>1, AsCascadeType DEF AsCascade
  <2>4. f[k + 1] = IF Matches(g, kid) THEN Enqueue(g, s) ELSE g
    BY <2>1 DEF EnqueueKid
  <2>5. Matches(g, kid) <=> Matches(g, s)
    BY <2>3 DEF Matches
  <2> HIDE DEF g, kid, s
  <2>6. CASE ~Matches(g, s)
    BY <2>2, <2>4, <2>5, <2>6
  <2>7. CASE Matches(g, s) /\ g = b /\ F = Decided(b, i)
    <3>1. Ready(b) /\ i \notin b.busy /\ \A x \in Range(b.queue) : x.id \in b.busy \/ x.id = i
      BY DEF IdleBut
    <3>2. Arranged(b, Enqueue(b, s), i, F)
      BY <2>1, <2>3, <2>7, EnqueueStale
    <3>3. SameHold(b, Enqueue(b, s), i)
      BY <2>3, <3>1, EnqueueSameHold
    <3>4. DeskInv(Enqueue(b, s)) /\ KidsOwn(Enqueue(b, s))
      BY <2>3, <3>1, EnqueueInv, EnqueueOwn, NoKidsOwn
    <3> QED
      BY <2>4, <2>5, <2>7, <3>2, <3>3, <3>4 DEF Settling, Prepared
  <2>8. CASE Matches(g, s) /\ Prepared(b, g, i, F)
    <3>1. Prepared(b, Enqueue(g, s), i, F)
      BY <2>1, <2>3, <2>8, EnqueueArranged DEF Prepared
    <3> QED
      BY <2>4, <2>5, <2>8, <3>1 DEF Settling
  <2> QED
    BY <2>2, <2>6, <2>7, <2>8 DEF Settling
<1> HIDE DEF S
<1>4. \A k \in Nat : k \in S
  BY <1>2, <1>3, KidLoop!Induction
<1> QED
  BY <1>1, <1>4, Len(kids) \in Nat DEF S, KidRun

\* The drain that ends an answer about i leaves a desk on which all is settled.
LEMMA DrainSettles ==
  ASSUME NEW b, NEW i \in Ids, IdleBut(b, i), KidsOwn(b), NEW d, NEW F, Settling(b, d, i, F)
  PROVE  Prepared(b, Drain(d), i, F)
<1>1. CASE d = b /\ F = Decided(b, i)
  <2>1. Arranged(b, Drain(b), i, F)
    BY <1>1, DrainStale
  <2>2. SameHold(b, Drain(b), i)
    BY DrainSameHold
  <2>3. DeskInv(Drain(b)) /\ KidsOwn(Drain(b))
    BY DrainInv, DrainOwn DEF IdleBut
  <2> QED
    BY <1>1, <2>1, <2>2, <2>3 DEF Prepared
<1>2. CASE Prepared(b, d, i, F)
  <2> DEFINE e == Drain(d)
  <2>1. DeskInv(d) /\ KidsOwn(d) /\ Arranged(b, d, i, F) /\ SameHold(b, d, i)
    BY <1>2 DEF Prepared
  <2>2. DeskInv(e) /\ KidsOwn(e)
    BY <2>1, DrainInv, DrainOwn DEF DeskInv
  <2>3. e.live = d.live /\ Carried(e) = Carried(d) /\ \A k : SameLane(d, e, k)
    BY <2>1, DrainIdle
  <2> HIDE DEF e
  <2>4. SameHold(b, e, i)
    BY <2>1, <2>3 DEF SameHold
  <2>5. e.live[i] = b.live[i] /\ Flies(e, i) = F /\ Waits(e, i) = {}
    BY <2>1, <2>3 DEF Arranged, SameLane
  <2>6. ASSUME NEW j \in Ids \ {i} PROVE Turned(b, e, j)
    BY <2>1, <2>3, TurnedOn DEF Arranged
  <2> QED
    BY <2>2, <2>4, <2>5, <2>6 DEF Prepared, Arranged, e
<1> QED
  BY <1>1, <1>2 DEF Settling

\* An answer's item is idle, and is the only one whose save may wait for nothing.
LEMMA LandedIdle ==
  ASSUME OwnInv, NEW f \in flight, NEW d, Ready(d), d.queue = queue, d.busy = busy \ {f.save.id},
         d.flight = flight \ {f}
  PROVE  IdleBut(d, f.save.id) /\ KidsOwn(d)
<1>1. f.save \in Save /\ f.save.id \in Ids
  BY LandedReady DEF OwnInv, Save
<1>2. \A x \in Range(queue) : x.id \in busy
  BY DEF OwnInv, PipelineInv, DeskInv, Waiting, Desk, Range
<1>3. KidsOwn(d)
  BY LandedOwn DEF OwnInv
<1> QED
  BY <1>1, <1>2, <1>3 DEF IdleBut

\* What an Ok answer sends of its item: its dates edited meanwhile, or the save of them
\* that already waited.
LEMMA FollowedLanes ==
  ASSUME OwnInv, NEW f \in flight, NEW F,
         F = IF Matches(Desk, f.save) THEN Decided(Desk, f.save.id) ELSE {live[f.save.id]}
  PROVE  Settling(Landed(f), Followed(f), f.save.id, F)
<1> DEFINE s == f.save
           i == s.id
           b == Landed(f)
           u == FollowUp(live[i], s)
<1>1. /\ Ready(b) /\ b.live = live /\ b.queue = queue /\ b.busy = busy \ {i}
      /\ b.flight = flight \ {f} /\ s \in Save /\ i \in Ids /\ live[i] \in Dates
  BY LandedReady, PipelineFacts DEF OwnInv, Save
<1>2. IdleBut(b, i) /\ KidsOwn(b)
  BY <1>1, LandedIdle
<1>3. CASE Matches(Desk, s)
  <2>1. Decided(b, i) = Decided(Desk, i)
    BY <1>1 DEF Decided, Waits, Desk
  <2> QED
    BY <1>3, <2>1 DEF Followed, Settling
<1>4. CASE ~Matches(Desk, s)
  <2>1. /\ u \in Save /\ u.id = i /\ u.after = live[i] /\ u.kids = << >>
        /\ Followed(f) = Enqueue(b, u)
    BY <1>1, <1>4, FollowUpType DEF FollowUp, Followed
  <2> HIDE DEF u, b
  <2> DEFINE e == Enqueue(b, u)
  <2>2. /\ Matches(b, u) /\ \A x \in Range(b.queue) : x.id \in b.busy \/ x.id = u.id
        /\ u.id \notin b.busy
    BY <1>1, <1>2, <2>1 DEF Matches, IdleBut
  <2>3. /\ e.live = b.live /\ \A k : k # i => SameLane(b, e, k)
        /\ Flies(e, i) = {live[i]} /\ Waits(e, i) = {}
    BY <1>1, <2>1, <2>2, EnqueueLane
  <2>4. DeskInv(e) /\ KidsOwn(e)
    BY <1>1, <1>2, <2>1, EnqueueInv, EnqueueOwn, NoKidsOwn
  <2>5. SameHold(b, e, i)
    BY <1>1, <1>2, <2>1, <2>2, EnqueueSameHold
  <2> HIDE DEF e
  <2>6. ASSUME NEW j \in Ids \ {i} PROVE Turned(b, e, j)
    BY <2>3 DEF Turned, Spared
  <2>7. Arranged(b, e, i, F)
    BY <1>4, <2>3, <2>6 DEF Arranged
  <2> QED
    BY <2>1, <2>4, <2>5, <2>7 DEF Settling, Prepared, e, b
<1> QED
  BY <1>3, <1>4

\* The lane of j accepts what the Ok answer about another item does to it.
LEMMA TurnedLane ==
  ASSUME PipelineInv, PipelineInv', NEW j \in Ids, Turned(Desk, Desk', j),
         server'[j] = server[j], Stray(j)' <=> Stray(j) \/ Abandoned(j)
  PROVE  [Lane(j)!LaneNext]_(Lane(j)!laneVars)
<1>1. /\ j \in busy' <=> Flies(Desk', j) # {}
      /\ Stray(j) \in BOOLEAN /\ Stray(j)' \in BOOLEAN
  <2>1. InFlight(Desk') /\ Desk'.busy = busy'
    BY DEF PipelineInv, DeskInv, Ready, Desk
  <2> QED
    BY <2>1, BusyFlies, LaneParts
<1>2. CASE Sent(Desk, Desk', j)
  <2>1. j \in busy'
    BY <1>1, <1>2 DEF Sent
  <2>2. Stray(j)' = Stray(j)
    BY <1>1, <2>1 DEF Abandoned
  <2> QED
    BY <1>2, <2>2, LaneSubmits
<1>3. CASE Spared(Desk, Desk', j)
  <2>1. live'[j] = live[j] /\ (Held(j) => Held(j)') => Stray(j)' = Stray(j)
    BY <1>1 DEF Abandoned
  <2>2. j \notin busy' /\ ~Held(j)' /\ (Held(j) \/ live'[j] # live[j]) => Stray(j)'
    BY DEF Abandoned
  <2> QED
    BY <1>3, <2>1, <2>2, LaneSpared
<1>4. CASE TakenBack(Desk, Desk', j)
  BY <1>4, LaneTakenBack
<1> QED
  BY <1>2, <1>3, <1>4 DEF Turned

\* Taking the PATCH of i out of the air: the other lanes stay, and so do the shifts that
\* own i.
LEMMA LandedLanes ==
  ASSUME OwnInv, NEW f \in flight, NEW d, d.queue = queue, d.flight = flight \ {f}
  PROVE  /\ \A j : j # f.save.id => SameLane(Desk, d, j)
         /\ Waits(d, f.save.id) = Waits(Desk, f.save.id)
         /\ SameHold(Desk, d, f.save.id) /\ Carried(d) \subseteq Carried(Desk)
         /\ Flies(Desk, f.save.id) = {f.save.after}
         /\ \A n \in DOMAIN f.save.kids : f.save.kids[n].id # f.save.id
<1> DEFINE i == f.save.id
<1>1. Desk.queue = queue /\ Desk.flight = flight
  BY DEF Desk
<1>2. \A g, h \in flight : g.save.id = h.save.id => g = h
  BY <1>1 DEF OwnInv, PipelineInv, DeskInv, Ready, InFlight
<1>3. f.save \in Save /\ i \in Ids
  BY LandedReady DEF OwnInv, Save
<1>4. \A n \in DOMAIN f.save.kids : f.save.kids[n].id # i
  <2>1. Own(f.save)
    BY <1>1 DEF OwnInv, KidsOwn, Carried
  <2> QED
    BY <1>3, <2>1, LanesAssumption DEF Own
<1>5. \A j : Waits(d, j) = Waits(Desk, j)
  BY <1>1 DEF Waits
<1>6. ASSUME NEW j, j # i PROVE Flies(d, j) = Flies(Desk, j)
  <2>1. {x \in Sending(d) : x.id = j} = {x \in Sending(Desk) : x.id = j}
    BY <1>1, <1>6 DEF Sending
  <2> QED
    BY <2>1 DEF Flies, After
<1>7. Flies(Desk, i) = {f.save.after}
  <2>1. {x \in Sending(Desk) : x.id = i} = {f.save}
    BY <1>1, <1>2 DEF Sending
  <2> QED
    BY <2>1 DEF Flies, After
<1>8. Carried(d) \subseteq Carried(Desk)
  BY <1>1 DEF Carried
<1>9. \A x \in Carried(Desk) : x \in Carried(d) \/ x = f.save
  BY <1>1 DEF Carried
<1>10. SameHold(Desk, d, i)
  BY <1>4, <1>8, <1>9 DEF SameHold
<1> QED
  BY <1>4, <1>5, <1>6, <1>7, <1>8, <1>10 DEF SameLane

\* What an Ok answer leaves on the desk.
LEMMA OkSettles ==
  ASSUME OwnInv, NEW f \in flight, SaveOk(f), NEW F,
         F = IF Matches(Desk, f.save) THEN Decided(Desk, f.save.id) ELSE {live[f.save.id]}
  PROVE  Prepared(Landed(f), Desk', f.save.id, F)
<1> DEFINE s == f.save
           i == s.id
           b == Landed(f)
           e == Drain(Answered(f))
<1>1. /\ Ready(b) /\ b.queue = queue /\ b.busy = busy \ {i} /\ b.flight = flight \ {f}
      /\ i \in Ids /\ s.kids \in Seq(Kid)
  BY LandedReady DEF OwnInv, Save
<1>2. IdleBut(b, i) /\ KidsOwn(b)
  BY <1>1, LandedIdle
<1>3. \A n \in 1..Len(s.kids) : s.kids[n].id # i
  <2>1. DOMAIN s.kids = 1..Len(s.kids)
    BY <1>1
  <2> QED
    BY <1>1, <2>1, LandedLanes
<1>4. Settling(b, Followed(f), i, F)
  BY FollowedLanes
<1> HIDE DEF b
<1>5. Settling(b, Answered(f), i, F)
  BY <1>1, <1>2, <1>3, <1>4, MatchingLanes DEF Answered
<1>6. Prepared(b, e, i, F)
  BY <1>1, <1>2, <1>5, DrainSettles
<1>7. Becomes(e)
  BY DEF SaveOk, Answered, Followed
<1> HIDE DEF e
<1>8. Desk' = e
  BY <1>6, <1>7, NextDesk DEF Prepared, DeskInv, Ready
<1> QED
  BY <1>6, <1>8 DEF b

\* An Ok answer is an Ok of the lane of its item, and a step of every other lane.
LEMMA SaveOkLanes ==
  ASSUME OwnInv, PipelineInv', NEW f \in flight, SaveOk(f), NEW j \in Ids
  PROVE  [Lane(j)!LaneNext]_(Lane(j)!laneVars)
<1> DEFINE s == f.save
           i == s.id
           b == Landed(f)
           F == IF Matches(Desk, s) THEN Decided(Desk, i) ELSE {live[i]}
<1>1. /\ PipelineInv /\ b.live = live /\ b.queue = queue /\ b.busy = busy \ {i}
      /\ b.flight = flight \ {f} /\ i \in Ids /\ s.after \in Dates
  BY LandedReady DEF OwnInv, Save
<1>2. /\ server' = [server EXCEPT ![i] = s.after]
      /\ failed' = failed \ {i}
      /\ orphaned' = (orphaned \ {i}) \cup {k \in Ids : Abandoned(k)}
      /\ server \in [Ids -> Dates]
  BY <1>1 DEF SaveOk, PipelineInv, DateSavesTypes
<1>3. Prepared(b, Desk', i, F)
  BY OkSettles
<1>4. /\ \A k : k # i => SameLane(Desk, b, k)
      /\ SameHold(Desk, b, i) /\ Carried(b) \subseteq Carried(Desk)
      /\ Flies(Desk, i) = {s.after}
  BY <1>1, LandedLanes
<1>5. /\ live[j] \in Dates /\ Desk.live = live /\ Desk'.live = live'
      /\ Held(j) \in BOOLEAN /\ Held(j)' \in BOOLEAN
      /\ Held(j) <=> HeldAt(Desk, j)
      /\ Held(j)' <=> HeldAt(Desk', j)
  BY <1>1, LaneParts
<1> HIDE DEF b, F
<1>6. CASE j # i
  <2>1. Turned(b, Desk', j)
    BY <1>3, <1>6 DEF Prepared, Arranged
  <2>2. SameLane(Desk, b, j) /\ (HeldAt(b, j) => HeldAt(Desk, j))
    BY <1>1, <1>4, <1>5, <1>6 DEF HeldAt
  <2>3. Turned(Desk, Desk', j)
    BY <1>1, <1>5, <2>1, <2>2 DEF Turned, Sent, Spared, TakenBack, SameLane
  <2>4. server'[j] = server[j] /\ (Stray(j)' <=> Stray(j) \/ Abandoned(j))
    BY <1>2, <1>6 DEF Stray
  <2> QED
    BY <1>1, <2>3, <2>4, TurnedLane
<1>7. CASE j = i
  <2>1. live'[i] = live[i] /\ Flies(Desk', i) = F /\ Waits(Desk', i) = {}
    BY <1>1, <1>3, <1>5 DEF Prepared, Arranged
  <2>2. HeldAt(Desk, i) <=> HeldAt(Desk', i)
    <3>1. SameHold(b, Desk', i)
      BY <1>3 DEF Prepared
    <3>2. SameHold(Desk, Desk', i)
      BY <1>4, <3>1 DEF SameHold
    <3> QED
      BY <1>5, <2>1, <3>2, HoldSame
  <2>3. Held(i)' = Held(i) /\ ~Stray(i)'
    <3>1. Held(i)' = Held(i)
      BY <1>5, <1>7, <2>2
    <3>2. ~Abandoned(i)
      BY <2>1, <3>1 DEF Abandoned
    <3> QED
      BY <1>2, <3>1, <3>2 DEF Stray
  <2>4. /\ ShownAs(Flies(Desk, i), FlightOf(i)) /\ ShownAs(Waits(Desk, i), QueuedOf(i))
        /\ ShownAs(Flies(Desk', i), FlightOf(i)') /\ ShownAs(Waits(Desk', i), QueuedOf(i)')
    BY <1>1, LaneShown
  <2>5. FlightOf(i) = s.after /\ FlightOf(i) # None
    BY <1>1, <1>4, <2>4, ShownFacts, LanesAssumption
  <2>6. QueuedOf(i)' = None
    BY <2>1, <2>4, ShownFacts
  <2>7. Matches(Desk, s) <=> live[i] = s.after
    BY <1>5 DEF Matches
  <2>8. live[i] \in Waits(Desk, i) <=> QueuedOf(i) = live[i]
    <3>1. /\ Waits(Desk, i) = {} <=> QueuedOf(i) = None
          /\ QueuedOf(i) # None => Waits(Desk, i) = {QueuedOf(i)}
      BY <2>4, ShownFacts
    <3> QED
      BY <1>5, <1>7, <3>1, LanesAssumption
  <2>9. FlightOf(i)' = IF live[i] # FlightOf(i) \/ QueuedOf(i) = live[i] THEN live[i] ELSE None
    <3>1. F = IF live[i] # FlightOf(i) \/ QueuedOf(i) = live[i] THEN {live[i]} ELSE {}
      BY <1>5, <2>5, <2>7, <2>8 DEF F, Decided
    <3>2. /\ Flies(Desk', i) = {} <=> FlightOf(i)' = None
          /\ \A x \in Dates : Flies(Desk', i) = {x} => FlightOf(i)' = x
      BY <2>4, ShownFacts
    <3> QED
      BY <1>5, <1>7, <2>1, <3>1, <3>2
  <2>10. server'[i] = FlightOf(i)
    BY <1>1, <1>2, <2>5
  <2>11. Lane(i)!LaneOk
    BY <2>1, <2>3, <2>5, <2>6, <2>9, <2>10 DEF Lane!LaneOk, Stray
  <2>12. Lane(i)!LaneNext
    BY <2>11 DEF Lane!LaneNext
  <2> QED
    BY <1>7, <2>12
<1> QED
  BY <1>6, <1>7

\* What a failed save puts back on the desk: the dates of its item, if they are still
\* shown, and those of its descendants that a shift owned.
LEMMA UndoneLive ==
  ASSUME OwnInv, NEW f \in flight
  PROVE  LET d == Undone(f)
             i == f.save.id
         IN  /\ Ready(d) /\ d.queue = queue /\ d.busy = busy \ {i} /\ d.flight = flight \ {f}
             /\ ~Matches(Desk, f.save) => d.live[i] = live[i]
             /\ \A j \in Ids \ {i} : d.live[j] # live[j] => HeldAt(Desk, j)
<1> DEFINE s == f.save
           i == s.id
           d == Undone(f)
           r == RolledBack(f)
           x == RestoreKids(r, s.kids)
<1>1. /\ s \in Save /\ i \in Ids /\ s.kids \in Seq(Kid) /\ Landed(f).live = live
      /\ Desk.live = live /\ s \in Carried(Desk)
  BY LandedReady DEF OwnInv, Save, Desk, Carried
<1>2. /\ Ready(r) /\ r \in Desks /\ r.queue = queue /\ r.busy = busy \ {i} /\ r.flight = flight \ {f}
      /\ \A j \in Ids \ {i} : r.live[j] = live[j]
  BY RolledBackReady DEF OwnInv, Ready
<1>3. ~Matches(Desk, s) => r.live = live
  BY <1>1 DEF RolledBack
<1>4. \A n \in DOMAIN s.kids : s.kids[n].id # i
  <2>1. Own(s)
    BY <1>1 DEF OwnInv, KidsOwn
  <2> QED
    BY <1>1, <2>1, LanesAssumption DEF Own
<1>5. d = IF s.role = "Commit" THEN x ELSE r
  BY DEF Undone
<1>6. Ready(d)
  BY UndoneReady DEF OwnInv
<1> HIDE DEF r
<1>7. /\ x.queue = r.queue /\ x.busy = r.busy /\ x.flight = r.flight
      /\ \A j \in Ids : x.live[j] # r.live[j] =>
           \E n \in DOMAIN s.kids : s.kids[n].id = j /\ r.live[j] = s.kids[n].after
  BY <1>1, <1>2, RestoreKidsFields
<1> HIDE DEF d, x
<1>8. d.queue = queue /\ d.busy = busy \ {i} /\ d.flight = flight \ {f}
  BY <1>2, <1>5, <1>7
<1>9. ~Matches(Desk, s) => d.live[i] = live[i]
  BY <1>1, <1>3, <1>4, <1>5, <1>7
<1>10. ASSUME NEW j \in Ids \ {i}, d.live[j] # live[j] PROVE HeldAt(Desk, j)
  <2>1. d = x /\ r.live[j] = live[j]
    BY <1>2, <1>5, <1>10
  <2>2. \E n \in DOMAIN s.kids : s.kids[n].id = j /\ live[j] = s.kids[n].after
    BY <1>7, <1>10, <2>1
  <2> QED
    BY <1>1, <2>2 DEF HeldAt
<1> QED
  BY <1>6, <1>8, <1>9, <1>10 DEF d

\* A failed answer is a failure of the lane of its item, and a step of every other lane:
\* what it moves there a shift owned.
LEMMA SaveErrLanes ==
  ASSUME OwnInv, PipelineInv', NEW f \in flight, NEW applied \in BOOLEAN, SaveErr(f, applied),
         NEW j \in Ids
  PROVE  [Lane(j)!LaneNext]_(Lane(j)!laneVars)
<1> DEFINE s == f.save
           i == s.id
           d == Undone(f)
           e == Drain(d)
<1>1. /\ PipelineInv /\ i \in Ids /\ s.after \in Dates
  BY LandedReady DEF OwnInv, Save
<1>2. /\ Ready(d) /\ d.queue = queue /\ d.busy = busy \ {i} /\ d.flight = flight \ {f}
      /\ ~Matches(Desk, s) => d.live[i] = live[i]
      /\ \A k \in Ids \ {i} : d.live[k] # live[k] => HeldAt(Desk, k)
  BY UndoneLive
<1>3. /\ server' = [server EXCEPT ![i] = s.after] \/ server' = server
      /\ failed' = failed \cup {i} \cup {k \in Ids : live'[k] # live[k]}
      /\ orphaned' = orphaned \cup {k \in Ids : Abandoned(k)}
      /\ server \in [Ids -> Dates]
      /\ Becomes(e)
  BY <1>1 DEF SaveErr, Undone, PipelineInv, DateSavesTypes
<1> HIDE DEF d
<1>4. IdleBut(d, i) /\ KidsOwn(d)
  BY <1>2, LandedIdle
<1>5. /\ Arranged(d, e, i, Decided(d, i))
      /\ \A k \in Ids \ {i} : Spared(d, e, k)
  BY <1>1, <1>4, DrainStale
<1>6. DeskInv(e)
  BY <1>2, DrainInv
<1> HIDE DEF e
<1>7. Desk' = e
  BY <1>3, <1>6, NextDesk DEF DeskInv, Ready
<1>8. /\ \A k : k # i => SameLane(Desk, d, k)
      /\ Waits(d, i) = Waits(Desk, i) /\ Carried(d) \subseteq Carried(Desk)
      /\ Flies(Desk, i) = {s.after}
  BY <1>2, LandedLanes
<1>9. /\ live[j] \in Dates /\ live'[j] \in Dates /\ Desk.live = live /\ Desk'.live = live'
      /\ Held(j) \in BOOLEAN /\ Held(j)' \in BOOLEAN
      /\ Stray(j) \in BOOLEAN /\ Stray(j)' \in BOOLEAN
  BY <1>1, LaneParts
<1>10. CASE j # i
  <2>1. Spared(d, Desk', j) /\ SameLane(Desk, d, j)
    BY <1>5, <1>7, <1>8, <1>10
  <2>2. live'[j] = live[j] \/ HeldAt(Desk, j)
    <3>1. CASE d.live[j] # live[j]
      BY <1>2, <1>10, <3>1
    <3>2. CASE d.live[j] = live[j]
      <4>1. HeldAt(d, j) => HeldAt(Desk, j)
        BY <1>8, <1>9, <3>2 DEF HeldAt
      <4> QED
        BY <1>9, <2>1, <3>2, <4>1 DEF Spared
    <3> QED
      BY <3>1, <3>2
  <2>3. Spared(Desk, Desk', j)
    BY <1>9, <2>1, <2>2 DEF Spared, SameLane
  <2>4. server'[j] = server[j]
    BY <1>3, <1>10
  <2>5. Stray(j)' <=> Stray(j) \/ live'[j] # live[j] \/ Abandoned(j)
    BY <1>3, <1>10 DEF Stray
  <2>6. live'[j] = live[j] /\ (Held(j) => Held(j)') => Stray(j)' = Stray(j)
    BY <1>9, <2>5 DEF Abandoned
  <2>7. j \notin busy' /\ ~Held(j)' /\ (Held(j) \/ live'[j] # live[j]) => Stray(j)'
    BY <2>5 DEF Abandoned
  <2> QED
    BY <1>1, <2>3, <2>4, <2>5, <2>6, <2>7, LaneSpared
<1>11. CASE j = i
  <2>1. /\ live'[i] = d.live[i] /\ Flies(Desk', i) = Decided(d, i) /\ Waits(Desk', i) = {}
    BY <1>5, <1>7, <1>9 DEF Arranged
  <2>2. /\ ShownAs(Flies(Desk, i), FlightOf(i)) /\ ShownAs(Waits(Desk, i), QueuedOf(i))
        /\ ShownAs(Flies(Desk', i), FlightOf(i)') /\ ShownAs(Waits(Desk', i), QueuedOf(i)')
    BY <1>1, LaneShown
  <2>3. FlightOf(i) = s.after /\ FlightOf(i) # None
    BY <1>1, <1>8, <2>2, ShownFacts, LanesAssumption
  <2>4. QueuedOf(i)' = None
    BY <2>1, <2>2, ShownFacts
  <2>5. live'[i] = IF live[i] = FlightOf(i) THEN live'[i] ELSE live[i]
    BY <1>2, <1>9, <2>1, <2>3 DEF Matches
  <2>6. live'[i] \in Waits(Desk, i) <=> QueuedOf(i) # None /\ QueuedOf(i) = live'[i]
    <3>1. /\ Waits(Desk, i) = {} <=> QueuedOf(i) = None
          /\ QueuedOf(i) # None => Waits(Desk, i) = {QueuedOf(i)}
      BY <2>2, ShownFacts
    <3> QED
      BY <3>1
  <2>7. FlightOf(i)' = IF QueuedOf(i) # None /\ QueuedOf(i) = live'[i] THEN QueuedOf(i) ELSE None
    <3>1. Flies(Desk', i) = IF live'[i] \in Waits(Desk, i) THEN {live'[i]} ELSE {}
      BY <1>8, <2>1 DEF Decided
    <3>2. /\ Flies(Desk', i) = {} <=> FlightOf(i)' = None
          /\ \A x \in Dates : Flies(Desk', i) = {x} => FlightOf(i)' = x
      BY <2>2, ShownFacts
    <3> QED
      BY <1>9, <1>11, <2>6, <3>1, <3>2
  <2>8. server'[i] \in {server[i], FlightOf(i)} /\ Stray(i)'
    BY <1>1, <1>3, <2>3 DEF Stray
  <2>9. Lane(i)!LaneErr(live'[i])
    BY <1>9, <1>11, <2>3, <2>4, <2>5, <2>7, <2>8 DEF Lane!LaneErr, Stray
  <2>10. Lane(i)!LaneNext
    BY <1>9, <1>11, <2>9 DEF Lane!LaneNext
  <2> QED
    BY <1>11, <2>10
<1> QED
  BY <1>10, <1>11

\* A toast that goes, or nothing, leaves every lane as it is.
LEMMA IdleLanes ==
  ASSUME ToastGone \/ UNCHANGED vars, NEW j
  PROVE  UNCHANGED Lane(j)!laneVars
<1>1. /\ live' = live /\ queue' = queue /\ flight' = flight /\ server' = server
      /\ failed' = failed /\ orphaned' = orphaned
  BY DEF ToastGone, vars, pipeline, history, marks
<1>2. FlightOf(j)' = FlightOf(j) /\ Held(j)' = Held(j)
  BY <1>1 DEF FlightOf, Held
<1>3. QueuedOf(j)' = QueuedOf(j)
  BY <1>1 DEF QueuedOf, SelectLastInSeq
<1> QED
  BY <1>1, <1>2, <1>3 DEF Lane!laneVars

\* A step of the planner is a step, or a stutter, of every lane.
LEMMA LanesStep ==
  ASSUME OwnInv, [Next]_vars, NEW j \in Ids
  PROVE  [Lane(j)!LaneNext]_(Lane(j)!laneVars)
<1>1. PipelineInv /\ PipelineInv'
  BY PipelineInvStep DEF OwnInv
<1>2. ASSUME server' = server, failed' = failed, orphaned' = orphaned,
             \A k \in Ids : UserTurn(Desk, Desk', k)
      PROVE  [Lane(j)!LaneNext]_(Lane(j)!laneVars)
  BY <1>1, <1>2, UserLane
<1>3. ASSUME NEW i \in Ids, NEW d \in Dates, CommitDates(i, d) \/ ShiftDrag(i, d)
      PROVE  [Lane(j)!LaneNext]_(Lane(j)!laneVars)
  <2>1. \A k \in Ids : UserTurn(Desk, Desk', k)
    BY <1>3, CommitDatesAgrees, ShiftDragAgrees
  <2>2. server' = server /\ failed' = failed /\ orphaned' = orphaned
    BY <1>3 DEF CommitDates, ShiftDrag, marks
  <2> QED
    BY <1>2, <2>1, <2>2
<1>4. CASE MoveChildrenToo
  <2>1. \A k \in Ids : UserTurn(Desk, Desk', k)
    BY <1>4, MoveChildrenAgrees
  <2>2. server' = server /\ failed' = failed /\ orphaned' = orphaned
    BY <1>4 DEF MoveChildrenToo
  <2> QED
    BY <1>2, <2>1, <2>2
<1>5. CASE UndoLast \/ RedoLast \/ ToastUndo
  <2>1. \A k \in Ids : UserTurn(Desk, Desk', k)
    BY <1>5, ReplaysAgree
  <2>2. server' = server /\ failed' = failed /\ orphaned' = orphaned
    BY <1>5 DEF UndoLast, RedoLast, ToastUndo, marks
  <2> QED
    BY <1>2, <2>1, <2>2
<1>6. ASSUME NEW f \in flight, Answer(f) PROVE [Lane(j)!LaneNext]_(Lane(j)!laneVars)
  BY <1>1, <1>6, SaveOkLanes, SaveErrLanes DEF Answer
<1>7. CASE ToastGone \/ UNCHANGED vars
  BY <1>7, IdleLanes
<1> QED
  BY <1>3, <1>4, <1>5, <1>6, <1>7 DEF Next, UserStep

\* A loaded planner has idle lanes.
LEMMA LanesInit ==
  ASSUME Init, NEW j \in Ids
  PROVE  Lane(j)!LaneInit
<1>1. /\ live \in [Ids -> Dates] /\ server = live /\ queue = << >> /\ flight = {}
      /\ failed = {} /\ orphaned = {}
  BY DEF Init
<1>2. FlightOf(j) = None /\ QueuedOf(j) = None /\ Held(j) = FALSE
  BY <1>1 DEF FlightOf, QueuedOf, Held, Range
<1> QED
  BY <1>1, <1>2 DEF Lane!LaneInit

\* DateSaves implements a DateLane per Work Item: whatever saves of other items,
\* cascades, undo groups, follow-ups, rollbacks and dropped shifts do in a turn of the
\* UI thread, each item sees one step of its lane or none (drain_date_saves,
\* spawn_one_date_save).
THEOREM SavesImplementLanes == Spec => ImplementsLanes
<1>1. Init => OwnInv /\ \A i \in Ids : Lane(i)!LaneInit
  BY AgreeInvInit, LanesInit DEF AgreeInv
<1>2. OwnInv /\ [Next]_vars =>
        OwnInv' /\ [\A i \in Ids : [Lane(i)!LaneNext]_(Lane(i)!laneVars)]_vars
  BY OwnInvStep, LanesStep
<1> QED
  BY <1>1, <1>2, PTL DEF Spec, ImplementsLanes

-----------------------------------------------------------------------------
(***************************************************************************)
(* The history: every stack is a chain of dates of each item.              *)
(***************************************************************************)
\* An entry takes item i from dates x to dates y: by the one change of it the
\* entry has, or by none when they are the same.
Takes(e, i, x, y) ==
  IF Involves(e, i)
    THEN \E k \in DOMAIN e : /\ e[k].id = i /\ e[k].before = x /\ e[k].after = y
                             /\ \A m \in DOMAIN e : e[m].id = i => m = k
    ELSE x = y

\* A step up a stack: the entries of undo are taken as they were made, those of
\* redo against it.
Links(e, i, x, y, side) == IF side = "undo" THEN Takes(e, i, x, y) ELSE Takes(e, i, y, x)

\* The entries of stack q lead item i through the dates v[0], v[1], ... to y
Traces(v, q, i, y, side) ==
  v[Len(q)] = y /\ \A n \in 1..Len(q) : Links(q[n], i, v[n - 1], v[n], side)

Traced(q, i, y, side) == \E v : Traces(v, q, i, y, side)

\* Both stacks lead item i to dates x.
Chained(u, r, i, x) == Traced(u, i, x, "undo") /\ Traced(r, i, x, "redo")

\* An empty stack leads anywhere
LEMMA TracedEmpty == \A i, y, side : Traced(<< >>, i, y, side)
<1> SUFFICES ASSUME NEW i, NEW y, NEW side PROVE Traced(<< >>, i, y, side)
  OBVIOUS
<1> DEFINE v == [n \in {0} |-> y]
<1>1. Traces(v, << >>, i, y, side)
  BY DEF Traces
<1> QED
  BY <1>1 DEF Traced

\* Pushing an entry goes on from where the stack led (EditHistory::push)
LEMMA TracedPush ==
  ASSUME NEW q \in Seq(Entries), NEW e \in Entries, NEW i, NEW x, NEW y, NEW side,
         Traced(q, i, x, side), Links(e, i, x, y, side)
  PROVE  Traced(Append(q, e), i, y, side)
<1>1. PICK v : Traces(v, q, i, x, side)
  BY DEF Traced
<1> DEFINE len == Len(q)
           w == [n \in 0..(len + 1) |-> IF n <= len THEN v[n] ELSE y]
           p == Append(q, e)
<1>2. len \in Nat /\ Len(p) = len + 1 /\ p[len + 1] = e /\ \A n \in 1..len : p[n] = q[n]
  OBVIOUS
<1>3. v[len] = x /\ \A n \in 1..len : Links(q[n], i, v[n - 1], v[n], side)
  BY <1>1 DEF Traces
<1> HIDE DEF len, p
<1>4. w[len + 1] = y /\ \A n \in 0..len : w[n] = v[n]
  BY <1>2
<1> HIDE DEF w
<1>5. ASSUME NEW n \in 1..(len + 1) PROVE Links(p[n], i, w[n - 1], w[n], side)
  <2>1. CASE n = len + 1
    <3>1. n - 1 = len /\ w[n - 1] = x /\ w[n] = y /\ p[n] = e
      BY <1>2, <1>3, <1>4, <2>1
    <3> QED
      BY <3>1
  <2>2. CASE n \in 1..len
    <3>1. n - 1 \in 0..len /\ n \in 0..len
      BY <1>2, <2>2
    <3>2. p[n] = q[n] /\ w[n - 1] = v[n - 1] /\ w[n] = v[n]
      BY <1>2, <1>4, <2>2, <3>1
    <3> QED
      BY <1>3, <2>2, <3>2
  <2> QED
    BY <1>2, <2>1, <2>2
<1>6. Traces(w, p, i, y, side)
  BY <1>2, <1>4, <1>5 DEF Traces
<1> QED
  BY <1>6 DEF Traced, p

\* Taking the newest entry off goes back by it
LEMMA TracedPop ==
  ASSUME NEW q \in Seq(Entries), q # << >>, NEW i, NEW y, NEW side, Traced(q, i, y, side)
  PROVE  \E x : Links(Last(q), i, x, y, side) /\ Traced(Front(q), i, x, side)
<1>1. PICK v : Traces(v, q, i, y, side)
  BY DEF Traced
<1> DEFINE len == Len(q)
           p == Front(q)
<1>2. /\ len \in Nat /\ len > 0 /\ len \in 1..len /\ len - 1 \in Nat
      /\ Len(p) = len - 1 /\ \A n \in 1..(len - 1) : p[n] = q[n]
  BY FrontLast
<1>3. Last(q) = q[len]
  BY DEF Last
<1>4. v[len] = y /\ \A n \in 1..len : Links(q[n], i, v[n - 1], v[n], side)
  BY <1>1 DEF Traces
<1> HIDE DEF len, p
<1>5. Links(Last(q), i, v[len - 1], y, side)
  BY <1>2, <1>3, <1>4
<1>6. \A n \in 1..(len - 1) : Links(p[n], i, v[n - 1], v[n], side)
  <2> TAKE n \in 1..(len - 1)
  <2>1. n \in 1..len /\ p[n] = q[n]
    BY <1>2
  <2> QED
    BY <1>4, <2>1
<1>7. Traces(v, p, i, v[len - 1], side)
  BY <1>2, <1>6 DEF Traces
<1>8. Traced(p, i, v[len - 1], side)
  BY <1>7 DEF Traced
<1> QED
  BY <1>5, <1>8 DEF p

\* Dropping an entry that does not touch an item leaves its chain whole
\* (discard_history_for_undo)
LEMMA TracedDrop ==
  ASSUME NEW q \in Seq(Entries), NEW m \in 1..Len(q), NEW i, NEW y, NEW side,
         ~Involves(q[m], i), Traced(q, i, y, side)
  PROVE  Traced(RemoveAt(q, m), i, y, side)
<1>1. PICK v : Traces(v, q, i, y, side)
  BY DEF Traced
<1> DEFINE len == Len(q)
           p == RemoveAt(q, m)
           w == [n \in 0..(len - 1) |-> IF n < m THEN v[n] ELSE v[n + 1]]
<1>2. /\ len \in Nat /\ m \in 1..len /\ m \in Int /\ Len(p) = len - 1
      /\ \A n \in 1..(len - 1) : p[n] = IF n < m THEN q[n] ELSE q[n + 1]
  BY RemoveAtFields
<1>3. v[len] = y /\ \A n \in 1..len : Links(q[n], i, v[n - 1], v[n], side)
  BY <1>1 DEF Traces
<1> HIDE DEF len, p
<1>4. v[m - 1] = v[m]
  BY <1>2, <1>3 DEF Links, Takes
<1>5. \A n \in 0..(len - 1) : w[n] = IF n < m THEN v[n] ELSE v[n + 1]
  OBVIOUS
<1> HIDE DEF w
<1>6. w[len - 1] = y
  <2>1. CASE m = len
    BY <1>2, <1>3, <1>4, <1>5, <2>1
  <2>2. CASE m < len
    BY <1>2, <1>3, <1>5, <2>2
  <2> QED
    BY <1>2, <2>1, <2>2
<1>7. ASSUME NEW n \in 1..(len - 1) PROVE Links(p[n], i, w[n - 1], w[n], side)
  <2>1. n \in Int /\ n - 1 \in 0..(len - 1) /\ n \in 0..(len - 1) /\ n \in 1..len /\ n + 1 \in 1..len
    BY <1>2
  <2>2. CASE n < m
    <3>1. p[n] = q[n] /\ w[n] = v[n] /\ w[n - 1] = v[n - 1]
      BY <1>2, <1>5, <2>1, <2>2
    <3> QED
      BY <1>3, <2>1, <3>1
  <2>3. CASE ~(n < m)
    <3>1. p[n] = q[n + 1] /\ w[n] = v[n + 1]
      BY <1>2, <1>5, <2>1, <2>3
    <3>2. w[n - 1] = v[n]
      <4>1. CASE n = m
        BY <1>2, <1>4, <1>5, <2>1, <4>1
      <4>2. CASE n - 1 >= m
        <5>1. (n - 1) + 1 = n /\ ~(n - 1 < m)
          BY <1>2, <2>1, <4>2
        <5> QED
          BY <1>5, <2>1, <5>1
      <4> QED
        BY <1>2, <2>1, <2>3, <4>1, <4>2
    <3>3. (n + 1) - 1 = n
      BY <2>1
    <3>4. Links(q[n + 1], i, v[(n + 1) - 1], v[n + 1], side)
      BY <1>3, <2>1
    <3> QED
      BY <3>1, <3>2, <3>3, <3>4
  <2> QED
    BY <2>2, <2>3
<1>8. Traces(w, p, i, y, side)
  BY <1>2, <1>6, <1>7 DEF Traces
<1> QED
  BY <1>8 DEF Traced, p

\* So does dropping the oldest entries (EditHistory::push)
LEMMA TracedNewest ==
  ASSUME NEW q \in Seq(Entries), NEW i, NEW y, NEW side, Traced(q, i, y, side)
  PROVE  Traced(Newest(q), i, y, side)
<1>1. PICK v : Traces(v, q, i, y, side)
  BY DEF Traced
<1> DEFINE len == Len(q)
           p == Newest(q)
<1>2. len \in Nat
  OBVIOUS
<1>3. PICK k \in 0..len : Len(p) = len - k /\ \A n \in 1..(len - k) : p[n] = q[n + k]
  BY NewestFields
<1>4. v[len] = y /\ \A n \in 1..len : Links(q[n], i, v[n - 1], v[n], side)
  BY <1>1 DEF Traces
<1> HIDE DEF len, p
<1> DEFINE w == [n \in 0..(len - k) |-> v[n + k]]
<1>5. w[len - k] = y /\ \A n \in 0..(len - k) : w[n] = v[n + k]
  BY <1>2, <1>3, <1>4
<1> HIDE DEF w
<1>6. ASSUME NEW n \in 1..(len - k) PROVE Links(p[n], i, w[n - 1], w[n], side)
  <2>1. /\ n + k \in 1..len /\ n - 1 \in 0..(len - k) /\ n \in 0..(len - k)
        /\ (n - 1) + k = (n + k) - 1
    BY <1>2, <1>3
  <2>2. p[n] = q[n + k] /\ w[n - 1] = v[(n + k) - 1] /\ w[n] = v[n + k]
    BY <1>3, <1>5, <2>1
  <2> QED
    BY <1>4, <2>1, <2>2
<1>7. Traces(w, p, i, y, side)
  BY <1>3, <1>5, <1>6 DEF Traces
<1> QED
  BY <1>7 DEF Traced, p

\* The last position of a search
LEMMA LastFound ==
  ASSUME NEW n \in Nat, NEW I \in SUBSET (1..n), I # {}
  PROVE  Max(I) \in I /\ \A y \in I : y <= Max(I)
<1>1. PICK x \in I : \A y \in I : y <= x
  BY MoveLoop!LastExists
<1>2. \A y \in I : x >= y
  BY <1>1
<1>3. Max(I) \in I /\ \A y \in I : Max(I) >= y
  BY <1>2 DEF Max
<1> QED
  BY <1>3

\* The newest change of an item is where its chain ends.
LEMMA TracedLatest ==
  ASSUME NEW q \in Seq(Entries), NEW i, NEW y, NEW side, Traced(q, i, y, side), Recorded(q, i)
  PROVE  IF side = "undo" THEN Latest(q, i).after = y ELSE Latest(q, i).before = y
<1>1. PICK v : Traces(v, q, i, y, side)
  BY DEF Traced
<1> DEFINE len == Len(q)
           I == {n \in 1..len : Involves(q[n], i)}
           m == Max(I)
           J == {k \in 1..Len(q[m]) : q[m][k].id = i}
<1>2. len \in Nat /\ DOMAIN q = 1..len
  OBVIOUS
<1>3. v[len] = y /\ \A n \in 1..len : Links(q[n], i, v[n - 1], v[n], side)
  BY <1>1 DEF Traces
<1>4. I # {} /\ m \in I /\ \A n \in I : n <= m
  BY <1>2, LastFound DEF Recorded
<1>5. m \in 1..len /\ Involves(q[m], i)
  BY <1>4
<1>6. \A n \in 1..len : n > m => v[n] = v[n - 1]
  <2> SUFFICES ASSUME NEW n \in 1..len, n > m PROVE v[n] = v[n - 1]
    OBVIOUS
  <2>1. ~Involves(q[n], i)
    BY <1>4, <1>5
  <2> QED
    BY <1>3, <2>1 DEF Links, Takes
<1>7. q[m] \in Seq(Change)
  BY <1>2, <1>5 DEF Entries
<1>8. Len(q[m]) \in Nat /\ DOMAIN q[m] = 1..Len(q[m])
  BY <1>7
<1>9. Latest(q, i) = q[m][SelectLastInSeq(q[m], LAMBDA ch : ch.id = i)]
  BY <1>4 DEF Latest, SelectLastInSeq
<1>10. J # {} /\ SelectLastInSeq(q[m], LAMBDA ch : ch.id = i) = Max(J)
  BY <1>5, <1>8 DEF Involves, SelectLastInSeq
<1>11. Max(J) \in J
  BY <1>8, <1>10, LastFound
<1> HIDE DEF len, I, m
<1>12. v[m] = y
  <2> DEFINE S == {k \in Nat : k <= len - m => v[m + k] = v[m]}
  <2>1. 0 \in S
    BY <1>2, <1>5
  <2>2. ASSUME NEW k \in Nat, k \in S PROVE k + 1 \in S
    <3> SUFFICES ASSUME k + 1 <= len - m PROVE v[m + (k + 1)] = v[m]
      OBVIOUS
    <3>1. /\ m + (k + 1) \in 1..len /\ m + (k + 1) > m /\ (m + (k + 1)) - 1 = m + k
          /\ k <= len - m
      BY <1>2, <1>5
    <3>2. v[m + k] = v[m]
      BY <2>2, <3>1
    <3> QED
      BY <1>6, <3>1, <3>2
  <2> HIDE DEF S
  <2>3. \A k \in Nat : k \in S
    BY <2>1, <2>2, MoveLoop!Induction
  <2>4. len - m \in Nat /\ m + (len - m) = len
    BY <1>2, <1>5
  <2> QED
    BY <1>3, <2>3, <2>4 DEF S
<1>13. Links(q[m], i, v[m - 1], y, side)
  BY <1>3, <1>5, <1>12
<1> DEFINE e == q[m]
           l == Max(J)
<1>14. e[l].id = i /\ l \in DOMAIN e
  BY <1>8, <1>11
<1> HIDE DEF J
<1>15. Latest(q, i) = e[l]
  BY <1>9, <1>10
<1> HIDE DEF e, l
<1>16. Links(e, i, v[m - 1], y, side) /\ Involves(e, i)
  BY <1>5, <1>13 DEF e
<1> QED
  BY <1>14, <1>15, <1>16 DEF Links, Takes

\* An entry of one change
LEMMA TakesOne ==
  ASSUME NEW i, NEW a, NEW b
  PROVE  LET e == <<[id |-> i, before |-> a, after |-> b]>>
         IN  /\ Takes(e, i, a, b) /\ \A j : j # i => ~Involves(e, j)
             /\ \A j, x : j # i => Takes(e, j, x, x)
<1> DEFINE c == [id |-> i, before |-> a, after |-> b]
           e == <<c>>
<1>1. c.id = i /\ c.before = a /\ c.after = b
  OBVIOUS
<1> HIDE DEF c
<1>2. DOMAIN e = {1} /\ e[1] = c
  OBVIOUS
<1> HIDE DEF e
<1>3. Involves(e, i) /\ \A j : j # i => ~Involves(e, j)
  BY <1>1, <1>2 DEF Involves
<1>4. Takes(e, i, a, b) /\ \A j, x : j # i => Takes(e, j, x, x)
  BY <1>1, <1>2, <1>3 DEF Takes
<1> QED
  BY <1>3, <1>4 DEF e, c

\* The entry of the descendants of a shift takes each from where it was to where it
\* is moved (shift_descendants_now).
LEMMA KidsTake ==
  ASSUME NEW l \in [Ids -> Dates], NEW kids \in Seq(Kid),
         \A m, n \in DOMAIN kids : kids[m].id = kids[n].id => m = n,
         \A n \in DOMAIN kids : kids[n].prev = l[kids[n].id]
  PROVE  /\ \A j : Involves(ChangesOf(kids), j) <=> \E n \in DOMAIN kids : kids[n].id = j
         /\ \A j \in Ids : Takes(ChangesOf(kids), j, l[j], Moved(l, kids)[j])
<1> DEFINE len == Len(kids)
           c == ChangesOf(kids)
           r == Moved(l, kids)
<1>1. len \in Nat /\ DOMAIN kids = 1..len
  OBVIOUS
<1>2. \A n \in 1..len : kids[n].id \in Ids /\ kids[n].after \in Dates
  <2>1. \A n \in 1..len : kids[n] \in Kid
    BY <1>1
  <2> QED
    BY <2>1 DEF Kid
<1>3. /\ DOMAIN c = 1..len
      /\ \A n \in 1..len : /\ c[n].id = kids[n].id /\ c[n].before = kids[n].prev
                           /\ c[n].after = kids[n].after
  BY <1>1 DEF ChangesOf
<1> HIDE DEF len, c
<1>4. /\ \A j \in Ids : \A k \in 1..len : LastMove(kids, len, j, k) => r[j] = kids[k].after
      /\ \A j \in Ids : (\A k \in 1..len : kids[k].id # j) => r[j] = l[j]
  BY <1>1, <1>2, MovedResult
<1> HIDE DEF r
<1>5. \A j : Involves(c, j) <=> \E n \in DOMAIN kids : kids[n].id = j
  BY <1>1, <1>3 DEF Involves
<1>6. ASSUME NEW j \in Ids PROVE Takes(c, j, l[j], r[j])
  <2>1. ASSUME NEW n \in 1..len, kids[n].id = j PROVE Takes(c, j, l[j], r[j])
    <3>1. \A m \in 1..len : kids[m].id = j => m = n
      BY <1>1, <2>1
    <3>2. LastMove(kids, len, j, n)
      <4>1. \A m \in (n + 1)..len : m \in 1..len /\ m # n
        BY <1>1
      <4> QED
        BY <2>1, <3>1, <4>1 DEF LastMove
    <3>3. c[n].id = j /\ c[n].before = l[j] /\ c[n].after = r[j]
      BY <1>1, <1>3, <1>4, <2>1, <3>2
    <3>4. \A m \in DOMAIN c : c[m].id = j => m = n
      BY <1>3, <3>1
    <3>5. n \in DOMAIN c /\ Involves(c, j)
      BY <1>3, <3>3 DEF Involves
    <3> QED
      BY <3>3, <3>4, <3>5 DEF Takes
  <2>2. CASE \A n \in 1..len : kids[n].id # j
    <3>1. ~Involves(c, j) /\ r[j] = l[j]
      BY <1>1, <1>4, <1>5, <2>2
    <3> QED
      BY <3>1 DEF Takes
  <2> QED
    BY <2>1, <2>2
<1> QED
  BY <1>5, <1>6 DEF c, r

\* One entry folded behind another takes an item as far as both do, when only one
\* of them has it.
LEMMA TakesJoin ==
  ASSUME NEW a \in Seq(Change), NEW b \in Seq(Change), NEW j, NEW x, NEW y, NEW z,
         Takes(a, j, x, y), Takes(b, j, y, z), ~(Involves(a, j) /\ Involves(b, j))
  PROVE  Takes(a \o b, j, x, z)
<1> DEFINE c == a \o b
           k == Len(a)
           l == Len(b)
<1>1. /\ k \in Nat /\ l \in Nat /\ DOMAIN a = 1..k /\ DOMAIN b = 1..l /\ DOMAIN c = 1..(k + l)
      /\ \A n \in 1..k : c[n] = a[n]
      /\ \A n \in 1..l : c[k + n] = b[n]
  BY Concatenation
<1> HIDE DEF c, k, l
<1>2. \A n \in 1..(k + l) : n \in 1..k \/ (n - k \in 1..l /\ k + (n - k) = n)
  BY <1>1
<1>3. \A n \in 1..k : n \in 1..(k + l)
  BY <1>1
<1>4. \A n \in 1..l : k + n \in 1..(k + l)
  BY <1>1
<1>5. CASE Involves(a, j)
  <2>1. ~Involves(b, j) /\ y = z
    BY <1>5 DEF Takes
  <2>2. PICK n \in 1..k : /\ a[n].id = j /\ a[n].before = x /\ a[n].after = y
                          /\ \A m \in 1..k : a[m].id = j => m = n
    BY <1>1, <1>5 DEF Takes
  <2>3. \A m \in 1..(k + l) : c[m].id = j => m = n
    <3> TAKE m \in 1..(k + l)
    <3>1. CASE m \in 1..k
      BY <1>1, <2>2, <3>1
    <3>2. CASE m - k \in 1..l /\ k + (m - k) = m
      <4>1. c[m] = b[m - k]
        BY <1>1, <3>2
      <4>2. b[m - k].id # j
        BY <1>1, <2>1, <3>2 DEF Involves
      <4> QED
        BY <4>1, <4>2
    <3> QED
      BY <1>2, <3>1, <3>2
  <2>4. n \in DOMAIN c /\ c[n].id = j /\ c[n].before = x /\ c[n].after = z
    BY <1>1, <1>3, <2>1, <2>2
  <2> QED
    BY <1>1, <2>3, <2>4 DEF Takes, Involves, c
<1>6. CASE ~Involves(a, j) /\ Involves(b, j)
  <2>1. x = y
    BY <1>6 DEF Takes
  <2>2. PICK n \in 1..l : /\ b[n].id = j /\ b[n].before = y /\ b[n].after = z
                          /\ \A m \in 1..l : b[m].id = j => m = n
    BY <1>1, <1>6 DEF Takes
  <2>3. \A m \in 1..(k + l) : c[m].id = j => m = k + n
    <3> TAKE m \in 1..(k + l)
    <3>1. CASE m \in 1..k
      BY <1>1, <1>6, <3>1 DEF Involves
    <3>2. CASE m - k \in 1..l /\ k + (m - k) = m
      <4>1. c[m] = b[m - k]
        BY <1>1, <3>2
      <4> QED
        BY <2>2, <3>2, <4>1
    <3> QED
      BY <1>2, <3>1, <3>2
  <2>4. k + n \in DOMAIN c /\ c[k + n].id = j /\ c[k + n].before = x /\ c[k + n].after = z
    BY <1>1, <1>4, <2>1, <2>2
  <2> QED
    BY <1>1, <2>3, <2>4 DEF Takes, Involves, c
<1>7. CASE ~Involves(a, j) /\ ~Involves(b, j)
  <2>1. x = y /\ y = z
    BY <1>7 DEF Takes
  <2>2. \A m \in 1..(k + l) : c[m].id # j
    <3> TAKE m \in 1..(k + l)
    <3>1. CASE m \in 1..k
      BY <1>1, <1>7, <3>1 DEF Involves
    <3>2. CASE m - k \in 1..l /\ k + (m - k) = m
      BY <1>1, <1>7, <3>2 DEF Involves
    <3> QED
      BY <1>2, <3>1, <3>2
  <2>3. ~Involves(c, j)
    BY <1>1, <2>2 DEF Involves
  <2> QED
    BY <2>1, <2>3 DEF Takes, c
<1> QED
  BY <1>5, <1>6, <1>7

\* Putting back the dates before an entry, or those after it, takes an item where
\* the entry came from, or where it led (undo_date_stack_now, redo_date_stack_now).
LEMMA GroupTakes ==
  ASSUME NEW e \in Entries, NEW j \in Ids, NEW x, NEW y, Takes(e, j, x, y)
  PROVE  /\ Shows(Befores(e), j) /\ live[j] = y => live'[j] = x
         /\ Shows(Afters(e), j) /\ live[j] = x => live'[j] = y
<1> DEFINE len == Len(e)
<1>1. e \in Seq(Change) /\ len \in Nat /\ DOMAIN e = 1..len
  BY DEF Entries
<1>2. ASSUME NEW g \in {Befores(e), Afters(e)}
      PROVE  Len(g) = len /\ \A n \in 1..len : g[n].id = e[n].id
  <2>1. DOMAIN g = 1..len /\ \A n \in 1..len : g[n].id = e[n].id
    BY <1>1 DEF Befores, Afters
  <2>2. g \in Seq(UNION {{g[n]} : n \in 1..len})
    <3>1. g = [n \in 1..len |-> g[n]]
      BY <1>1 DEF Befores, Afters
    <3> QED
      BY <1>1, <3>1, FnIsSeq
  <2> QED
    BY <1>1, <2>1, <2>2
<1>3. \A n \in 1..len : Befores(e)[n].after = e[n].before /\ Afters(e)[n].after = e[n].after
  BY <1>1 DEF Befores, Afters
<1> HIDE DEF len
<1>4. ASSUME NEW k \in 1..len, e[k].id = j, \A m \in 1..len : e[m].id = j => m = k
      PROVE  /\ Shows(Befores(e), j) => live'[j] = e[k].before
             /\ Shows(Afters(e), j) => live'[j] = e[k].after
  <2>1. \A m \in (k + 1)..len : m \in 1..len /\ m # k
    BY <1>1
  <2>2. ASSUME NEW g \in {Befores(e), Afters(e)} PROVE LastMove(g, Len(g), j, k)
    BY <1>2, <1>4, <2>1 DEF LastMove
  <2>3. ASSUME NEW g \in {Befores(e), Afters(e)}, Shows(g, j) PROVE live'[j] = g[k].after
    <3>1. k \in 1..Len(g)
      BY <1>2
    <3> QED
      BY <2>2, <2>3, <3>1 DEF Shows
  <2> QED
    BY <1>3, <2>3
<1>5. CASE Involves(e, j)
  BY <1>1, <1>4, <1>5 DEF Takes
<1>6. CASE ~Involves(e, j)
  <2>1. x = y /\ \A n \in 1..len : e[n].id # j
    BY <1>1, <1>6 DEF Takes, Involves
  <2>2. ASSUME NEW g \in {Befores(e), Afters(e)}, Shows(g, j) PROVE live'[j] = live[j]
    BY <1>2, <2>1, <2>2 DEF Shows
  <2> QED
    BY <2>1, <2>2
<1> QED
  BY <1>5, <1>6

\* Both stacks lead item j to the dates it shows.
OnChain(j) == Chained(undo, redo, j, live[j])

\* A new entry goes on from what is shown (record)
LEMMA RecordChains ==
  ASSUME PipelineInv, NEW e \in Entries, Record(e), NEW j,
         OnChain(j), Takes(e, j, live[j], live'[j])
  PROVE  OnChain(j)'
<1>1. undo \in Seq(Entries) /\ undo' = Newest(Append(undo, e)) /\ redo' = << >>
  BY DEF PipelineInv, DateSavesTypes, Record
<1>2. Links(e, j, live[j], live'[j], "undo") /\ Traced(undo, j, live[j], "undo")
  BY DEF Links, OnChain, Chained
<1>3. Traced(Append(undo, e), j, live'[j], "undo")
  BY <1>1, <1>2, TracedPush
<1>4. Traced(redo', j, live'[j], "redo")
  BY <1>1, TracedEmpty
<1>5. Traced(undo', j, live'[j], "undo")
  <2>1. Append(undo, e) \in Seq(Entries)
    BY <1>1
  <2> QED
    BY <1>1, <1>3, <2>1, TracedNewest
<1> QED
  BY <1>4, <1>5 DEF OnChain, Chained

\* One edit
LEMMA CommitDatesChains ==
  ASSUME OwnInv, NEW i \in Ids, NEW d \in Dates, CommitDates(i, d), NEW j \in Ids, OnChain(j)
  PROVE  OnChain(j)'
<1> DEFINE e == <<[id |-> i, before |-> live[i], after |-> d]>>
<1>1. live' = [live EXCEPT ![i] = d] /\ live \in [Ids -> Dates] /\ PipelineInv
  BY CommitDatesAgrees, PipelineFacts DEF OwnInv
<1>2. Record(e)
  BY DEF CommitDates
<1>3. e \in Entries
  BY <1>1, OneChange
<1>4. /\ Takes(e, i, live[i], d)
      /\ \A k, x : k # i => Takes(e, k, x, x)
  BY TakesOne
<1> HIDE DEF e
<1>5. Takes(e, j, live[j], live'[j])
  BY <1>1, <1>4
<1> QED
  BY <1>1, <1>2, <1>3, <1>5, RecordChains

\* The descendants of an item: once each, never the item itself, and where the
\* planner shows them
LEMMA ShiftTakes ==
  ASSUME PipelineInv, NEW i \in Ids, NEW delta,
         \A n \in DOMAIN ShiftedKids(i, delta) : ShiftedKids(i, delta)[n].after \in Dates
  PROVE  LET kids == ShiftedKids(i, delta)
             c == ChangesOf(kids)
         IN  /\ kids \in Seq(Kid) /\ c \in Seq(Change)
             /\ (kids # << >> => c # << >>)
             /\ \A j : Involves(c, j) <=> j \in Range(Kids[i])
             /\ ~Involves(c, i)
             /\ \A j \in Ids : Takes(c, j, live[j], Moved(live, kids)[j])
<1> DEFINE kids == ShiftedKids(i, delta)
           c == ChangesOf(kids)
<1>1. /\ kids \in Seq(Kid) /\ DOMAIN kids = DOMAIN Kids[i]
      /\ \A n \in DOMAIN kids : kids[n].id = Kids[i][n]
  BY ShiftedKidsType
<1>2. \A n \in DOMAIN kids : kids[n].prev = live[kids[n].id]
  BY DEF ShiftedKids
<1>3. live \in [Ids -> Dates]
  BY PipelineFacts
<1> HIDE DEF kids
<1>4. i \notin Range(Kids[i]) /\ IsInjective(Kids[i])
  BY LanesAssumption
<1>5. \A m, n \in DOMAIN kids : kids[m].id = kids[n].id => m = n
  BY <1>1, <1>4 DEF IsInjective
<1>6. c \in Seq(Change) /\ Len(c) = Len(kids)
  BY <1>1, KidsHistory
<1>7. kids # << >> => c # << >>
  <2>1. ASSUME kids # << >> PROVE Len(kids) # 0
    BY <1>1, <2>1
  <2> QED
    BY <1>6, <2>1
<1>8. /\ \A j : Involves(c, j) <=> \E n \in DOMAIN kids : kids[n].id = j
      /\ \A j \in Ids : Takes(c, j, live[j], Moved(live, kids)[j])
  BY <1>1, <1>2, <1>3, <1>5, KidsTake
<1> HIDE DEF c
<1>9. \A j : Involves(c, j) <=> j \in Range(Kids[i])
  BY <1>1, <1>8 DEF Range
<1> QED
  BY <1>1, <1>4, <1>6, <1>7, <1>8, <1>9 DEF kids, c

\* A Shift-drag
LEMMA ShiftDragChains ==
  ASSUME OwnInv, NEW i \in Ids, NEW d \in Dates, ShiftDrag(i, d), NEW j \in Ids, OnChain(j)
  PROVE  OnChain(j)'
<1> DEFINE kids == ShiftedKids(i, d - live[i])
           a == <<[id |-> i, before |-> live[i], after |-> d]>>
           c == ChangesOf(kids)
           m == Moved(live, kids)
<1>1. live' = [m EXCEPT ![i] = d] /\ live \in [Ids -> Dates] /\ PipelineInv
  BY ShiftDragAgrees, PipelineFacts DEF OwnInv
<1>2. Record(a \o c) /\ kids # << >> /\ \A n \in DOMAIN kids : kids[n].after \in Dates
  BY DEF ShiftDrag
<1>3. /\ kids \in Seq(Kid) /\ c \in Seq(Change) /\ ~Involves(c, i)
      /\ \A k \in Ids : Takes(c, k, live[k], m[k])
  BY <1>1, <1>2, ShiftTakes
<1>4. m \in [Ids -> Dates]
  BY <1>1, <1>3, KidsMoved
<1>5. a \in Entries
  BY <1>1, OneChange
<1>6. /\ Takes(a, i, live[i], d)
      /\ \A k : k # i => ~Involves(a, k)
      /\ \A k, x : k # i => Takes(a, k, x, x)
  BY TakesOne
<1> HIDE DEF kids, a, c, m
<1>7. a \in Seq(Change) /\ a # << >>
  BY <1>5 DEF Entries
<1>8. a \o c \in Entries
  BY <1>3, <1>7, Concatenation DEF Entries
<1>9. Takes(a \o c, j, live[j], live'[j])
  <2>1. CASE j = i
    <3>1. Takes(c, i, d, d) /\ live'[i] = d
      BY <1>1, <1>3, <1>4 DEF Takes
    <3> QED
      BY <1>3, <1>6, <1>7, <2>1, <3>1, TakesJoin
  <2>2. CASE j # i
    <3>1. Takes(a, j, live[j], live[j]) /\ Takes(c, j, live[j], live'[j]) /\ ~Involves(a, j)
      BY <1>1, <1>3, <1>4, <1>6, <2>2
    <3> QED
      BY <1>3, <1>7, <3>1, TakesJoin
  <2> QED
    BY <2>1, <2>2
<1> QED
  BY <1>1, <1>2, <1>8, <1>9, RecordChains

\* The descendants a toast offers to move make an entry (apply_toast_extra).
LEMMA OfferedKids ==
  ASSUME PipelineInv, MoveChildrenToo
  PROVE  LET i == toast.items[1].id
             kids == ShiftedKids(i, toast.extra)
         IN  /\ i \in Ids /\ kids # << >> /\ ChangesOf(kids) \in Entries
             /\ \A n \in DOMAIN kids : kids[n].after \in Dates
<1> DEFINE i == toast.items[1].id
           kids == ShiftedKids(i, toast.extra)
           c == ChangesOf(kids)
<1>1. i \in Ids /\ Kids[i] # << >>
  <2>1. toast \in Toasts
    BY DEF MoveChildrenToo, PipelineInv, DateSavesTypes
  <2>2. toast.items \in Seq(Restore) /\ toast.items # << >>
    BY <2>1 DEF Toasts
  <2>3. toast.items[1] \in Restore
    BY <2>2
  <2>4. Kids[i] # << >>
    BY DEF PipelineInv, OffersChildren, MoveChildrenToo
  <2> QED
    BY <2>3, <2>4 DEF Restore
<1>2. \A n \in DOMAIN kids : kids[n].after \in Dates
  BY DEF MoveChildrenToo
<1>3. Kids[i] \in Seq(Ids)
  BY <1>1, PipelineAssumption
<1>4. Len(kids) = Len(Kids[i]) /\ kids \in Seq(Kid)
  BY <1>1, <1>2, ShiftedKidsType
<1> HIDE DEF i, kids
<1>5. Len(Kids[i]) # 0
  BY <1>1, <1>3
<1>6. kids # << >> /\ Len(kids) # 0
  BY <1>4, <1>5
<1>7. c \in Seq(Change) /\ Len(c) = Len(kids)
  BY <1>4, KidsHistory
<1> HIDE DEF c
<1>8. c \in Entries
  BY <1>6, <1>7 DEF Entries
<1> QED
  BY <1>1, <1>2, <1>6, <1>8 DEF i, kids, c

\* "Move children too": a child that is folded into an entry that has it, or while
\* a redo is pending, leaves its chain
LEMMA MoveChildrenChains ==
  ASSUME OwnInv, MoveChildrenToo, NEW j \in Ids, j \notin offstack', OnChain(j)
  PROVE  OnChain(j)'
<1> DEFINE i == toast.items[1].id
           kids == ShiftedKids(i, toast.extra)
           c == ChangesOf(kids)
           m == Moved(live, kids)
           fold == undo # << >> /\ Last(undo)[1].id = i
<1>1. /\ PipelineInv /\ live \in [Ids -> Dates] /\ live' = m
      /\ undo \in Seq(Entries) /\ redo \in Seq(Entries)
  BY MoveChildrenAgrees, PipelineFacts DEF OwnInv, PipelineInv, DateSavesTypes
<1>2. /\ i \in Ids /\ kids # << >> /\ c \in Entries
      /\ \A n \in DOMAIN kids : kids[n].after \in Dates
  BY <1>1, OfferedKids
<1>3. IF fold THEN undo' = Append(Front(undo), Last(undo) \o c) /\ redo' = redo
              ELSE Record(c)
  BY DEF MoveChildrenToo
<1>4. offstack' = offstack \cup
        {k \in Range(Kids[i]) : fold /\ (redo # << >> \/ Involves(Last(undo), k))}
  BY DEF MoveChildrenToo
<1> HIDE DEF i
<1>5. /\ kids \in Seq(Kid) /\ c \in Seq(Change)
      /\ \A k : Involves(c, k) <=> k \in Range(Kids[i])
      /\ \A k \in Ids : Takes(c, k, live[k], m[k])
  BY <1>1, <1>2, ShiftTakes
<1> HIDE DEF kids, c, m
<1>6. Takes(c, j, live[j], live'[j])
  BY <1>1, <1>5
<1>7. CASE ~fold
  BY <1>1, <1>2, <1>3, <1>6, <1>7, RecordChains
<1>8. CASE fold
  <2>1. /\ Front(undo) \in Seq(Entries) /\ Last(undo) \in Entries
        /\ undo' = Append(Front(undo), Last(undo) \o c) /\ redo' = redo
    BY <1>1, <1>3, <1>8, FrontLast
  <2>2. Last(undo) \in Seq(Change) /\ Last(undo) # << >>
    BY <2>1 DEF Entries
  <2>3. Last(undo) \o c \in Entries
    BY <1>5, <2>2, Concatenation DEF Entries
  <2>4. Involves(c, j) => redo = << >> /\ ~Involves(Last(undo), j)
    BY <1>4, <1>5, <1>8
  <2>5. PICK x : Links(Last(undo), j, x, live[j], "undo") /\ Traced(Front(undo), j, x, "undo")
    BY <1>1, <1>8, TracedPop DEF OnChain, Chained
  <2>6. Takes(Last(undo), j, x, live[j])
    BY <2>5 DEF Links
  <2>7. Takes(Last(undo) \o c, j, x, live'[j])
    BY <1>5, <1>6, <2>2, <2>4, <2>6, TakesJoin
  <2>8. Links(Last(undo) \o c, j, x, live'[j], "undo")
    BY <2>7 DEF Links
  <2>9. Traced(undo', j, live'[j], "undo")
    BY <2>1, <2>3, <2>5, <2>8, TracedPush
  <2>10. Traced(redo', j, live'[j], "redo")
    <3>1. CASE redo = << >>
      BY <2>1, <3>1, TracedEmpty
    <3>2. CASE ~Involves(c, j)
      <4>1. live'[j] = live[j]
        BY <1>6, <3>2 DEF Takes
      <4> QED
        BY <2>1, <4>1 DEF OnChain, Chained
    <3> QED
      BY <2>4, <3>1, <3>2
  <2> QED
    BY <2>9, <2>10 DEF OnChain, Chained
<1> QED
  BY <1>7, <1>8

\* An undo goes back by the newest entry, which becomes the newest one to redo.
LEMMA UndoStackChains ==
  ASSUME OwnInv, UndoStack, server' = server, failed' = failed, orphaned' = orphaned,
         NEW j \in Ids, OnChain(j)
  PROVE  OnChain(j)'
<1> DEFINE e == Last(undo)
<1>1. /\ undo \in Seq(Entries) /\ redo \in Seq(Entries) /\ undo # << >>
      /\ undo' = Front(undo) /\ redo' = Append(redo, e)
      /\ ApplyAll(Replay(Befores(e), "Undo"))
  BY DEF OwnInv, PipelineInv, DateSavesTypes, UndoStack
<1>2. e \in Entries
  BY <1>1, FrontLast
<1>3. PICK x : Links(e, j, x, live[j], "undo") /\ Traced(Front(undo), j, x, "undo")
  BY <1>1, TracedPop DEF OnChain, Chained
<1> HIDE DEF e
<1>4. Takes(e, j, x, live[j])
  BY <1>3 DEF Links
<1>5. Shows(Befores(e), j)
  <2>1. Befores(e) \in Moves /\ "Undo" \in Roles \ {"Commit"}
    BY <1>2, MovesType DEF Entries, Roles
  <2> QED
    BY <1>1, <2>1, ApplyAllAgrees
<1>6. live'[j] = x
  BY <1>2, <1>4, <1>5, GroupTakes
<1>7. Links(e, j, live[j], live'[j], "redo")
  BY <1>4, <1>6 DEF Links
<1>8. Traced(redo, j, live[j], "redo")
  BY DEF OnChain, Chained
<1>9. Traced(redo', j, live'[j], "redo")
  BY <1>1, <1>2, <1>7, <1>8, TracedPush
<1> QED
  BY <1>1, <1>3, <1>6, <1>9 DEF OnChain, Chained

\* A redo the other way round
LEMMA RedoLastChains ==
  ASSUME OwnInv, RedoLast, NEW j \in Ids, OnChain(j)
  PROVE  OnChain(j)'
<1> DEFINE e == Last(redo)
<1>1. /\ undo \in Seq(Entries) /\ redo \in Seq(Entries) /\ redo # << >>
      /\ redo' = Front(redo) /\ undo' = Append(undo, e)
      /\ ApplyAll(Replay(Afters(e), "Redo"))
      /\ server' = server /\ failed' = failed /\ orphaned' = orphaned
  BY DEF OwnInv, PipelineInv, DateSavesTypes, RedoLast, marks
<1>2. e \in Entries
  BY <1>1, FrontLast
<1>3. PICK x : Links(e, j, x, live[j], "redo") /\ Traced(Front(redo), j, x, "redo")
  BY <1>1, TracedPop DEF OnChain, Chained
<1> HIDE DEF e
<1>4. Takes(e, j, live[j], x)
  BY <1>3 DEF Links
<1>5. Shows(Afters(e), j)
  <2>1. Afters(e) \in Moves /\ "Redo" \in Roles \ {"Commit"}
    BY <1>2, MovesType DEF Entries, Roles
  <2> QED
    BY <1>1, <2>1, ApplyAllAgrees
<1>6. live'[j] = x
  BY <1>2, <1>4, <1>5, GroupTakes
<1>7. Links(e, j, live[j], live'[j], "undo")
  BY <1>4, <1>6 DEF Links
<1>8. Traced(undo, j, live[j], "undo")
  BY DEF OnChain, Chained
<1>9. Traced(undo', j, live'[j], "undo")
  BY <1>1, <1>2, <1>7, <1>8, TracedPush
<1> QED
  BY <1>1, <1>3, <1>6, <1>9 DEF OnChain, Chained

\* The toast's Undo, by the stack or beside it
LEMMA ToastUndoChains ==
  ASSUME OwnInv, ToastUndo, NEW j \in Ids, j \notin offstack', OnChain(j)
  PROVE  OnChain(j)'
<1>1. server' = server /\ failed' = failed /\ orphaned' = orphaned
  BY DEF ToastUndo
<1>2. CASE UndoStack
  BY <1>1, <1>2, UndoStackChains
<1>3. CASE /\ ApplyAll(Replay(Dated(toast.items), "Restore"))
           /\ offstack' = offstack \cup {r.id : r \in Range(toast.items)}
           /\ UNCHANGED history
  <2>1. toast \in Toasts
    BY DEF ToastUndo, OwnInv, PipelineInv, DateSavesTypes
  <2>2. toast.items \in Seq(Restore)
    BY <2>1 DEF Toasts
  <2>3. Dated(toast.items) \in Moves /\ "Restore" \in Roles \ {"Commit"}
    BY <2>2, MovesType DEF Roles
  <2>4. Shows(Dated(toast.items), j)
    BY <1>1, <1>3, <2>3, ApplyAllAgrees
  <2> DEFINE g == Dated(toast.items)
  <2>5. \A k \in 1..Len(g) : g[k].id # j
    <3>1. DOMAIN g = 1..Len(g)
      BY <2>3 DEF Moves
    <3>2. \A k \in DOMAIN g : k \in DOMAIN toast.items /\ g[k].id = toast.items[k].id
      BY DEF Dated
    <3> HIDE DEF g
    <3>3. \A k \in DOMAIN toast.items : toast.items[k].id # j
      BY <1>3 DEF Range
    <3> QED
      BY <3>1, <3>2, <3>3
  <2>6. live'[j] = live[j]
    BY <2>4, <2>5 DEF Shows
  <2>7. undo' = undo /\ redo' = redo
    BY <1>3 DEF history
  <2> QED
    BY <2>6, <2>7 DEF OnChain, Chained
<1> QED
  BY <1>2, <1>3 DEF ToastUndo

\* An answer that leaves an item's dates leaves its chain, unless it drops an entry
\* that has the item.
LEMMA SaveOkChains ==
  ASSUME OwnInv, NEW f \in flight, SaveOk(f), NEW j \in Ids, j \notin offstack', OnChain(j)
  PROVE  OnChain(j)'
<1> DEFINE h == [undo |-> undo, redo |-> redo]
           s == f.save
           n == LedBefore(h, s.id, s.after)
           h2 == DiscardBefore(h, s.id, s.after)
<1>1. live'[j] = live[j]
  BY DEF SaveOk
<1>2. undo \in Seq(Entries)
  BY DEF OwnInv, PipelineInv, DateSavesTypes
<1>3. CASE undo' = undo /\ redo' = redo
  BY <1>1, <1>3 DEF OnChain, Chained
<1>4. CASE /\ undo' = h2.undo /\ redo' = h2.redo
           /\ j \notin DiscardedWith(h, s.id, s.after)
  <2>1. n = 0 \/ n \in 1..Len(undo)
    <3> DEFINE I == {k \in 1..Len(undo) : undo[k][1].id = s.id /\ undo[k][1].before = s.after}
    <3>1. n = IF I # {} THEN Min(I) ELSE 0
      BY DEF LedBefore, SelectInSeq
    <3>2. Len(undo) \in Nat /\ I \in SUBSET (1..Len(undo))
      BY <1>2
    <3> HIDE DEF I, n
    <3> QED
      BY <3>1, <3>2, SearchFound
  <2>2. undo' = (IF n = 0 THEN undo ELSE RemoveAt(undo, n)) /\ redo' = redo
    BY <1>4 DEF DiscardBefore
  <2>3. n # 0 => ~Involves(undo[n], j)
    BY <1>4 DEF DiscardedWith
  <2> HIDE DEF n
  <2>4. Traced(undo', j, live[j], "undo")
    <3>1. Traced(undo, j, live[j], "undo")
      BY DEF OnChain, Chained
    <3> QED
      BY <1>2, <2>1, <2>2, <2>3, <3>1, TracedDrop
  <2> QED
    BY <1>1, <2>2, <2>4 DEF OnChain, Chained
<1> QED
  BY <1>3, <1>4 DEF SaveOk, history

\* Items and failures only ever leave the promise.
LEMMA MarksGrow ==
  ASSUME OwnInv, [Next]_vars
  PROVE  offstack \subseteq offstack' /\ (faults' = 0 => faults = 0)
<1>1. faults \in Nat
  BY PipelineAssumption DEF OwnInv, PipelineInv, DateSavesTypes
<1>2. CASE UserStep
  BY <1>2 DEF UserStep, CommitDates, ShiftDrag, MoveChildrenToo, UndoLast, RedoLast, ToastUndo,
              ToastGone, marks
<1>3. ASSUME NEW f \in flight, SaveOk(f) PROVE offstack \subseteq offstack' /\ faults' = faults
  BY <1>3 DEF SaveOk
<1>4. ASSUME NEW f \in flight, NEW applied \in BOOLEAN, SaveErr(f, applied)
      PROVE  offstack' = offstack /\ faults' # 0
  BY <1>1, <1>4 DEF SaveErr
<1>5. CASE UNCHANGED vars
  BY <1>5 DEF vars, marks
<1> QED
  BY <1>2, <1>3, <1>4, <1>5 DEF Next, Answer

\* While no PATCH fails, no step takes an item off its chain without a mark.
LEMMA ChainKept ==
  ASSUME OwnInv, [Next]_vars, faults' = 0, NEW j \in Ids, j \notin offstack', OnChain(j)
  PROVE  OnChain(j)'
<1>1. ASSUME NEW i \in Ids, NEW d \in Dates, CommitDates(i, d) \/ ShiftDrag(i, d) PROVE OnChain(j)'
  BY <1>1, CommitDatesChains, ShiftDragChains
<1>2. CASE MoveChildrenToo
  BY <1>2, MoveChildrenChains
<1>3. CASE UndoLast
  BY <1>3, UndoStackChains DEF UndoLast, marks
<1>4. CASE RedoLast \/ ToastUndo
  BY <1>4, RedoLastChains, ToastUndoChains
<1>5. CASE ToastGone \/ UNCHANGED vars
  BY <1>5 DEF ToastGone, vars, pipeline, history, OnChain, Chained
<1>6. ASSUME NEW f \in flight, SaveOk(f) PROVE OnChain(j)'
  BY <1>6, SaveOkChains
<1>7. ASSUME NEW f \in flight, NEW applied \in BOOLEAN PROVE ~SaveErr(f, applied)
  <2>1. faults \in Nat
    BY PipelineAssumption DEF OwnInv, PipelineInv, DateSavesTypes
  <2> QED
    BY <2>1 DEF SaveErr
<1> QED
  BY <1>1, <1>2, <1>3, <1>4, <1>5, <1>6, <1>7 DEF Next, UserStep, Answer

\* The inductive invariant of HistoryAgrees
ChainInv == OwnInv /\ (faults = 0 => \A j \in Ids \ offstack : OnChain(j))

\* Dates at the end of a chain agree with the newest entries.
LEMMA ChainAgrees ==
  ASSUME ChainInv
  PROVE  HistoryAgrees
<1> SUFFICES ASSUME faults = 0, NEW j \in Ids \ offstack PROVE AgreesAt(j)
  BY DEF HistoryAgrees
<1>1. /\ undo \in Seq(Entries) /\ redo \in Seq(Entries)
      /\ Traced(undo, j, live[j], "undo") /\ Traced(redo, j, live[j], "redo")
  BY DEF ChainInv, OwnInv, PipelineInv, DateSavesTypes, OnChain, Chained
<1>2. Recorded(undo, j) => Latest(undo, j).after = live[j]
  BY <1>1, TracedLatest
<1>3. Recorded(redo, j) => Latest(redo, j).before = live[j]
  BY <1>1, TracedLatest
<1> QED
  BY <1>2, <1>3 DEF AgreesAt

\* A loaded planner has no history
LEMMA ChainInvInit == Init => ChainInv
<1> SUFFICES ASSUME Init PROVE ChainInv
  OBVIOUS
<1>1. OwnInv
  BY AgreeInvInit DEF AgreeInv
<1>2. undo = << >> /\ redo = << >>
  BY DEF Init
<1> QED
  BY <1>1, <1>2, TracedEmpty DEF ChainInv, OnChain, Chained

\* No step breaks a chain.
LEMMA ChainInvStep == ChainInv /\ [Next]_vars => ChainInv'
<1> SUFFICES ASSUME ChainInv, [Next]_vars PROVE ChainInv'
  OBVIOUS
<1>1. OwnInv'
  BY OwnInvStep DEF ChainInv
<1>2. ASSUME faults' = 0, NEW j \in Ids \ offstack' PROVE OnChain(j)'
  <2>1. faults = 0 /\ j \in Ids \ offstack
    BY <1>2, MarksGrow DEF ChainInv
  <2> QED
    BY <1>2, <2>1, ChainKept DEF ChainInv
<1> QED
  BY <1>1, <1>2 DEF ChainInv

\* While no PATCH fails, Undo and Redo start from the dates the planner shows, for
\* every item whose dates and history no toast, fold or dropped shift took apart
\* (record, undo_last, redo_last, toast_restore_or_undo_dates, apply_toast_extra).
THEOREM HistoryLeadsToShown == Spec => []HistoryAgrees
BY ChainInvInit, ChainInvStep, ChainAgrees, PTL DEF Spec
-----------------------------------------------------------------------------
\* The history's cap.

\* The entries of both stacks
Size(h) == Len(h.undo) + Len(h.redo)

\* Undo and redo together hold no more entries than the undo stack may: neither a
\* redo nor a failed save, which push past EditHistory::push, outgrows the cap.
HistoryFits == Len(undo) + Len(redo) <= HistoryCap

\* Discarding takes one entry off, or none (discard_dates_after,
\* discard_history_for_undo).
LEMMA DiscardsShrink ==
  ASSUME NEW h \in Histories, NEW i, NEW d
  PROVE  Size(DiscardAfter(h, i, d)) <= Size(h) /\ Size(DiscardBefore(h, i, d)) <= Size(h)
<1>0. h.undo \in Seq(Entries) /\ h.redo \in Seq(Entries)
  BY DEF Histories
<1>1. Len(h.undo) \in Nat /\ Len(h.redo) \in Nat
  BY <1>0
<1>2. ASSUME NEW n \in 1..Len(h.undo) PROVE Size([h EXCEPT !.undo = RemoveAt(h.undo, n)]) <= Size(h)
  <2> DEFINE u == RemoveAt(h.undo, n)
  <2>1. Len(u) = Len(h.undo) - 1
    BY <1>0, RemoveAtFields
  <2> HIDE DEF u
  <2>2. [h EXCEPT !.undo = u].undo = u /\ [h EXCEPT !.undo = u].redo = h.redo
    BY DEF Histories
  <2>3. Len(u) + Len(h.redo) <= Len(h.undo) + Len(h.redo)
    <3> DEFINE x == Len(h.undo)
               y == Len(h.redo)
    <3>1. x \in Nat /\ y \in Nat /\ Len(u) = x - 1
      BY <1>1, <2>1
    <3> HIDE DEF x, y
    <3>2. Len(u) + y <= x + y
      BY <3>1
    <3> QED
      BY <3>2 DEF x, y
  <2> QED
    BY <2>2, <2>3 DEF Size, u
<1>3. Size(h) <= Size(h)
  BY <1>1 DEF Size
<1>4. Size(DiscardAfter(h, i, d)) <= Size(h)
  <2> DEFINE I == {n \in 1..Len(h.undo) : h.undo[n][1].id = i /\ h.undo[n][1].after = d}
             n == IF I # {} THEN Max(I) ELSE 0
  <2>1. DiscardAfter(h, i, d) = IF n = 0 THEN h ELSE [h EXCEPT !.undo = RemoveAt(h.undo, n)]
    BY DEF DiscardAfter, SelectLastInSeq
  <2>2. n = 0 \/ n \in 1..Len(h.undo)
    <3>1. I \in SUBSET (1..Len(h.undo))
      OBVIOUS
    <3> HIDE DEF I
    <3> QED
      BY <1>1, <3>1, SearchFound
  <2> HIDE DEF n
  <2> QED
    BY <1>2, <1>3, <2>1, <2>2
<1>5. Size(DiscardBefore(h, i, d)) <= Size(h)
  <2> DEFINE I == {n \in 1..Len(h.undo) : h.undo[n][1].id = i /\ h.undo[n][1].before = d}
             n == IF I # {} THEN Min(I) ELSE 0
  <2>1. DiscardBefore(h, i, d) = IF n = 0 THEN h ELSE [h EXCEPT !.undo = RemoveAt(h.undo, n)]
    BY DEF DiscardBefore, LedBefore, SelectInSeq
  <2>2. n = 0 \/ n \in 1..Len(h.undo)
    <3>1. I \in SUBSET (1..Len(h.undo))
      OBVIOUS
    <3> HIDE DEF I
    <3> QED
      BY <1>1, <3>1, SearchFound
  <2> HIDE DEF n
  <2> QED
    BY <1>2, <1>3, <2>1, <2>2
<1> QED
  BY <1>4, <1>5

\* A failed save moves an entry from one stack to the other, or takes one off
\* (revert_date_save_history).
LEMMA RevertShrinks ==
  ASSUME NEW h \in Histories, NEW s \in Save
  PROVE  Size(RevertHistory(h, s)) <= Size(h)
<1>1. ASSUME NEW g \in Histories, NEW i PROVE Size(UnfailUndo(g, i)) = Size(g)
  <2>1. g.undo \in Seq(Entries) /\ g.redo \in Seq(Entries)
    BY DEF Histories
  <2>2. CASE g.redo # << >> /\ Involves(Last(g.redo), i)
    <3> DEFINE e == Last(g.redo)
    <3>1. Front(g.redo) \in Seq(Entries) /\ e \in Entries /\ Len(Front(g.redo)) = Len(g.redo) - 1
      BY <2>1, <2>2, FrontLast
    <3>2. UnfailUndo(g, i) = [undo |-> Append(g.undo, e), redo |-> Front(g.redo)]
      BY <2>2 DEF UnfailUndo
    <3> HIDE DEF e
    <3>3. Len(Append(g.undo, e)) = Len(g.undo) + 1 /\ Len(g.undo) \in Nat /\ Len(g.redo) \in Nat
      BY <2>1, <3>1
    <3> DEFINE p == Append(g.undo, e)
               q == Front(g.redo)
               x == Len(g.undo)
               y == Len(g.redo)
    <3>4. x \in Nat /\ y \in Nat /\ Len(p) = x + 1 /\ Len(q) = y - 1
      BY <3>1, <3>3
    <3>5. UnfailUndo(g, i).undo = p /\ UnfailUndo(g, i).redo = q
      BY <3>2
    <3>6. Size(UnfailUndo(g, i)) = Len(p) + Len(q) /\ Size(g) = x + y
      BY <3>5 DEF Size
    <3> HIDE DEF p, q, x, y
    <3>7. Len(p) + Len(q) = x + y /\ Len(q) + Len(p) = y + x
      BY <3>4
    <3> QED
      BY <3>6, <3>7
  <2> QED
    BY <2>2 DEF UnfailUndo
<1>2. ASSUME NEW g \in Histories, NEW i PROVE Size(UnfailRedo(g, i)) = Size(g)
  <2>1. g.undo \in Seq(Entries) /\ g.redo \in Seq(Entries)
    BY DEF Histories
  <2>2. CASE g.undo # << >> /\ Involves(Last(g.undo), i)
    <3> DEFINE e == Last(g.undo)
    <3>1. Front(g.undo) \in Seq(Entries) /\ e \in Entries /\ Len(Front(g.undo)) = Len(g.undo) - 1
      BY <2>1, <2>2, FrontLast
    <3>2. UnfailRedo(g, i) = [undo |-> Front(g.undo), redo |-> Append(g.redo, e)]
      BY <2>2 DEF UnfailRedo
    <3> HIDE DEF e
    <3>3. Len(Append(g.redo, e)) = Len(g.redo) + 1 /\ Len(g.undo) \in Nat /\ Len(g.redo) \in Nat
      BY <2>1, <3>1
    <3> DEFINE p == Append(g.redo, e)
               q == Front(g.undo)
               x == Len(g.redo)
               y == Len(g.undo)
    <3>4. x \in Nat /\ y \in Nat /\ Len(p) = x + 1 /\ Len(q) = y - 1
      BY <3>1, <3>3
    <3>5. UnfailRedo(g, i).redo = p /\ UnfailRedo(g, i).undo = q
      BY <3>2
    <3>6. Size(UnfailRedo(g, i)) = Len(q) + Len(p) /\ Size(g) = y + x
      BY <3>5 DEF Size
    <3> HIDE DEF p, q, x, y
    <3>7. Len(p) + Len(q) = x + y /\ Len(q) + Len(p) = y + x
      BY <3>4
    <3> QED
      BY <3>6, <3>7
  <2> QED
    BY <2>2 DEF UnfailRedo
<1>3. s.role \in Roles
  BY DEF Save
<1>4. Size(h) <= Size(h)
  BY DEF Size, Histories
<1>5. /\ DiscardAfter(h, s.id, s.after) \in Histories
      /\ Size(DiscardAfter(h, s.id, s.after)) <= Size(h)
  BY DiscardsType, DiscardsShrink
<1> QED
  BY <1>1, <1>2, <1>3, <1>4, <1>5 DEF RevertHistory, Roles

\* A new entry never outgrows the stack
LEMMA RecordFits ==
  ASSUME PipelineInv, NEW e \in Entries, Record(e)
  PROVE  HistoryFits'
<1>1. Append(undo, e) \in Seq(Entries) /\ undo' = Newest(Append(undo, e)) /\ redo' = << >>
  BY DEF PipelineInv, DateSavesTypes, Record
<1> DEFINE q == Append(undo, e)
           p == Newest(q)
<1>2. q \in Seq(Entries) /\ undo' = p /\ Len(redo') = 0
  BY <1>1
<1> HIDE DEF q
<1>3. p \in Seq(Entries) /\ Len(p) <= HistoryCap
  BY <1>2, NewestFields
<1> HIDE DEF p
<1>4. Len(p) \in Nat /\ Len(p) + 0 <= HistoryCap
  BY <1>3, PipelineAssumption
<1> QED
  BY <1>2, <1>4 DEF HistoryFits

\* No step outgrows it.
LEMMA FitsStep ==
  ASSUME PipelineInv, PipelineInv', HistoryFits, [Next]_vars
  PROVE  HistoryFits'
<1>1. /\ undo \in Seq(Entries) /\ redo \in Seq(Entries)
      /\ Len(undo) \in Nat /\ Len(redo) \in Nat /\ HistoryCap \in Nat
      /\ live \in [Ids -> Dates]
  BY PipelineAssumption, PipelineFacts DEF PipelineInv, DateSavesTypes
<1>2. ASSUME NEW i \in Ids, NEW d \in Dates, CommitDates(i, d) PROVE HistoryFits'
  <2>1. <<[id |-> i, before |-> live[i], after |-> d]>> \in Entries
    BY <1>1, OneChange
  <2> QED
    BY <1>2, <2>1, RecordFits DEF CommitDates
<1>3. ASSUME NEW i \in Ids, NEW d \in Dates, ShiftDrag(i, d) PROVE HistoryFits'
  <2> DEFINE a == <<[id |-> i, before |-> live[i], after |-> d]>>
             c == ChangesOf(ShiftedKids(i, d - live[i]))
  <2>1. Record(a \o c) /\ c \in Seq(Change)
    BY <1>3, ShiftTakes DEF ShiftDrag
  <2>2. a \in Entries
    BY <1>1, OneChange
  <2> HIDE DEF a, c
  <2>3. a \o c \in Entries
    BY <2>1, <2>2, Concatenation DEF Entries
  <2> QED
    BY <2>1, <2>3, RecordFits
<1>4. CASE MoveChildrenToo
  <2> DEFINE i == toast.items[1].id
             c == ChangesOf(ShiftedKids(i, toast.extra))
  <2>1. CASE undo # << >> /\ undo' = Append(Front(undo), Last(undo) \o c) /\ redo' = redo
    <3>1. Front(undo) \in Seq(Entries) /\ Len(Front(undo)) = Len(undo) - 1
      BY <1>1, <2>1, FrontLast
    <3> HIDE DEF c
    <3>2. Len(undo') = Len(undo)
      BY <1>1, <2>1, <3>1
    <3> QED
      BY <2>1, <3>2 DEF HistoryFits
  <2>2. CASE Record(c)
    <3>1. c \in Entries
      BY <1>4, OfferedKids
    <3> QED
      BY <2>2, <3>1, RecordFits
  <2> QED
    BY <1>4, <2>1, <2>2 DEF MoveChildrenToo
<1>5. CASE UndoStack
  <2>1. /\ Front(undo) \in Seq(Entries) /\ Len(Front(undo)) = Len(undo) - 1 /\ Last(undo) \in Entries
        /\ undo' = Front(undo) /\ redo' = Append(redo, Last(undo))
    BY <1>1, <1>5, FrontLast DEF UndoStack
  <2>2. Len(redo') = Len(redo) + 1
    BY <1>1, <2>1
  <2> QED
    BY <1>1, <2>1, <2>2 DEF HistoryFits
<1>6. CASE RedoLast
  <2>1. /\ Front(redo) \in Seq(Entries) /\ Len(Front(redo)) = Len(redo) - 1 /\ Last(redo) \in Entries
        /\ redo' = Front(redo) /\ undo' = Append(undo, Last(redo))
    BY <1>1, <1>6, FrontLast DEF RedoLast
  <2>2. Len(undo') = Len(undo) + 1
    BY <1>1, <2>1
  <2> QED
    BY <1>1, <2>1, <2>2 DEF HistoryFits
<1>7. CASE undo' = undo /\ redo' = redo
  BY <1>7 DEF HistoryFits
<1> DEFINE h == [undo |-> undo, redo |-> redo]
<1>8. h \in Histories /\ h.undo = undo /\ h.redo = redo
  BY <1>1 DEF Histories
<1>9. ASSUME NEW g \in Histories, Size(g) <= Size(h), undo' = g.undo, redo' = g.redo
      PROVE  HistoryFits'
  <2>1. g.undo \in Seq(Entries) /\ g.redo \in Seq(Entries)
    BY DEF Histories
  <2>2. Size(h) <= HistoryCap
    BY <1>8 DEF HistoryFits, Size
  <2> DEFINE a == Size(g)
             b == Size(h)
  <2>3. a \in Nat
    <3> DEFINE p == Len(g.undo)
               q == Len(g.redo)
    <3>1. p \in Nat /\ q \in Nat /\ a = p + q
      BY <2>1 DEF Size
    <3> HIDE DEF a, p, q
    <3> QED
      BY <3>1
  <2>4. b \in Nat
    BY <1>1, <1>8 DEF Size
  <2>5. a <= b /\ b <= HistoryCap /\ HistoryCap \in Nat
    BY <1>1, <1>9, <2>2
  <2>6. a <= HistoryCap
    <3> HIDE DEF a, b
    <3> QED
      BY <2>3, <2>4, <2>5
  <2> QED
    BY <1>9, <2>6 DEF HistoryFits, Size
<1>10. ASSUME NEW f \in flight, SaveOk(f) PROVE HistoryFits'
  <2> DEFINE g == DiscardBefore(h, f.save.id, f.save.after)
  <2>1. g \in Histories /\ Size(g) <= Size(h)
    BY <1>8, DiscardsType, DiscardsShrink
  <2>2. (undo' = g.undo /\ redo' = g.redo) \/ (undo' = undo /\ redo' = redo)
    BY <1>10 DEF SaveOk, history
  <2> QED
    BY <1>7, <1>9, <2>1, <2>2
<1>11. ASSUME NEW f \in flight, NEW applied \in BOOLEAN, SaveErr(f, applied) PROVE HistoryFits'
  <2> DEFINE g == RevertHistory(h, f.save)
  <2>1. g \in Histories /\ Size(g) <= Size(h)
    BY <1>8, LandedReady, RevertType, RevertShrinks
  <2>2. (undo' = g.undo /\ redo' = g.redo) \/ (undo' = undo /\ redo' = redo)
    BY <1>11 DEF SaveErr
  <2> QED
    BY <1>7, <1>9, <2>1, <2>2
<1>12. CASE ToastUndo
  BY <1>5, <1>7, <1>12 DEF ToastUndo, history
<1> QED
  BY <1>2, <1>3, <1>4, <1>5, <1>6, <1>7, <1>10, <1>11, <1>12
  DEF Next, UserStep, Answer, UndoLast, ToastGone, vars, history

\* The stacks never outgrow EditHistory::CAP together: the pushes that bypass
\* EditHistory::push (redo_last, restore_failed_date_undo and _redo) only move
\* entries that were under it.
THEOREM HistoryStaysCapped == Spec => []HistoryFits
<1>1. Init => HistoryFits
  BY PipelineAssumption DEF Init, HistoryFits
<1>2. PipelineInv /\ PipelineInv' /\ HistoryFits /\ [Next]_vars => HistoryFits'
  BY FitsStep
<1> QED
  BY <1>1, <1>2, PipelineInvariant, PTL DEF Spec
=============================================================================
