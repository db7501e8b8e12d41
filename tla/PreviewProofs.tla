------------------------------- MODULE PreviewProofs --------------------------
(***************************************************************************)
(* Proofs of what module Preview promises, for every set of items and      *)
(* dates, every number of key presses, drags and jobs and every failure.   *)
(*                                                                         *)
(* PreviewsSettle is about an item nobody owns.  The induction says what   *)
(* is shown of an item that has an owner: a nudge keeps the dates it       *)
(* started from and those it shows (NudgeFits), a drag starts from what is *)
(* shown (GestureFits), a save in flight carries both (Shows), a flush can *)
(* put back what the server stores, and a clone that is adopted later is   *)
(* as the planner left it, unless the item was touched since (CloneFits).  *)
(* No item not in stray has two owners (OneOwner), so each of them may put *)
(* its own dates back.                                                     *)
(*                                                                         *)
(* A bar keeps its order because every change of it does: a nudge stops at *)
(* the other edge, a drag moves both edges or stops (Pulled).              *)
(***************************************************************************)
EXTENDS Preview, TLAPS

\* The types of the variables
PreviewTypes ==
  /\ live \in [Ids -> Moments] /\ server \in [Ids -> Moments] /\ want \in [Ids -> Moments]
  /\ nudge \in PendingNudge \cup {None} /\ gesture \in Gesture \cup {None}
  /\ selected \in Ids \cup {None} /\ lastNudge \in Nat
  /\ held \in BOOLEAN /\ timers \subseteq Nat /\ missed \in BOOLEAN
  /\ io \in Work \cup {None}
  /\ flight \in [Ids -> DateSave \cup {None}] /\ queued \in [Ids -> DateSave \cup {None}]
  /\ stray \subseteq Ids /\ touched \subseteq Ids
  /\ edits \in Nat /\ faults \in Nat

\* An item with both dates starts before it ends
Ordered(d) == Had(d) = Sides => d.s <= d.t

\* What the pointer may do to a bar
Pulled(g) ==
  /\ g.kind = "Move" => g.now.t - g.now.s = g.span.t - g.span.s
  /\ g.kind = "ResizeStart" =>
       /\ "s" \in g.had
       /\ IF "t" \in g.had THEN g.now.t = g.span.t
          ELSE g.span.t = g.span.s + BarDays - 1 /\ g.now.t = g.now.s + BarDays - 1
  /\ g.kind = "ResizeEnd" => "s" \in g.had /\ g.now.s = g.span.s

\* A nudge shows its span over the dates the item has, and remembers what is stored
NudgeFits(p, shown, stored) ==
  /\ Keep(p.span, p.had) = shown /\ Keep(p.orig, p.had) = stored
  /\ p.span.s <= p.span.t /\ p.orig.s <= p.orig.t

\* A drag starts from what is shown
GestureFits(g, shown) ==
  /\ Keep(g.span, g.had) = shown
  /\ g.span.s <= g.span.t /\ g.now.s <= g.now.t

\* An item is nudged, dragged, flushed or saved, one at a time
OneOwner(i) ==
  /\ Dragged(i) => ~Nudged(i) \/ Flushing(i)
  /\ Dragged(i) => ~Flushing(i)
  /\ flight[i] # None => ~Dragged(i) /\ ~Flushing(i) /\ ~Nudged(i)

\* What is shown of an item, by its owner: stored if it has none
Shows(i) ==
  /\ want[i] = live[i] /\ Ordered(live[i]) /\ Ordered(server[i])
  /\ queued[i] = None
  /\ flight[i] # None => flight[i].after = live[i] /\ flight[i].prev = server[i]
  /\ Nudged(i) => NudgeFits(nudge, live[i], server[i])
  /\ Dragged(i) => GestureFits(gesture, live[i])
  /\ flight[i] = None /\ ~Nudged(i) => live[i] = server[i]

\* A flush remembers what is stored and has patched what its clone shows
FlushFits(i) ==
  /\ io.before = server[i] /\ Patch(io.before, io.patch) = io.live[i] /\ Ordered(io.live[i])
  /\ io.nudge = None /\ (io.gesture # None => io.gesture.id # i)

\* An item the clone of other work may be adopted for is as in the planner
CloneFits(i) ==
  /\ io.live[i] = live[i]
  /\ io.nudge # None /\ io.nudge.id = i => 
       /\ NudgeFits(io.nudge, io.live[i], server[i]) /\ flight[i] = None
       /\ io.gesture # None => io.gesture.id # i
  /\ io.gesture # None /\ io.gesture.id = i => GestureFits(io.gesture, io.live[i]) /\ flight[i] = None
  /\ flight[i] = None /\ (io.nudge # None => io.nudge.id # i) => server[i] = io.live[i]

\* An item no two owners have met on
ItemInv(i) ==
  /\ OneOwner(i) /\ Shows(i)
  /\ io # None => IF io.id = i THEN FlushFits(i) ELSE i \notin touched => CloneFits(i)

\* The inductive invariant
PreviewInv ==
  /\ PreviewTypes
  /\ gesture # None => Pulled(gesture)
  /\ io # None => (io.gesture # None => Pulled(io.gesture)) /\ (io.id # None => io.before # None /\ io.patch # None)
  /\ \A i \in Ids : flight[i] = None => queued[i] = None
  /\ \A i \in Ids \ stray : ItemInv(i)

-----------------------------------------------------------------------------

\* had_start.then_some gives dates where the item had some
LEMMA KeepMoments ==
  ASSUME NEW span \in Spans, NEW had \in SUBSET Sides
  PROVE  Keep(span, had) \in Moments /\ Had(Keep(span, had)) = had
BY PreviewAssumption DEF Keep, Moments, Spans, Had, Sides

\* apply_optimistic_partial gives dates
LEMMA PatchMoments ==
  ASSUME NEW d \in Moments, NEW p \in Moments
  PROVE  Patch(d, p) \in Moments
BY DEF Patch, Moments

\* gantt_bar_display of a scheduled item: a span that gives the item's dates
\* back, in order, and a full bar where only the start is set
LEMMA ShownSpan ==
  ASSUME NEW d \in Moments, Had(d) # {}
  PROVE  /\ Shown(d) \in Spans /\ Keep(Shown(d), Had(d)) = d
         /\ Ordered(d) => Shown(d).s <= Shown(d).t
         /\ Had(d) = {"s"} => Shown(d).t = Shown(d).s + BarDays - 1
<1>1. d = [f \in Sides |-> d[f]] /\ d.s \in Int \cup {None} /\ d.t \in Int \cup {None}
  BY DEF Moments, Sides
<1>2. Shown(d) \in Spans
  BY <1>1, PreviewAssumption DEF Shown, Spans, Sides, Had
<1>3. Keep(Shown(d), Had(d)) = d
  BY <1>1, PreviewAssumption DEF Shown, Spans, Sides, Had, Keep
<1>4. Ordered(d) => Shown(d).s <= Shown(d).t
  BY <1>1, PreviewAssumption DEF Shown, Spans, Sides, Had, Keep, Ordered
<1>5. Had(d) = {"s"} => Shown(d).t = Shown(d).s + BarDays - 1
  BY <1>1, PreviewAssumption DEF Shown, Spans, Sides, Had
<1> QED BY <1>2, <1>3, <1>4, <1>5

\* A span some of whose sides are moved
LEMMA Shifted ==
  ASSUME NEW span \in Spans, NEW sides, NEW n \in Int
  PROVE  /\ Shift(span, sides, n) \in Spans
         /\ Shift(span, sides, n).s = IF "s" \in sides THEN span.s + n ELSE span.s
         /\ Shift(span, sides, n).t = IF "t" \in sides THEN span.t + n ELSE span.t
BY DEF Shift, Spans, Sides

\* Shown over what a nudge started from, the nudge is what is shown
LEMMA PatchKept ==
  ASSUME NEW span \in Spans, NEW orig \in Spans, NEW had \in SUBSET Sides
  PROVE  Patch(Keep(orig, had), Keep(span, had)) = Keep(span, had)
BY PreviewAssumption DEF Patch, Keep, Spans

\* A span in order gives dates in order
LEMMA KeepOrdered ==
  ASSUME NEW span \in Spans, NEW had \in SUBSET Sides, span.s <= span.t
  PROVE  Ordered(Keep(span, had))
BY PreviewAssumption DEF Keep, Ordered, Had, Spans, Sides

\* apply_nudge keeps the item, what it started from and the order of the bar
LEMMA NudgeOne ==
  ASSUME NEW p \in PendingNudge, NEW sides, NEW n \in Int
  PROVE  LET q == Nudged1(p, sides, n)
         IN  /\ q \in PendingNudge /\ q.id = p.id /\ q.orig = p.orig /\ q.had = p.had
             /\ p.span.s <= p.span.t => q.span.s <= q.span.t
<1>1. Shift(p.span, sides, n) \in Spans
  BY Shifted DEF PendingNudge
<1> QED BY <1>1 DEF Nudged1, PendingNudge

\* update_gesture keeps the item, where the drag started, its shape and the order
LEMMA DragOne ==
  ASSUME NEW g \in Gesture, NEW n \in Int, Pulled(g)
  PROVE  LET h == [g EXCEPT !.now = Dragging(g, n)]
         IN  /\ h \in Gesture /\ h.id = g.id /\ h.kind = g.kind /\ h.span = g.span /\ h.had = g.had
             /\ Pulled(h)
             /\ g.span.s <= g.span.t /\ g.now.s <= g.now.t => h.now.s <= h.now.t
<1> DEFINE now == Dragging(g, n)
           h == [g EXCEPT !.now = now]
<1>1. g.kind \in Kinds /\ g.span \in Spans /\ g.now \in Spans /\ g.had \in SUBSET Sides
  BY DEF Gesture
<1>2. now \in Spans
  BY <1>1, Shifted, PreviewAssumption DEF Dragging, Kinds, Spans, Sides
<1>3. CASE g.kind = "Move"
  <2>1. now = Shift(g.span, Sides, n)
    BY <1>3 DEF Dragging
  <2>2. now.s = g.span.s + n /\ now.t = g.span.t + n
    BY <2>1, <1>1, Shifted DEF Sides
  <2> HIDE DEF now
  <2>3. h \in Gesture /\ h.id = g.id /\ h.kind = g.kind /\ h.span = g.span /\ h.had = g.had /\ h.now = now
    BY <1>1, <1>2 DEF Gesture
  <2>4. g.span.s \in Int /\ g.span.t \in Int
    BY <1>1 DEF Spans, Sides
  <2>5. Pulled(h) /\ (g.span.s <= g.span.t => h.now.s <= h.now.t)
    BY <1>3, <2>2, <2>3, <2>4 DEF Pulled
  <2> QED BY <2>3, <2>5 DEF now
<1>4. CASE g.kind = "ResizeStart"
  <2>1. "s" \in g.had
    BY <1>4 DEF Pulled
  <2>2. g.span.s \in Int /\ g.span.t \in Int /\ g.now.s \in Int /\ g.now.t \in Int /\ BarDays \in Nat \ {0}
    BY <1>1, PreviewAssumption DEF Spans, Sides
  <2>3. IF "t" \in g.had THEN now.t = g.span.t /\ (now.s <= g.span.t \/ now = g.now)
        ELSE now.t = now.s + BarDays - 1
    BY <1>1, <1>4, <2>2, Shifted DEF Dragging, Pulled
  <2> HIDE DEF now
  <2>4. h \in Gesture /\ h.id = g.id /\ h.kind = g.kind /\ h.span = g.span /\ h.had = g.had /\ h.now = now
    BY <1>1, <1>2 DEF Gesture
  <2>5. now.s \in Int /\ now.t \in Int
    BY <1>2 DEF Spans, Sides
  <2>6. Pulled(h)
    BY <1>4, <2>1, <2>3, <2>4 DEF Pulled
  <2>7. g.span.s <= g.span.t /\ g.now.s <= g.now.t => h.now.s <= h.now.t
    BY <2>2, <2>3, <2>4, <2>5
  <2> QED BY <2>4, <2>6, <2>7 DEF now
<1>5. CASE g.kind = "ResizeEnd"
  <2>2. g.span.s \in Int /\ g.span.t \in Int /\ g.now.s \in Int /\ g.now.t \in Int
    BY <1>1 DEF Spans, Sides
  <2>3. now.s = g.span.s /\ (now.t >= g.span.s \/ now = g.now)
    BY <1>1, <1>5, <2>2, Shifted DEF Dragging, Pulled
  <2> HIDE DEF now
  <2>4. h \in Gesture /\ h.id = g.id /\ h.kind = g.kind /\ h.span = g.span /\ h.had = g.had /\ h.now = now
    BY <1>1, <1>2 DEF Gesture
  <2>5. now.s \in Int /\ now.t \in Int
    BY <1>2 DEF Spans, Sides
  <2>6. Pulled(h)
    BY <1>5, <2>3, <2>4 DEF Pulled
  <2>7. g.span.s <= g.span.t /\ g.now.s <= g.now.t => h.now.s <= h.now.t
    BY <2>2, <2>3, <2>4, <2>5
  <2> QED BY <2>4, <2>6, <2>7 DEF now
<1> QED BY <1>1, <1>3, <1>4, <1>5 DEF Kinds

\* gesture_patch_dates gives dates
LEMMA PatchDatesMoments ==
  ASSUME NEW g \in Gesture
  PROVE  PatchDates(g) \in Moments
<1>1. g.now \in Spans /\ g.had \in SUBSET Sides
  BY DEF Gesture
<1>2. Spans \subseteq Moments
  BY DEF Spans, Moments
<1> QED BY <1>1, <1>2, KeepMoments DEF PatchDates, Sides

\* What a drag commits: dates in order, and those the item had stay set
LEMMA CommitMoves ==
  ASSUME NEW g \in Gesture, NEW d \in Moments, Pulled(g), GestureFits(g, d), g.now # g.span
  PROVE  LET e == Patch(d, PatchDates(g)) IN e # d /\ Ordered(e)
<1>1. /\ g.now \in [Sides -> Int] /\ g.span \in [Sides -> Int] /\ g.had \in SUBSET Sides
      /\ g.kind \in Kinds /\ None \notin Int
  BY PreviewAssumption DEF Gesture, Spans
<1>2. g.now.s # g.span.s \/ g.now.t # g.span.t
  BY <1>1 DEF GestureFits, Sides
<1>3. /\ g.now.s \in Int /\ g.now.t \in Int /\ g.span.s \in Int /\ g.span.t \in Int
      /\ g.now.s <= g.now.t
  BY <1>1 DEF Sides, GestureFits
<1>4. /\ d.s = IF "s" \in g.had THEN g.span.s ELSE None
      /\ d.t = IF "t" \in g.had THEN g.span.t ELSE None
  BY DEF GestureFits, Keep, Sides
<1> DEFINE e == Patch(d, PatchDates(g))
<1>5. CASE g.had = {}
  <2>0. PatchDates(g) = g.now
    BY <1>1, <1>5 DEF PatchDates, Pulled, Kinds
  <2>1. e.s = g.now.s /\ e.t = g.now.t
    BY <1>1, <1>3, <2>0 DEF Patch, Sides
  <2> QED BY <2>1, <1>1, <1>3, <1>4, <1>5 DEF Ordered
<1>6. CASE g.had # {} /\ g.kind = "ResizeStart"
  <2>1. e.s = g.now.s /\ e.t = d.t
    BY <1>1, <1>3, <1>6 DEF PatchDates, Patch, Sides, Keep
  <2>2. g.now.s # g.span.s /\ "s" \in g.had
    BY <1>2, <1>3, <1>6, PreviewAssumption DEF Pulled
  <2>3. e # d
    BY <2>1, <2>2, <1>4
  <2>4. e.t = None \/ e.s <= e.t
    BY <2>1, <1>4, <1>3, <1>6 DEF Pulled
  <2> QED BY <2>3, <2>4 DEF Ordered, Had, Sides
<1>7. CASE g.had # {} /\ g.kind = "ResizeEnd"
  <2>1. e.s = d.s /\ e.t = g.now.t
    BY <1>1, <1>3, <1>7 DEF PatchDates, Patch, Sides, Keep
  <2>2. g.now.t # g.span.t /\ "s" \in g.had /\ g.now.s = g.span.s
    BY <1>2, <1>3, <1>7 DEF Pulled
  <2>3. e # d
    BY <2>1, <2>2, <1>4, <1>3, <1>1
  <2>4. e.s <= e.t
    BY <2>1, <2>2, <1>4, <1>3
  <2> QED BY <2>3, <2>4 DEF Ordered, Had, Sides
<1>8. CASE g.had # {} /\ g.kind = "Move"
  <2>1. /\ e.s = IF "s" \in g.had THEN g.now.s ELSE None
        /\ e.t = IF "t" \in g.had THEN g.now.t ELSE None
    BY <1>1, <1>3, <1>4, <1>8 DEF PatchDates, Patch, Sides, Keep
  <2>2. g.now.t - g.now.s = g.span.t - g.span.s
    BY <1>8 DEF Pulled
  <2>3. e # d
    BY <2>1, <2>2, <1>2, <1>4, <1>3, <1>1, <1>8 DEF Sides
  <2>4. e.s = None \/ e.t = None \/ e.s <= e.t
    BY <2>1, <1>3
  <2> QED BY <2>3, <2>4 DEF Ordered, Had, Sides
<1> QED BY <1>1, <1>5, <1>6, <1>7, <1>8 DEF Kinds

\* What the bookkeeping of a step says of an item it leaves out of stray
LEMMA MarkGives ==
  ASSUME NEW lost \in SUBSET Ids, Mark(lost), stray \subseteq Ids, touched \subseteq Ids,
         NEW i \in Ids \ stray'
  PROVE  /\ i \in Ids \ stray /\ i \notin lost /\ OneOwner(i)'
         /\ io # None /\ i \notin touched' => i \notin touched /\ live'[i] = live[i]
         /\ io = None => touched' = {}
<1>1. ~Shared(i)'
  BY DEF Mark
<1>2. OneOwner(i)'
  BY <1>1 DEF Shared, Owners, OneOwner
<1> QED BY <1>2 DEF Mark

\* The bookkeeping names items
LEMMA MarkTypes ==
  ASSUME NEW lost \in SUBSET Ids, Mark(lost), stray \subseteq Ids, touched \subseteq Ids
  PROVE  stray' \subseteq Ids /\ touched' \subseteq Ids
BY DEF Mark

\* A step that changes nothing of an item keeps what is known of it
LEMMA Untouched ==
  ASSUME NEW i \in Ids, ItemInv(i), OneOwner(i)', io' = io,
         live'[i] = live[i], server'[i] = server[i], want'[i] = want[i],
         flight'[i] = flight[i], queued'[i] = queued[i],
         nudge' = nudge \/ (~Nudged(i) /\ ~Nudged(i)'),
         gesture' = gesture \/ ~Dragged(i)',
         io # None /\ i \notin touched' => i \notin touched
  PROVE  ItemInv(i)'
<1>1. Shows(i)'
  BY DEF ItemInv, Shows, Nudged, Dragged
<1>2. io # None => IF io.id = i THEN FlushFits(i)' ELSE i \notin touched' => CloneFits(i)'
  BY DEF ItemInv, FlushFits, CloneFits
<1> QED BY <1>1, <1>2 DEF ItemInv

\* The queue, the clone and the gesture as the proofs of most steps leave them
LEMMA Rest ==
  ASSUME PreviewInv, io' = io, gesture' = gesture, flight' = flight, queued' = queued,
         PreviewTypes', \A i \in Ids \ stray' : ItemInv(i)'
  PROVE  PreviewInv'
BY DEF PreviewInv, Pulled

\* A key press that moves the selected bar: state.nudge
LEMMA NudgeKeeps ==
  ASSUME PreviewInv, NEW sides, NEW n \in {-1, 1}, Nudge(sides, n)
  PROVE  PreviewInv'
<1> DEFINE k == selected
           p == Nudged1(Pending(k), sides, n)
           d == Patch(live[k], Keep(p.span, p.had))
           lost == IF nudge # None /\ nudge.id # selected THEN {nudge.id} ELSE {}
<1>1. PreviewTypes /\ k \in Ids /\ live[k] \in Moments /\ Had(live[k]) \in SUBSET Sides
  BY DEF PreviewInv, PreviewTypes, Nudge, Had
<1>2. nudge # None => nudge \in PendingNudge /\ nudge.id \in Ids
  BY <1>1 DEF PreviewTypes, PendingNudge
<1>3. Pending(k) \in PendingNudge /\ Pending(k).id = k
  <2>1. CASE Nudged(k)
    BY <2>1, <1>2 DEF Pending, Nudged
  <2>2. CASE ~Nudged(k)
    BY <2>2, <1>1, ShownSpan DEF Pending, PendingNudge, Nudge
  <2> QED BY <2>1, <2>2
<1>4. n \in Int
  OBVIOUS
<1>5. /\ p \in PendingNudge /\ p.id = k /\ p.orig = Pending(k).orig /\ p.had = Pending(k).had
      /\ Pending(k).span.s <= Pending(k).span.t => p.span.s <= p.span.t
  BY <1>3, <1>4, NudgeOne
<1>6. p.span \in Spans /\ p.orig \in Spans /\ p.had \in SUBSET Sides /\ p # None
  BY <1>5, PreviewAssumption DEF PendingNudge
<1>7. d \in Moments
  BY <1>1, <1>6, KeepMoments, PatchMoments
<1>8. /\ nudge' = p /\ live' = [live EXCEPT ![k] = d] /\ want' = [want EXCEPT ![k] = d]
      /\ UNCHANGED <<gesture, selected, held, io, lanes, faults>> /\ Mark(lost)
      /\ edits' = edits + 1 /\ lastNudge' = edits' /\ timers' = timers \cup {edits'} /\ missed' = FALSE
  BY DEF Nudge, UserActs
<1> HIDE DEF p, d
<1>9. lost \in SUBSET Ids
  BY <1>2
<1>10. stray' \subseteq Ids /\ touched' \subseteq Ids
  BY <1>1, <1>8, <1>9, MarkTypes DEF PreviewTypes
<1>11. PreviewTypes'
  <2>1. live' \in [Ids -> Moments] /\ want' \in [Ids -> Moments]
    BY <1>1, <1>7, <1>8 DEF PreviewTypes
  <2>2. missed' \in BOOLEAN
    BY <1>8, Zenon
  <2>3. edits' \in Nat /\ lastNudge' \in Nat /\ timers' \subseteq Nat
    BY <1>1, <1>8 DEF PreviewTypes
  <2> QED BY <1>1, <1>5, <1>8, <1>10, <2>1, <2>2, <2>3 DEF PreviewTypes, lanes
<1>12. ASSUME NEW i \in Ids \ stray' PROVE ItemInv(i)'
  <2>1. /\ i \in Ids \ stray /\ i \notin lost /\ OneOwner(i)'
        /\ io # None /\ i \notin touched' => i \notin touched /\ live'[i] = live[i]
    BY <1>1, <1>8, <1>9, MarkGives DEF PreviewTypes
  <2>2. ItemInv(i)
    BY <2>1 DEF PreviewInv
  <2>3. CASE i # k
    <3>1. ~Nudged(i) /\ ~Nudged(i)'
      BY <2>1, <2>3, <1>5, <1>8 DEF Nudged
    <3> QED BY <2>1, <2>2, <2>3, <3>1, <1>1, <1>8, Untouched DEF PreviewTypes, lanes
  <2>4. CASE i = k
    <3>1. Nudged(i)' /\ flight[i] = None /\ flight' = flight /\ server' = server /\ queued' = queued
      BY <2>1, <2>4, <1>5, <1>6, <1>8 DEF Nudged, OneOwner, lanes
    <3>2. NudgeFits(Pending(k), live[k], server[k])
      <4>1. CASE Nudged(k)
        BY <4>1, <2>2, <2>4 DEF ItemInv, Shows, Pending
      <4>2. CASE ~Nudged(k)
        <5>1. live[k] = server[k] /\ Ordered(live[k])
          BY <4>2, <3>1, <2>2, <2>4 DEF ItemInv, Shows
        <5>2. Had(live[k]) # {}
          BY DEF Nudge
        <5> QED BY <5>1, <5>2, <4>2, <1>1, ShownSpan DEF NudgeFits, Pending
      <4> QED BY <4>1, <4>2
    <3>3. Keep(p.orig, p.had) = server[k] /\ Keep(Pending(k).span, p.had) = live[k]
          /\ p.span.s <= p.span.t /\ p.orig.s <= p.orig.t
      BY <3>2, <1>5 DEF NudgeFits
    <3>4. d = Keep(p.span, p.had)
      BY <3>3, <1>3, <1>6, PatchKept DEF d, PendingNudge
    <3>5. NudgeFits(p, d, server[k]) /\ Ordered(d)
      BY <3>3, <3>4, <1>6, KeepOrdered DEF NudgeFits
    <3>6. live'[i] = d /\ want'[i] = d
      BY <1>8, <1>1, <2>4 DEF PreviewTypes
    <3>7. ~Dragged(i)
      BY <1>8, <2>1, <3>1 DEF OneOwner, Dragged, Flushing
    <3>8. Shows(i)'
      BY <3>1, <3>5, <3>6, <3>7, <2>2, <2>4, <1>8 DEF ItemInv, Shows, Dragged
    <3>9. io # None => IF io.id = i THEN FlushFits(i)' ELSE i \notin touched' => CloneFits(i)'
      BY <2>1, <2>2, <3>1, <1>8 DEF ItemInv, FlushFits, CloneFits
    <3> QED BY <2>1, <3>8, <3>9, <1>8 DEF ItemInv
  <2> QED BY <2>3, <2>4
<1> QED BY <1>8, <1>11, <1>12, Rest DEF lanes

\* A step that touches no dates and no owner
LEMMA Still ==
  ASSUME PreviewInv, PreviewTypes',
         UNCHANGED <<live, nudge, gesture, io, lanes, want, marks>>
  PROVE  PreviewInv'
<1>1. ASSUME NEW i \in Ids \ stray' PROVE ItemInv(i)'
  <2>1. ItemInv(i) /\ i \in Ids
    BY <1>1 DEF PreviewInv, marks
  <2>2. OneOwner(i)'
    BY <2>1 DEF ItemInv, OneOwner, Dragged, Nudged, Flushing, lanes
  <2> QED BY <2>1, <2>2, Untouched DEF lanes, marks
<1> QED BY <1>1, Rest DEF lanes

\* A key press with nothing to move
LEMMA NudgeRefusedKeeps ==
  ASSUME PreviewInv, NudgeRefused
  PROVE  PreviewInv'
<1>1. PreviewTypes'
  BY DEF PreviewInv, PreviewTypes, NudgeRefused, UserActs, gantt, lanes, marks
<1> QED BY <1>1, Still DEF NudgeRefused, gantt

\* A rollup edge is pressed: only the selection changes
LEMMA SelectKeeps ==
  ASSUME PreviewInv, NEW j \in Ids, Select(j)
  PROVE  PreviewInv'
<1>1. PreviewTypes'
  BY DEF PreviewInv, PreviewTypes, Select, UserActs, lanes, marks
<1> QED BY <1>1, Still DEF Select

\* A span is a start and a target
LEMMA SpansAreMoments == Spans \subseteq Moments
BY DEF Spans, Moments

\* A nudge is given up: discard_nudge, select_relative_row
LEMMA NudgeLeaves ==
  ASSUME PreviewInv, nudge # None, nudge' = None, NEW d \in Moments,
         live' = [live EXCEPT ![nudge.id] = d], want' = [want EXCEPT ![nudge.id] = d],
         UNCHANGED <<gesture, io, lanes>>, NEW lost \in SUBSET Ids, Mark(lost),
         nudge.id \in lost \/ d = Keep(nudge.orig, nudge.had), PreviewTypes'
  PROVE  PreviewInv'
<1>1. ASSUME NEW i \in Ids \ stray' PROVE ItemInv(i)'
  <2>1. PreviewTypes /\ nudge \in PendingNudge
    BY DEF PreviewInv, PreviewTypes
  <2>2. /\ i \in Ids \ stray /\ i \notin lost /\ OneOwner(i)'
        /\ io # None /\ i \notin touched' => i \notin touched /\ live'[i] = live[i]
    BY <1>1, <2>1, MarkGives DEF PreviewTypes
  <2>3. ItemInv(i)
    BY <2>2 DEF PreviewInv
  <2>4. ~Nudged(i)'
    BY DEF Nudged
  <2>5. CASE i # nudge.id
    BY <2>1, <2>2, <2>3, <2>4, <2>5, Untouched DEF PreviewTypes, lanes, Nudged
  <2>6. CASE i = nudge.id
    <3>1. Nudged(i) /\ live'[i] = d /\ want'[i] = d /\ d = Keep(nudge.orig, nudge.had)
      BY <2>1, <2>2, <2>6 DEF PreviewTypes, Nudged
    <3>2. d = server[i] /\ flight[i] = None
      BY <2>3, <3>1 DEF ItemInv, Shows, NudgeFits, OneOwner
    <3>3. nudge.orig \in Spans /\ nudge.had \in SUBSET Sides /\ nudge.orig.s <= nudge.orig.t
      BY <2>1, <2>3, <3>1 DEF PendingNudge, ItemInv, Shows, NudgeFits
    <3>4. ~Dragged(i)'
      BY <2>3, <3>1 DEF ItemInv, OneOwner, Dragged, Flushing
    <3>5. Shows(i)'
      BY <2>3, <2>4, <3>1, <3>2, <3>3, <3>4, KeepOrdered DEF ItemInv, Shows, lanes
    <3>6. io # None => IF io.id = i THEN FlushFits(i)' ELSE i \notin touched' => CloneFits(i)'
      BY <2>2, <2>3 DEF ItemInv, FlushFits, CloneFits, lanes
    <3> QED BY <2>2, <3>5, <3>6 DEF ItemInv
  <2> QED BY <2>5, <2>6
<1> QED BY <1>1, Rest DEF lanes

\* A selection that finds no nudge to give up
LEMMA NoNudgeLeaves ==
  ASSUME PreviewInv, PreviewTypes', NEW lost \in SUBSET Ids, Mark(lost),
         UNCHANGED <<live, nudge, gesture, io, lanes, want>>
  PROVE  PreviewInv'
<1>1. ASSUME NEW i \in Ids \ stray' PROVE ItemInv(i)'
  <2>1. /\ i \in Ids \ stray /\ OneOwner(i)'
        /\ io # None /\ i \notin touched' => i \notin touched
    BY <1>1, MarkGives DEF PreviewInv, PreviewTypes
  <2> QED BY <2>1, Untouched DEF lanes, PreviewInv
<1> QED BY <1>1, Rest DEF lanes

\* A click on a row: the nudge of another item is given up
LEMMA ClickRowKeeps ==
  ASSUME PreviewInv, NEW j \in Ids, ClickRow(j)
  PROVE  PreviewInv'
<1>1. PreviewTypes
  BY DEF PreviewInv
<1>2. stray' \subseteq Ids /\ touched' \subseteq Ids
  BY <1>1, MarkTypes DEF PreviewTypes, ClickRow
<1>3. CASE nudge # None /\ nudge.id # j
  <2> DEFINE d == Keep(nudge.orig, nudge.had)
  <2>1. nudge.id \in Ids /\ d \in Moments
    BY <1>1, <1>3, KeepMoments DEF PreviewTypes, PendingNudge
  <2>2. /\ live' = [live EXCEPT ![nudge.id] = d] /\ want' = [want EXCEPT ![nudge.id] = d]
        /\ nudge' = None /\ lastNudge' = 0
    <3>1. live'[nudge.id] = d
      BY <1>1, <1>3, <2>1 DEF ClickRow, Restored, PreviewTypes
    <3> QED BY <1>3, <3>1 DEF ClickRow, Restored
  <2> HIDE DEF d
  <2>3. live' \in [Ids -> Moments] /\ want' \in [Ids -> Moments]
    BY <1>1, <2>1, <2>2 DEF PreviewTypes
  <2>4. PreviewTypes'
    BY <1>1, <1>2, <2>2, <2>3 DEF PreviewTypes, ClickRow, UserActs, lanes
  <2> QED BY <1>3, <2>1, <2>2, <2>4, NudgeLeaves DEF ClickRow, d
<1>4. CASE ~(nudge # None /\ nudge.id # j)
  <2>1. PreviewTypes'
    BY <1>1, <1>2, <1>4 DEF PreviewTypes, ClickRow, UserActs, lanes
  <2> QED BY <1>4, <2>1, NoNudgeLeaves DEF ClickRow
<1> QED BY <1>3, <1>4

\* Up and down: the nudge is given up
LEMMA SelectRelativeKeeps ==
  ASSUME PreviewInv, NEW j \in Ids, SelectRelative(j)
  PROVE  PreviewInv'
<1> DEFINE leaves == nudge # None /\ nudge.id # j
           lost == IF leaves /\ nudge.had # Sides THEN {nudge.id} ELSE {}
<1>1. PreviewTypes
  BY DEF PreviewInv
<1>2. nudge # None => nudge \in PendingNudge /\ nudge.id \in Ids
  BY <1>1 DEF PreviewTypes, PendingNudge
<1>3. Mark(lost) /\ lost \in SUBSET Ids
  BY <1>2 DEF SelectRelative
<1>4. stray' \subseteq Ids /\ touched' \subseteq Ids
  BY <1>1, <1>3, MarkTypes DEF PreviewTypes
<1>5. CASE leaves
  <2> DEFINE d == nudge.orig
  <2>1. d \in Moments /\ nudge.orig \in Spans
    BY <1>2, <1>5, SpansAreMoments DEF PendingNudge
  <2>2. /\ live' = [live EXCEPT ![nudge.id] = d] /\ want' = [want EXCEPT ![nudge.id] = d]
        /\ nudge' = None
    BY <1>5 DEF SelectRelative
  <2>3. nudge.id \in lost \/ d = Keep(nudge.orig, nudge.had)
    BY <1>5, <2>1 DEF Keep, Spans
  <2> HIDE DEF d, lost
  <2>4. live' \in [Ids -> Moments] /\ want' \in [Ids -> Moments]
    BY <1>1, <2>1, <2>2 DEF PreviewTypes
  <2>5. PreviewTypes'
    BY <1>1, <1>4, <2>2, <2>4 DEF PreviewTypes, SelectRelative, UserActs, lanes
  <2> QED BY <1>3, <1>5, <2>1, <2>2, <2>3, <2>5, NudgeLeaves DEF SelectRelative
<1>6. CASE ~leaves
  <2>1. UNCHANGED <<live, nudge, gesture, io, lanes, want>>
    BY <1>6 DEF SelectRelative
  <2>2. PreviewTypes'
    BY <1>1, <1>4, <2>1 DEF PreviewTypes, SelectRelative, UserActs, lanes
  <2> HIDE DEF lost
  <2> QED BY <1>3, <2>1, <2>2, NoNudgeLeaves
<1> QED BY <1>5, <1>6

\* The mouse is pressed on a bar: begin_gesture
LEMMA PressKeeps ==
  ASSUME PreviewInv, NEW k \in Ids, NEW kind \in Kinds, NEW today \in Days, Press(k, kind, today)
  PROVE  PreviewInv'
<1> DEFINE had == Had(live[k])
           span == IF had = {} THEN [s |-> today, t |-> today + BarDays - 1] ELSE Shown(live[k])
           g == [id |-> k, kind |-> kind, span |-> span, now |-> span, had |-> had]
<1>1. PreviewTypes /\ live[k] \in Moments /\ had \in SUBSET Sides /\ today \in Int
  BY PreviewAssumption DEF PreviewInv, PreviewTypes, Had
<1>2. span \in Spans
  BY <1>1, ShownSpan, PreviewAssumption DEF Spans, Sides
<1>3. g \in Gesture /\ g # None
  BY <1>1, <1>2, PreviewAssumption DEF Gesture
<1>4. gesture' = g /\ Mark({}) /\ (had \in {{}, {"t"}} => kind = "Move")
  BY DEF Press
<1>5. Pulled(g)
  BY <1>1, <1>4, ShownSpan DEF Pulled, Sides
<1>6. Ordered(live[k]) => GestureFits(g, live[k])
  <2>1. CASE had = {}
    BY <2>1, <1>1, PreviewAssumption DEF GestureFits, Keep, Moments, Had
  <2>2. CASE had # {}
    BY <2>2, <1>1, ShownSpan DEF GestureFits
  <2> QED BY <2>1, <2>2
<1>7. g.id = k
  OBVIOUS
<1> HIDE DEF g, span, had
<1>8. stray' \subseteq Ids /\ touched' \subseteq Ids
  BY <1>1, <1>4, MarkTypes DEF PreviewTypes
<1>9. PreviewTypes'
  <2>1. held' \in BOOLEAN
    BY Zenon DEF Press
  <2> QED BY <1>1, <1>3, <1>4, <1>8, <2>1 DEF PreviewTypes, Press, UserActs, lanes
<1>10. ASSUME NEW i \in Ids \ stray' PROVE ItemInv(i)'
  <2>1. /\ i \in Ids \ stray /\ OneOwner(i)'
        /\ io # None /\ i \notin touched' => i \notin touched
    BY <1>1, <1>4, MarkGives DEF PreviewTypes
  <2>2. ItemInv(i)
    BY <2>1 DEF PreviewInv
  <2>3. CASE i # k
    <3>1. ~Dragged(i)'
      BY <1>4, <1>7, <2>3 DEF Dragged
    <3> QED BY <2>1, <2>2, <3>1, Untouched DEF Press, lanes
  <2>4. CASE i = k
    <3>1. GestureFits(g, live[i])
      BY <1>6, <2>2, <2>4 DEF ItemInv, Shows
    <3>2. Shows(i)'
      BY <2>2, <3>1, <1>4 DEF Press, lanes, ItemInv, Shows, Nudged
    <3>3. io # None => IF io.id = i THEN FlushFits(i)' ELSE i \notin touched' => CloneFits(i)'
      BY <2>1, <2>2 DEF ItemInv, FlushFits, CloneFits, lanes, Press
    <3> QED BY <2>1, <3>2, <3>3 DEF ItemInv, Press
  <2> QED BY <2>3, <2>4
<1> QED BY <1>4, <1>5, <1>9, <1>10 DEF PreviewInv, Press, lanes

\* The mouse moves: only the gesture changes, what is shown does not
LEMMA DragKeeps ==
  ASSUME PreviewInv, NEW n \in Int, Drag(n)
  PROVE  PreviewInv'
<1> DEFINE h == [gesture EXCEPT !.now = Dragging(gesture, n)]
<1>1. PreviewTypes /\ gesture \in Gesture /\ Pulled(gesture) /\ gesture # None
  BY DEF PreviewInv, PreviewTypes, Drag
<1>2. /\ h \in Gesture /\ h.id = gesture.id /\ h.span = gesture.span /\ h.had = gesture.had /\ Pulled(h)
      /\ gesture.span.s <= gesture.span.t /\ gesture.now.s <= gesture.now.t => h.now.s <= h.now.t
  BY <1>1, DragOne
<1>3. gesture' = h /\ h # None
  BY <1>2, PreviewAssumption DEF Drag
<1>4. UNCHANGED <<live, nudge, io, lanes, want, marks>>
  BY DEF Drag
<1> HIDE DEF h
<1>5. PreviewTypes'
  BY <1>1, <1>2, <1>3 DEF PreviewTypes, Drag, lanes, marks, counters
<1>6. ASSUME NEW i \in Ids \ stray' PROVE ItemInv(i)'
  <2>1. ItemInv(i)
    BY <1>4, <1>6 DEF PreviewInv, marks
  <2>2. OneOwner(i)'
    BY <1>1, <1>2, <1>3, <1>4, <2>1 DEF ItemInv, OneOwner, Dragged, Nudged, Flushing, lanes
  <2>3. Dragged(i)' => GestureFits(gesture, live[i])'
    BY <1>1, <1>2, <1>3, <1>4, <2>1 DEF ItemInv, Shows, Dragged, GestureFits
  <2>4. Shows(i)'
    BY <1>4, <2>1, <2>3 DEF ItemInv, Shows, Nudged, lanes
  <2>5. io # None => IF io.id = i THEN FlushFits(i)' ELSE i \notin touched' => CloneFits(i)'
    BY <1>4, <2>1 DEF ItemInv, FlushFits, CloneFits, lanes, marks
  <2> QED BY <1>4, <2>2, <2>4, <2>5 DEF ItemInv
<1> QED BY <1>2, <1>3, <1>4, <1>5, <1>6 DEF PreviewInv, lanes

\* cancel_gesture: an item of one owner shows what is stored again
LEMMA CancelKeeps ==
  ASSUME PreviewInv, PreviewTypes', CancelGesture, UNCHANGED <<io, lanes>>,
         NEW lost \in SUBSET Ids, Mark(lost)
  PROVE  PreviewInv'
<1>1. PreviewTypes /\ gesture' = None /\ nudge' = None /\ live' = Cancelled
  BY DEF PreviewInv, CancelGesture
<1>2. ASSUME NEW i \in Ids \ stray' PROVE ItemInv(i)'
  <2>1. /\ i \in Ids \ stray /\ OneOwner(i)'
        /\ io # None /\ i \notin touched' => i \notin touched /\ live'[i] = live[i]
    BY <1>1, <1>2, MarkGives DEF PreviewTypes
  <2>2. ItemInv(i)
    BY <2>1 DEF PreviewInv
  <2>3. ~Nudged(i)' /\ ~Dragged(i)'
    BY <1>1 DEF Nudged, Dragged
  <2>4. ~(Nudged(i) /\ Dragged(i))
    BY <2>2 DEF ItemInv, OneOwner
  <2>5. live'[i] = IF Nudged(i) THEN Keep(nudge.orig, nudge.had)
                   ELSE IF Dragged(i) THEN Keep(gesture.span, gesture.had) ELSE live[i]
    <3> DEFINE dragged == IF gesture = None THEN live
                 ELSE [live EXCEPT ![gesture.id] = Keep(gesture.span, gesture.had)]
    <3>1. DOMAIN live = Ids /\ DOMAIN dragged = Ids
      BY <1>1 DEF PreviewTypes
    <3>2. dragged[i] = IF Dragged(i) THEN Keep(gesture.span, gesture.had) ELSE live[i]
      BY <3>1 DEF Dragged
    <3>3. live' = IF nudge = None THEN dragged
                  ELSE [dragged EXCEPT ![nudge.id] = Keep(nudge.orig, nudge.had)]
      BY <1>1 DEF Cancelled
    <3> HIDE DEF dragged
    <3> QED BY <3>1, <3>2, <3>3 DEF Nudged
  <2>6. want'[i] = live'[i]
    BY <2>2 DEF CancelGesture, ItemInv, Shows
  <2>7. CASE Nudged(i)
    <3>1. live'[i] = server[i] /\ Ordered(server[i]) /\ flight[i] = None
      BY <2>2, <2>5, <2>7 DEF ItemInv, Shows, NudgeFits, OneOwner
    <3>2. Shows(i)'
      BY <2>2, <2>3, <2>6, <3>1 DEF ItemInv, Shows, lanes
    <3>3. io # None => IF io.id = i THEN FlushFits(i)' ELSE i \notin touched' => CloneFits(i)'
      BY <2>1, <2>2 DEF ItemInv, FlushFits, CloneFits, lanes
    <3> QED BY <2>1, <3>2, <3>3 DEF ItemInv
  <2>8. CASE ~Nudged(i)
    <3>1. live'[i] = live[i]
      BY <2>2, <2>5, <2>8 DEF ItemInv, Shows, GestureFits
    <3>2. want'[i] = want[i]
      BY <2>6, <3>1, <2>2 DEF ItemInv, Shows
    <3> QED BY <2>1, <2>2, <2>3, <2>8, <3>1, <3>2, Untouched DEF lanes
  <2> QED BY <2>7, <2>8
<1> QED BY <1>1, <1>2 DEF PreviewInv, lanes

\* cancel_gesture keeps the types
LEMMA CancelTypes ==
  ASSUME PreviewInv, CancelGesture
  PROVE  /\ live' \in [Ids -> Moments] /\ want' \in [Ids -> Moments]
         /\ gesture' = None /\ nudge' = None
<1>1. PreviewTypes
  BY DEF PreviewInv
<1>2. gesture # None => gesture.id \in Ids /\ Keep(gesture.span, gesture.had) \in Moments
  BY <1>1, KeepMoments DEF PreviewTypes, Gesture
<1>3. nudge # None => nudge.id \in Ids /\ Keep(nudge.orig, nudge.had) \in Moments
  BY <1>1, KeepMoments DEF PreviewTypes, PendingNudge
<1> DEFINE dragged == IF gesture = None THEN live
                 ELSE [live EXCEPT ![gesture.id] = Keep(gesture.span, gesture.had)]
<1>4. dragged \in [Ids -> Moments]
  BY <1>1, <1>2 DEF PreviewTypes
<1>5. live' = IF nudge = None THEN dragged
              ELSE [dragged EXCEPT ![nudge.id] = Keep(nudge.orig, nudge.had)]
  BY DEF CancelGesture, Cancelled
<1> HIDE DEF dragged
<1>6. live' \in [Ids -> Moments]
  BY <1>3, <1>4, <1>5
<1>7. want' \in [Ids -> Moments]
  BY <1>1, <1>6 DEF CancelGesture, PreviewTypes
<1> QED BY <1>6, <1>7 DEF CancelGesture

\* A drag is committed and saved: commit_date_gesture_now, drain_date_saves
LEMMA CommitKeeps ==
  ASSUME PreviewInv, gesture # None, gesture.now # gesture.span, CommitGesture,
         UNCHANGED <<io, server, selected, lastNudge, timers, missed, counters>>, held' = FALSE,
         NEW lost \in SUBSET Ids, Mark(lost)
  PROVE  PreviewInv'
<1> DEFINE k == gesture.id
           d == Patch(live[k], PatchDates(gesture))
           save == [after |-> d, prev |-> live[k]]
<1>1. PreviewTypes /\ gesture \in Gesture /\ k \in Ids /\ Pulled(gesture) /\ live[k] \in Moments
  BY DEF PreviewInv, PreviewTypes, Gesture
<1>2. d \in Moments
  BY <1>1, PatchMoments, PatchDatesMoments
<1>3. save \in DateSave /\ save # None /\ save.after = d /\ save.prev = live[k]
  BY <1>1, <1>2, PreviewAssumption DEF DateSave
<1>4. GestureFits(gesture, live[k]) => d # live[k] /\ Ordered(d)
  BY <1>1, CommitMoves
<1>5. /\ live' = [live EXCEPT ![k] = d] /\ want' = [want EXCEPT ![k] = d]
      /\ gesture' = None /\ nudge' = nudge /\ Submit(k, save)
  BY DEF CommitGesture
<1> HIDE DEF k, d, save
<1>6. stray' \subseteq Ids /\ touched' \subseteq Ids
  BY <1>1, MarkTypes DEF PreviewTypes
<1>7. /\ live' \in [Ids -> Moments] /\ want' \in [Ids -> Moments]
      /\ flight' \in [Ids -> DateSave \cup {None}] /\ queued' \in [Ids -> DateSave \cup {None}]
  BY <1>1, <1>2, <1>3, <1>5 DEF PreviewTypes, Submit
<1>8. PreviewTypes'
  <2>1. held' \in BOOLEAN
    BY Zenon
  <2> QED BY <1>1, <1>5, <1>6, <1>7, <2>1 DEF PreviewTypes, counters
<1>9. \A i \in Ids : flight'[i] = None => queued'[i] = None
  BY <1>1, <1>3, <1>5 DEF PreviewInv, PreviewTypes, Submit
<1>10. ASSUME NEW i \in Ids \ stray' PROVE ItemInv(i)'
  <2>1. /\ i \in Ids \ stray /\ OneOwner(i)'
        /\ io # None /\ i \notin touched' => i \notin touched /\ live'[i] = live[i]
    BY <1>1, <1>10, MarkGives DEF PreviewTypes
  <2>2. ItemInv(i)
    BY <2>1 DEF PreviewInv
  <2>3. ~Dragged(i)'
    BY <1>5 DEF Dragged
  <2>4. CASE i # k
    <3>1. live'[i] = live[i] /\ want'[i] = want[i] /\ flight'[i] = flight[i] /\ queued'[i] = queued[i]
      BY <1>1, <1>5, <2>1, <2>4 DEF PreviewTypes, Submit
    <3> QED BY <1>5, <2>1, <2>2, <2>3, <3>1, Untouched
  <2>5. CASE i = k
    <3>1. Dragged(i)
      BY <2>5 DEF Dragged, k
    <3>2. /\ GestureFits(gesture, live[i]) /\ flight[i] = None /\ ~Nudged(i) /\ ~Flushing(i)
          /\ server[i] = live[i] /\ queued[i] = None
      BY <2>2, <3>1 DEF ItemInv, Shows, OneOwner
    <3>3. d # live[i] /\ Ordered(d)
      BY <1>4, <2>5, <3>2
    <3>4. live'[i] = d /\ want'[i] = d /\ flight'[i] = save /\ queued'[i] = None
      BY <1>1, <1>5, <2>5, <3>2 DEF PreviewTypes, Submit
    <3>5. ~Nudged(i)'
      BY <1>5, <3>2 DEF Nudged
    <3>6. Shows(i)'
      BY <1>3, <2>2, <2>3, <2>5, <3>2, <3>3, <3>4, <3>5 DEF ItemInv, Shows
    <3>7. io # None => io.id # i /\ i \in touched'
      BY <2>1, <3>2, <3>3, <3>4 DEF Flushing
    <3> QED BY <2>1, <3>6, <3>7 DEF ItemInv
  <2> QED BY <2>4, <2>5
<1> QED BY <1>5, <1>8, <1>9, <1>10 DEF PreviewInv

\* The button is released: the drag is committed, or had not moved
LEMMA ReleaseKeeps ==
  ASSUME PreviewInv, Release
  PROVE  PreviewInv'
<1> DEFINE lost == IF gesture # None /\ Nudged(gesture.id) THEN {gesture.id} ELSE {}
<1>1. PreviewTypes /\ Mark(lost) /\ lost \in SUBSET Ids
  BY DEF PreviewInv, PreviewTypes, Release, Gesture
<1> HIDE DEF lost
<1>2. stray' \subseteq Ids /\ touched' \subseteq Ids
  BY <1>1, MarkTypes DEF PreviewTypes
<1>3. held' = FALSE /\ held' \in BOOLEAN
  BY Zenon DEF Release
<1>4. CASE gesture = None
  <2>1. UNCHANGED <<live, nudge, gesture, io, lanes, want>>
    BY <1>4 DEF Release, lanes
  <2>2. PreviewTypes'
    BY <1>1, <1>2, <1>3, <2>1 DEF PreviewTypes, Release, counters, lanes
  <2> QED BY <1>1, <2>1, <2>2, NoNudgeLeaves
<1>5. CASE gesture # None /\ gesture.now = gesture.span
  <2>1. CancelGesture /\ UNCHANGED <<io, lanes>>
    BY <1>5 DEF Release, lanes
  <2>2. PreviewTypes'
    BY <1>1, <1>2, <1>3, <2>1, CancelTypes DEF PreviewTypes, Release, counters, lanes
  <2> QED BY <1>1, <2>1, <2>2, CancelKeeps
<1>6. CASE gesture # None /\ gesture.now # gesture.span
  <2>1. CommitGesture
    BY <1>6 DEF Release
  <2>2. UNCHANGED <<io, server, selected, lastNudge, timers, missed, counters>>
    BY DEF Release
  <2> QED BY <1>1, <1>3, <1>6, <2>1, <2>2, CommitKeeps
<1> QED BY <1>4, <1>5, <1>6

\* Escape: dismiss_all_overlays cancels the gesture
LEMMA EscapeKeeps ==
  ASSUME PreviewInv, Escape
  PROVE  PreviewInv'
<1>1. PreviewTypes /\ CancelGesture /\ Mark({}) /\ UNCHANGED <<io, lanes>>
  BY DEF PreviewInv, Escape
<1>2. stray' \subseteq Ids /\ touched' \subseteq Ids
  BY <1>1, MarkTypes DEF PreviewTypes
<1>3. PreviewTypes'
  BY <1>1, <1>2, CancelTypes DEF PreviewTypes, Escape, counters, lanes
<1> QED BY <1>1, <1>3, CancelKeeps

\* A date save answers Ok: the item has what it shows stored
LEMMA SaveOkKeeps ==
  ASSUME PreviewInv, NEW k \in Ids, SaveOk(k)
  PROVE  PreviewInv'
<1> DEFINE sent == flight[k]
           next == IF live[k] # sent.after THEN [after |-> live[k], prev |-> sent.after]
                   ELSE IF queued[k] # None /\ queued[k].after = live[k] THEN queued[k]
                   ELSE None
<1>1. PreviewTypes /\ sent \in DateSave /\ live[k] \in Moments /\ queued[k] \in DateSave \cup {None}
  BY DEF PreviewInv, PreviewTypes, SaveOk
<1>2. sent.after \in Moments /\ next \in DateSave \cup {None}
  BY <1>1 DEF DateSave
<1>3. /\ server' = [server EXCEPT ![k] = sent.after] /\ flight' = [flight EXCEPT ![k] = next]
      /\ queued' = [queued EXCEPT ![k] = None] /\ Mark({})
      /\ UNCHANGED <<live, gantt, held, timers, io, want, missed, counters>>
  BY DEF SaveOk
<1>4. queued[k] = None /\ live[k] = sent.after => next = None
  OBVIOUS
<1> HIDE DEF next
<1>5. stray' \subseteq Ids /\ touched' \subseteq Ids
  BY <1>1, <1>3, MarkTypes DEF PreviewTypes
<1>6. /\ server' \in [Ids -> Moments] /\ flight' \in [Ids -> DateSave \cup {None}]
      /\ queued' \in [Ids -> DateSave \cup {None}]
  BY <1>1, <1>2, <1>3 DEF PreviewTypes
<1>7. PreviewTypes'
  BY <1>1, <1>3, <1>5, <1>6 DEF PreviewTypes, gantt, counters
<1>8. \A i \in Ids : flight'[i] = None => queued'[i] = None
  BY <1>1, <1>3 DEF PreviewInv, PreviewTypes
<1>9. ASSUME NEW i \in Ids \ stray' PROVE ItemInv(i)'
  <2>1. /\ i \in Ids \ stray /\ OneOwner(i)'
        /\ io # None /\ i \notin touched' => i \notin touched
    BY <1>1, <1>3, <1>9, MarkGives DEF PreviewTypes
  <2>2. ItemInv(i)
    BY <2>1 DEF PreviewInv
  <2>3. CASE i # k
    <3>1. server'[i] = server[i] /\ flight'[i] = flight[i] /\ queued'[i] = queued[i]
      BY <1>1, <1>3, <2>1, <2>3 DEF PreviewTypes
    <3> QED BY <1>3, <2>1, <2>2, <3>1, Untouched DEF gantt
  <2>4. CASE i = k
    <3>1. /\ flight[i] # None /\ ~Dragged(i) /\ ~Nudged(i) /\ ~Flushing(i)
          /\ sent.after = live[i] /\ queued[i] = None /\ want[i] = live[i] /\ Ordered(live[i])
      BY <2>2, <2>4 DEF SaveOk, ItemInv, OneOwner, Shows
    <3>2. server'[i] = live[i] /\ flight'[i] = None /\ queued'[i] = None
      BY <1>1, <1>3, <1>4, <2>4, <3>1 DEF PreviewTypes
    <3>3. ~Nudged(i)' /\ ~Dragged(i)'
      BY <1>3, <3>1 DEF gantt, Nudged, Dragged
    <3>4. Shows(i)'
      BY <1>3, <3>1, <3>2, <3>3 DEF Shows
    <3>5. io # None => io.id # i /\ (i \notin touched' => CloneFits(i)')
      BY <1>3, <2>1, <2>2, <3>1, <3>2 DEF Flushing, ItemInv, CloneFits
    <3> QED BY <1>3, <2>1, <3>4, <3>5 DEF ItemInv
  <2> QED BY <2>3, <2>4
<1> QED BY <1>3, <1>7, <1>8, <1>9 DEF PreviewInv, gantt, Pulled

\* A date save fails: its dates go back to those it remembers, which are stored
LEMMA SaveErrKeeps ==
  ASSUME PreviewInv, NEW k \in Ids, NEW applied \in BOOLEAN, SaveErr(k, applied)
  PROVE  PreviewInv'
<1> DEFINE sent == flight[k]
           back == IF live[k] = sent.after THEN sent.prev ELSE live[k]
           next == IF queued[k] # None /\ queued[k].after = back THEN queued[k] ELSE None
           lost == IF applied THEN {k} ELSE {}
<1>1. PreviewTypes /\ sent \in DateSave /\ live[k] \in Moments /\ queued[k] \in DateSave \cup {None}
  BY DEF PreviewInv, PreviewTypes, SaveErr
<1>2. sent.after \in Moments /\ back \in Moments /\ next \in DateSave \cup {None}
  BY <1>1 DEF DateSave
<1>3. /\ server' = IF applied THEN [server EXCEPT ![k] = sent.after] ELSE server
      /\ live' = [live EXCEPT ![k] = back]
      /\ want' = [want EXCEPT ![k] = IF live[k] = sent.after THEN back ELSE @]
      /\ flight' = [flight EXCEPT ![k] = next]
      /\ queued' = [queued EXCEPT ![k] = None] /\ Mark(lost) /\ lost \in SUBSET Ids
      /\ UNCHANGED <<gantt, held, timers, io, missed, edits>> /\ faults' = faults + 1
  <2>1. live'[k] = back
    BY <1>1 DEF SaveErr, PreviewTypes
  <2> QED BY <2>1 DEF SaveErr
<1>4. queued[k] = None => next = None
  OBVIOUS
<1> HIDE DEF next
<1>5. stray' \subseteq Ids /\ touched' \subseteq Ids
  BY <1>1, <1>3, MarkTypes DEF PreviewTypes
<1>6. /\ server' \in [Ids -> Moments] /\ live' \in [Ids -> Moments] /\ want' \in [Ids -> Moments]
      /\ flight' \in [Ids -> DateSave \cup {None}] /\ queued' \in [Ids -> DateSave \cup {None}]
  BY <1>1, <1>2, <1>3 DEF PreviewTypes
<1>7. PreviewTypes'
  BY <1>1, <1>3, <1>5, <1>6 DEF PreviewTypes, gantt
<1>8. \A i \in Ids : flight'[i] = None => queued'[i] = None
  BY <1>1, <1>3 DEF PreviewInv, PreviewTypes
<1>9. ASSUME NEW i \in Ids \ stray' PROVE ItemInv(i)'
  <2>1. /\ i \in Ids \ stray /\ OneOwner(i)' /\ i \notin lost
        /\ io # None /\ i \notin touched' => i \notin touched /\ live'[i] = live[i]
    BY <1>1, <1>3, <1>9, MarkGives DEF PreviewTypes
  <2>2. ItemInv(i)
    BY <2>1 DEF PreviewInv
  <2>3. CASE i # k
    <3>1. /\ server'[i] = server[i] /\ flight'[i] = flight[i] /\ queued'[i] = queued[i]
          /\ live'[i] = live[i] /\ want'[i] = want[i]
      BY <1>1, <1>3, <2>1, <2>3 DEF PreviewTypes
    <3> QED BY <1>3, <2>1, <2>2, <3>1, Untouched DEF gantt
  <2>4. CASE i = k
    <3>1. /\ flight[i] # None /\ ~Dragged(i) /\ ~Nudged(i) /\ ~Flushing(i)
          /\ sent.after = live[i] /\ sent.prev = server[i] /\ queued[i] = None
          /\ want[i] = live[i] /\ Ordered(server[i])
      BY <2>2, <2>4 DEF SaveErr, ItemInv, OneOwner, Shows
    <3>2. ~applied /\ back = server[i]
      BY <2>1, <2>4, <3>1
    <3>3. /\ server'[i] = server[i] /\ live'[i] = server[i] /\ want'[i] = server[i]
          /\ flight'[i] = None /\ queued'[i] = None
      BY <1>1, <1>3, <1>4, <2>4, <3>1, <3>2 DEF PreviewTypes
    <3>4. ~Nudged(i)' /\ ~Dragged(i)'
      BY <1>3, <3>1 DEF gantt, Nudged, Dragged
    <3>5. Shows(i)'
      BY <3>1, <3>3, <3>4 DEF Shows
    <3>6. io # None => io.id # i /\ (i \notin touched' => CloneFits(i)')
      BY <1>3, <2>1, <2>2, <3>1, <3>3 DEF Flushing, ItemInv, CloneFits
    <3> QED BY <1>3, <2>1, <3>5, <3>6 DEF ItemInv
  <2> QED BY <2>3, <2>4
<1> QED BY <1>3, <1>7, <1>8, <1>9 DEF PreviewInv, gantt, Pulled

\* Other work takes a clone of the whole planner: it agrees with it on every item
LEMMA StartOtherKeeps ==
  ASSUME PreviewInv, StartOther
  PROVE  PreviewInv'
<1> DEFINE w == OtherWork
<1>1. PreviewTypes /\ io = None /\ io' = w /\ Mark({})
      /\ UNCHANGED <<live, gantt, held, timers, lanes, want, missed, faults>>
  BY DEF PreviewInv, StartOther
<1>2. w \in Work /\ w # None
  BY <1>1, PreviewAssumption DEF OtherWork, Work, PreviewTypes
<1>3. w.id = None /\ w.live = live /\ w.nudge = nudge /\ w.gesture = gesture
  BY DEF OtherWork
<1> HIDE DEF w
<1>4. stray' \subseteq Ids /\ touched' \subseteq Ids
  BY <1>1, MarkTypes DEF PreviewTypes
<1>5. PreviewTypes'
  BY <1>1, <1>2, <1>4 DEF PreviewTypes, gantt, lanes, StartOther, UserActs
<1>6. ASSUME NEW i \in Ids \ stray' PROVE ItemInv(i)'
  <2>1. i \in Ids \ stray /\ OneOwner(i)'
    BY <1>1, <1>6, MarkGives DEF PreviewTypes
  <2>2. ItemInv(i) /\ i # None
    BY <2>1, PreviewAssumption DEF PreviewInv
  <2>3. Shows(i)'
    BY <1>1, <2>2 DEF ItemInv, Shows, Nudged, Dragged, gantt, lanes
  <2>4. OneOwner(i)
    BY <2>2 DEF ItemInv
  <2>5. CloneFits(i)'
    BY <1>1, <1>2, <1>3, <2>2, <2>4 DEF ItemInv, Shows, OneOwner, CloneFits, Nudged, Dragged, Flushing, gantt, lanes
  <2> QED BY <1>1, <1>2, <1>3, <2>1, <2>2, <2>3, <2>5 DEF ItemInv
<1> QED BY <1>1, <1>2, <1>3, <1>5, <1>6 DEF PreviewInv, gantt, lanes, Pulled

\* The idle flush takes its clone and patches it, with the nudge cleared there
LEMMA FlushStarts ==
  ASSUME PreviewInv, nudge # None, io = None, io' = FlushWork, Mark({}), timers' \subseteq Nat,
         UNCHANGED <<live, gantt, held, lanes, want, missed, counters>>
  PROVE  PreviewInv'
<1> DEFINE w == FlushWork
           k == nudge.id
           before == Keep(nudge.orig, nudge.had)
           patch == Keep(nudge.span, nudge.had)
<1>1. PreviewTypes /\ nudge \in PendingNudge /\ k \in Ids
      /\ nudge.orig \in Spans /\ nudge.span \in Spans /\ nudge.had \in SUBSET Sides
  BY DEF PreviewInv, PreviewTypes, PendingNudge
<1>2. before \in Moments /\ patch \in Moments /\ Patch(before, patch) = patch
  BY <1>1, KeepMoments, PatchKept
<1>3. before # None /\ patch # None
  BY <1>2, PreviewAssumption
<1>4. /\ w.id = k /\ w.before = before /\ w.patch = patch
      /\ w.live = [live EXCEPT ![k] = Patch(before, patch)]
      /\ w.nudge = None /\ w.gesture = gesture
  BY DEF FlushWork
<1>5. w \in Work
  <2> HIDE DEF before, patch
  <2>1. [live EXCEPT ![k] = Patch(before, patch)] \in [Ids -> Moments]
    BY <1>1, <1>2 DEF PreviewTypes
  <2> QED BY <1>1, <1>2, <2>1 DEF FlushWork, Work, PreviewTypes, before, patch
<1>6. w # None
  BY <1>5, PreviewAssumption
<1> HIDE DEF w, before, patch, k
<1>7. io' = w
  BY DEF w
<1>8. stray' \subseteq Ids /\ touched' \subseteq Ids
  BY <1>1, MarkTypes DEF PreviewTypes
<1>9. PreviewTypes'
  BY <1>1, <1>5, <1>7, <1>8 DEF PreviewTypes, gantt, lanes, counters
<1>10. ASSUME NEW i \in Ids \ stray' PROVE ItemInv(i)'
  <2>1. i \in Ids \ stray /\ OneOwner(i)'
    BY <1>1, <1>10, MarkGives DEF PreviewTypes
  <2>2. ItemInv(i) /\ OneOwner(i)
    BY <2>1 DEF PreviewInv, ItemInv
  <2>3. Shows(i)'
    BY <2>2 DEF ItemInv, Shows, Nudged, Dragged, gantt, lanes
  <2>4. CASE i = k
    <3>1. NudgeFits(nudge, live[i], server[i])
      BY <2>2, <2>4 DEF ItemInv, Shows, Nudged, k
    <3>2. before = server[i] /\ Ordered(patch)
      BY <3>1, <1>1, KeepOrdered DEF NudgeFits, before, patch
    <3>3. w.live[i] = patch
      BY <1>1, <1>2, <1>4, <2>4 DEF PreviewTypes
    <3>4. gesture # None => gesture.id # i
      BY <2>1, <1>6, <1>7, <1>4, <2>4 DEF OneOwner, Dragged, Flushing, gantt
    <3>5. FlushFits(i)'
      BY <1>2, <1>4, <1>7, <3>2, <3>3, <3>4 DEF FlushFits, lanes
    <3> QED BY <1>4, <1>7, <2>1, <2>3, <2>4, <3>5 DEF ItemInv
  <2>5. CASE i # k
    <3>1. ~Nudged(i)
      BY <2>5 DEF Nudged, k
    <3>2. w.live[i] = live[i]
      BY <1>1, <1>4, <2>1, <2>5 DEF PreviewTypes
    <3>3. CloneFits(i)'
      BY <1>4, <1>7, <2>2, <3>1, <3>2 DEF CloneFits, ItemInv, Shows, OneOwner, Dragged, gantt, lanes
    <3> QED BY <1>4, <1>7, <2>1, <2>3, <2>5, <3>3 DEF ItemInv
  <2> QED BY <2>4, <2>5
<1> QED BY <1>3, <1>4, <1>7, <1>9, <1>10 DEF PreviewInv, gantt, lanes, Pulled

\* The idle timer fires: a flush, a retry or nothing
LEMMA FireTimerKeeps ==
  ASSUME PreviewInv, FireTimer
  PROVE  PreviewInv'
<1> PICK s \in timers :
      /\ timers' = timers \ {s}
      /\ io' = IF Idle(s) /\ io = None THEN FlushWork ELSE io
      /\ missed' = (missed \/ (Idle(s) /\ io # None))
      /\ UNCHANGED <<live, gantt, held, lanes, want, counters>>
      /\ Mark({})
  BY DEF FireTimer
<1>1. PreviewTypes
  BY DEF PreviewInv
<1>2. timers' \subseteq Nat
  BY <1>1 DEF PreviewTypes
<1>3. stray' \subseteq Ids /\ touched' \subseteq Ids
  BY <1>1, MarkTypes DEF PreviewTypes
<1>4. CASE Idle(s) /\ io = None
  <2>1. missed' = missed
    BY <1>1, <1>4, Zenon DEF PreviewTypes
  <2> QED BY <1>2, <1>4, <2>1, FlushStarts DEF Idle
<1>5. CASE ~(Idle(s) /\ io = None)
  <2>1. missed' \in BOOLEAN
    BY Zenon
  <2>2. PreviewTypes'
    BY <1>1, <1>2, <1>3, <1>5, <2>1 DEF PreviewTypes, gantt, lanes, counters
  <2> QED BY <1>5, <2>2, NoNudgeLeaves DEF gantt
<1> QED BY <1>4, <1>5

\* A clone replaces the planner: an item nobody touched since is as it was, and
\* the flushed one is as the flush left it
LEMMA AdoptKeeps ==
  ASSUME PreviewInv, io # None, NEW dates \in [Ids -> Moments], NEW lost \in SUBSET Ids,
         Adopt(dates, lost), server' \in [Ids -> Moments], faults' \in Nat,
         \A i \in Ids : i # io.id => dates[i] = io.live[i] /\ server'[i] = server[i],
         \A i \in Ids : i = io.id /\ i \notin lost /\ FlushFits(i) /\ Ordered(server[i])
                          => dates[i] = server'[i] /\ Ordered(dates[i])
  PROVE  PreviewInv'
<1> DEFINE drops == io.selected # selected /\ io.nudge # None /\ io.nudge.id # io.selected
           all == lost \cup touched \cup (IF drops THEN {io.nudge.id} ELSE {})
<1>1. PreviewTypes /\ io \in Work
  BY DEF PreviewInv, PreviewTypes
<1>2. /\ io.nudge \in PendingNudge \cup {None} /\ io.gesture \in Gesture \cup {None}
      /\ io.selected \in Ids \cup {None} /\ io.lastNudge \in Nat /\ io.id \in Ids \cup {None}
  BY <1>1 DEF Work
<1>3. io.nudge # None => io.nudge.id \in Ids
  BY <1>2 DEF PendingNudge
<1>4. /\ live' = dates /\ want' = IF io.id = None THEN want ELSE [want EXCEPT ![io.id] = dates[io.id]]
      /\ gesture' = io.gesture /\ selected' = io.selected /\ lastNudge' = io.lastNudge
      /\ nudge' = IF drops /\ io.selected # None THEN None ELSE io.nudge
      /\ io' = None /\ missed' = (missed \/ (io.nudge # None /\ io.nudge # nudge))
      /\ UNCHANGED <<held, timers, flight, queued, edits>> /\ Mark(all)
  BY DEF Adopt
<1>5. all \in SUBSET Ids /\ touched \subseteq all /\ lost \subseteq all
  BY <1>1, <1>3 DEF PreviewTypes
<1> HIDE DEF all, drops
<1>6. stray' \subseteq Ids /\ touched' \subseteq Ids
  BY <1>1, <1>4, <1>5, MarkTypes DEF PreviewTypes
<1>7. want' \in [Ids -> Moments]
  BY <1>1, <1>2, <1>4 DEF PreviewTypes
<1>8. missed' \in BOOLEAN
  BY <1>4, Zenon
<1>9. PreviewTypes'
  BY <1>1, <1>2, <1>4, <1>6, <1>7, <1>8 DEF PreviewTypes
<1>10. ASSUME NEW i \in Ids \ stray' PROVE ItemInv(i)'
  <2>1. i \in Ids \ stray /\ i \notin all /\ OneOwner(i)'
    BY <1>1, <1>4, <1>5, <1>10, MarkGives DEF PreviewTypes
  <2>2. ItemInv(i) /\ OneOwner(i) /\ Shows(i)
    BY <2>1 DEF PreviewInv, ItemInv
  <2>3. i \notin touched /\ i \notin lost /\ i # None
    BY <1>5, <2>1, PreviewAssumption
  <2>4. CASE i = io.id
    <3>1. FlushFits(i) /\ dates[i] = server'[i] /\ Ordered(dates[i])
      BY <2>2, <2>3, <2>4 DEF ItemInv, Shows
    <3>2. ~Nudged(i)' /\ ~Dragged(i)'
      BY <1>4, <3>1 DEF FlushFits, Nudged, Dragged
    <3>3. flight[i] = None
      BY <2>2, <2>4 DEF OneOwner, Flushing
    <3>4. want'[i] = dates[i]
      BY <1>1, <1>4, <2>3, <2>4 DEF PreviewTypes
    <3>5. Shows(i)'
      BY <1>4, <2>2, <3>1, <3>2, <3>3, <3>4 DEF Shows
    <3> QED BY <1>4, <2>1, <3>5 DEF ItemInv
  <2>5. CASE i # io.id
    <3>1. CloneFits(i)
      BY <2>2, <2>3, <2>5 DEF ItemInv
    <3>2. live'[i] = live[i] /\ server'[i] = server[i] /\ want'[i] = want[i]
      BY <1>1, <1>2, <1>4, <2>1, <2>5, <3>1 DEF CloneFits, PreviewTypes
    <3>3. Nudged(i)' => io.nudge # None /\ io.nudge.id = i /\ nudge' = io.nudge
      BY <1>4 DEF Nudged
    <3>4. Dragged(i)' => io.gesture # None /\ io.gesture.id = i /\ gesture' = io.gesture
      BY <1>4 DEF Dragged
    <3>5. ~Nudged(i)' => (io.nudge # None => io.nudge.id # i)
      BY <1>4, <2>1 DEF Nudged, all, drops
    <3>6. Shows(i)'
      <4>1. want'[i] = live'[i] /\ Ordered(live'[i]) /\ Ordered(server'[i]) /\ queued'[i] = None
        BY <1>4, <2>2, <3>2 DEF Shows
      <4>2. flight'[i] # None => flight'[i].after = live'[i] /\ flight'[i].prev = server'[i]
        BY <1>4, <2>2, <3>2 DEF Shows
      <4>3. Nudged(i)' => NudgeFits(nudge, live[i], server[i])'
        BY <3>1, <3>2, <3>3 DEF CloneFits
      <4>4. Dragged(i)' => GestureFits(gesture, live[i])'
        BY <3>1, <3>2, <3>4 DEF CloneFits
      <4>5. flight'[i] = None /\ ~Nudged(i)' => live'[i] = server'[i]
        BY <1>4, <3>1, <3>2, <3>5 DEF CloneFits
      <4> QED BY <4>1, <4>2, <4>3, <4>4, <4>5 DEF Shows
    <3> QED BY <1>4, <2>1, <3>6 DEF ItemInv
  <2> QED BY <2>4, <2>5
<1> QED BY <1>4, <1>9, <1>10 DEF PreviewInv, Pulled

\* The job answers Ok: what the flush sent is stored
LEMMA FinishOkKeeps ==
  ASSUME PreviewInv, FinishOk
  PROVE  PreviewInv'
<1>1. PreviewTypes /\ io \in Work /\ io.live \in [Ids -> Moments] /\ io.id \in Ids \cup {None}
  BY DEF PreviewInv, PreviewTypes, FinishOk, Work
<1>2. io.id # None => io.patch \in Moments
  BY <1>1 DEF PreviewInv, FinishOk, Work
<1>3. server' \in [Ids -> Moments] /\ faults' \in Nat
  BY <1>1, <1>2, PatchMoments DEF FinishOk, PreviewTypes
<1>4. \A i \in Ids : i # io.id => server'[i] = server[i]
  BY <1>1 DEF FinishOk, PreviewTypes
<1>5. ASSUME NEW i \in Ids, i = io.id, FlushFits(i)
      PROVE  io.live[i] = server'[i] /\ Ordered(io.live[i])
  <2>1. server'[i] = Patch(server[i], io.patch)
    BY <1>1, <1>5, PreviewAssumption DEF FinishOk, PreviewTypes
  <2> QED BY <1>5, <2>1 DEF FlushFits
<1> QED BY <1>1, <1>3, <1>4, <1>5, AdoptKeeps DEF FinishOk

\* The flush fails: the clone goes back to the dates from before the nudge
LEMMA FinishErrKeeps ==
  ASSUME PreviewInv, NEW applied \in BOOLEAN, FinishErr(applied)
  PROVE  PreviewInv'
<1> DEFINE dates == [io.live EXCEPT ![io.id] = io.before]
           lost == IF applied THEN {io.id} ELSE {}
<1>1. PreviewTypes /\ io \in Work /\ io # None /\ io.live \in [Ids -> Moments] /\ io.id \in Ids
  BY DEF PreviewInv, PreviewTypes, FinishErr, Work
<1>2. io.patch \in Moments /\ io.before \in Moments
  BY <1>1 DEF PreviewInv, FinishErr, Work
<1>3. server' \in [Ids -> Moments] /\ faults' \in Nat
  BY <1>1, <1>2, PatchMoments DEF FinishErr, PreviewTypes
<1>4. dates \in [Ids -> Moments] /\ lost \in SUBSET Ids /\ Adopt(dates, lost)
  BY <1>1, <1>2 DEF FinishErr
<1>5. \A i \in Ids : i # io.id => dates[i] = io.live[i] /\ server'[i] = server[i]
  BY <1>1 DEF FinishErr, PreviewTypes
<1>6. ASSUME NEW i \in Ids, i = io.id, i \notin lost, FlushFits(i), Ordered(server[i])
      PROVE  dates[i] = server'[i] /\ Ordered(dates[i])
  <2>1. ~applied /\ dates[i] = io.before
    BY <1>1, <1>6
  <2>2. server'[i] = server[i]
    BY <2>1 DEF FinishErr
  <2> QED BY <1>6, <2>1, <2>2 DEF FlushFits
<1> HIDE DEF dates, lost
<1> QED BY <1>1, <1>3, <1>4, <1>5, <1>6, AdoptKeeps

\* Items are loaded as they are stored, and nothing owns them
LEMMA InitInv ==
  ASSUME PreviewInit
  PROVE  PreviewInv
<1>1. Starts \subseteq Moments /\ \A d \in Starts : Ordered(d)
  BY PreviewAssumption DEF Dates, Moments, Ordered
<1>2. live \in [Ids -> Starts] /\ server = live /\ want = live
  BY DEF PreviewInit
<1>3. live \in [Ids -> Moments] /\ server \in [Ids -> Moments] /\ want \in [Ids -> Moments]
  BY <1>1, <1>2
<1>4. held \in BOOLEAN /\ missed \in BOOLEAN
  BY Zenon DEF PreviewInit
<1>5. PreviewTypes
  BY <1>3, <1>4 DEF PreviewInit, PreviewTypes
<1>6. ASSUME NEW i \in Ids PROVE ItemInv(i)
  BY <1>1, <1>2 DEF PreviewInit, ItemInv, OneOwner, Shows, Dragged, Nudged, Flushing
<1> QED BY <1>5, <1>6 DEF PreviewInit, PreviewInv

\* No step breaks the invariant
LEMMA StepInv ==
  ASSUME PreviewInv, [PreviewNext]_vars
  PROVE  PreviewInv'
<1>1. CASE KeyStep
  BY <1>1, NudgeKeeps, NudgeRefusedKeeps, EscapeKeeps, SelectKeeps, SelectRelativeKeeps DEF KeyStep
<1>2. CASE MouseStep
  <2>1. {x - y : x, y \in Days} \subseteq Int
    BY PreviewAssumption
  <2> QED BY <1>2, <2>1, PressKeeps, ClickRowKeeps, DragKeeps, ReleaseKeeps DEF MouseStep
<1>3. CASE StartOther \/ FireTimer
  BY <1>3, StartOtherKeeps, FireTimerKeeps
<1>4. CASE Finished
  BY <1>4, FinishOkKeeps, FinishErrKeeps DEF Finished
<1>5. CASE Answered
  BY <1>5, SaveOkKeeps, SaveErrKeeps DEF Answered
<1>6. CASE UNCHANGED vars
  <2>1. PreviewTypes'
    BY <1>6 DEF vars, gantt, lanes, marks, counters, PreviewInv, PreviewTypes
  <2> QED BY <1>6, <2>1, Still DEF vars, gantt
<1> QED BY <1>1, <1>2, <1>3, <1>4, <1>5, <1>6 DEF PreviewNext

\* The inductive invariant: who owns the dates of an item and what each owner
\* remembers of them, whatever is pressed, saved, flushed and adopted in between
THEOREM PreviewInvariant == PreviewSpec => []PreviewInv
BY InitInv, StepInv, PTL DEF PreviewSpec

\* The planner's, the pipeline's and the clone's dates and owners keep their
\* types for every set of items and dates
THEOREM PreviewTypeOK == PreviewSpec => []PreviewTypes
<1>1. PreviewInv => PreviewTypes
  BY DEF PreviewInv
<1> QED BY <1>1, PreviewInvariant, PTL

\* PreviewsSettle for every number of items, key presses, drags and failures: an
\* item nobody previews, saves or flushes shows what Azure DevOps holds, which is
\* what it was last given or put back to
THEOREM QuietSettles == PreviewSpec => []PreviewsSettle
<1>1. ASSUME PreviewInv, NEW i \in Ids \ stray, Quiet(i)
      PROVE  live[i] = server[i] /\ live[i] = want[i]
  <2>1. Shows(i)
    BY <1>1 DEF PreviewInv, ItemInv
  <2>2. ~Nudged(i) /\ flight[i] = None
    BY <1>1 DEF Quiet, Owners, Flushing
  <2> QED BY <2>1, <2>2 DEF Shows
<1>2. PreviewInv => PreviewsSettle
  BY <1>1 DEF PreviewsSettle
<1> QED BY <1>2, PreviewInvariant, PTL

\* StartBeforeTarget for every number of nudges, drags, saves and failures: no
\* bar ends before it starts, neither as shown nor as stored
THEOREM BarsKeepOrder == PreviewSpec => []StartBeforeTarget
<1>1. PreviewInv => StartBeforeTarget
  BY DEF PreviewInv, ItemInv, Shows, Ordered, StartBeforeTarget
<1> QED BY <1>1, PreviewInvariant, PTL

=============================================================================
