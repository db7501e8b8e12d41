--------------------------- MODULE LinkSavesProofs ---------------------------
(***************************************************************************)
(* Proofs about LinkSaves, for every set of links and any number of edits  *)
(* and faults.                                                             *)
(*                                                                         *)
(* A job ends by putting its clone in place of the state, so every promise *)
(* about the state is kept for the clone too while the job runs: neither   *)
(* lacks a link of the server, and what either shows beyond the server has *)
(* a save to come, in the queue or in the job.  The invariant is stated of *)
(* the view a handler passes from call to call, with the links the server  *)
(* holds and those whose last request failed.                              *)
(***************************************************************************)
EXTENDS LinkSaves, TLAPS

\* What one handler reads and replaces, as a record
Views == [state : Planner, io : {None} \cup Job, queue : Seq(Links),
          waiting : {None} \cup Action, unsaved : SUBSET Links]

\* No link is queued twice
Distinct(q) == \A m, n \in DOMAIN q : q[m] = q[n] => m = n

\* The link the running job persists
Persisting(v) == IF v.io # None /\ v.io.kind = "persist" THEN {v.io.link} ELSE {}

\* The links shown beyond the server's that are accounted for
Awaited(v, bad) == Range(v.queue) \cup bad \cup v.unsaved \cup Persisting(v)

\* Types, and no link queued twice
Shape(v) == v \in Views /\ Distinct(v.queue)

\* Links of rows shown: nothing of the server is missing, all else is accounted for
Shown(v, links, srv, bad) == srv \ bad \subseteq links /\ links \ srv \subseteq Awaited(v, bad)

\* A toast whose undo is a request about a link
OffersLink(toast) == toast # None /\ toast.kind \in {"RemoveLink", "RestoreLink"}

\* With no job running
Idle(v) ==
  /\ v.unsaved \cap Range(v.queue) = {} /\ v.unsaved \subseteq v.state.links
  /\ OffersLink(v.state.toast) => Range(v.queue) \subseteq v.state.links

\* What a job finds on its clone
JobFits(j) ==
  /\ j.kind = "undo" => j.clone.undo # << >>
  /\ j.kind = "redo" => j.clone.redo # << >>
  /\ j.kind \in {"persist", "remove", "RemoveLink", "RestoreLink"} => j.link \in Links
  /\ j.kind = "persist" => j.link \in j.clone.links

\* With a job running
Busy(v, srv, bad) ==
  /\ JobFits(v.io)
  /\ v.io.clone.links \subseteq v.state.links
  /\ Shown(v, v.io.clone.links, srv, bad)
  /\ v.unsaved \cap Range(v.queue) \cap v.io.clone.links = {}
  /\ v.io.kind = "persist" => v.io.link \notin Range(v.queue) \cup v.unsaved
  /\ IsToastUndo(v.io) => /\ v.waiting = None
                          /\ v.unsaved \cap Range(v.queue) = {}
                          /\ Range(v.queue) \cup v.unsaved \subseteq v.state.links

\* What a view promises between handlers
Fit(v, srv, bad) ==
  /\ Shape(v) /\ Shown(v, v.state.links, srv, bad)
  /\ v.io = None => Idle(v)
  /\ v.io # None => Busy(v, srv, bad)

\* Nothing waits for work that is not there
Rested(v) == v.io = None => v.waiting = None

\* The inductive invariant
LinkInv ==
  /\ server \in SUBSET Links /\ stray \in SUBSET Links
  /\ Fit(View, server, stray) /\ Rested(View)

-----------------------------------------------------------------------------
\* RemoveAt closes the gap.
LEMMA RemoveAtFields ==
  ASSUME NEW T, NEW q \in Seq(T), NEW m \in 1..Len(q)
  PROVE  /\ RemoveAt(q, m) \in Seq(T) /\ Len(RemoveAt(q, m)) = Len(q) - 1
         /\ \A n \in 1..(Len(q) - 1) :
              RemoveAt(q, m)[n] = IF n < m THEN q[n] ELSE q[n + 1]
<1> DEFINE a == SubSeq(q, 1, m - 1)
           b == SubSeq(q, m + 1, Len(q))
<1>1. a \in Seq(T) /\ Len(a) = m - 1 /\ \A n \in 1..(m - 1) : a[n] = q[n]
  OBVIOUS
<1>2. b \in Seq(T) /\ Len(b) = Len(q) - m /\ \A n \in 1..(Len(q) - m) : b[n] = q[n + m]
  OBVIOUS
<1>3. RemoveAt(q, m) = a \o b
  BY DEF RemoveAt
<1> HIDE DEF a, b
<1>4. a \o b \in Seq(T) /\ Len(a \o b) = Len(q) - 1
  <2>1. a \in Seq(T) /\ b \in Seq(T)
    BY <1>1, <1>2
  <2>2. a \o b \in Seq(T) /\ Len(a \o b) = Len(a) + Len(b)
    BY <2>1
  <2>3. (m - 1) + (Len(q) - m) = Len(q) - 1
    BY Len(q) \in Nat
  <2> QED
    BY <1>1, <1>2, <2>2, <2>3
<1>5. ASSUME NEW n \in 1..(Len(q) - 1) PROVE (a \o b)[n] = IF n < m THEN q[n] ELSE q[n + 1]
  <2>1. CASE n < m
    BY <1>1, <1>2, <2>1
  <2>2. CASE ~(n < m)
    <3>1. (a \o b)[n] = b[n - (m - 1)]
      BY <1>1, <1>2, <2>2
    <3>2. n - (m - 1) \in 1..(Len(q) - m) /\ (n - (m - 1)) + m = n + 1
      BY <2>2
    <3> QED
      BY <1>2, <2>2, <3>1, <3>2
  <2> QED
    BY <2>1, <2>2
<1> QED
  BY <1>3, <1>4, <1>5

\* The last element and the rest of a non-empty sequence.
LEMMA FrontLast ==
  ASSUME NEW T, NEW q \in Seq(T), q # << >>
  PROVE  /\ Front(q) \in Seq(T) /\ Last(q) \in T /\ Len(Front(q)) = Len(q) - 1
         /\ \A n \in 1..(Len(q) - 1) : Front(q)[n] = q[n]
<1>1. Len(q) \in Nat /\ Len(q) > 0 /\ Len(q) \in 1..Len(q)
  OBVIOUS
<1>2. Last(q) \in T
  BY <1>1 DEF Last
<1> DEFINE p == SubSeq(q, 1, Len(q) - 1)
<1>3. p \in Seq(T) /\ Len(p) = Len(q) - 1 /\ \A n \in 1..(Len(q) - 1) : p[n] = q[n]
  <2>1. \A m \in 1..Len(q) :
          /\ SubSeq(q, 1, m - 1) \in Seq(T) /\ Len(SubSeq(q, 1, m - 1)) = m - 1
          /\ \A n \in 1..(m - 1) : SubSeq(q, 1, m - 1)[n] = q[n]
    OBVIOUS
  <2> QED
    BY <1>1, <2>1
<1> QED
  BY <1>2, <1>3 DEF Front

\* Appending adds to what a sequence holds.
LEMMA RangeAppend ==
  ASSUME NEW T, NEW q \in Seq(T), NEW x \in T
  PROVE  Append(q, x) \in Seq(T) /\ Range(Append(q, x)) = Range(q) \cup {x}
<1> DEFINE p == Append(q, x)
<1>1. /\ p \in Seq(T) /\ DOMAIN p = 1..(Len(q) + 1) /\ DOMAIN q = 1..Len(q) /\ Len(q) \in Nat
      /\ p[Len(q) + 1] = x /\ \A n \in 1..Len(q) : p[n] = q[n]
  OBVIOUS
<1> HIDE DEF p
<1>2. Range(p) \subseteq Range(q) \cup {x}
  <2>1. ASSUME NEW n \in DOMAIN p PROVE p[n] \in Range(q) \cup {x}
    <3>1. n = Len(q) + 1 \/ n \in 1..Len(q)
      BY <1>1
    <3> QED
      BY <1>1, <3>1 DEF Range
  <2> QED
    BY <2>1 DEF Range
<1>3. x \in Range(p)
  <2>1. Len(q) + 1 \in DOMAIN p
    BY <1>1
  <2> QED
    BY <1>1, <2>1 DEF Range
<1>4. Range(q) \subseteq Range(p)
  <2>1. ASSUME NEW n \in DOMAIN q PROVE q[n] \in Range(p)
    <3>1. n \in DOMAIN p /\ p[n] = q[n]
      BY <1>1
    <3> QED
      BY <3>1 DEF Range
  <2> QED
    BY <2>1 DEF Range
<1>5. p \in Seq(T) /\ Range(p) = Range(q) \cup {x}
  BY <1>1, <1>2, <1>3, <1>4
<1> QED
  BY <1>5 DEF p

\* Taking a link out of a queue that holds it once (RemoveFirst).
LEMMA RemoveFields ==
  ASSUME NEW q \in Seq(Links), NEW l, Distinct(q)
  PROVE  /\ RemoveFirst(q, l) \in Seq(Links) /\ Distinct(RemoveFirst(q, l))
         /\ Range(RemoveFirst(q, l)) = Range(q) \ {l}
<1> DEFINE r == RemoveFirst(q, l)
<1>1. CASE ~(\E i \in 1..Len(q) : q[i] = l)
  <2>1. r = q
    BY <1>1 DEF RemoveFirst
  <2>2. l \notin Range(q)
    BY <1>1, DOMAIN q = 1..Len(q) DEF Range
  <2> QED
    BY <2>1, <2>2
<1>2. CASE \E i \in 1..Len(q) : q[i] = l
  <2>1. PICK m \in 1..Len(q) : q[m] = l
    BY <1>2
  <2>2. DOMAIN q = 1..Len(q) /\ Len(q) \in Nat
    OBVIOUS
  <2>3. {i \in 1..Len(q) : q[i] = l} = {m}
    BY <2>1, <2>2 DEF Distinct
  <2>4. Min({m}) = m
    BY m \in Int DEF Min
  <2>5. SelectInSeq(q, LAMBDA v : v = l) = m
    BY <2>3, <2>4 DEF SelectInSeq
  <2>6. r = RemoveAt(q, m)
    BY <1>2, <2>5 DEF RemoveFirst
  <2>7. /\ r \in Seq(Links) /\ Len(r) = Len(q) - 1
        /\ \A n \in 1..(Len(q) - 1) : r[n] = IF n < m THEN q[n] ELSE q[n + 1]
    BY <2>1, <2>6, RemoveAtFields
  <2> HIDE DEF r
  <2>8. DOMAIN r = 1..(Len(q) - 1)
    BY <2>2, <2>7
  <2>9. Distinct(r)
    BY <2>2, <2>7, <2>8 DEF Distinct
  <2>10. ASSUME NEW x \in Range(r) PROVE x \in Range(q) \ {l}
    <3>1. PICK n \in 1..(Len(q) - 1) : r[n] = x
      BY <2>8 DEF Range
    <3>2. \E k \in 1..Len(q) : k # m /\ q[k] = x
      BY <2>1, <2>7, <3>1
    <3> QED
      BY <2>1, <2>2, <3>2 DEF Distinct, Range
  <2>11. ASSUME NEW x \in Range(q) \ {l} PROVE x \in Range(r)
    <3>1. PICK n \in 1..Len(q) : q[n] = x
      BY <2>2 DEF Range
    <3>2. n # m
      BY <2>1, <3>1
    <3>3. CASE n < m
      BY <2>7, <2>8, <3>1, <3>3 DEF Range
    <3>4. CASE n > m
      <4>1. n - 1 \in 1..(Len(q) - 1) /\ ~(n - 1 < m) /\ (n - 1) + 1 = n
        BY <3>4
      <4>2. r[n - 1] = x
        BY <2>7, <3>1, <4>1
      <4> QED
        BY <2>8, <4>1, <4>2 DEF Range
    <3> QED
      BY <3>2, <3>3, <3>4
  <2> QED
    BY <2>7, <2>9, <2>10, <2>11 DEF r
<1> QED
  BY <1>1, <1>2

\* The head of a queue and what is behind it.
LEMMA HeadTail ==
  ASSUME NEW q \in Seq(Links), q # << >>, Distinct(q)
  PROVE  /\ Head(q) \in Links /\ Tail(q) \in Seq(Links) /\ Distinct(Tail(q))
         /\ Head(q) \in Range(q) /\ Range(Tail(q)) = Range(q) \ {Head(q)}
<1>1. /\ DOMAIN q = 1..Len(q) /\ Len(q) \in Nat /\ Len(q) > 0 /\ Head(q) = q[1]
      /\ \A n \in 1..Len(q) : q[n] \in Links
  OBVIOUS
<1>2. /\ Tail(q) \in Seq(Links) /\ DOMAIN Tail(q) = 1..(Len(q) - 1)
      /\ \A n \in 1..(Len(q) - 1) : Tail(q)[n] = q[n + 1]
  OBVIOUS
<1> DEFINE t == Tail(q)
<1> HIDE DEF t
<1>3. Distinct(t)
  BY <1>1, <1>2 DEF Distinct, t
<1>4. ASSUME NEW x \in Range(t) PROVE x \in Range(q) \ {q[1]}
  <2>1. PICK n \in 1..(Len(q) - 1) : t[n] = x
    BY <1>2, <1>4 DEF Range, t
  <2>2. n + 1 \in 1..Len(q) /\ q[n + 1] = x /\ 1 \in 1..Len(q) /\ n + 1 # 1
    BY <1>1, <1>2, <2>1 DEF t
  <2> QED
    BY <1>1, <2>2 DEF Distinct, Range
<1>5. ASSUME NEW x \in Range(q) \ {q[1]} PROVE x \in Range(t)
  <2>1. PICK n \in 1..Len(q) : q[n] = x
    BY <1>1 DEF Range
  <2>2. n - 1 \in 1..(Len(q) - 1) /\ (n - 1) + 1 = n
    BY <2>1
  <2>3. t[n - 1] = x
    BY <1>2, <2>1, <2>2 DEF t
  <2> QED
    BY <1>2, <2>2, <2>3 DEF Range, t
<1>6. q[1] \in Range(q) /\ q[1] \in Links
  BY <1>1 DEF Range
<1> QED
  BY <1>1, <1>2, <1>3, <1>4, <1>5, <1>6 DEF t

-----------------------------------------------------------------------------
\* The kinds of work that hold io_busy
Kinds == {"persist", "remove", "undo", "redo", "RemoveLink", "RestoreLink", "load"}

\* The fields of a view
LEMMA ViewFields ==
  ASSUME NEW v \in Views
  PROVE  /\ v.state \in Planner /\ v.io \in {None} \cup Job /\ v.queue \in Seq(Links)
         /\ v.waiting \in {None} \cup Action /\ v.unsaved \in SUBSET Links
         /\ v.state.links \in SUBSET Links /\ v.state.undo \in Seq(Entry)
         /\ v.state.redo \in Seq(Entry) /\ v.state.toast \in {None} \cup Action
BY DEF Views, Planner

\* The fields of a job
LEMMA JobFields ==
  ASSUME NEW j \in Job
  PROVE  /\ j # None /\ j.kind \in Kinds /\ j.link \in Links \cup {None} /\ j.clone \in Planner
         /\ j.clone.links \in SUBSET Links /\ j.clone.undo \in Seq(Entry)
         /\ j.clone.redo \in Seq(Entry) /\ j.clone.toast \in {None} \cup Action
BY LinksAssumption DEF Job, Planner, Kinds

\* What the calls of a handler replace in its view.
LEMMA SetState ==
  ASSUME NEW v \in Views, NEW s \in Planner
  PROVE  LET e == [v EXCEPT !.state = s]
         IN  /\ e \in Views /\ e.state = s /\ e.io = v.io /\ e.queue = v.queue
             /\ e.waiting = v.waiting /\ e.unsaved = v.unsaved
BY DEF Views

\* Replacing the state and the queue
LEMMA SetStateQueue ==
  ASSUME NEW v \in Views, NEW s \in Planner, NEW q \in Seq(Links)
  PROVE  LET e == [v EXCEPT !.state = s, !.queue = q]
         IN  /\ e \in Views /\ e.state = s /\ e.io = v.io /\ e.queue = q
             /\ e.waiting = v.waiting /\ e.unsaved = v.unsaved
BY DEF Views

\* Replacing the waiting undo
LEMMA SetWaiting ==
  ASSUME NEW v \in Views, NEW a \in {None} \cup Action
  PROVE  LET e == [v EXCEPT !.waiting = a]
         IN  /\ e \in Views /\ e.state = v.state /\ e.io = v.io /\ e.queue = v.queue
             /\ e.waiting = a /\ e.unsaved = v.unsaved
BY DEF Views

\* Replacing the links taken out of the queue unsaved
LEMMA SetUnsaved ==
  ASSUME NEW v \in Views, NEW u \in SUBSET Links
  PROVE  LET e == [v EXCEPT !.unsaved = u]
         IN  /\ e \in Views /\ e.state = v.state /\ e.io = v.io /\ e.queue = v.queue
             /\ e.waiting = v.waiting /\ e.unsaved = u
BY DEF Views

\* Replacing the job
LEMMA SetIo ==
  ASSUME NEW v \in Views, NEW j \in {None} \cup Job
  PROVE  LET e == [v EXCEPT !.io = j]
         IN  /\ e \in Views /\ e.state = v.state /\ e.io = j /\ e.queue = v.queue
             /\ e.waiting = v.waiting /\ e.unsaved = v.unsaved
BY DEF Views

\* A job starts on a clone of the state, when none runs (spawn_state).
LEMMA StartFields ==
  ASSUME NEW v \in Views, NEW kind \in Kinds, NEW l \in Links \cup {None}, v.io = None
  PROVE  LET e == Start(v, kind, l)
         IN  /\ e \in Views /\ e.state = v.state /\ e.queue = v.queue
             /\ e.waiting = v.waiting /\ e.unsaved = v.unsaved
             /\ e.io # None /\ e.io \in Job
             /\ e.io.kind = kind /\ e.io.link = l /\ e.io.clone = v.state
<1> DEFINE j == [kind |-> kind, link |-> l, clone |-> v.state]
<1>1. j \in Job /\ j.kind = kind /\ j.link = l /\ j.clone = v.state
  BY ViewFields DEF Job, Kinds
<1>2. Start(v, kind, l) = [v EXCEPT !.io = j]
  BY DEF Start
<1> HIDE DEF j
<1> QED
  BY <1>1, <1>2, SetIo, JobFields

\* A link is taken out of the queue
LEMMA DequeueFields ==
  ASSUME NEW v \in Views, NEW l \in Links, Distinct(v.queue)
  PROVE  LET e == Dequeue(v, l)
         IN  /\ e \in Views /\ Distinct(e.queue) /\ e.state = v.state /\ e.io = v.io
             /\ e.waiting = v.waiting
             /\ Range(e.queue) = Range(v.queue) \ {l}
             /\ e.unsaved = v.unsaved \cup ({l} \cap Range(v.queue))
<1> DEFINE q == RemoveFirst(v.queue, l)
           u == IF Contains(v.queue, l) THEN v.unsaved \cup {l} ELSE v.unsaved
<1>1. q \in Seq(Links) /\ Distinct(q) /\ Range(q) = Range(v.queue) \ {l}
  BY RemoveFields, ViewFields
<1>2. u \in SUBSET Links
  BY ViewFields
<1>3. u = v.unsaved \cup ({l} \cap Range(v.queue))
  <2>1. Contains(v.queue, l) <=> l \in Range(v.queue)
    BY ViewFields, DOMAIN v.queue = 1..Len(v.queue) DEF Contains, Range
  <2> QED
    BY <2>1
<1>4. Dequeue(v, l) = [v EXCEPT !.queue = q, !.unsaved = u]
  BY DEF Dequeue
<1> HIDE DEF q, u
<1>5. LET e == [v EXCEPT !.queue = q, !.unsaved = u]
      IN  /\ e \in Views /\ e.state = v.state /\ e.io = v.io /\ e.waiting = v.waiting
          /\ e.queue = q /\ e.unsaved = u
  BY <1>1, <1>2 DEF Views
<1> QED
  BY <1>1, <1>3, <1>4, <1>5

-----------------------------------------------------------------------------
\* What a view must promise for a job to start on a clone of its state
Ready(v, kind, l, srv, bad) ==
  /\ Shape(v) /\ v.io = None
  /\ srv \ bad \subseteq v.state.links
  /\ v.state.links \ srv \subseteq Range(v.queue) \cup bad \cup v.unsaved
                                   \cup (IF kind = "persist" THEN {l} ELSE {})
  /\ v.unsaved \cap Range(v.queue) = {}
  /\ kind = "undo" => v.state.undo # << >>
  /\ kind = "redo" => v.state.redo # << >>
  /\ kind \in {"persist", "remove", "RemoveLink", "RestoreLink"} => l \in Links
  /\ kind = "persist" => l \in v.state.links /\ l \notin Range(v.queue) \cup v.unsaved
  /\ kind \in {"RemoveLink", "RestoreLink"} =>
       v.waiting = None /\ Range(v.queue) \cup v.unsaved \subseteq v.state.links

\* A job that starts finds on its clone what the state promises (spawn_io,
\* spawn_toast_undo).
LEMMA StartFits ==
  ASSUME NEW srv \in SUBSET Links, NEW bad \in SUBSET Links, NEW v,
         NEW kind \in Kinds, NEW l \in Links \cup {None}, Ready(v, kind, l, srv, bad)
  PROVE  /\ Fit(Start(v, kind, l), srv, bad) /\ Rested(Start(v, kind, l))
         /\ Start(v, kind, l).state = v.state
         /\ Range(Start(v, kind, l).queue) = Range(v.queue)
         /\ Start(v, kind, l).io.kind = kind /\ Start(v, kind, l).io.link = l
<1> USE DEF Ready
<1> DEFINE e == Start(v, kind, l)
<1>1. /\ e \in Views /\ e.state = v.state /\ e.queue = v.queue
      /\ e.waiting = v.waiting /\ e.unsaved = v.unsaved
      /\ e.io # None /\ e.io \in Job
      /\ e.io.kind = kind /\ e.io.link = l /\ e.io.clone = v.state
  BY StartFields DEF Shape
<1> HIDE DEF e
<1>2. Awaited(e, bad) = Range(v.queue) \cup bad \cup v.unsaved
                          \cup (IF kind = "persist" THEN {l} ELSE {})
  BY <1>1 DEF Awaited, Persisting
<1>3. JobFits(e.io)
  BY <1>1 DEF JobFits
<1>4. Shown(e, v.state.links, srv, bad)
  BY <1>2 DEF Shown
<1>5. Busy(e, srv, bad)
  BY <1>1, <1>3, <1>4 DEF Busy, IsToastUndo
<1> QED
  BY <1>1, <1>4, <1>5 DEF Fit, Shape, Rested, e

\* While a job runs an Undo may take the save of its link out of the queue.
LEMMA DequeueFits ==
  ASSUME NEW srv \in SUBSET Links, NEW bad \in SUBSET Links, NEW v, Fit(v, srv, bad), v.io # None,
         NEW l \in Links
  PROVE  LET e == Dequeue(v, l)
         IN  /\ Fit(e, srv, bad) /\ e.io = v.io /\ e.waiting = v.waiting /\ e.state = v.state
<1> DEFINE e == Dequeue(v, l)
<1>1. /\ e \in Views /\ Distinct(e.queue) /\ e.state = v.state /\ e.io = v.io
      /\ e.waiting = v.waiting
      /\ Range(e.queue) = Range(v.queue) \ {l}
      /\ e.unsaved = v.unsaved \cup ({l} \cap Range(v.queue))
  BY DequeueFields DEF Fit, Shape
<1> HIDE DEF e
<1>2. Busy(v, srv, bad) /\ Shown(v, v.state.links, srv, bad)
  BY DEF Fit
<1>3. Awaited(v, bad) = Awaited(e, bad)
  BY <1>1 DEF Awaited, Persisting
<1>4. Shown(e, e.state.links, srv, bad) /\ Shown(e, e.io.clone.links, srv, bad)
  BY <1>1, <1>2, <1>3 DEF Shown, Busy
<1>5. Busy(e, srv, bad)
  BY <1>1, <1>2, <1>4 DEF Busy
<1> QED
  BY <1>1, <1>4, <1>5 DEF Fit, Shape, e

\* Ctrl+Z: an undo that starts, or is refused (undo_last).
LEMMA UndoLastFits ==
  ASSUME NEW srv \in SUBSET Links, NEW bad \in SUBSET Links, NEW v, Fit(v, srv, bad), Rested(v)
  PROVE  /\ Fit(UndoLast(v), srv, bad) /\ Rested(UndoLast(v))
         /\ UndoLast(v).state = v.state
         /\ Range(UndoLast(v).queue) \subseteq Range(v.queue)
         /\ v.io = None /\ UndoLast(v).io # None => UndoLast(v).io.kind = "undo"
<1>1. CASE v.state.undo = << >>
  BY <1>1 DEF UndoLast
<1>2. CASE v.state.undo # << >>
  <2> DEFINE en == Last(v.state.undo)
             w == IF en.linked THEN Dequeue(v, en.link) ELSE v
  <2>1. v \in Views /\ Distinct(v.queue)
    BY DEF Fit, Shape
  <2>2. en \in Entry /\ en.link \in Links
    <3>1. v.state.undo \in Seq(Entry)
      BY <2>1, ViewFields
    <3>2. en \in Entry
      BY <1>2, <3>1, FrontLast
    <3> HIDE DEF en
    <3> QED
      BY <3>2 DEF Entry
  <2>3. UndoLast(v) = Start(w, "undo", None)
    BY <1>2 DEF UndoLast
  <2> HIDE DEF en
  <2>4. CASE v.io = None
    <3>1. Idle(v) /\ Shown(v, v.state.links, srv, bad)
      BY <2>4 DEF Fit
    <3>2. /\ Shape(w) /\ w.state = v.state /\ w.io = None
          /\ Range(w.queue) \cup w.unsaved = Range(v.queue) \cup v.unsaved
          /\ Range(w.queue) \subseteq Range(v.queue)
          /\ w.unsaved \cap Range(w.queue) = {}
      <4>1. CASE ~en.linked
        BY <2>1, <2>4, <3>1, <4>1 DEF Shape, Idle
      <4>2. CASE en.linked
        <5> DEFINE x == Dequeue(v, en.link)
        <5>1. /\ x \in Views /\ Distinct(x.queue) /\ x.state = v.state /\ x.io = v.io
              /\ x.waiting = v.waiting
              /\ Range(x.queue) = Range(v.queue) \ {en.link}
              /\ x.unsaved = v.unsaved \cup ({en.link} \cap Range(v.queue))
          BY <2>1, <2>2, DequeueFields
        <5> HIDE DEF x
        <5>2. w = x
          BY <4>2 DEF x
        <5> HIDE DEF w
        <5> QED
          BY <2>4, <3>1, <5>1, <5>2 DEF Shape, Idle
      <4> QED
        BY <4>1, <4>2
    <3> HIDE DEF w
    <3>3. Persisting(v) = {}
      BY <2>4 DEF Persisting
    <3>4. /\ srv \ bad \subseteq w.state.links
          /\ w.state.links \ srv \subseteq Range(w.queue) \cup bad \cup w.unsaved
      BY <3>1, <3>2, <3>3 DEF Shown, Awaited
    <3>5. "undo" \in Kinds /\ None \in Links \cup {None}
      BY DEF Kinds
    <3>6. /\ Fit(Start(w, "undo", None), srv, bad) /\ Rested(Start(w, "undo", None))
          /\ Start(w, "undo", None).state = w.state
          /\ Range(Start(w, "undo", None).queue) = Range(w.queue)
          /\ Start(w, "undo", None).io.kind = "undo"
      <4>1. Ready(w, "undo", None, srv, bad)
        BY <1>2, <3>2, <3>4 DEF Ready
      <4> QED
        BY <3>5, <4>1, StartFits
    <3> QED
      BY <2>3, <3>2, <3>6
  <2>5. CASE v.io # None
    <3>1. /\ Fit(w, srv, bad) /\ w.io = v.io /\ w.waiting = v.waiting /\ w.state = v.state
          /\ Range(w.queue) \subseteq Range(v.queue)
      <4>1. CASE ~en.linked
        BY <4>1
      <4>2. CASE en.linked
        <5> DEFINE x == Dequeue(v, en.link)
        <5>1. /\ Fit(x, srv, bad) /\ x.io = v.io /\ x.waiting = v.waiting /\ x.state = v.state
          BY <2>2, <2>5, DequeueFits
        <5>2. Range(x.queue) = Range(v.queue) \ {en.link}
          BY <2>1, <2>2, DequeueFields
        <5> HIDE DEF x
        <5>3. w = x
          BY <4>2 DEF x
        <5> HIDE DEF w
        <5> QED
          BY <5>1, <5>2, <5>3
      <4> QED
        BY <4>1, <4>2
    <3> HIDE DEF w
    <3>2. UndoLast(v) = w
      BY <2>3, <2>5, <3>1 DEF Start
    <3> QED
      BY <2>5, <3>1, <3>2 DEF Rested
  <2> QED
    BY <2>4, <2>5
<1> QED
  BY <1>1, <1>2

\* The button of a toast, or its Undo replayed: it starts, is put off or refused
\* (apply_toast_undo_with).
LEMMA ApplyFits ==
  ASSUME NEW srv \in SUBSET Links, NEW bad \in SUBSET Links, NEW v, Fit(v, srv, bad), Rested(v),
         NEW a \in Action,
         v.io = None /\ OffersLink(a) => Range(v.queue) \subseteq v.state.links
  PROVE  LET e == ApplyToastUndo(v, a)
         IN  /\ Fit(e, srv, bad) /\ Rested(e) /\ e.state = v.state
             /\ Range(e.queue) \subseteq Range(v.queue)
             /\ v.io = None /\ e.io # None => e.io.kind # "persist"
<1> DEFINE w == IF a.kind = "RemoveLink" THEN Dequeue(v, a.link) ELSE v
           e == ApplyToastUndo(v, a)
<1>1. v \in Views /\ Distinct(v.queue) /\ Shape(v)
  BY DEF Fit, Shape
<1>2. a # None
  BY LinksAssumption
<1>3. /\ a.kind \in {"RemoveLink", "RestoreLink", "StackUndo", "StackRedo"}
      /\ a.kind \in {"RemoveLink", "RestoreLink"} => a.link \in Links
      /\ a.kind = "StackUndo" <=> a = StackUndo
      /\ a.kind = "StackRedo" <=> a = StackRedo
  BY DEF Action, StackUndo, StackRedo
<1>4. v.io = None /\ a.kind \in {"RemoveLink", "RestoreLink"} => Range(v.queue) \subseteq v.state.links
  BY <1>2 DEF OffersLink
<1>5. CASE v.io # None /\ IsToastUndo(v.io)
  <2>1. e = v
    BY <1>5 DEF ApplyToastUndo
  <2> QED
    BY <1>5, <2>1
<1>6. CASE v.io # None /\ ~IsToastUndo(v.io)
  <2>1. e = [w EXCEPT !.waiting = a]
    BY <1>6 DEF ApplyToastUndo
  <2>2. /\ Fit(w, srv, bad) /\ w.io = v.io /\ w.state = v.state
        /\ Range(w.queue) \subseteq Range(v.queue)
    <3>1. CASE a.kind # "RemoveLink"
      BY <3>1
    <3>2. CASE a.kind = "RemoveLink"
      <4> DEFINE x == Dequeue(v, a.link)
      <4>1. Fit(x, srv, bad) /\ x.io = v.io /\ x.waiting = v.waiting /\ x.state = v.state
        BY <1>3, <1>6, <3>2, DequeueFits
      <4>2. Range(x.queue) = Range(v.queue) \ {a.link}
        BY <1>1, <1>3, <3>2, DequeueFields
      <4> HIDE DEF x
      <4>3. w = x
        BY <3>2 DEF x
      <4> HIDE DEF w
      <4> QED
        BY <4>1, <4>2, <4>3
    <3> QED
      BY <3>1, <3>2
  <2> HIDE DEF w
  <2>3. w \in Views /\ Distinct(w.queue)
    BY <2>2 DEF Fit, Shape
  <2>4. /\ e \in Views /\ e.state = w.state /\ e.io = w.io /\ e.queue = w.queue
        /\ e.waiting = a /\ e.unsaved = w.unsaved
    BY <2>1, <2>3, SetWaiting
  <2> HIDE DEF e
  <2>5. Busy(w, srv, bad) /\ Shown(w, w.state.links, srv, bad) /\ ~IsToastUndo(w.io)
    BY <1>6, <2>2 DEF Fit
  <2>6. Awaited(e, bad) = Awaited(w, bad)
    BY <2>4 DEF Awaited, Persisting
  <2>7. Busy(e, srv, bad) /\ Shown(e, e.state.links, srv, bad)
    BY <2>4, <2>5, <2>6 DEF Busy, Shown
  <2> QED
    BY <1>6, <2>2, <2>3, <2>4, <2>7 DEF Fit, Shape, Rested, e
<1>7. CASE v.io = None /\ a = StackUndo
  <2>1. StackUndo # StackRedo
    BY DEF StackUndo, StackRedo
  <2>2. e = UndoLast(v)
    BY <1>7, <2>1 DEF ApplyToastUndo
  <2> QED
    BY <1>7, <2>2, UndoLastFits
<1>8. CASE v.io = None /\ a = StackRedo
  <2>1. a # StackUndo
    BY <1>8 DEF StackUndo, StackRedo
  <2>2. e = RedoLast(v)
    BY <1>8, <2>1 DEF ApplyToastUndo
  <2>3. CASE v.state.redo = << >>
    BY <1>8, <2>2, <2>3 DEF RedoLast
  <2>4. CASE v.state.redo # << >>
    <3>1. e = Start(v, "redo", None)
      BY <2>2, <2>4 DEF RedoLast
    <3>2. Idle(v) /\ Shown(v, v.state.links, srv, bad) /\ Persisting(v) = {}
      BY <1>8 DEF Fit, Persisting
    <3>3. /\ srv \ bad \subseteq v.state.links
          /\ v.state.links \ srv \subseteq Range(v.queue) \cup bad \cup v.unsaved
                                           \cup (IF "redo" = "persist" THEN {None} ELSE {})
          /\ v.unsaved \cap Range(v.queue) = {}
      BY <3>2 DEF Shown, Awaited, Idle
    <3>4. "redo" \in Kinds /\ None \in Links \cup {None}
      BY DEF Kinds
    <3>5. /\ Fit(Start(v, "redo", None), srv, bad) /\ Rested(Start(v, "redo", None))
          /\ Start(v, "redo", None).state = v.state
          /\ Range(Start(v, "redo", None).queue) = Range(v.queue)
          /\ Start(v, "redo", None).io.kind = "redo"
      <4>1. Ready(v, "redo", None, srv, bad)
        BY <1>1, <1>8, <2>4, <3>3 DEF Ready
      <4> QED
        BY <3>4, <4>1, StartFits
    <3> QED
      BY <3>1, <3>5
  <2> QED
    BY <2>3, <2>4
<1>9. CASE v.io = None /\ a # StackUndo /\ a # StackRedo
  <2>1. e = Start(w, a.kind, a.link)
    BY <1>9 DEF ApplyToastUndo
  <2>2. Idle(v) /\ Shown(v, v.state.links, srv, bad) /\ Persisting(v) = {} /\ v.waiting = None
    BY <1>9 DEF Fit, Persisting, Rested
  <2>3. a.kind \in {"RemoveLink", "RestoreLink"} /\ a.link \in Links
    BY <1>3, <1>9
  <2>4. /\ Shape(w) /\ w.state = v.state /\ w.io = None /\ w.waiting = None
        /\ Range(w.queue) \cup w.unsaved = Range(v.queue) \cup v.unsaved
        /\ Range(w.queue) \subseteq Range(v.queue)
        /\ w.unsaved \cap Range(w.queue) = {}
    <3>1. CASE a.kind # "RemoveLink"
      BY <1>1, <1>9, <2>2, <3>1 DEF Idle
    <3>2. CASE a.kind = "RemoveLink"
      <4> DEFINE x == Dequeue(v, a.link)
      <4>1. /\ x \in Views /\ Distinct(x.queue) /\ x.state = v.state /\ x.io = v.io
            /\ x.waiting = v.waiting
            /\ Range(x.queue) = Range(v.queue) \ {a.link}
            /\ x.unsaved = v.unsaved \cup ({a.link} \cap Range(v.queue))
        BY <1>1, <2>3, DequeueFields
      <4> HIDE DEF x
      <4>2. w = x
        BY <3>2 DEF x
      <4> HIDE DEF w
      <4> QED
        BY <1>9, <2>2, <4>1, <4>2 DEF Shape, Idle
    <3> QED
      BY <3>1, <3>2
  <2> HIDE DEF w
  <2>5. Range(w.queue) \cup w.unsaved \subseteq w.state.links
    BY <1>4, <1>9, <2>2, <2>3, <2>4 DEF Idle
  <2>6. /\ srv \ bad \subseteq w.state.links
        /\ w.state.links \ srv \subseteq Range(w.queue) \cup bad \cup w.unsaved
                                         \cup (IF a.kind = "persist" THEN {a.link} ELSE {})
    BY <2>2, <2>3, <2>4 DEF Shown, Awaited
  <2>7. a.kind \in Kinds /\ a.link \in Links \cup {None}
    BY <2>3 DEF Kinds
  <2> DEFINE st == Start(w, a.kind, a.link)
  <2>8. /\ Fit(st, srv, bad) /\ Rested(st)
        /\ st.state = w.state
        /\ Range(st.queue) = Range(w.queue)
        /\ st.io.kind = a.kind
    <3>1. Ready(w, a.kind, a.link, srv, bad)
      BY <2>3, <2>4, <2>5, <2>6 DEF Ready
    <3> QED
      BY <2>7, <3>1, StartFits
  <2> HIDE DEF st
  <2>9. e = st
    BY <2>1 DEF st
  <2> HIDE DEF e
  <2>10. e.io.kind # "persist"
    BY <2>3, <2>8, <2>9
  <2> QED
    BY <2>4, <2>8, <2>9, <2>10 DEF e
<1> QED
  BY <1>5, <1>6, <1>7, <1>8, <1>9

-----------------------------------------------------------------------------
\* The undo entry of a drawn link
Drawn(l) == [link |-> l, linked |-> TRUE]

\* A link is shown and can be undone
Undoable(s, l) == l \in s.links /\ Drawn(l) \in Range(s.undo)

\* A link put back on a state is shown and can be undone, and nothing else is lost
\* (restore_optimistic_link, ensure_link_undo).
LEMMA RestoreFields ==
  ASSUME NEW s \in Planner, NEW l \in Links
  PROVE  LET r == Restore(s, l)
         IN  /\ r \in Planner /\ r.links = s.links \cup {l}
             /\ Range(s.undo) \subseteq Range(r.undo) /\ Drawn(l) \in Range(r.undo)
<1> DEFINE r == Restore(s, l)
           shown == [s EXCEPT !.links = @ \cup {l}]
<1>1. /\ s.links \in SUBSET Links /\ s.undo \in Seq(Entry) /\ s.redo \in Seq(Entry)
      /\ s.toast \in {None} \cup Action /\ Drawn(l) \in Entry
  BY DEF Planner, Drawn, Entry
<1>2. /\ shown \in Planner /\ shown.links = s.links \cup {l} /\ shown.undo = s.undo
  BY <1>1 DEF Planner
<1>3. CASE \E n \in DOMAIN s.undo : s.undo[n] = Drawn(l)
  <2>1. r = shown
    BY <1>3 DEF Restore, Drawn
  <2>2. Drawn(l) \in Range(s.undo)
    BY <1>3 DEF Range
  <2> HIDE DEF shown
  <2> QED
    BY <1>2, <2>1, <2>2
<1>4. CASE ~(\E n \in DOMAIN s.undo : s.undo[n] = Drawn(l))
  <2>1. r = [Recorded(shown, Drawn(l)) EXCEPT !.toast = RemoveLink(l)]
    BY <1>4 DEF Restore, Drawn
  <2> HIDE DEF shown
  <2> DEFINE u == Append(s.undo, Drawn(l))
  <2>2. u \in Seq(Entry) /\ Range(u) = Range(s.undo) \cup {Drawn(l)}
    BY <1>1, RangeAppend
  <2>3. Recorded(shown, Drawn(l)) = [shown EXCEPT !.undo = u, !.redo = << >>]
    BY <1>2 DEF Recorded
  <2> HIDE DEF u
  <2>4. RemoveLink(l) \in Action
    BY DEF RemoveLink, Action
  <2>5. << >> \in Seq(Entry)
    OBVIOUS
  <2>6. r \in Planner /\ r.links = shown.links /\ r.undo = u
    BY <1>2, <2>1, <2>2, <2>3, <2>4, <2>5 DEF Planner
  <2> QED
    BY <1>2, <2>2, <2>6
<1> QED
  BY <1>3, <1>4

RestoreLoop == INSTANCE LeftFold WITH Step <- Restore

\* After restore_queued_links every queued link is shown and can be undone.
LEMMA RestoreAll ==
  ASSUME NEW s \in Planner, NEW q \in Seq(Links)
  PROVE  LET r == FoldLeft(Restore, s, q)
         IN  /\ r \in Planner /\ r.links = s.links \cup Range(q)
             /\ \A l \in Range(q) : Undoable(r, l)
<1>1. FoldLeft(Restore, s, q) = RestoreLoop!Result(s, q)
  BY DEF FoldLeft, MapThenFoldSet, RestoreLoop!Result, RestoreLoop!Unfolds, Max, RestoreLoop!Max
<1>2. Len(q) \in Nat /\ DOMAIN q = 1..Len(q) /\ \A n \in 1..Len(q) : q[n] \in Links
  OBVIOUS
<1>3. PICK f : RestoreLoop!Runs(f, s, q, Len(q))
  BY <1>2, RestoreLoop!FoldRuns
<1> DEFINE S == {k \in Nat : k <= Len(q) =>
                   /\ f[k] \in Planner /\ f[k].links = s.links \cup {q[n] : n \in 1..k}
                   /\ \A n \in 1..k : Drawn(q[n]) \in Range(f[k].undo)}
<1>4. 0 \in S
  BY <1>3 DEF RestoreLoop!Runs
<1>5. ASSUME NEW k \in Nat, k \in S PROVE k + 1 \in S
  <2> SUFFICES ASSUME k + 1 <= Len(q)
               PROVE  /\ f[k + 1] \in Planner
                      /\ f[k + 1].links = s.links \cup {q[n] : n \in 1..(k + 1)}
                      /\ \A n \in 1..(k + 1) : Drawn(q[n]) \in Range(f[k + 1].undo)
    OBVIOUS
  <2>1. /\ f[k] \in Planner /\ f[k].links = s.links \cup {q[n] : n \in 1..k}
        /\ \A n \in 1..k : Drawn(q[n]) \in Range(f[k].undo)
    BY <1>2, <1>5
  <2>2. f[k + 1] = Restore(f[k], q[k + 1]) /\ q[k + 1] \in Links
    <3>1. k + 1 \in 1..Len(q) /\ (k + 1) - 1 = k
      BY <1>2
    <3> QED
      BY <1>2, <1>3, <3>1 DEF RestoreLoop!Runs
  <2> DEFINE r == Restore(f[k], q[k + 1])
  <2>3. /\ r \in Planner /\ r.links = f[k].links \cup {q[k + 1]}
        /\ Range(f[k].undo) \subseteq Range(r.undo) /\ Drawn(q[k + 1]) \in Range(r.undo)
    BY <2>1, <2>2, RestoreFields
  <2> HIDE DEF r
  <2>4. f[k + 1] = r
    BY <2>2 DEF r
  <2>5. \A n \in 1..(k + 1) : n \in 1..k \/ n = k + 1
    OBVIOUS
  <2>6. {q[n] : n \in 1..(k + 1)} = {q[n] : n \in 1..k} \cup {q[k + 1]}
    BY <2>5
  <2>7. \A n \in 1..(k + 1) : Drawn(q[n]) \in Range(r.undo)
    BY <2>1, <2>3, <2>5
  <2> QED
    BY <2>1, <2>3, <2>4, <2>6, <2>7
<1> HIDE DEF S
<1>6. \A k \in Nat : k \in S
  BY <1>4, <1>5, RestoreLoop!Induction
<1>7. Len(q) \in S
  BY <1>2, <1>6
<1> DEFINE r == FoldLeft(Restore, s, q)
<1>8. r = f[Len(q)]
  BY <1>1, <1>3 DEF RestoreLoop!Runs
<1> HIDE DEF r
<1>9. Range(q) = {q[n] : n \in 1..Len(q)}
  BY <1>2 DEF Range
<1>10. /\ r \in Planner /\ r.links = s.links \cup Range(q)
       /\ \A n \in 1..Len(q) : Drawn(q[n]) \in Range(r.undo)
  BY <1>7, <1>8, <1>9, <1>2 DEF S
<1>11. \A l \in Range(q) : Undoable(r, l)
  BY <1>9, <1>10 DEF Undoable
<1> QED
  BY <1>10, <1>11 DEF r

\* drain_link_saves starts the PATCH of the first queued link, if no job runs.
LEMMA DrainStarts ==
  ASSUME NEW srv \in SUBSET Links, NEW bad \in SUBSET Links, NEW v, Shape(v),
         Shown(v, v.state.links, srv, bad), v.io = None, v.queue # << >>,
         v.unsaved \cap Range(v.queue) = {}
  PROVE  LET e == DrainLinks(v)
         IN  /\ Fit(e, srv, bad) /\ Rested(e)
             /\ (\A l \in Range(v.queue) : Undoable(v.state, l)) =>
                  \A l \in Range(e.queue) \cup Persisting(e) : Undoable(e.state, l)
<1> DEFINE e == DrainLinks(v)
<1> DEFINE h == Head(v.queue)
           s == Restore(v.state, h)
           t == Tail(v.queue)
           w == [v EXCEPT !.queue = t, !.state = s]
<1>1. e = Start(w, "persist", h)
  BY DEF DrainLinks
<1>2. v \in Views /\ Distinct(v.queue)
  BY DEF Shape
<1>3. v.state \in Planner /\ v.queue \in Seq(Links)
  BY <1>2, ViewFields
<1>4. /\ h \in Links /\ t \in Seq(Links) /\ Distinct(t) /\ h \in Range(v.queue)
      /\ Range(t) = Range(v.queue) \ {h}
  BY <1>2, <1>3, HeadTail
<1> HIDE DEF h, t
<1>5. /\ s \in Planner /\ s.links = v.state.links \cup {h}
      /\ Range(v.state.undo) \subseteq Range(s.undo) /\ Drawn(h) \in Range(s.undo)
  BY <1>3, <1>4, RestoreFields
<1> HIDE DEF s
<1>6. /\ w \in Views /\ w.state = s /\ w.io = v.io /\ w.queue = t
      /\ w.waiting = v.waiting /\ w.unsaved = v.unsaved
  BY <1>2, <1>4, <1>5 DEF Views
<1> HIDE DEF w
<1>7. Persisting(v) = {}
  BY DEF Persisting
<1>8. Ready(w, "persist", h, srv, bad)
  BY <1>2, <1>4, <1>5, <1>6, <1>7 DEF Ready, Shape, Shown, Awaited
<1> DEFINE st == Start(w, "persist", h)
<1>9. /\ Fit(st, srv, bad) /\ Rested(st) /\ st.state = w.state
      /\ Range(st.queue) = Range(w.queue) /\ st.io.kind = "persist" /\ st.io.link = h
  <2>1. "persist" \in Kinds /\ h \in Links \cup {None}
    BY <1>4 DEF Kinds
  <2> QED
    BY <1>8, <2>1, StartFits
<1> HIDE DEF st
<1>10. e = st
  BY <1>1 DEF st
<1> HIDE DEF e
<1>11. Range(e.queue) \cup Persisting(e) \subseteq Range(v.queue)
  BY <1>4, <1>6, <1>9, <1>10 DEF Persisting
<1>12. \A l \in Range(v.queue) : Undoable(v.state, l) => Undoable(e.state, l)
  BY <1>5, <1>6, <1>9, <1>10 DEF Undoable
<1> QED
  BY <1>9, <1>10, <1>11, <1>12 DEF e

\* drain_link_saves keeps the view's promises
LEMMA DrainFits ==
  ASSUME NEW srv \in SUBSET Links, NEW bad \in SUBSET Links, NEW v, Fit(v, srv, bad), Rested(v)
  PROVE  LET e == DrainLinks(v)
         IN  /\ Fit(e, srv, bad) /\ Rested(e)
             /\ (\A l \in Range(v.queue) \cup Persisting(v) : Undoable(v.state, l)) =>
                  \A l \in Range(e.queue) \cup Persisting(e) : Undoable(e.state, l)
<1>1. CASE v.io # None \/ v.queue = << >>
  BY <1>1 DEF DrainLinks
<1>2. CASE v.io = None /\ v.queue # << >>
  BY <1>2, DrainStarts DEF Fit, Idle
<1> QED
  BY <1>1, <1>2

-----------------------------------------------------------------------------
\* What a job does to the links of its clone, and to a clone as a whole.
LEMMA TakeAwayFields ==
  ASSUME NEW s \in Planner, NEW l \in Links, NEW ok \in BOOLEAN
  PROVE  LET r == TakeAway(s, l, ok)
         IN  /\ r \in Planner /\ r.undo = s.undo /\ r.redo = s.redo /\ r.toast = s.toast
             /\ r.links = IF ok THEN s.links \ {l} ELSE s.links
BY DEF TakeAway, Planner

\* A dependency whose PATCH failed is taken back (persist_added_dependency).
LEMMA PersistFields ==
  ASSUME NEW s \in Planner, NEW l \in Links, NEW ok \in BOOLEAN
  PROVE  LET r == Persist(s, l, ok)
         IN  /\ r \in Planner
             /\ ok => r = s
             /\ ~ok => r.links = s.links \ {l}
<1> DEFINE u == IF s.undo # << >> /\ Last(s.undo) = [link |-> l, linked |-> TRUE]
                    THEN Front(s.undo) ELSE s.undo
           t == IF s.toast = RemoveLink(l) THEN None ELSE s.toast
           p == [links |-> s.links \ {l}, undo |-> u, redo |-> s.redo, toast |-> t]
<1>1. /\ s.links \in SUBSET Links /\ s.undo \in Seq(Entry) /\ s.redo \in Seq(Entry)
      /\ s.toast \in {None} \cup Action
  BY DEF Planner
<1>2. u \in Seq(Entry) /\ t \in {None} \cup Action
  BY <1>1, FrontLast
<1>3. Persist(s, l, ok) = IF ok THEN s ELSE p
  BY DEF Persist
<1> HIDE DEF u, t
<1>4. p \in Planner /\ p.links = s.links \ {l}
  BY <1>1, <1>2 DEF Planner
<1> HIDE DEF p
<1> QED
  BY <1>3, <1>4

\* A removed link is put back (add_dependency, apply_link_now)
LEMMA AddBackFields ==
  ASSUME NEW s \in Planner, NEW l \in Links, NEW ok \in BOOLEAN
  PROVE  LET r == AddBack(s, l, ok)
         IN  /\ r \in Planner
             /\ l \in s.links => r.links = s.links
             /\ l \notin s.links => r.links = IF ok THEN s.links \cup {l} ELSE s.links
<1>1. CASE l \in s.links
  BY <1>1 DEF AddBack
<1>2. CASE l \notin s.links
  <2> DEFINE a == [s EXCEPT !.links = @ \cup {l}]
  <2>1. a \in Planner /\ a.links = s.links \cup {l}
    BY DEF Planner
  <2>2. AddBack(s, l, ok) = Persist(a, l, ok)
    BY <1>2 DEF AddBack
  <2> HIDE DEF a
  <2> DEFINE r == Persist(a, l, ok)
  <2>3. r \in Planner /\ (ok => r = a) /\ (~ok => r.links = a.links \ {l})
    BY <2>1, PersistFields
  <2> HIDE DEF r
  <2>4. AddBack(s, l, ok) = r
    BY <2>2 DEF r
  <2>5. (s.links \cup {l}) \ {l} = s.links
    BY <1>2
  <2>6. r.links = IF ok THEN s.links \cup {l} ELSE s.links
    BY <2>1, <2>3, <2>5
  <2> QED
    BY <1>2, <2>3, <2>4, <2>6
<1> QED
  BY <1>1, <1>2

\* A job sends for one link, and leaves its clone with what an accepted request
\* leaves the server with; a failed one only disturbs that link.
JobEffect(j, ok, d) ==
  /\ d \in Planner
  /\ JobLink(j) \in Links
  /\ JobSends(j) /\ ok  => d.links = IF JobAdds(j) THEN j.clone.links \cup {JobLink(j)}
                                                   ELSE j.clone.links \ {JobLink(j)}
  /\ JobSends(j) /\ ~ok => d.links \ {JobLink(j)} = j.clone.links \ {JobLink(j)}
  /\ ~ok => d.links \subseteq j.clone.links
  /\ ~JobSends(j) /\ ok => d.links = j.clone.links

\* Every kind of job has that effect
LEMMA JobOutcome ==
  ASSUME NEW j \in Job, JobFits(j), NEW ok \in BOOLEAN, j.kind # "load"
  PROVE  JobEffect(j, ok, JobDone(j, ok))
<1> DEFINE d == JobDone(j, ok)
           s == j.clone
<1>1. /\ j.kind \in Kinds /\ s \in Planner /\ s.links \in SUBSET Links
      /\ s.undo \in Seq(Entry) /\ s.redo \in Seq(Entry)
  BY JobFields
<1>2. CASE j.kind = "persist"
  <2>1. JobLink(j) = j.link /\ JobAdds(j) /\ j.link \in Links /\ j.link \in s.links /\ JobSends(j)
    BY <1>2 DEF JobLink, JobAdds, JobFits, JobSends
  <2>2. d = Persist(s, j.link, ok)
    BY <1>2 DEF JobDone
  <2> HIDE DEF d
  <2> QED
    BY <1>1, <2>1, <2>2, PersistFields DEF JobEffect, d
<1>3. CASE j.kind = "remove"
  <2>1. /\ JobLink(j) = j.link /\ ~JobAdds(j) /\ j.link \in Links
        /\ JobSends(j) <=> j.link \in s.links
    BY <1>3 DEF JobLink, JobAdds, JobFits, JobSends
  <2>2. d = RemoveArrow(s, j.link, ok)
    BY <1>3 DEF JobDone
  <2>3. CASE ~(j.link \in s.links /\ ok)
    <3>1. d = s
      BY <2>2, <2>3 DEF RemoveArrow
    <3> HIDE DEF d
    <3> QED
      BY <1>1, <2>1, <2>3, <3>1 DEF JobEffect, d
  <2>4. CASE j.link \in s.links /\ ok
    <3> DEFINE r == TakeAway(s, j.link, ok)
               en == [link |-> j.link, linked |-> FALSE]
               u == Append(r.undo, en)
    <3>1. r \in Planner /\ r.undo = s.undo /\ r.links = s.links \ {j.link}
      BY <1>1, <2>1, <2>4, TakeAwayFields
    <3>2. d = [Recorded(r, en) EXCEPT !.toast = RestoreLink(j.link)]
      BY <2>2, <2>4 DEF RemoveArrow
    <3> HIDE DEF r
    <3>3. en \in Entry /\ u \in Seq(Entry)
      BY <1>1, <2>1, <3>1 DEF Entry
    <3>4. Recorded(r, en) = [r EXCEPT !.undo = u, !.redo = << >>]
      BY <3>1 DEF Recorded
    <3>5. RestoreLink(j.link) \in Action /\ << >> \in Seq(Entry)
      BY <2>1 DEF RestoreLink, Action
    <3> HIDE DEF u, en
    <3>6. d \in Planner /\ d.links = r.links
      BY <3>1, <3>2, <3>3, <3>4, <3>5 DEF Planner
    <3> HIDE DEF d
    <3> QED
      BY <1>1, <2>1, <2>4, <3>1, <3>6 DEF JobEffect, d
  <2> QED
    BY <2>3, <2>4
<1>4. CASE j.kind = "RemoveLink"
  <2>1. /\ JobLink(j) = j.link /\ ~JobAdds(j) /\ j.link \in Links
        /\ JobSends(j) <=> j.link \in s.links
    BY <1>4 DEF JobLink, JobAdds, JobFits, JobSends
  <2>2. d = TakeAway(s, j.link, ok)
    BY <1>4 DEF JobDone
  <2> HIDE DEF d
  <2>3. d \in Planner /\ d.links = IF ok THEN s.links \ {j.link} ELSE s.links
    BY <1>1, <2>1, <2>2, TakeAwayFields
  <2> QED
    BY <2>1, <2>3 DEF JobEffect, d
<1>5. CASE j.kind = "RestoreLink"
  <2>1. /\ JobLink(j) = j.link /\ JobAdds(j) /\ j.link \in Links
        /\ JobSends(j) <=> j.link \notin s.links
    BY <1>5 DEF JobLink, JobAdds, JobFits, JobSends
  <2>2. d = AddBack(s, j.link, ok)
    BY <1>5 DEF JobDone
  <2> HIDE DEF d
  <2>3. /\ d \in Planner
        /\ j.link \in s.links => d.links = s.links
        /\ j.link \notin s.links => d.links = IF ok THEN s.links \cup {j.link} ELSE s.links
    BY <1>1, <2>1, <2>2, AddBackFields
  <2> QED
    BY <2>1, <2>3 DEF JobEffect, d
<1>6. ASSUME j.kind \in {"undo", "redo"} PROVE JobEffect(j, ok, JobDone(j, ok))
  <2> DEFINE en == IF j.kind = "undo" THEN Last(s.undo) ELSE Last(s.redo)
             s0 == IF j.kind = "undo" THEN [s EXCEPT !.undo = Front(@)]
                                      ELSE [s EXCEPT !.redo = Front(@)]
             adds == IF j.kind = "undo" THEN ~en.linked ELSE en.linked
             s1 == IF adds THEN AddBack(s0, en.link, ok) ELSE TakeAway(s0, en.link, ok)
  <2>1. en \in Entry
    <3>1. CASE j.kind = "undo"
      BY <1>1, <3>1, FrontLast DEF JobFits
    <3>2. CASE j.kind = "redo"
      BY <1>1, <3>2, FrontLast DEF JobFits
    <3> QED
      BY <1>6, <3>1, <3>2
  <2>2. s0 \in Planner /\ s0.links = s.links
    <3>1. CASE j.kind = "undo"
      <4>1. Front(s.undo) \in Seq(Entry)
        BY <1>1, <3>1, FrontLast DEF JobFits
      <4> QED
        BY <1>1, <3>1, <4>1 DEF Planner
    <3>2. CASE j.kind = "redo"
      <4>1. Front(s.redo) \in Seq(Entry)
        BY <1>1, <3>2, FrontLast DEF JobFits
      <4> QED
        BY <1>1, <3>2, <4>1 DEF Planner
    <3> QED
      BY <1>6, <3>1, <3>2
  <2>3. /\ JobLink(j) = en.link /\ (JobAdds(j) <=> adds)
        /\ JobSends(j) <=> (adds <=> en.link \notin s.links)
    BY <1>6 DEF JobLink, JobAdds, JobSends
  <2>4. d = IF ok
              THEN IF j.kind = "undo"
                     THEN [s1 EXCEPT !.redo = Append(@, en), !.toast = StackRedo]
                     ELSE [s1 EXCEPT !.undo = Append(@, en),
                                     !.toast = IF s1.undo # << >> THEN StackUndo ELSE None]
              ELSE IF j.kind = "undo" THEN [s1 EXCEPT !.undo = Append(@, en)]
                                      ELSE [s1 EXCEPT !.redo = Append(@, en)]
    <3>1. CASE j.kind = "undo"
      BY <3>1 DEF JobDone, Undone
    <3>2. CASE j.kind = "redo"
      BY <3>2 DEF JobDone, Redone
    <3> QED
      BY <1>6, <3>1, <3>2
  <2> HIDE DEF en, s0, adds, d
  <2>5. en.link \in Links /\ en.linked \in BOOLEAN /\ adds \in BOOLEAN
    BY <2>1 DEF Entry, adds
  <2>6. /\ s1 \in Planner
        /\ adds /\ en.link \in s.links => s1.links = s.links
        /\ adds /\ en.link \notin s.links =>
              s1.links = IF ok THEN s.links \cup {en.link} ELSE s.links
        /\ ~adds => s1.links = IF ok THEN s.links \ {en.link} ELSE s.links
    <3>1. CASE adds
      <4> DEFINE r == AddBack(s0, en.link, ok)
      <4>1. /\ r \in Planner
            /\ en.link \in s0.links => r.links = s0.links
            /\ en.link \notin s0.links => r.links = IF ok THEN s0.links \cup {en.link} ELSE s0.links
        BY <2>2, <2>5, AddBackFields
      <4> HIDE DEF r
      <4>2. s1 = r
        BY <3>1 DEF r
      <4> HIDE DEF s1
      <4> QED
        BY <2>2, <3>1, <4>1, <4>2
    <3>2. CASE ~adds
      <4> DEFINE r == TakeAway(s0, en.link, ok)
      <4>1. /\ r \in Planner
            /\ r.links = IF ok THEN s0.links \ {en.link} ELSE s0.links
        BY <2>2, <2>5, TakeAwayFields
      <4> HIDE DEF r
      <4>2. s1 = r
        BY <3>2 DEF r
      <4> HIDE DEF s1
      <4> QED
        BY <2>2, <3>2, <4>1, <4>2
    <3> QED
      BY <3>1, <3>2
  <2> HIDE DEF s1
  <2>7. /\ s1.undo \in Seq(Entry) /\ s1.redo \in Seq(Entry)
        /\ Append(s1.undo, en) \in Seq(Entry) /\ Append(s1.redo, en) \in Seq(Entry)
        /\ StackUndo \in Action /\ StackRedo \in Action
    BY <2>1, <2>6 DEF Planner, StackUndo, StackRedo, Action
  <2>8. d \in Planner /\ d.links = s1.links
    <3>1. CASE ok /\ j.kind = "undo"
      BY <2>4, <2>6, <2>7, <3>1 DEF Planner
    <3>2. CASE ok /\ j.kind # "undo"
      <4> DEFINE t == IF s1.undo # << >> THEN StackUndo ELSE None
      <4>1. t \in {None} \cup Action
        BY <2>7
      <4>2. d = [s1 EXCEPT !.undo = Append(@, en), !.toast = t]
        BY <2>4, <3>2
      <4> HIDE DEF t
      <4> QED
        BY <2>6, <2>7, <4>1, <4>2 DEF Planner
    <3>3. CASE ~ok
      BY <2>4, <2>6, <2>7, <3>3 DEF Planner
    <3> QED
      BY <3>1, <3>2, <3>3
  <2> QED
    BY <2>3, <2>5, <2>6, <2>8 DEF JobEffect, d
<1> QED
  BY <1>1, <1>2, <1>3, <1>4, <1>5, <1>6 DEF Kinds

\* What the request of a job leaves on the server, and which links it leaves stray.
LEMMA RequestEffect ==
  ASSUME server \in SUBSET Links, stray \in SUBSET Links, io \in Job, JobFits(io),
         io.kind # "load", NEW ok \in BOOLEAN, Request(ok), NEW l \in Links, l = JobLink(io)
  PROVE  /\ server' \in SUBSET Links /\ stray' \in SUBSET Links
         /\ JobSends(io) /\ ok =>
              /\ JobAdds(io) <=> l \notin server
              /\ server' = IF JobAdds(io) THEN server \cup {l} ELSE server \ {l}
              /\ stray' = stray \ {l}
         /\ JobSends(io) /\ ~ok => server' \ {l} = server \ {l} /\ stray' = stray \cup {l}
         /\ ~JobSends(io) => ok /\ server' = server /\ stray' = stray
<1> DEFINE sends == JobSends(io)
           refused == sends /\ ~Accepts(io)
<1>1. Sent(io) = IF JobAdds(io) THEN server \cup {l} ELSE server \ {l}
  BY DEF Sent
<1>2. Accepts(io) <=> (JobAdds(io) <=> l \notin server)
  BY DEF Accepts
<1>3. CASE ~sends
  BY <1>3 DEF Request
<1>4. CASE sends /\ ok
  <2>1. ~refused
    BY <1>4 DEF Request
  <2>2. server' = Sent(io) /\ stray' = stray \ {l}
    BY <1>4, <2>1 DEF Request
  <2> QED
    BY <1>1, <1>2, <1>4, <2>1, <2>2
<1>5. CASE sends /\ ~ok
  <2>1. server' \in {server, Sent(io)} /\ stray' = stray \cup {l}
    <3>1. CASE refused
      BY <1>5, <3>1 DEF Request
    <3>2. CASE ~refused
      BY <1>5, <3>2 DEF Request
    <3> QED
      BY <3>1, <3>2
  <2> QED
    BY <1>1, <1>5, <2>1
<1> QED
  BY <1>3, <1>4, <1>5

\* When the job ends, its clone promises of the links it shows what the state does.
LEMMA DoneShown ==
  ASSUME LinkInv, io # None, NEW ok \in BOOLEAN, Request(ok)
  PROVE  LET d == JobDone(io, ok)
         IN  /\ d \in Planner /\ server' \in SUBSET Links /\ stray' \in SUBSET Links
             /\ server' \ stray' \subseteq d.links
             /\ d.links \ server' \subseteq Range(queue) \cup unsaved \cup stray'
             /\ d.links \subseteq io.clone.links \cup server'
             /\ io.kind # "load" => /\ JobLink(io) \in Links
                                    /\ server' \ {JobLink(io)} = server \ {JobLink(io)}
                                    /\ stray' \ {JobLink(io)} = stray \ {JobLink(io)}
                                    /\ ~ok => stray' = stray \cup {JobLink(io)}
<1> DEFINE d == JobDone(io, ok)
           c == io.clone.links
           known == Range(queue) \cup unsaved
<1>1. /\ View \in Views /\ View.io = io /\ View.queue = queue /\ View.unsaved = unsaved
      /\ server \in SUBSET Links /\ stray \in SUBSET Links
  BY DEF LinkInv, Fit, Shape, View
<1>2. io \in Job /\ Busy(View, server, stray)
  BY <1>1, ViewFields DEF LinkInv, Fit
<1>3. JobFits(io) /\ Shown(View, c, server, stray)
  BY <1>1, <1>2 DEF Busy
<1>4. /\ io.kind \in Kinds /\ io.clone \in Planner /\ c \in SUBSET Links
  BY <1>2, JobFields
<1>5. /\ server \ stray \subseteq c
      /\ c \ server \subseteq known \cup stray \cup (IF io.kind = "persist" THEN {io.link} ELSE {})
  BY <1>1, <1>3 DEF Shown, Awaited, Persisting
<1>6. CASE io.kind = "load"
  <2>1. /\ ~JobSends(io) /\ server' = server
        /\ stray' = IF ok THEN {} ELSE stray
    BY <1>6 DEF JobSends, Request
  <2>2. d = IF ok THEN [io.clone EXCEPT !.links = server] ELSE io.clone
    BY <1>6 DEF JobDone
  <2>3. d \in Planner /\ d.links = IF ok THEN server ELSE c
    BY <1>1, <1>4, <2>2 DEF Planner
  <2> HIDE DEF d
  <2> QED
    BY <1>1, <1>5, <1>6, <2>1, <2>3 DEF d
<1>7. CASE io.kind # "load"
  <2> DEFINE l == JobLink(io)
  <2>1. JobEffect(io, ok, d)
    BY <1>2, <1>3, <1>7, JobOutcome
  <2> HIDE DEF d, l
  <2>2. /\ d \in Planner
        /\ l \in Links
        /\ JobSends(io) /\ ok  => d.links = IF JobAdds(io) THEN c \cup {l} ELSE c \ {l}
        /\ JobSends(io) /\ ~ok => d.links \ {l} = c \ {l}
        /\ ~ok => d.links \subseteq c
        /\ ~JobSends(io) /\ ok => d.links = c
    BY <2>1 DEF JobEffect, l
  <2>3. /\ server' \in SUBSET Links /\ stray' \in SUBSET Links
        /\ JobSends(io) /\ ok =>
             /\ JobAdds(io) <=> l \notin server
             /\ server' = IF JobAdds(io) THEN server \cup {l} ELSE server \ {l}
             /\ stray' = stray \ {l}
        /\ JobSends(io) /\ ~ok => server' \ {l} = server \ {l} /\ stray' = stray \cup {l}
        /\ ~JobSends(io) => ok /\ server' = server /\ stray' = stray
    BY <1>1, <1>2, <1>3, <1>7, <2>2, RequestEffect DEF l
  <2>4. io.kind = "persist" => io.link = l /\ JobSends(io) /\ JobAdds(io)
    BY DEF l, JobLink, JobSends, JobAdds
  <2>5. d.links \subseteq c \cup server'
    <3>1. CASE ok
      BY <2>2, <2>3, <3>1
    <3>2. CASE ~ok
      BY <2>2, <2>3, <3>2
    <3> QED
      BY <3>1, <3>2
  <2>6. server' \ stray' \subseteq d.links /\ d.links \ server' \subseteq known \cup stray'
    <3>1. CASE JobSends(io) /\ ok
      BY <1>5, <2>2, <2>3, <2>4, <3>1
    <3>2. CASE JobSends(io) /\ ~ok
      BY <1>5, <2>2, <2>3, <2>4, <3>2
    <3>3. CASE ~JobSends(io)
      BY <1>5, <2>2, <2>3, <2>4, <3>3
    <3> QED
      BY <3>1, <3>2, <3>3
  <2>7. /\ server' \ {l} = server \ {l} /\ stray' \ {l} = stray \ {l}
        /\ ~ok => stray' = stray \cup {l}
    BY <2>3
  <2> QED
    BY <2>2, <2>3, <2>5, <2>6, <2>7 DEF d, l
<1> QED
  BY <1>6, <1>7

-----------------------------------------------------------------------------
\* What the invariant says of the view
LEMMA ViewFacts ==
  ASSUME LinkInv
  PROVE  /\ View \in Views /\ View.state = state /\ View.io = io /\ View.queue = queue
         /\ View.waiting = waiting /\ View.unsaved = unsaved
         /\ server \in SUBSET Links /\ stray \in SUBSET Links
         /\ Fit(View, server, stray) /\ Rested(View) /\ Distinct(queue) /\ Shape(View)
         /\ state \in Planner /\ io \in {None} \cup Job /\ queue \in Seq(Links)
         /\ waiting \in {None} \cup Action /\ unsaved \in SUBSET Links
<1>1. /\ View.state = state /\ View.io = io /\ View.queue = queue
      /\ View.waiting = waiting /\ View.unsaved = unsaved
  BY DEF View
<1>2. /\ View \in Views /\ Distinct(View.queue) /\ Fit(View, server, stray) /\ Rested(View)
      /\ server \in SUBSET Links /\ stray \in SUBSET Links /\ Shape(View)
  BY DEF LinkInv, Fit, Shape
<1> QED
  BY <1>1, <1>2, ViewFields

\* The view a handler leaves is the next state.
LEMMA NextView ==
  ASSUME NEW v \in Views, Becomes(v)
  PROVE  View' = v
<1>1. v = [state |-> v.state, io |-> v.io, queue |-> v.queue, waiting |-> v.waiting,
           unsaved |-> v.unsaved]
  BY DEF Views
<1>2. /\ state' = v.state /\ io' = v.io /\ queue' = v.queue
      /\ waiting' = v.waiting /\ unsaved' = v.unsaved
  BY DEF Becomes
<1> QED
  BY <1>1, <1>2 DEF View

\* A handler that leaves a fitting view keeps the invariant
LEMMA FitsNext ==
  ASSUME NEW v, Becomes(v), server' \in SUBSET Links, stray' \in SUBSET Links,
         Fit(v, server', stray'), Rested(v)
  PROVE  LinkInv' /\ View' = v
<1>1. v \in Views
  BY DEF Fit, Shape
<1>2. View' = v
  BY <1>1, NextView
<1> QED
  BY <1>2 DEF LinkInv

\* A job the user starts while none runs.
LEMMA StartsFits ==
  ASSUME LinkInv, io = None, NEW kind \in {"remove", "redo", "load"},
         NEW l \in Links \cup {None}, kind = "redo" => state.redo # << >>,
         kind = "remove" => l \in Links
  PROVE  Fit(Start(View, kind, l), server, stray) /\ Rested(Start(View, kind, l))
<1>1. Idle(View) /\ Shown(View, state.links, server, stray) /\ Persisting(View) = {}
  BY ViewFacts DEF Fit, Persisting
<1>2. Ready(View, kind, l, server, stray)
  BY <1>1, ViewFacts DEF Ready, Shown, Awaited, Idle
<1>3. kind \in Kinds /\ View \in Views
  BY ViewFacts DEF Kinds
<1> QED
  BY <1>2, <1>3, ViewFacts, StartFits

\* A link is removed
LEMMA UnlinkFits ==
  ASSUME LinkInv, NEW l \in Links, Unlink(l)
  PROVE  LinkInv'
<1>1. Fit(Start(View, "remove", l), server, stray) /\ Rested(Start(View, "remove", l))
  BY StartsFits DEF Unlink
<1> QED
  BY <1>1, ViewFacts, FitsNext DEF Unlink

\* Other work starts
LEMMA LoadFits ==
  ASSUME LinkInv, Load
  PROVE  LinkInv'
<1>1. Fit(Start(View, "load", None), server, stray) /\ Rested(Start(View, "load", None))
  BY StartsFits DEF Load
<1> QED
  BY <1>1, ViewFacts, FitsNext DEF Load

\* Redo from the keyboard
LEMMA RedoKeyFits ==
  ASSUME LinkInv, RedoKey
  PROVE  LinkInv'
<1>1. RedoLast(View) = Start(View, "redo", None)
  BY ViewFacts DEF RedoKey, RedoLast
<1>2. Fit(Start(View, "redo", None), server, stray) /\ Rested(Start(View, "redo", None))
  BY StartsFits DEF RedoKey
<1> QED
  BY <1>1, <1>2, ViewFacts, FitsNext DEF RedoKey

\* Undo from the keyboard: a link that waits in the queue is taken out of it,
\* else a job is started or waits
LEMMA UndoKeyFits ==
  ASSUME LinkInv, UndoKey
  PROVE  LinkInv'
<1>1. Fit(UndoLast(View), server, stray) /\ Rested(UndoLast(View))
  BY ViewFacts, UndoLastFits
<1> QED
  BY <1>1, ViewFacts, FitsNext DEF UndoKey

\* Undo from the toast
LEMMA ToastUndoFits ==
  ASSUME LinkInv, ToastUndo
  PROVE  LinkInv'
<1>1. state.toast \in Action
  BY ViewFacts DEF ToastUndo, Planner
<1>2. io = None /\ OffersLink(state.toast) => Range(queue) \subseteq state.links
  BY ViewFacts DEF Fit, Idle
<1> DEFINE e == ApplyToastUndo(View, state.toast)
<1>3. Fit(e, server, stray) /\ Rested(e)
  BY <1>1, <1>2, ViewFacts, ApplyFits
<1>4. Becomes(e) /\ server' = server /\ stray' = stray
  BY DEF ToastUndo
<1> HIDE DEF e
<1> QED
  BY <1>3, <1>4, ViewFacts, FitsNext

\* The toast is closed or times out
LEMMA ToastGoneFits ==
  ASSUME LinkInv, ToastGone
  PROVE  LinkInv'
<1> DEFINE s == [state EXCEPT !.toast = None]
           w == [View EXCEPT !.state = s]
<1>1. s \in Planner /\ s.links = state.links /\ s.toast = None /\ ~OffersLink(s.toast)
  BY ViewFacts DEF Planner, OffersLink
<1>2. state' = s
  BY DEF ToastGone
<1> HIDE DEF s
<1>3. /\ w \in Views /\ w.state = s /\ w.io = io /\ w.queue = queue
      /\ w.waiting = waiting /\ w.unsaved = unsaved
  BY <1>1, ViewFacts, SetState
<1> HIDE DEF w
<1>4. Becomes(w) /\ server' = server /\ stray' = stray
  BY <1>2, <1>3 DEF ToastGone, Becomes
<1>5. Awaited(w, stray) = Awaited(View, stray)
  BY <1>3, ViewFacts DEF Awaited, Persisting
<1>6. Fit(w, server, stray) /\ Rested(w)
  <2>1. Shape(w) /\ Shown(w, s.links, server, stray) /\ Rested(w)
    BY <1>1, <1>3, <1>5, ViewFacts DEF Fit, Shape, Shown, Rested
  <2>2. io = None => Idle(w)
    BY <1>1, <1>3, ViewFacts DEF Fit, Idle
  <2>3. io # None => Busy(w, server, stray)
    BY <1>1, <1>3, <1>5, ViewFacts DEF Fit, Busy, Shown
  <2> QED
    BY <1>3, <2>1, <2>2, <2>3 DEF Fit
<1> QED
  BY <1>4, <1>6, ViewFacts, FitsNext

\* An arrow drawn is shown at once, and its save queued.
LEMMA LinkFits ==
  ASSUME LinkInv, NEW l \in Links, Link(l)
  PROVE  LinkInv'
<1> DEFINE s == [Recorded(state, Drawn(l)) EXCEPT !.links = @ \cup {l}, !.toast = RemoveLink(l)]
           q == IF Contains(queue, l) THEN queue ELSE Append(queue, l)
           w == [View EXCEPT !.state = s, !.queue = q]
<1>1. s \in Planner /\ s.links = state.links \cup {l}
  <2> DEFINE u == Append(state.undo, Drawn(l))
  <2>1. u \in Seq(Entry) /\ << >> \in Seq(Entry) /\ RemoveLink(l) \in Action
    BY ViewFacts DEF Planner, Drawn, Entry, RemoveLink, Action
  <2>2. Recorded(state, Drawn(l)) = [state EXCEPT !.undo = u, !.redo = << >>]
    BY DEF Recorded
  <2> HIDE DEF u
  <2> QED
    BY <2>1, <2>2, ViewFacts DEF Planner
<1>2. q \in Seq(Links) /\ Distinct(q) /\ Range(q) = Range(queue) \cup {l}
  <2>1. CASE Contains(queue, l)
    BY <2>1, ViewFacts, DOMAIN queue = 1..Len(queue) DEF Contains, Range
  <2>2. CASE ~Contains(queue, l)
    <3>1. DOMAIN queue = 1..Len(queue) /\ Len(queue) \in Nat
      BY ViewFacts
    <3> DEFINE p == Append(queue, l)
    <3>2. /\ DOMAIN p = 1..(Len(queue) + 1) /\ p[Len(queue) + 1] = l
          /\ \A n \in 1..Len(queue) : p[n] = queue[n]
      BY <3>1, ViewFacts
    <3>3. p \in Seq(Links) /\ Range(p) = Range(queue) \cup {l}
      BY ViewFacts, RangeAppend
    <3> HIDE DEF p
    <3>4. \A n \in 1..Len(queue) : queue[n] # l
      BY <2>2 DEF Contains
    <3>5. Distinct(p)
      BY <3>1, <3>2, <3>4, ViewFacts DEF Distinct
    <3>6. q = p
      BY <2>2 DEF p
    <3> HIDE DEF q
    <3> QED
      BY <3>3, <3>5, <3>6
  <2> QED
    BY <2>1, <2>2
<1>3. /\ Becomes(DrainLinks(w)) /\ server' = server /\ stray' = stray /\ l \notin state.links
  BY ViewFacts DEF Link, Drawn
<1> HIDE DEF s, q
<1>4. /\ w \in Views /\ w.state = s /\ w.io = io /\ w.queue = q
      /\ w.waiting = waiting /\ w.unsaved = unsaved
  BY <1>1, <1>2, ViewFacts DEF Views
<1> HIDE DEF w
<1>5. Awaited(w, stray) = Awaited(View, stray) \cup {l}
  BY <1>2, <1>4, ViewFacts DEF Awaited, Persisting
<1>6. Shape(w) /\ Shown(w, w.state.links, server, stray) /\ Rested(w)
  BY <1>1, <1>2, <1>4, <1>5, ViewFacts DEF Fit, Shape, Shown, Rested
<1>7. Fit(DrainLinks(w), server, stray) /\ Rested(DrainLinks(w))
  <2>1. CASE io = None
    <3>1. w.unsaved \cap Range(w.queue) = {} /\ Range(w.queue) # {}
      BY <1>2, <1>3, <1>4, <2>1, ViewFacts DEF Fit, Idle
    <3>2. w.queue # << >>
      BY <3>1 DEF Range
    <3> QED
      BY <1>4, <1>6, <2>1, <3>1, <3>2, ViewFacts, DrainStarts
  <2>2. CASE io # None
    <3>1. Busy(View, server, stray)
      BY <2>2, ViewFacts DEF Fit
    <3>2. l \notin io.clone.links
      BY <1>3, <3>1, ViewFacts DEF Busy
    <3>3. io.kind = "persist" => io.link # l
      BY <3>1, <3>2, ViewFacts DEF Busy, JobFits
    <3>4. Shown(w, io.clone.links, server, stray)
      BY <1>5, <3>1, ViewFacts DEF Busy, Shown
    <3>5. Busy(w, server, stray)
      BY <1>1, <1>2, <1>3, <1>4, <3>1, <3>2, <3>3, <3>4, ViewFacts DEF Busy
    <3>6. DrainLinks(w) = w
      BY <1>4, <2>2 DEF DrainLinks
    <3> QED
      BY <1>4, <1>6, <2>2, <3>5, <3>6 DEF Fit
  <2> QED
    BY <2>1, <2>2
<1> QED
  BY <1>3, <1>7, ViewFacts, FitsNext

-----------------------------------------------------------------------------
\* The Undo of a toast put off while the job ran, replayed when it ends
\* (replay_pending_toast_undo).
LEMMA ReplayFits ==
  ASSUME NEW srv \in SUBSET Links, NEW bad \in SUBSET Links, NEW v, Fit(v, srv, bad),
         v.io = None, v.waiting = None \/ Range(v.queue) \subseteq v.state.links
  PROVE  LET e == Replay(v)
         IN  /\ Fit(e, srv, bad) /\ Rested(e) /\ e.state = v.state
             /\ Range(e.queue) \subseteq Range(v.queue) /\ Persisting(e) = {}
<1> DEFINE e == Replay(v)
           w == [v EXCEPT !.waiting = None]
<1>1. v \in Views /\ v.waiting \in {None} \cup Action /\ Distinct(v.queue)
  BY ViewFields DEF Fit, Shape
<1>2. CASE v.waiting = None
  BY <1>2 DEF Replay, Rested, Persisting
<1>3. CASE v.waiting # None
  <2>1. e = ApplyToastUndo(w, v.waiting) /\ v.waiting \in Action
    BY <1>1, <1>3 DEF Replay
  <2>2. /\ w \in Views /\ w.state = v.state /\ w.io = None /\ w.queue = v.queue
        /\ w.waiting = None /\ w.unsaved = v.unsaved
    BY <1>1, SetWaiting
  <2> HIDE DEF w
  <2>3. Awaited(w, bad) = Awaited(v, bad)
    BY <2>2 DEF Awaited, Persisting
  <2>4. Fit(w, srv, bad) /\ Rested(w)
    BY <1>1, <2>2, <2>3 DEF Fit, Shape, Shown, Idle, Rested
  <2> DEFINE x == v.waiting
             a == ApplyToastUndo(w, x)
  <2> HIDE DEF x
  <2>. x \in Action /\ Range(w.queue) \subseteq w.state.links
    BY <1>3, <2>1, <2>2 DEF x
  <2>5. /\ Fit(a, srv, bad) /\ Rested(a) /\ a.state = w.state
        /\ Range(a.queue) \subseteq Range(w.queue)
        /\ a.io # None => a.io.kind # "persist"
    BY <2>2, <2>4, ApplyFits
  <2> HIDE DEF a
  <2>6. e = a
    BY <2>1 DEF a, x
  <2> HIDE DEF e
  <2>7. Persisting(e) = {}
    BY <2>5, <2>6 DEF Persisting
  <2> QED
    BY <2>2, <2>5, <2>6, <2>7 DEF e
<1> QED
  BY <1>2, <1>3

\* What the end of a job puts in the view before the calls that follow it.
LEMMA SettleFields ==
  ASSUME NEW v \in Views, NEW s \in Planner, NEW srv
  PROVE  LET e == [Settle([v EXCEPT !.state = s], srv) EXCEPT !.io = None]
         IN  /\ e \in Views /\ e.state = s /\ e.io = None /\ e.queue = v.queue
             /\ e.waiting = v.waiting /\ e.unsaved = v.unsaved \cap (s.links \ srv)
<1> DEFINE a == [v EXCEPT !.state = s]
<1>1. /\ a \in Views /\ a.state = s /\ a.queue = v.queue
      /\ a.waiting = v.waiting /\ a.unsaved = v.unsaved
  BY SetState
<1> HIDE DEF a
<1> DEFINE u == v.unsaved \cap (s.links \ srv)
           b == [a EXCEPT !.unsaved = u]
<1>2. u \in SUBSET Links
  BY ViewFields
<1>3. Settle(a, srv) = b
  BY <1>1 DEF Settle
<1> HIDE DEF u
<1>4. /\ b \in Views /\ b.state = s /\ b.queue = v.queue
      /\ b.waiting = v.waiting /\ b.unsaved = u
  BY <1>1, <1>2, SetUnsaved
<1> HIDE DEF b
<1> DEFINE c == [b EXCEPT !.io = None]
<1>5. /\ c \in Views /\ c.state = s /\ c.io = None /\ c.queue = v.queue
      /\ c.waiting = v.waiting /\ c.unsaved = u
  BY <1>4, SetIo
<1>6. c = [Settle([v EXCEPT !.state = s], srv) EXCEPT !.io = None]
  BY <1>3 DEF a
<1> HIDE DEF c
<1> QED
  BY <1>5, <1>6 DEF u

\* The end of a job that adopts its clone: what is still to be saved is shown, and
\* can be undone (adopt_spawned, restore_queued_links, drain_link_saves).
LEMMA FinishIoFits ==
  ASSUME LinkInv, NEW ok \in BOOLEAN, FinishIo(ok)
  PROVE  /\ LinkInv'
         /\ \A l \in Range(queue') \cup Persisting(View') : Undoable(state', l)
<1> DEFINE d == JobDone(io, ok)
           b == [Settle([View EXCEPT !.state = d], server') EXCEPT !.io = None]
           r == FoldLeft(Restore, d, queue)
           u == unsaved \cap (d.links \ server')
           w == RestoreQueued(b)
<1>1. io # None /\ Request(ok)
  BY DEF FinishIo
<1>2. /\ d \in Planner /\ server' \in SUBSET Links /\ stray' \in SUBSET Links
      /\ server' \ stray' \subseteq d.links
      /\ d.links \ server' \subseteq Range(queue) \cup unsaved \cup stray'
      /\ d.links \subseteq io.clone.links \cup server'
  BY <1>1, DoneShown
<1>3. Becomes(DrainLinks(Replay(w)))
  BY DEF FinishIo
<1> HIDE DEF d
<1>4. /\ r \in Planner /\ r.links = d.links \cup Range(queue)
      /\ \A l \in Range(queue) : Undoable(r, l)
  BY <1>2, ViewFacts, RestoreAll
<1>5. /\ b \in Views /\ b.state = d /\ b.io = None /\ b.queue = queue
      /\ b.waiting = waiting /\ b.unsaved = u
  BY <1>2, ViewFacts, SettleFields
<1> HIDE DEF b, u
<1>6. /\ w \in Views /\ w.state = r /\ w.io = None /\ w.queue = queue
      /\ w.waiting = waiting /\ w.unsaved = u
  <2>1. w = [b EXCEPT !.state = r]
    BY <1>5 DEF RestoreQueued
  <2> HIDE DEF r, w
  <2> QED
    BY <1>4, <1>5, <2>1, SetState
<1> HIDE DEF r, w
<1>7. Fit(w, server', stray')
  <2>1. Awaited(w, stray') = Range(queue) \cup stray' \cup u
    BY <1>6 DEF Awaited, Persisting
  <2>2. Shape(w) /\ Shown(w, r.links, server', stray')
    BY <1>2, <1>4, <1>6, <2>1, ViewFacts DEF Shape, Shown, u
  <2>3. Busy(View, server, stray)
    BY <1>1, ViewFacts DEF Fit
  <2>4. Idle(w)
    BY <1>2, <1>4, <1>6, <2>3, ViewFacts DEF Idle, Busy, u
  <2> QED
    BY <1>6, <2>2, <2>4 DEF Fit
<1> DEFINE e == Replay(w)
<1>8. /\ Fit(e, server', stray') /\ Rested(e) /\ e.state = w.state
      /\ Range(e.queue) \subseteq Range(w.queue) /\ Persisting(e) = {}
  BY <1>2, <1>4, <1>6, <1>7, ReplayFits
<1> HIDE DEF e
<1>9. \A l \in Range(e.queue) \cup Persisting(e) : Undoable(e.state, l)
  BY <1>4, <1>6, <1>8
<1> DEFINE z == DrainLinks(e)
<1>10. /\ Fit(z, server', stray') /\ Rested(z)
       /\ \A l \in Range(z.queue) \cup Persisting(z) : Undoable(z.state, l)
  BY <1>2, <1>8, <1>9, DrainFits
<1>11. Becomes(z)
  BY <1>3 DEF e
<1> HIDE DEF z
<1>12. LinkInv' /\ View' = z
  BY <1>2, <1>10, <1>11, FitsNext
<1>13. queue' = z.queue /\ state' = z.state
  BY <1>11 DEF Becomes
<1> QED
  BY <1>10, <1>12, <1>13

\* The links that end at an item of l, l among them
Around(l) == {x \in Links : x[1] \in {l[1], l[2]}}

\* Merging the items of a link leaves the others alone (merge_undo_action).
LEMMA MergedFields ==
  ASSUME NEW s \in Planner, NEW done \in Planner, NEW l \in Links
  PROVE  /\ Merged(s, done, l) \in Planner
         /\ ~OffersLink(Merged(s, done, l).toast)
         /\ l \in Around(l)
         /\ Merged(s, done, l).links = (s.links \ Around(l)) \cup (done.links \cap Around(l))
<1> DEFINE own == {x \in Links : x[1] \in {l[1], l[2]}}
           I == {n \in 1..Len(s.undo) : s.undo[n].link = l}
           n == IF I # {} THEN Max(I) ELSE 0
           s1 == [s EXCEPT !.links = (@ \ own) \cup (done.links \cap own)]
           s2 == IF n = 0 THEN s1
                 ELSE [s1 EXCEPT !.undo = RemoveAt(@, n), !.redo = Append(@, s.undo[n])]
           t == IF s2.redo # << >> THEN StackRedo ELSE None
<1>1. /\ s.links \in SUBSET Links /\ s.undo \in Seq(Entry) /\ s.redo \in Seq(Entry)
      /\ done.links \in SUBSET Links /\ Len(s.undo) \in Nat
  BY DEF Planner
<1>2. Merged(s, done, l) = [s2 EXCEPT !.toast = t]
  BY DEF Merged, SelectLastInSeq
<1>3. n = 0 \/ n \in 1..Len(s.undo)
  <2>1. I \in SUBSET (1..Len(s.undo))
    OBVIOUS
  <2> HIDE DEF I
  <2>2. I # {} => Max(I) \in I
    <3>1. SUFFICES ASSUME I # {} PROVE Max(I) \in I
      OBVIOUS
    <3>2. PICK x \in I : \A y \in I : y <= x
      BY <1>1, <2>1, <3>1, RestoreLoop!LastExists
    <3>3. \A y \in I : x >= y
      BY <3>2
    <3> QED
      BY <3>2, <3>3 DEF Max
  <2> QED
    BY <2>1, <2>2
<1> HIDE DEF n
<1>4. own \in SUBSET Links /\ l \in own /\ own = Around(l)
  BY DEF Around
<1> HIDE DEF own
<1>5. /\ s1 \in Planner /\ s1.links = (s.links \ own) \cup (done.links \cap own)
      /\ s1.undo = s.undo /\ s1.redo = s.redo
  BY <1>1, <1>4 DEF Planner
<1> HIDE DEF s1
<1>6. s2 \in Planner /\ s2.links = s1.links
  <2>1. CASE n = 0
    BY <1>5, <2>1
  <2>2. CASE n # 0
    <3> DEFINE a == RemoveAt(s.undo, n)
               b == Append(s.redo, s.undo[n])
    <3>1. a \in Seq(Entry)
      BY <1>1, <1>3, <2>2, RemoveAtFields
    <3>2. b \in Seq(Entry)
      BY <1>1, <1>3, <2>2
    <3>3. s2 = [s1 EXCEPT !.undo = a, !.redo = b]
      BY <1>5, <2>2
    <3> HIDE DEF a, b, s2
    <3> QED
      BY <1>5, <3>1, <3>2, <3>3 DEF Planner
  <2> QED
    BY <2>1, <2>2
<1> HIDE DEF s2
<1>7. t \in {None} \cup Action /\ ~OffersLink(t)
  BY DEF StackRedo, Action, OffersLink
<1> HIDE DEF t
<1> DEFINE m == [s2 EXCEPT !.toast = t]
<1>8. m \in Planner /\ m.links = s2.links /\ m.toast = t
  BY <1>6, <1>7 DEF Planner
<1> HIDE DEF m
<1>9. Merged(s, done, l) = m
  BY <1>2 DEF m
<1> QED
  BY <1>4, <1>5, <1>6, <1>7, <1>8, <1>9

\* The end of a toast's Undo, which merges two items into the state.
LEMMA FinishToastUndoFits ==
  ASSUME LinkInv, NEW ok \in BOOLEAN, FinishToastUndo(ok)
  PROVE  LinkInv'
<1> DEFINE d == JobDone(io, ok)
           s == IF ok THEN Merged(state, d, io.link) ELSE state
           u == unsaved \cap (s.links \ server')
           w == [Settle([View EXCEPT !.state = s], server') EXCEPT !.io = None]
<1>1. io # None /\ Request(ok) /\ IsToastUndo(io)
  BY DEF FinishToastUndo
<1>2. /\ d \in Planner /\ server' \in SUBSET Links /\ stray' \in SUBSET Links
      /\ server' \ stray' \subseteq d.links
      /\ d.links \ server' \subseteq Range(queue) \cup unsaved \cup stray'
      /\ io.kind # "load" => /\ JobLink(io) \in Links
                             /\ server' \ {JobLink(io)} = server \ {JobLink(io)}
                             /\ stray' \ {JobLink(io)} = stray \ {JobLink(io)}
                             /\ ~ok => stray' = stray \cup {JobLink(io)}
  BY <1>1, DoneShown
<1>3. JobLink(io) = io.link /\ io.kind # "load" /\ io.kind # "persist"
  BY <1>1 DEF IsToastUndo, JobLink
<1>4. Becomes(Replay(w))
  BY DEF FinishToastUndo
<1> HIDE DEF d
<1>5. /\ Busy(View, server, stray) /\ Shown(View, state.links, server, stray)
      /\ Persisting(View) = {}
  BY <1>1, <1>3, ViewFacts DEF Fit, Persisting
<1>6. /\ Range(queue) \cup unsaved \subseteq state.links /\ waiting = None
      /\ unsaved \cap Range(queue) = {} /\ io.clone.links \subseteq state.links
      /\ server \ stray \subseteq io.clone.links
      /\ state.links \ server \subseteq Range(queue) \cup stray \cup unsaved
  BY <1>1, <1>5, ViewFacts DEF Busy, Shown, Awaited
<1>7. /\ s \in Planner /\ server' \ stray' \subseteq s.links
      /\ s.links \ server' \subseteq Range(queue) \cup stray' \cup unsaved
      /\ OffersLink(s.toast) => Range(queue) \subseteq s.links
  <2>1. CASE ok
    <3> DEFINE m == Merged(state, d, io.link)
    <3>0. state \in Planner /\ d \in Planner /\ io.link \in Links
      BY <1>2, <1>3, ViewFacts
    <3>1. m \in Planner /\ ~OffersLink(m.toast)
      BY <3>0, MergedFields
    <3>2. /\ io.link \in Around(io.link)
          /\ m.links = (state.links \ Around(io.link)) \cup (d.links \cap Around(io.link))
      BY <3>0, MergedFields
    <3>3. s = m
      BY <2>1
    <3> HIDE DEF m, s
    <3>4. server' \ stray' \subseteq m.links
      BY <1>2, <1>3, <1>6, <3>2
    <3>5. m.links \ server' \subseteq Range(queue) \cup stray' \cup unsaved
      BY <1>2, <1>3, <1>6, <3>2
    <3> QED
      BY <3>1, <3>3, <3>4, <3>5
  <2>2. CASE ~ok
    <3>1. s = state
      BY <2>2
    <3> HIDE DEF s
    <3> QED
      BY <1>2, <1>3, <1>6, <2>2, <3>1, ViewFacts
  <2> QED
    BY <2>1, <2>2
<1> HIDE DEF s
<1>8. View \in Views /\ s \in Planner
  BY <1>7, ViewFacts
<1>9. /\ w \in Views /\ w.state = s /\ w.io = None /\ w.queue = queue
      /\ w.waiting = waiting /\ w.unsaved = u
  <2>1. /\ w \in Views /\ w.state = s /\ w.io = None /\ w.queue = View.queue
        /\ w.waiting = View.waiting /\ w.unsaved = View.unsaved \cap (s.links \ server')
    BY <1>8, SettleFields
  <2> HIDE DEF w
  <2> QED
    BY <2>1 DEF View
<1> HIDE DEF w
<1>10. Fit(w, server', stray')
  <2>1. Awaited(w, stray') = Range(queue) \cup stray' \cup u
    BY <1>9 DEF Awaited, Persisting
  <2>2. Shape(w) /\ Shown(w, s.links, server', stray')
    BY <1>7, <1>9, <2>1, ViewFacts DEF Shape, Shown
  <2>3. Idle(w)
    BY <1>6, <1>7, <1>9 DEF Idle
  <2> QED
    BY <1>9, <2>2, <2>3 DEF Fit
<1>11. Replay(w) = w /\ Rested(w)
  BY <1>6, <1>9 DEF Replay, Rested
<1> QED
  BY <1>2, <1>4, <1>10, <1>11, FitsNext

-----------------------------------------------------------------------------
\* apply_hierarchy has just loaded the rows: what they show is stored.
LEMMA LinkInvInit == Init => LinkInv
<1> SUFFICES ASSUME Init PROVE LinkInv
  OBVIOUS
<1> USE DEF Init
<1>1. state.links = server /\ state.toast = None /\ state \in Planner
  <2>1. << >> \in Seq(Entry)
    OBVIOUS
  <2> QED
    BY <2>1 DEF Planner
<1>2. /\ View \in Views /\ View.state = state /\ View.io = None /\ View.queue = << >>
      /\ View.waiting = None /\ View.unsaved = {}
  <2>1. << >> \in Seq(Links)
    OBVIOUS
  <2> QED
    BY <1>1, <2>1 DEF View, Views
<1>3. Range(<< >>) = {} /\ Distinct(<< >>)
  BY DEF Range, Distinct
<1>4. Shape(View) /\ Rested(View) /\ Idle(View) /\ Shown(View, state.links, server, stray)
  BY <1>1, <1>2, <1>3 DEF Shape, Rested, Idle, Shown, Awaited, OffersLink
<1> QED
  BY <1>2, <1>4 DEF LinkInv, Fit

\* No turn of the UI thread breaks the invariant.
LEMMA LinkInvStep == LinkInv /\ [Next]_vars => LinkInv'
<1> SUFFICES ASSUME LinkInv, [Next]_vars PROVE LinkInv'
  OBVIOUS
<1>1. ASSUME NEW l \in Links, Link(l) PROVE LinkInv'
  BY <1>1, LinkFits
<1>2. ASSUME NEW l \in Links, Unlink(l) PROVE LinkInv'
  BY <1>2, UnlinkFits
<1>3. CASE UndoKey
  BY <1>3, UndoKeyFits
<1>4. CASE RedoKey
  BY <1>4, RedoKeyFits
<1>5. CASE ToastUndo
  BY <1>5, ToastUndoFits
<1>6. CASE ToastGone
  BY <1>6, ToastGoneFits
<1>7. CASE Load
  BY <1>7, LoadFits
<1>8. ASSUME NEW ok \in BOOLEAN, FinishIo(ok) PROVE LinkInv'
  BY <1>8, FinishIoFits
<1>9. ASSUME NEW ok \in BOOLEAN, FinishToastUndo(ok) PROVE LinkInv'
  BY <1>9, FinishToastUndoFits
<1>10. CASE UNCHANGED vars
  <2>1. View' = View /\ server' = server /\ stray' = stray
    BY <1>10 DEF vars, View
  <2> QED
    BY <2>1 DEF LinkInv
<1> QED
  BY <1>1, <1>2, <1>3, <1>4, <1>5, <1>6, <1>7, <1>8, <1>9, <1>10 DEF Next, UserStep, Finish

\* The state and the clone of the running job show every link of the server whose
\* last request did not fail, and nothing else but links with a save to come or
\* taken back by an Undo (spawn_state, adopt_spawned, merge_undo_action).
THEOREM LinkInvariant == Spec => []LinkInv
  BY LinkInvInit, LinkInvStep, PTL DEF Spec

\* With nothing left to do the rows show the links Azure DevOps holds, but for
\* failed requests and saves an Undo took away (drain_link_saves, adopt_spawned).
THEOREM LinksSettle == Spec => []LinksAgree
<1>1. LinkInv => LinksAgree
  <2> SUFFICES ASSUME LinkInv, io = None, queue = << >>,
                      NEW l \in Links \ (stray \cup unsaved)
               PROVE  l \in state.links <=> l \in server
    BY DEF LinksAgree
  <2>1. Shown(View, state.links, server, stray) /\ Range(queue) = {}
    BY ViewFacts DEF Fit, Range
  <2>2. Awaited(View, stray) = stray \cup unsaved
    BY <2>1, ViewFacts DEF Awaited, Persisting
  <2> QED
    BY <2>1, <2>2 DEF Shown
<1> QED
  BY LinkInvariant, <1>1, PTL

\* A save that an Undo took out of the queue is never sent, whatever clone was
\* adopted and whatever was drawn in between (dequeue_link_save).
THEOREM UndoneNeverSaved == Spec => []UndoneNotSaved
<1>1. LinkInv => UndoneNotSaved
  <2> SUFFICES ASSUME LinkInv, io # None, io.kind = "persist" PROVE io.link \notin unsaved
    BY DEF UndoneNotSaved
  <2>1. Busy(View, server, stray)
    BY ViewFacts DEF Fit
  <2> QED
    BY <2>1, ViewFacts DEF Busy
<1> QED
  BY LinkInvariant, <1>1, PTL

\* Adopting a clone older than a link loses neither the link, whose save is still
\* queued or starting, nor its undo entry (restore_queued_links).
THEOREM AdoptionKeepsQueued == Spec => QueuedShown
<1> DEFINE Kept == \A l \in Links :
             Contains(queue', l) \/ (io' # None /\ io'.kind = "persist" /\ io'.link = l)
               => /\ l \in state'.links
                  /\ Contains(state'.undo, [link |-> l, linked |-> TRUE])
<1>1. LinkInv /\ [Next]_vars => [(\E ok \in BOOLEAN : FinishIo(ok)) => Kept]_vars
  <2> SUFFICES ASSUME LinkInv, NEW ok \in BOOLEAN, FinishIo(ok) PROVE Kept
    OBVIOUS
  <2>1. LinkInv' /\ \A l \in Range(queue') \cup Persisting(View') : Undoable(state', l)
    BY FinishIoFits
  <2>2. View'.io = io' /\ queue' \in Seq(Links) /\ state'.undo \in Seq(Entry)
    <3>1. (View.io = io)' /\ (queue \in Seq(Links))' /\ (state \in Planner)'
      BY <2>1, ViewFacts, PTL
    <3> QED
      BY <3>1 DEF Planner
  <2> TAKE l \in Links
  <2> HAVE Contains(queue', l) \/ (io' # None /\ io'.kind = "persist" /\ io'.link = l)
  <2>3. Undoable(state', l)
    <3>1. CASE Contains(queue', l)
      BY <2>1, <2>2, <3>1, DOMAIN queue' = 1..Len(queue') DEF Contains, Range
    <3>2. CASE io' # None /\ io'.kind = "persist" /\ io'.link = l
      BY <2>1, <2>2, <3>2 DEF Persisting
    <3> QED
      BY <3>1, <3>2
  <2>4. DOMAIN state'.undo = 1..Len(state'.undo)
    BY <2>2
  <2> QED
    BY <2>3, <2>4 DEF Undoable, Drawn, Contains, Range
<1> QED
  BY LinkInvariant, <1>1, PTL DEF Spec, QueuedShown

=============================================================================
