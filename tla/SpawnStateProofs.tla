--------------------------- MODULE SpawnStateProofs ---------------------------
(***************************************************************************)
(* Proofs about SpawnState.                                                *)
(*                                                                         *)
(* Adopting a clone leaves the queue, `busy` and the PATCHes in flight     *)
(* alone, so what is proved of them in DateSavesProofs still holds (OwnInv *)
(* is inductive for SpawnState too), and it changes the dates of no item   *)
(* outside `overwritten`.  The steps of DateSaves keep the agreement of    *)
(* each item by itself (AgreementKept).                                    *)
(***************************************************************************)
EXTENDS SpawnState, DateSavesProofs

\* What spawn_state clones of the pipeline
Clones == [live : [Ids -> Dates], shifted : [Ids -> Stashes],
           undo : Seq(Entries), redo : Seq(Entries), toast : Toasts \cup {None}]

\* The types of what SpawnState adds
SpawnTypes ==
  /\ io \in Clones \cup {None}
  /\ wanted \in [Ids -> Dates] /\ overwritten \in SUBSET Ids

\* OffersChildren, of the clone
ClonedOffers ==
  io # None /\ io.toast # None /\ io.toast.extra # 0 => Kids[io.toast.items[1].id] # << >>

\* The inductive invariant: that of the pipeline with its cascades, and the items
\* the clone did not overwrite agree
SpawnInv == OwnInv /\ SpawnTypes /\ ClonedOffers /\ UntouchedAgree

\* A loaded planner
LEMMA SpawnInvInit == SpawnInit => SpawnInv
<1> SUFFICES ASSUME SpawnInit PROVE SpawnInv
  OBVIOUS
<1>1. AgreeInv /\ live = wanted /\ io = None /\ overwritten = {}
  BY AgreeInvInit DEF SpawnInit
<1>2. live \in [Ids -> Dates]
  BY <1>1, PipelineFacts DEF AgreeInv, OwnInv
<1> QED
  BY <1>1, <1>2 DEF AgreeInv, SpawnInv, SpawnTypes, ClonedOffers, UntouchedAgree, Agreement

\* A clone is taken (spawn_state)
LEMMA StartIoKeeps ==
  ASSUME SpawnInv, StartIo
  PROVE  SpawnInv'
<1>1. /\ Desk' = Desk /\ UNCHANGED <<pipeline, history, toast, server, marks, faults, wanted, overwritten>>
      /\ io' = Clone
  BY DEF StartIo, pipeline, Desk
<1>2. DateSavesTypes /\ OffersChildren
  BY DEF SpawnInv, OwnInv, PipelineInv
<1>3. Clone \in Clones
  <2>1. live \in [Ids -> Dates] /\ shifted \in [Ids -> Stashes]
    BY PipelineFacts DEF SpawnInv, OwnInv
  <2> QED
    BY <1>2, <2>1 DEF Clone, Clones, DateSavesTypes
<1>4. edits' \in 0..MaxEdits
  BY <1>2, PipelineAssumption DEF StartIo, DateSavesTypes
<1>5. DateSavesTypes' /\ OffersChildren'
  BY <1>1, <1>2, <1>4 DEF DateSavesTypes, OffersChildren, history, marks
<1>6. OwnInv'
  BY <1>1, <1>5 DEF SpawnInv, OwnInv, PipelineInv
<1>7. SpawnTypes'
  BY <1>1, <1>3 DEF SpawnInv, SpawnTypes
<1>8. ClonedOffers'
  BY <1>1, <1>2 DEF ClonedOffers, Clone, OffersChildren
<1>9. UntouchedAgree'
  BY <1>1 DEF SpawnInv, UntouchedAgree, Settled, Held, pipeline, marks
<1> QED
  BY <1>6, <1>7, <1>8, <1>9 DEF SpawnInv

\* The clone replaces the planner: dates edited meanwhile are overwritten, the
\* rest agree as before
LEMMA FinishIoKeeps ==
  ASSUME SpawnInv, FinishIo
  PROVE  SpawnInv'
<1>1. DateSavesTypes /\ OwnInv /\ DeskInv(Desk) /\ KidsOwn(Desk) /\ io \in Clones
  BY DEF SpawnInv, OwnInv, PipelineInv, SpawnTypes, FinishIo
<1>2. /\ io.live \in [Ids -> Dates] /\ io.shifted \in [Ids -> Stashes]
      /\ io.undo \in Seq(Entries) /\ io.redo \in Seq(Entries) /\ io.toast \in Toasts \cup {None}
  BY <1>1 DEF Clones
<1>3. /\ Desk'.live = io.live /\ Desk'.shifted = io.shifted /\ Desk'.queue = queue
      /\ Desk'.busy = busy /\ Desk'.flight = flight
  BY DEF Desk, FinishIo
<1>4. Desk' \in Desks
  BY <1>1, <1>2, PipelineFacts DEF Desk, Desks, FinishIo, OwnInv
<1>5. /\ Desk.queue = queue /\ Desk.busy = busy /\ Desk.flight = flight
  BY DEF Desk
<1>6. DeskInv(Desk)' /\ KidsOwn(Desk)'
  BY <1>1, <1>3, <1>4, <1>5 DEF DeskInv, Ready, InFlight, Distinct, Waiting, KidsOwn, Carried
<1>7. DateSavesTypes' /\ OffersChildren'
  BY <1>1, <1>2, <1>4 DEF DateSavesTypes, OffersChildren, FinishIo, SpawnInv, ClonedOffers, marks
<1>8. OwnInv'
  BY <1>6, <1>7 DEF OwnInv, PipelineInv
<1>9. SpawnTypes' /\ ClonedOffers'
  BY DEF SpawnInv, SpawnTypes, ClonedOffers, FinishIo
<1>10. ASSUME NEW i \in Ids \ (failed' \cup orphaned' \cup overwritten'), Settled(i)'
       PROVE  live'[i] = server'[i]
  <2>1. live'[i] = live[i] /\ i \notin overwritten
    BY <1>10 DEF FinishIo
  <2>2. Settled(i)
    BY <1>10, <2>1 DEF FinishIo, Settled, Held
  <2> QED
    BY <1>10, <2>1, <2>2 DEF SpawnInv, UntouchedAgree, FinishIo, marks
<1> QED
  BY <1>8, <1>9, <1>10 DEF SpawnInv, UntouchedAgree

\* A step of the pipeline while a clone is out, or not
LEMMA PlannerStepKeeps ==
  ASSUME SpawnInv, PlannerStep
  PROVE  SpawnInv'
<1>1. OwnInv' /\ AgreementKept
  BY OwnInvStep DEF SpawnInv, PlannerStep
<1>2. live \in [Ids -> Dates] /\ live' \in [Ids -> Dates]
  BY <1>1 DEF SpawnInv, OwnInv, PipelineInv, DateSavesTypes, Desk, Desks
<1>3. SpawnTypes' /\ ClonedOffers'
  BY <1>2 DEF SpawnInv, SpawnTypes, ClonedOffers, PlannerStep
<1>4. UntouchedAgree'
  BY <1>1 DEF SpawnInv, UntouchedAgree, AgreementKept, AgreesFor, PlannerStep
<1> QED
  BY <1>1, <1>3, <1>4 DEF SpawnInv

\* Nothing happens
LEMMA SpawnStill ==
  ASSUME SpawnInv, UNCHANGED allVars
  PROVE  SpawnInv'
<1>1. OwnInv' /\ AgreementKept
  BY OwnInvStep DEF SpawnInv, allVars
<1> QED
  BY <1>1 DEF SpawnInv, SpawnTypes, ClonedOffers, UntouchedAgree, AgreementKept, AgreesFor, allVars, spawnVars

\* No step breaks the invariant
LEMMA SpawnInvStep == SpawnInv /\ [SpawnNext]_allVars => SpawnInv'
BY StartIoKeeps, FinishIoKeeps, PlannerStepKeeps, SpawnStill DEF SpawnNext

\* The pipeline and the clones of it: the queue discipline of DateSaves and the
\* agreement of every item no clone has overwritten, for every interleaving of
\* edits, answers and clones
THEOREM SpawnInvariant == SpawnSpec => []SpawnInv
BY SpawnInvInit, SpawnInvStep, PTL DEF SpawnSpec

\* Whatever work ends with the adoption of its clone while date saves are queued
\* and in flight, an item it did not overwrite shows what Azure DevOps holds once
\* nothing of it is left to save (spawn_state, adopt_spawned, spawn_one_date_save).
THEOREM UntouchedItemsAgree == SpawnSpec => []UntouchedAgree
<1>1. SpawnInv => UntouchedAgree
  BY DEF SpawnInv
<1> QED
  BY <1>1, SpawnInvariant, PTL

\* The queue discipline survives the adoption of clones: one PATCH per item, and
\* every queued save waits for one of its own item.
THEOREM DisciplineSurvives == SpawnSpec => [](SingleFlight /\ NoStrandedSave)
<1>1. PipelineInv => SingleFlight
  BY DEF PipelineInv, DeskInv, Ready, InFlight, SingleFlight, Desk
<1>2. PipelineInv => NoStrandedSave
  BY DEF PipelineInv, DeskInv, Ready, Distinct, Waiting, NoStrandedSave, Desk
<1>3. SpawnInv => SingleFlight /\ NoStrandedSave
  BY <1>1, <1>2 DEF SpawnInv, OwnInv
<1> QED
  BY <1>3, SpawnInvariant, PTL

\* The chains of the clone
ClonedChain(j) == Chained(io.undo, io.redo, j, io.live[j])

\* The inductive invariant of HistoryAgrees, of the planner and of the clone that
\* may replace it
SpawnChainInv ==
  /\ SpawnInv
  /\ faults = 0 => /\ \A j \in Ids \ offstack : OnChain(j)
                   /\ io # None => \A j \in Ids \ offstack : ClonedChain(j)

\* A loaded planner has no history and no clone.
LEMMA SpawnChainInit == SpawnInit => SpawnChainInv
BY SpawnInvInit, ChainInvInit DEF SpawnInit, SpawnChainInv, ChainInv

\* Neither a step of the pipeline nor a clone, taken or adopted, breaks a chain.
LEMMA SpawnChainStep == SpawnChainInv /\ [SpawnNext]_allVars => SpawnChainInv'
<1> SUFFICES ASSUME SpawnChainInv, [SpawnNext]_allVars PROVE SpawnChainInv'
  OBVIOUS
<1>1. SpawnInv' /\ SpawnInv /\ OwnInv
  BY SpawnInvStep DEF SpawnChainInv, SpawnInv
<1>2. CASE StartIo
  <2>1. /\ live' = live /\ undo' = undo /\ redo' = redo
        /\ offstack' = offstack /\ faults' = faults /\ io' = Clone
    BY <1>2 DEF StartIo, pipeline, history, marks
  <2>2. io'.undo = undo /\ io'.redo = redo /\ io'.live = live
    BY <2>1 DEF Clone
  <2> QED
    BY <1>1, <2>1, <2>2 DEF SpawnChainInv, OnChain, ClonedChain
<1>3. CASE FinishIo
  BY <1>1, <1>3 DEF FinishIo, marks, SpawnChainInv, OnChain, ClonedChain
<1>4. CASE PlannerStep
  <2>1. Next /\ io' = io
    BY <1>4 DEF PlannerStep
  <2>2. offstack \subseteq offstack' /\ (faults' = 0 => faults = 0)
    BY <1>1, <2>1, MarksGrow
  <2>3. ASSUME faults' = 0, NEW j \in Ids \ offstack' PROVE OnChain(j)'
    <3>1. OnChain(j)
      BY <2>2, <2>3 DEF SpawnChainInv
    <3> QED
      BY <1>1, <2>1, <2>3, <3>1, ChainKept
  <2>4. ASSUME faults' = 0, io' # None, NEW j \in Ids \ offstack' PROVE ClonedChain(j)'
    BY <2>1, <2>2, <2>4 DEF SpawnChainInv, ClonedChain
  <2> QED
    BY <1>1, <2>3, <2>4 DEF SpawnChainInv
<1>5. CASE UNCHANGED allVars
  BY <1>1, <1>5 DEF allVars, vars, spawnVars, pipeline, history, marks, SpawnChainInv, OnChain,
                    ClonedChain
<1> QED
  BY <1>2, <1>3, <1>4, <1>5 DEF SpawnNext

\* Adopting a clone takes the dates and the history back together: while no PATCH
\* fails, Undo and Redo still start from what is shown (adopt_spawned).
THEOREM HistorySurvives == SpawnSpec => []HistoryAgrees
<1>1. SpawnChainInv => HistoryAgrees
  BY ChainAgrees DEF SpawnChainInv, SpawnInv, ChainInv
<1> QED
  BY <1>1, SpawnChainInit, SpawnChainStep, PTL DEF SpawnSpec

=============================================================================
