--------------------------- MODULE MCDateSavesLanes ---------------------------
(* Values for model-checking DateSavesLanes: a grandparent, parent and child. *)
EXTENDS DateSavesLanes, TLC

CONSTANTS g, p, c

MCIds   == {g, p, c}
MCDates == 0..1
MCKids  == (g :> <<p, c>>) @@ (p :> <<c>>) @@ (c :> << >>)
=============================================================================
