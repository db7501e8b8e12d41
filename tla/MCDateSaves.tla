---------------------------- MODULE MCDateSaves ----------------------------
(* Values for model-checking DateSaves: a parent with one child. *)
EXTENDS DateSaves, TLC

CONSTANTS p, c

MCIds   == {p, c}
MCDates == 0..2
MCKids  == (p :> <<c>>) @@ (c :> << >>)
=============================================================================
