----------------------------- MODULE MCSpawnState -----------------------------
(* Values for model-checking SpawnState: a parent with one child. *)
EXTENDS SpawnState, TLC

CONSTANTS p, c

MCIds   == {p, c}
MCDates == 0..1
MCKids  == (p :> <<c>>) @@ (c :> << >>)
=============================================================================
