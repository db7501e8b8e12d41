-------------------------------- MODULE MCPreview --------------------------------
(* Values for model-checking Preview. *)
EXTENDS Preview, TLC

CONSTANTS a, b

MCIds  == {a, b}
MCDays == 0..1
MCStarts == {[s |-> 0, t |-> None], [s |-> None, t |-> None]}

\* The items are alike: it does not matter which one is selected first
MCInit == PreviewInit /\ selected # b

MCSpec == MCInit /\ [][PreviewNext]_vars /\ PreviewFair
=============================================================================
