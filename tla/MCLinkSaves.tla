----------------------------- MODULE MCLinkSaves -----------------------------
(* Values for model-checking LinkSaves: two links that meet in an item, so that *)
(* merging the items of one touches the other.                              *)
EXTENDS LinkSaves, TLC

MCLinks == {<<"b", "a">>, <<"c", "b">>}
=============================================================================
