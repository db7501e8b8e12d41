------------------------------- MODULE MCDetails -------------------------------
(***************************************************************************)
(* The two ways to edit the fields of a Work Item, one at a time: the form *)
(* (Form), and the rows with the history that undoes it (Items).           *)
(***************************************************************************)
EXTENDS Form, Items

CONSTANTS item1, item2, title, assignee

MCIds   == {item1, item2}
MCMoved == {item1}
MCVals  == 0..1
MCNames == {title, assignee}
MCTexts == {"old", "new"}

VARIABLE part

detailVars == <<part, formVars, itemVars>>

\* The values are alike but for the empty text; item1 has a text, or none
FormStarts  == /\ FormInit /\ \A i \in Ids : server[i].val.Dates = 0
               /\ server[item1].val.Text \in {0, None} /\ server[item2].val.Text = 0
ItemsStart  == ItemsInit /\ \A n \in Names : azure[1][n] = "old"

DetailsInit ==
  \/ part = "form"  /\ FormStarts /\ ItemsStart
  \/ part = "items" /\ ItemsStart /\ FormStarts /\ server[item1].val.Text = 0

DetailsNext ==
  /\ UNCHANGED part
  /\ \/ part = "form"  /\ FormNext  /\ UNCHANGED itemVars
     \/ part = "items" /\ ItemsNext /\ UNCHANGED formVars

DetailsSpec == DetailsInit /\ [][DetailsNext]_detailVars /\ FormFair
=============================================================================
