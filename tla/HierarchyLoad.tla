----------------------------- MODULE HierarchyLoad -----------------------------
(***************************************************************************)
(* AdoClient::load_hierarchy (crates/ado-client/src/client.rs): a query    *)
(* for the ids of a team's Work Items, then the items in batches, then     *)
(* their relations in batches, each read at a time of its own while other  *)
(* users edit them, and assemble_forest (ado-core/hierarchy.rs) over what  *)
(* came back.  In module Scope this is one step, "rows".                   *)
(*                                                                         *)
(* A team whose backlog settings cannot be read is loaded all the same,    *)
(* with a warning: without types in the query, and with the fields of a    *)
(* type asked for once the items have told which types there are.          *)
(***************************************************************************)
EXTENDS Naturals, Sequences, SequencesExt

CONSTANTS
  WorkIds,    \* ids of Work Items
  Kinds,      \* types of Work Items
  DatedKinds, \* those with both date fields
  Stocks,     \* what the server may hold when a load starts
  ResultCap,  \* WIQL_RESULT_CAP
  BatchSize,  \* BATCH_SIZE
  MaxMoves,   \* bound: edits by other users
  MaxLapses   \* bound: requests that fail

VARIABLES
  stock,   \* the Work Items on the server
  team,    \* the types of the team's backlogs
  load,    \* the load: its next request, the ids of its query, those still due in
           \* this round of batches, the types known to have dates, the rows so far
  touched, \* items that were edited since the load began
  unread,  \* items whose relations could not be read
  moves, lapses

loadVars == <<stock, team, load, touched, unread, moves, lapses>>

\* at: in the team's areas and not Removed, out of them, or in the recycle bin
Item == [kind : Kinds, parent : WorkIds \cup {0}, preds : SUBSET WorkIds,
         at : {"area", "elsewhere", "bin"}]

\* The server lets no item be its own ancestor
Forest(s) == \A S \in SUBSET WorkIds \ {{}} : {i \in S : s[i].parent \notin S} # {}

ASSUME HierarchyAssumption ==
  /\ 0 \notin WorkIds /\ DatedKinds \subseteq Kinds
  /\ \A s \in Stocks : s \in [WorkIds -> Item] /\ Forest(s)
  /\ ResultCap \in Nat \ {0} /\ BatchSize \in Nat \ {0} /\ MaxMoves \in Nat /\ MaxLapses \in Nat

-----------------------------------------------------------------------------
\* build_hierarchy_wiql, build_untyped_hierarchy_wiql
Matches(i) == stock[i].at = "area" /\ (load.warned \/ stock[i].kind \in team)

\* All ids that match, or as many as the cap allows, in the server's order
IdLists ==
  {list \in SeqOf({i \in WorkIds : Matches(i)}, ResultCap) :
     /\ IsInjective(list)
     /\ Len(list) = ResultCap \/ \A i \in WorkIds : Matches(i) => i \in Range(list)}

\* chunk_ids: the next batch, and what is due after it
Chunk == {load.due[n] : n \in {k \in DOMAIN load.due : k <= BatchSize}}
Rest  == SubSeq(load.due, BatchSize + 1, Len(load.due))

\* Items in the recycle bin are left out of an answer (errorPolicy)
Here == {i \in Chunk : stock[i].at # "bin"}

\* map_batch_work_item, without relations
Row(i) ==
  [kind |-> stock[i].kind, parent |-> stock[i].parent, preds |-> {},
   dates |-> stock[i].kind \in load.dated]

\* assemble_forest: whose parent is not loaded becomes a root
Assembled(rows) ==
  [i \in DOMAIN rows |->
     [rows[i] EXCEPT !.parent = IF rows[i].parent \in DOMAIN rows THEN rows[i].parent ELSE 0]]

-----------------------------------------------------------------------------
(***************************************************************************)
(* The requests, in their order.                                           *)
(***************************************************************************)
Lapse == lapses < MaxLapses /\ lapses' = lapses + 1

\* A team without types has no rows
BacklogsRead ==
  /\ load.step = "backlogs"
  /\ load' = [load EXCEPT !.step = IF team = {} THEN "ok" ELSE "query"]
  /\ UNCHANGED <<stock, team, touched, unread, moves, lapses>>

\* is_backlogs_failure: the load goes on with a warning
BacklogsFail ==
  /\ load.step = "backlogs" /\ Lapse
  /\ load' = [load EXCEPT !.step = "query", !.warned = TRUE]
  /\ UNCHANGED <<stock, team, touched, unread, moves>>

IdsRead ==
  /\ load.step = "query"
  /\ \E list \in IdLists : load' = [load EXCEPT !.step = "fields", !.ids = list, !.due = list]
  /\ UNCHANGED <<stock, team, touched, unread, moves, lapses>>

\* Which of the team's types have dates; with a warning none are asked about yet
FieldsRead ==
  /\ load.step = "fields"
  /\ load' = [load EXCEPT !.step = IF load.ids = << >> THEN "ok" ELSE "items",
                          !.dated = IF load.warned THEN {} ELSE team \cap DatedKinds]
  /\ UNCHANGED <<stock, team, touched, unread, moves, lapses>>

\* A batch of items; after the last one the relations are due
ItemsRead ==
  /\ load.step = "items"
  /\ load' = [load EXCEPT
       !.rows = [i \in DOMAIN @ \cup Here |-> IF i \in Here THEN Row(i) ELSE @[i]],
       !.due  = IF Rest = << >> THEN load.ids ELSE Rest,
       !.step = IF Rest = << >> THEN "links" ELSE "items"]
  /\ UNCHANGED <<stock, team, touched, unread, moves, lapses>>

\* After the last batch of relations
Onward(rows) ==
  load' = [load EXCEPT
    !.rows = IF Rest = << >> /\ ~load.warned THEN Assembled(rows) ELSE rows,
    !.due  = Rest,
    !.step = IF Rest # << >> THEN "links" ELSE IF load.warned THEN "discover" ELSE "ok"]

LinksRead ==
  /\ load.step = "links"
  /\ Onward([i \in DOMAIN load.rows |->
       IF i \in Here THEN [load.rows[i] EXCEPT !.preds = stock[i].preds] ELSE load.rows[i]])
  /\ UNCHANGED <<stock, team, touched, unread, moves, lapses>>

\* A batch of relations that fails is passed over
LinksFail ==
  /\ load.step = "links" /\ Lapse
  /\ Onward(load.rows)
  /\ unread' = unread \cup Chunk
  /\ UNCHANGED <<stock, team, touched, moves>>

\* Mutant of Discover: the types are found, their fields not asked about
DiscoverTypesOnly ==
  /\ load.step = "discover"
  /\ load' = [load EXCEPT !.step = "ok", !.rows = Assembled(load.rows)]
  /\ UNCHANGED <<stock, team, touched, unread, moves, lapses>>

\* With a warning: the fields of the types that the items have
Discover ==
  /\ load.step = "discover"
  /\ load' = [load EXCEPT !.step = "ok", !.rows =
       Assembled([i \in DOMAIN load.rows |->
         [load.rows[i] EXCEPT !.dates = load.rows[i].kind \in DatedKinds]])]
  /\ UNCHANGED <<stock, team, touched, unread, moves, lapses>>

\* Any other failure ends the load
LoadFails ==
  /\ load.step \in {"backlogs", "query", "fields", "items", "discover"} /\ Lapse
  /\ load.step = "fields" => ~load.warned
  /\ load.step = "discover" => DOMAIN load.rows # {}
  /\ load' = [load EXCEPT !.step = "err"]
  /\ UNCHANGED <<stock, team, touched, unread, moves>>

-----------------------------------------------------------------------------
\* One thing about an item: its type, its parent, a link, its area or the bin
Edits(old) ==
  {[old EXCEPT !.kind = k] : k \in Kinds} \cup {[old EXCEPT !.parent = p] : p \in WorkIds \cup {0}}
  \cup {[old EXCEPT !.preds = (@ \cup {p}) \ (@ \cap {p})] : p \in WorkIds}
  \cup {[old EXCEPT !.at = a] : a \in {"area", "elsewhere", "bin"}}

\* Another user edits an item
OthersMove(i, new) ==
  /\ moves < MaxMoves /\ moves' = moves + 1
  /\ load.step \notin {"ok", "err"}
  /\ new \in Edits(stock[i]) \ {stock[i]}
  /\ stock' = [stock EXCEPT ![i] = new] /\ Forest(stock')
  /\ touched' = touched \cup {i}
  /\ UNCHANGED <<team, load, unread, lapses>>

Starting == [step |-> "backlogs", warned |-> FALSE, ids |-> << >>, due |-> << >>, dated |-> {},
             rows |-> [i \in {} |-> 0]]

LoadInit ==
  /\ stock \in Stocks /\ team \in SUBSET Kinds
  /\ load = Starting /\ touched = {} /\ unread = {} /\ moves = 0 /\ lapses = 0

LoadNext ==
  \/ BacklogsRead \/ BacklogsFail \/ IdsRead \/ FieldsRead \/ ItemsRead
  \/ LinksRead \/ LinksFail \/ Discover \/ LoadFails
  \/ \E i \in WorkIds : \E new \in Edits(stock[i]) : OthersMove(i, new)

LoadSpec == LoadInit /\ [][LoadNext]_loadVars

-----------------------------------------------------------------------------
\* Row i says what the server holds
Faithful(i) ==
  LET row == load.rows[i]
  IN  /\ row.kind = stock[i].kind
      /\ row.parent = IF stock[i].parent \in DOMAIN load.rows THEN stock[i].parent ELSE 0
      /\ row.dates = (stock[i].kind \in DatedKinds)
      /\ i \notin unread => row.preds = stock[i].preds

\* A load that answers Ok shows every item of the team that nobody edited during
\* it, with the type, parent, dates and links that it has, however many batches,
\* failures and edits of other items there were, and shows no other untouched
\* item.  Excused are items beyond the cap, which is reported, and the links of a
\* batch whose relations could not be read, which is not.
LoadedAsItWas ==
  load.step = "ok" => \A i \in WorkIds \ touched :
    /\ i \in DOMAIN load.rows => Matches(i) /\ Faithful(i)
    /\ Matches(i) => i \in DOMAIN load.rows \/ Len(load.ids) = ResultCap
=============================================================================
