------------------------------- MODULE MCAccount -------------------------------
(***************************************************************************)
(* The two machines behind the login, one at a time: the stored login      *)
(* (Session), and the scope that is loaded with it (Scope).  Organization  *)
(* org1 has two projects, one of them with two teams; team2 is a name in   *)
(* every project; org2 has one project, with a name that org1 has as well. *)
(***************************************************************************)
EXTENDS Session, Scope

CONSTANTS org1, org2, proj1, proj2, team1, team2, sprint

Place1 == <<org1, proj1>>
Place2 == <<org1, proj2>>
Place3 == <<org2, proj1>>
Team1  == <<org1, proj1, team1>>

MCOrgs     == <<org1, org2>>
MCProjects == [x \in {org1, org2} |-> IF x = org1 THEN <<proj1, proj2>> ELSE <<proj1>>]
MCTeams    == [x \in {Place1, Place2, Place3} |->
                 IF x = Place1 THEN <<team1, team2>> ELSE <<team2>>]
MCSprints  == [x \in {Team1} \cup {Append(y, team2) : y \in {Place1, Place2, Place3}} |->
                 IF x = Team1 THEN {sprint} ELSE {}]

VARIABLE machine

accountVars == <<machine, sessionVars, scopeVars>>

SessionRests == SessionInit /\ scheme = "pat"

ScopeRests ==
  /\ live = Fresh(Empty) /\ file = Empty /\ io = NoJob /\ search = None
  /\ pending = None /\ hold = FALSE /\ shown = FALSE /\ wanted = None /\ excuses = {}
  /\ picks = 0 /\ faults = 0 /\ restarts = 0

AccountInit ==
  \/ machine = "session" /\ SessionInit  /\ ScopeRests
  \/ machine = "scope"   /\ SessionRests /\ ScopeInit

AccountNext ==
  /\ UNCHANGED machine
  /\ \/ machine = "session" /\ SessionNext /\ UNCHANGED scopeVars
     \/ machine = "scope"   /\ ScopeNext   /\ UNCHANGED sessionVars

AccountSpec == AccountInit /\ [][AccountNext]_accountVars /\ SessionFair /\ ScopeFair
=============================================================================
