------------------------------- MODULE RevRetry -------------------------------
(***************************************************************************)
(* crates/ado-client/src/client.rs patch_work_item_with_rev_retry: every   *)
(* PATCH of a Work Item first tests its revision, and a 412 is answered by *)
(* reading the revision and sending the document once more.                *)
(*                                                                         *)
(* One Work Item, patched by one call after another (date_save_busy sees   *)
(* to that) while other users edit it.  A call is over when the client     *)
(* gives up on a request, after 60 seconds or on a broken connection; the  *)
(* request may then still reach the server, long after later calls.        *)
(***************************************************************************)
EXTENDS Naturals

CONSTANTS
  None,
  MaxCalls,  \* bound: calls in a behaviour
  MaxOthers  \* bound: edits by other users

ASSUME RetryAssumption == MaxCalls \in Nat /\ MaxOthers \in Nat
                          /\ None \notin {"ok", "conflict", "refused"}

VARIABLES
  rev,      \* the server's revision of the item
  others,   \* edits by other users so far
  last,     \* the call whose document the server applied last, 0 for none
  applied,  \* how often the document of each call was applied
  call,     \* the latest call, 0 before the first
  phase,    \* what the call waits for
  wire,     \* PATCHes on their way: their call and the revision they test
  reply,    \* the answer to the PATCH the call waits for, or None
  result    \* how each call ended

server == <<rev, others, last, applied>>
client == <<call, phase, result>>
vars   == <<server, client, wire, reply>>

Calls   == 1..MaxCalls
Phases  == {"idle", "first", "fetching", "second"}
Results == {"none", "ok", "conflict", "refused", "lost"}
Replies == {"ok", "conflict", "refused"}
Patch   == [call : Calls, rev : Nat]

Waiting == phase \in {"first", "second"}

-----------------------------------------------------------------------------
\* patch_work_item, called with whatever revision the planner has: the loaded
\* one, one that a later PATCH replaced, or 0 when an answer carried none
Begin ==
  /\ phase = "idle" /\ call < MaxCalls
  /\ call' = call + 1
  /\ phase' = "first"
  /\ \E known \in 0..rev : wire' = wire \cup {[call |-> call + 1, rev |-> known]}
  /\ UNCHANGED <<server, result, reply>>

End(how) ==
  /\ phase' = "idle"
  /\ result' = [result EXCEPT ![call] = how]
  /\ reply' = None
  /\ UNCHANGED <<server, call, wire>>

\* Mutant of GiveUp: a lost answer is taken for a refusal
GiveUpAsRefused == Waiting /\ End("refused")

\* The request fails without an answer of the server that the client can read:
\* a timeout, a broken connection, a gateway's 5xx, a body that is not JSON
GiveUp == Waiting /\ End("lost")

Succeed == Waiting /\ reply = "ok" /\ End("ok")

\* The server refuses the document, or answers a second 412
Refuse ==
  \/ Waiting /\ reply = "refused" /\ End("refused")
  \/ phase = "second" /\ reply = "conflict" /\ End("conflict")

\* Mutant of Conflict: a lost answer is retried like a 412
ConflictOrLost ==
  /\ phase = "first" /\ reply \in {"conflict", None}
  /\ phase' = "fetching"
  /\ reply' = None
  /\ UNCHANGED <<server, call, result, wire>>

\* is_precondition_failed: get_work_item_rev next
Conflict ==
  /\ phase = "first" /\ reply = "conflict"
  /\ phase' = "fetching"
  /\ reply' = None
  /\ UNCHANGED <<server, call, result, wire>>

\* get_work_item_rev fails, and its error is the call's
FetchFails == phase = "fetching" /\ End("refused")

Repatch ==
  /\ phase = "fetching"
  /\ phase' = "second"
  /\ wire' = wire \cup {[call |-> call, rev |-> rev]}
  /\ UNCHANGED <<server, call, result, reply>>

-----------------------------------------------------------------------------
\* Azure DevOps: the answer reaches the client only while its call waits
Answers(p, how) ==
  /\ wire' = wire \ {p}
  /\ reply' = IF p.call = call /\ Waiting THEN how ELSE reply
  /\ UNCHANGED client

\* Mutant of ServerApplies: the document does not test the revision
ServerAppliesUntested(p) ==
  /\ rev' = rev + 1
  /\ last' = p.call
  /\ applied' = [applied EXCEPT ![p.call] = @ + 1]
  /\ UNCHANGED others
  /\ Answers(p, "ok")

\* The document's first operation tests /rev
ServerApplies(p) ==
  /\ p.rev = rev
  /\ rev' = rev + 1
  /\ last' = p.call
  /\ applied' = [applied EXCEPT ![p.call] = @ + 1]
  /\ UNCHANGED others
  /\ Answers(p, "ok")

ServerConflicts(p) == p.rev # rev /\ Answers(p, "conflict") /\ UNCHANGED server

ServerRefuses(p) == Answers(p, "refused") /\ UNCHANGED server

OthersEdit ==
  /\ others < MaxOthers
  /\ others' = others + 1
  /\ rev' = rev + 1
  /\ UNCHANGED <<last, applied, client, wire, reply>>

-----------------------------------------------------------------------------
Init ==
  /\ rev = 1 /\ others = 0 /\ last = 0 /\ applied = [c \in Calls |-> 0]
  /\ call = 0 /\ phase = "idle" /\ result = [c \in Calls |-> "none"]
  /\ wire = {} /\ reply = None

ClientStep == Begin \/ GiveUp \/ Succeed \/ Refuse \/ Conflict \/ FetchFails \/ Repatch

ServerStep(p) == ServerApplies(p) \/ ServerConflicts(p) \/ ServerRefuses(p)

Next == ClientStep \/ OthersEdit \/ \E p \in wire : ServerStep(p)

Spec == Init /\ [][Next]_vars

-----------------------------------------------------------------------------
\* Every variable keeps its type.
TypeOK ==
  /\ rev \in Nat /\ others \in 0..MaxOthers
  /\ last \in 0..MaxCalls /\ applied \in [Calls -> Nat]
  /\ call \in 0..MaxCalls /\ phase \in Phases
  /\ result \in [Calls -> Results]
  /\ wire \subseteq Patch /\ reply \in Replies \cup {None}

\* The retry never applies a document twice, although the client does not know
\* what became of a request it gave up on (patch_work_item_with_rev_retry).
AppliedAtMostOnce == \A c \in Calls : applied[c] <= 1

\* Ok means that the document was applied, and an error that the server sent
\* means that it was not and never will be; only a lost call leaves the planner,
\* which then rolls its dates back, in doubt.
ResultTellsTruth ==
  \A c \in Calls :
    /\ result[c] = "ok" => applied[c] = 1
    /\ result[c] \in {"conflict", "refused"} => applied[c] = 0 /\ \A p \in wire : p.call # c

\* A PATCH the client gave up on never lands on top of a later call's: the
\* revision it tests is gone.  So a save that is retried by a later edit stays.
NoLateOverwrite == [][last' >= last]_vars
=============================================================================
