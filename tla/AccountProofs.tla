---------------------------- MODULE AccountProofs -----------------------------
(***************************************************************************)
(* What modules Session and Scope promise, for every number of launches,   *)
(* sign-ins, refreshes and mishaps, and for every list of organizations,   *)
(* projects, teams and iterations and every number of picks and faults.    *)
(***************************************************************************)
EXTENDS Session, Scope, TLAPS

-----------------------------------------------------------------------------
(***************************************************************************)
(* Session: the stored login.  The promises are inductive together with    *)
(* where the token the server accepts is (Remembered), what an ended       *)
(* sign-out has taken away (Forgotten), and that the entries from before   *)
(* it are in no clone of the cache either (Emptied).                       *)
(***************************************************************************)

\* Signed out for good: nothing is left of the login, and no refresh is under way
\* that would bring it back.
Forgotten ==
  want = "out" /\ caveats \cap {"kept", "unwritten"} = {} =>
    mem = 0 /\ disk = Gone /\ doing # "refresh"

\* Where a sign-out ended with no clone out and was not broken off, no copy of the
\* cache holds an entry from before it: a clone that has one would bring it back.
Emptied ==
  doing # "logout" /\ caveats \cap OfCache = {} =>
    \A copy \in {"memory", "file", "worker", "search"} : "former" \notin cache[copy]

\* Where the token the server accepts is, and that the running application
\* writes under the key of the keyring.
Remembered ==
  /\ doing = "refresh" => mem # 0 /\ refresh.spent = mem
  /\ doing # "refresh" => refresh = NoRefresh
  /\ doing = "logout" => want = "out" /\ left
  /\ ~left /\ store # 0 => store = keyring
  /\ want = "in" /\ caveats \subseteq OfCache =>
       /\ keyring # 0 /\ disk = [key |-> keyring, tok |-> disk.tok] /\ disk.tok # 0
       /\ refresh.got = 0 => disk.tok = valid
       /\ refresh.got # 0 => refresh.got = valid
       /\ store = 0 => mem = 0
       /\ store # 0 => store = keyring /\ mem = disk.tok /\ signed

Caches == [memory : SUBSET Entries, file : SUBSET Entries,
           worker : SUBSET Entries, search : SUBSET Entries]

\* The type invariant, with the token in the file among those issued, and no
\* Search out where a clone of it would show as signed in who has no token.
Typed ==
  /\ SessionTypeOK
  /\ disk.tok <= issued
  /\ cache.search # {} /\ mem = 0 /\ doing # "logout" => "cloned" \in caveats

\* Before the first launch the keyring and the file are empty.
LEMMA TypedInit == SessionInit => Typed
<1> SUFFICES ASSUME SessionInit PROVE Typed
  OBVIOUS
<1>1. /\ disk \in [key : Nat, tok : Nat] /\ (disk.key = 0 <=> disk.tok = 0)
      /\ disk.tok <= issued
  BY DEF SessionInit, Gone
<1>2. refresh \in [spent : 0..issued, got : 0..issued]
  BY DEF SessionInit, NoRefresh
<1>3. cache \in Caches /\ cache.search = {}
  BY DEF SessionInit, Caches
<1>4. /\ caveats \subseteq {"again", "unstored", "unwritten", "lost", "kept"} \cup OfCache
      /\ launches \in 0..MaxLaunches /\ logins \in 0..MaxLogins
      /\ refreshes \in 0..MaxRefreshes /\ mishaps \in 0..MaxMishaps
  BY SessionAssumption DEF SessionAssumption, SessionInit
<1>5. /\ scheme \in {"pat", "oauth"} /\ keyring \in Nat /\ store \in Nat
      /\ issued \in Nat /\ mem \in 0..issued /\ valid \in 0..issued /\ fresh \in 0..issued
  BY DEF SessionInit
<1>6. /\ signed \in BOOLEAN /\ (signed /\ doing # "logout" => mem # 0 \/ "cloned" \in caveats) /\ left \in BOOLEAN
      /\ doing \in {"closed", "nothing", "login", "stalled", "refresh", "logout"}
      /\ want \in {"nothing", "in", "out"}
  BY DEF SessionInit
<1> QED
  BY <1>1, <1>2, <1>3, <1>4, <1>5, <1>6 DEF Typed, SessionTypeOK, Caches

\* No launch, sign-in, refresh, sign-out or crash breaks the types, and none
\* writes a token that was not issued.
LEMMA TypedStep == ASSUME Typed, [SessionNext]_sessionVars PROVE Typed'
<1> USE SessionAssumption DEF SessionAssumption
<1>1. ASSUME NEW u \in BOOLEAN, Launch(u) PROVE Typed'
  <2>1. /\ disk' \in [key : Nat, tok : Nat] /\ (disk'.key = 0 <=> disk'.tok = 0)
        /\ disk'.tok <= issued' /\ issued' \in Nat
        /\ valid' \in 0..issued' /\ fresh' \in 0..issued'
    BY <1>1 DEF Launch, Typed, SessionTypeOK, remote
  <2>2. refresh' \in [spent : 0..issued', got : 0..issued']
    BY <1>1, <2>1 DEF Launch, NoRefresh
  <2>3. keyring' \in Nat /\ store' \in Nat /\ launches' \in 0..MaxLaunches
    BY <1>1 DEF Launch, Typed, SessionTypeOK
  <2>4. mem' \in 0..issued' /\ signed' \in BOOLEAN /\ (signed' => mem' # 0)
    <3>1. mem' \in {0, disk.tok} /\ signed' = (mem' # 0)
      BY <1>1 DEF Launch, Decrypted
    <3>2. mem' \in 0..issued'
      <4>1. issued' = issued
        BY <1>1 DEF Launch, remote
      <4>2. disk.tok \in 0..issued /\ 0 \in 0..issued
        BY DEF Typed, SessionTypeOK
      <4> QED
        BY <3>1, <4>1, <4>2
    <3>3. signed' \in BOOLEAN /\ (signed' => mem' # 0)
      BY <3>1
    <3> QED
      BY <3>2, <3>3
  <2>5. cache' \in Caches /\ cache'.search = {}
    <3>1. cache.file \cup (IF signed' THEN {"own"} ELSE {}) \in SUBSET Entries
      BY DEF Typed, SessionTypeOK, Entries
    <3> QED
      BY <1>1, <3>1 DEF Launch, Caches
  <2>6. caveats' \subseteq {"again", "unstored", "unwritten", "lost", "kept"} \cup OfCache
    BY <1>1 DEF Launch, Typed, SessionTypeOK, OfCache
  <2> QED
    BY <1>1, <2>1, <2>2, <2>3, <2>4, <2>5, <2>6 DEF Launch, Typed, SessionTypeOK, Caches
<1>2. ASSUME NEW d \in BOOLEAN, LogoutEnds(d) PROVE Typed'
  <2>1. cache' \in Caches /\ (cache'.search # {} => "cloned" \in caveats')
    BY <1>2 DEF LogoutEnds, Cleared, Typed, SessionTypeOK, Caches
  <2>2. caveats' \subseteq {"again", "unstored", "unwritten", "lost", "kept"} \cup OfCache
    BY <1>2 DEF LogoutEnds, Cleared, Typed, SessionTypeOK, OfCache
  <2> QED
    BY <1>2, <2>1, <2>2 DEF LogoutEnds, Typed, SessionTypeOK, Caches, remote, tallies
<1>3. ASSUME NEW ok \in BOOLEAN, WorkerEnds(ok) PROVE Typed'
  <2>1. cache' \in Caches /\ cache'.search = cache.search
    BY <1>3 DEF WorkerEnds, Typed, SessionTypeOK, Caches
  <2> QED
    BY <1>3, <2>1 DEF WorkerEnds, Typed, SessionTypeOK, Caches, local, remote, history, tallies
<1>4. CASE LoginBegins
  BY <1>4 DEF LoginBegins, Typed, SessionTypeOK, local, remote, history
<1>5. CASE LoginStalls
  BY <1>5 DEF LoginStalls, Mishap, Typed, SessionTypeOK, local, remote, history
<1>6. CASE LoginResumes
  BY <1>6 DEF LoginResumes, Typed, SessionTypeOK, local, remote, history, tallies
<1>7. CASE LoginOk
  <2>1. issued' = issued + 1 /\ issued' \in Nat /\ valid' = issued' /\ fresh' = issued' /\ mem' = issued'
    BY <1>7 DEF LoginOk, Typed, SessionTypeOK
  <2>2. disk' \in [key : Nat, tok : Nat] /\ (disk'.key = 0 <=> disk'.tok = 0) /\ disk'.tok <= issued'
    BY <1>7, <2>1 DEF LoginOk, Persist, Typed, SessionTypeOK
  <2>3. refresh' \in [spent : 0..issued', got : 0..issued']
    BY <1>7, <2>1 DEF LoginOk, Typed, SessionTypeOK
  <2>4. cache' \in Caches
    BY <1>7 DEF LoginOk, Typed, SessionTypeOK, Caches, Entries
  <2>5. caveats' \subseteq {"again", "unstored", "unwritten", "lost", "kept"} \cup OfCache
    BY <1>7 DEF LoginOk
  <2>6. mem' # 0 /\ mem' \in 0..issued'
    BY <2>1, <1>7 DEF LoginOk, Typed, SessionTypeOK
  <2> QED
    BY <1>7, <2>1, <2>2, <2>3, <2>4, <2>5, <2>6 DEF LoginOk, Typed, SessionTypeOK, Caches, tallies
<1>8. CASE LoginUnwritten
  BY <1>8 DEF LoginUnwritten, Mishap, Typed, SessionTypeOK, local
<1>9. CASE LoginFails
  BY <1>9 DEF LoginFails, Typed, SessionTypeOK, local, remote, history, tallies
<1>10. CASE Expires
  BY <1>10 DEF Expires, Typed, SessionTypeOK, local, history, tallies
<1>11. CASE RefreshBegins
  BY <1>11 DEF RefreshBegins, Typed, SessionTypeOK, local, remote, history
<1>12. CASE RefreshOk
  BY <1>12 DEF RefreshOk, Persist, NoRefresh, Typed, SessionTypeOK, remote, history, tallies
<1>13. CASE RefreshFails
  BY <1>13 DEF RefreshFails, Mishap, NoRefresh, Typed, SessionTypeOK, local, remote
<1>14. ASSUME NEW r \in BOOLEAN, RefreshServed(r) PROVE Typed'
  BY <1>14 DEF RefreshServed, Typed, SessionTypeOK, local, history, tallies
<1>15. CASE RefreshUnwritten
  BY <1>15 DEF RefreshUnwritten, Mishap, NoRefresh, Typed, SessionTypeOK, local, remote
<1>16. CASE LogoutBegins
  <2>1. cache' \in Caches
    BY <1>16 DEF LogoutBegins, Formerly, Former, Caches, Entries
  <2>2. caveats' \subseteq {"again", "unstored", "unwritten", "lost", "kept"} \cup OfCache
    BY <1>16 DEF LogoutBegins
  <2> QED
    BY <1>16, <2>1, <2>2 DEF LogoutBegins, Gone, Typed, SessionTypeOK, Caches, remote, tallies
<1>17. CASE WorkerStarts
  <2>1. cache' \in Caches /\ cache'.search = cache.search
    BY <1>17 DEF WorkerStarts, Typed, SessionTypeOK, Caches
  <2> QED
    BY <1>17, <2>1 DEF WorkerStarts, Typed, SessionTypeOK, Caches, local, remote, history, tallies
<1>18. CASE SearchBegins
  <2>1. cache' \in Caches
    BY <1>18 DEF SearchBegins, Typed, SessionTypeOK, Caches
  <2> QED
    BY <1>18, <2>1 DEF SearchBegins, Typed, SessionTypeOK, Caches, local, remote, history, tallies
<1>19. CASE SearchReturns
  <2>1. cache' \in Caches /\ cache'.search = {}
    BY <1>19 DEF SearchReturns, Typed, SessionTypeOK, Caches
  <2> QED
    BY <1>19, <2>1 DEF SearchReturns, Typed, SessionTypeOK, Caches, local, remote, history, tallies
<1>20. CASE UNCHANGED sessionVars
  BY <1>20 DEF sessionVars, Typed, SessionTypeOK
<1> QED
  BY <1>1, <1>2, <1>3, <1>4, <1>5, <1>6, <1>7, <1>8, <1>9, <1>10, <1>11, <1>12, <1>13,
     <1>14, <1>15, <1>16, <1>17, <1>18, <1>19, <1>20
     DEF SessionNext, Refreshing

\* After a sign-out that could delete the file, only a new sign-in writes it.
LEMMA ForgottenStep ==
  ASSUME Typed, Forgotten, [SessionNext]_sessionVars PROVE Forgotten'
<1>1. ASSUME NEW u \in BOOLEAN, Launch(u) PROVE Forgotten'
  BY <1>1 DEF Launch, Decrypted, OfCache, remote, Typed, SessionTypeOK, Forgotten, Gone
<1>2. ASSUME NEW d \in BOOLEAN, LogoutEnds(d) PROVE Forgotten'
  BY <1>2 DEF LogoutEnds, Cleared, OfCache, remote, Typed, SessionTypeOK, Forgotten, Gone
<1>3. ASSUME NEW ok \in BOOLEAN, WorkerEnds(ok) PROVE Forgotten'
  BY <1>3 DEF WorkerEnds, local, remote, history, Typed, SessionTypeOK, Forgotten, Gone
<1>4. ASSUME NEW r \in BOOLEAN, RefreshServed(r) PROVE Forgotten'
  BY <1>4 DEF RefreshServed, local, history, Typed, SessionTypeOK, Forgotten, Gone
<1>5. CASE LoginBegins
  BY <1>5 DEF LoginBegins, local, remote, history, Typed, SessionTypeOK, Forgotten, Gone
<1>6. CASE LoginStalls
  BY <1>6 DEF LoginStalls, local, remote, history, Typed, SessionTypeOK, Forgotten, Gone
<1>7. CASE LoginResumes
  BY <1>7 DEF LoginResumes, local, remote, history, Typed, SessionTypeOK, Forgotten, Gone
<1>8. CASE LoginOk
  BY <1>8 DEF LoginOk, Persist, Typed, SessionTypeOK, Forgotten, Gone
<1>9. CASE LoginUnwritten
  BY <1>9 DEF LoginUnwritten, local, Typed, SessionTypeOK, Forgotten, Gone
<1>10. CASE LoginFails
  BY <1>10 DEF LoginFails, local, remote, history, Typed, SessionTypeOK, Forgotten, Gone
<1>11. CASE Expires
  BY <1>11 DEF Expires, local, history, Typed, SessionTypeOK, Forgotten, Gone
<1>12. CASE RefreshBegins
  BY <1>12 DEF RefreshBegins, local, remote, history, Typed, SessionTypeOK, Forgotten, Gone
<1>13. CASE RefreshOk
  BY <1>13 DEF RefreshOk, Persist, remote, history, Typed, SessionTypeOK, Forgotten, Gone
<1>14. CASE RefreshFails
  BY <1>14 DEF RefreshFails, local, remote, Typed, SessionTypeOK, Forgotten, Gone
<1>15. CASE RefreshUnwritten
  BY <1>15 DEF RefreshUnwritten, local, remote, Typed, SessionTypeOK, Forgotten, Gone
<1>16. CASE LogoutBegins
  BY <1>16 DEF LogoutBegins, OfCache, remote, Typed, SessionTypeOK, Forgotten, Gone
<1>17. CASE WorkerStarts
  BY <1>17 DEF WorkerStarts, local, remote, history, Typed, SessionTypeOK, Forgotten, Gone
<1>18. CASE SearchBegins
  BY <1>18 DEF SearchBegins, Typed, SessionTypeOK, Forgotten, Gone, local, remote, history, tallies
<1>19. CASE SearchReturns
  BY <1>19 DEF SearchReturns, Typed, SessionTypeOK, Forgotten, Gone, local, remote, history, tallies
<1>20. CASE UNCHANGED sessionVars
  BY <1>20 DEF sessionVars, Forgotten, Gone
<1> QED
  BY <1>1, <1>2, <1>3, <1>4, <1>5, <1>6, <1>7, <1>8, <1>9, <1>10, <1>11, <1>12, <1>13,
     <1>14, <1>15, <1>16, <1>17, <1>18, <1>19, <1>20
     DEF SessionNext, Refreshing

\* After LogoutEnds only a job on a clone made before it can write the cache.
LEMMA EmptiedStep ==
  ASSUME Typed, Emptied, [SessionNext]_sessionVars PROVE Emptied'
<1>1. ASSUME NEW u \in BOOLEAN, Launch(u) PROVE Emptied'
  BY <1>1 DEF Launch, OfCache, Emptied
<1>2. ASSUME NEW d \in BOOLEAN, LogoutEnds(d) PROVE Emptied'
  BY <1>2 DEF LogoutEnds, Cleared, OfCache, remote, Typed, SessionTypeOK, Emptied
<1>3. ASSUME NEW ok \in BOOLEAN, WorkerEnds(ok) PROVE Emptied'
  BY <1>3 DEF WorkerEnds, OfCache, local, remote, history, Typed, SessionTypeOK, Emptied
<1>4. ASSUME NEW r \in BOOLEAN, RefreshServed(r) PROVE Emptied'
  BY <1>4 DEF RefreshServed, local, history, Typed, SessionTypeOK, Emptied
<1>5. CASE LoginBegins
  BY <1>5 DEF LoginBegins, local, remote, history, Typed, SessionTypeOK, Emptied
<1>6. CASE LoginStalls
  BY <1>6 DEF LoginStalls, local, remote, history, Typed, SessionTypeOK, Emptied
<1>7. CASE LoginResumes
  BY <1>7 DEF LoginResumes, local, remote, history, Typed, SessionTypeOK, Emptied
<1>8. CASE LoginOk
  BY <1>8 DEF LoginOk, OfCache, Typed, SessionTypeOK, Emptied
<1>9. CASE LoginUnwritten
  BY <1>9 DEF LoginUnwritten, local, Typed, SessionTypeOK, Emptied
<1>10. CASE LoginFails
  BY <1>10 DEF LoginFails, local, remote, history, Typed, SessionTypeOK, Emptied
<1>11. CASE Expires
  BY <1>11 DEF Expires, local, history, Typed, SessionTypeOK, Emptied
<1>12. CASE RefreshBegins
  BY <1>12 DEF RefreshBegins, local, remote, history, Typed, SessionTypeOK, Emptied
<1>13. CASE RefreshOk
  BY <1>13 DEF RefreshOk, Persist, remote, history, Typed, SessionTypeOK, Emptied
<1>14. CASE RefreshFails
  BY <1>14 DEF RefreshFails, local, remote, Typed, SessionTypeOK, Emptied
<1>15. CASE RefreshUnwritten
  BY <1>15 DEF RefreshUnwritten, local, remote, Typed, SessionTypeOK, Emptied
<1>16. CASE LogoutBegins
  BY <1>16 DEF LogoutBegins, Typed, SessionTypeOK, Emptied
<1>17. CASE WorkerStarts
  BY <1>17 DEF WorkerStarts, local, remote, history, Typed, SessionTypeOK, Emptied
<1>18. CASE SearchBegins
  BY <1>18 DEF SearchBegins, Typed, SessionTypeOK, Emptied, local, remote, history, tallies
<1>19. CASE SearchReturns
  BY <1>19 DEF SearchReturns, Typed, SessionTypeOK, Emptied, local, remote, history, tallies
<1>20. CASE UNCHANGED sessionVars
  BY <1>20 DEF sessionVars, Emptied
<1> QED
  BY <1>1, <1>2, <1>3, <1>4, <1>5, <1>6, <1>7, <1>8, <1>9, <1>10, <1>11, <1>12, <1>13,
     <1>14, <1>15, <1>16, <1>17, <1>18, <1>19, <1>20
     DEF SessionNext, Refreshing

\* While nothing goes wrong, the file holds the token the server accepts: a
\* refresh replaces both, and the key it is encrypted with is the keyring's.
LEMMA RememberedStep ==
  ASSUME Typed, Remembered, [SessionNext]_sessionVars PROVE Remembered'
<1>1. ASSUME NEW u \in BOOLEAN, Launch(u) PROVE Remembered'
  BY <1>1 DEF Launch, Decrypted, OfCache, remote, Typed, SessionTypeOK, Remembered, NoRefresh
<1>2. ASSUME NEW d \in BOOLEAN, LogoutEnds(d) PROVE Remembered'
  BY <1>2 DEF LogoutEnds, Cleared, remote, Typed, SessionTypeOK, Remembered, NoRefresh
<1>3. ASSUME NEW ok \in BOOLEAN, WorkerEnds(ok) PROVE Remembered'
  BY <1>3 DEF WorkerEnds, local, remote, history, Typed, SessionTypeOK, Remembered, NoRefresh
<1>4. ASSUME NEW r \in BOOLEAN, RefreshServed(r) PROVE Remembered'
  BY <1>4 DEF RefreshServed, local, history, Typed, SessionTypeOK, Remembered, NoRefresh
<1>5. CASE LoginBegins
  BY <1>5 DEF LoginBegins, local, remote, history, Typed, SessionTypeOK, Remembered, NoRefresh
<1>6. CASE LoginStalls
  BY <1>6 DEF LoginStalls, local, remote, history, Typed, SessionTypeOK, Remembered, NoRefresh
<1>7. CASE LoginResumes
  BY <1>7 DEF LoginResumes, local, remote, history, Typed, SessionTypeOK, Remembered, NoRefresh
<1>8. CASE LoginOk
  BY <1>8 DEF LoginOk, Persist, OfCache, Typed, SessionTypeOK, Remembered, NoRefresh
<1>9. CASE LoginUnwritten
  BY <1>9 DEF LoginUnwritten, OfCache, local, Typed, SessionTypeOK, Remembered, NoRefresh
<1>10. CASE LoginFails
  BY <1>10 DEF LoginFails, local, remote, history, Typed, SessionTypeOK, Remembered, NoRefresh
<1>11. CASE Expires
  BY <1>11 DEF Expires, local, history, Typed, SessionTypeOK, Remembered, NoRefresh
<1>12. CASE RefreshBegins
  BY <1>12 DEF RefreshBegins, local, remote, history, Typed, SessionTypeOK, Remembered, NoRefresh
<1>13. CASE RefreshOk
  BY <1>13 DEF RefreshOk, Persist, remote, history, Typed, SessionTypeOK, Remembered, NoRefresh
<1>14. CASE RefreshFails
  BY <1>14 DEF RefreshFails, OfCache, local, remote, Typed, SessionTypeOK, Remembered, NoRefresh
<1>15. CASE RefreshUnwritten
  BY <1>15 DEF RefreshUnwritten, OfCache, local, remote, Typed, SessionTypeOK, Remembered, NoRefresh
<1>16. CASE LogoutBegins
  BY <1>16 DEF LogoutBegins, remote, Typed, SessionTypeOK, Remembered, NoRefresh
<1>17. CASE WorkerStarts
  BY <1>17 DEF WorkerStarts, local, remote, history, Typed, SessionTypeOK, Remembered, NoRefresh
<1>18. CASE SearchBegins
  BY <1>18 DEF SearchBegins, Typed, SessionTypeOK, Remembered, NoRefresh, local, remote, history, tallies
<1>19. CASE SearchReturns
  BY <1>19 DEF SearchReturns, Typed, SessionTypeOK, Remembered, NoRefresh, local, remote, history, tallies
<1>20. CASE UNCHANGED sessionVars
  BY <1>20 DEF sessionVars, Remembered, NoRefresh
<1> QED
  BY <1>1, <1>2, <1>3, <1>4, <1>5, <1>6, <1>7, <1>8, <1>9, <1>10, <1>11, <1>12, <1>13,
     <1>14, <1>15, <1>16, <1>17, <1>18, <1>19, <1>20
     DEF SessionNext, Refreshing

SessionInv == Typed /\ Forgotten /\ Emptied /\ Remembered

\* The four parts of the invariant together: each lemma needs the ones before it.
LEMMA SessionInvariant == SessionSpec => []SessionInv
<1>1. SessionInit => SessionInv
  BY TypedInit DEF SessionInit, SessionInv, Forgotten, Emptied, Remembered, NoRefresh, OfCache
<1>2. SessionInv /\ [SessionNext]_sessionVars => SessionInv'
  BY TypedStep, ForgottenStep, EmptiedStep, RememberedStep DEF SessionInv
<1> QED
  BY <1>1, <1>2, PTL DEF SessionSpec

\* The session's variables keep their types, and who is shown as signed in has a
\* token to call the server with, in any number of launches, unless a Search was
\* out at a sign-out and its clone shows the session of before again.
THEOREM SessionTypes == SessionSpec => []SessionTypeOK
<1>1. SessionInv => SessionTypeOK
  BY DEF SessionInv, Typed
<1> QED
  BY <1>1, SessionInvariant, PTL

\* logout is final: no launch, refresh or sign-in under way brings the token
\* back, but for a file that a locked keyring kept or a login not written.
THEOREM SignedOutStays == SessionSpec => []StaysSignedOut
<1>1. SessionInv => StaysSignedOut
  BY DEF SessionInv, Forgotten, StaysSignedOut
<1> QED
  BY <1>1, SessionInvariant, PTL

\* No account is shown what another one loaded: after logout the entries of before
\* are not in the cache or its file, over every later sign-in and launch, unless
\* the application ended during the last sign-out or a date save or a Search was
\* out as it ended.
THEOREM CacheIsForgotten == SessionSpec => []CacheForgets
<1>1. SessionInv => CacheForgets
  BY DEF SessionInv, Emptied, CacheForgets, OfCache
<1> QED
  BY <1>1, SessionInvariant, PTL

\* A login is kept over launches and refreshes, with the refresh token that the
\* server accepts, where none of the caveats of StaysSignedIn applies.
THEOREM SignedInStays == SessionSpec => []StaysSignedIn
<1>1. SessionInv => StaysSignedIn
  BY DEF SessionInv, Remembered, StaysSignedIn, NoRefresh
<1> QED
  BY <1>1, SessionInvariant, PTL

-----------------------------------------------------------------------------
(***************************************************************************)
(* Scope: the scope that is loaded with the login.                         *)
(***************************************************************************)

\* What the handlers rely on: the fields of a state and of a job.
IsPrefs(p) == p = [org |-> p.org, project |-> p.project, team |-> p.team, iter |-> p.iter]

IsState(s) ==
  /\ s = [prefs |-> s.prefs, projects |-> s.projects, teams |-> s.teams, iters |-> s.iters,
          rows |-> s.rows, loading |-> s.loading, signed |-> s.signed, marks |-> s.marks]
  /\ IsPrefs(s.prefs)

StepNames == {"signin", "orgs", "projects", "teams", "iters", "rows", "set", "leave", "work"}

Loads == {"login", "org", "project", "team"}

IsJob(j) ==
  /\ j = [kind |-> j.kind, to |-> j.to, todo |-> j.todo, st |-> j.st]
  /\ j.kind \in Loads \cup {"logout", "other"} /\ j.todo \in Seq(StepNames) /\ IsState(j.st)
  /\ j.kind \in Loads /\ j.todo # <<>> => j.todo[Len(j.todo)] = "rows"
  /\ j.kind = "team" => j.todo \in {<<"set", "iters", "rows">>, <<"iters", "rows">>, <<"rows">>, <<>>}
  /\ j.kind = "logout" => j.todo \in {<<"leave">>, <<>>}
  /\ j.kind = "other" => j.todo \in {<<"work">>, <<>>}

ShapeInv ==
  /\ IsState(live) /\ IsPrefs(file)
  /\ search # None => IsState(search)
  /\ io # NoJob => IsJob(io)

\* The rows of a state are those of its scope, or a load broke off.
Matching(s) == s.rows # None => s.rows = Where(s.prefs) \/ s.marks \cap {"failed", "refused"} # {}

\* The rows shown match; those of a clone do once its last step is done.
RowsInv ==
  /\ Matching(live)
  /\ search # None => Matching(search)
  /\ io # NoJob /\ (io.kind \in Loads => io.todo = <<>>) => Matching(io.st)

\* The file holds what a job will bring back, until a picker writes.
FileInv ==
  excuses = {} =>
    /\ io = NoJob => file = live.prefs
    /\ io # NoJob /\ ~(io.kind = "team" /\ io.todo = Steps.team) => file = io.st.prefs

\* A switch is under its skeleton, and no timer of another one runs.
CoverInv ==
  io # NoJob /\ io.kind = "team" => ~hold /\ ("search" \notin excuses => live.loading /\ live.rows = None)

\* The team picked last is waiting, or is that of the state a job brings back.
PickInv ==
  /\ pending # None => io # NoJob
  /\ wanted # None /\ "search" \notin excuses =>
       \/ pending = wanted
       \/ /\ pending = None
          /\ io = NoJob => live.prefs.team = wanted
          /\ io # NoJob => io.kind \in {"team", "other"} /\ io.st.prefs.team = wanted
                           /\ (io.kind = "team" => io.to = wanted)

ScopeInv == ShapeInv /\ RowsInv /\ FileInv /\ CoverInv /\ PickInv

-----------------------------------------------------------------------------
\* A job starts with a clone that has the preferences and rows of its state.
LEMMA JobOfState ==
  ASSUME NEW s, IsState(s), NEW kind \in Loads \cup {"logout", "other"}, NEW to
  PROVE  /\ IsJob(Job(kind, to, s)) /\ Job(kind, to, s) # NoJob
         /\ Job(kind, to, s).kind = kind /\ Job(kind, to, s).to = to
         /\ Job(kind, to, s).todo = Steps[kind] /\ Steps[kind] # <<>>
         /\ Job(kind, to, s).st.prefs = s.prefs
         /\ Job(kind, to, s).st.signed = s.signed /\ Job(kind, to, s).st.iters = s.iters
         /\ Job(kind, to, s).st.marks = s.marks \cup Marks(kind, to, s)
         /\ Matching(s) => Matching(Job(kind, to, s).st)
<1> DEFINE m == s.marks \cup Marks(kind, to, s)
           st == [s EXCEPT !.marks = m]
<1>2. Job(kind, to, s) = [kind |-> kind, to |-> to, todo |-> Steps[kind], st |-> st]
  BY DEF Job
<1>9. s.marks \subseteq m
  OBVIOUS
<1> HIDE DEF m
<1>1. /\ IsState(st) /\ st.prefs = s.prefs /\ st.rows = s.rows /\ s.marks \subseteq st.marks
      /\ st.signed = s.signed /\ st.iters = s.iters /\ st.marks = m
  BY <1>9 DEF IsState
<1>3. Matching(s) => Matching(st)
  <2> HIDE DEF st
  <2> QED
    BY <1>1 DEF Matching
<1> HIDE DEF st
<1>4. /\ Steps[kind] \in Seq(StepNames) /\ Steps[kind] # <<>>
      /\ kind \in Loads => Steps[kind][Len(Steps[kind])] = "rows"
      /\ kind = "team" => Steps[kind] = <<"set", "iters", "rows">>
      /\ kind = "logout" => Steps[kind] = <<"leave">>
      /\ kind = "other" => Steps[kind] = <<"work">>
  <2>1. CASE kind = "login"
    <3>1. Steps[kind] = <<"signin", "orgs", "projects", "teams", "iters", "rows">>
      BY <2>1 DEF Steps
    <3>2. <<"signin", "orgs", "projects", "teams", "iters", "rows">> \in Seq(StepNames) /\ <<"signin", "orgs", "projects", "teams", "iters", "rows">> # <<>>
      BY DEF StepNames
    <3>3. <<"signin", "orgs", "projects", "teams", "iters", "rows">>[Len(<<"signin", "orgs", "projects", "teams", "iters", "rows">>)] = "rows"
      OBVIOUS
    <3> QED
      BY <2>1, <3>1, <3>2, <3>3
  <2>2. CASE kind = "org"
    <3>1. Steps[kind] = <<"set", "projects", "teams", "iters", "rows">>
      BY <2>2 DEF Steps
    <3>2. <<"set", "projects", "teams", "iters", "rows">> \in Seq(StepNames) /\ <<"set", "projects", "teams", "iters", "rows">> # <<>>
      BY DEF StepNames
    <3>3. <<"set", "projects", "teams", "iters", "rows">>[Len(<<"set", "projects", "teams", "iters", "rows">>)] = "rows"
      OBVIOUS
    <3> QED
      BY <2>2, <3>1, <3>2, <3>3
  <2>3. CASE kind = "project"
    <3>1. Steps[kind] = <<"set", "teams", "iters", "rows">>
      BY <2>3 DEF Steps
    <3>2. <<"set", "teams", "iters", "rows">> \in Seq(StepNames) /\ <<"set", "teams", "iters", "rows">> # <<>>
      BY DEF StepNames
    <3>3. <<"set", "teams", "iters", "rows">>[Len(<<"set", "teams", "iters", "rows">>)] = "rows"
      OBVIOUS
    <3> QED
      BY <2>3, <3>1, <3>2, <3>3
  <2>4. CASE kind = "team"
    <3>1. Steps[kind] = <<"set", "iters", "rows">>
      BY <2>4 DEF Steps
    <3>2. <<"set", "iters", "rows">> \in Seq(StepNames) /\ <<"set", "iters", "rows">> # <<>>
      BY DEF StepNames
    <3>3. <<"set", "iters", "rows">>[Len(<<"set", "iters", "rows">>)] = "rows"
      OBVIOUS
    <3> QED
      BY <2>4, <3>1, <3>2, <3>3
  <2>5. CASE kind = "logout"
    <3>1. Steps[kind] = <<"leave">>
      BY <2>5 DEF Steps
    <3>2. <<"leave">> \in Seq(StepNames) /\ <<"leave">> # <<>>
      BY DEF StepNames
    <3>3. kind \notin Loads
      BY <2>5 DEF Loads
    <3> QED
      BY <2>5, <3>1, <3>2, <3>3
  <2>6. CASE kind = "other"
    <3>1. Steps[kind] = <<"work">>
      BY <2>6 DEF Steps
    <3>2. <<"work">> \in Seq(StepNames) /\ <<"work">> # <<>>
      BY DEF StepNames
    <3>3. kind \notin Loads
      BY <2>6 DEF Loads
    <3> QED
      BY <2>6, <3>1, <3>2, <3>3
  <2> QED
    BY <2>1, <2>2, <2>3, <2>4, <2>5, <2>6 DEF Loads
<1>5. Job(kind, to, s) # NoJob
  BY <1>2 DEF NoJob, Loads
<1> DEFINE todo == Steps[kind]
<1>6. Job(kind, to, s) = [kind |-> kind, to |-> to, todo |-> todo, st |-> st]
  BY <1>2
<1> HIDE DEF todo
<1>7. /\ todo \in Seq(StepNames) /\ todo # <<>>
      /\ kind \in Loads => todo[Len(todo)] = "rows"
      /\ kind = "team" => todo = <<"set", "iters", "rows">>
      /\ kind = "logout" => todo = <<"leave">>
      /\ kind = "other" => todo = <<"work">>
  BY <1>4 DEF todo
<1>8. IsJob(Job(kind, to, s))
  BY <1>1, <1>6, <1>7 DEF IsJob
<1> QED
  BY <1>1, <1>3, <1>4, <1>5, <1>6, <1>8 DEF todo, m

\* Changing a field keeps the others.
LEMMA StateWith ==
  ASSUME NEW s, IsState(s), NEW v
  PROVE  /\ IsState([s EXCEPT !.signed = v]) /\ [s EXCEPT !.signed = v].prefs = s.prefs
         /\ IsState(Left(s)) /\ Left(s).prefs = s.prefs /\ Left(s).rows = None
         /\ IsState([s EXCEPT !.loading = v]) /\ [s EXCEPT !.loading = v].prefs = s.prefs
         /\ Matching(s) => Matching([s EXCEPT !.loading = v])
<1>1. IsState([s EXCEPT !.signed = v]) /\ [s EXCEPT !.signed = v].prefs = s.prefs
  BY DEF IsState
<1>2. /\ IsState([s EXCEPT !.loading = v]) /\ [s EXCEPT !.loading = v].prefs = s.prefs
      /\ [s EXCEPT !.loading = v].rows = s.rows /\ [s EXCEPT !.loading = v].marks = s.marks
  BY DEF IsState
<1>3. Matching(s) => Matching([s EXCEPT !.loading = v])
  BY <1>2 DEF Matching
<1>4. IsState(Left(s)) /\ Left(s).prefs = s.prefs /\ Left(s).rows = None
  <2> DEFINE rest == Left(s)
  <2>1. rest = [s EXCEPT !.signed = FALSE, !.projects = <<>>, !.teams = <<>>,
                         !.iters = {}, !.rows = None]
    BY DEF Left
  <2> HIDE DEF rest
  <2>2. s = [prefs |-> s.prefs, projects |-> s.projects, teams |-> s.teams, iters |-> s.iters,
             rows |-> s.rows, loading |-> s.loading, signed |-> s.signed, marks |-> s.marks]
    BY DEF IsState
  <2>3. rest = [prefs |-> s.prefs, projects |-> <<>>, teams |-> <<>>, iters |-> {},
                rows |-> None, loading |-> s.loading, signed |-> FALSE, marks |-> s.marks]
    BY <2>1, <2>2
  <2>4. IsState(rest) /\ rest.prefs = s.prefs /\ rest.rows = None
    BY <2>3 DEF IsState
  <2> QED
    BY <2>4 DEF rest
<1> QED
  BY <1>1, <1>2, <1>3, <1>4

\* A step that answers keeps the fields; the last one fills the rows.
LEMMA LoadedState ==
  ASSUME NEW s, IsState(s), NEW step \in {"orgs", "projects", "teams", "iters", "rows"}
  PROVE  /\ IsState(Loaded(step, s))
         /\ step = "rows" => Matching(Loaded(step, s)) /\ Loaded(step, s).prefs = s.prefs
         /\ step = "iters" => Loaded(step, s).prefs.team = s.prefs.team
<1> DEFINE at == Subject(step, s.prefs)
<1>1. IsState(s) /\ IsPrefs(s.prefs)
  BY DEF IsState
<1>2. \A f \in {"org", "project", "team"} : \A v : IsPrefs(Refined(s.prefs, f, v))
  BY <1>1 DEF IsPrefs, Refined, Empty
<1>3. CASE step = "orgs"
  <2> DEFINE q == Refined(s.prefs, "org", Available(s.prefs.org, OrgList))
  <2>1. Loaded(step, s) = [s EXCEPT !.prefs = q] /\ IsPrefs(q)
    BY <1>2, <1>3 DEF Loaded
  <2> HIDE DEF q
  <2> QED
    BY <1>1, <1>3, <2>1 DEF IsState
<1>4. CASE step = "projects"
  <2> DEFINE l == ProjectList[at]
             q == Refined(s.prefs, "project", Available(s.prefs.project, l))
  <2>1. /\ Loaded(step, s) = IF at = None THEN [s EXCEPT !.projects = <<>>]
             ELSE [s EXCEPT !.projects = l, !.prefs = q]
        /\ IsPrefs(q)
    BY <1>2, <1>4 DEF Loaded
  <2> HIDE DEF q, l, at
  <2> QED
    BY <1>1, <1>4, <2>1 DEF IsState
<1>5. CASE step = "teams"
  <2> DEFINE l == TeamList[at]
             q == Refined(s.prefs, "team", Available(s.prefs.team, l))
  <2>1. /\ Loaded(step, s) = IF at = None THEN [s EXCEPT !.teams = <<>>]
             ELSE [s EXCEPT !.teams = l, !.marks = @ \ {"stray"}, !.prefs = q]
        /\ IsPrefs(q)
    BY <1>2, <1>5 DEF Loaded
  <2> HIDE DEF q, l, at
  <2> QED
    BY <1>1, <1>5, <2>1 DEF IsState
<1>6. CASE step = "iters"
  <2> DEFINE l == IF at = None THEN {} ELSE Sprints[at]
             v == IF at # None /\ s.prefs.iter \notin l THEN None ELSE s.prefs.iter
             q == [s.prefs EXCEPT !.iter = v]
  <2>1. Loaded(step, s) = [s EXCEPT !.iters = l, !.prefs = q]
    BY <1>1, <1>6 DEF Loaded, IsState, IsPrefs
  <2>2. IsPrefs(q) /\ q.team = s.prefs.team
    <3> HIDE DEF v
    <3> QED
      BY <1>1 DEF IsPrefs
  <2> HIDE DEF q, l
  <2> QED
    BY <1>1, <1>6, <2>1, <2>2 DEF IsState
<1>7. CASE step = "rows"
  <2>1. Loaded(step, s) = IF at = None THEN [s EXCEPT !.rows = None, !.marks = @ \cup {"nowhere"}]
                          ELSE Filled(s, at)
    BY <1>7 DEF Loaded
  <2>2. at = Where(s.prefs)
    BY <1>7 DEF Subject
  <2> HIDE DEF at
  <2> QED
    BY <1>1, <1>7, <2>1, <2>2 DEF IsState, Filled, Matching
<1> QED
  BY <1>3, <1>4, <1>5, <1>6, <1>7

-----------------------------------------------------------------------------
\* The new state under a switch, with its job.
LEMMA SwitchStarts ==
  ASSUME NEW s, IsState(s), NEW t, StartSwitch(s, t)
  PROVE  /\ IsState(live') /\ live'.rows = None /\ live'.loading /\ live'.prefs.team = t
         /\ IsJob(io') /\ io' # NoJob /\ io'.kind = "team" /\ io'.to = t
         /\ io'.todo = Steps.team /\ io'.st.prefs = live'.prefs /\ hold' = FALSE
         /\ Matching(live') /\ Matching(io'.st)
<1>1. live' = Switched(s, t) /\ io' = Job("team", t, live') /\ hold' = FALSE
  BY DEF StartSwitch
<1>2. /\ IsState(live') /\ live'.rows = None /\ live'.loading /\ live'.prefs.team = t
  <2> DEFINE q == [s.prefs EXCEPT !.team = t, !.iter = None]
             m == (s.marks \ {"stray"}) \cup Strays(s.prefs, t)
  <2>1. Switched(s, t) = [s EXCEPT !.prefs = q, !.rows = None, !.loading = TRUE, !.marks = m]
    BY DEF Switched, IsState, IsPrefs
  <2>2. IsPrefs(q) /\ q.team = t
    <3> DEFINE p == s.prefs
    <3>1. p = [org |-> p.org, project |-> p.project, team |-> p.team, iter |-> p.iter]
      BY DEF IsState, IsPrefs
    <3>2. q = [p EXCEPT !.team = t, !.iter = None]
      OBVIOUS
    <3> HIDE DEF q, p
    <3>3. q = [org |-> p.org, project |-> p.project, team |-> t, iter |-> None]
      BY <3>1, <3>2
    <3> QED
      BY <3>3 DEF IsPrefs
  <2> HIDE DEF q, m
  <2> QED
    BY <1>1, <2>1, <2>2 DEF IsState
<1>3. Matching(live')
  BY <1>2 DEF Matching
<1>4. "team" \in Loads
  BY DEF Loads
<1> DEFINE s1 == live'
           j == Job("team", t, s1)
<1>5. /\ IsJob(j) /\ j # NoJob /\ j.kind = "team" /\ j.to = t /\ j.todo = Steps.team
      /\ j.st.prefs = s1.prefs /\ Matching(j.st)
  <2> HIDE DEF s1
  <2>1. IsState(s1) /\ Matching(s1)
    BY <1>2, <1>3 DEF s1
  <2> QED
    BY <1>4, <2>1, JobOfState
<1>6. io' = j
  BY <1>1
<1> HIDE DEF j
<1> QED
  BY <1>1, <1>2, <1>3, <1>5, <1>6

\* choose_scope for a team.
LEMMA PickTeamStep == ASSUME ScopeInv, NEW t, PickTeam(t) PROVE ScopeInv'
<1>1. /\ wanted' = t /\ UNCHANGED <<file, search, excuses>>
      /\ \/ io # NoJob /\ pending' = t /\ UNCHANGED <<live, io, shown, hold>>
         \/ io = NoJob /\ StartSwitch(live, t) /\ pending' = pending
  BY DEF PickTeam
<1>2. CASE io # NoJob /\ pending' = t /\ UNCHANGED <<live, io, shown, hold>>
  BY <1>1, <1>2 DEF ScopeInv, ShapeInv, RowsInv, FileInv, CoverInv, PickInv
<1>3. CASE io = NoJob /\ StartSwitch(live, t) /\ pending' = pending
  <2>1. /\ IsState(live') /\ live'.rows = None /\ live'.loading /\ live'.prefs.team = t
        /\ IsJob(io') /\ io' # NoJob /\ io'.kind = "team" /\ io'.to = t
        /\ io'.todo = Steps.team /\ io'.st.prefs = live'.prefs /\ hold' = FALSE
        /\ Matching(live') /\ Matching(io'.st)
    BY <1>3, SwitchStarts DEF ScopeInv, ShapeInv
  <2>2. pending' = None
    BY <1>3 DEF ScopeInv, PickInv
  <2> QED
    BY <1>1, <2>1, <2>2 DEF ScopeInv, ShapeInv, RowsInv, FileInv, CoverInv, PickInv
<1> QED
  BY <1>1, <1>2, <1>3

\* set_org, set_project, login, logout and other jobs begin.
LEMMA StartStep ==
  ASSUME ScopeInv, NEW kind \in {"login", "org", "project", "logout", "other"}, NEW to, Start(kind, to)
  PROVE  ScopeInv'
<1>1. /\ io = NoJob /\ io' = Job(kind, to, live)
      /\ wanted' = IF kind = "other" THEN wanted ELSE None
      /\ UNCHANGED <<live, file, search, pending, hold, excuses>>
  BY DEF Start
<1>2. IsState(live) /\ Matching(live)
  BY DEF ScopeInv, ShapeInv, RowsInv
<1>3. /\ IsJob(io') /\ io' # NoJob /\ io'.kind = kind /\ io'.kind # "team"
      /\ io'.st.prefs = live.prefs /\ Matching(io'.st)
  BY <1>1, <1>2, JobOfState DEF Loads
<1> QED
  BY <1>1, <1>2, <1>3 DEF ScopeInv, ShapeInv, RowsInv, FileInv, CoverInv, PickInv

\* set_iteration.
LEMMA PickIterStep == ASSUME ScopeInv, NEW i, PickIter(i) PROVE ScopeInv'
<1> DEFINE q == [live.prefs EXCEPT !.iter = i]
<1>1. IsState(live) /\ Matching(live)
  BY DEF ScopeInv, ShapeInv, RowsInv
<1>2. /\ IsPrefs(q) /\ Where(q) = Where(live.prefs) /\ q.team = live.prefs.team
  BY <1>1 DEF IsState, IsPrefs, Where
<1>3. live' = [live EXCEPT !.prefs = q] /\ file' = live'.prefs
  BY <1>1 DEF PickIter, IsState, IsPrefs
<1>4. /\ excuses' = {} => io = NoJob
      /\ excuses \subseteq excuses' /\ excuses' \subseteq excuses \cup {"picked"}
      /\ UNCHANGED <<io, search, pending, hold, wanted>>
  BY DEF PickIter
<1> HIDE DEF q
<1>5. /\ IsState(live') /\ live'.rows = live.rows /\ live'.loading = live.loading
      /\ live'.marks = live.marks /\ live'.prefs = q
  BY <1>1, <1>2, <1>3 DEF IsState
<1>6. Matching(live')
  BY <1>1, <1>2, <1>5 DEF Matching
<1>7. ShapeInv' /\ RowsInv'
  BY <1>2, <1>3, <1>4, <1>5, <1>6 DEF ScopeInv, ShapeInv, RowsInv
<1>8. FileInv' /\ CoverInv' /\ PickInv'
  BY <1>2, <1>3, <1>4, <1>5 DEF ScopeInv, FileInv, CoverInv, PickInv
<1> QED
  BY <1>7, <1>8 DEF ScopeInv

\* A search begins, or ends and brings its clone back.
LEMMA SearchStep == ASSUME ScopeInv, Search PROVE ScopeInv'
  BY DEF Search, ScopeInv, ShapeInv, RowsInv, FileInv, CoverInv, PickInv

\* adopt_spawned at the end of a search.
LEMMA SearchEndsStep == ASSUME ScopeInv, SearchEnds PROVE ScopeInv'
<1>1. /\ search # None /\ live' = search /\ search' = None
      /\ excuses' = IF live = search THEN excuses ELSE excuses \cup {"search"}
      /\ UNCHANGED <<file, io, pending, hold, wanted>>
  BY DEF SearchEnds
<1>2. ShapeInv' /\ RowsInv'
  BY <1>1 DEF ScopeInv, ShapeInv, RowsInv
<1>3. CASE live = search
  BY <1>1, <1>2, <1>3 DEF ScopeInv, FileInv, CoverInv, PickInv
<1>4. CASE live # search
  <2>1. "search" \in excuses' /\ excuses' # {}
    BY <1>1, <1>4
  <2> QED
    BY <1>1, <1>2, <2>1 DEF ScopeInv, FileInv, CoverInv, PickInv
<1> QED
  BY <1>3, <1>4

\* The skeleton's minimum time is over.
LEMMA TimerStep == ASSUME ScopeInv, Timer PROVE ScopeInv'
<1>1. /\ hold /\ hold' = FALSE /\ live' = [live EXCEPT !.loading = FALSE]
      /\ UNCHANGED <<file, io, search, pending, wanted, excuses>>
  BY DEF Timer
<1>2. /\ IsState(live') /\ live'.prefs = live.prefs /\ live'.rows = live.rows
      /\ live'.marks = live.marks
  BY <1>1 DEF ScopeInv, ShapeInv, IsState
<1>3. Matching(live')
  BY <1>2 DEF ScopeInv, RowsInv, Matching
<1> QED
  BY <1>1, <1>2, <1>3 DEF ScopeInv, ShapeInv, RowsInv, FileInv, CoverInv, PickInv

-----------------------------------------------------------------------------
\* One step less: the last one stays the last.
LEMMA TailOfList ==
  ASSUME NEW S, NEW q \in Seq(S), q # <<>>
  PROVE  /\ Tail(q) \in Seq(S) /\ Len(Tail(q)) = Len(q) - 1
         /\ Tail(q) # <<>> => Tail(q)[Len(Tail(q))] = q[Len(q)]
         /\ Tail(q) = <<>> => Head(q) = q[Len(q)]
  OBVIOUS

\* A job after one step: one thing less to do, and another state.
LEMMA JobWith ==
  ASSUME NEW j, IsJob(j), NEW q, NEW s
  PROVE  [j EXCEPT !.todo = q, !.st = s] = [kind |-> j.kind, to |-> j.to, todo |-> q, st |-> s]
<1> DEFINE k == [j EXCEPT !.todo = q, !.st = s]
<1>1. j = [kind |-> j.kind, to |-> j.to, todo |-> j.todo, st |-> j.st]
  BY DEF IsJob
<1>2. k = [j EXCEPT !.todo = q, !.st = s]
  OBVIOUS
<1> HIDE DEF k
<1>3. k = [kind |-> j.kind, to |-> j.to, todo |-> q, st |-> s]
  BY <1>1, <1>2
<1> QED
  BY <1>3 DEF k

\* What is left to do of a job after one step.
AfterStep(j, k, s) ==
  /\ IsJob(k) /\ k # NoJob /\ k.kind = j.kind /\ k.to = j.to /\ k.st = s
  /\ k.todo # Steps.team \/ k.kind # "team"
  /\ k.kind \in Loads /\ k.todo = <<>> => Head(j.todo) = "rows"
  /\ j.kind = "team" => Head(j.todo) \in {"set", "iters", "rows"}
  /\ j.kind = "logout" => Head(j.todo) = "leave"
  /\ j.kind = "other" => Head(j.todo) = "work"

\* A job with its first step taken is a job
LEMMA TailOfJob ==
  ASSUME NEW j, IsJob(j), j.todo # <<>>, NEW s, IsState(s),
         NEW k, k = [kind |-> j.kind, to |-> j.to, todo |-> Tail(j.todo), st |-> s]
  PROVE  AfterStep(j, k, s)
<1> DEFINE todo == j.todo
<1>1. /\ todo \in Seq(StepNames) /\ todo # <<>>
      /\ j.kind \in Loads => todo[Len(todo)] = "rows"
      /\ j.kind = "team" => todo \in {<<"set", "iters", "rows">>, <<"iters", "rows">>, <<"rows">>}
      /\ j.kind = "logout" => todo = <<"leave">>
      /\ j.kind = "other" => todo = <<"work">>
  BY DEF IsJob
<1>2. /\ k.kind = j.kind /\ k.to = j.to /\ k.st = s /\ k.todo = Tail(todo)
      /\ k = [kind |-> k.kind, to |-> k.to, todo |-> k.todo, st |-> k.st]
  OBVIOUS
<1> HIDE DEF todo
<1>3. /\ Tail(todo) \in Seq(StepNames)
      /\ Tail(todo) # <<>> => Tail(todo)[Len(Tail(todo))] = todo[Len(todo)]
      /\ Tail(todo) = <<>> => Head(todo) = todo[Len(todo)]
      /\ Len(Tail(todo)) = Len(todo) - 1
  BY <1>1, TailOfList
<1>4. CASE j.kind = "team"
  <2>1. ASSUME todo = <<"set", "iters", "rows">>
        PROVE  Tail(todo) = <<"iters", "rows">> /\ Head(todo) = "set" /\ Len(Tail(todo)) = 2
    BY <2>1
  <2>2. ASSUME todo = <<"iters", "rows">>
        PROVE  Tail(todo) = <<"rows">> /\ Head(todo) = "iters" /\ Len(Tail(todo)) = 1
    BY <2>2
  <2>3. ASSUME todo = <<"rows">>
        PROVE  Tail(todo) = <<>> /\ Head(todo) = "rows" /\ Len(Tail(todo)) = 0
    BY <2>3
  <2>4. /\ Tail(todo) \in {<<"iters", "rows">>, <<"rows">>, <<>>}
        /\ Head(todo) \in {"set", "iters", "rows"}
        /\ Len(Tail(todo)) \in {0, 1, 2}
    BY <1>1, <1>4, <2>1, <2>2, <2>3, Zenon
  <2>5. Len(Steps.team) = 3
    <3>1. Steps.team = <<"set", "iters", "rows">>
      BY DEF Steps
    <3> QED
      BY <3>1
  <2>6. Tail(todo) # Steps.team
    <3> DEFINE n == Len(Tail(todo))
    <3>1. n \in {0, 1, 2}
      BY <2>4
    <3> HIDE DEF n
    <3>2. n # 3
      BY <3>1
    <3> QED
      BY <2>5, <3>2, Zenon DEF n
  <2>7. IsJob(k)
    BY <1>1, <1>2, <1>3, <1>4, <2>4 DEF IsJob, Loads
  <2>8. k # NoJob
    BY <1>2, <1>4 DEF NoJob
  <2> QED
    BY <1>1, <1>2, <1>3, <1>4, <2>4, <2>6, <2>7, <2>8 DEF Loads, todo, AfterStep
<1>5. CASE j.kind \in {"logout", "other"}
  <2>1. /\ Tail(todo) = <<>>
        /\ j.kind = "logout" => Head(todo) = "leave"
        /\ j.kind = "other" => Head(todo) = "work"
    <3>1. ASSUME NEW x, todo = <<x>> PROVE Tail(todo) = <<>> /\ Head(todo) = x
      BY <3>1
    <3> QED
      BY <1>1, <1>5, <3>1
  <2>2. IsJob(k)
    BY <1>2, <1>3, <1>5, <2>1 DEF IsJob, Loads
  <2> QED
    BY <1>2, <1>5, <2>1, <2>2 DEF NoJob, Loads, todo, AfterStep
<1>6. CASE j.kind \in {"login", "org", "project"}
  <2>1. IsJob(k)
    BY <1>1, <1>2, <1>3, <1>6 DEF IsJob, Loads
  <2> QED
    BY <1>1, <1>2, <1>3, <1>6, <2>1 DEF NoJob, Loads, todo, AfterStep
<1> QED
  BY <1>4, <1>5, <1>6 DEF IsJob, Loads

\* A step of a job answers.
LEMMA ProgressStep == ASSUME ScopeInv, Progress PROVE ScopeInv'
<1> DEFINE step == Head(io.todo)
           p == io.st.prefs
<1>1. IsJob(io) /\ io # NoJob /\ io.todo # <<>> /\ IsState(io.st) /\ IsPrefs(p)
  BY DEF Progress, ScopeInv, ShapeInv, IsJob, IsState
<1>2. UNCHANGED <<live, search, pending, hold, wanted, excuses>>
  BY DEF Progress
<1>3. step \in StepNames
  BY <1>1 DEF IsJob
<1>4. PICK s : /\ IsState(s) /\ io' = [io EXCEPT !.todo = Tail(@), !.st = s]
               /\ step = "set" => file' = s.prefs /\ s.prefs = Chosen(io.kind, io.to, p)
               /\ step # "set" => file' = (IF s.prefs = p THEN file ELSE s.prefs)
               /\ step \in {"signin", "leave", "work", "rows"} => s.prefs = p
               /\ step = "iters" => s.prefs.team = p.team
               /\ step = "rows" => Matching(s)
               /\ step = "leave" => s.rows = None
               /\ step = "work" => s = io.st
  <2>1. CASE step = "set"
    <3> DEFINE q == Chosen(io.kind, io.to, p)
               s == [io.st EXCEPT !.prefs = q]
    <3>1. Next1(s) /\ file' = q
      BY <2>1 DEF Progress
    <3>2. IsPrefs(q)
      BY <1>1 DEF Chosen, IsPrefs, Empty
    <3> HIDE DEF q
    <3>3. IsState(s) /\ s.prefs = q
      BY <1>1, <3>2 DEF IsState
    <3> HIDE DEF s
    <3> QED
      BY <2>1, <3>1, <3>3 DEF Next1, q
  <2>2. CASE step = "signin"
    <3> DEFINE s == [io.st EXCEPT !.signed = TRUE]
    <3>1. Next1(s) /\ file' = file
      BY <2>2 DEF Progress
    <3>2. IsState(s) /\ s.prefs = p
      BY <1>1, StateWith
    <3> HIDE DEF s
    <3> QED
      BY <2>2, <3>1, <3>2 DEF Next1
  <2>3. CASE step = "leave"
    <3> DEFINE s == Left(io.st)
    <3>1. Next1(s) /\ file' = file
      BY <2>3 DEF Progress
    <3>2. IsState(s) /\ s.prefs = p /\ s.rows = None
      BY <1>1, StateWith
    <3> HIDE DEF s
    <3> QED
      BY <2>3, <3>1, <3>2 DEF Next1
  <2>4. CASE step = "work"
    <3>1. Next1(io.st) /\ file' = file
      BY <2>4 DEF Progress
    <3> QED
      BY <1>1, <2>4, <3>1 DEF Next1
  <2>5. CASE step \in {"orgs", "projects", "teams", "iters", "rows"}
    <3> DEFINE s == Loaded(step, io.st)
    <3>1. Next1(s) /\ Persists(p, s.prefs)
      BY <2>5 DEF Progress
    <3>2. /\ IsState(s) /\ (step = "rows" => Matching(s) /\ s.prefs = p)
          /\ step = "iters" => s.prefs.team = p.team
      BY <1>1, <2>5, LoadedState
    <3> HIDE DEF s
    <3> QED
      BY <2>5, <3>1, <3>2 DEF Next1, Persists
  <2> QED
    BY <1>3, <2>1, <2>2, <2>3, <2>4, <2>5 DEF StepNames
<1>5. /\ IsJob(io') /\ io' # NoJob /\ io'.kind = io.kind /\ io'.to = io.to /\ io'.st = s
      /\ io'.todo # Steps.team \/ io'.kind # "team"
      /\ io'.kind \in Loads /\ io'.todo = <<>> => step = "rows"
      /\ io.kind = "team" => step \in {"set", "iters", "rows"}
      /\ io.kind = "logout" => step = "leave"
      /\ io.kind = "other" => step = "work"
  <2>1. io' = [kind |-> io.kind, to |-> io.to, todo |-> Tail(io.todo), st |-> s]
    <3> DEFINE rest == Tail(io.todo)
    <3>1. io' = [io EXCEPT !.todo = rest, !.st = s]
      BY <1>4
    <3> HIDE DEF rest
    <3>2. [io EXCEPT !.todo = rest, !.st = s] = [kind |-> io.kind, to |-> io.to, todo |-> rest, st |-> s]
      BY <1>1, JobWith
    <3> QED
      BY <3>1, <3>2 DEF rest
  <2> DEFINE k == io'
  <2>2. k = [kind |-> io.kind, to |-> io.to, todo |-> Tail(io.todo), st |-> s]
    BY <2>1
  <2> HIDE DEF k
  <2>3. IsState(s)
    BY <1>4
  <2>4. AfterStep(io, k, s)
    <3> HIDE DEF step, p
    <3> QED
      BY <1>1, <2>2, <2>3, TailOfJob
  <2> QED
    BY <2>4 DEF k, AfterStep
<1>6. IsPrefs(file')
  BY <1>4 DEF IsState, ScopeInv, ShapeInv
<1>7. io.kind \in Loads \cup {"logout", "other"}
  BY <1>1 DEF IsJob
<1> HIDE DEF step, p
<1>8. RowsInv'
  <2>1. (io'.kind \in Loads => io'.todo = <<>>) => Matching(s)
    <3>1. CASE io.kind \in Loads
      BY <1>4, <1>5, <3>1
    <3>2. CASE io.kind = "logout"
      BY <1>4, <1>5, <3>2 DEF Matching
    <3>3. CASE io.kind = "other"
      <4>1. Matching(io.st)
        BY <1>1, <3>3 DEF ScopeInv, RowsInv, Loads
      <4> QED
        BY <1>4, <1>5, <3>3, <4>1
    <3> QED
      BY <1>7, <3>1, <3>2, <3>3
  <2> QED
    BY <1>2, <1>5, <2>1 DEF ScopeInv, RowsInv
<1>9. FileInv'
  <2>1. ASSUME excuses = {} PROVE file' = s.prefs
    <3>1. CASE step = "set"
      BY <1>4, <3>1
    <3>2. CASE step # "set"
      <4>1. io.kind = "team" => io.todo # Steps.team
        <5>1. Head(Steps.team) = "set"
          <6>1. Steps.team = <<"set", "iters", "rows">>
            BY DEF Steps
          <6> QED
            BY <6>1
        <5> QED
          BY <3>2, <5>1 DEF step
      <4>2. file = p
        BY <1>1, <2>1, <4>1 DEF ScopeInv, FileInv, p
      <4> QED
        BY <1>4, <3>2, <4>2
    <3> QED
      BY <3>1, <3>2
  <2> QED
    BY <1>2, <1>5, <2>1 DEF FileInv
<1>10. CoverInv'
  BY <1>1, <1>2, <1>5 DEF ScopeInv, CoverInv
<1>11. PickInv'
  <2>1. ASSUME wanted # None, "search" \notin excuses, pending # wanted
        PROVE  io.kind \in {"team", "other"} /\ s.prefs.team = wanted
    <3>1. /\ io.kind \in {"team", "other"} /\ p.team = wanted
          /\ io.kind = "team" => io.to = wanted
      BY <1>1, <2>1 DEF ScopeInv, PickInv, p
    <3>2. CASE io.kind = "other"
      BY <1>4, <1>5, <3>1, <3>2
    <3>3. CASE io.kind = "team"
      <4>1. CASE step = "set"
        <5>1. s.prefs = [p EXCEPT !.team = io.to, !.iter = None]
          BY <1>4, <3>3, <4>1 DEF Chosen
        <5>2. IsPrefs(p)
          BY <1>1 DEF p
        <5> QED
          BY <3>1, <3>3, <5>1, <5>2 DEF IsPrefs
      <4>2. CASE step \in {"iters", "rows"}
        BY <1>4, <3>1, <4>2
      <4> QED
        BY <1>5, <3>3, <4>1, <4>2
    <3> QED
      BY <3>1, <3>2, <3>3
  <2> QED
    BY <1>1, <1>2, <1>5, <2>1 DEF ScopeInv, PickInv
<1>12. ShapeInv'
  BY <1>2, <1>5, <1>6 DEF ScopeInv, ShapeInv
<1> QED
  BY <1>8, <1>9, <1>10, <1>11, <1>12 DEF ScopeInv

\* A load of a job fails.
LEMMA BreaksStep == ASSUME ScopeInv, Breaks PROVE ScopeInv'
<1> DEFINE step == Head(io.todo)
<1>1. IsJob(io) /\ io # NoJob /\ io.todo # <<>> /\ IsState(io.st)
  BY DEF Breaks, ScopeInv, ShapeInv, IsJob
<1>2. /\ UNCHANGED <<live, file, search, pending, hold, wanted, excuses>>
      /\ step \in {"signin", "orgs", "projects", "teams", "iters", "rows"}
  BY DEF Breaks
<1>3. PICK v : /\ IsState(v) /\ v.prefs = io.st.prefs /\ Matching(v)
               /\ io' = [io EXCEPT !.todo = <<>>, !.st = v]
  <2>1. PICK s \in {io.st, [io.st EXCEPT !.loading = FALSE],
                     [io.st EXCEPT !.loading = FALSE, !.rows = None]} :
             io' = [io EXCEPT !.todo = <<>>, !.st =
                      [s EXCEPT !.marks = @ \cup {IF Known(step, s) THEN "failed" ELSE "refused"}]]
    BY DEF Breaks
  <2>2. IsState(s) /\ s.prefs = io.st.prefs
    BY <1>1, <2>1 DEF IsState
  <2> DEFINE m == IF Known(step, s) THEN "failed" ELSE "refused"
             v == [s EXCEPT !.marks = @ \cup {m}]
  <2>3. io' = [io EXCEPT !.todo = <<>>, !.st = v]
    BY <2>1
  <2>4. m \in {"failed", "refused"}
    OBVIOUS
  <2> HIDE DEF m
  <2>5. IsState(v) /\ v.prefs = io.st.prefs /\ m \in v.marks
    BY <2>2 DEF IsState
  <2> HIDE DEF v
  <2>6. Matching(v)
    BY <2>4, <2>5 DEF Matching
  <2> QED
    BY <2>3, <2>5, <2>6
<1> DEFINE k == io'
<1>4. k = [kind |-> io.kind, to |-> io.to, todo |-> <<>>, st |-> v]
  <2> DEFINE rest == <<>>
  <2>1. io' = [io EXCEPT !.todo = rest, !.st = v]
    BY <1>3
  <2> HIDE DEF rest
  <2>2. [io EXCEPT !.todo = rest, !.st = v] = [kind |-> io.kind, to |-> io.to, todo |-> rest, st |-> v]
    BY <1>1, JobWith
  <2> QED
    BY <2>1, <2>2 DEF rest
<1> HIDE DEF k, step
<1>5. k.kind = io.kind /\ k.to = io.to /\ k.todo = <<>> /\ k.st = v
  BY <1>4
<1>6. IsJob(k) /\ k # NoJob
  <2>1. k = [kind |-> k.kind, to |-> k.to, todo |-> k.todo, st |-> k.st]
    BY <1>4, <1>5
  <2>2. io.kind \in Loads \cup {"logout", "other"}
    BY <1>1 DEF IsJob
  <2>3. k.kind # "none"
    BY <1>5, <2>2 DEF Loads
  <2> QED
    BY <1>3, <1>5, <2>1, <2>2, <2>3 DEF IsJob, NoJob
<1>7. ShapeInv' /\ RowsInv'
  BY <1>2, <1>3, <1>5, <1>6 DEF ScopeInv, ShapeInv, RowsInv, k
<1>8. io.todo # Steps.team
  <2>1. Steps.team = <<"set", "iters", "rows">>
    BY DEF Steps
  <2>2. Head(<<"set", "iters", "rows">>) = "set"
    OBVIOUS
  <2> QED
    BY <1>2, <2>1, <2>2 DEF step
<1>9. FileInv' /\ CoverInv' /\ PickInv'
  BY <1>1, <1>2, <1>3, <1>5, <1>6, <1>8 DEF ScopeInv, FileInv, CoverInv, PickInv, k
<1> QED
  BY <1>7, <1>9 DEF ScopeInv

\* A job ends: its clone is adopted, and a waiting team switched to.
LEMMA JobEndsStep ==
  ASSUME ScopeInv, NEW early \in BOOLEAN, NEW more \in BOOLEAN, JobEnds(early, more)
  PROVE  ScopeInv'
<1> DEFINE held == shown /\ ~io.st.loading /\ early
           loading == io.st.loading \/ held
           s == [io.st EXCEPT !.loading = loading]
<1>1. IsJob(io) /\ io # NoJob /\ io.todo = <<>> /\ IsState(io.st) /\ Matching(io.st)
  BY DEF JobEnds, ScopeInv, ShapeInv, RowsInv, IsJob
<1>2. /\ UNCHANGED <<file, search, wanted, excuses>>
      /\ \/ pending # None /\ ~more /\ StartSwitch(s, pending) /\ pending' = None
         \/ /\ pending = None \/ more
            /\ live' = s /\ pending' = pending
            /\ io' = IF more THEN Job("other", None, s) ELSE NoJob
  <2>1. s = [io.st EXCEPT !.loading = @ \/ held]
    OBVIOUS
  <2> QED
    BY <2>1 DEF JobEnds
<1> HIDE DEF loading
<1>3. IsState(s) /\ s.prefs = io.st.prefs /\ Matching(s)
  BY <1>1, StateWith
<1> HIDE DEF s, held
<1>4. excuses = {} => file = s.prefs
  <2>1. io.todo # Steps.team
    <3>1. Steps.team = <<"set", "iters", "rows">>
      BY DEF Steps
    <3>2. <<"set", "iters", "rows">> # <<>>
      OBVIOUS
    <3> QED
      BY <1>1, <3>1, <3>2
  <2> QED
    BY <1>1, <1>3, <2>1 DEF ScopeInv, FileInv
<1>5. CASE pending # None /\ ~more /\ StartSwitch(s, pending) /\ pending' = None
  <2>1. /\ IsState(live') /\ live'.rows = None /\ live'.loading /\ live'.prefs.team = pending
        /\ IsJob(io') /\ io' # NoJob /\ io'.kind = "team" /\ io'.to = pending
        /\ io'.todo = Steps.team /\ io'.st.prefs = live'.prefs /\ hold' = FALSE
        /\ Matching(live') /\ Matching(io'.st)
    BY <1>3, <1>5, SwitchStarts
  <2>2. wanted # None /\ "search" \notin excuses => pending = wanted
    BY <1>5 DEF ScopeInv, PickInv
  <2> QED
    BY <1>2, <1>5, <2>1, <2>2 DEF ScopeInv, ShapeInv, RowsInv, FileInv, CoverInv, PickInv
<1>6. CASE /\ pending = None \/ more
           /\ live' = s /\ pending' = pending
           /\ io' = IF more THEN Job("other", None, s) ELSE NoJob
  <2>1. wanted # None /\ "search" \notin excuses /\ pending # wanted =>
          pending = None /\ s.prefs.team = wanted
    BY <1>1, <1>3 DEF ScopeInv, PickInv
  <2>2. CASE more
    <3> DEFINE j == Job("other", None, s)
    <3>1. /\ IsJob(j) /\ j # NoJob /\ j.kind = "other" /\ j.st.prefs = s.prefs /\ Matching(j.st)
      BY <1>3, JobOfState DEF Loads
    <3>2. io' = j
      BY <1>6, <2>2
    <3> HIDE DEF j
    <3> QED
      BY <1>2, <1>3, <1>4, <1>6, <2>1, <3>1, <3>2
      DEF ScopeInv, ShapeInv, RowsInv, FileInv, CoverInv, PickInv
  <2>3. CASE ~more
    <3>1. io' = NoJob /\ pending = None
      BY <1>6, <2>3
    <3> QED
      BY <1>2, <1>3, <1>4, <1>6, <2>1, <3>1
      DEF ScopeInv, ShapeInv, RowsInv, FileInv, CoverInv, PickInv
  <2> QED
    BY <2>2, <2>3
<1> QED
  BY <1>2, <1>5, <1>6

-----------------------------------------------------------------------------
\* The application starts with the preferences p.
LEMMA FreshState ==
  ASSUME NEW p, IsPrefs(p)
  PROVE  IsState(Fresh(p)) /\ Matching(Fresh(p)) /\ Fresh(p).prefs = p
  BY DEF Fresh, IsState, Matching

\* PlannerState::new and bootstrap, whatever the file holds.
LEMMA StartsAfresh ==
  ASSUME NEW p, IsPrefs(p), live = Fresh(p), file = p, io = Job("login", None, Fresh(p)),
         search = None, pending = None, wanted = None, excuses = {}
  PROVE  ScopeInv
<1> DEFINE s == Fresh(p)
           j == Job("login", None, s)
<1>1. IsState(s) /\ Matching(s) /\ s.prefs = p
  BY FreshState
<1> HIDE DEF s
<1>2. /\ IsJob(j) /\ j # NoJob /\ j.kind = "login" /\ j.st.prefs = s.prefs /\ Matching(j.st)
  BY <1>1, JobOfState DEF Loads
<1>3. live = s /\ io = j
  BY DEF s
<1> HIDE DEF j
<1> QED
  BY <1>1, <1>2, <1>3 DEF ScopeInv, ShapeInv, RowsInv, FileInv, CoverInv, PickInv

\* No preferences, as on the first start or when the file cannot be read.
LEMMA EmptyIsPrefs == IsPrefs(Empty)
  BY DEF IsPrefs, Empty

\* The application is killed and started again.
LEMMA RestartStep == ASSUME ScopeInv, NEW torn \in BOOLEAN, Restart(torn) PROVE ScopeInv'
<1> DEFINE p == IF torn THEN Empty ELSE file
<1>1. /\ live' = Fresh(p) /\ file' = p /\ io' = Job("login", None, Fresh(p))
      /\ search' = None /\ pending' = None /\ wanted' = None /\ excuses' = {}
  BY DEF Restart
<1>2. IsPrefs(p)
  BY EmptyIsPrefs DEF ScopeInv, ShapeInv
<1> DEFINE s == Fresh(p)
           j == Job("login", None, s)
<1>3. IsState(s) /\ Matching(s) /\ s.prefs = p
  <2> HIDE DEF p
  <2> QED
    BY <1>2, FreshState
<1> HIDE DEF p, s
<1>4. /\ IsJob(j) /\ j # NoJob /\ j.kind = "login" /\ j.st.prefs = s.prefs /\ Matching(j.st)
  BY <1>3, JobOfState DEF Loads
<1>5. live' = s /\ io' = j
  BY <1>1 DEF s
<1> HIDE DEF j
<1> QED
  BY <1>1, <1>2, <1>3, <1>4, <1>5 DEF ScopeInv, ShapeInv, RowsInv, FileInv, CoverInv, PickInv

\* The invariant holds at the first start.
LEMMA ScopeInvInit == ScopeInit => ScopeInv
<1> SUFFICES ASSUME ScopeInit PROVE ScopeInv
  OBVIOUS
<1> QED
  BY EmptyIsPrefs, StartsAfresh DEF ScopeInit, Boots

\* Every step keeps it.
LEMMA ScopeInvStep == ScopeInv /\ [ScopeNext]_scopeVars => ScopeInv'
<1> SUFFICES ASSUME ScopeInv, [ScopeNext]_scopeVars PROVE ScopeInv'
  OBVIOUS
<1>1. ASSUME NEW t, PickTeam(t) PROVE ScopeInv'
  BY <1>1, PickTeamStep
<1>2. ASSUME NEW to, Start("org", to) \/ Start("project", to) PROVE ScopeInv'
  BY <1>2, StartStep
<1>3. ASSUME NEW kind \in {"login", "logout", "other"}, Start(kind, None) PROVE ScopeInv'
  BY <1>3, StartStep
<1>4. ASSUME NEW i, PickIter(i) PROVE ScopeInv'
  BY <1>4, PickIterStep
<1>5. CASE Search
  BY <1>5, SearchStep
<1>6. CASE SearchEnds
  BY <1>6, SearchEndsStep
<1>7. CASE JobStep
  <2>1. CASE Progress
    BY <2>1, ProgressStep
  <2>2. CASE Breaks
    BY <2>2, BreaksStep
  <2>3. ASSUME NEW early \in BOOLEAN, NEW more \in BOOLEAN, JobEnds(early, more) PROVE ScopeInv'
    BY <2>3, JobEndsStep
  <2> QED
    BY <1>7, <2>1, <2>2, <2>3 DEF JobStep
<1>8. CASE Timer
  BY <1>8, TimerStep
<1>9. ASSUME NEW torn \in BOOLEAN, Restart(torn) PROVE ScopeInv'
  BY <1>9, RestartStep
<1>10. CASE UNCHANGED scopeVars
  BY <1>10 DEF scopeVars, ScopeInv, ShapeInv, RowsInv, FileInv, CoverInv, PickInv
<1> QED
  BY <1>1, <1>2, <1>3, <1>4, <1>5, <1>6, <1>7, <1>8, <1>9, <1>10 DEF ScopeNext

-----------------------------------------------------------------------------
\* Whatever the user picks, whatever fails and whenever the application is
\* killed, the parts of the invariant hold.
THEOREM ScopeInvariant == ScopeSpec => []ScopeInv
  BY ScopeInvInit, ScopeInvStep, PTL DEF ScopeSpec

\* The rows shown are those of the scope shown, or a load broke off: set_team,
\* load_hierarchy and adopt_spawned never leave rows under another scope.
THEOREM RowsAreOfScope == ScopeSpec => []RowsOfScope
<1>1. ScopeInv => RowsOfScope
  BY DEF ScopeInv, RowsInv, Matching, RowsOfScope
<1> QED
  BY <1>1, ScopeInvariant, PTL

\* At rest the file holds the preferences shown, whichever step of a chain
\* failed: every heal writes what it changes.
THEOREM PrefsAreOnDisk == ScopeSpec => []PrefsOnDisk
<1>1. ScopeInv => PrefsOnDisk
  BY DEF ScopeInv, FileInv, PrefsOnDisk
<1> QED
  BY <1>1, ScopeInvariant, PTL

\* A team switch stays under its skeleton until its clone is adopted:
\* start_team_switch ends the timer of the switch before.
THEOREM SwitchStaysCovered == ScopeSpec => []SwitchIsCovered
<1>1. ScopeInv => SwitchIsCovered
  BY DEF ScopeInv, CoverInv, SwitchIsCovered
<1> QED
  BY <1>1, ScopeInvariant, PTL

\* The team picked last is shown at rest: queue_team_switch keeps one pending
\* team, and the end of a job takes it up.
THEOREM LastPickWins == ScopeSpec => []PickWins
<1>1. ScopeInv => PickWins
  BY DEF ScopeInv, PickInv, PickWins
<1> QED
  BY <1>1, ScopeInvariant, PTL
-----------------------------------------------------------------------------
(***************************************************************************)
(* The scope heals.  A state that is signed in and that nothing excuses    *)
(* names a place the server knows; a clone on its way names as much of it  *)
(* as its chain of loads has reached.                                      *)
(***************************************************************************)
Place(p) == <<p.org, p.project, p.team>>

\* Nothing excuses the state.
Clean(s) == "failed" \notin s.marks /\ "stray" \notin s.marks

\* The places the server knows.
Settled(p) == Place(p) \in DOMAIN Sprints
Placed(p)  == <<p.org, p.project>> \in DOMAIN TeamList

\* The iteration and the list it is picked from are those of the team.
Dated(s) ==
  /\ s.prefs.iter # None => s.prefs.iter \in Sprints[Place(s.prefs)]
  /\ s.iters \subseteq Sprints[Place(s.prefs)]

Healthy(s) == s.signed /\ Clean(s) => Settled(s.prefs) /\ Dated(s)

Chains ==
  {<<>>, <<"rows">>, <<"iters", "rows">>, <<"teams", "iters", "rows">>,
   <<"projects", "teams", "iters", "rows">>, <<"orgs", "projects", "teams", "iters", "rows">>,
   <<"signin", "orgs", "projects", "teams", "iters", "rows">>}

\* How far the chain of job j has come with its state.
Reached(j, s) ==
  LET p == s.prefs
      next == Head(j.todo)
  IN  IF j.todo = <<>> \/ j.kind \in {"logout", "other"} THEN Healthy(s)
      ELSE /\ next = "set" =>
                /\ j.todo = Steps[j.kind] /\ j.kind \in {"org", "project", "team"}
                /\ j.kind = "org" => j.to \in Range(OrgList)
                /\ Clean(s) /\ j.kind = "project" => <<p.org, j.to>> \in DOMAIN TeamList
                /\ Clean(s) /\ j.kind = "team" => <<p.org, p.project, j.to>> \in DOMAIN Sprints
           /\ next # "set" => j.todo \in Chains
           /\ next = "projects" /\ Clean(s) => p.org \in Range(OrgList)
           /\ next = "teams" /\ Clean(s) => Placed(p)
           /\ next \in {"iters", "rows"} /\ Clean(s) => Settled(p)
           /\ next = "rows" /\ Settled(p) => Dated(s)

HealInv ==
  /\ Healthy(live) \/ (io # NoJob /\ io.kind = "team" /\ live.rows = None)
  /\ search # None => Healthy(search)
  /\ io # NoJob => Reached(io, io.st)

\* What the server's lists say of a place.
LEMMA PlacesListed ==
  /\ \A o, p : <<o, p>> \in DOMAIN TeamList <=> o \in Range(OrgList) /\ p \in Range(ProjectList[o])
  /\ \A o, p, t : <<o, p, t>> \in DOMAIN Sprints <=>
                    <<o, p>> \in DOMAIN TeamList /\ t \in Range(TeamList[<<o, p>>])
  /\ None \notin Range(OrgList)
  /\ \A o, p : <<o, p>> \in DOMAIN TeamList => None \notin {o, p}
  /\ \A o, p, t : <<o, p, t>> \in DOMAIN Sprints => None \notin {o, p, t}
<1>1. ASSUME NEW o, NEW p
      PROVE  <<o, p>> \in DOMAIN TeamList <=> o \in Range(OrgList) /\ p \in Range(ProjectList[o])
  <2>1. <<o, p>> \in UNION {{x} \X Range(ProjectList[x]) : x \in Range(OrgList)}
          <=> \E x \in Range(OrgList) : <<o, p>> \in {x} \X Range(ProjectList[x])
    OBVIOUS
  <2>2. \A x : <<o, p>> \in {x} \X Range(ProjectList[x]) <=> o = x /\ p \in Range(ProjectList[o])
    OBVIOUS
  <2> QED
    BY <2>1, <2>2, ServerAssumption
<1>2. ASSUME NEW k \in DOMAIN TeamList PROVE k = <<k[1], k[2]>>
  <2>1. PICK x \in Range(OrgList) : k \in {x} \X Range(ProjectList[x])
    BY ServerAssumption
  <2> QED
    BY <2>1
<1>3. ASSUME NEW o, NEW p, NEW t
      PROVE  <<o, p, t>> \in DOMAIN Sprints <=>
                    <<o, p>> \in DOMAIN TeamList /\ t \in Range(TeamList[<<o, p>>])
  <2>1. <<o, p, t>> \in DOMAIN Sprints
          <=> \E k \in DOMAIN TeamList : \E u \in Range(TeamList[k]) : <<o, p, t>> = <<k[1], k[2], u>>
    BY ServerAssumption
  <2>2. \A k \in DOMAIN TeamList : \A u : <<o, p, t>> = <<k[1], k[2], u>> <=> k = <<o, p>> /\ u = t
    BY <1>2
  <2> QED
    BY <2>1, <2>2
<1>4. None \notin Range(OrgList)
  BY ServerAssumption DEF Lists
<1>5. ASSUME NEW o, NEW p, <<o, p>> \in DOMAIN TeamList PROVE None \notin {o, p}
  BY <1>1, <1>4, <1>5, ServerAssumption DEF Lists
<1>6. ASSUME NEW o, NEW p, NEW t, <<o, p, t>> \in DOMAIN Sprints PROVE None \notin {o, p, t}
  BY <1>3, <1>5, <1>6, ServerAssumption DEF Lists
<1> QED
  BY <1>1, <1>3, <1>4, <1>5, <1>6

\* choose_available picks something that is listed.
LEMMA AvailableListed ==
  ASSUME NEW list, Lists(list), NEW choice
  PROVE  Available(choice, list) \in Range(list)
<1>1. list \in Seq(Range(list)) /\ list # <<>>
  BY DEF Lists
<1> DEFINE S == Range(list)
<1>2. list \in Seq(S)
  BY <1>1
<1> HIDE DEF S
<1>3. list[1] \in S
  BY <1>1, <1>2
<1> QED
  BY <1>1, <1>3 DEF Available, S

\* Each chain is one step longer than the next.
LEMMA NextInChain ==
  ASSUME NEW q \in Chains, q # <<>>
  PROVE  /\ Tail(q) \in Chains
         /\ Head(q) \in {"signin", "orgs", "projects", "teams", "iters", "rows"}
         /\ Tail(q) # <<>> =>
              \/ Head(q) = "signin" /\ Head(Tail(q)) = "orgs"
              \/ Head(q) = "orgs" /\ Head(Tail(q)) = "projects"
              \/ Head(q) = "projects" /\ Head(Tail(q)) = "teams"
              \/ Head(q) = "teams" /\ Head(Tail(q)) = "iters"
              \/ Head(q) = "iters" /\ Head(Tail(q)) = "rows"
         /\ Tail(q) = <<>> => Head(q) = "rows"
         /\ Head(q) = "rows" => Tail(q) = <<>>
<1> DEFINE q1 == <<"rows">>
           q2 == <<"iters", "rows">>
           q3 == <<"teams", "iters", "rows">>
           q4 == <<"projects", "teams", "iters", "rows">>
           q5 == <<"orgs", "projects", "teams", "iters", "rows">>
           q6 == <<"signin", "orgs", "projects", "teams", "iters", "rows">>
<1>1. Head(q1) = "rows" /\ Tail(q1) = <<>> /\ q1 # <<>>
  OBVIOUS
<1>2. Head(q2) = "iters" /\ Tail(q2) = q1 /\ q2 # <<>>
  OBVIOUS
<1>3. Head(q3) = "teams" /\ Tail(q3) = q2 /\ q3 # <<>>
  OBVIOUS
<1>4. Head(q4) = "projects" /\ Tail(q4) = q3 /\ q4 # <<>>
  OBVIOUS
<1>5. Head(q5) = "orgs" /\ Tail(q5) = q4 /\ q5 # <<>>
  OBVIOUS
<1>6. Head(q6) = "signin" /\ Tail(q6) = q5 /\ q6 # <<>>
  OBVIOUS
<1>7. Chains = {<<>>, q1, q2, q3, q4, q5, q6}
  BY Zenon DEF Chains
<1> HIDE DEF q1, q2, q3, q4, q5, q6
<1> QED
  BY <1>1, <1>2, <1>3, <1>4, <1>5, <1>6, <1>7
\* What a job begins with.
LEMMA JobReached ==
  ASSUME NEW s, IsState(s), NEW kind \in Loads \cup {"logout", "other"}, NEW to,
         kind = "org" => to \in Range(OrgList),
         kind = "team" /\ Clean(s) => <<s.prefs.org, s.prefs.project, to>> \in DOMAIN Sprints,
         kind \in {"logout", "other"} => Healthy(s)
  PROVE  Reached(Job(kind, to, s), Job(kind, to, s).st)
<1> DEFINE j == Job(kind, to, s)
           m == Marks(kind, to, s)
<1>1. /\ j.kind = kind /\ j.to = to /\ j.todo = Steps[kind] /\ j.todo # <<>> /\ j.st.prefs = s.prefs
      /\ j.st.signed = s.signed /\ j.st.iters = s.iters /\ j.st.marks = s.marks \cup m
  BY JobOfState
<1>2. kind = "project" /\ "stray" \notin m => <<s.prefs.org, to>> \in DOMAIN TeamList
  BY DEF Marks
<1> HIDE DEF j, m
<1>3. Clean(j.st) => Clean(s)
  BY <1>1 DEF Clean
<1>4. CASE kind \in {"logout", "other"}
  <2>1. Healthy(j.st)
    BY <1>1, <1>3, <1>4 DEF Healthy, Dated
  <2> QED
    BY <1>1, <1>4, <2>1 DEF Reached, j
<1>5. CASE kind = "login"
  <2>1. j.todo \in Chains
    BY <1>1, <1>5 DEF Steps, Chains
  <2>2. Head(j.todo) = "signin"
    <3>1. Steps[kind] = <<"signin", "orgs", "projects", "teams", "iters", "rows">>
      BY <1>5 DEF Steps
    <3> QED
      BY <1>1, <3>1
  <2> QED
    BY <1>1, <1>5, <2>1, <2>2 DEF Reached, j
<1>6. CASE kind \in {"org", "project", "team"}
  <2>1. Head(j.todo) = "set"
    <3>1. CASE kind = "org"
      <4>1. Steps[kind] = <<"set", "projects", "teams", "iters", "rows">>
        BY <3>1 DEF Steps
      <4> QED
        BY <1>1, <4>1
    <3>2. CASE kind = "project"
      <4>1. Steps[kind] = <<"set", "teams", "iters", "rows">>
        BY <3>2 DEF Steps
      <4> QED
        BY <1>1, <4>1
    <3>3. CASE kind = "team"
      <4>1. Steps[kind] = <<"set", "iters", "rows">>
        BY <3>3 DEF Steps
      <4> QED
        BY <1>1, <4>1
    <3> QED
      BY <1>6, <3>1, <3>2, <3>3
  <2>2. kind = "project" /\ Clean(j.st) => <<s.prefs.org, to>> \in DOMAIN TeamList
    BY <1>1, <1>2 DEF Clean
  <2> QED
    BY <1>1, <1>3, <1>6, <2>1, <2>2 DEF Reached, j
<1> QED
  BY <1>4, <1>5, <1>6 DEF Loads

\* A team that is switched to is one of its project, or the state says so.
LEMMA SwitchReached ==
  ASSUME NEW s, IsState(s), NEW t, StartSwitch(s, t)
  PROVE  io' # NoJob /\ io'.kind = "team" /\ live'.rows = None /\ Reached(io', io'.st)
<1> DEFINE p == s.prefs
           q == [p EXCEPT !.team = t, !.iter = None]
           m == (s.marks \ {"stray"}) \cup Strays(p, t)
           s1 == live'
<1>1. live' = Switched(s, t) /\ io' = Job("team", t, live')
  BY DEF StartSwitch
<1>2. Switched(s, t) = [s EXCEPT !.prefs = q, !.rows = None, !.loading = TRUE, !.marks = m]
  BY DEF Switched, IsState, IsPrefs
<1>3. q.org = p.org /\ q.project = p.project
  BY DEF IsState, IsPrefs
<1>4. /\ "stray" \notin m => <<p.org, p.project, t>> \in DOMAIN Sprints
  BY PlacesListed DEF Strays
<1>5. IsState(s1) /\ s1.rows = None /\ io' # NoJob /\ io'.kind = "team"
  BY SwitchStarts
<1> HIDE DEF q, m
<1>6. s1.prefs = q /\ s1.marks = m
  BY <1>1, <1>2 DEF IsState
<1> HIDE DEF s1
<1>7. Clean(s1) => <<s1.prefs.org, s1.prefs.project, t>> \in DOMAIN Sprints
  BY <1>3, <1>4, <1>6 DEF Clean
<1>8. Reached(Job("team", t, s1), Job("team", t, s1).st)
  BY <1>5, <1>7, JobReached DEF Loads
<1> QED
  BY <1>1, <1>5, <1>8 DEF s1

-----------------------------------------------------------------------------
\* What a load that is answered tells the state.
LEMMA LoadHeals ==
  ASSUME NEW s, IsState(s), NEW step \in {"orgs", "projects", "teams", "iters", "rows"},
         Known(step, s) \/ Subject(step, s.prefs) = None,
         step = "projects" /\ Clean(s) => s.prefs.org \in Range(OrgList),
         step = "teams" /\ Clean(s) => Placed(s.prefs),
         step \in {"iters", "rows"} /\ Clean(s) => Settled(s.prefs),
         step = "rows" /\ Settled(s.prefs) => Dated(s)
  PROVE  LET r == Loaded(step, s)
         IN  /\ step = "orgs" => r.prefs.org \in Range(OrgList)
             /\ step = "projects" /\ Clean(r) => Placed(r.prefs)
             /\ step = "teams" /\ Clean(r) => Settled(r.prefs)
             /\ step = "iters" => /\ Clean(r) => Settled(r.prefs)
                                  /\ Settled(r.prefs) => Dated(r)
             /\ step = "rows" => Healthy(r)
<1> DEFINE p == s.prefs
           at == Subject(step, p)
<1>1. IsPrefs(p)
  BY DEF IsState
<1>2. CASE step = "orgs"
  <2> DEFINE v == Available(p.org, OrgList)
             q == Refined(p, "org", v)
  <2>1. v \in Range(OrgList)
    BY AvailableListed, ServerAssumption
  <2> HIDE DEF v
  <2>2. q.org = v
    BY <1>1 DEF Refined, Empty, IsPrefs
  <2>3. Loaded(step, s) = [s EXCEPT !.prefs = q]
    BY <1>2 DEF Loaded, v
  <2> HIDE DEF q
  <2>4. Loaded(step, s).prefs = q
    BY <2>3 DEF IsState
  <2> QED
    BY <1>2, <2>1, <2>2, <2>4
<1>3. CASE step = "projects"
  <2> DEFINE l == ProjectList[at]
             v == Available(p.project, l)
             q == Refined(p, "project", v)
  <2>1. at = p.org
    BY <1>3 DEF Subject
  <2>2. Loaded(step, s) = IF at = None THEN [s EXCEPT !.projects = <<>>]
             ELSE [s EXCEPT !.projects = l, !.prefs = q]
    BY <1>3 DEF Loaded
  <2>3. q.org = p.org /\ q.project = v
    <3> HIDE DEF v
    <3> QED
      BY <1>1 DEF Refined, Empty, IsPrefs
  <2>4. ASSUME p.org \in Range(OrgList) PROVE at # None /\ v \in Range(ProjectList[p.org])
    BY <2>1, <2>4, AvailableListed, PlacesListed, ServerAssumption
  <2> HIDE DEF l, v, q, at
  <2>5. /\ Loaded(step, s).marks = s.marks
        /\ at # None => Loaded(step, s).prefs = q
    BY <2>2 DEF IsState
  <2>6. ASSUME Clean(Loaded(step, s)) PROVE Placed(Loaded(step, s).prefs)
    <3>1. p.org \in Range(OrgList)
      BY <1>3, <2>5, <2>6 DEF Clean
    <3>2. <<p.org, v>> \in DOMAIN TeamList
      BY <2>4, <3>1, PlacesListed
    <3> QED
      BY <2>3, <2>4, <2>5, <3>1, <3>2 DEF Placed
  <2> QED
    BY <1>3, <2>6
<1>4. CASE step = "teams"
  <2> DEFINE l == TeamList[at]
             v == Available(p.team, l)
             q == Refined(p, "team", v)
             m == s.marks \ {"stray"}
  <2>1. at = IF None \in {p.org, p.project} THEN None ELSE <<p.org, p.project>>
    BY <1>4 DEF Subject
  <2>2. Loaded(step, s) = IF at = None THEN [s EXCEPT !.teams = <<>>]
             ELSE [s EXCEPT !.teams = l, !.marks = m, !.prefs = q]
    BY <1>4 DEF Loaded
  <2>3. q.org = p.org /\ q.project = p.project /\ q.team = v
    <3> HIDE DEF v
    <3> QED
      BY <1>1 DEF Refined, Empty, IsPrefs
  <2>4. ASSUME at # None PROVE <<p.org, p.project, v>> \in DOMAIN Sprints
    <3>1. at = <<p.org, p.project>> /\ at \in DOMAIN TeamList
      BY <1>4, <2>1, <2>4 DEF Known
    <3>2. v \in Range(TeamList[at])
      BY <3>1, AvailableListed, ServerAssumption
    <3> QED
      BY <3>1, <3>2, PlacesListed
  <2>5. Placed(p) => at # None
    <3>1. Placed(p) => at = <<p.org, p.project>> /\ at \in DOMAIN TeamList
      BY <2>1, PlacesListed DEF Placed
    <3> QED
      BY <3>1, ServerAssumption
  <2> HIDE DEF l, v, q, at, m
  <2>6. /\ at = None => Loaded(step, s).marks = s.marks
        /\ at # None => Loaded(step, s).prefs = q
    BY <2>2 DEF IsState
  <2>7. ASSUME Clean(Loaded(step, s)) PROVE Settled(Loaded(step, s).prefs)
    <3>1. at # None
      BY <1>4, <2>5, <2>6, <2>7 DEF Clean
    <3> QED
      BY <2>3, <2>4, <2>6, <3>1 DEF Settled, Place
  <2> QED
    BY <1>4, <2>7
<1>5. CASE step = "iters"
  <2> DEFINE l == IF at = None THEN {} ELSE Sprints[at]
             v == IF at # None /\ p.iter \notin l THEN None ELSE p.iter
             q == [p EXCEPT !.iter = v]
             r == Loaded(step, s)
  <2>1. at = Where(p)
    BY <1>5 DEF Subject
  <2>2. r = [s EXCEPT !.iters = l, !.prefs = q]
    BY <1>1, <1>5 DEF Loaded, IsState, IsPrefs
  <2>3. q.org = p.org /\ q.project = p.project /\ q.team = p.team /\ q.iter = v
    <3> HIDE DEF v
    <3> QED
      BY <1>1 DEF IsPrefs
  <2>4. ASSUME Settled(p)
        PROVE  /\ l = Sprints[Place(p)]
               /\ v # None => v \in Sprints[Place(p)]
    <3>1. at = Place(p) /\ at # None
      BY <2>1, <2>4, PlacesListed, ServerAssumption DEF Where, Settled, Place
    <3> QED
      BY <3>1
  <2> HIDE DEF l, v, q, at, r
  <2>5. r.prefs = q /\ r.iters = l /\ r.marks = s.marks
    BY <2>2 DEF IsState
  <2>6. Place(q) = Place(p) /\ (Settled(q) <=> Settled(p))
    BY <2>3 DEF Place, Settled
  <2>7. Clean(r) => Settled(r.prefs)
    BY <1>5, <2>5, <2>6 DEF Clean
  <2>8. Settled(r.prefs) => Dated(r)
    BY <2>3, <2>4, <2>5, <2>6 DEF Dated
  <2> QED
    BY <1>5, <2>7, <2>8 DEF r
<1>6. CASE step = "rows"
  <2> DEFINE r == Loaded(step, s)
  <2>1. at = Where(p)
    BY <1>6 DEF Subject
  <2>2. r = IF at = None THEN [s EXCEPT !.rows = None, !.marks = @ \cup {"nowhere"}]
                         ELSE Filled(s, at)
    BY <1>6 DEF Loaded
  <2>3. at # None => Settled(p)
    BY <1>6, <2>1 DEF Known, Where, Settled, Place
  <2> HIDE DEF r, at
  <2>4. /\ r.prefs = s.prefs /\ r.iters = s.iters /\ r.signed = s.signed
        /\ at = None /\ Clean(r) => Clean(s)
    BY <2>2 DEF IsState, Filled, Clean
  <2>5. Clean(r) => Settled(p)
    BY <1>6, <2>3, <2>4
  <2>6. Settled(p) => Dated(r)
    BY <1>6, <2>4 DEF Dated
  <2> QED
    BY <1>6, <2>4, <2>5, <2>6 DEF Healthy, r
<1> QED
  BY <1>2, <1>3, <1>4, <1>5, <1>6

-----------------------------------------------------------------------------
\* A state that differs only in what nothing here depends on.
LEMMA StaysHealthy ==
  ASSUME NEW s, NEW v, Healthy(s), v.prefs = s.prefs, v.iters = s.iters,
         v.signed => s.signed, Clean(v) => Clean(s)
  PROVE  Healthy(v)
  BY DEF Healthy, Dated

\* The chains that a change of scope begins.
LEMMA ChainHeads ==
  /\ LET q == <<"iters", "rows">> IN q \in Chains /\ q # <<>> /\ Head(q) = "iters"
  /\ LET q == <<"teams", "iters", "rows">> IN q \in Chains /\ q # <<>> /\ Head(q) = "teams"
  /\ LET q == <<"projects", "teams", "iters", "rows">>
     IN  q \in Chains /\ q # <<>> /\ Head(q) = "projects"
<1>1. LET q == <<"iters", "rows">> IN q \in Chains /\ q # <<>> /\ Head(q) = "iters"
  BY DEF Chains
<1>2. LET q == <<"teams", "iters", "rows">> IN q \in Chains /\ q # <<>> /\ Head(q) = "teams"
  BY DEF Chains
<1>3. LET q == <<"projects", "teams", "iters", "rows">>
      IN  q \in Chains /\ q # <<>> /\ Head(q) = "projects"
  BY DEF Chains
<1> QED
  BY <1>1, <1>2, <1>3

\* The first step of a chain that changes the scope.
LEMMA SetReached ==
  ASSUME NEW j, IsJob(j), j.todo # <<>>, Head(j.todo) = "set", Reached(j, j.st), j.kind \in Loads,
         NEW k, k.kind = j.kind, k.todo = Tail(j.todo),
         NEW s, IsState(s), s.prefs = Chosen(j.kind, j.to, j.st.prefs), s.marks = j.st.marks
  PROVE  Reached(k, s)
<1> DEFINE p == j.st.prefs
           q == s.prefs
<1>1. IsPrefs(p)
  BY DEF IsJob, IsState
<1>2. /\ j.todo = Steps[j.kind] /\ j.kind \in {"org", "project", "team"}
      /\ j.kind = "org" => j.to \in Range(OrgList)
      /\ Clean(j.st) /\ j.kind = "project" => <<p.org, j.to>> \in DOMAIN TeamList
      /\ Clean(j.st) /\ j.kind = "team" => <<p.org, p.project, j.to>> \in DOMAIN Sprints
  BY DEF Reached, Loads
<1>3. Clean(s) => Clean(j.st)
  BY DEF Clean
<1>4. q = Chosen(j.kind, j.to, p)
  OBVIOUS
<1> HIDE DEF p, q
<1>5. CASE j.kind = "org"
  <2>1. q.org = j.to
    BY <1>4, <1>5 DEF Chosen, Empty
  <2>2. k.todo = <<"projects", "teams", "iters", "rows">>
    <3>1. j.todo = <<"set", "projects", "teams", "iters", "rows">>
      BY <1>2, <1>5 DEF Steps
    <3> QED
      BY <3>1
  <2>3. Head(k.todo) = "projects" /\ k.todo \in Chains /\ k.todo # <<>>
    BY <2>2, ChainHeads, Zenon
  <2> QED
    BY <1>2, <1>5, <2>1, <2>3 DEF Reached, q
<1>6. CASE j.kind = "project"
  <2>1. q.org = p.org /\ q.project = j.to
    BY <1>4, <1>6 DEF Chosen, Empty
  <2>2. k.todo = <<"teams", "iters", "rows">>
    <3>1. j.todo = <<"set", "teams", "iters", "rows">>
      BY <1>2, <1>6 DEF Steps
    <3> QED
      BY <3>1
  <2>3. Head(k.todo) = "teams" /\ k.todo \in Chains /\ k.todo # <<>>
    BY <2>2, ChainHeads, Zenon
  <2> QED
    BY <1>2, <1>3, <1>6, <2>1, <2>3 DEF Reached, Placed, q
<1>7. CASE j.kind = "team"
  <2>1. q.org = p.org /\ q.project = p.project /\ q.team = j.to
    BY <1>1, <1>4, <1>7 DEF Chosen, IsPrefs
  <2>2. k.todo = <<"iters", "rows">>
    <3>1. j.todo = <<"set", "iters", "rows">>
      BY <1>2, <1>7 DEF Steps
    <3> QED
      BY <3>1
  <2>3. Head(k.todo) = "iters" /\ k.todo \in Chains /\ k.todo # <<>>
    BY <2>2, ChainHeads, Zenon
  <2>4. Clean(s) => Settled(q)
    BY <1>2, <1>3, <1>7, <2>1 DEF Settled, Place
  <2> QED
    BY <1>7, <2>3, <2>4 DEF Reached, q
<1> QED
  BY <1>2, <1>5, <1>6, <1>7

\* A later step of a chain.
LEMMA ChainReached ==
  ASSUME NEW j, IsJob(j), j.todo # <<>>, Head(j.todo) # "set", Reached(j, j.st), j.kind \in Loads,
         NEW k, k.kind = j.kind, k.todo = Tail(j.todo), NEW s,
         LET step == Head(j.todo)
         IN  step # "signin" => s = Loaded(step, j.st)
                                /\ (Known(step, j.st) \/ Subject(step, j.st.prefs) = None)
  PROVE  Reached(k, s)
<1> DEFINE step == Head(j.todo)
           p == j.st.prefs
<1>1. /\ j.todo \in Chains
      /\ step = "projects" /\ Clean(j.st) => p.org \in Range(OrgList)
      /\ step = "teams" /\ Clean(j.st) => Placed(p)
      /\ step \in {"iters", "rows"} /\ Clean(j.st) => Settled(p)
      /\ step = "rows" /\ Settled(p) => Dated(j.st)
  BY DEF Reached, Loads
<1>2. IsState(j.st)
  BY DEF IsJob
<1>3. /\ k.todo \in Chains
      /\ step \in {"signin", "orgs", "projects", "teams", "iters", "rows"}
      /\ k.todo # <<>> =>
           \/ step = "signin" /\ Head(k.todo) = "orgs"
           \/ step = "orgs" /\ Head(k.todo) = "projects"
           \/ step = "projects" /\ Head(k.todo) = "teams"
           \/ step = "teams" /\ Head(k.todo) = "iters"
           \/ step = "iters" /\ Head(k.todo) = "rows"
      /\ k.todo = <<>> => step = "rows"
      /\ step = "rows" => k.todo = <<>>
  BY <1>1, NextInChain
<1>4. k.kind \notin {"logout", "other"}
  BY DEF Loads
<1>5. CASE step = "signin"
  BY <1>3, <1>4, <1>5 DEF Reached
<1>6. CASE step # "signin"
  <2>1. s = Loaded(step, j.st) /\ (Known(step, j.st) \/ Subject(step, p) = None)
    BY <1>6
  <2> HIDE DEF step, p
  <2>2. /\ step = "orgs" => s.prefs.org \in Range(OrgList)
        /\ step = "projects" /\ Clean(s) => Placed(s.prefs)
        /\ step = "teams" /\ Clean(s) => Settled(s.prefs)
        /\ step = "iters" => /\ Clean(s) => Settled(s.prefs)
                             /\ Settled(s.prefs) => Dated(s)
        /\ step = "rows" => Healthy(s)
    BY <1>1, <1>2, <1>3, <1>6, <2>1, LoadHeals DEF p
  <2>3. CASE step = "rows"
    BY <1>3, <2>2, <2>3 DEF Reached
  <2>4. CASE step = "iters"
    BY <1>3, <1>4, <2>2, <2>4 DEF Reached
  <2>5. CASE step = "teams"
    BY <1>3, <1>4, <2>2, <2>5 DEF Reached
  <2>6. CASE step = "projects"
    BY <1>3, <1>4, <2>2, <2>6 DEF Reached
  <2>7. CASE step = "orgs"
    BY <1>3, <1>4, <2>2, <2>7 DEF Reached
  <2> QED
    BY <1>3, <1>6, <2>3, <2>4, <2>5, <2>6, <2>7
<1> QED
  BY <1>5, <1>6

\* A job one step further, with the state s.
Turned(j, s) == [j EXCEPT !.todo = Tail(@), !.st = s]

\* Its fields.
LEMMA TurnedJob ==
  ASSUME NEW j, IsJob(j), NEW s
  PROVE  /\ Turned(j, s).kind = j.kind /\ Turned(j, s).todo = Tail(j.todo)
         /\ Turned(j, s).st = s /\ Turned(j, s) # NoJob
<1> DEFINE rest == Tail(j.todo)
           k == [j EXCEPT !.todo = rest, !.st = s]
<1>1. Turned(j, s) = k
  BY DEF Turned
<1> HIDE DEF rest
<1>2. k = [kind |-> j.kind, to |-> j.to, todo |-> rest, st |-> s]
  BY JobWith
<1>3. j.kind # "none"
  BY DEF IsJob, Loads
<1> HIDE DEF k
<1>4. k.kind = j.kind /\ k.todo = rest /\ k.st = s
  BY <1>2
<1> QED
  BY <1>1, <1>3, <1>4 DEF rest, NoJob

\* A step of a job answers.
LEMMA ProgressHeals == ASSUME ScopeInv, HealInv, Progress PROVE HealInv'
<1> DEFINE step == Head(io.todo)
           p == io.st.prefs
<1>1. /\ IsJob(io) /\ io # NoJob /\ io.todo # <<>> /\ IsState(io.st) /\ step \in StepNames
      /\ io.kind \in Loads \cup {"logout", "other"} /\ Reached(io, io.st)
  BY DEF Progress, ScopeInv, ShapeInv, HealInv, IsJob
<1>2. UNCHANGED <<live, search>>
  BY DEF Progress
<1>3. PICK s : io' = Turned(io, s) /\ Reached(Turned(io, s), s)
  <2>1. \A s : Next1(s) => io' = Turned(io, s)
    BY DEF Next1, Turned
  <2>2. \A s : Turned(io, s).kind = io.kind /\ Turned(io, s).todo = Tail(io.todo)
    BY <1>1, TurnedJob
  <2>3. CASE io.kind \in {"logout", "other"}
    <3>1. Healthy(io.st)
      BY <1>1, <2>3 DEF Reached
    <3>2. step \in {"leave", "work"}
      <4>1. io.todo \in {<<"leave">>, <<"work">>}
        BY <1>1, <2>3 DEF IsJob
      <4>2. Head(<<"leave">>) = "leave" /\ Head(<<"work">>) = "work"
        OBVIOUS
      <4> QED
        BY <4>1, <4>2
    <3>3. CASE step = "work"
      <4>1. Next1(io.st)
        BY <3>3 DEF Progress
      <4>2. Reached(Turned(io, io.st), io.st)
        BY <2>2, <2>3, <3>1 DEF Reached
      <4> QED
        BY <2>1, <4>1, <4>2
    <3>4. CASE step = "leave"
      <4>1. Next1(Left(io.st))
        BY <3>4 DEF Progress
      <4>2. Left(io.st).signed = FALSE
        BY <1>1 DEF IsState, Left
      <4>3. Reached(Turned(io, Left(io.st)), Left(io.st))
        BY <2>2, <2>3, <4>2 DEF Reached, Healthy
      <4> QED
        BY <2>1, <4>1, <4>3
    <3> QED
      BY <3>2, <3>3, <3>4
  <2>4. CASE io.kind \in Loads /\ step = "set"
    <3> DEFINE q == Chosen(io.kind, io.to, p)
               s == [io.st EXCEPT !.prefs = q]
    <3>1. Next1(s)
      BY <2>4 DEF Progress
    <3>2. IsPrefs(q)
      BY <1>1 DEF Chosen, IsPrefs, IsState, Empty
    <3> HIDE DEF q
    <3>3. IsState(s) /\ s.prefs = q /\ s.marks = io.st.marks
      BY <1>1, <3>2 DEF IsState
    <3> HIDE DEF s
    <3>4. Reached(Turned(io, s), s)
      BY <1>1, <2>2, <2>4, <3>3, SetReached DEF q
    <3> QED
      BY <2>1, <3>1, <3>4
  <2>5. CASE io.kind \in Loads /\ step # "set"
    <3>1. io.todo \in Chains
      BY <1>1, <2>5 DEF Reached, Loads
    <3>2. step \in {"signin", "orgs", "projects", "teams", "iters", "rows"}
      BY <1>1, <3>1, NextInChain
    <3>3. \E s : Next1(s) /\ (step # "signin" => s = Loaded(step, io.st)
                                /\ (Known(step, io.st) \/ Subject(step, io.st.prefs) = None))
      BY <3>2 DEF Progress
    <3>4. PICK s : Next1(s) /\ (step # "signin" => s = Loaded(step, io.st)
                                /\ (Known(step, io.st) \/ Subject(step, io.st.prefs) = None))
      BY <3>3
    <3> DEFINE k == Turned(io, s)
    <3>5. k.kind = io.kind /\ k.todo = Tail(io.todo)
      BY <2>2
    <3> HIDE DEF k
    <3>6. Reached(k, s)
      BY <1>1, <2>5, <3>4, <3>5, ChainReached
    <3> QED
      BY <2>1, <3>4, <3>6 DEF k
  <2> QED
    BY <1>1, <2>3, <2>4, <2>5
<1>4. io' # NoJob /\ io'.kind = io.kind /\ io'.st = s /\ Reached(io', io'.st)
  BY <1>1, <1>3, TurnedJob
<1> QED
  BY <1>1, <1>2, <1>4 DEF HealInv

\* A load of a job fails: the one that the server refused was not the first.
LEMMA BreaksHeals == ASSUME ScopeInv, HealInv, Breaks PROVE HealInv'
<1> DEFINE step == Head(io.todo)
           p == io.st.prefs
           at == Subject(step, p)
<1>1. /\ IsJob(io) /\ io # NoJob /\ io.todo # <<>> /\ IsState(io.st)
      /\ io.kind \in Loads \cup {"logout", "other"} /\ Reached(io, io.st)
  BY DEF Breaks, ScopeInv, ShapeInv, HealInv, IsJob
<1>2. /\ UNCHANGED <<live, search>>
      /\ step \in {"signin", "orgs", "projects", "teams", "iters", "rows"}
      /\ step # "signin" => at # None
  BY DEF Breaks
<1>3. PICK s \in {io.st, [io.st EXCEPT !.loading = FALSE],
                   [io.st EXCEPT !.loading = FALSE, !.rows = None]} :
           io' = [io EXCEPT !.todo = <<>>, !.st =
                    [s EXCEPT !.marks = @ \cup {IF Known(step, s) THEN "failed" ELSE "refused"}]]
  BY DEF Breaks
<1>4. /\ IsState(s) /\ s.prefs = p /\ s.iters = io.st.iters /\ s.signed = io.st.signed
      /\ s.marks = io.st.marks
  BY <1>1, <1>3 DEF IsState
<1> DEFINE m == s.marks \cup {IF Known(step, s) THEN "failed" ELSE "refused"}
           v == [s EXCEPT !.marks = m]
<1>5. Known(step, s) => "failed" \in m
  OBVIOUS
<1>6. s.marks \subseteq m
  OBVIOUS
<1>7. io' = [io EXCEPT !.todo = <<>>, !.st = v]
  BY <1>3
<1> HIDE DEF m
<1>8. v.prefs = p /\ v.iters = s.iters /\ v.signed = s.signed /\ v.marks = m
  BY <1>4 DEF IsState
<1> HIDE DEF v
<1>9. io'.kind = io.kind /\ io'.st = v /\ io'.todo = <<>> /\ io' # NoJob
  <2> DEFINE rest == <<>>
             k == [io EXCEPT !.todo = rest, !.st = v]
  <2>1. io' = k
    BY <1>7
  <2> HIDE DEF rest
  <2>2. k = [kind |-> io.kind, to |-> io.to, todo |-> rest, st |-> v]
    BY <1>1, JobWith
  <2> HIDE DEF k
  <2>3. io.kind # "none"
    BY <1>1 DEF Loads
  <2>4. k.kind = io.kind /\ k.st = v /\ k.todo = rest
    BY <2>2
  <2> QED
    BY <2>1, <2>3, <2>4 DEF rest, NoJob
<1>10. Healthy(v)
  <2> SUFFICES ASSUME v.signed, Clean(v) PROVE Settled(p) /\ Dated(v)
    BY <1>8 DEF Healthy
  <2>1. ~Known(step, s) /\ Clean(io.st) /\ s.signed
    BY <1>4, <1>5, <1>6, <1>8 DEF Clean
  <2>2. CASE io.kind \in {"logout", "other"}
    <3>1. Healthy(io.st)
      BY <1>1, <2>2 DEF Reached
    <3> QED
      BY <1>4, <1>8, <2>1, <3>1 DEF Healthy, Dated
  <2>3. CASE io.kind \in Loads
    <3>1. /\ step = "teams" => Placed(p)
          /\ step \in {"iters", "rows"} => Settled(p)
      BY <1>1, <2>1, <2>3 DEF Reached, Loads
    <3>2. step = "teams" => at = <<p.org, p.project>>
      BY <1>2 DEF Subject
    <3>3. step \in {"iters", "rows"} => at = Place(p)
      BY <1>2 DEF Subject, Where, Place
    <3>4. /\ step = "teams" => at \in DOMAIN TeamList
          /\ step \in {"iters", "rows"} => at \in DOMAIN Sprints
      BY <3>1, <3>2, <3>3 DEF Placed, Settled
    <3>5. Known(step, s)
      BY <1>2, <1>4, <2>1, <3>4 DEF Known
    <3> QED
      BY <2>1, <3>5
  <2> QED
    BY <1>1, <2>2, <2>3
<1>11. Reached(io', io'.st)
  BY <1>9, <1>10 DEF Reached
<1> QED
  BY <1>1, <1>2, <1>9, <1>11 DEF HealInv

\* A job ends: its clone is adopted, and a waiting team switched to.
LEMMA JobEndsHeals ==
  ASSUME ScopeInv, HealInv, NEW early \in BOOLEAN, NEW more \in BOOLEAN, JobEnds(early, more)
  PROVE  HealInv'
<1> DEFINE held == shown /\ ~io.st.loading /\ early
           loading == io.st.loading \/ held
           s == [io.st EXCEPT !.loading = loading]
<1>1. io # NoJob /\ io.todo = <<>> /\ IsState(io.st) /\ Healthy(io.st)
  BY DEF JobEnds, ScopeInv, ShapeInv, HealInv, IsJob, Reached
<1>2. /\ UNCHANGED search
      /\ \/ StartSwitch(s, pending)
         \/ live' = s /\ io' = IF more THEN Job("other", None, s) ELSE NoJob
  <2>1. s = [io.st EXCEPT !.loading = @ \/ held]
    OBVIOUS
  <2> QED
    BY <2>1 DEF JobEnds
<1> HIDE DEF loading
<1>3. IsState(s) /\ Healthy(s)
  <2>1. /\ s.prefs = io.st.prefs /\ s.iters = io.st.iters /\ s.signed = io.st.signed
        /\ s.marks = io.st.marks
    BY <1>1 DEF IsState
  <2>2. IsState(s)
    BY <1>1, StateWith
  <2> HIDE DEF s
  <2> QED
    BY <1>1, <2>1, <2>2, StaysHealthy DEF Clean
<1> HIDE DEF s, held
<1>4. CASE StartSwitch(s, pending)
  BY <1>2, <1>3, <1>4, SwitchReached DEF HealInv
<1>5. CASE live' = s /\ io' = IF more THEN Job("other", None, s) ELSE NoJob
  <2>1. Reached(Job("other", None, s), Job("other", None, s).st)
    BY <1>3, JobReached DEF Loads
  <2> QED
    BY <1>2, <1>3, <1>5, <2>1 DEF HealInv
<1> QED
  BY <1>2, <1>4, <1>5

\* The user picks a scope, or starts a job.
LEMMA PicksHeal ==
  ASSUME ScopeInv, HealInv
  PROVE  /\ \A t : PickTeam(t) => HealInv'
         /\ \A to \in Range(OrgList) : Start("org", to) => HealInv'
         /\ \A to : Start("project", to) => HealInv'
         /\ \A kind \in {"login", "logout", "other"} : Start(kind, None) => HealInv'
<1>1. IsState(live)
  BY DEF ScopeInv, ShapeInv
<1>2. ASSUME NEW t, PickTeam(t) PROVE HealInv'
  <2>1. /\ UNCHANGED search
        /\ (io # NoJob /\ UNCHANGED <<live, io>>) \/ (io = NoJob /\ StartSwitch(live, t))
    BY <1>2 DEF PickTeam
  <2> QED
    BY <1>1, <2>1, SwitchReached DEF HealInv
<1>3. ASSUME NEW kind \in {"org", "project", "login", "logout", "other"}, NEW to, Start(kind, to),
             kind = "org" => to \in Range(OrgList)
      PROVE  HealInv'
  <2>1. io = NoJob /\ io' = Job(kind, to, live) /\ UNCHANGED <<live, search>>
    BY <1>3 DEF Start
  <2>2. Healthy(live)
    BY <2>1 DEF HealInv
  <2>3. Reached(Job(kind, to, live), Job(kind, to, live).st)
    BY <1>1, <1>3, <2>2, JobReached DEF Loads
  <2> QED
    BY <2>1, <2>2, <2>3 DEF HealInv
<1> QED
  BY <1>2, <1>3

\* set_iteration picks from the list shown.
LEMMA PickIterHeals == ASSUME ScopeInv, HealInv, NEW i, PickIter(i) PROVE HealInv'
<1> DEFINE q == [live.prefs EXCEPT !.iter = i]
<1>1. IsState(live) /\ UNCHANGED <<io, search>> /\ i \in live.iters \cup {None}
  BY DEF ScopeInv, ShapeInv, PickIter
<1>2. live' = [live EXCEPT !.prefs = q]
  BY <1>1 DEF PickIter, IsState, IsPrefs
<1>3. Place(q) = Place(live.prefs) /\ q.iter = i
  BY <1>1 DEF IsState, IsPrefs, Place
<1> HIDE DEF q
<1>4. /\ live'.prefs = q /\ live'.rows = live.rows /\ live'.iters = live.iters
      /\ live'.signed = live.signed /\ live'.marks = live.marks
  BY <1>1, <1>2 DEF IsState
<1>5. Healthy(live) => Healthy(live')
  BY <1>1, <1>3, <1>4 DEF Healthy, Dated, Clean, Settled
<1> QED
  BY <1>1, <1>4, <1>5 DEF HealInv

\* A search begins or ends, or the skeleton's minimum time is over.
LEMMA OthersHeal == ASSUME ScopeInv, HealInv, Search \/ SearchEnds \/ Timer PROVE HealInv'
<1>1. CASE Search
  BY <1>1 DEF Search, HealInv
<1>2. CASE SearchEnds
  BY <1>2 DEF SearchEnds, HealInv
<1>3. CASE Timer
  <2>1. live' = [live EXCEPT !.loading = FALSE] /\ UNCHANGED <<io, search>>
    BY <1>3 DEF Timer
  <2>2. /\ live'.prefs = live.prefs /\ live'.rows = live.rows /\ live'.iters = live.iters
        /\ live'.signed = live.signed /\ live'.marks = live.marks
    BY <2>1 DEF ScopeInv, ShapeInv, IsState
  <2>3. Healthy(live) => Healthy(live')
    BY <2>2, StaysHealthy DEF Clean
  <2> QED
    BY <2>1, <2>2, <2>3 DEF HealInv
<1> QED
  BY <1>1, <1>2, <1>3

\* The application starts: signed out, it claims nothing.
LEMMA StartHeals ==
  ASSUME NEW p, IsPrefs(p)
  PROVE  /\ Healthy(Fresh(p))
         /\ Reached(Job("login", None, Fresh(p)), Job("login", None, Fresh(p)).st)
<1>1. IsState(Fresh(p))
  BY FreshState
<1>2. Reached(Job("login", None, Fresh(p)), Job("login", None, Fresh(p)).st)
  BY <1>1, JobReached DEF Loads
<1> QED
  BY <1>2 DEF Fresh, Healthy

\* The invariant holds at the first start.
LEMMA HealInvInit == ScopeInit => HealInv
  BY EmptyIsPrefs, StartHeals DEF ScopeInit, Boots, HealInv

\* Every step keeps it.
LEMMA HealInvStep == ScopeInv /\ HealInv /\ [ScopeNext]_scopeVars => HealInv'
<1> SUFFICES ASSUME ScopeInv, HealInv, [ScopeNext]_scopeVars PROVE HealInv'
  OBVIOUS
<1>1. ASSUME NEW t, PickTeam(t) PROVE HealInv'
  BY <1>1, PicksHeal
<1>2. ASSUME NEW o \in Range(OrgList), Start("org", o) PROVE HealInv'
  BY <1>2, PicksHeal
<1>3. ASSUME NEW p, Start("project", p) PROVE HealInv'
  BY <1>3, PicksHeal
<1>4. ASSUME NEW kind \in {"login", "logout", "other"}, Start(kind, None) PROVE HealInv'
  BY <1>4, PicksHeal
<1>5. ASSUME NEW i, PickIter(i) PROVE HealInv'
  BY <1>5, PickIterHeals
<1>6. CASE Search \/ SearchEnds \/ Timer
  BY <1>6, OthersHeal
<1>7. CASE JobStep
  <2>1. CASE Progress
    BY <2>1, ProgressHeals
  <2>2. CASE Breaks
    BY <2>2, BreaksHeals
  <2>3. ASSUME NEW early \in BOOLEAN, NEW more \in BOOLEAN, JobEnds(early, more) PROVE HealInv'
    BY <2>3, JobEndsHeals
  <2> QED
    BY <1>7, <2>1, <2>2, <2>3 DEF JobStep
<1>8. ASSUME NEW torn \in BOOLEAN, Restart(torn) PROVE HealInv'
  <2> DEFINE p == IF torn THEN Empty ELSE file
  <2>1. live' = Fresh(p) /\ io' = Job("login", None, Fresh(p)) /\ search' = None
    BY <1>8 DEF Restart
  <2>2. IsPrefs(p)
    BY EmptyIsPrefs DEF ScopeInv, ShapeInv
  <2> HIDE DEF p
  <2> QED
    BY <2>1, <2>2, StartHeals DEF HealInv
<1>9. CASE UNCHANGED scopeVars
  BY <1>9 DEF scopeVars, HealInv
<1> QED
  BY <1>1, <1>2, <1>3, <1>4, <1>5, <1>6, <1>7, <1>8, <1>9 DEF ScopeNext

\* At rest the preferences name an organization's project, a project's team and
\* a team's iteration, whatever failed before, whatever the file held at the
\* start and whatever was picked meanwhile: each heal step repairs its own
\* choice, and the one after it relies on that.
THEOREM ScopeIsHealed == ScopeSpec => []ScopeHealed
<1>1. HealInv => ScopeHealed
  <2> SUFFICES ASSUME HealInv, io = NoJob, live.signed, Clean(live) PROVE ScopeHealed
    BY DEF ScopeHealed, Clean
  <2> DEFINE p == live.prefs
  <2>1. Place(p) \in DOMAIN Sprints /\ Dated(live)
    BY DEF HealInv, Healthy, Settled
  <2>2. /\ p.project \in Range(ProjectList[p.org])
        /\ p.team \in Range(TeamList[<<p.org, p.project>>])
        /\ None \notin {p.org, p.project, p.team}
    BY <2>1, PlacesListed DEF Place
  <2>3. Where(p) = Place(p) /\ Where(p) # None
    BY <2>1, <2>2, ServerAssumption DEF Where, Place
  <2> QED
    BY <2>1, <2>2, <2>3 DEF ScopeHealed, Dated
<1> QED
  BY <1>1, HealInvInit, HealInvStep, ScopeInvariant, PTL DEF ScopeSpec

===============================================================================
