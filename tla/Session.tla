--------------------------------- MODULE Session ---------------------------------
(***************************************************************************)
(* The stored login: crates/ado-session (provider.rs, persist.rs, oauth.rs, *)
(* shared.rs), over launches of the application, with what state.rs logout  *)
(* does to the query cache (app/cache.rs).                                 *)
(*                                                                         *)
(* The login is in memory, in session.bin under a key, and the key is in   *)
(* the keyring of the system, which may be locked at a launch.  Signing in, *)
(* refreshing and signing out hold one mutex (SharedSession) across their  *)
(* awaits.  The application may be killed between any two steps.           *)
(***************************************************************************)
EXTENDS Integers, FiniteSets

CONSTANTS
  MaxLaunches,  \* bound: launches
  MaxLogins,    \* bound: sign-ins begun
  MaxRefreshes, \* bound: refreshes begun
  MaxMishaps    \* bound: writes that fail, answers that are lost, idle connections

ASSUME SessionAssumption ==
  /\ MaxLaunches \in Nat /\ MaxLogins \in Nat
  /\ MaxRefreshes \in Nat /\ MaxMishaps \in Nat

VARIABLES
  scheme,   \* "pat", or "oauth" when ENTRA_CLIENT_ID is set
  keyring,  \* the key in the keyring, 0 for none
  disk,     \* session.bin: a token under a key, or Gone
  store,    \* the key of the running EncryptedStore, 0 when it only remembers
  mem,      \* memory_pat or memory_oauth: a token, 0 for none
  signed,   \* session_info.signed_in
  doing,    \* what holds the mutex
  refresh,  \* the refresh under way: the token spent and the token it got
  valid,    \* the token whose refresh token the server accepts
  fresh,    \* the token whose access token has not expired, 0 for none
  issued,   \* tokens issued so far
  cache,    \* what the query cache holds: in memory, in its file, in the clones that are out
  want,     \* whether the user signed in or out last
  left,     \* signed out in this launch
  caveats,  \* what the properties make an exception for
  launches, logins, refreshes, mishaps

sessionVars == <<scheme, keyring, disk, store, mem, signed, doing, refresh, valid, fresh,
                 issued, cache, want, left, caveats, launches, logins, refreshes, mishaps>>
local   == <<scheme, keyring, disk, store>>
remote  == <<valid, fresh, issued>>
history == <<want, left, caveats>>
tallies == <<launches, logins, refreshes, mishaps>>

Gone == [key |-> 0, tok |-> 0]
NoRefresh == [spent |-> 0, got |-> 0]

\* Entries of the query cache: loaded since the last sign-out, or before it
Entries == {"own", "former"}
Former(entries) == IF entries = {} THEN {} ELSE {"former"}

\* What a new login has no say in: the caveats about the cache
OfCache == {"killed", "cloned"}

Mishap == mishaps < MaxMishaps /\ mishaps' = mishaps + 1

-----------------------------------------------------------------------------
\* persist_oauth, and the end of login_pat: written whole, or not at all
Persist(tok) == disk' = IF store # 0 THEN [key |-> store, tok |-> tok] ELSE disk

\* load_stored: what the file holds for those who have the key
Decrypted(key) == IF key # 0 /\ disk.key = key THEN disk.tok ELSE 0

\* create_session and bootstrap, after the application ended at any point
Launch(unlocked) ==
  /\ launches < MaxLaunches /\ launches' = launches + 1
  /\ keyring' = IF unlocked /\ keyring = 0 THEN launches' ELSE keyring
  /\ store' = IF unlocked THEN keyring' ELSE 0
  /\ mem' = Decrypted(store')
  /\ signed' = (mem' # 0)
  /\ doing' = "nothing" /\ refresh' = NoRefresh
  /\ LET read == cache.file \cup (IF signed' THEN {"own"} ELSE {})
     IN  cache' = [memory |-> read, file |-> read, worker |-> {}, search |-> {}]
  /\ left' = FALSE
  /\ caveats' = caveats \cup (IF refresh.got # refresh.spent /\ refresh.got # 0 THEN {"lost"} ELSE {})
                        \cup (IF doing = "logout" THEN {"killed"} ELSE {})
  /\ UNCHANGED <<scheme, disk, remote, want, logins, refreshes, mishaps>>

-----------------------------------------------------------------------------
(***************************************************************************)
(* Signing in.                                                             *)
(***************************************************************************)
\* login_pat asks the server for the organization, login_oauth opens the
\* browser and waits for its redirect
LoginBegins ==
  /\ ~signed /\ doing = "nothing"
  /\ logins < MaxLogins /\ logins' = logins + 1
  /\ doing' = "login"
  /\ UNCHANGED <<local, mem, signed, refresh, remote, cache, history, launches, refreshes, mishaps>>

\* The browser opens a connection and sends nothing on it; read has no timeout
LoginStalls ==
  /\ doing = "login" /\ scheme = "oauth" /\ Mishap
  /\ doing' = "stalled"
  /\ UNCHANGED <<local, mem, signed, refresh, remote, cache, history, launches, logins, refreshes>>

\* It closes it
LoginResumes ==
  /\ doing = "stalled" /\ doing' = "login"
  /\ UNCHANGED <<local, mem, signed, refresh, remote, cache, history, tallies>>

\* The login is issued, remembered and written
LoginOk ==
  LET tok == issued + 1
  IN  /\ doing = "login" /\ doing' = "nothing"
      /\ issued' = tok /\ valid' = tok /\ fresh' = tok
      /\ mem' = tok /\ signed' = TRUE
      /\ Persist(tok)
      /\ cache' = [cache EXCEPT !.memory = @ \cup {"own"},  \* load_orgs and the rest
                                !.file = cache.memory \cup {"own"}]
      /\ want' = "in"
      /\ caveats' = (caveats \cap OfCache) \cup (IF left THEN {"again"} ELSE {})
                                          \cup (IF store = 0 THEN {"unstored"} ELSE {})
      /\ UNCHANGED <<scheme, keyring, store, refresh, left, tallies>>

\* It cannot be written: login answers an error, and keeps it in memory
LoginUnwritten ==
  LET tok == issued + 1
  IN  /\ doing = "login" /\ doing' = "nothing" /\ Mishap
      /\ store # 0
      /\ issued' = tok /\ valid' = tok /\ fresh' = tok
      /\ mem' = tok
      /\ caveats' = caveats \cup {"unwritten"}
      /\ UNCHANGED <<local, signed, refresh, cache, want, left, launches, logins, refreshes>>

\* Mutant of LoginFails: the wait for the redirect has no deadline
LoginFailsOnceStored ==
  /\ doing = "login" /\ store = 0 /\ doing' = "nothing"
  /\ UNCHANGED <<local, mem, signed, refresh, remote, cache, history, tallies>>

\* A wrong PAT, a mismatched state, or 120 seconds without a redirect
LoginFails ==
  /\ doing = "login" /\ doing' = "nothing"
  /\ UNCHANGED <<local, mem, signed, refresh, remote, cache, history, tallies>>

-----------------------------------------------------------------------------
(***************************************************************************)
(* ensure_access_token.                                                    *)
(***************************************************************************)
Expires ==
  /\ scheme = "oauth" /\ fresh # 0 /\ fresh' = 0
  /\ UNCHANGED <<local, mem, signed, doing, refresh, valid, issued, cache, history, tallies>>

\* A request needs a token; the mutex is held until the endpoint has answered
RefreshBegins ==
  /\ scheme = "oauth" /\ doing = "nothing"
  /\ mem # 0 /\ mem # fresh
  /\ refreshes < MaxRefreshes /\ refreshes' = refreshes + 1
  /\ doing' = "refresh" /\ refresh' = [spent |-> mem, got |-> 0]
  /\ UNCHANGED <<local, mem, signed, remote, cache, history, launches, logins, mishaps>>

\* The endpoint answers with a new access token, and with a new refresh token
\* that replaces the old one, or without
RefreshServed(rotates) ==
  LET tok == IF rotates THEN issued + 1 ELSE refresh.spent
  IN  /\ doing = "refresh" /\ refresh.got = 0 /\ refresh.spent = valid
      /\ refresh' = [refresh EXCEPT !.got = tok]
      /\ valid' = tok /\ fresh' = tok
      /\ issued' = IF rotates THEN issued + 1 ELSE issued
      /\ UNCHANGED <<local, mem, signed, doing, cache, history, tallies>>

\* Mutant of RefreshOk: the new token is used and not written
RefreshOkUnwritten ==
  /\ doing = "refresh" /\ refresh.got # 0
  /\ doing' = "nothing" /\ refresh' = NoRefresh
  /\ mem' = refresh.got
  /\ UNCHANGED <<local, signed, remote, cache, history, tallies>>

RefreshOk ==
  /\ doing = "refresh" /\ refresh.got # 0
  /\ doing' = "nothing" /\ refresh' = NoRefresh
  /\ mem' = refresh.got
  /\ Persist(refresh.got)
  /\ UNCHANGED <<scheme, keyring, store, signed, remote, cache, history, tallies>>

\* The new token cannot be written: the request fails, memory keeps it
RefreshUnwritten ==
  /\ doing = "refresh" /\ refresh.got # 0 /\ store # 0 /\ Mishap
  /\ doing' = "nothing" /\ refresh' = NoRefresh
  /\ mem' = refresh.got
  /\ caveats' = caveats \cup {"unwritten"}
  /\ UNCHANGED <<local, signed, remote, cache, want, left, launches, logins, refreshes>>

\* Mutant of RefreshFails: the session is dropped
RefreshFailsDropping ==
  /\ doing = "refresh"
  /\ IF refresh.got = 0 /\ refresh.spent # valid THEN mishaps' = mishaps ELSE Mishap
  /\ doing' = "nothing" /\ refresh' = NoRefresh
  /\ mem' = 0
  /\ UNCHANGED <<local, signed, remote, cache, history, launches, logins, refreshes>>

\* Refused, not sent, or answered in vain: the expired token is used
RefreshFails ==
  /\ doing = "refresh"
  /\ IF refresh.got = 0 /\ refresh.spent # valid THEN mishaps' = mishaps ELSE Mishap
  /\ doing' = "nothing" /\ refresh' = NoRefresh
  /\ caveats' = caveats \cup (IF refresh.got \notin {0, refresh.spent} THEN {"lost"} ELSE {})
  /\ UNCHANGED <<local, mem, signed, remote, cache, want, left, launches, logins, refreshes>>

-----------------------------------------------------------------------------
(***************************************************************************)
(* Signing out.                                                            *)
(***************************************************************************)
\* cache.clear: memory is emptied and the file removed; a clone that is out keeps
\* its entries
Cleared == /\ cache' = [cache EXCEPT !.memory = {}, !.file = {}]
           /\ caveats' = (caveats \ OfCache)
                         \cup (IF cache.worker \cup cache.search # {} THEN {"cloned"} ELSE {})

Formerly == cache' = [memory |-> Former(cache.memory), file |-> Former(cache.file),
                      worker |-> Former(cache.worker), search |-> Former(cache.search)]

\* Mutant of LogoutBegins: a refresh does not keep it waiting
LogoutUnlocked ==
  /\ signed /\ doing \in {"nothing", "refresh"}
  /\ mem' = 0 /\ disk' = IF store # 0 THEN Gone ELSE disk
  /\ want' = "out" /\ left' = TRUE
  /\ IF doing = "refresh" THEN Cleared ELSE Formerly /\ caveats' = {}
  /\ doing' = IF doing = "refresh" THEN doing ELSE "logout"
  /\ signed' = (doing # "refresh")
  /\ UNCHANGED <<scheme, keyring, store, refresh, remote, tallies>>

\* logout: memory is emptied and the file unlinked, where there is one
LogoutBegins ==
  /\ signed /\ doing = "nothing"
  /\ mem' = 0 /\ disk' = IF store # 0 THEN Gone ELSE disk
  /\ want' = "out" /\ left' = TRUE
  /\ caveats' = (caveats \cap OfCache) \cup (IF store = 0 /\ disk # Gone THEN {"kept"} ELSE {})
  /\ doing' = "logout"
  /\ Formerly
  /\ UNCHANGED <<scheme, keyring, store, signed, refresh, remote, tallies>>

\* Mutant of LogoutEnds: the cache is emptied in memory only
LogoutEndsKeepingFile(deleted) ==
  /\ doing = "logout" /\ doing' = "nothing"
  /\ keyring' = IF deleted THEN 0 ELSE keyring
  /\ signed' = FALSE
  /\ cache' = [cache EXCEPT !.memory = {}]
  /\ caveats' = (caveats \ OfCache)
                \cup (IF cache.worker \cup cache.search # {} THEN {"cloned"} ELSE {})
  /\ UNCHANGED <<scheme, disk, store, mem, refresh, remote, want, left, tallies>>

\* delete_keyring_key, which a locked keyring refuses, while the store keeps
\* the key it has; then the cache is cleared
LogoutEnds(deleted) ==
  /\ doing = "logout" /\ doing' = "nothing"
  /\ keyring' = IF deleted THEN 0 ELSE keyring
  /\ signed' = FALSE
  /\ Cleared
  /\ UNCHANGED <<scheme, disk, store, mem, refresh, remote, want, left, tallies>>

-----------------------------------------------------------------------------
(***************************************************************************)
(* The query cache, in the clones of the state.                            *)
(***************************************************************************)
\* spawn_one_date_save clones the state, cache included, whatever else runs.
\* Bound: one at a time.
WorkerStarts ==
  /\ signed /\ cache.worker = {} /\ cache.memory # {}
  /\ cache' = [cache EXCEPT !.worker = cache.memory]
  /\ UNCHANGED <<local, mem, signed, doing, refresh, remote, history, tallies>>

\* persist_hierarchy_cache writes the whole file from the clone's memory
WorkerEnds(ok) ==
  /\ cache.worker # {}
  /\ cache' = [cache EXCEPT !.worker = {}, !.file = IF ok THEN cache.worker ELSE @]
  /\ UNCHANGED <<local, mem, signed, doing, refresh, remote, history, tallies>>

\* The Search for an identity clones it too, spawn_unbounded.  Bound: one at a time.
SearchBegins ==
  /\ signed /\ cache.search = {} /\ cache.memory # {}
  /\ cache' = [cache EXCEPT !.search = cache.memory]
  /\ UNCHANGED <<local, mem, signed, doing, refresh, remote, history, tallies>>

\* Its clone is adopted whole, session_info included
SearchReturns ==
  /\ cache.search # {}
  /\ cache' = [cache EXCEPT !.search = {}, !.memory = cache.search]
  /\ signed' = TRUE
  /\ UNCHANGED <<local, mem, doing, refresh, remote, history, tallies>>

-----------------------------------------------------------------------------
\* Before the first launch
SessionInit ==
  /\ scheme \in {"pat", "oauth"}
  /\ keyring = 0 /\ disk = Gone /\ store = 0 /\ mem = 0 /\ signed = FALSE
  /\ doing = "closed" /\ refresh = NoRefresh
  /\ valid = 0 /\ fresh = 0 /\ issued = 0
  /\ cache = [memory |-> {}, file |-> {}, worker |-> {}, search |-> {}]
  /\ want = "nothing" /\ left = FALSE /\ caveats = {}
  /\ launches = 0 /\ logins = 0 /\ refreshes = 0 /\ mishaps = 0

Refreshing == RefreshOk \/ RefreshFails \/ \E rotates \in BOOLEAN : RefreshServed(rotates)

SessionNext ==
  \/ \E b \in BOOLEAN : Launch(b) \/ LogoutEnds(b) \/ WorkerEnds(b)
  \/ LoginBegins \/ LoginStalls \/ LoginResumes \/ LoginOk \/ LoginUnwritten \/ LoginFails
  \/ Expires \/ RefreshBegins \/ Refreshing \/ RefreshUnwritten
  \/ LogoutBegins \/ WorkerStarts \/ SearchBegins \/ SearchReturns

SessionSpec == SessionInit /\ [][SessionNext]_sessionVars

\* Timeouts end a login and a refresh; signing out does not wait for anything
SessionFair ==
  /\ WF_sessionVars(LoginFails)
  /\ WF_sessionVars(Refreshing)
  /\ WF_sessionVars(\E deleted \in BOOLEAN : LogoutEnds(deleted))

-----------------------------------------------------------------------------
(***************************************************************************)
(* Properties.                                                             *)
(***************************************************************************)
\* Every variable keeps its type; nothing is ever stored under no key, and what
\* is shown as signed in can call the server or is just being signed out, unless
\* the clone of a Search was out when the user signed out and has brought it back.
SessionTypeOK ==
  /\ scheme \in {"pat", "oauth"}
  /\ keyring \in Nat /\ store \in Nat
  /\ disk \in [key : Nat, tok : Nat] /\ (disk.key = 0 <=> disk.tok = 0)
  /\ issued \in Nat /\ mem \in 0..issued /\ valid \in 0..issued /\ fresh \in 0..issued
  /\ signed \in BOOLEAN
  /\ doing \in {"closed", "nothing", "login", "stalled", "refresh", "logout"}
  /\ signed /\ doing # "logout" => mem # 0 \/ "cloned" \in caveats
  /\ refresh \in [spent : 0..issued, got : 0..issued]
  /\ cache \in [memory : SUBSET Entries, file : SUBSET Entries,
                worker : SUBSET Entries, search : SUBSET Entries]
  /\ want \in {"nothing", "in", "out"} /\ left \in BOOLEAN
  /\ caveats \subseteq {"again", "unstored", "unwritten", "lost", "kept"} \cup OfCache
  /\ launches \in 0..MaxLaunches /\ logins \in 0..MaxLogins
  /\ refreshes \in 0..MaxRefreshes /\ mishaps \in 0..MaxMishaps

\* Who signed in stays signed in, over launches and refreshes, and with the
\* refresh token the server accepts.  Excused are a launch with a locked
\* keyring, a login made without one or after a sign-out of the same launch,
\* and a new token that was not written or lost on its way.
StaysSignedIn ==
  want = "in" /\ store # 0 /\ doing = "nothing" /\ caveats \subseteq OfCache =>
    signed /\ mem = valid

\* Who signed out stays signed out, over launches and whatever was under way.
\* Excused are a file left by an earlier launch, when the keyring was locked at
\* the launch that signed out, and a new login that could not be written.
StaysSignedOut == want = "out" /\ caveats \cap {"kept", "unwritten"} = {} => mem = 0

\* What was loaded before a sign-out is never in the query cache again, in memory
\* or in its file, over later sign-ins and launches, so that the next account is
\* not shown it.  Excused, until the next sign-out, are a sign-out that the end of
\* the application broke off before the cache was cleared, and one at whose end a
\* date save or a Search was under way, whose clone puts the entries back.
CacheForgets ==
  doing # "logout" /\ caveats \cap OfCache = {} => "former" \notin cache.memory \cup cache.file

\* No request waits for the session's mutex for ever, but for a connection of
\* the browser on which nothing is sent.
MutexIsFreed ==
  doing \in {"login", "refresh", "logout"} ~> doing \in {"closed", "nothing", "stalled"}

=============================================================================
