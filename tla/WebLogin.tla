------------------------------ MODULE WebLogin ------------------------------
(***************************************************************************)
(* Sessions of the web front end: kept in memory and in web_sessions.bin,  *)
(* over restarts of the program and of its web server.  Connections that   *)
(* were open when the server was restarted still use its old store, and    *)
(* write it over the file of the new one; at most one such old store is    *)
(* modelled at a time.                                                     *)
(***************************************************************************)
EXTENDS Naturals, FiniteSets, Functions

CONSTANTS Tokens, max_age, SAVE_DEBOUNCE,
          MaxTime, MaxSteps, MaxFaults  \* bounds; a fault is a write that fails or a crash in it

LoginAssumption ==
  /\ max_age \in Nat \ {0} /\ SAVE_DEBOUNCE \in Nat
  /\ MaxTime \in Nat \ {0} /\ MaxSteps \in Nat /\ MaxFaults \in Nat

Stores == {"current", "old"}

VARIABLES now, sessions,      \* store -> token -> last_used
          dirty, lastSaved,   \* of each store
          file,               \* token -> last_used
          created, used,      \* when each token was issued and last accepted (0: never)
          out,                \* tokens logged out
          stale,              \* where the file is no copy of the table: the old store was written
          harmed,             \* logins made, ended, lost or brought back through the old store
          steps, faults
vars == <<now, sessions, dirty, lastSaved, file, created, used, out, stale, harmed, steps, faults>>

Empty == [t \in {} |-> 0]
IsStore(m) == DOMAIN m \subseteq Tokens /\ \A t \in DOMAIN m : m[t] \in 1..MaxTime
TypeOK ==
  /\ now \in 1..MaxTime /\ steps \in 0..MaxSteps /\ faults \in 0..MaxFaults
  /\ DOMAIN sessions \in {{"current"}, Stores}
  /\ IsStore(file) /\ \A s \in DOMAIN sessions : IsStore(sessions[s])
  /\ dirty \in [Stores -> BOOLEAN] /\ lastSaved \in [Stores -> 1..MaxTime]
  /\ created \in [Tokens -> 0..MaxTime] /\ used \in [Tokens -> 0..MaxTime] 
  /\ out \subseteq Tokens /\ stale \subseteq Tokens /\ harmed \subseteq Tokens
  /\ \A t \in Tokens : created[t] <= used[t]

Init ==
  /\ now = 1 /\ steps = 0 /\ faults = 0 /\ file = Empty /\ out = {}
  /\ stale = {} /\ harmed = {}
  /\ sessions = [current |-> Empty] /\ dirty = [s \in Stores |-> FALSE]
  /\ lastSaved = [s \in Stores |-> 1]
  /\ created = [t \in Tokens |-> 0] /\ used = [t \in Tokens |-> 0]

Step == steps < MaxSteps /\ steps' = steps + 1
Fresh(lastUsed) == lastUsed + max_age > now
With(m, t) == [x \in DOMAIN m \cup {t} |-> IF x = t THEN now ELSE m[x]]

(* flush_if_needed of store s, which then holds m.                                                 *)
Entry(m, t) == IF t \in DOMAIN m THEN m[t] ELSE 0
Differ(m, n) == {t \in Tokens : Entry(m, t) # Entry(n, t)}
Written(s, m) ==
  /\ stale' = IF s = "current" THEN {} ELSE Differ(m, sessions["current"])
  /\ file' = m /\ dirty' = [dirty EXCEPT ![s] = FALSE]
  /\ lastSaved' = [lastSaved EXCEPT ![s] = now] /\ UNCHANGED faults
WriteFails(s) ==
  /\ faults < MaxFaults /\ faults' = faults + 1
  /\ dirty' = [dirty EXCEPT ![s] = TRUE] /\ UNCHANGED <<file, lastSaved, stale>>
Flush(s, m, force) ==
  IF force \/ now - lastSaved[s] >= SAVE_DEBOUNCE THEN Written(s, m) \/ WriteFails(s)
  ELSE dirty' = [dirty EXCEPT ![s] = TRUE] /\ UNCHANGED <<file, lastSaved, stale, faults>>
Becomes(s, m, force) == sessions' = [sessions EXCEPT ![s] = m] /\ Flush(s, m, force)

Create(s, t) == Becomes(s, With(sessions[s], t), TRUE)
Issue(s, t) == Create(s, t)
LoginHandler(s, t) ==
  /\ Step /\ created[t] = 0 /\ Issue(s, t)
  /\ created' = [created EXCEPT ![t] = now] /\ used' = [used EXCEPT ![t] = now]
  /\ harmed' = harmed \cup (IF s = "old" THEN {t} ELSE {}) /\ UNCHANGED <<now, out>>

(* A page opens its web socket with the cookie.                                                    *)
Accepted(s, t) ==
  IF Fresh(sessions[s][t])
  THEN Becomes(s, With(sessions[s], t), FALSE) /\ used' = [used EXCEPT ![t] = now]
  ELSE Becomes(s, Restrict(sessions[s], DOMAIN sessions[s] \ {t}), FALSE) /\ UNCHANGED used
Validate(s, t) ==
  /\ Step /\ t \in DOMAIN sessions[s] /\ t \notin out /\ Accepted(s, t)
  /\ UNCHANGED <<now, created, out, harmed>>

Revoke(s, t) == Becomes(s, Restrict(sessions[s], DOMAIN sessions[s] \ {t}), TRUE)
(* Mutant of Revoked: the file is left for the next save. *)
RevokeLazily(s, t) == Becomes(s, Restrict(sessions[s], DOMAIN sessions[s] \ {t}), FALSE)
Revoked(s, t) == Revoke(s, t)
LogoutHandler(s, t) ==
  /\ Step /\ created[t] # 0 /\ out' = out \cup {t}
  /\ IF t \in DOMAIN sessions[s] THEN Revoked(s, t)
     ELSE UNCHANGED <<sessions, file, dirty, lastSaved, stale, faults>>
  /\ harmed' = IF s = "old" THEN harmed \cup {t} ELSE harmed \ {t}
  /\ UNCHANGED <<now, created, used>>

(* A second passes, or a day; the expired are removed.                                             *)
Live(m) == Restrict(m, {t \in DOMAIN m : Fresh(m[t])})
Tick ==
  /\ now < MaxTime /\ now' = now + 1
  /\ UNCHANGED <<sessions, dirty, lastSaved, file, created, used, out, stale, harmed, steps, faults>>
PurgeExpired ==
  /\ Live(sessions["current"]) # sessions["current"]
  /\ Becomes("current", Live(sessions["current"]), TRUE)
  /\ UNCHANGED <<now, created, used, out, harmed, steps>>

(* The new store is the file; the one it replaces, if it stays in use, is the old one.             *)
Loaded ==
  /\ dirty' = [current |-> FALSE, old |-> "old" \in DOMAIN sessions' /\ dirty["current"]]
  /\ lastSaved' = [current |-> now, old |-> lastSaved["current"]]
  /\ stale' = {}
  /\ harmed' = harmed \cup {t \in stale : (t \in DOMAIN sessions'["current"])
                                           # (t \in DOMAIN sessions["current"])}
RestartServer ==
  /\ Step /\ UNCHANGED <<now, file, created, used, out, faults>>
  /\ sessions' = [current |-> Live(file), old |-> sessions["current"]] /\ Loaded
RestartProgram ==
  /\ Step
  /\ \/ UNCHANGED <<file, faults>>
     \/ faults < MaxFaults /\ faults' = faults + 1 /\ file' = Empty
  /\ sessions' = [current |-> Live(file')] /\ Loaded
  /\ UNCHANGED <<now, created, used, out>>

Next ==
  \/ \E s \in DOMAIN sessions, t \in Tokens : LoginHandler(s, t) \/ Validate(s, t) \/ LogoutHandler(s, t)
  \/ Tick \/ PurgeExpired \/ RestartServer \/ RestartProgram
Spec == Init /\ [][Next]_vars
-----------------------------------------------------------------------------
(* Who logged in is let in for max_age, over any restart, as long as the file could be written;    *)
(* but not who logged in over a connection to the old server, nor who was missing in what such a   *)
(* connection last wrote before a restart.                                                         *)
LoginsSurvive ==
  \A t \in Tokens \ harmed : (created[t] # 0 /\ t \notin out /\ Fresh(created[t]) /\ faults = 0)
    => t \in DOMAIN sessions["current"]

(* Who logged out stays out, over any restart, as long as the file could be written; but not who   *)
(* logged out over a connection to the old server, nor who was still in what such a connection     *)
(* last wrote before a restart.                                                                    *)
LoggedOutStaysOut == faults = 0 => \A t \in out \ harmed : t \notin DOMAIN sessions["current"]

(* A store that holds itself saved is: of what it has, restarting loses nothing, except where the  *)
(* old store was written over it.                                                                  *)
CleanMeansSaved ==
  LET m == sessions["current"] IN
  ~dirty["current"] => \A t \in DOMAIN m \ stale : t \in DOMAIN file /\ file[t] = m[t]

(* The code does not give these: a connection to the old server writes its store over the file, so *)
(* a restart loses a login of the new one, or brings back who logged out there.                    *)
LoginsSurviveOldServers ==
  \A t \in Tokens : (created[t] # 0 /\ t \notin out /\ Fresh(created[t]) /\ faults = 0)
    => t \in DOMAIN sessions["current"]
LogoutsSurviveOldServers == faults = 0 => \A t \in out : t \notin DOMAIN sessions["current"]

(* The code does not give this: a use is saved only if nothing was saved in the minute before, so  *)
(* one page's use may stay unsaved for the sake of another's.                                      *)
UsesSurvive ==
  \A t \in Tokens : (used[t] # 0 /\ t \notin out /\ Fresh(used[t]))
    => t \in DOMAIN sessions["current"]
=============================================================================
