--------------------------- MODULE ServicesProofs ----------------------------
(***************************************************************************)
(* Proofs about the parts of MCServices, for every value of the constants  *)
(* of that module: the keyring file, the logins of the web front end, the  *)
(* netsplit tracker, the limits on key requests, flood protection, the     *)
(* configuration, the server form, the scripts and the thumbnails.         *)
(***************************************************************************)
EXTENDS MCServices, TLAPS, FiniteSetTheorems, SequenceTheorems, WellFoundedInduction

-----------------------------------------------------------------------------
(* The keyring file (KeyringFile).                                         *)

Documents == [ring : K!Rings, whole : BOOLEAN, distinct : BOOLEAN]
Exported(r) == K!Document(K!BuildPortable(r), TRUE, TRUE)

FileTypes ==
  /\ ring \in K!Rings /\ memory \in {Mine, Other, K!NoIdentity}
  /\ file_file \in Documents /\ temp \in Documents
  /\ file_saved \in K!Rings /\ restored \in K!Rings
  /\ reads \in [FilePeers -> 0..FileMaxKey] /\ asked \subseteq FilePeers
  /\ file_steps \in 0..FileMaxSteps
(* Whatever is in a file, or on its way there, can be imported.            *)
Importable(d) == d # K!NoFile => d.whole /\ d.ring.identity # K!NoIdentity
(* The temporary file is the keyring, which no step changes meanwhile.     *)
TempIsTheRing == temp # K!NoFile => temp = Exported(ring)
(* Until another file takes its place the file is the last export.         *)
FileIsTheExport == file_saved # K!NoRing => file_file = Exported(file_saved)
FileInv ==
  /\ FileTypes /\ K!IdentityIsThere
  /\ Importable(file_file) /\ Importable(temp)
  /\ TempIsTheRing /\ FileIsTheExport /\ K!RestoreIsExact

(* What was written by build_portable passes validate unchanged.           *)
LEMMA RoundTrip ==
  ASSUME NEW r \in K!Rings
  PROVE  K!Validate(r) = r
<1>1. /\ r.peers = [p \in FilePeers |-> r.peers[p]]
      /\ r.sessions = [p \in FilePeers |-> r.sessions[p]]
      /\ DOMAIN r = {"identity", "peers", "sessions", "key", "rotate", "recipients", "mode"}
      /\ r = [x \in DOMAIN r |-> r[x]]
  BY DEF K!Rings
<1> QED
  BY <1>1 DEF K!Validate, K!Parsed, K!ParseTrustStatus, K!Rings

LEMMA PortableIsARing ==
  ASSUME NEW r \in K!Rings
  PROVE  /\ K!BuildPortable(r) \in K!Rings
         /\ K!BuildPortable(r).identity = r.identity
         /\ Exported(r) \in Documents /\ Exported(r).whole
         /\ Exported(r).ring = K!BuildPortable(r)
BY DEF K!BuildPortable, K!Rings, Exported, K!Document, Documents

LEMMA NoRingIsARing == K!NoRing \in K!Rings /\ K!NoFile \in Documents /\ ~K!NoFile.whole
BY FileAssumption
   DEF K!NoRing, K!Rings, K!NoFile, K!Document, Documents, K!KeyringFileAssumption,
       K!Statuses, K!Modes

LEMMA FileInit == K!Init => FileInv
<1> SUFFICES ASSUME K!Init PROVE FileInv
  OBVIOUS
<1>1. ring \in K!Rings /\ ring.identity = Mine
  BY NoRingIsARing DEF K!Init, K!Rings, K!NoRing
<1>2. FileTypes
  BY <1>1, NoRingIsARing, FileAssumption DEF K!Init, FileTypes, K!KeyringFileAssumption
<1> QED
  BY <1>1, <1>2, FileAssumption
     DEF K!Init, FileInv, K!IdentityIsThere, Importable, TempIsTheRing, FileIsTheExport,
         K!RestoreIsExact, K!KeyringFileAssumption

(* A step that changes only the tables, between two exports, and keeps the *)
(* identity.                                                               *)
LEMMA RingChanges ==
  ASSUME FileInv, K!Step, K!Idle, UNCHANGED <<memory, K!Files>>,
         ring' \in K!Rings, ring'.identity = ring.identity,
         reads' \in [FilePeers -> 0..FileMaxKey], asked' \subseteq FilePeers
  PROVE  FileInv'
<1>1. FileTypes'
  BY FileAssumption DEF FileInv, FileTypes, K!Files, K!Step, K!KeyringFileAssumption
<1> QED
  BY <1>1
     DEF FileInv, K!IdentityIsThere, Importable, TempIsTheRing, FileIsTheExport, K!Files,
         K!RestoreIsExact, K!Idle

LEMMA FileStep == FileInv /\ [K!Next]_(K!vars) => FileInv'
<1> SUFFICES ASSUME FileInv, [K!Next]_(K!vars) PROVE FileInv'
  OBVIOUS
<1>0. /\ ring \in K!Rings /\ FileTypes
      /\ FileMaxKey \in Nat \ {0} /\ FileMaxSteps \in Nat
  BY FileAssumption DEF FileInv, FileTypes, K!KeyringFileAssumption
<1>1. ASSUME NEW p \in FilePeers, K!HandleKeyreq(p) PROVE FileInv'
  <2>1. K!GetOrGenerateOutgoingKey \in 0..FileMaxKey
    BY <1>0, <1>1 DEF K!HandleKeyreq, K!GetOrGenerateOutgoingKey, K!Rings
  <2>2. ring' \in K!Rings /\ ring'.identity = ring.identity
    BY <1>0, <1>1, <2>1 DEF K!HandleKeyreq, K!Rings
  <2>3. reads' \in [FilePeers -> 0..FileMaxKey] /\ asked' \subseteq FilePeers
    BY <1>0, <1>1, <2>1 DEF K!HandleKeyreq, FileTypes
  <2> QED
    BY <1>1, <2>2, <2>3, RingChanges DEF K!HandleKeyreq
<1>2. ASSUME NEW p \in FilePeers, NEW s \in K!Statuses, K!Learn(p, s) PROVE FileInv'
  <2>1. ring' \in K!Rings /\ ring'.identity = ring.identity
    BY <1>0, <1>2 DEF K!Learn, K!Rings
  <2>2. reads' \in [FilePeers -> 0..FileMaxKey] /\ asked' \subseteq FilePeers
    BY <1>0, <1>2 DEF K!Learn, FileTypes
  <2> QED
    BY <1>2, <2>1, <2>2, RingChanges DEF K!Learn
<1>3. ASSUME NEW m \in K!Modes, K!SetMode(m) PROVE FileInv'
  <2>1. ring' \in K!Rings /\ ring'.identity = ring.identity
    BY <1>0, <1>3 DEF K!SetMode, K!Rings
  <2> QED
    BY <1>0, <1>3, <2>1, RingChanges DEF K!SetMode, FileTypes
<1>4. ASSUME K!SendLine PROVE FileInv'
  <2>1. K!GetOrGenerateOutgoingKey \in 0..FileMaxKey
    BY <1>0, <1>4 DEF K!SendLine, K!GetOrGenerateOutgoingKey, K!Rings
  <2>2. ring' \in K!Rings /\ ring'.identity = ring.identity
    BY <1>0, <1>4, <2>1 DEF K!SendLine, K!Rings
  <2>3. reads' \in [FilePeers -> 0..FileMaxKey] /\ asked' \subseteq FilePeers
    BY <1>0, <1>4, <2>1 DEF K!SendLine, FileTypes
  <2> QED
    BY <1>4, <2>2, <2>3, RingChanges DEF K!SendLine
<1>5. ASSUME K!ExportBegins PROVE FileInv'
  <2>1. temp' = Exported(ring) /\ file_file' = file_file /\ ring' = ring
    BY <1>5 DEF K!ExportBegins, Exported, K!Target, K!Opened
  <2>2. FileTypes'
    <3>1. temp' \in Documents
      BY <1>0, <2>1, PortableIsARing
    <3>2. file_steps' \in 0..FileMaxSteps
      BY <1>0, <1>5 DEF K!ExportBegins, FileTypes, K!Step
    <3> QED
      BY <1>0, <1>5, <2>1, <3>1, <3>2 DEF K!ExportBegins, FileTypes
  <2>3. Importable(temp)'
    BY <1>0, <2>1, PortableIsARing DEF Importable, FileInv, K!IdentityIsThere
  <2> QED
    BY <1>5, <2>1, <2>2, <2>3
       DEF K!ExportBegins, FileInv, K!IdentityIsThere, Importable, TempIsTheRing,
           FileIsTheExport, K!RestoreIsExact
<1>6. ASSUME K!ExportEnds PROVE FileInv'
  <2>1. FileTypes'
    BY <1>0, <1>6, NoRingIsARing DEF K!ExportEnds, FileTypes
  <2> QED
    BY <1>6, <2>1
       DEF K!ExportEnds, FileInv, K!IdentityIsThere, Importable, TempIsTheRing,
           FileIsTheExport, K!RestoreIsExact, K!Idle
<1>7. ASSUME K!ExportFails PROVE FileInv'
  <2>1. FileTypes'
    BY <1>0, <1>7, NoRingIsARing DEF K!ExportFails, FileTypes
  <2> QED
    BY <1>7, <2>1
       DEF K!ExportFails, FileInv, K!IdentityIsThere, Importable, TempIsTheRing,
           FileIsTheExport, K!RestoreIsExact
<1>8. ASSUME NEW d \in BOOLEAN, K!OtherFile(d) PROVE FileInv'
  <2> DEFINE other == [K!NoRing EXCEPT !.identity = Other, !.key = 1]
  <2>1. /\ file_file' \in Documents /\ file_file'.whole
        /\ file_file'.ring.identity # K!NoIdentity
    <3>1. other \in K!Rings /\ other.identity = Other
      <4> DEFINE theirs == [K!NoRing EXCEPT !.identity = Other]
      <4>1. theirs \in K!Rings /\ theirs.identity = Other
        BY NoRingIsARing DEF K!Rings
      <4>2. 1 \in 0..FileMaxKey /\ other = [theirs EXCEPT !.key = 1]
        BY <1>0, NoRingIsARing DEF K!Rings
      <4> HIDE DEF theirs
      <4>3. [theirs EXCEPT !.key = 1] \in K!Rings /\ [theirs EXCEPT !.key = 1].identity = Other
        BY <4>1, <4>2 DEF K!Rings
      <4> QED
        BY <4>2, <4>3
    <3>2. file_file' = K!Document(other, TRUE, d)
      BY <1>8 DEF K!OtherFile
    <3> HIDE DEF other
    <3> QED
      BY <3>1, <3>2, FileAssumption DEF K!Document, Documents, K!KeyringFileAssumption
  <2>2. FileTypes'
    <3>1. file_steps' \in 0..FileMaxSteps
      BY <1>0, <1>8 DEF K!OtherFile, FileTypes, K!Step
    <3> QED
      BY <1>0, <1>8, <2>1, <3>1, NoRingIsARing DEF K!OtherFile, FileTypes
  <2> QED
    BY <1>8, <2>1, <2>2
       DEF K!OtherFile, FileInv, K!IdentityIsThere, Importable, TempIsTheRing,
           FileIsTheExport, K!RestoreIsExact
<1>9. ASSUME K!ImportFromPath PROVE FileInv'
  <2>1. file_file.ring \in K!Rings /\ file_file.ring.identity # K!NoIdentity
    BY <1>0, <1>9, NoRingIsARing DEF K!ImportFromPath, FileInv, FileTypes, Importable, Documents
  <2>2. ring' = IF file_file.distinct THEN file_file.ring ELSE ring
    BY <1>9, <2>1, RoundTrip
       DEF K!ImportFromPath, K!Replacement, K!ReplaceAll, K!AfterFailure, K!RolledBack
  <2>3. FileTypes'
    BY <1>0, <1>9, <2>1, <2>2 DEF K!ImportFromPath, FileTypes, K!Step
  <2>4. K!RestoreIsExact'
    <3>1. CASE file_file.distinct /\ file_saved # K!NoRing
      <4>1. file_file.ring = K!BuildPortable(file_saved)
        BY <1>0, <3>1, PortableIsARing DEF FileInv, FileIsTheExport, FileTypes
      <4> QED
        BY <1>9, <2>2, <3>1, <4>1 DEF K!ImportFromPath, K!RestoreIsExact
    <3>2. CASE ~(file_file.distinct /\ file_saved # K!NoRing)
      BY <1>9, <3>2 DEF K!ImportFromPath, K!RestoreIsExact, FileInv
    <3> QED
      BY <3>1, <3>2
  <2> QED
    BY <1>9, <2>1, <2>2, <2>3, <2>4
       DEF K!ImportFromPath, FileInv, K!IdentityIsThere, Importable, TempIsTheRing, K!Idle,
           FileIsTheExport
<1>10. ASSUME K!Restart PROVE FileInv'
  <2>1. FileTypes'
    BY <1>0, <1>10, NoRingIsARing DEF K!Restart, FileTypes, K!Step, K!Rings
  <2> QED
    BY <1>10, <2>1
       DEF K!Restart, FileInv, K!IdentityIsThere, Importable, TempIsTheRing,
           FileIsTheExport, K!RestoreIsExact
<1>11. ASSUME UNCHANGED K!vars PROVE FileInv'
  BY <1>11
     DEF K!vars, FileInv, FileTypes, K!IdentityIsThere, Importable, TempIsTheRing,
         FileIsTheExport, K!RestoreIsExact
<1> QED
  BY <1>1, <1>2, <1>3, <1>4, <1>5, <1>6, <1>7, <1>8, <1>9, <1>10, <1>11 DEF K!Next

(* /e2e export and import (KeyringFilesAreWhole): through failures in the  *)
(* middle of either and restarts the keyring has an identity, the file is  *)
(* never a part of a document, and what was exported comes back as it was, *)
(* for any set of peers and any number of keys and steps.                  *)
THEOREM KeyringFiles == MCSpec => []KeyringFilesAreWhole
<1> DEFINE Inv == part = "file" => FileInv
<1>1. MCInit => Inv
  BY FileInit DEF MCInit
<1>2. Inv /\ [MCNext]_mcVars => Inv'
  <2> SUFFICES ASSUME part = "file" => FileInv, [MCNext]_mcVars, part' = "file" PROVE FileInv'
    OBVIOUS
  <2>1. part = "file" /\ [K!Next]_(K!vars)
    BY DEF MCNext, mcVars, fileVars, K!vars, LimitsOnly, FloodOnly, SplitsOnly, FileOnly,
           ConfigOnly, ScriptsOnly, StateOnly, WizardOnly, ThumbsOnly, LoginOnly
  <2> QED
    BY <2>1, FileStep
<1>3. Inv => KeyringFilesAreWhole
  BY DEF FileInv, FileTypes, Documents, Importable, KeyringFilesAreWhole, K!TypeOK,
         IdentityIsThere, FileIsWhole, RestoreIsExact, K!FileIsWhole
<1> QED
  BY <1>1, <1>2, <1>3, PTL DEF MCSpec

-----------------------------------------------------------------------------
(* The logins of the web front end (WebLogin).                             *)

Held == sessions["current"]
(* A table of tokens that were issued, and used since, by the time n.      *)
Table(m, issued, n) ==
  L!IsStore(m) /\ \A t \in DOMAIN m : issued[t] # 0 /\ issued[t] <= m[t] /\ m[t] <= n
LoginTypes ==
  /\ L!TypeOK
  /\ \A s \in DOMAIN sessions : Table(sessions[s], created, login_now)
  /\ Table(login_file, created, login_now)
  /\ \A t \in LoginTokens : created[t] <= login_now
  /\ \A t \in out : created[t] # 0
(* The file is behind the table, except where the old store was written    *)
(* over it: what it has and the table has not is of no use to anybody.     *)
FileIsBehind ==
  \A t \in DOMAIN login_file \ stale :
    IF t \in DOMAIN Held THEN login_file[t] <= Held[t] ELSE ~L!Fresh(login_file[t])
(* Who should be let in is in the table and in the file.                   *)
Entitled(t) == created[t] # 0 /\ t \notin out /\ L!Fresh(created[t])
EntitledAreRecorded ==
  \A t \in LoginTokens \ harmed :
    Entitled(t) => t \in DOMAIN Held /\ (t \in stale \/ t \in DOMAIN login_file)
LoggedOutAreGone == \A t \in out \ harmed : t \notin DOMAIN Held
LoginInv ==
  /\ LoginTypes /\ L!CleanMeansSaved
  /\ login_faults = 0 => FileIsBehind /\ EntitledAreRecorded /\ LoggedOutAreGone

LEMMA LoginInit == L!Init => LoginInv
<1> SUFFICES ASSUME L!Init PROVE LoginInv
  OBVIOUS
<1>1. /\ Held = L!Empty /\ DOMAIN L!Empty = {} /\ DOMAIN sessions = {"current"}
      /\ login_file = L!Empty
  BY DEF L!Init, L!Empty, Held
<1>2. L!IsStore(L!Empty) /\ \A c, n : Table(L!Empty, c, n)
  BY <1>1 DEF L!IsStore, Table
<1>3. LoginTypes
  <2>1. L!TypeOK
    BY <1>1, <1>2, LoginsAssumption DEF L!Init, L!TypeOK, L!Stores, L!LoginAssumption, Held
  <2> QED
    BY <1>1, <1>2, <2>1, LoginsAssumption DEF L!Init, LoginTypes, L!LoginAssumption, Held
<1> QED
  BY <1>1, <1>3
     DEF LoginInv, L!Init, L!CleanMeansSaved, FileIsBehind, EntitledAreRecorded, Entitled,
         LoggedOutAreGone, Held

LEMMA RestrictedTable ==
  ASSUME NEW m, NEW c, NEW n, Table(m, c, n), NEW kept, kept \subseteq DOMAIN m
  PROVE  /\ Table(L!Restrict(m, kept), c, n) /\ DOMAIN L!Restrict(m, kept) = kept
         /\ \A t \in kept : L!Restrict(m, kept)[t] = m[t]
BY DEF Table, L!IsStore, L!Restrict

LEMMA LiveTable ==
  ASSUME NEW m, NEW c, NEW n, Table(m, c, n)
  PROVE  /\ Table(L!Live(m), c, n) /\ DOMAIN L!Live(m) = {t \in DOMAIN m : L!Fresh(m[t])}
         /\ \A t \in DOMAIN L!Live(m) : L!Live(m)[t] = m[t]
BY RestrictedTable DEF L!Live

(* A token is used.                                                        *)
LEMMA WithTable ==
  ASSUME NEW m, NEW c, Table(m, c, login_now), NEW t \in LoginTokens,
         login_now \in 1..LoginMaxTime, c[t] \in 1..login_now
  PROVE  /\ Table(L!With(m, t), c, login_now) /\ DOMAIN L!With(m, t) = DOMAIN m \cup {t}
         /\ \A x \in DOMAIN L!With(m, t) : L!With(m, t)[x] = IF x = t THEN login_now ELSE m[x]
BY LoginsAssumption DEF Table, L!IsStore, L!With, L!LoginAssumption

(* A step that gives a store another table, saved or not.                  *)
LEMMA Stores ==
  ASSUME LoginTypes, NEW s \in DOMAIN sessions, NEW m, NEW force \in BOOLEAN,
         L!Becomes(s, m, force), login_now' = login_now
  PROVE  /\ sessions'[s] = m /\ DOMAIN sessions' = DOMAIN sessions
         /\ \A r \in DOMAIN sessions \ {s} : sessions'[r] = sessions[r]
         /\ login_dirty' \in [L!Stores -> BOOLEAN]
         /\ \A r \in L!Stores \ {s} : login_dirty'[r] = login_dirty[r]
         /\ lastSaved' \in [L!Stores -> 1..LoginMaxTime]
         /\ login_faults' \in 0..LoginMaxFaults
         /\ login_faults' = 0 => login_faults = 0
         /\ stale' \subseteq LoginTokens
         /\ \/ /\ login_file' = m
               /\ stale' = IF s = "current" THEN {} ELSE L!Differ(m, Held)
            \/ /\ login_file' = login_file /\ stale' = stale /\ login_dirty'[s]
               /\ ~(login_faults' = 0 /\ force)
<1>1. /\ s \in L!Stores /\ sessions' = [sessions EXCEPT ![s] = m]
      /\ stale \subseteq LoginTokens
  BY DEF L!Becomes, LoginTypes, L!TypeOK, L!Stores
<1>2. /\ login_dirty \in [L!Stores -> BOOLEAN] /\ lastSaved \in [L!Stores -> 1..LoginMaxTime]
      /\ login_faults \in 0..LoginMaxFaults /\ login_now \in 1..LoginMaxTime
      /\ LoginMaxFaults \in Nat
  BY LoginsAssumption DEF LoginTypes, L!TypeOK, L!LoginAssumption
<1>3. CASE L!Written(s, m)
  <2>1. L!Differ(m, Held) \subseteq LoginTokens
    BY DEF L!Differ
  <2> QED
    BY <1>1, <1>2, <1>3, <2>1 DEF L!Written, Held
<1>4. CASE L!WriteFails(s)
  BY <1>1, <1>2, <1>4 DEF L!WriteFails
<1>5. CASE /\ ~force /\ login_dirty' = [login_dirty EXCEPT ![s] = TRUE]
           /\ UNCHANGED <<login_file, lastSaved, stale, login_faults>>
  BY <1>1, <1>2, <1>5
<1>6. L!Flush(s, m, force)
  BY DEF L!Becomes
<1> QED
  BY <1>3, <1>4, <1>5, <1>6 DEF L!Flush

(* What else such a step may change.                                       *)
Others ==
  /\ login_now' = login_now /\ login_steps' \in 0..LoginMaxSteps
  /\ created' \in [LoginTokens -> 0..LoginMaxTime]
  /\ used' \in [LoginTokens -> 0..LoginMaxTime]
  /\ \A t \in LoginTokens : created'[t] <= used'[t] /\ created'[t] <= login_now
  /\ \A t \in LoginTokens : created[t] # 0 => created'[t] = created[t]
  /\ out' \subseteq LoginTokens /\ harmed' \subseteq LoginTokens
  /\ \A t \in out' : created'[t] # 0

LEMMA StoresTypes ==
  ASSUME LoginTypes, NEW s \in DOMAIN sessions, NEW m, NEW force \in BOOLEAN,
         L!Becomes(s, m, force), Others, Table(m, created', login_now)
  PROVE  LoginTypes'
<1>1. /\ sessions'[s] = m /\ DOMAIN sessions' = DOMAIN sessions
      /\ \A r \in DOMAIN sessions \ {s} : sessions'[r] = sessions[r]
      /\ login_dirty' \in [L!Stores -> BOOLEAN] /\ lastSaved' \in [L!Stores -> 1..LoginMaxTime]
      /\ login_faults' \in 0..LoginMaxFaults /\ stale' \subseteq LoginTokens
      /\ login_file' = m \/ login_file' = login_file
  BY Stores DEF Others
<1>2. ASSUME NEW x, Table(x, created, login_now) PROVE Table(x, created', login_now')
  BY <1>2 DEF Table, Others, L!IsStore
<1>3. \A r \in DOMAIN sessions' : Table(sessions'[r], created', login_now')
  BY <1>1, <1>2 DEF LoginTypes, Others
<1>4. Table(login_file', created', login_now')
  BY <1>1, <1>2 DEF LoginTypes, Others
<1>5. L!TypeOK'
  <2>1. /\ L!IsStore(login_file') /\ \A r \in DOMAIN sessions' : L!IsStore(sessions'[r])
        /\ DOMAIN sessions' \in {{"current"}, L!Stores} /\ login_now' \in 1..LoginMaxTime
    BY <1>1, <1>3, <1>4 DEF Table, LoginTypes, L!TypeOK, Others
  <2> QED
    BY <1>1, <2>1 DEF L!TypeOK, Others, L!IsStore, L!Stores
<1>6. /\ \A t \in LoginTokens : created'[t] <= login_now'
      /\ \A t \in out' : created'[t] # 0
  BY DEF Others
<1> QED
  BY <1>3, <1>4, <1>5, <1>6 DEF LoginTypes

(* A store of numbers that are not 0 agrees with another where they do not *)
(* differ.                                                                 *)
LEMMA Agreeing ==
  ASSUME NEW m, L!IsStore(m), NEW n, L!IsStore(n), NEW t \in LoginTokens \ L!Differ(m, n)
  PROVE  /\ t \in DOMAIN m <=> t \in DOMAIN n
         /\ t \in DOMAIN m => m[t] = n[t]
<1>1. \A x \in DOMAIN m : m[x] # 0
  BY DEF L!IsStore
<1>2. \A x \in DOMAIN n : n[x] # 0
  BY DEF L!IsStore
<1>3. L!Entry(m, t) = L!Entry(n, t)
  BY DEF L!Differ
<1> QED
  BY <1>1, <1>2, <1>3 DEF L!Entry

LEMMA CleanKeeps ==
  ASSUME LoginTypes, L!CleanMeansSaved, NEW s \in DOMAIN sessions, NEW m, NEW force \in BOOLEAN,
         L!IsStore(m), L!Becomes(s, m, force), login_now' = login_now
  PROVE  L!CleanMeansSaved'
<1>1. "current" \in DOMAIN sessions /\ "current" \in L!Stores
  BY DEF LoginTypes, L!TypeOK, L!Stores
<1>2. CASE s = "current"
  BY <1>1, <1>2, Stores DEF L!CleanMeansSaved
<1>3. CASE s # "current"
  <2>1. Held' = Held /\ login_dirty'["current"] = login_dirty["current"]
    BY <1>1, <1>3, Stores DEF Held
  <2>2. CASE login_file' = m /\ stale' = L!Differ(m, Held)
    <3>1. L!IsStore(Held)
      BY <1>1 DEF LoginTypes, Table, Held
    <3>2. \A t \in DOMAIN Held : t \in LoginTokens
      BY <3>1 DEF L!IsStore
    <3>3. \A t \in DOMAIN Held \ stale' : t \in DOMAIN m /\ m[t] = Held[t]
      BY <2>2, <3>1, <3>2, Agreeing
    <3> QED
      BY <2>1, <2>2, <3>3 DEF L!CleanMeansSaved, Held
  <2>3. CASE login_file' = login_file /\ stale' = stale
    BY <2>1, <2>3 DEF L!CleanMeansSaved, Held
  <2> QED
    BY <1>3, <2>2, <2>3, Stores
<1> QED
  BY <1>2, <1>3

(* The old store is given another table, and written or not: where the     *)
(* file then differs from the table it is stale.                           *)
LEMMA OldKeeps ==
  ASSUME LoginInv, "old" \in DOMAIN sessions, NEW m, NEW force \in BOOLEAN,
         L!Becomes("old", m, force), Others, Table(m, created', login_now),
         harmed \subseteq harmed', out \subseteq out', out' \ harmed' \subseteq out,
         \A t \in LoginTokens \ harmed' : created'[t] = created[t]
  PROVE  LoginInv'
<1>1. LoginTypes' /\ L!CleanMeansSaved'
  <2>1. L!IsStore(m) /\ login_now' = login_now
    BY DEF Table, Others
  <2> QED
    BY <2>1, StoresTypes, CleanKeeps DEF LoginInv
<1>2. SUFFICES ASSUME login_faults' = 0
               PROVE  (FileIsBehind /\ EntitledAreRecorded /\ LoggedOutAreGone)'
  BY <1>1 DEF LoginInv
<1>3. /\ Held' = Held /\ login_faults = 0 /\ login_now' = login_now
      /\ FileIsBehind /\ EntitledAreRecorded /\ LoggedOutAreGone
      /\ \/ login_file' = m /\ stale' = L!Differ(m, Held)
         \/ login_file' = login_file /\ stale' = stale
  <2>1. "current" \in DOMAIN sessions \ {"old"} /\ login_now' = login_now /\ LoginTypes
    BY DEF LoginInv, LoginTypes, L!TypeOK, L!Stores, Others
  <2> QED
    BY <1>2, <2>1, Stores DEF LoginInv, Held
<1>4. L!IsStore(m) /\ L!IsStore(Held)
  BY DEF LoginInv, LoginTypes, L!TypeOK, L!Stores, Table, Held
<1>5. FileIsBehind'
  <2>1. CASE login_file' = m /\ stale' = L!Differ(m, Held)
    <3>1. \A t \in DOMAIN m \ stale' : t \in DOMAIN Held /\ m[t] = Held[t] /\ m[t] \in Nat
      BY <1>4, <2>1, Agreeing, LoginsAssumption DEF L!IsStore, L!LoginAssumption
    <3> QED
      BY <1>3, <2>1, <3>1 DEF FileIsBehind
  <2>2. CASE login_file' = login_file /\ stale' = stale
    BY <1>3, <2>2 DEF FileIsBehind, L!Fresh
  <2> QED
    BY <1>3, <2>1, <2>2
<1>6. EntitledAreRecorded'
  <2> SUFFICES ASSUME NEW t \in LoginTokens \ harmed', Entitled(t)'
               PROVE  t \in DOMAIN Held' /\ (t \in stale' \/ t \in DOMAIN login_file')
    BY DEF EntitledAreRecorded
  <2>1. t \notin harmed /\ Entitled(t)
    BY <1>3 DEF Entitled, L!Fresh
  <2>2. t \in DOMAIN Held /\ (t \in stale \/ t \in DOMAIN login_file)
    BY <1>3, <2>1 DEF EntitledAreRecorded
  <2>3. t \in L!Differ(m, Held) \/ t \in DOMAIN m
    BY <1>4, <2>2, Agreeing
  <2> QED
    BY <1>3, <2>2, <2>3
<1>7. LoggedOutAreGone'
  BY <1>3 DEF LoggedOutAreGone
<1> QED
  BY <1>5, <1>6, <1>7

(* The store in use is given another table: it has whatever was in it and  *)
(* is still of use, and no older than it was.                              *)
LEMMA CurrentKeeps ==
  ASSUME LoginInv, NEW m, NEW force \in BOOLEAN,
         L!Becomes("current", m, force), Others, Table(m, created', login_now),
         \/ force
         \/ /\ DOMAIN m \subseteq DOMAIN Held
            /\ \A t \in DOMAIN Held \ DOMAIN m : ~L!Fresh(Held[t]),
         \A t \in DOMAIN m \cap DOMAIN Held : Held[t] <= m[t],
         login_faults = 0 =>
           /\ \A t \in out' \ harmed' : t \notin DOMAIN m
           /\ \A t \in LoginTokens \ harmed' : Entitled(t)' =>
                t \in DOMAIN m /\ (force \/ (t \notin harmed /\ Entitled(t)))
  PROVE  LoginInv'
<1>0. "current" \in DOMAIN sessions /\ login_now' = login_now /\ L!IsStore(m) /\ LoginTypes
  BY DEF LoginInv, LoginTypes, L!TypeOK, L!Stores, Others, Table
<1>1. LoginTypes' /\ L!CleanMeansSaved'
  BY <1>0, StoresTypes, CleanKeeps DEF LoginInv
<1>2. SUFFICES ASSUME login_faults' = 0
               PROVE  (FileIsBehind /\ EntitledAreRecorded /\ LoggedOutAreGone)'
  BY <1>1 DEF LoginInv
<1>3. /\ Held' = m /\ login_faults = 0
      /\ \/ login_file' = m /\ stale' = {}
         \/ login_file' = login_file /\ stale' = stale /\ ~force
  BY <1>0, <1>2, Stores DEF Held
<1>4. FileIsBehind /\ EntitledAreRecorded /\ LoggedOutAreGone
  BY <1>3 DEF LoginInv
<1>5. /\ \A t \in DOMAIN m : m[t] \in Nat
      /\ \A t \in DOMAIN Held : Held[t] \in Nat
      /\ \A t \in DOMAIN login_file : login_file[t] \in Nat
      /\ login_now \in Nat /\ max_age \in Nat
  BY <1>0, LoginsAssumption DEF LoginTypes, Table, L!IsStore, L!LoginAssumption, L!TypeOK, Held
<1>6. FileIsBehind'
  <2>1. CASE login_file' = m /\ stale' = {}
    BY <1>3, <1>5, <2>1 DEF FileIsBehind
  <2>2. CASE login_file' = login_file /\ stale' = stale /\ ~force
    <3> SUFFICES ASSUME NEW t \in DOMAIN login_file \ stale
                 PROVE  IF t \in DOMAIN m THEN login_file[t] <= m[t]
                                          ELSE ~L!Fresh(login_file[t])
      BY <1>0, <1>3, <2>2 DEF FileIsBehind, L!Fresh
    <3>1. CASE t \in DOMAIN Held
      BY <1>4, <1>5, <2>2, <3>1 DEF FileIsBehind, L!Fresh
    <3>2. CASE t \notin DOMAIN Held
      BY <1>4, <2>2, <3>2 DEF FileIsBehind
    <3> QED
      BY <3>1, <3>2
  <2> QED
    BY <1>3, <2>1, <2>2
<1>7. EntitledAreRecorded'
  <2> SUFFICES ASSUME NEW t \in LoginTokens \ harmed', Entitled(t)'
               PROVE  t \in DOMAIN Held' /\ (t \in stale' \/ t \in DOMAIN login_file')
    BY DEF EntitledAreRecorded
  <2>1. t \in DOMAIN m /\ (force \/ (t \notin harmed /\ Entitled(t)))
    BY <1>3
  <2>2. force \/ t \in stale \/ t \in DOMAIN login_file
    BY <1>4, <2>1 DEF EntitledAreRecorded
  <2> QED
    BY <1>3, <2>1, <2>2
<1>8. LoggedOutAreGone'
  BY <1>3 DEF LoggedOutAreGone
<1> QED
  BY <1>6, <1>7, <1>8

LEMMA LoginStepTaken ==
  ASSUME LoginTypes, L!Step PROVE login_steps' \in 0..LoginMaxSteps
BY LoginsAssumption DEF L!Step, L!LoginAssumption, LoginTypes, L!TypeOK

(* What the types say, in the form the steps need it.                      *)
LEMMA LoginFacts ==
  ASSUME LoginTypes
  PROVE  /\ login_now \in 1..LoginMaxTime /\ LoginMaxTime \in Nat /\ max_age \in Nat
         /\ created \in [LoginTokens -> 0..LoginMaxTime]
         /\ used \in [LoginTokens -> 0..LoginMaxTime]
         /\ out \subseteq LoginTokens /\ stale \subseteq LoginTokens
         /\ harmed \subseteq LoginTokens /\ login_steps \in 0..LoginMaxSteps
         /\ "current" \in DOMAIN sessions /\ DOMAIN sessions \subseteq {"current", "old"}
         /\ \A s \in DOMAIN sessions : Table(sessions[s], created, login_now)
         /\ Table(login_file, created, login_now)
         /\ \A x \in LoginTokens : created[x] <= used[x] /\ created[x] <= login_now
         /\ \A x \in out : created[x] # 0
BY LoginsAssumption DEF L!LoginAssumption, LoginTypes, L!TypeOK, L!Stores

LEMMA LoginHandlerKeeps ==
  ASSUME LoginInv, NEW s \in DOMAIN sessions, NEW t \in LoginTokens, L!LoginHandler(s, t)
  PROVE  LoginInv'
<1>0. LoginTypes /\ L!CleanMeansSaved
  BY DEF LoginInv
<1> DEFINE m == L!With(sessions[s], t)
<1>1. /\ L!Becomes(s, m, TRUE) /\ login_now' = login_now /\ out' = out
      /\ created[t] = 0 /\ created' = [created EXCEPT ![t] = login_now]
      /\ used' = [used EXCEPT ![t] = login_now] /\ L!Step
      /\ harmed' = harmed \cup (IF s = "old" THEN {t} ELSE {})
  BY DEF L!LoginHandler, L!Issue, L!Create
<1>2. Others
  BY <1>0, <1>1, LoginStepTaken, LoginFacts DEF Others
<1>3. Table(m, created', login_now) /\ DOMAIN m = DOMAIN sessions[s] \cup {t}
      /\ \A x \in DOMAIN m : m[x] = IF x = t THEN login_now ELSE sessions[s][x]
  <2>1. /\ Table(sessions[s], created, login_now) /\ created'[t] \in 1..login_now
        /\ \A x \in LoginTokens \ {t} : created'[x] = created[x]
        /\ login_now \in 1..LoginMaxTime
    BY <1>0, <1>1, LoginFacts
  <2>2. Table(sessions[s], created', login_now)
    BY <1>1, <2>1 DEF Table, L!IsStore
  <2> QED
    BY <2>1, <2>2, WithTable
<1> HIDE DEF m
<1>4. CASE s = "old"
  <2>1. \A x \in LoginTokens \ harmed' : created'[x] = created[x]
    BY <1>0, <1>1, <1>4, LoginFacts
  <2> QED
    BY <1>1, <1>2, <1>3, <1>4, <2>1, OldKeeps
<1>5. CASE s = "current"
  <2>1. t \notin out /\ Table(Held, created, login_now) /\ login_now \in 1..LoginMaxTime
        /\ LoginMaxTime \in Nat
    BY <1>0, <1>1, <1>5, LoginFacts DEF Held
  <2>2. \A x \in DOMAIN Held : Held[x] \in Nat /\ Held[x] <= login_now
    BY <2>1 DEF Table, L!IsStore
  <2>3. \A x \in DOMAIN m \cap DOMAIN Held : Held[x] <= m[x]
    BY <1>3, <1>5, <2>1, <2>2 DEF Held
  <2>4. ASSUME login_faults = 0
        PROVE  \A x \in LoginTokens \ harmed' : Entitled(x)' => x \in DOMAIN m
    <3> SUFFICES ASSUME NEW x \in LoginTokens \ harmed', Entitled(x)', x # t
                 PROVE  x \in DOMAIN Held
      BY <1>3, <1>5 DEF Held
    <3>1. Entitled(x) /\ x \notin harmed
      BY <1>0, <1>1, LoginFacts DEF Entitled, L!Fresh
    <3> QED
      BY <2>4, <3>1 DEF LoginInv, EntitledAreRecorded
  <2>5. ASSUME login_faults = 0 PROVE \A x \in out' \ harmed' : x \notin DOMAIN m
    BY <1>1, <1>3, <1>5, <2>1, <2>5 DEF LoginInv, LoggedOutAreGone, Held
  <2> QED
    BY <1>1, <1>2, <1>3, <1>5, <2>3, <2>4, <2>5, CurrentKeeps
<1> QED
  BY <1>0, <1>4, <1>5, LoginFacts

(* A step that takes tokens out of a table: from the one in use those that *)
(* are not fresh, or one that logs out.                                    *)
LEMMA RemovingKeeps ==
  ASSUME LoginInv, NEW s \in DOMAIN sessions, NEW kept, kept \subseteq DOMAIN sessions[s],
         NEW force \in BOOLEAN, L!Becomes(s, L!Restrict(sessions[s], kept), force),
         UNCHANGED <<login_now, created, used>>, login_steps' \in 0..LoginMaxSteps,
         out \subseteq out', out' \subseteq LoginTokens, \A x \in out' : created[x] # 0,
         harmed' \subseteq LoginTokens,
         s = "old" => harmed \subseteq harmed' /\ out' \ harmed' \subseteq out,
         s = "current" =>
           /\ \A x \in DOMAIN Held \ kept : (force /\ x \in out') \/ ~L!Fresh(Held[x])
           /\ harmed \subseteq harmed' \cup out'
           /\ \A x \in out' \ harmed' : x \notin kept \/ x \in out \ harmed
  PROVE  LoginInv'
<1>0. LoginTypes
  BY DEF LoginInv
<1> DEFINE m == L!Restrict(sessions[s], kept)
<1>1. L!Becomes(s, m, force) /\ Others
  BY <1>0, LoginFacts DEF Others
<1>2. /\ Table(m, created', login_now) /\ DOMAIN m = kept
      /\ \A x \in kept : m[x] = sessions[s][x]
  <2>1. Table(sessions[s], created, login_now) /\ created' = created
    BY <1>0, LoginFacts
  <2> QED
    BY <2>1, RestrictedTable
<1> HIDE DEF m
<1>3. CASE s = "old"
  BY <1>1, <1>2, <1>3, OldKeeps
<1>4. CASE s = "current"
  <2>1. \A x \in DOMAIN Held : Held[x] \in Nat /\ created[x] <= Held[x] /\ x \in LoginTokens
    BY <1>0, <1>4, LoginFacts DEF Held, Table, L!IsStore
  <2>2. \A x \in DOMAIN m \cap DOMAIN Held : Held[x] <= m[x]
    BY <1>2, <1>4, <2>1 DEF Held
  <2>3. ASSUME login_faults = 0
        PROVE  /\ \A x \in out' \ harmed' : x \notin DOMAIN m
               /\ \A x \in LoginTokens \ harmed' : Entitled(x)' =>
                    x \in DOMAIN m /\ x \notin harmed /\ Entitled(x)
    <3>1. \A x \in out' \ harmed' : x \notin DOMAIN m
      BY <1>2, <1>4, <2>3 DEF LoginInv, LoggedOutAreGone, Held
    <3>2. ASSUME NEW x \in LoginTokens \ harmed', Entitled(x)'
          PROVE  x \in DOMAIN m /\ x \notin harmed /\ Entitled(x)
      <4>1. Entitled(x) /\ x \notin out' /\ x \notin harmed
        BY <1>4, <3>2 DEF Entitled, L!Fresh
      <4>2. x \in DOMAIN Held
        BY <2>3, <4>1 DEF LoginInv, EntitledAreRecorded
      <4>3. L!Fresh(Held[x])
        BY <1>0, <2>1, <4>1, <4>2, LoginFacts DEF Entitled, L!Fresh
      <4> QED
        BY <1>2, <1>4, <4>1, <4>2, <4>3
    <3> QED
      BY <3>1, <3>2
  <2>4. force \/ (DOMAIN m \subseteq DOMAIN Held /\ \A x \in DOMAIN Held \ DOMAIN m : ~L!Fresh(Held[x]))
    BY <1>2, <1>4 DEF Held
  <2> QED
    BY <1>1, <1>2, <1>4, <2>2, <2>3, <2>4, CurrentKeeps
<1> QED
  BY <1>0, <1>3, <1>4, LoginFacts

LEMMA ValidateKeeps ==
  ASSUME LoginInv, NEW s \in DOMAIN sessions, NEW t \in LoginTokens, L!Validate(s, t)
  PROVE  LoginInv'
<1>0. LoginTypes /\ L!CleanMeansSaved
  BY DEF LoginInv
<1>1. /\ t \in DOMAIN sessions[s] /\ t \notin out /\ L!Step
      /\ UNCHANGED <<login_now, created, out, harmed>> /\ L!Accepted(s, t)
  BY DEF L!Validate
<1>2. login_steps' \in 0..LoginMaxSteps
  BY <1>0, <1>1, LoginStepTaken
<1>3. CASE ~L!Fresh(sessions[s][t])
  <2> DEFINE kept == DOMAIN sessions[s] \ {t}
  <2>1. L!Becomes(s, L!Restrict(sessions[s], kept), FALSE) /\ used' = used
    BY <1>1, <1>3 DEF L!Accepted
  <2>2. /\ kept \subseteq DOMAIN sessions[s]
        /\ s = "current" => \A x \in DOMAIN Held \ kept : ~L!Fresh(Held[x])
    BY <1>3 DEF Held
  <2>3. \A x \in out' \ harmed' : x \in out \ harmed
    BY <1>1
  <2> HIDE DEF kept
  <2> QED
    BY <1>0, <1>1, <1>2, <2>1, <2>2, <2>3, RemovingKeeps, LoginFacts
<1>4. CASE L!Fresh(sessions[s][t])
  <2> DEFINE m == L!With(sessions[s], t)
  <2>1. L!Becomes(s, m, FALSE) /\ used' = [used EXCEPT ![t] = login_now]
    BY <1>1, <1>4 DEF L!Accepted
  <2>2. Others
    BY <1>0, <1>1, <1>2, <2>1, LoginFacts DEF Others
  <2>3. /\ Table(m, created', login_now) /\ DOMAIN m = DOMAIN sessions[s]
        /\ \A x \in DOMAIN m : m[x] = IF x = t THEN login_now ELSE sessions[s][x]
    <3>1. /\ Table(sessions[s], created, login_now) /\ created' = created
          /\ login_now \in 1..LoginMaxTime
      BY <1>0, <1>1, LoginFacts
    <3>2. created[t] \in 1..login_now
      BY <1>0, <1>1, <3>1, LoginFacts DEF Table, L!IsStore
    <3>3. /\ Table(m, created', login_now) /\ DOMAIN m = DOMAIN sessions[s] \cup {t}
          /\ \A x \in DOMAIN m : m[x] = IF x = t THEN login_now ELSE sessions[s][x]
      BY <3>1, <3>2, WithTable
    <3>4. DOMAIN sessions[s] \cup {t} = DOMAIN sessions[s]
      BY <1>1
    <3> QED
      BY <3>3, <3>4
  <2> HIDE DEF m
  <2>4. CASE s = "old"
    <3>1. \A x \in LoginTokens \ harmed' : created'[x] = created[x]
      BY <1>1
    <3>2. out' \ harmed' \subseteq out /\ out \subseteq out' /\ harmed \subseteq harmed'
      BY <1>1
    <3> QED
      BY <2>1, <2>2, <2>3, <2>4, <3>1, <3>2, OldKeeps
  <2>5. CASE s = "current"
    <3>1. \A x \in DOMAIN Held : Held[x] \in Nat /\ Held[x] <= login_now
      BY <1>0, <2>5, LoginFacts DEF Held, Table, L!IsStore
    <3>2. \A x \in DOMAIN m \cap DOMAIN Held : Held[x] <= m[x]
      <4>1. login_now \in Nat
        BY <1>0, LoginFacts
      <4> QED
        BY <2>3, <2>5, <3>1, <4>1 DEF Held
    <3>3. ASSUME login_faults = 0
          PROVE  /\ \A x \in out' \ harmed' : x \notin DOMAIN m
                 /\ \A x \in LoginTokens \ harmed' : Entitled(x)' =>
                      x \in DOMAIN m /\ x \notin harmed /\ Entitled(x)
      <4>1. DOMAIN m = DOMAIN Held
        BY <2>3, <2>5 DEF Held
      <4>2. EntitledAreRecorded /\ LoggedOutAreGone
        BY <3>3 DEF LoginInv
      <4> QED
        BY <1>1, <4>1, <4>2 DEF EntitledAreRecorded, LoggedOutAreGone, Entitled, L!Fresh
    <3>4. DOMAIN m \subseteq DOMAIN Held /\ \A x \in DOMAIN Held \ DOMAIN m : ~L!Fresh(Held[x])
      BY <2>3, <2>5 DEF Held
    <3> QED
      BY <2>1, <2>2, <2>3, <2>5, <3>2, <3>3, <3>4, CurrentKeeps
  <2> QED
    BY <1>0, <2>4, <2>5, LoginFacts
<1> QED
  BY <1>3, <1>4

LEMMA LogoutHandlerKeeps ==
  ASSUME LoginInv, NEW s \in DOMAIN sessions, NEW t \in LoginTokens, L!LogoutHandler(s, t)
  PROVE  LoginInv'
<1>0. LoginTypes /\ L!CleanMeansSaved
  BY DEF LoginInv
<1>1. /\ created[t] # 0 /\ out' = out \cup {t} /\ UNCHANGED <<login_now, created, used>>
      /\ harmed' = IF s = "old" THEN harmed \cup {t} ELSE harmed \ {t}
      /\ login_steps' \in 0..LoginMaxSteps
  BY <1>0, LoginStepTaken DEF L!LogoutHandler
<1>2. /\ out \subseteq LoginTokens /\ harmed \subseteq LoginTokens
      /\ \A x \in out : created[x] # 0
  BY <1>0, LoginFacts
<1>3. CASE t \in DOMAIN sessions[s]
  <2> DEFINE kept == DOMAIN sessions[s] \ {t}
  <2>1. L!Becomes(s, L!Restrict(sessions[s], kept), TRUE)
    BY <1>3 DEF L!LogoutHandler, L!Revoked, L!Revoke
  <2>2. /\ kept \subseteq DOMAIN sessions[s]
        /\ s = "current" => \A x \in DOMAIN Held \ kept : x \in out'
        /\ t \notin kept
    BY <1>1 DEF Held
  <2> HIDE DEF kept
  <2>3. \A x \in out' : created[x] # 0
    BY <1>1, <1>2
  <2>4. /\ out' \subseteq LoginTokens /\ harmed' \subseteq LoginTokens /\ out \subseteq out'
    BY <1>1, <1>2
  <2>5. s = "old" => harmed \subseteq harmed' /\ out' \ harmed' \subseteq out
    BY <1>1
  <2>6. s = "current" => /\ harmed \subseteq harmed' \cup out'
                         /\ \A x \in out' \ harmed' : x = t \/ x \in out \ harmed
    BY <1>1
  <2> QED
    BY <1>1, <2>1, <2>2, <2>3, <2>4, <2>5, <2>6, RemovingKeeps
<1>4. CASE t \notin DOMAIN sessions[s]
  <2>1. UNCHANGED <<sessions, login_file, login_dirty, lastSaved, stale, login_faults>>
    BY <1>4 DEF L!LogoutHandler
  <2>2. LoginTypes'
    <3>1. L!TypeOK'
      BY <1>0, <1>1, <1>2, <2>1 DEF LoginTypes, L!TypeOK, L!IsStore
    <3> QED
      BY <1>0, <1>1, <1>2, <2>1, <3>1 DEF LoginTypes, Table, L!IsStore
  <2>3. L!CleanMeansSaved'
    BY <1>0, <2>1 DEF L!CleanMeansSaved
  <2>4. ASSUME login_faults' = 0
        PROVE  (FileIsBehind /\ EntitledAreRecorded /\ LoggedOutAreGone)'
    <3>1. FileIsBehind /\ EntitledAreRecorded /\ LoggedOutAreGone
      BY <2>1, <2>4 DEF LoginInv
    <3>2. FileIsBehind'
      BY <1>1, <2>1, <3>1 DEF FileIsBehind, Held, L!Fresh
    <3>3. EntitledAreRecorded'
      BY <1>1, <2>1, <3>1 DEF EntitledAreRecorded, Entitled, Held, L!Fresh
    <3>4. LoggedOutAreGone'
      <4>1. s = "old" \/ t \notin DOMAIN Held
        BY <1>0, <1>4, LoginFacts DEF Held
      <4> QED
        BY <1>1, <2>1, <3>1, <4>1 DEF LoggedOutAreGone, Held
    <3> QED
      BY <3>2, <3>3, <3>4
  <2> QED
    BY <2>2, <2>3, <2>4 DEF LoginInv
<1> QED
  BY <1>3, <1>4

LEMMA PurgeExpiredKeeps == ASSUME LoginInv, L!PurgeExpired PROVE LoginInv'
<1>0. LoginTypes
  BY DEF LoginInv
<1> DEFINE kept == {t \in DOMAIN Held : L!Fresh(Held[t])}
<1>1. /\ L!Becomes("current", L!Restrict(Held, kept), TRUE)
      /\ UNCHANGED <<login_now, created, used, out, harmed, login_steps>>
  BY DEF L!PurgeExpired, L!Live, Held
<1>2. /\ out \subseteq LoginTokens /\ \A x \in out : created[x] # 0
      /\ harmed \subseteq LoginTokens
      /\ login_steps \in 0..LoginMaxSteps /\ "current" \in DOMAIN sessions
  BY <1>0, LoginFacts
<1>3. kept \subseteq DOMAIN Held /\ \A x \in DOMAIN Held \ kept : ~L!Fresh(Held[x])
  OBVIOUS
<1> HIDE DEF kept
<1>4. L!Becomes("current", L!Restrict(sessions["current"], kept), TRUE)
      /\ kept \subseteq DOMAIN sessions["current"]
  BY <1>1, <1>3 DEF Held
<1> QED
  BY <1>1, <1>2, <1>3, <1>4, RemovingKeeps

LEMMA TickKeeps == ASSUME LoginInv, L!Tick PROVE LoginInv'
<1>0. LoginTypes /\ L!CleanMeansSaved
  BY DEF LoginInv
<1>1. /\ login_now' = login_now + 1 /\ login_now < LoginMaxTime /\ LoginMaxTime \in Nat
      /\ UNCHANGED <<sessions, login_dirty, lastSaved, login_file, created, used, out, stale,
                     harmed, login_steps, login_faults>>
  BY LoginsAssumption DEF L!Tick, L!LoginAssumption
<1>2. /\ login_now \in 1..LoginMaxTime /\ max_age \in Nat
      /\ created \in [LoginTokens -> 0..LoginMaxTime]
  BY <1>0, LoginFacts
<1>3. ASSUME NEW m, Table(m, created, login_now) PROVE Table(m, created', login_now')
  BY <1>1, <1>2, <1>3 DEF Table, L!IsStore
<1>4. LoginTypes'
  <2>1. L!TypeOK'
    BY <1>0, <1>1, <1>2 DEF LoginTypes, L!TypeOK, L!IsStore
  <2>2. \A s \in DOMAIN sessions' : Table(sessions'[s], created', login_now')
    BY <1>0, <1>1, <1>3, LoginFacts
  <2>3. Table(login_file', created', login_now')
    BY <1>0, <1>1, <1>3, LoginFacts
  <2> QED
    BY <1>0, <1>1, <1>2, <2>1, <2>2, <2>3, LoginFacts DEF LoginTypes
<1>5. L!CleanMeansSaved'
  BY <1>0, <1>1 DEF L!CleanMeansSaved
<1>6. \A x \in Nat : L!Fresh(x)' => L!Fresh(x)
  BY <1>1, <1>2 DEF L!Fresh
<1>7. /\ \A x \in DOMAIN login_file : login_file[x] \in Nat
      /\ \A x \in LoginTokens : created[x] \in Nat
  BY <1>0, <1>1, <1>2, LoginFacts DEF Table, L!IsStore
<1> QED
  BY <1>1, <1>4, <1>5, <1>6, <1>7
     DEF LoginInv, FileIsBehind, EntitledAreRecorded, LoggedOutAreGone, Entitled, Held

(* The program or its web server starts again and reads the file, which    *)
(* may have been lost with a crash in the middle of a write.  Where the    *)
(* file was stale, logins are lost or come back.                           *)
LEMMA LoadedKeeps ==
  ASSUME LoginInv, L!Step, L!Loaded, sessions'["current"] = L!Live(login_file'),
         DOMAIN sessions' \in {{"current"}, L!Stores},
         \A s \in DOMAIN sessions' : s = "current" \/ sessions'[s] = Held,
         \/ UNCHANGED <<login_file, login_faults>>
         \/ /\ login_faults' = login_faults + 1 /\ login_faults < LoginMaxFaults
            /\ login_file' = L!Empty,
         UNCHANGED <<login_now, created, used, out>>
  PROVE  LoginInv'
<1>1. LoginTypes /\ login_steps' \in 0..LoginMaxSteps
  BY LoginStepTaken DEF LoginInv
<1>2. /\ Table(login_file', created, login_now) /\ login_faults' \in 0..LoginMaxFaults
      /\ login_faults' = 0 => login_faults = 0 /\ login_file' = login_file
  <2>1. Table(L!Empty, created, login_now)
    BY DEF Table, L!IsStore, L!Empty
  <2>2. login_faults \in 0..LoginMaxFaults /\ LoginMaxFaults \in Nat
    BY <1>1, LoginsAssumption DEF LoginTypes, L!TypeOK, L!LoginAssumption
  <2> QED
    BY <1>1, <2>1, <2>2, LoginFacts
<1>3. PICK live : live = L!Live(login_file')
  OBVIOUS
<1>4. /\ Held' = live /\ Table(live, created, login_now)
      /\ DOMAIN live = {x \in DOMAIN login_file' : L!Fresh(login_file'[x])}
      /\ \A x \in DOMAIN live : live[x] = login_file'[x]
  BY <1>2, <1>3, LiveTable DEF Held
<1>5. /\ stale' = {} /\ login_dirty'["current"] = FALSE
      /\ harmed' = harmed \cup {t \in stale : (t \in DOMAIN Held') # (t \in DOMAIN Held)}
  BY DEF L!Loaded, Held
<1>6. LoginTypes'
  <2>1. /\ login_dirty' \in [L!Stores -> BOOLEAN]
        /\ lastSaved' \in [L!Stores -> 1..LoginMaxTime]
    <3>1. /\ login_dirty["current"] \in BOOLEAN /\ lastSaved["current"] \in 1..LoginMaxTime
          /\ login_now \in 1..LoginMaxTime
      BY <1>1 DEF LoginTypes, L!TypeOK, L!Stores
    <3>2. ASSUME NEW B, NEW a \in B, NEW b \in B
          PROVE  [current |-> a, old |-> b] \in [L!Stores -> B]
      BY DEF L!Stores
    <3>3. ("old" \in DOMAIN sessions' /\ login_dirty["current"]) \in BOOLEAN
      OBVIOUS
    <3> QED
      BY <3>1, <3>2, <3>3 DEF L!Loaded
  <2>2. \A s \in DOMAIN sessions' : Table(sessions'[s], created', login_now')
    <3>1. Table(Held, created, login_now)
      BY <1>1, LoginFacts DEF Held
    <3> QED
      BY <1>4, <3>1 DEF Held
  <2>3. /\ stale' \subseteq LoginTokens /\ harmed' \subseteq LoginTokens
    BY <1>1, <1>5, LoginFacts
  <2>4. /\ L!IsStore(login_file') /\ \A s \in DOMAIN sessions' : L!IsStore(sessions'[s])
    BY <1>2, <2>2 DEF Table
  <2>5. L!TypeOK'
    BY <1>1, <1>2, <2>1, <2>3, <2>4 DEF L!TypeOK, LoginTypes, L!IsStore, L!Stores
  <2> QED
    BY <1>1, <1>2, <2>2, <2>5 DEF LoginTypes
<1>7. L!CleanMeansSaved'
  BY <1>4 DEF L!CleanMeansSaved, Held
<1>8. ASSUME login_faults' = 0
      PROVE  (FileIsBehind /\ EntitledAreRecorded /\ LoggedOutAreGone)'
  <2>1. login_file' = login_file /\ login_faults = 0
    BY <1>2, <1>8
  <2>2. FileIsBehind /\ EntitledAreRecorded /\ LoggedOutAreGone
    BY <2>1 DEF LoginInv
  <2>3. /\ \A x \in DOMAIN login_file : login_file[x] \in Nat /\ created[x] <= login_file[x]
                                      /\ x \in LoginTokens
        /\ \A x \in LoginTokens : created[x] \in Nat
        /\ login_now \in Nat /\ max_age \in Nat /\ stale \subseteq LoginTokens
    BY <1>1, LoginFacts DEF Table, L!IsStore
  <2>4. FileIsBehind'
    BY <1>4, <2>1, <2>3 DEF FileIsBehind, L!Fresh
  <2>5. EntitledAreRecorded'
    <3> SUFFICES ASSUME NEW t \in LoginTokens \ harmed', Entitled(t)'
                 PROVE  t \in DOMAIN live /\ t \in DOMAIN login_file
      BY <1>4, <2>1 DEF EntitledAreRecorded
    <3>1. Entitled(t) /\ t \notin harmed
      BY <1>5 DEF Entitled, L!Fresh
    <3>2. t \in DOMAIN Held /\ (t \in stale \/ t \in DOMAIN login_file)
      BY <2>2, <3>1 DEF EntitledAreRecorded
    <3>3. CASE t \in stale
      BY <1>4, <1>5, <2>1, <3>2, <3>3
    <3>4. CASE t \in DOMAIN login_file
      BY <1>4, <2>1, <2>3, <3>1, <3>4 DEF Entitled, L!Fresh
    <3> QED
      BY <3>2, <3>3, <3>4
  <2>6. LoggedOutAreGone'
    <3> SUFFICES ASSUME NEW t \in out \ harmed' PROVE t \notin DOMAIN live
      BY <1>4 DEF LoggedOutAreGone
    <3>1. t \notin harmed /\ t \notin DOMAIN Held
      BY <1>5, <2>2 DEF LoggedOutAreGone
    <3>2. CASE t \in stale
      BY <1>4, <1>5, <3>1, <3>2
    <3>3. CASE t \notin stale
      BY <1>4, <2>1, <2>2, <3>1, <3>3 DEF FileIsBehind
    <3> QED
      BY <3>2, <3>3
  <2> QED
    BY <2>4, <2>5, <2>6
<1> QED
  BY <1>6, <1>7, <1>8 DEF LoginInv

LEMMA LoginStep == LoginInv /\ [L!Next]_(L!vars) => LoginInv'
<1> SUFFICES ASSUME LoginInv, [L!Next]_(L!vars) PROVE LoginInv'
  OBVIOUS
<1>1. ASSUME NEW s \in DOMAIN sessions, NEW t \in LoginTokens,
             L!LoginHandler(s, t) \/ L!Validate(s, t) \/ L!LogoutHandler(s, t)
      PROVE  LoginInv'
  BY <1>1, LoginHandlerKeeps, ValidateKeeps, LogoutHandlerKeeps
<1>2. CASE L!RestartServer
  <2>1. /\ sessions'["current"] = L!Live(login_file') /\ DOMAIN sessions' = L!Stores
        /\ sessions'["old"] = Held /\ L!Stores = {"current", "old"}
    BY <1>2 DEF L!RestartServer, L!Stores, Held, L!Live, L!Restrict, L!Fresh
  <2> QED
    BY <1>2, <2>1, LoadedKeeps DEF L!RestartServer
<1>3. CASE L!RestartProgram
  <2>1. sessions'["current"] = L!Live(login_file') /\ DOMAIN sessions' = {"current"}
    BY <1>3 DEF L!RestartProgram
  <2> QED
    BY <1>3, <2>1, LoadedKeeps DEF L!RestartProgram
<1>4. CASE UNCHANGED L!vars
  BY <1>4
     DEF L!vars, LoginInv, LoginTypes, L!TypeOK, Table, Held, L!CleanMeansSaved, L!IsStore,
         FileIsBehind, EntitledAreRecorded, LoggedOutAreGone, Entitled, L!Fresh
<1> QED
  BY <1>1, <1>2, <1>3, <1>4, TickKeeps, PurgeExpiredKeeps DEF L!Next

(* Logins (LoginsAreKept): as long as the file could be written, who       *)
(* logged in less than max_age ago is let in and who logged out is not,    *)
(* over any number of restarts, and a table that holds itself saved is;    *)
(* except who logged in or out over a connection to a web server that was  *)
(* replaced, and those for whom what such a connection last wrote to the   *)
(* file before a restart was not what the server in use held; for any      *)
(* tokens, ages and debounce.                                              *)
THEOREM Logins == MCSpec => []LoginsAreKept
<1> DEFINE Inv == part = "login" => LoginInv
<1>1. MCInit => Inv
  BY LoginInit DEF MCInit
<1>2. Inv /\ [MCNext]_mcVars => Inv'
  <2> SUFFICES ASSUME part = "login" => LoginInv, [MCNext]_mcVars, part' = "login" PROVE LoginInv'
    OBVIOUS
  <2>1. part = "login" /\ [L!Next]_(L!vars)
    BY DEF MCNext, mcVars, loginVars, L!vars, LimitsOnly, FloodOnly, SplitsOnly, FileOnly,
           ConfigOnly, ScriptsOnly, StateOnly, WizardOnly, ThumbsOnly, LoginOnly
  <2> QED
    BY <2>1, LoginStep
<1>3. Inv => LoginsAreKept
  <2> SUFFICES ASSUME part = "login", LoginInv PROVE LoginsAreKept
    BY DEF LoginsAreKept, LoginsSurvive, LoggedOutStaysOut, CleanMeansSaved
  <2>1. L!LoginsSurvive
    BY DEF L!LoginsSurvive, LoginInv, EntitledAreRecorded, Entitled, Held
  <2>2. L!LoggedOutStaysOut
    BY DEF L!LoggedOutStaysOut, LoginInv, LoggedOutAreGone, Held
  <2> QED
    BY <2>1, <2>2
       DEF LoginsAreKept, LoginsSurvive, LoggedOutStaysOut, CleanMeansSaved, LoginInv, LoginTypes
<1> QED
  BY <1>1, <1>2, <1>3, PTL DEF MCSpec

-----------------------------------------------------------------------------
(* The netsplit tracker (Netsplit).                                        *)

(* A set of numbers has a least one, a bounded one a greatest.             *)
LEMMA LeastNumber ==
  ASSUME NEW U \in SUBSET Nat, U # {}
  PROVE  \E k \in U : \A j \in U : k <= j
<1> DEFINE R == OpToRel(<, Nat)
<1>1. IsWellFoundedOn(R, Nat)
  BY NatLessThanWellFounded
<1>2. \A x, y \in Nat : y < x => <<y, x>> \in R
  BY DEF OpToRel
<1> HIDE DEF R
<1>3. PICK k \in U : \A y \in U : ~(<<y, k>> \in R)
  BY <1>1, WFMin
<1>4. \A j \in U : k \in Nat /\ j \in Nat /\ ~(j < k)
  BY <1>2, <1>3
<1> QED
  BY <1>4

LEMMA Greatest ==
  ASSUME NEW n \in Nat, NEW U \in SUBSET (1 .. n), U # {}
  PROVE  \E k \in U : \A j \in U : k >= j
<1> DEFINE V == {n - k : k \in U}
<1>1. V \in SUBSET Nat /\ V # {}
  <2>1. \A k \in U : n - k \in Nat
    OBVIOUS
  <2> QED
    BY <2>1
<1>2. PICK m \in V : \A j \in V : m <= j
  BY <1>1, LeastNumber
<1>3. PICK k \in U : m = n - k
  BY <1>2
<1> QED
  BY <1>2, <1>3

LEMMA SameCardinality == \A U : P!Cardinality(U) = Cardinality(U)
BY DEF P!Cardinality, Cardinality, P!IsFiniteSet, IsFiniteSet

(* Ranks number the elements of a set from 1.                              *)
LEMMA Ranks ==
  ASSUME NEW n \in Nat, NEW stay \in SUBSET (1 .. n)
  PROVE  /\ Cardinality(stay) \in Nat
         /\ \A i \in stay : P!Rank(stay, i) \in 1 .. Cardinality(stay)
         /\ \A i, j \in stay : P!Rank(stay, i) = P!Rank(stay, j) => i = j
         /\ \A k \in 1 .. Cardinality(stay) : \E i \in stay : P!Rank(stay, i) = k
<1> DEFINE upTo(i) == {j \in stay : j <= i}
           c == Cardinality(stay)
<1>1. IsFiniteSet(stay) /\ c \in Nat
  <2>1. IsFiniteSet(1 .. n)
    BY FS_Interval
  <2> QED
    BY <2>1, FS_Subset, FS_CardinalityType
<1>0. \A i \in stay : P!Rank(stay, i) = Cardinality(upTo(i))
  BY SameCardinality DEF P!Rank
<1>0a. \A i, j \in stay : i \in Nat /\ (j \in upTo(i) <=> j <= i)
  OBVIOUS
<1>0b. \A i \in stay : upTo(i) \in SUBSET stay
  OBVIOUS
<1> HIDE DEF upTo
<1>2. ASSUME NEW i \in stay PROVE IsFiniteSet(upTo(i)) /\ P!Rank(stay, i) \in 1 .. c
  <2>1. upTo(i) \in SUBSET stay /\ i \in upTo(i)
    BY <1>0a, <1>0b
  <2>2. /\ IsFiniteSet(upTo(i)) /\ Cardinality(upTo(i)) <= c /\ Cardinality(upTo(i)) \in Nat
        /\ Cardinality(upTo(i)) # 0
    BY <1>1, <2>1, FS_Subset, FS_CardinalityType, FS_EmptySet
  <2> QED
    BY <1>0, <1>1, <2>2
<1>3. ASSUME NEW i \in stay, NEW j \in stay, i < j PROVE P!Rank(stay, i) # P!Rank(stay, j)
  <2>1. j \in upTo(j) /\ j \notin upTo(i)
    BY <1>0a, <1>3
  <2>2. upTo(i) \in SUBSET upTo(j)
    <3> SUFFICES ASSUME NEW k \in upTo(i) PROVE k \in upTo(j)
      OBVIOUS
    <3>1. k \in stay /\ k <= i /\ k \in Nat /\ i \in Nat /\ j \in Nat
      BY <1>0a, <1>0b
    <3>2. k <= j
      BY <1>3, <3>1
    <3> QED
      BY <1>0a, <3>1, <3>2
  <2>3. IsFiniteSet(upTo(j)) /\ upTo(i) # upTo(j)
    BY <1>2, <2>1
  <2>4. Cardinality(upTo(i)) # Cardinality(upTo(j))
    BY <2>2, <2>3, FS_Subset
  <2> QED
    BY <1>0, <2>4
<1>4. \A i, j \in stay : P!Rank(stay, i) = P!Rank(stay, j) => i = j
  <2> SUFFICES ASSUME NEW i \in stay, NEW j \in stay, i # j
               PROVE  P!Rank(stay, i) # P!Rank(stay, j)
    OBVIOUS
  <2>1. i < j \/ j < i
    OBVIOUS
  <2> QED
    BY <1>3, <2>1
<1>5. \A k \in 1 .. c : \E i \in stay : P!Rank(stay, i) = k
  <2> DEFINE f == [i \in stay |-> P!Rank(stay, i)]
  <2>1. f \in Injection(stay, 1 .. c)
    BY <1>2, <1>4 DEF Injection, IsInjective
  <2>2. IsFiniteSet(1 .. c) /\ Cardinality(1 .. c) = c
    BY <1>1, FS_Interval
  <2>3. f \in Surjection(stay, 1 .. c)
    BY <2>1, <2>2, FS_Injection
  <2> QED
    BY <2>3 DEF Surjection
<1> QED
  BY <1>1, <1>2, <1>4, <1>5

(* What expiry leaves: exactly the groups less than an hour old, marked.   *)
LEMMA Keeping ==
  ASSUME NEW list \in Seq(P!Group)
  PROVE  /\ P!Kept(list) \in Seq(P!Group)
         /\ \A i \in DOMAIN list : list[i].quiet < 2 =>
              \E k \in DOMAIN P!Kept(list) : P!Kept(list)[k] = P!Marked(list[i])
<1> DEFINE stay == P!Staying(list)
           c == Cardinality(stay)
           at(k) == CHOOSE i \in stay : P!Rank(stay, i) = k
           kept == [k \in 1 .. c |-> P!Marked(list[at(k)])]
<1>1. stay \in SUBSET (1 .. Len(list)) /\ Len(list) \in Nat
  BY DEF P!Staying
<1> HIDE DEF stay
<1>2. /\ c \in Nat
      /\ \A i \in stay : P!Rank(stay, i) \in 1 .. c
      /\ \A i, j \in stay : P!Rank(stay, i) = P!Rank(stay, j) => i = j
      /\ \A k \in 1 .. c : \E i \in stay : P!Rank(stay, i) = k
  BY <1>1, Ranks
<1>3. \A k \in 1 .. c : at(k) \in stay /\ P!Rank(stay, at(k)) = k
  BY <1>2
<1>4. \A i \in stay : list[i] \in P!Group
  BY <1>1
<1>5. \A g \in P!Group : P!Marked(g) \in P!Group
  BY DEF P!Marked, P!Group, P!Ready
<1>6. \A k \in 1 .. c : P!Marked(list[at(k)]) \in P!Group
  BY <1>3, <1>4, <1>5
<1>7. P!Kept(list) = [k \in 1 .. Cardinality(P!Staying(list)) |->
                       P!Marked(list[CHOOSE i \in P!Staying(list) : P!Rank(P!Staying(list), i) = k])]
  BY SameCardinality DEF P!Kept
<1>7a. P!Kept(list) = kept
  BY <1>7 DEF stay
<1>8. kept \in Seq(P!Group) /\ DOMAIN kept = 1 .. c
  <2> HIDE DEF at, c
  <2> QED
    BY <1>2, <1>6
<1>9. ASSUME NEW i \in DOMAIN list, list[i].quiet < 2
      PROVE  \E k \in DOMAIN kept : kept[k] = P!Marked(list[i])
  <2>1. i \in stay
    BY <1>9 DEF stay, P!Staying
  <2>2. at(P!Rank(stay, i)) = i
    BY <1>2, <1>3, <2>1
  <2> QED
    BY <1>2, <1>8, <2>1, <2>2
<1> QED
  BY <1>7a, <1>8, <1>9

LEMMA EntryFacts ==
  \A pair \in SplitPairs, lines \in SUBSET (SplitNicks \X P!Buffers), who \in SUBSET SplitNicks :
     /\ P!Entry(pair, lines, who) \in P!Group /\ P!Entry(pair, lines, who).printed = FALSE
     /\ P!Entry(pair, lines, who).lines = lines /\ P!Entry(pair, lines, who).who = who
BY DEF P!Entry, P!Group, P!Quiet

(* What noting nick n leaves of a list, and what it adds.                  *)
Grows(list, new) ==
  /\ new \in Seq(P!Group) /\ Len(list) <= Len(new)
  /\ \A j \in DOMAIN list : /\ list[j].who \subseteq new[j].who
                            /\ list[j].lines \subseteq new[j].lines
                            /\ list[j].printed = new[j].printed
LEMMA Noting ==
  ASSUME NEW list \in Seq(P!Group), NEW pair \in SplitPairs, NEW n \in SplitNicks,
         NEW lines \in SUBSET (SplitNicks \X P!Buffers)
  PROVE  LET new == P!Noted(list, pair, n, lines)
             i == P!Current(list, pair) IN
         /\ Grows(list, new)
         /\ i \in 1 .. Len(new) /\ n \in new[i].who
         /\ lines \subseteq new[i].lines /\ ~new[i].printed
<1> DEFINE new == P!Noted(list, pair, n, lines)
           i == P!Current(list, pair)
           open == {j \in DOMAIN list : list[j].pair = pair /\ ~list[j].printed}
           g == P!Entry(pair, lines, {n})
<1>0. Len(list) \in Nat /\ DOMAIN list = 1 .. Len(list) /\ \A j \in DOMAIN list : list[j] \in P!Group
  OBVIOUS
<1>1. CASE open = {}
  <2>0. i = Len(list) + 1
    BY <1>1 DEF P!Current
  <2>1. i = Len(list) + 1 /\ new = Append(list, g)
    BY <1>0, <2>0 DEF P!Noted
  <2>2. g \in P!Group /\ g.who = {n} /\ g.lines = lines /\ g.printed = FALSE
    <3> DEFINE one == {n}
    <3>1. one \in SUBSET SplitNicks /\ g = P!Entry(pair, lines, one)
      OBVIOUS
    <3> HIDE DEF one, g
    <3>2. /\ P!Entry(pair, lines, one) \in P!Group /\ P!Entry(pair, lines, one).printed = FALSE
          /\ P!Entry(pair, lines, one).lines = lines /\ P!Entry(pair, lines, one).who = one
      BY <3>1, EntryFacts, Zenon
    <3> QED
      BY <3>1, <3>2 DEF one
  <2> HIDE DEF g
  <2>3. /\ new \in Seq(P!Group) /\ Len(new) = Len(list) + 1 /\ new[Len(list) + 1] = g
        /\ \A j \in DOMAIN list : new[j] = list[j]
    BY <1>0, <2>1, <2>2
  <2> HIDE DEF new, i
  <2> QED
    BY <1>0, <2>1, <2>2, <2>3 DEF Grows, new, i
<1>2. CASE open # {}
  <2>1. i \in open
    <3>1. open \in SUBSET Nat
      BY <1>0
    <3> HIDE DEF open
    <3>2. \E k \in open : \A j \in open : k <= j
      BY <1>2, <3>1, LeastNumber
    <3>3. i = CHOOSE k \in open : \A j \in open : k <= j
      BY <1>2 DEF P!Current, open
    <3> QED
      BY <3>2, <3>3
  <2>2. /\ i \in DOMAIN list /\ i <= Len(list) /\ i \in Nat /\ ~(i > Len(list))
        /\ list[i].printed = FALSE
    <3> HIDE DEF i
    <3>1. i \in DOMAIN list /\ ~list[i].printed /\ list[i] \in P!Group
      BY <1>0, <2>1
    <3> QED
      BY <1>0, <3>1 DEF P!Group
  <2> DEFINE h == P!Entry(pair, list[i].lines \cup lines, list[i].who \cup {n})
  <2>3. new = [list EXCEPT ![i] = h]
    <3>1. new = IF i > Len(list) THEN Append(list, g) ELSE [list EXCEPT ![i] = h]
      BY DEF P!Noted
    <3> HIDE DEF new, i, g, h
    <3> QED
      BY <2>2, <3>1, Zenon
  <2> HIDE DEF i
  <2>4. h \in P!Group /\ n \in h.who /\ lines \subseteq h.lines /\ h.printed = list[i].printed
        /\ list[i].who \subseteq h.who /\ list[i].lines \subseteq h.lines
    <3>1. /\ list[i].lines \cup lines \in SUBSET (SplitNicks \X P!Buffers)
          /\ list[i].who \cup {n} \in SUBSET SplitNicks
      BY <1>0, <2>2 DEF P!Group
    <3>2. /\ h \in P!Group /\ h.printed = FALSE /\ h.lines = list[i].lines \cup lines
          /\ h.who = list[i].who \cup {n}
      <4> DEFINE both == list[i].lines \cup lines
                 all == list[i].who \cup {n}
      <4>1. both \in SUBSET (SplitNicks \X P!Buffers) /\ all \in SUBSET SplitNicks
        BY <3>1
      <4>2. h = P!Entry(pair, both, all)
        OBVIOUS
      <4> HIDE DEF both, all
      <4>3. /\ P!Entry(pair, both, all) \in P!Group /\ P!Entry(pair, both, all).printed = FALSE
            /\ P!Entry(pair, both, all).lines = both /\ P!Entry(pair, both, all).who = all
        BY <4>1, EntryFacts, Zenon
      <4> QED
        BY <2>2, <4>2, <4>3 DEF both, all
    <3> HIDE DEF h
    <3> QED
      BY <2>2, <3>2
  <2> HIDE DEF h
  <2>5. /\ new \in Seq(P!Group) /\ Len(new) = Len(list) /\ new[i] = h
        /\ \A j \in DOMAIN list : j # i => new[j] = list[j]
    BY <1>0, <2>2, <2>3, <2>4
  <2> HIDE DEF new
  <2> QED
    BY <1>0, <2>2, <2>4, <2>5 DEF Grows, new, i
<1> QED
  BY <1>1, <1>2

(* Something kept off the screen waits in an unprinted group.              *)
WaitsIn(list, line) == \E i \in DOMAIN list : ~list[i].printed /\ line \in list[i].lines
HiddenWaits(h) == \/ h[1] = "quit" /\ WaitsIn(groups, <<h[2], h[3]>>)
                  \/ h[1] = "join" /\ WaitsIn(netjoins, <<h[2], h[3]>>)
SplitInv == P!TypeOK /\ P!IndexIsSound /\ \A h \in hidden : HiddenWaits(h)

LEMMA HiddenIsWaitingMeans == P!HiddenIsWaiting <=> \A h \in hidden : HiddenWaits(h)
<1>1. ASSUME NEW word, NEW list, NEW w, NEW line
      PROVE  <<w, line>> \in P!Waiting(word, list) <=> w = word /\ WaitsIn(list, line)
  BY DEF P!Waiting, WaitsIn
<1>2. ASSUME NEW h
      PROVE  <<h[1], <<h[2], h[3]>>>> \in P!Waiting("quit", groups) \cup P!Waiting("join", netjoins)
             <=> HiddenWaits(h)
  <2> DEFINE line == <<h[2], h[3]>>
             w == h[1]
  <2> HIDE DEF line, w
  <2>1. /\ <<w, line>> \in P!Waiting("quit", groups) <=> w = "quit" /\ WaitsIn(groups, line)
        /\ <<w, line>> \in P!Waiting("join", netjoins) <=> w = "join" /\ WaitsIn(netjoins, line)
    BY <1>1
  <2>2. <<w, line>> \in P!Waiting("quit", groups) \cup P!Waiting("join", netjoins)
        <=> \/ w = "quit" /\ WaitsIn(groups, line)
            \/ w = "join" /\ WaitsIn(netjoins, line)
    BY <2>1
  <2> QED
    BY <2>2 DEF HiddenWaits, line, w
<1> QED
  BY <1>2 DEF P!HiddenIsWaiting

LEMMA WaitsOn ==
  ASSUME NEW list \in Seq(P!Group), NEW new, Grows(list, new), NEW line, WaitsIn(list, line)
  PROVE  WaitsIn(new, line)
<1>1. PICK i \in DOMAIN list : ~list[i].printed /\ line \in list[i].lines
  BY DEF WaitsIn
<1>2. i \in DOMAIN new
  BY DEF Grows
<1> QED
  BY <1>1, <1>2 DEF Grows, WaitsIn

LEMMA SplitInit == P!Init => SplitInv
<1> SUFFICES ASSUME P!Init PROVE SplitInv
  OBVIOUS
<1>1. <<>> \in Seq(P!Group) /\ Len(<<>>) = 0 /\ SplitMaxSteps \in Nat
  BY SplitsAssumption, EmptySeq DEF P!NetsplitAssumption
<1>2. P!TypeOK
  BY <1>1 DEF P!Init, P!TypeOK
<1> QED
  BY <1>2 DEF P!Init, SplitInv, P!IndexIsSound

LEMMA SplitQuitKeeps ==
  ASSUME SplitInv, NEW n \in SplitNicks, NEW net0 \in SplitNetworks, NEW pair \in SplitPairs,
         P!SplitQuit(n, net0, pair), splits_steps' \in 0 .. SplitMaxSteps
  PROVE  SplitInv'
<1> DEFINE affected == {b \in net0 : n \in present[b]}
           lines == {n} \X affected
           i == P!Current(groups, pair)
<1>1. /\ affected \subseteq P!Buffers /\ net0 \subseteq P!Buffers
      /\ lines \in SUBSET (SplitNicks \X P!Buffers)
  BY DEF P!Buffers
<1>2. /\ groups' = P!Noted(groups, pair, n, lines) /\ index' = [index EXCEPT ![n] = i]
      /\ hidden' = hidden \cup ({"quit"} \X {n} \X affected)
      /\ netjoins' = netjoins /\ back' = back \ ({n} \X net0)
      /\ present' = [b \in P!Buffers |-> IF b \in net0 THEN present[b] \ {n} ELSE present[b]]
  BY DEF P!SplitQuit
<1>3. groups \in Seq(P!Group) /\ netjoins \in Seq(P!Group)
  BY DEF SplitInv, P!TypeOK
<1> HIDE DEF i, affected
<1>4. /\ Grows(groups, groups')
      /\ i \in 1 .. Len(groups') /\ n \in groups'[i].who
      /\ lines \subseteq groups'[i].lines /\ ~groups'[i].printed
  BY <1>1, <1>2, <1>3, Noting DEF i
<1>5. /\ Len(groups) \in Nat /\ Len(groups') \in Nat /\ Len(groups) <= Len(groups')
      /\ groups' \in Seq(P!Group)
  BY <1>3, <1>4 DEF Grows
<1>6. P!TypeOK'
  <2>1. present' \in [P!Buffers -> SUBSET SplitNicks]
    BY <1>2 DEF SplitInv, P!TypeOK
  <2>2. index' \in [SplitNicks -> 0 .. Len(groups')]
    <3>1. index \in [SplitNicks -> 0 .. Len(groups)]
      BY DEF SplitInv, P!TypeOK
    <3>2. index' = [index EXCEPT ![n] = i] /\ i \in 0 .. Len(groups')
      BY <1>2, <1>4, <1>5
    <3>3. 0 .. Len(groups) \subseteq 0 .. Len(groups')
      BY <1>5
    <3> QED
      BY <3>1, <3>2, <3>3, Zenon
  <2>3. hidden' \in SUBSET (P!Quits \cup P!Joins)
    BY <1>1, <1>2 DEF SplitInv, P!TypeOK, P!Quits
  <2>4. back' \in SUBSET (SplitNicks \X P!Buffers)
    BY <1>2 DEF SplitInv, P!TypeOK
  <2> QED
    BY <1>2, <1>3, <1>5, <2>1, <2>2, <2>3, <2>4 DEF P!TypeOK
<1>7. P!IndexIsSound'
  <2> SUFFICES ASSUME NEW m \in SplitNicks, index'[m] # 0
               PROVE  index'[m] <= Len(groups') /\ m \in groups'[index'[m]].who
    BY DEF P!IndexIsSound
  <2>1. CASE m = n
    BY <1>2, <1>4, <2>1 DEF SplitInv, P!TypeOK
  <2>2. CASE m # n
    <3>1. index'[m] = index[m] /\ index[m] \in 0 .. Len(groups) /\ m \in groups[index[m]].who
      BY <1>2, <2>2 DEF SplitInv, P!TypeOK, P!IndexIsSound
    <3>2. index[m] \in DOMAIN groups
      BY <1>3, <1>5, <3>1
    <3> QED
      BY <1>4, <1>5, <3>1, <3>2 DEF Grows
  <2> QED
    BY <2>1, <2>2
<1>8. ASSUME NEW h \in hidden' PROVE HiddenWaits(h)'
  <2>1. CASE h \in hidden
    <3>1. HiddenWaits(h)
      BY <2>1 DEF SplitInv
    <3> QED
      BY <1>2, <1>3, <1>4, <3>1, WaitsOn DEF HiddenWaits
  <2>2. CASE h \in {"quit"} \X {n} \X affected
    <3>1. h[1] = "quit" /\ <<h[2], h[3]>> \in lines
      BY <2>2
    <3>2. i \in DOMAIN groups'
      BY <1>4, <1>5
    <3> QED
      BY <1>4, <3>1, <3>2 DEF HiddenWaits, WaitsIn
  <2> QED
    BY <1>2, <2>1, <2>2
<1> QED
  BY <1>6, <1>7, <1>8 DEF SplitInv

LEMMA JoinKeeps ==
  ASSUME SplitInv, NEW n \in SplitNicks, NEW b \in P!Buffers,
         P!Join(n, b), splits_steps' \in 0 .. SplitMaxSteps
  PROVE  SplitInv'
<1>1. groups \in Seq(P!Group) /\ netjoins \in Seq(P!Group) /\ Len(groups) \in Nat
  BY DEF SplitInv, P!TypeOK
<1>2. groups' = groups /\ present' \in [P!Buffers -> SUBSET SplitNicks]
  BY DEF P!Join, SplitInv, P!TypeOK
<1>3. CASE index[n] = 0
  <2>1. UNCHANGED <<netjoins, index, hidden, back>>
    BY <1>3 DEF P!Join
  <2>2. P!TypeOK'
    BY <1>2, <2>1 DEF SplitInv, P!TypeOK
  <2>3. P!IndexIsSound'
    BY <1>2, <2>1 DEF SplitInv, P!IndexIsSound
  <2> QED
    BY <1>2, <2>1, <2>2, <2>3 DEF SplitInv, HiddenWaits
<1>4. CASE index[n] # 0
  <2> DEFINE pair == groups[index[n]].pair
             lines == {<<n, b>>}
             i == P!Current(netjoins, pair)
  <2>1. /\ netjoins' = P!Noted(netjoins, pair, n, lines) /\ index' = [index EXCEPT ![n] = 0]
        /\ hidden' = hidden \cup {<<"join", n, b>>} /\ back' = back \cup {<<n, b>>}
    BY <1>4 DEF P!Join
  <2>2. pair \in SplitPairs /\ lines \in SUBSET (SplitNicks \X P!Buffers)
    <3>1. index[n] \in DOMAIN groups
      BY <1>1, <1>4 DEF SplitInv, P!TypeOK
    <3>2. groups[index[n]] \in P!Group
      BY <1>1, <3>1
    <3> QED
      BY <3>2 DEF P!Group
  <2> HIDE DEF i, pair
  <2>3. /\ Grows(netjoins, netjoins')
        /\ i \in 1 .. Len(netjoins') /\ lines \subseteq netjoins'[i].lines /\ ~netjoins'[i].printed
    BY <1>1, <2>1, <2>2, Noting DEF i
  <2>4. netjoins' \in Seq(P!Group) /\ i \in DOMAIN netjoins'
    BY <2>3 DEF Grows
  <2>5. P!TypeOK'
    <3>1. index' \in [SplitNicks -> 0 .. Len(groups')]
      BY <1>1, <1>2, <2>1 DEF SplitInv, P!TypeOK
    <3>2. hidden' \in SUBSET (P!Quits \cup P!Joins)
      BY <2>1 DEF SplitInv, P!TypeOK, P!Joins
    <3>3. back' \in SUBSET (SplitNicks \X P!Buffers)
      BY <2>1 DEF SplitInv, P!TypeOK
    <3> QED
      BY <1>1, <1>2, <2>4, <3>1, <3>2, <3>3 DEF P!TypeOK
  <2>6. P!IndexIsSound'
    BY <1>2, <2>1 DEF SplitInv, P!TypeOK, P!IndexIsSound
  <2>7. ASSUME NEW h \in hidden' PROVE HiddenWaits(h)'
    <3>1. CASE h \in hidden
      <4>1. HiddenWaits(h)
        BY <3>1 DEF SplitInv
      <4> QED
        BY <1>1, <1>2, <2>3, <4>1, WaitsOn DEF HiddenWaits
    <3>2. CASE h = <<"join", n, b>>
      BY <2>3, <2>4, <3>2 DEF HiddenWaits, WaitsIn
    <3> QED
      BY <2>1, <3>1, <3>2
  <2> QED
    BY <2>5, <2>6, <2>7 DEF SplitInv
<1> QED
  BY <1>3, <1>4

LEMMA LeaveKeeps ==
  ASSUME SplitInv, NEW n \in SplitNicks, NEW b \in P!Buffers,
         P!Leave(n, b), splits_steps' \in 0 .. SplitMaxSteps
  PROVE  SplitInv'
<1>1. UNCHANGED <<groups, index, netjoins, hidden, back>>
  BY DEF P!Leave
<1>2. present' \in [P!Buffers -> SUBSET SplitNicks]
  BY DEF P!Leave, SplitInv, P!TypeOK
<1>3. P!TypeOK'
  BY <1>1, <1>2 DEF SplitInv, P!TypeOK
<1> QED
  BY <1>1, <1>3 DEF SplitInv, P!IndexIsSound, HiddenWaits

(* A tick announces what is ready; what is not, is not old enough to go.   *)
LEMMA WaitsOverTick ==
  ASSUME NEW list \in Seq(P!Group), NEW line, WaitsIn(list, line)
  PROVE  \/ WaitsIn(P!Kept(list), line)
         \/ \A word : <<word, line>> \in P!Printed(word, list)
<1>1. PICK i \in DOMAIN list : ~list[i].printed /\ line \in list[i].lines
  BY DEF WaitsIn
<1>2. list[i] \in P!Group
  OBVIOUS
<1>3. CASE P!Ready(list[i])
  BY <1>1, <1>3 DEF P!Printed
<1>4. CASE ~P!Ready(list[i])
  <2>1. list[i].quiet < 2
    BY <1>1, <1>2, <1>4 DEF P!Ready, P!Group, P!Quiet
  <2>2. PICK k \in DOMAIN P!Kept(list) : P!Kept(list)[k] = P!Marked(list[i])
    BY <2>1, Keeping
  <2>3. P!Marked(list[i]).lines = list[i].lines /\ ~P!Marked(list[i]).printed
    BY <1>1, <1>2, <1>4 DEF P!Marked, P!Group
  <2> QED
    BY <1>1, <2>2, <2>3 DEF WaitsIn
<1> QED
  BY <1>3, <1>4

LEMMA RebuiltIsSound ==
  ASSUME NEW list \in Seq(P!Group), NEW n \in SplitNicks
  PROVE  LET i == P!Rebuilt(list)[n] IN
         i \in 0 .. Len(list) /\ (i # 0 => n \in list[i].who)
<1> DEFINE with == {i \in DOMAIN list : n \in list[i].who}
<1>1. with \in SUBSET (1 .. Len(list)) /\ Len(list) \in Nat
  OBVIOUS
<1>2. P!Rebuilt(list)[n] = IF with = {} THEN 0 ELSE CHOOSE i \in with : \A j \in with : i >= j
  BY DEF P!Rebuilt
<1>3. CASE with = {}
  BY <1>1, <1>2, <1>3
<1>4. CASE with # {}
  <2>1. \E i \in with : \A j \in with : i >= j
    BY <1>1, <1>4, Greatest
  <2>2. P!Rebuilt(list)[n] \in with
    BY <1>2, <1>4, <2>1
  <2> QED
    BY <1>1, <2>2
<1> QED
  BY <1>3, <1>4

LEMMA TickKeepsSplits ==
  ASSUME SplitInv, P!Tick PROVE SplitInv'
<1>1. groups \in Seq(P!Group) /\ netjoins \in Seq(P!Group)
  BY DEF SplitInv, P!TypeOK
<1>2. /\ groups' = P!Kept(groups) /\ netjoins' = P!Kept(netjoins)
      /\ index' = P!Rebuilt(groups')
      /\ hidden' = hidden \ (P!Announced("quit", groups) \cup P!Announced("join", netjoins))
      /\ UNCHANGED <<present, back, splits_steps>>
  BY DEF P!Tick
<1>3. groups' \in Seq(P!Group) /\ netjoins' \in Seq(P!Group)
  BY <1>1, <1>2, Keeping
<1>4. \A n \in SplitNicks : /\ index'[n] \in 0 .. Len(groups')
                            /\ index'[n] # 0 => n \in groups'[index'[n]].who
  BY <1>2, <1>3, RebuiltIsSound
<1>5. index' \in [SplitNicks -> 0 .. Len(groups')]
  BY <1>2, <1>4 DEF P!Rebuilt
<1>6. P!TypeOK'
  BY <1>2, <1>3, <1>5 DEF SplitInv, P!TypeOK
<1>7. P!IndexIsSound'
  BY <1>3, <1>4 DEF P!IndexIsSound
<1>8. ASSUME NEW h \in hidden' PROVE HiddenWaits(h)'
  <2>1. h \in hidden /\ HiddenWaits(h) /\ h \in P!Quits \cup P!Joins
    BY <1>2 DEF SplitInv, P!TypeOK
  <2>2. h = <<h[1], h[2], h[3]>>
    BY <2>1 DEF P!Quits, P!Joins
  <2>3. ASSUME NEW word, NEW list, <<word, <<h[2], h[3]>>>> \in P!Printed(word, list), h[1] = word
        PROVE  h \in P!Announced(word, list)
    <3> DEFINE l == <<word, <<h[2], h[3]>>>>
    <3>1. l \in P!Printed(word, list) /\ <<word, l[2][1], l[2][2]>> = h
      BY <2>2, <2>3
    <3> QED
      BY <3>1 DEF P!Announced
  <2>4. CASE h[1] = "quit" /\ WaitsIn(groups, <<h[2], h[3]>>)
    <3>1. ~(<<"quit", <<h[2], h[3]>>>> \in P!Printed("quit", groups))
      BY <1>2, <2>3, <2>4
    <3> QED
      BY <1>1, <1>2, <2>4, <3>1, WaitsOverTick DEF HiddenWaits
  <2>5. CASE h[1] = "join" /\ WaitsIn(netjoins, <<h[2], h[3]>>)
    <3>1. ~(<<"join", <<h[2], h[3]>>>> \in P!Printed("join", netjoins))
      BY <1>2, <2>3, <2>5
    <3> QED
      BY <1>1, <1>2, <2>5, <3>1, WaitsOverTick DEF HiddenWaits
  <2> QED
    BY <2>1, <2>4, <2>5 DEF HiddenWaits
<1> QED
  BY <1>6, <1>7, <1>8 DEF SplitInv

LEMMA OlderGrows ==
  ASSUME NEW list \in Seq(P!Group), NEW i \in DOMAIN list, list[i].quiet < 2
  PROVE  LET new == [list EXCEPT ![i].quiet = @ + 1] IN Grows(list, new) /\ Len(new) = Len(list)
<1> DEFINE g == [list[i] EXCEPT !.quiet = @ + 1]
           new == [list EXCEPT ![i].quiet = @ + 1]
<1>1. list[i] \in P!Group /\ Len(list) \in Nat
  OBVIOUS
<1>2. /\ g \in P!Group /\ g.who = list[i].who /\ g.lines = list[i].lines
      /\ g.printed = list[i].printed
  BY <1>1 DEF P!Group, P!Quiet
<1>3. new = [list EXCEPT ![i] = g]
  OBVIOUS
<1> HIDE DEF g, new
<1>4. /\ new \in Seq(P!Group) /\ Len(new) = Len(list) /\ new[i] = g
      /\ \A j \in DOMAIN list : j # i => new[j] = list[j]
  BY <1>1, <1>2, <1>3
<1> QED
  BY <1>1, <1>2, <1>4 DEF Grows, new

LEMMA TimePassesKeeps ==
  ASSUME SplitInv, P!TimePasses PROVE SplitInv'
<1>1. groups \in Seq(P!Group) /\ netjoins \in Seq(P!Group)
  BY DEF SplitInv, P!TypeOK
<1>2. UNCHANGED <<present, index, hidden, back, splits_steps>>
  BY DEF P!TimePasses
<1>3. /\ Grows(groups, groups') /\ Len(groups') = Len(groups)
      /\ Grows(netjoins, netjoins')
  <2>0. \A list \in Seq(P!Group) : Grows(list, list)
    BY DEF Grows
  <2>1. ASSUME NEW i \in DOMAIN groups, groups[i].quiet < 2,
               groups' = [groups EXCEPT ![i].quiet = @ + 1], UNCHANGED netjoins
        PROVE  Grows(groups, groups') /\ Len(groups') = Len(groups) /\ Grows(netjoins, netjoins')
    BY <1>1, <2>0, <2>1, OlderGrows
  <2>2. ASSUME NEW i \in DOMAIN netjoins, netjoins[i].quiet < 2,
               netjoins' = [netjoins EXCEPT ![i].quiet = @ + 1], UNCHANGED groups
        PROVE  Grows(groups, groups') /\ Len(groups') = Len(groups) /\ Grows(netjoins, netjoins')
    BY <1>1, <2>0, <2>2, OlderGrows
  <2> QED
    BY <2>1, <2>2 DEF P!TimePasses
<1>4. P!TypeOK'
  BY <1>2, <1>3 DEF SplitInv, P!TypeOK, Grows
<1>5. P!IndexIsSound'
  <2> SUFFICES ASSUME NEW n \in SplitNicks, index[n] # 0
               PROVE  index[n] <= Len(groups') /\ n \in groups'[index[n]].who
    BY <1>2 DEF P!IndexIsSound
  <2>1. index[n] \in DOMAIN groups /\ n \in groups[index[n]].who /\ index[n] <= Len(groups)
    BY <1>1 DEF SplitInv, P!TypeOK, P!IndexIsSound
  <2> QED
    BY <1>3, <2>1 DEF Grows
<1>6. ASSUME NEW h \in hidden' PROVE HiddenWaits(h)'
  <2>1. HiddenWaits(h)
    BY <1>2, <1>6 DEF SplitInv
  <2> QED
    BY <1>1, <1>3, <2>1, WaitsOn DEF HiddenWaits
<1> QED
  BY <1>4, <1>5, <1>6 DEF SplitInv

LEMMA SplitStep == SplitInv /\ [P!Next]_(P!vars) => SplitInv'
<1> SUFFICES ASSUME SplitInv, [P!Next]_(P!vars) PROVE SplitInv'
  OBVIOUS
<1>0. SplitMaxSteps \in Nat
  BY SplitsAssumption DEF P!NetsplitAssumption
<1>1. CASE P!Message
  <2>1. splits_steps' \in 0 .. SplitMaxSteps
    BY <1>0, <1>1 DEF P!Message, SplitInv, P!TypeOK
  <2>2. \A net0 \in SplitNetworks : net0 \subseteq P!Buffers
    BY DEF P!Buffers
  <2> QED
    BY <1>1, <2>1, <2>2, SplitQuitKeeps, JoinKeeps, LeaveKeeps DEF P!Message
<1>2. CASE UNCHANGED P!vars
  BY <1>2 DEF P!vars, SplitInv, P!TypeOK, P!IndexIsSound, HiddenWaits, WaitsIn
<1> QED
  BY <1>1, <1>2, TickKeepsSplits, TimePassesKeeps DEF P!Next

(* Netsplits (SplitsAreAnnounced): the index of the nicks always points at *)
(* a group that has the nick, and every quit or join kept off the screen   *)
(* is in a group that will be announced; for any nicks, servers, networks  *)
(* and number of messages, in any order with ticks and sleeps.             *)
THEOREM Splits == MCSpec => []SplitsAreAnnounced
<1> DEFINE Inv == part = "splits" => SplitInv
<1>1. MCInit => Inv
  BY SplitInit DEF MCInit
<1>2. Inv /\ [MCNext]_mcVars => Inv'
  <2> SUFFICES ASSUME part = "splits" => SplitInv, [MCNext]_mcVars, part' = "splits" PROVE SplitInv'
    OBVIOUS
  <2>1. part = "splits" /\ [P!Next]_(P!vars)
    BY DEF MCNext, mcVars, splitsVars, P!vars, LimitsOnly, FloodOnly, SplitsOnly, FileOnly,
           ConfigOnly, ScriptsOnly, StateOnly, WizardOnly, ThumbsOnly, LoginOnly
  <2> QED
    BY <2>1, SplitStep
<1>3. Inv => SplitsAreAnnounced
  BY HiddenIsWaitingMeans DEF SplitsAreAnnounced, IndexIsSound, HiddenIsWaiting, SplitInv
<1> QED
  BY <1>1, <1>2, <1>3, PTL DEF MCSpec

-----------------------------------------------------------------------------
(* The limits on key requests (E2eRateLimiter).                            *)

InOrder(s) == \A i, j \in DOMAIN s : i <= j => s[i] <= s[j]
(* The window is the last of what was let through; all that was let through *)
(* before it, Past requests, is out of the window; and a back-off is       *)
(* counted from the last of them.                                          *)
Past == Len(accepted) - Len(recent)
Receiver ==
  /\ InOrder(accepted) /\ Past >= 0
  /\ \A i \in DOMAIN recent : recent[i] = accepted[Past + i]
  /\ \A i \in DOMAIN accepted : i <= Past => now - accepted[i] > Window
  /\ backoffUntil # 0 =>
       /\ refused /\ Len(accepted) = MaxPerWindow
       /\ \A i \in DOMAIN accepted : accepted[i] + Backoff <= backoffUntil
       /\ backoffUntil <= accepted[Len(accepted)] + Window + Backoff
(* The sender's requests are Gap apart, so those n apart are n * Gap apart: *)
(* in the network, and up to MaxDelay less from there to the window.       *)
Apart(late, early, n) == late - early >= n * Gap
Sender ==
  /\ ~refused
  /\ lastSent = 0 => net = <<>> /\ recent = <<>>
  /\ \A j \in DOMAIN net : Apart(lastSent, net[j], Len(net) - j)
  /\ \A j, l \in DOMAIN net : j <= l => Apart(net[l], net[j], l - j)
  /\ \A i \in DOMAIN recent :
       /\ Apart(lastSent + MaxDelay, recent[i], Len(recent) - i + Len(net))
       /\ \A j \in DOMAIN net : Apart(net[j] + MaxDelay, recent[i], Len(recent) - i + j)
(* TypeOK, with the bounds one by one.                                     *)
LimTypes ==
  /\ now \in Nat /\ now >= 1 /\ now <= Horizon /\ lastSent \in Nat /\ lastSent <= now
  /\ lastKeyReq \in Nat /\ lastKeyReq <= now
  /\ net \in Seq(1 .. now) /\ recent \in Seq(1 .. now) /\ accepted \in Seq(1 .. now)
  /\ Len(recent) <= MaxPerWindow /\ Len(accepted) <= MaxPerWindow
  /\ backoffUntil \in Nat /\ backoffUntil <= now + Backoff
  /\ spacing \in Nat /\ spacing <= Horizon /\ refused \in BOOLEAN /\ manual \in BOOLEAN
(* Nothing is late, and the network keeps the order.                       *)
Due == InOrder(net) /\ \A j \in DOMAIN net : now <= net[j] + MaxDelay
(* MaxPerWindow automatic requests take longer than the window.            *)
Fits == MaxPerWindow * Gap > Window + MaxDelay
LimInv == LimTypes /\ Due /\ Receiver /\ (Fits /\ ~manual => Sender)

(* The assumption on the constants, one by one.                            *)
LEMMA Constants ==
  /\ Gap \in Nat /\ Window \in Nat /\ MaxPerWindow \in Nat /\ MaxPerWindow > 0 /\ Backoff \in Nat
  /\ MaxDelay \in Nat /\ Horizon \in Nat /\ Horizon > 0 /\ MaxInFlight \in Nat /\ Window < Backoff
BY LimiterAssumption

(* A sequence of times up to now is one up to any later time.              *)
LEMMA Times ==
  ASSUME NEW s \in Seq(1 .. now), now \in Nat
  PROVE  /\ Len(s) \in Nat /\ DOMAIN s = 1 .. Len(s)
         /\ \A i : i \in DOMAIN s <=> i \in Int /\ 1 <= i /\ i <= Len(s)
         /\ \A i \in DOMAIN s : s[i] \in Nat /\ s[i] >= 1 /\ s[i] <= now
         /\ \A t \in Nat : t >= now => s \in Seq(1 .. t)
<1>1. Len(s) \in Nat /\ DOMAIN s = 1 .. Len(s) /\ \A i \in DOMAIN s : s[i] \in 1 .. now
  OBVIOUS
<1>2. ASSUME NEW t \in Nat, t >= now PROVE s \in Seq(1 .. t)
  <2>1. \A i \in 1 .. Len(s) : s[i] \in 1 .. t
    BY <1>1, <1>2
  <2> QED
    BY <1>1, <2>1
<1> QED
  BY <1>1, <1>2

(* Adding now to a sequence of times keeps it in order.                    *)
LEMMA Later ==
  ASSUME NEW s \in Seq(1 .. now), now \in Nat, now >= 1
  PROVE  /\ Append(s, now) \in Seq(1 .. now) /\ Len(Append(s, now)) = Len(s) + 1
         /\ Append(s, now)[Len(s) + 1] = now
         /\ \A i \in DOMAIN s : Append(s, now)[i] = s[i]
         /\ InOrder(s) => InOrder(Append(s, now))
<1>1. now \in 1 .. now
  OBVIOUS
<1>2. /\ Append(s, now) \in Seq(1 .. now) /\ Len(Append(s, now)) = Len(s) + 1
      /\ Append(s, now)[Len(s) + 1] = now
      /\ \A i \in DOMAIN s : Append(s, now)[i] = s[i]
  BY <1>1
<1> DEFINE r == Append(s, now)
<1>3. /\ Len(s) \in Nat /\ DOMAIN s = 1 .. Len(s) /\ DOMAIN r = 1 .. Len(s) + 1
      /\ \A i \in DOMAIN s : s[i] \in Nat /\ s[i] <= now
  BY <1>2, Times
<1> HIDE DEF r
<1>4. InOrder(s) => InOrder(r)
  BY <1>2, <1>3 DEF InOrder, r
<1> QED
  BY <1>2, <1>4 DEF r

(* So does taking the first away.                                          *)
LEMMA Earlier ==
  ASSUME NEW s \in Seq(1 .. now), now \in Nat, s # <<>>
  PROVE  /\ Tail(s) \in Seq(1 .. now) /\ Len(Tail(s)) = Len(s) - 1 /\ Len(s) > 0
         /\ 1 \in DOMAIN s /\ Head(s) = s[1] /\ DOMAIN Tail(s) = 1 .. Len(s) - 1
         /\ \A i \in DOMAIN Tail(s) : Tail(s)[i] = s[i + 1] /\ i + 1 \in DOMAIN s
         /\ InOrder(s) => InOrder(Tail(s))
<1>1. Len(s) \in Nat /\ Len(s) # 0
  BY EmptySeq, Zenon
<1>2. /\ Tail(s) \in Seq(1 .. now) /\ Len(Tail(s)) = Len(s) - 1 /\ Len(s) > 0
      /\ 1 \in DOMAIN s /\ Head(s) = s[1] /\ DOMAIN Tail(s) = 1 .. Len(s) - 1
      /\ \A i \in DOMAIN Tail(s) : Tail(s)[i] = s[i + 1] /\ i + 1 \in DOMAIN s
  BY <1>1
<1> DEFINE r == Tail(s)
<1>3. \A i \in DOMAIN r : i \in Nat
  BY <1>1, <1>2
<1> HIDE DEF r
<1>4. InOrder(s) => InOrder(r)
  BY <1>2, <1>3 DEF InOrder, r
<1> QED
  BY <1>2, <1>4 DEF r

(* Multiples of Gap add up.                                                *)
LEMMA Multiples ==
  /\ \A n \in Int : n * Gap \in Int
  /\ \A n \in Int, m \in Int : (n + m) * Gap = n * Gap + m * Gap
BY Constants

(* Requests that are n and m apart are n + m apart.                        *)
LEMMA Adding ==
  ASSUME NEW a \in Int, NEW b \in Int, NEW c \in Int, NEW n \in Int, NEW m \in Int,
         Apart(c, b, m), Apart(b, a, n)
  PROVE  Apart(c, a, n + m)
<1>1. /\ (n + m) * Gap = n * Gap + m * Gap /\ n * Gap \in Int /\ m * Gap \in Int
  BY Multiples
<1> QED
  BY <1>1 DEF Apart

LEMMA LimitsInit == ASSUME Init PROVE LimInv
<1> USE DEF Init
<1>1. << >> \in Seq(1 .. 1) /\ Len(<< >>) = 0 /\ DOMAIN << >> = {}
  BY EmptySeq
<1>2. LimTypes
  <2>1. << >> \in Seq(1 .. now) /\ Len(<< >>) <= MaxPerWindow
    BY <1>1, Constants
  <2> QED
    <3>1. /\ now \in Nat /\ now >= 1 /\ now <= Horizon /\ backoffUntil <= now + Backoff
          /\ 0 \in Nat /\ 0 <= now /\ spacing \in Nat /\ spacing <= Horizon
      BY Constants
    <3>2. lastSent = 0 /\ lastKeyReq = 0 /\ backoffUntil = 0 /\ refused \in BOOLEAN /\ manual \in BOOLEAN
      OBVIOUS
    <3>3. /\ net \in Seq(1 .. now) /\ recent \in Seq(1 .. now) /\ accepted \in Seq(1 .. now)
          /\ Len(recent) <= MaxPerWindow /\ Len(accepted) <= MaxPerWindow
      BY <2>1
    <3> QED
      BY <3>1, <3>2, <3>3, Zenon DEF LimTypes
<1>3. Due /\ Receiver /\ Sender
  BY <1>1 DEF Due, Receiver, Sender, InOrder, Past
<1> QED
  BY <1>2, <1>3 DEF LimInv

LEMMA TickKeepsLimits == ASSUME LimInv, Tick PROVE LimInv'
<1> USE DEF LimInv
<1>1. /\ now' = now + 1 /\ now < Horizon
      /\ UNCHANGED <<lastSent, net, recent, backoffUntil, lastKeyReq, spacing, accepted, refused, manual>>
      /\ net # <<>> => now < Head(net) + MaxDelay
  BY DEF Tick
<1>2. /\ \A i \in DOMAIN net : net[i] \in Nat
      /\ \A i \in DOMAIN accepted : accepted[i] \in Nat
  BY Times DEF LimTypes
<1>3. LimTypes'
  <2>1. now + 1 \in Nat /\ now + 1 >= now /\ now \in Nat
    BY DEF LimTypes
  <2>2. net \in Seq(1 .. now + 1) /\ recent \in Seq(1 .. now + 1) /\ accepted \in Seq(1 .. now + 1)
    BY <2>1, Times DEF LimTypes
  <2> QED
    BY <1>1, <2>1, <2>2, Constants DEF LimTypes
<1>4. Due'
  <2>1. ASSUME NEW j \in DOMAIN net PROVE now + 1 <= net[j] + MaxDelay
    <3>1. net # <<>>
      BY EmptySeq
    <3>2. 1 \in DOMAIN net /\ Head(net) = net[1] /\ 1 <= j
      BY <3>1, Earlier, Times DEF LimTypes
    <3>3. net[1] <= net[j]
      BY <3>2 DEF Due, InOrder
    <3>4. net[1] \in Nat /\ net[j] \in Nat /\ MaxDelay \in Nat /\ now \in Nat
      BY <1>2, <3>2, Constants DEF LimTypes
    <3>5. now < net[1] + MaxDelay
      BY <1>1, <3>1, <3>2
    <3> QED
      BY <3>3, <3>4, <3>5
  <2> QED
    BY <1>1, <2>1 DEF Due, InOrder
<1>5. Receiver'
  <2>1. Past' = Past
    BY <1>1 DEF Past
  <2>2. \A i \in DOMAIN accepted : i <= Past => now + 1 - accepted[i] > Window
    BY <1>2, Constants DEF Receiver, LimTypes
  <2>3. InOrder(accepted')
    BY <1>1 DEF Receiver, InOrder
  <2>4. Past' >= 0 /\ \A i \in DOMAIN recent' : recent'[i] = accepted'[Past' + i]
    BY <1>1, <2>1 DEF Receiver
  <2>5. \A i \in DOMAIN accepted' : i <= Past' => now' - accepted'[i] > Window
    <3>1. accepted' = accepted /\ now' = now + 1 /\ Past \in Int
      BY <1>1, Times DEF Past, LimTypes
    <3> SUFFICES ASSUME NEW i \in DOMAIN accepted', i <= Past' PROVE now' - accepted'[i] > Window
      OBVIOUS
    <3>2. i \in DOMAIN accepted /\ i <= Past /\ accepted'[i] = accepted[i]
      BY <2>1, <3>1
    <3> QED
      BY <1>2, <2>2, <3>1, <3>2, Constants DEF LimTypes
  <2>6. backoffUntil' # 0 =>
          /\ refused' /\ Len(accepted') = MaxPerWindow
          /\ \A i \in DOMAIN accepted' : accepted'[i] + Backoff <= backoffUntil'
          /\ backoffUntil' <= accepted'[Len(accepted')] + Window + Backoff
    BY <1>1 DEF Receiver
  <2> QED
    BY <2>3, <2>4, <2>5, <2>6 DEF Receiver
<1>6. Fits /\ ~manual' => Sender'
  BY <1>1 DEF Sender, Apart
<1> QED
  BY <1>3, <1>4, <1>5, <1>6

(* A request leaves: now, and so after all others.                         *)
LEMMA Leaving ==
  ASSUME LimInv, SendKeyReq, UNCHANGED <<now, recent, backoffUntil, accepted, refused>>,
         lastSent' \in {lastSent, now}, manual' \in BOOLEAN
  PROVE  LimTypes' /\ Due' /\ Receiver' /\ net' = Append(net, now)
<1> USE DEF LimInv
<1>1. /\ net' = Append(net, now) /\ lastKeyReq' = now
      /\ spacing' = IF lastKeyReq = 0 THEN spacing ELSE Least(spacing, now - lastKeyReq)
  BY DEF SendKeyReq
<1>2. spacing' \in Nat /\ spacing' <= Horizon
  BY <1>1, Constants DEF Least, LimTypes
<1>3. /\ net' \in Seq(1 .. now) /\ (InOrder(net) => InOrder(net'))
      /\ Len(net') = Len(net) + 1 /\ net'[Len(net) + 1] = now /\ \A i \in DOMAIN net : net'[i] = net[i]
  BY <1>1, Later DEF LimTypes
<1>4. LimTypes'
  BY <1>1, <1>2, <1>3 DEF LimTypes
<1>5. Due'
  <2>1. Len(net) \in Nat /\ DOMAIN net = 1 .. Len(net) /\ DOMAIN net' = 1 .. Len(net) + 1
    BY <1>3, Times DEF LimTypes
  <2>2. ASSUME NEW j \in DOMAIN net' PROVE now' <= net'[j] + MaxDelay
    <3>1. CASE j \in DOMAIN net
      BY <1>3, <3>1 DEF Due
    <3>2. CASE j = Len(net) + 1
      BY <1>3, <3>2, Constants DEF LimTypes
    <3> QED
      BY <2>1, <3>1, <3>2
  <2>3. InOrder(net')
    BY <1>3 DEF Due
  <2> QED
    BY <2>2, <2>3 DEF Due
<1>6. Receiver'
  BY DEF Receiver, InOrder, Past
<1> QED
  BY <1>1, <1>4, <1>5, <1>6

LEMMA AutomaticKeepsLimits == ASSUME LimInv, AutomaticKeyReq PROVE LimInv'
<1> USE DEF LimInv
<1>1. /\ UNCHANGED <<now, recent, backoffUntil, accepted, refused, manual>> /\ lastSent' = now
      /\ lastSent # 0 => now - lastSent >= Gap
      /\ SendKeyReq
  BY DEF AutomaticKeyReq, AllowOutgoing
<1>2. LimTypes' /\ Due' /\ Receiver' /\ net' = Append(net, now)
  BY <1>1, Leaving DEF LimTypes
<1>3. ASSUME Fits, ~manual PROVE Sender'
  <2> DEFINE n == Len(net)
             r == Append(net, now)
  <2>1. /\ now \in Nat /\ now >= 1 /\ lastSent \in Nat /\ n \in Nat /\ DOMAIN net = 1 .. n
        /\ Len(recent) \in Nat /\ DOMAIN recent = 1 .. Len(recent)
        /\ \A i \in DOMAIN net : net[i] \in Nat /\ i \in Nat /\ i <= n
        /\ \A i \in DOMAIN recent : recent[i] \in Nat /\ i \in Nat /\ i <= Len(recent)
    BY Times DEF LimTypes
  <2>2. DOMAIN r = DOMAIN net \cup {n + 1} /\ Len(r) = n + 1 /\ r[n + 1] = now
        /\ \A i \in DOMAIN net : r[i] = net[i]
    <3>1. /\ r \in Seq(1 .. now) /\ Len(r) = n + 1 /\ r[n + 1] = now
          /\ \A i \in DOMAIN net : r[i] = net[i]
      BY <2>1, Later DEF LimTypes
    <3> HIDE DEF r
    <3>2. DOMAIN r = 1 .. n + 1
      BY <2>1, <3>1, Times
    <3> HIDE DEF n
    <3> QED
      BY <2>1, <3>1, <3>2
  <2> HIDE DEF n, r
  <2>3. Sender
    BY <1>3
  <2>4. DOMAIN net # {} \/ DOMAIN recent # {} => Apart(now, lastSent, 1)
    <3>1. net = <<>> => DOMAIN net = {}
      BY EmptySeq
    <3>2. recent = <<>> => DOMAIN recent = {}
      BY EmptySeq
    <3>3. 1 * Gap = Gap
      BY Constants
    <3> QED
      BY <1>1, <2>3, <3>1, <3>2, <3>3 DEF Sender, Apart
  <2>5. ASSUME NEW j \in DOMAIN net PROVE Apart(now, net[j], n + 1 - j)
    <3>1. Apart(lastSent, net[j], n - j) /\ n - j \in Int /\ n - j + 1 = n + 1 - j
      BY <2>1, <2>3 DEF Sender, n
    <3> QED
      BY <2>1, <2>4, <3>1, Adding
  <2>6. ASSUME NEW i \in DOMAIN recent PROVE Apart(now + MaxDelay, recent[i], Len(recent) - i + (n + 1))
    <3>1. Apart(lastSent + MaxDelay, recent[i], Len(recent) - i + n)
      BY <2>3 DEF Sender, n
    <3>2. Apart(now + MaxDelay, lastSent + MaxDelay, 1)
      BY <2>1, <2>4, Constants DEF Apart
    <3>3. Len(recent) - i + n \in Int /\ (Len(recent) - i + n) + 1 = Len(recent) - i + (n + 1)
      BY <2>1
    <3>4. lastSent + MaxDelay \in Int /\ now + MaxDelay \in Int /\ recent[i] \in Int /\ 1 \in Int
      BY <2>1, Constants
    <3>5. Apart(now + MaxDelay, recent[i], (Len(recent) - i + n) + 1)
      BY <3>1, <3>2, <3>3, <3>4, Adding
    <3> QED
      BY <3>3, <3>5
  <2>7. Apart(now, now, 0)
    BY <2>1, Constants DEF Apart
  <2>8. \A j \in DOMAIN r : Apart(now, r[j], Len(r) - j)
    <3>1. n + 1 - (n + 1) = 0
      BY <2>1
    <3> QED
      BY <2>1, <2>2, <2>5, <2>7, <3>1
  <2>9. \A j, l \in DOMAIN r : j <= l => Apart(r[l], r[j], l - j)
    <3> SUFFICES ASSUME NEW j \in DOMAIN r, NEW l \in DOMAIN r, j <= l PROVE Apart(r[l], r[j], l - j)
      OBVIOUS
    <3>1. CASE l = n + 1
      BY <2>2, <2>8, <3>1
    <3>2. CASE l \in DOMAIN net
      <4>1. j \in DOMAIN net
        BY <2>1, <2>2, <3>2
      <4> QED
        BY <2>2, <2>3, <3>2, <4>1 DEF Sender
    <3> QED
      BY <2>2, <3>1, <3>2
  <2>10. \A i \in DOMAIN recent, j \in DOMAIN r : Apart(r[j] + MaxDelay, recent[i], Len(recent) - i + j)
    BY <2>2, <2>3, <2>6 DEF Sender
  <2>11. ~refused /\ now # 0
    BY <2>1, <2>3 DEF Sender
  <2> QED
    BY <1>1, <1>2, <2>2, <2>6, <2>8, <2>9, <2>10, <2>11 DEF Sender, r
<1> QED
  BY <1>1, <1>2, <1>3

LEMMA UnusedKeepsLimits == ASSUME LimInv, UnusedReciprocal PROVE LimInv'
<1> USE DEF LimInv
<1>1. /\ UNCHANGED <<now, net, recent, backoffUntil, lastKeyReq, spacing, accepted, refused, manual>>
      /\ lastSent' = now /\ (lastSent # 0 => now - lastSent >= Gap)
  BY DEF UnusedReciprocal, AllowOutgoing
<1>2. LimTypes'
  BY <1>1 DEF LimTypes
<1>3. Due' /\ Receiver'
  BY <1>1 DEF Due, Receiver, InOrder, Past
<1>4. ASSUME Fits, ~manual PROVE Sender'
  <2>1. /\ now \in Nat /\ now >= 1 /\ lastSent \in Nat /\ lastSent <= now
        /\ Len(net) \in Nat /\ DOMAIN net = 1 .. Len(net) /\ Len(recent) \in Nat /\ DOMAIN recent = 1 .. Len(recent)
        /\ \A i \in DOMAIN net : net[i] \in Nat
        /\ \A i \in DOMAIN recent : recent[i] \in Nat
    BY Times DEF LimTypes
  <2>2. Sender
    BY <1>4
  <2>3. ASSUME NEW early \in Int, NEW n \in Int, Apart(lastSent, early, n) PROVE Apart(now, early, n)
    <3>1. n * Gap \in Int
      BY Multiples
    <3> QED
      BY <2>1, <2>3, <3>1 DEF Apart
  <2>4. ASSUME NEW early \in Int, NEW n \in Int, Apart(lastSent + MaxDelay, early, n)
        PROVE  Apart(now + MaxDelay, early, n)
    <3>1. n * Gap \in Int
      BY Multiples
    <3> QED
      BY <2>1, <2>4, <3>1, Constants DEF Apart
  <2>5. \A j \in DOMAIN net : Apart(now, net[j], Len(net) - j)
    BY <2>1, <2>2, <2>3 DEF Sender
  <2>6. \A i \in DOMAIN recent : Apart(now + MaxDelay, recent[i], Len(recent) - i + Len(net))
    <3> TAKE i \in DOMAIN recent
    <3>1. Len(recent) - i + Len(net) \in Int /\ recent[i] \in Int
      BY <2>1
    <3> QED
      BY <2>2, <2>4, <3>1 DEF Sender
  <2> QED
    BY <1>1, <2>1, <2>2, <2>5, <2>6 DEF Sender
<1> QED
  BY <1>1, <1>2, <1>3, <1>4

LEMMA ManualKeepsLimits == ASSUME LimInv, ManualKeyReq PROVE LimInv'
<1>1. /\ SendKeyReq /\ UNCHANGED <<now, recent, backoffUntil, accepted, refused>>
      /\ lastSent' \in {lastSent, now} /\ manual' = TRUE /\ manual' \in BOOLEAN
  BY DEF ManualKeyReq
<1> QED
  BY <1>1, Leaving DEF LimInv

(* What is left of the window: the last of what was let through, all that  *)
(* went before is out of the window.                                       *)
Remains(w) ==
  /\ w \in Seq(1 .. now) /\ Len(w) <= MaxPerWindow /\ Len(w) <= Len(accepted)
  /\ \A i \in DOMAIN w : w[i] = accepted[Len(accepted) - Len(w) + i]
  /\ \A i \in DOMAIN accepted : i <= Len(accepted) - Len(w) => now - accepted[i] > Window
  /\ w # <<>> => backoffUntil = 0 /\ now - w[1] <= Window
LEMMA LeftFacts ==
  ASSUME LimInv, ~InBackoff, NEW k \in 0 .. Len(recent), Evicts(k)
  PROVE  Remains(Left(k))
<1> DEFINE w == Left(k)
<1>1. /\ now \in Nat /\ Len(recent) \in Nat /\ DOMAIN recent = 1 .. Len(recent)
      /\ Len(accepted) \in Nat /\ DOMAIN accepted = 1 .. Len(accepted)
      /\ \A i : i \in DOMAIN recent <=> i \in Int /\ 1 <= i /\ i <= Len(recent)
      /\ \A i : i \in DOMAIN accepted <=> i \in Int /\ 1 <= i /\ i <= Len(accepted)
      /\ \A i \in DOMAIN recent : recent[i] \in Nat
      /\ \A i \in DOMAIN accepted : accepted[i] \in Nat
      /\ Receiver /\ k \in Nat /\ k <= Len(recent) /\ Len(recent) <= MaxPerWindow
      /\ recent \in Seq(1 .. now)
  BY Times DEF LimInv, LimTypes
<1>2. CASE backoffUntil # 0
  <2>1. w = <<>> /\ now >= backoffUntil /\ backoffUntil \in Nat
    BY <1>2 DEF Left, InBackoff, LimInv, LimTypes
  <2>2. ASSUME NEW i \in DOMAIN accepted PROVE now - accepted[i] > Window
    <3>1. accepted[i] + Backoff <= backoffUntil /\ accepted[i] \in Nat
      BY <1>1, <1>2, Times DEF Receiver, LimInv, LimTypes
    <3> QED
      BY <1>1, <2>1, <3>1, Constants
  <2>3. <<>> \in Seq(1 .. now) /\ Len(<<>>) = 0 /\ DOMAIN <<>> = {}
    BY EmptySeq
  <2> HIDE DEF w
  <2> QED
    BY <1>1, <2>1, <2>2, <2>3, Constants DEF Remains, w
<1>3. CASE backoffUntil = 0
  <2> DEFINE n == Len(recent)
  <2>1. w = SubSeq(recent, k + 1, n)
    BY <1>3 DEF Left
  <2>2. w \in Seq(1 .. now) /\ Len(w) = n - k /\ \A i \in DOMAIN w : w[i] = recent[k + i]
    <3>0. n \in Nat /\ k + 1 \in Nat /\ k + 1 >= 1 /\ k <= n
      BY <1>1
    <3>1. SubSeq(recent, k + 1, n) \in Seq(1 .. now)
      BY <1>1, <3>0
    <3>r. recent \in Seq(1 .. now)
      BY <1>1
    <3>2. Len(SubSeq(recent, k + 1, n)) = n - k
      <4>1. CASE k = n
        BY <3>r, <3>0, <4>1
      <4>2. CASE k < n
        BY <3>r, <3>0, <4>2
      <4> QED
        BY <3>0, <4>1, <4>2
    <3>3. \A i \in 1 .. n - k : SubSeq(recent, k + 1, n)[i] = recent[k + i]
      BY <3>r, <3>0
    <3> HIDE DEF w, n
    <3>4. DOMAIN w = 1 .. n - k
      BY <1>1, <2>1, <3>1, <3>2, Times
    <3> QED
      BY <2>1, <3>1, <3>2, <3>3, <3>4
  <2> HIDE DEF w
  <2>3. \A i : i \in DOMAIN w <=> i \in Int /\ 1 <= i /\ i <= n - k
    BY <1>1, <2>2, Times
  <2>4. /\ Past >= 0 /\ Past = Len(accepted) - n
        /\ \A i \in DOMAIN recent : recent[i] = accepted[Past + i]
        /\ \A i \in DOMAIN accepted : i <= Past => now - accepted[i] > Window
    BY <1>1 DEF Receiver, Past
  <2> HIDE DEF n
  <2>5. n = Len(recent)
    BY DEF n
  <2>6. ASSUME NEW i \in DOMAIN w PROVE w[i] = accepted[Len(accepted) - Len(w) + i]
    <3>0. i \in Int /\ 1 <= i /\ i <= n - k
      BY <2>3
    <3>a. k + i \in DOMAIN recent
      BY <1>1, <2>5, <3>0
    <3>1. k + i \in DOMAIN recent /\ Past + (k + i) = Len(accepted) - Len(w) + i
      <4> USE <3>a
      <4>1. Len(accepted) \in Nat /\ k \in Nat /\ n \in Nat /\ Past = Len(accepted) - n /\ Len(w) = n - k
        BY <1>1, <2>2, <2>4, <2>5
      <4> QED
        BY <3>0, <4>1
    <3> QED
      BY <2>2, <2>3, <2>4, <3>1
  <2>7. ASSUME NEW i \in DOMAIN accepted, i <= Len(accepted) - Len(w) PROVE now - accepted[i] > Window
    <3>1. CASE i <= Past
      BY <2>4, <3>1
    <3>2. CASE i > Past
      <4>0. Past \in Int /\ i \in Int
        BY <1>1, <2>4, <2>5
      <4>1. i - Past \in 1 .. k /\ i - Past \in DOMAIN recent /\ Past + (i - Past) = i
        BY <1>1, <2>2, <2>4, <2>5, <2>7, <3>2, <4>0
      <4>2. ~Fresh(recent[i - Past]) /\ recent[i - Past] = accepted[i]
        BY <2>4, <4>1 DEF Evicts
      <4>3. accepted[i] \in Nat
        BY <1>1, Times DEF LimInv, LimTypes
      <4> QED
        BY <1>1, <4>2, <4>3, Constants DEF Fresh
    <3> QED
      BY <1>1, <2>4, <2>5, <3>1, <3>2
  <2>8. ASSUME w # <<>> PROVE now - w[1] <= Window
    <3>1. 1 \in DOMAIN w
      BY <1>1, <2>2, <2>8, Earlier
    <3>2. k < Len(recent) /\ w[1] = recent[k + 1]
      <4>1. w[1] = recent[k + 1] /\ 1 <= n - k
        BY <2>2, <2>3, <3>1
      <4>2. n \in Nat /\ n = Len(recent) /\ k \in Nat
        BY <1>1, <2>5
      <4> QED
        BY <4>1, <4>2
    <3> QED
      BY <3>2 DEF Evicts, Fresh
  <2> QED
    BY <1>1, <1>3, <2>2, <2>4, <2>5, <2>6, <2>7, <2>8, Constants DEF Remains, w
<1> QED
  BY <1>2, <1>3

(* Letting one through.                                                    *)
LEMMA AcceptRemembers ==
  ASSUME LimInv, NEW w, Remains(w), Accept(w), UNCHANGED now
  PROVE  /\ Receiver' /\ recent' \in Seq(1 .. now) /\ accepted' \in Seq(1 .. now)
         /\ Len(recent') = Len(w) + 1 /\ Len(recent') <= MaxPerWindow /\ Len(accepted') <= MaxPerWindow
<1> DEFINE a == Append(accepted, now)
           p == Len(accepted)
           n == Len(w)
<1>1. /\ now \in Nat /\ now >= 1 /\ w \in Seq(1 .. now) /\ accepted \in Seq(1 .. now)
      /\ p \in Nat /\ (\A i : i \in DOMAIN accepted <=> i \in Int /\ 1 <= i /\ i <= p)
      /\ n \in Nat /\ (\A i : i \in DOMAIN w <=> i \in Int /\ 1 <= i /\ i <= n)
      /\ p <= MaxPerWindow /\ n < MaxPerWindow /\ n <= p /\ InOrder(accepted)
  BY Times DEF LimInv, LimTypes, Remains, Accept, Receiver
<1>2. /\ a \in Seq(1 .. now) /\ Len(a) = p + 1 /\ a[p + 1] = now /\ InOrder(a)
      /\ \A i : i \in DOMAIN a <=> i \in Int /\ 1 <= i /\ i <= p + 1
      /\ \A i \in DOMAIN accepted : a[i] = accepted[i]
  BY <1>1, Later, Times
<1>3. /\ recent' = Append(w, now) /\ backoffUntil' = 0 /\ accepted' = KeepLast(a)
  BY DEF Accept
<1>4. /\ recent' \in Seq(1 .. now) /\ Len(recent') = n + 1 /\ recent'[n + 1] = now
      /\ \A i \in DOMAIN w : recent'[i] = w[i]
  BY <1>1, <1>3, Later
<1>5. \A i : i \in DOMAIN recent' <=> i \in Int /\ 1 <= i /\ i <= n + 1
  BY <1>1, <1>4, Times
<1>6. /\ \A i \in DOMAIN w : w[i] = accepted[p - n + i]
      /\ \A i \in DOMAIN accepted : i <= p - n => now - accepted[i] > Window
  BY DEF Remains
<1> HIDE DEF a, p, n
<1>7. \A i \in DOMAIN recent' : recent'[i] = a[p - n + i] /\ p - n + i \in DOMAIN a
  <2> TAKE i \in DOMAIN recent'
  <2>1. CASE i = n + 1
    BY <1>1, <1>2, <1>4, <2>1
  <2>2. CASE i \in DOMAIN w
    <3>1. i \in Int /\ 1 <= i /\ i <= n /\ p \in Nat /\ n \in Nat /\ n <= p
      BY <1>1, <2>2
    <3>2. p - n + i \in Int /\ 1 <= p - n + i /\ p - n + i <= p /\ p - n + i <= p + 1
      BY <3>1
    <3>3. p - n + i \in DOMAIN accepted /\ p - n + i \in DOMAIN a
      BY <1>1, <1>2, <3>2
    <3>4. recent'[i] = w[i] /\ w[i] = accepted[p - n + i]
      BY <1>4, <1>6, <2>2
    <3> QED
      BY <1>2, <3>3, <3>4
  <2> QED
    BY <1>1, <1>5, <2>1, <2>2
<1>8. CASE p + 1 <= MaxPerWindow
  <2>1. accepted' = a
    BY <1>1, <1>2, <1>3, <1>8, Constants DEF KeepLast
  <2>2. Past' = p - n /\ p - n >= 0
    BY <1>1, <1>2, <1>4, <2>1 DEF Past
  <2>3. ASSUME NEW i \in DOMAIN a, i <= p - n PROVE now - a[i] > Window
    <3>1. i \in Int /\ 1 <= i /\ p \in Nat /\ n \in Nat
      BY <1>1, <1>2
    <3>2. i <= p
      BY <2>3, <3>1
    <3>3. i \in DOMAIN accepted /\ a[i] = accepted[i]
      BY <1>1, <1>2, <3>1, <3>2
    <3> QED
      BY <1>6, <2>3, <3>3
  <2> QED
    BY <1>1, <1>2, <1>3, <1>4, <1>7, <1>8, <2>1, <2>2, <2>3, Constants DEF Receiver
<1>9. CASE p = MaxPerWindow
  <2>1. accepted' = Tail(a)
    BY <1>1, <1>2, <1>3, <1>9, Constants DEF KeepLast
  <2>2. a # <<>>
    BY <1>1, <1>2
  <2>3. /\ Tail(a) \in Seq(1 .. now) /\ Len(Tail(a)) = p /\ (\A i : i \in DOMAIN Tail(a) <=> i \in Int /\ 1 <= i /\ i <= p)
        /\ \A i \in DOMAIN Tail(a) : Tail(a)[i] = a[i + 1] /\ i + 1 \in DOMAIN a
        /\ InOrder(Tail(a))
    <3>1. Len(a) - 1 = p
      BY <1>1, <1>2
    <3> QED
      BY <1>1, <1>2, <2>2, <3>1, Earlier, Times
  <2>4. Past' = p - n - 1 /\ p - n - 1 >= 0
    BY <1>1, <1>4, <1>9, <2>1, <2>3, Constants DEF Past
  <2>5. \A i \in DOMAIN recent' : recent'[i] = Tail(a)[p - n - 1 + i]
    <3> TAKE i \in DOMAIN recent'
    <3>0. i \in Int /\ 1 <= i /\ i <= n + 1 /\ p \in Nat /\ n \in Nat /\ p - n - 1 >= 0
      BY <1>1, <1>5, <2>4
    <3>a. p - n - 1 + i \in Int /\ 1 <= p - n - 1 + i /\ p - n - 1 + i <= p
          /\ (p - n - 1 + i) + 1 = p - n + i
      BY <3>0
    <3>1. p - n - 1 + i \in DOMAIN Tail(a) /\ (p - n - 1 + i) + 1 = p - n + i
      BY <2>3, <3>a
    <3> QED
      BY <1>7, <2>3, <3>1
  <2>6. \A i \in DOMAIN Tail(a) : i <= p - n - 1 => now - Tail(a)[i] > Window
    <3> SUFFICES ASSUME NEW i \in DOMAIN Tail(a), i <= p - n - 1 PROVE now - Tail(a)[i] > Window
      OBVIOUS
    <3>0. i \in Int /\ 1 <= i /\ p \in Nat /\ n \in Nat
      BY <1>1, <2>3
    <3>a. i + 1 \in Int /\ 1 <= i + 1 /\ i + 1 <= p - n /\ i + 1 <= p
      BY <3>0
    <3>1. i + 1 \in DOMAIN accepted /\ i + 1 <= p - n
      BY <1>1, <3>a
    <3> QED
      BY <1>2, <1>6, <2>3, <3>1
  <2>7. /\ InOrder(accepted') /\ Past' >= 0 /\ backoffUntil' = 0
        /\ \A i \in DOMAIN recent' : recent'[i] = accepted'[Past' + i]
        /\ \A i \in DOMAIN accepted' : i <= Past' => now' - accepted'[i] > Window
    BY <1>3, <2>1, <2>3, <2>4, <2>5, <2>6
  <2>8. Receiver'
    BY <2>7 DEF Receiver
  <2>9. accepted' \in Seq(1 .. now) /\ Len(accepted') = p /\ Len(recent') = n + 1
    BY <1>4, <2>1, <2>3
  <2> QED
    BY <1>1, <1>4, <1>9, <2>8, <2>9, Constants DEF n
<1> QED
  BY <1>1, <1>8, <1>9, Constants

(* The window is full: it holds all that was let through.                  *)
LEMMA BackoffRemembers ==
  ASSUME LimInv, NEW w, Remains(w), StartBackoff(w), UNCHANGED now
  PROVE  /\ Receiver' /\ recent' \in Seq(1 .. now) /\ Len(recent') <= MaxPerWindow
         /\ accepted' = accepted /\ refused' = TRUE /\ backoffUntil' = now + Backoff
<1> DEFINE p == Len(accepted)
<1>1. /\ recent' = w /\ accepted' = accepted /\ refused' = TRUE /\ backoffUntil' = now + Backoff
      /\ now' = now /\ Len(w) >= MaxPerWindow
  BY DEF StartBackoff
<1>2. /\ now \in Nat /\ w \in Seq(1 .. now) /\ Len(w) <= MaxPerWindow /\ Len(w) <= p
      /\ p \in Nat /\ p <= MaxPerWindow /\ InOrder(accepted)
      /\ (\A i : i \in DOMAIN accepted <=> i \in Int /\ 1 <= i /\ i <= p)
      /\ (\A i : i \in DOMAIN w <=> i \in Int /\ 1 <= i /\ i <= Len(w))
      /\ (\A i \in DOMAIN accepted : accepted[i] \in Nat /\ accepted[i] <= now)
      /\ Len(w) \in Nat
  BY Times DEF LimInv, LimTypes, Remains, Receiver
<1>3. Len(w) = MaxPerWindow /\ p = MaxPerWindow /\ p > 0
  BY <1>1, <1>2, Constants
<1>4. /\ \A i \in DOMAIN w : w[i] = accepted[p - Len(w) + i]
      /\ w # <<>> => now - w[1] <= Window
  BY DEF Remains
<1> HIDE DEF p
<1>5. p = Len(accepted)
  BY DEF p
<1>6. ASSUME NEW i \in DOMAIN w PROVE w[i] = accepted[i]
  <2>1. i \in Int /\ p - Len(w) + i = i
    BY <1>2, <1>3, Constants
  <2> QED
    BY <1>4, <2>1
<1>7. Past' = 0
  BY <1>1, <1>2, <1>3, <1>5 DEF Past
<1>8. \A i \in DOMAIN recent' : recent'[i] = accepted'[Past' + i]
  <2> TAKE i \in DOMAIN recent'
  <2>1. i \in DOMAIN w /\ i \in Int
    BY <1>1, <1>2
  <2>2. Past' + i = i
    BY <1>7, <2>1
  <2> QED
    BY <1>1, <1>6, <2>1, <2>2
<1>9. \A i \in DOMAIN accepted' : i <= Past' => now' - accepted'[i] > Window
  BY <1>1, <1>2, <1>7
<1>10. \A i \in DOMAIN accepted' : accepted'[i] + Backoff <= backoffUntil'
  BY <1>1, <1>2, Constants
<1>11. backoffUntil' <= accepted'[Len(accepted')] + Window + Backoff
  <2>1. w # <<>>
    BY <1>2, <1>3, EmptySeq
  <2>2. 1 \in DOMAIN accepted /\ p \in DOMAIN accepted /\ 1 \in DOMAIN w /\ 1 <= p
    BY <1>2, <1>3
  <2>3. accepted[1] <= accepted[p] /\ w[1] = accepted[1] /\ now - w[1] <= Window
    BY <1>2, <1>4, <1>6, <2>1, <2>2 DEF InOrder
  <2>4. accepted[1] \in Nat /\ accepted[p] \in Nat
    BY <1>2, <2>2
  <2> QED
    BY <1>1, <1>2, <1>5, <2>3, <2>4, Constants
<1>12. InOrder(accepted') /\ Past' >= 0 /\ Len(accepted') = MaxPerWindow
  BY <1>1, <1>2, <1>3, <1>5, <1>7
<1> QED
  BY <1>1, <1>2, <1>8, <1>9, <1>10, <1>11, <1>12 DEF Receiver

(* An automatic sender never meets a full window: the oldest request in it *)
(* left MaxPerWindow gaps before this one.                                 *)
LEMMA NeverFull ==
  ASSUME LimInv, Fits, ~manual, net # <<>>
  PROVE  /\ ~InBackoff /\ backoffUntil = 0
         /\ \A k \in 0 .. Len(recent) : Evicts(k) => ~StartBackoff(Left(k))
<1>1. Sender /\ Receiver /\ LimTypes
  BY DEF LimInv
<1>2. backoffUntil = 0
  BY <1>1 DEF Sender, Receiver
<1>3. ASSUME NEW k \in 0 .. Len(recent), Evicts(k), StartBackoff(Left(k)) PROVE FALSE
  <2> DEFINE n == Len(recent)
  <2>1. /\ now \in Nat /\ recent \in Seq(1 .. now) /\ n \in Nat /\ k \in Nat /\ k <= n /\ n <= MaxPerWindow
        /\ (\A i : i \in DOMAIN recent <=> i \in Int /\ 1 <= i /\ i <= n)
        /\ (\A i \in DOMAIN recent : recent[i] \in Nat)
        /\ 1 \in DOMAIN net /\ net[1] \in Nat /\ net[1] <= now
    BY <1>1, Times, Earlier DEF LimTypes
  <2>2. Left(k) = SubSeq(recent, k + 1, n)
    BY <1>2 DEF Left
  <2>3. Len(Left(k)) = n - k
    <3>1. CASE k = n
      BY <2>1, <2>2, <3>1
    <3>2. CASE k < n
      BY <2>1, <2>2, <3>2
    <3> QED
      BY <2>1, <3>1, <3>2
  <2> HIDE DEF n
  <2>4. Len(Left(k)) >= MaxPerWindow
    BY <1>3 DEF StartBackoff
  <2>5. k = 0 /\ n = MaxPerWindow /\ k < n
    BY <2>1, <2>3, <2>4, Constants
  <2>6. now - recent[1] <= Window /\ 1 \in DOMAIN recent
    <3>1. Fresh(recent[k + 1]) /\ k + 1 = 1
      BY <1>3, <2>5 DEF Evicts, n
    <3> QED
      BY <2>1, <2>5, <3>1, Constants DEF Fresh
  <2>7. Apart(net[1] + MaxDelay, recent[1], MaxPerWindow)
    <3>1. Apart(net[1] + MaxDelay, recent[1], n - 1 + 1)
      BY <1>1, <2>1, <2>6 DEF Sender, n
    <3>2. n - 1 + 1 = MaxPerWindow
      BY <2>1, <2>5
    <3> QED
      BY <3>1, <3>2
  <2>8. MaxPerWindow * Gap \in Int /\ recent[1] \in Nat /\ net[1] \in Nat /\ MaxDelay \in Nat
    BY <2>1, <2>6, Multiples, Constants
  <2>9. net[1] + MaxDelay - recent[1] >= MaxPerWindow * Gap
    BY <2>7, <2>8 DEF Apart
  <2> QED
    BY <2>1, <2>6, <2>8, <2>9, Constants DEF Fits
<1> QED
  BY <1>2, <1>3 DEF InBackoff

(* What the sender promises survives letting its oldest request through.   *)
LEMMA LettingOneThrough ==
  ASSUME LimInv, Sender, net # <<>>, net' = Tail(net), backoffUntil = 0,
         UNCHANGED <<now, lastSent, refused>>,
         NEW k \in 0 .. Len(recent), Accept(Left(k))
  PROVE  Sender'
<1> DEFINE n == Len(recent)
           m == Len(net)
           w == Left(k)
<1>1. /\ now \in Nat /\ now >= 1 /\ lastSent \in Nat
      /\ net \in Seq(1 .. now) /\ recent \in Seq(1 .. now)
      /\ n \in Nat /\ m \in Nat /\ k \in Nat /\ k <= n
      /\ (\A i : i \in DOMAIN recent <=> i \in Int /\ 1 <= i /\ i <= n)
      /\ (\A j : j \in DOMAIN net <=> j \in Int /\ 1 <= j /\ j <= m)
      /\ (\A i \in DOMAIN recent : recent[i] \in Nat)
      /\ (\A j \in DOMAIN net : net[j] \in Nat)
      /\ 1 \in DOMAIN net
  BY Times, Earlier DEF LimInv, LimTypes
<1>2. /\ Len(net') = m - 1
      /\ (\A j : j \in DOMAIN net' <=> j \in Int /\ 1 <= j /\ j <= m - 1)
      /\ \A j \in DOMAIN net' : net'[j] = net[j + 1] /\ j + 1 \in DOMAIN net
  <2>1. Tail(net) \in Seq(1 .. now) /\ Len(Tail(net)) = m - 1
    BY <1>1, Earlier
  <2>2. \A j \in DOMAIN Tail(net) : Tail(net)[j] = net[j + 1] /\ j + 1 \in DOMAIN net
    BY <1>1, Earlier
  <2>3. \A j : j \in DOMAIN Tail(net) <=> j \in Int /\ 1 <= j /\ j <= m - 1
    BY <1>1, <2>1, Times
  <2> QED
    BY <2>1, <2>2, <2>3
<1>3. /\ w \in Seq(1 .. now) /\ Len(w) = n - k
      /\ (\A i : i \in DOMAIN w <=> i \in Int /\ 1 <= i /\ i <= n - k)
      /\ \A i \in DOMAIN w : w[i] = recent[k + i] /\ k + i \in DOMAIN recent
  <2>1. w = SubSeq(recent, k + 1, n)
    BY DEF Left
  <2>2. w \in Seq(1 .. now)
    <3>1. recent \in Seq(1 .. now) /\ n \in Nat /\ k \in Nat /\ k + 1 \in Nat /\ k + 1 >= 1 /\ k <= n
      BY <1>1
    <3>2. SubSeq(recent, k + 1, n) \in Seq(1 .. now)
      BY <1>1, <3>1
    <3> QED
      BY <2>1, <3>2
  <2>3. Len(SubSeq(recent, k + 1, n)) = n - k
    <3>1. CASE k = n
      BY <1>1, <3>1
    <3>2. CASE k < n
      BY <1>1, <3>2
    <3> QED
      BY <1>1, <3>1, <3>2
  <2>4. \A i \in 1 .. n - k : SubSeq(recent, k + 1, n)[i] = recent[k + i]
    BY <1>1
  <2> HIDE DEF w, n
  <2>5. \A i : i \in DOMAIN w <=> i \in Int /\ 1 <= i /\ i <= n - k
    BY <1>1, <2>1, <2>2, <2>3, Times
  <2>6. \A i \in DOMAIN w : w[i] = recent[k + i] /\ k + i \in DOMAIN recent
    <3> TAKE i \in DOMAIN w
    <3>1. i \in Int /\ 1 <= i /\ i <= n - k
      BY <2>5
    <3>2. k + i \in Int /\ 1 <= k + i /\ k + i <= n /\ i \in 1 .. n - k
      BY <1>1, <3>1
    <3> QED
      BY <1>1, <2>1, <2>4, <3>2
  <2> QED
    BY <2>1, <2>2, <2>3, <2>5, <2>6
<1> HIDE DEF n, m, w
<1>4. /\ recent' = Append(w, now) /\ Len(recent') = n - k + 1 /\ recent'[n - k + 1] = now
      /\ \A i \in DOMAIN w : recent'[i] = w[i]
  <2>1. recent' = Append(w, now)
    BY DEF Accept, w
  <2> QED
    BY <1>1, <1>3, <2>1, Later
<1>5. \A i : i \in DOMAIN recent' <=> i \in Int /\ 1 <= i /\ i <= n - k + 1
  <2>1. recent' \in Seq(1 .. now)
    BY <1>1, <1>3, <1>4, Later
  <2> QED
    BY <1>1, <1>4, <2>1, Times
<1>6. /\ lastSent # 0 /\ ~refused
      /\ \A j \in DOMAIN net : Apart(lastSent, net[j], m - j)
      /\ \A j, l \in DOMAIN net : j <= l => Apart(net[l], net[j], l - j)
      /\ \A i \in DOMAIN recent :
           /\ Apart(lastSent + MaxDelay, recent[i], n - i + m)
           /\ \A j \in DOMAIN net : Apart(net[j] + MaxDelay, recent[i], n - i + j)
  BY DEF Sender, n, m
<1>7. now <= net[1] + MaxDelay
  BY <1>1 DEF LimInv, Due
<1>8. \A j \in DOMAIN net' : Apart(lastSent, net'[j], Len(net') - j)
  <2> TAKE j \in DOMAIN net'
  <2>1. m - (j + 1) = Len(net') - j /\ j + 1 \in DOMAIN net
    BY <1>1, <1>2
  <2> QED
    BY <1>2, <1>6, <2>1
<1>9. \A j, l \in DOMAIN net' : j <= l => Apart(net'[l], net'[j], l - j)
  <2> SUFFICES ASSUME NEW j \in DOMAIN net', NEW l \in DOMAIN net', j <= l
               PROVE  Apart(net'[l], net'[j], l - j)
    OBVIOUS
  <2>1. j + 1 <= l + 1 /\ (l + 1) - (j + 1) = l - j
    BY <1>2
  <2> QED
    BY <1>2, <1>6, <2>1
<1>10. ASSUME NEW i \in DOMAIN w
       PROVE  /\ Apart(lastSent + MaxDelay, recent'[i], Len(recent') - i + Len(net'))
              /\ \A j \in DOMAIN net' : Apart(net'[j] + MaxDelay, recent'[i], Len(recent') - i + j)
  <2>1. i \in Int /\ k + i \in DOMAIN recent /\ recent'[i] = recent[k + i]
    BY <1>3, <1>4
  <2>2. n - (k + i) + m = Len(recent') - i + Len(net')
    <3>1. i \in Int /\ k \in Nat /\ n \in Nat /\ m \in Nat
      BY <1>1, <2>1
    <3>2. Len(recent') = n - k + 1 /\ Len(net') = m - 1
      BY <1>2, <1>4
    <3>3. n - (k + i) + m = (n - k + 1) - i + (m - 1)
      BY <3>1
    <3> QED
      BY <3>2, <3>3
  <2>3. Apart(lastSent + MaxDelay, recent'[i], Len(recent') - i + Len(net'))
    BY <1>6, <2>1, <2>2
  <2>4. ASSUME NEW j \in DOMAIN net' PROVE Apart(net'[j] + MaxDelay, recent'[i], Len(recent') - i + j)
    <3>0. j \in Int /\ i \in Int /\ k \in Nat /\ n \in Nat
      BY <1>1, <1>2, <2>1
    <3>1. n - (k + i) + (j + 1) = Len(recent') - i + j
      BY <1>4, <3>0
    <3>2. Apart(net[j + 1] + MaxDelay, recent[k + i], n - (k + i) + (j + 1))
      BY <1>2, <1>6, <2>1
    <3> QED
      BY <1>2, <2>1, <3>1, <3>2
  <2> QED
    BY <2>3, <2>4
<1>11. ASSUME NEW a \in Int, NEW d \in Int, Apart(a, net[1], d) PROVE Apart(a + MaxDelay, now, d)
  <2>1. net[1] \in Nat /\ d * Gap \in Int /\ MaxDelay \in Nat
    BY <1>1, Multiples, Constants
  <2> QED
    BY <1>1, <1>7, <1>11, <2>1 DEF Apart
<1>12. Apart(lastSent + MaxDelay, now, m - 1)
  BY <1>1, <1>6, <1>11
<1>13. ASSUME NEW j \in DOMAIN net' PROVE Apart(net'[j] + MaxDelay, now, j)
  <2>1. j \in Int /\ 1 <= j + 1 /\ (j + 1) - 1 = j /\ j + 1 \in DOMAIN net
    BY <1>2
  <2>2. Apart(net[j + 1], net[1], (j + 1) - 1) /\ net[j + 1] \in Int
    BY <1>1, <1>6, <2>1
  <2> QED
    BY <1>2, <1>11, <2>1, <2>2
<1>14. ASSUME NEW i \in DOMAIN recent'
       PROVE  /\ Apart(lastSent' + MaxDelay, recent'[i], Len(recent') - i + Len(net'))
              /\ \A j \in DOMAIN net' : Apart(net'[j] + MaxDelay, recent'[i], Len(recent') - i + j)
  <2>1. CASE i \in DOMAIN w
    BY <1>10, <2>1
  <2>2. CASE i = n - k + 1
    <3>1. recent'[i] = now /\ Len(recent') - i + Len(net') = m - 1
      BY <1>1, <1>2, <1>4, <2>2
    <3>2. ASSUME NEW j \in DOMAIN net' PROVE Apart(net'[j] + MaxDelay, recent'[i], Len(recent') - i + j)
      <4>1. Len(recent') - i + j = j
        BY <1>1, <1>2, <1>4, <2>2
      <4> QED
        BY <1>13, <3>1, <4>1
    <3> QED
      BY <1>12, <3>1, <3>2
  <2>3. i \in Int /\ 1 <= i /\ i <= n - k + 1 /\ n - k \in Int
    BY <1>1, <1>5
  <2>4. i = n - k + 1 \/ i <= n - k
    BY <2>3
  <2> QED
    BY <1>3, <2>1, <2>2, <2>3, <2>4
<1> QED
  BY <1>6, <1>8, <1>9, <1>14 DEF Sender

(* allow_incoming, whatever it answers.                                    *)
LEMMA IncomingKeepsLimits == ASSUME LimInv, AllowIncoming PROVE LimInv'
<1>1. /\ net # <<>> /\ net' = Tail(net) /\ UNCHANGED <<now, lastSent, lastKeyReq, spacing, manual>>
  BY DEF AllowIncoming
<1>2. /\ now \in Nat /\ now >= 1 /\ net' \in Seq(1 .. now) /\ Receiver /\ LimTypes
      /\ (Fits' <=> Fits)
  BY <1>1, Earlier DEF LimInv, LimTypes, Fits
<1>3. Due'
  <2>1. InOrder(Tail(net))
    BY <1>1, Earlier DEF LimInv, LimTypes, Due
  <2>2. \A j \in DOMAIN Tail(net) : now <= Tail(net)[j] + MaxDelay
    BY <1>1, Earlier DEF LimInv, LimTypes, Due
  <2> QED
    BY <1>1, <2>1, <2>2 DEF Due, InOrder
<1>4. CASE RefuseInBackoff
  <2>1. /\ refused' = TRUE /\ UNCHANGED <<recent, backoffUntil, accepted>> /\ backoffUntil # 0
    BY <1>4 DEF RefuseInBackoff, InBackoff
  <2>2. LimTypes'
    BY <1>1, <1>2, <2>1 DEF LimTypes
  <2>3. Receiver'
    BY <1>1, <1>2, <2>1 DEF Receiver, InOrder, Past
  <2>4. ~(Fits /\ ~manual)
    BY <1>1, <2>1, NeverFull
  <2> QED
    BY <1>1, <1>2, <1>3, <2>2, <2>3, <2>4 DEF LimInv
<1>5. ASSUME ~InBackoff, NEW k \in 0 .. Len(recent), Evicts(k), Accept(Left(k)) PROVE LimInv'
  <2>1. /\ Receiver' /\ recent' \in Seq(1 .. now) /\ accepted' \in Seq(1 .. now)
        /\ Len(recent') <= MaxPerWindow /\ Len(accepted') <= MaxPerWindow
    BY <1>1, <1>5, LeftFacts, AcceptRemembers
  <2>2. backoffUntil' = 0 /\ refused' = refused
    BY <1>5 DEF Accept
  <2>3. LimTypes'
    BY <1>1, <1>2, <2>1, <2>2, Constants DEF LimTypes
  <2>4. ASSUME Fits, ~manual PROVE Sender'
    <3>1. Sender /\ backoffUntil = 0
      BY <1>1, <2>4, NeverFull DEF LimInv
    <3> QED
      BY <1>1, <1>5, <2>2, <3>1, LettingOneThrough
  <2> QED
    BY <1>1, <1>2, <1>3, <2>1, <2>3, <2>4 DEF LimInv
<1>6. ASSUME ~InBackoff, NEW k \in 0 .. Len(recent), Evicts(k), StartBackoff(Left(k)) PROVE LimInv'
  <2>1. /\ Receiver' /\ recent' \in Seq(1 .. now) /\ Len(recent') <= MaxPerWindow
        /\ accepted' = accepted /\ refused' = TRUE /\ backoffUntil' = now + Backoff
    BY <1>1, <1>6, LeftFacts, BackoffRemembers
  <2>2. LimTypes'
    BY <1>1, <1>2, <2>1, Constants DEF LimTypes
  <2>3. ~(Fits /\ ~manual)
    BY <1>1, <1>6, NeverFull
  <2> QED
    BY <1>1, <1>2, <1>3, <2>1, <2>2, <2>3 DEF LimInv
<1> QED
  BY <1>4, <1>5, <1>6 DEF AllowIncoming

LEMMA LimitsKept == ASSUME LimInv, [Next]_vars PROVE LimInv'
<1>1. CASE UNCHANGED vars
  BY <1>1 DEF vars, LimInv, LimTypes, Due, Receiver, Sender, InOrder, Past, Fits
<1> QED
  BY <1>1, TickKeepsLimits, AutomaticKeepsLimits, UnusedKeepsLimits, ManualKeepsLimits,
     IncomingKeepsLimits DEF Next

LEMMA LimitsTyped == ASSUME LimInv PROVE TypeOK
<1>1. LimTypes
  BY DEF LimInv
<1>2. now \in 1 .. Horizon /\ backoffUntil \in 0 .. now + Backoff /\ spacing \in 0 .. Horizon
  BY <1>1, Constants DEF LimTypes
<1>3. lastSent \in 0 .. now /\ lastKeyReq \in 0 .. now
  BY <1>1 DEF LimTypes
<1> QED
  BY <1>1, <1>2, <1>3 DEF LimTypes, TypeOK

LEMMA BackoffsEnd == ASSUME LimInv PROVE BackoffEnds
<1>1. ASSUME backoffUntil # 0 PROVE accepted # <<>>
  BY <1>1, Constants, EmptySeq DEF LimInv, Receiver
<1> QED
  BY <1>1 DEF LimInv, Receiver, BackoffEnds

LEMMA HonestPass == ASSUME LimInv, Fits PROVE HonestNeverRefused
BY DEF LimInv, Sender, HonestNeverRefused

LEMMA LimitStep == ASSUME LimInv, [Next]_vars PROVE [WithinLimitStep]_vars
<1>1. ASSUME AllowIncoming, NEW k \in 0 .. Len(recent), ~InBackoff, Evicts(k), Accept(Left(k)),
             Len(accepted) = MaxPerWindow
      PROVE  now - Head(accepted) > Window
  <2>1. Remains(Left(k)) /\ Len(Left(k)) < MaxPerWindow
    BY <1>1, LeftFacts DEF Accept
  <2>2. accepted \in Seq(1 .. now) /\ now \in Nat /\ Left(k) \in Seq(1 .. now)
    BY <2>1 DEF LimInv, LimTypes, Remains
  <2>3. Len(Left(k)) \in Nat /\ accepted # <<>>
    BY <1>1, <2>2, Times, EmptySeq, Constants
  <2>4. 1 \in DOMAIN accepted /\ Head(accepted) = accepted[1]
    BY <2>2, <2>3, Earlier
  <2>5. 1 <= Len(accepted) - Len(Left(k))
    BY <1>1, <2>1, <2>3, Constants
  <2> QED
    BY <2>1, <2>4, <2>5 DEF Remains
<1>2. ASSUME Next, accepted' # accepted
      PROVE  AllowIncoming /\ ~InBackoff /\ \E k \in 0 .. Len(recent) : Evicts(k) /\ Accept(Left(k))
  BY <1>2 DEF Next, Tick, AutomaticKeyReq, UnusedReciprocal, ManualKeyReq, AllowIncoming,
              StartBackoff, RefuseInBackoff
<1> QED
  BY <1>1, <1>2 DEF WithinLimitStep

LEMMA LimitsRun == part = "limits" /\ [MCNext]_mcVars => [Next]_vars
BY DEF MCNext, mcVars, limitsVars, vars, LimitsOnly, FloodOnly, SplitsOnly, FileOnly,
       ConfigOnly, ScriptsOnly, StateOnly, WizardOnly, ThumbsOnly, LoginOnly

LEMMA LimitsAlways == MCSpec => [](part = "limits" => LimInv)
<1> DEFINE Inv == part = "limits" => LimInv
<1>1. MCInit => Inv
  BY LimitsInit DEF MCInit
<1>2. Inv /\ [MCNext]_mcVars => Inv'
  <2> SUFFICES ASSUME part = "limits" => LimInv, [MCNext]_mcVars, part' = "limits" PROVE LimInv'
    OBVIOUS
  <2>1. part = "limits"
    BY DEF MCNext, mcVars, LimitsOnly, FloodOnly, SplitsOnly, FileOnly,
           ConfigOnly, ScriptsOnly, StateOnly, WizardOnly, ThumbsOnly, LoginOnly
  <2> QED
    BY <2>1, LimitsRun, LimitsKept
<1> QED
  BY <1>1, <1>2, PTL DEF MCSpec

(* The back-off (BackOffsEnd): it ends Window + Backoff after the last     *)
(* request that got through at the latest, for any limits and delays.      *)
THEOREM BackOffs == MCSpec => []BackOffsEnd
<1>1. (part = "limits" => LimInv) => BackOffsEnd
  BY BackoffsEnd DEF BackOffsEnd
<1> QED
  BY <1>1, LimitsAlways, PTL

(* The limit (LimitHolds): no stretch of Window sees more than             *)
(* MaxPerWindow requests let through, whatever is sent and however late.   *)
THEOREM Limit == MCSpec => LimitHolds
<1>1. (part = "limits" => LimInv) /\ [MCNext]_mcVars => [part = "limits" => WithinLimitStep]_mcVars
  <2> SUFFICES ASSUME part = "limits", LimInv, [MCNext]_mcVars, mcVars' # mcVars PROVE WithinLimitStep
    OBVIOUS
  <2>1. [Next]_vars
    BY LimitsRun
  <2>2. UNCHANGED vars => WithinLimitStep
    BY DEF vars, WithinLimitStep
  <2> QED
    BY <2>1, <2>2, LimitStep
<1> QED
  BY <1>1, LimitsAlways, PTL DEF MCSpec, LimitHolds

-----------------------------------------------------------------------------
(* Flood protection (Flood).                                               *)

Words == {F!Text(t) : t \in FloodTexts}
Said == {F!Privately} \cup Words
Counters == {F!Ctcp} \cup {F!Renames(c) : c \in FloodChannels}
(* TypeOK, and what the windows and the screen can hold.                   *)
FloodTypes ==
  /\ flood_now \in Nat /\ 1 <= flood_now /\ flood_now <= FloodMaxClock /\ exempt \in SUBSET FloodNicks
  /\ times \in [F!Keys -> SUBSET F!Entry] /\ blocked \in [F!Keys -> Nat] /\ flood_messages \in Nat
  /\ storm \in SUBSET F!Entry /\ texts \in SUBSET F!Entry /\ flood_shown \in SUBSET F!Entry
  /\ IsFiniteSet(storm) /\ IsFiniteSet(texts) /\ IsFiniteSet(flood_shown)
  /\ \A k \in F!Keys : /\ IsFiniteSet(times[k]) /\ blocked[k] <= flood_now + FLOOD_BLOCK
                     /\ \A m \in times[k] : m.at <= flood_now
  /\ \A m \in flood_shown : flood_now - FLOOD_WINDOW <= m.at /\ m.at <= flood_now
  /\ \A n \in queries : <<n, "ALL">> \notin FloodIgnores
(* What is shown is in its window, or a block has begun since.             *)
Remembered(k, s) == s \in times[k] \/ s.at + FLOOD_BLOCK <= blocked[k]
Known(s) ==
  /\ s.nick \in FloodTilde /\ s.what \in Said => Remembered(F!Nick(s.nick), s)
  /\ s.what \in Counters => Remembered(s.what, s)
  /\ s.what \in Words => s \in texts
  /\ s.what = F!Privately /\ s.nick \in FloodTilde => s \in storm \/ s.at + FLOOD_BLOCK <= blocked[F!Storm]
FloodInv == /\ FloodTypes /\ (\A s \in flood_shown : Known(s))
            /\ F!NobodyFloods /\ F!CopiesAreBounded /\ F!NoStorm

(* The assumption on the constants, one by one.                            *)
LEMMA FloodConstants ==
  /\ THRESHOLD \in Nat /\ CTCP_THRESHOLD \in Nat /\ STORM_THRESHOLD \in Nat
  /\ DUP_MIN_IN_WINDOW \in Nat /\ DUP_THRESHOLD \in Nat /\ NICK_THRESHOLD \in Nat
  /\ THRESHOLD > 0 /\ CTCP_THRESHOLD > 0 /\ STORM_THRESHOLD > 0 /\ DUP_THRESHOLD > 0 /\ NICK_THRESHOLD > 0
  /\ FLOOD_WINDOW \in Nat /\ FLOOD_BLOCK \in Nat /\ FLOOD_WINDOW < FLOOD_BLOCK /\ FloodMaxClock \in Nat /\ FloodMaxClock > 0
  /\ FloodTilde \subseteq FloodNicks /\ FloodNicks # {}
<1>1. \A x \in {THRESHOLD, CTCP_THRESHOLD, STORM_THRESHOLD, DUP_MIN_IN_WINDOW, DUP_THRESHOLD,
                NICK_THRESHOLD, FLOOD_WINDOW, FLOOD_BLOCK, FloodMaxClock} : x \in Nat /\ x > 0
  BY FloodedAssumption DEF F!FloodAssumption
<1> QED
  BY <1>1, FloodedAssumption DEF F!FloodAssumption

LEMMA KeysAreKeys ==
  /\ \A n \in FloodNicks : F!Nick(n) \in F!Keys
  /\ \A t \in FloodTexts : F!Text(t) \in F!Keys /\ F!Text(t) \in Words
  /\ \A c \in FloodChannels : F!Renames(c) \in F!Keys /\ F!Renames(c) \in Counters
  /\ F!Ctcp \in F!Keys /\ F!Storm \in F!Keys /\ F!Ctcp \in Counters
BY DEF F!Keys, Words, Counters

LEMMA KeysDiffer ==
  /\ \A n \in FloodNicks, t \in FloodTexts : F!Nick(n) # F!Text(t) /\ F!Text(t) # F!Privately /\ F!Text(t) # F!Ctcp /\ F!Text(t) # F!Storm
  /\ \A n \in FloodNicks : F!Nick(n) # F!Storm /\ F!Nick(n) # F!Ctcp /\ F!Nick(n) # F!Privately
  /\ \A c \in FloodChannels : F!Renames(c) # F!Ctcp /\ F!Renames(c) # F!Privately /\ F!Renames(c) # F!Storm
  /\ \A c \in FloodChannels, t \in FloodTexts : F!Renames(c) # F!Text(t)
  /\ \A n \in FloodNicks, c \in FloodChannels : F!Nick(n) # F!Renames(c)
  /\ F!Ctcp # F!Privately /\ F!Ctcp # F!Storm /\ F!Storm # F!Privately
  /\ F!Action # F!Ctcp /\ F!Action # F!Privately
  /\ (\A t \in FloodTexts : F!Action # F!Text(t)) /\ \A c \in FloodChannels : F!Action # F!Renames(c)
BY DEF F!Nick, F!Text, F!Renames, F!Ctcp, F!Storm, F!Privately, F!Action

(* A part of what is fewer than a threshold is fewer.                      *)
LEMMA Fewer ==
  ASSUME NEW B, IsFiniteSet(B), NEW A \in SUBSET B, NEW n \in Nat, ~(Cardinality(B) >= n)
  PROVE  IsFiniteSet(A) /\ Cardinality(A) < n
<1>1. IsFiniteSet(A) /\ Cardinality(A) <= Cardinality(B)
  BY FS_Subset
<1>2. Cardinality(A) \in Nat /\ Cardinality(B) \in Nat
  BY <1>1, FS_CardinalityType
<1> QED
  BY <1>1, <1>2

(* The message that comes now.                                             *)
LEMMA ThisEntry ==
  ASSUME FloodTypes, NEW n \in FloodNicks, NEW what \in F!Keys \cup {F!Privately, F!Action}
  PROVE  /\ F!This(n, what) \in F!Entry /\ F!This(n, what).nick = n /\ F!This(n, what).what = what
         /\ F!This(n, what).at = flood_now
BY DEF F!This, F!Entry, FloodTypes

(* What is in the window now.                                              *)
LEMMA RecentFacts ==
  ASSUME FloodTypes, NEW B \in SUBSET F!Entry, IsFiniteSet(B), NEW m \in F!Entry, m.at = flood_now
  PROVE  LET w == F!Recent(B \cup {m}) IN
         /\ w \in SUBSET F!Entry /\ IsFiniteSet(w) /\ m \in w /\ w \subseteq B \cup {m}
         /\ \A s \in flood_shown : s \in B => s \in w
<1>1. IsFiniteSet(B \cup {m})
  BY FS_AddElement
<1>2. F!Recent(B \cup {m}) \subseteq B \cup {m}
  BY DEF F!Recent
<1>3. IsFiniteSet(F!Recent(B \cup {m}))
  BY <1>1, <1>2, FS_Subset
<1>4. m \in F!Recent(B \cup {m})
  BY FloodConstants DEF F!Recent, FloodTypes
<1>5. \A s \in flood_shown : s \in B => s \in F!Recent(B \cup {m})
  BY DEF F!Recent, FloodTypes
<1> QED
  BY <1>2, <1>3, <1>4, <1>5

(* No block: what is shown and remembered is in the window.                *)
LEMMA InTheWindow ==
  ASSUME FloodTypes, NEW k \in F!Keys, ~F!Blocked(k), NEW s \in flood_shown, s.at + FLOOD_BLOCK <= blocked[k]
  PROVE  FALSE
<1>1. s.at \in Nat /\ flood_now - FLOOD_WINDOW <= s.at /\ flood_now \in Nat /\ blocked[k] \in Nat
  BY DEF FloodTypes, F!Entry
<1> QED
  BY <1>1, FloodConstants DEF F!Blocked

(* The library's cardinality is the module's.                              *)
LEMMA FloodCardinality == \A U : F!Cardinality(U) = Cardinality(U)
BY DEF F!Cardinality, Cardinality, F!IsFiniteSet, IsFiniteSet

(* Letting one more through keeps what a window counts below its threshold.*)
LEMMA WindowBound ==
  ASSUME FloodTypes, NEW k \in F!Keys, NEW m \in F!Entry, m.at = flood_now, NEW threshold \in Nat,
         ~F!Suppresses(k, m, threshold),
         NEW A \in SUBSET (flood_shown \cup {m}), \A s \in A : s = m \/ Remembered(k, s)
  PROVE  Cardinality(A) < threshold
<1> DEFINE w == F!Counted(k, m)
<1>1. /\ w \in SUBSET F!Entry /\ IsFiniteSet(w) /\ m \in w /\ \A s \in flood_shown : s \in times[k] => s \in w
  BY RecentFacts DEF F!Counted, FloodTypes
<1>2. ~F!Blocked(k) /\ ~(Cardinality(w) >= threshold)
  BY FloodCardinality DEF F!Suppresses, F!Full
<1> HIDE DEF w
<1>3. ASSUME NEW s \in A PROVE s \in w
  <2>1. CASE s = m
    BY <1>1, <2>1
  <2>2. CASE s # m
    <3>1. s \in flood_shown /\ Remembered(k, s)
      BY <2>2
    <3> QED
      BY <1>1, <1>2, <3>1, InTheWindow DEF Remembered
  <2> QED
    BY <2>1, <2>2
<1>4. A \in SUBSET w
  BY <1>3
<1> QED
  BY <1>1, <1>2, <1>4, Fewer

LEMMA FloodInit == ASSUME F!Init PROVE FloodInv
<1> USE DEF F!Init
<1>1. IsFiniteSet({}) /\ Cardinality({}) = 0
  BY FS_EmptySet
<1>2. FloodTypes
  <2>1. (CHOOSE n \in FloodNicks : TRUE) \in FloodNicks
    BY FloodConstants
  <2>2. exempt \in SUBSET FloodNicks
    BY <2>1
  <2>3. \A k \in F!Keys : times[k] = {} /\ blocked[k] = 0
    OBVIOUS
  <2> QED
    BY <1>1, <2>2, <2>3, FloodConstants DEF FloodTypes
<1>3. F!NobodyFloods
  <2>1. (\A n : F!Of(n) = {}) /\ (\A what : F!About(what) = {})
    BY DEF F!Of, F!About
  <2> QED
    BY FloodCardinality, <1>1, <2>1, FloodConstants DEF F!NobodyFloods
<1>4. F!CopiesAreBounded
  <2>1. \A what : F!About(what) = {}
    BY DEF F!About
  <2> QED
    BY FloodCardinality, <1>1, <2>1, FloodConstants DEF F!CopiesAreBounded
<1>5. F!NoStorm
  <2>1. F!Senders({m \in F!About(F!Privately) : m.nick \in FloodTilde}) = {}
    BY DEF F!About, F!Senders
  <2> QED
    BY FloodCardinality, <1>1, <2>1, FloodConstants DEF F!NoStorm
<1> QED
  BY <1>2, <1>3, <1>4, <1>5 DEF FloodInv

(* A block only ever gets longer.                                          *)
LEMMA BlockGrows ==
  ASSUME FloodTypes, NEW j \in F!Keys, blocked' \in {blocked, [blocked EXCEPT ![j] = flood_now + FLOOD_BLOCK]}
  PROVE  /\ blocked' \in [F!Keys -> Nat]
         /\ \A k \in F!Keys : blocked[k] <= blocked'[k] /\ blocked'[k] <= flood_now + FLOOD_BLOCK
<1>1. flood_now + FLOOD_BLOCK \in Nat /\ blocked \in [F!Keys -> Nat] /\ \A k \in F!Keys : blocked[k] <= flood_now + FLOOD_BLOCK
  BY FloodConstants DEF FloodTypes
<1>2. CASE blocked' = blocked
  BY <1>1, <1>2
<1>3. CASE blocked' = [blocked EXCEPT ![j] = flood_now + FLOOD_BLOCK]
  <2>1. \A k \in F!Keys : blocked'[k] = IF k = j THEN flood_now + FLOOD_BLOCK ELSE blocked[k]
    BY <1>1, <1>3
  <2> QED
    BY <1>1, <1>3, <2>1
<1> QED
  BY <1>2, <1>3

(* Counting one more keeps what is shown in the windows.                   *)
LEMMA WindowMoves ==
  ASSUME FloodTypes, NEW k \in F!Keys, NEW m \in F!Entry, m.at = flood_now,
         times' \in {times, [times EXCEPT ![k] = F!Counted(k, m)], [times EXCEPT ![k] = {}]}
  PROVE  /\ times' \in [F!Keys -> SUBSET F!Entry]
         /\ \A j \in F!Keys : IsFiniteSet(times'[j]) /\ \A e \in times'[j] : e.at <= flood_now
         /\ times' # [times EXCEPT ![k] = {}] =>
              \A j \in F!Keys : \A s \in flood_shown : s \in times[j] => s \in times'[j]
         /\ times' = [times EXCEPT ![k] = F!Counted(k, m)] => m \in times'[k]
         /\ \A j \in F!Keys : j # k => times'[j] = times[j]
<1>0. /\ times \in [F!Keys -> SUBSET F!Entry] /\ flood_now \in Nat
      /\ \A j \in F!Keys : IsFiniteSet(times[j]) /\ \A e \in times[j] : e.at <= flood_now
  BY DEF FloodTypes
<1> DEFINE w == F!Counted(k, m)
<1>1. /\ w \in SUBSET F!Entry /\ IsFiniteSet(w) /\ m \in w /\ w \subseteq times[k] \cup {m}
      /\ \A s \in flood_shown : s \in times[k] => s \in w
  BY <1>0, RecentFacts DEF F!Counted
<1>2. \A e \in w : e.at <= flood_now
  BY <1>0, <1>1
<1>3. IsFiniteSet({})
  BY FS_EmptySet
<1> HIDE DEF w
<1>4. CASE times' = times
  BY <1>0, <1>1, <1>4 DEF w
<1>5. CASE times' = [times EXCEPT ![k] = w]
  <2>1. \A j \in F!Keys : times'[j] = IF j = k THEN w ELSE times[j]
    BY <1>0, <1>5
  <2> QED
    BY <1>0, <1>1, <1>2, <1>5, <2>1
<1>6. CASE times' = [times EXCEPT ![k] = {}] /\ times' # [times EXCEPT ![k] = w]
  <2>1. \A j \in F!Keys : times'[j] = IF j = k THEN {} ELSE times[j]
    BY <1>0, <1>6
  <2> QED
    BY <1>0, <1>3, <1>6, <2>1 DEF w
<1> QED
  BY <1>4, <1>5, <1>6 DEF w

(* A check of a window: what is shown stays remembered.                    *)
LEMMA CheckFacts ==
  ASSUME FloodTypes, NEW k \in F!Keys, NEW m \in F!Entry, m.at = flood_now, NEW threshold \in Nat,
         F!Check(k, m, threshold)
  PROVE  /\ times' \in [F!Keys -> SUBSET F!Entry] /\ blocked' \in [F!Keys -> Nat]
         /\ \A j \in F!Keys : /\ IsFiniteSet(times'[j]) /\ blocked'[j] <= flood_now + FLOOD_BLOCK
                            /\ blocked[j] <= blocked'[j] /\ \A e \in times'[j] : e.at <= flood_now
         /\ \A j \in F!Keys, s \in flood_shown : Remembered(j, s) => Remembered(j, s)'
         /\ ~F!Suppresses(k, m, threshold) => m \in times'[k]
<1>1. /\ times' \in {times, [times EXCEPT ![k] = F!Counted(k, m)], [times EXCEPT ![k] = {}]}
      /\ blocked' \in {blocked, [blocked EXCEPT ![k] = flood_now + FLOOD_BLOCK]}
  BY DEF F!Check
<1>2. /\ blocked' \in [F!Keys -> Nat]
      /\ \A j \in F!Keys : blocked[j] <= blocked'[j] /\ blocked'[j] <= flood_now + FLOOD_BLOCK
  BY <1>1, BlockGrows
<1>3. /\ times' \in [F!Keys -> SUBSET F!Entry]
      /\ \A j \in F!Keys : IsFiniteSet(times'[j]) /\ \A e \in times'[j] : e.at <= flood_now
      /\ times' # [times EXCEPT ![k] = {}] =>
           \A j \in F!Keys : \A s \in flood_shown : s \in times[j] => s \in times'[j]
      /\ times' = [times EXCEPT ![k] = F!Counted(k, m)] => m \in times'[k]
      /\ \A j \in F!Keys : j # k => times'[j] = times[j]
  BY <1>1, WindowMoves
<1>4. /\ blocked \in [F!Keys -> Nat] /\ flood_now \in Nat
      /\ \A s \in flood_shown : s.at \in Nat /\ s.at <= flood_now
  BY DEF FloodTypes, F!Entry
<1>5. ASSUME NEW j \in F!Keys, NEW s \in flood_shown, Remembered(j, s) PROVE Remembered(j, s)'
  <2>1. CASE s.at + FLOOD_BLOCK <= blocked[j]
    <3>1. s.at + FLOOD_BLOCK <= blocked'[j]
      BY <1>2, <1>4, <2>1, FloodConstants
    <3> QED
      BY <3>1 DEF Remembered
  <2>2. CASE s \in times[j] /\ (times' # [times EXCEPT ![k] = {}] \/ j # k)
    BY <1>3, <2>2 DEF Remembered
  <2>3. CASE times' = [times EXCEPT ![k] = {}] /\ j = k /\ s \in times[j] /\ times' # times
              /\ times' # [times EXCEPT ![k] = F!Counted(k, m)]
    <3>1. blocked' = [blocked EXCEPT ![k] = flood_now + FLOOD_BLOCK]
      BY <2>3 DEF F!Check
    <3>2. blocked'[j] = flood_now + FLOOD_BLOCK
      BY <1>4, <2>3, <3>1
    <3>3. s.at + FLOOD_BLOCK <= blocked'[j]
      BY <1>4, <3>2, FloodConstants
    <3> QED
      BY <3>3 DEF Remembered
  <2>4. CASE s \in times[j] /\ times' = times
    BY <2>4 DEF Remembered
  <2>5. CASE s \in times[j] /\ j = k /\ times' = [times EXCEPT ![k] = F!Counted(k, m)]
    <3>1. s \in F!Counted(k, m)
      BY <2>5, RecentFacts DEF F!Counted, FloodTypes
    <3>2. times'[j] = F!Counted(k, m)
      BY <2>5 DEF FloodTypes
    <3> QED
      BY <3>1, <3>2 DEF Remembered
  <2> QED
    BY <1>5, <2>1, <2>2, <2>3, <2>4, <2>5 DEF Remembered
<1>6. ASSUME ~F!Suppresses(k, m, threshold) PROVE m \in times'[k]
  <2>1. times' = [times EXCEPT ![k] = F!Counted(k, m)]
    BY <1>6 DEF F!Check, F!Suppresses
  <2> QED
    BY <1>3, <2>1
<1> QED
  BY <1>2, <1>3, <1>5, <1>6

(* Few messages have few senders.                                          *)
LEMMA SendersFinite == ASSUME NEW ms, IsFiniteSet(ms) PROVE IsFiniteSet(F!Senders(ms))
<1> DEFINE f == [m \in ms |-> m.nick]
<1>1. f \in Surjection(ms, F!Senders(ms))
  BY DEF Surjection, F!Senders
<1> QED
  BY <1>1, FS_Surjection

(* With no more on the screen nothing gets worse.                          *)
LEMMA FewerShown ==
  ASSUME FloodInv, flood_shown' \in SUBSET flood_shown
  PROVE  F!NobodyFloods' /\ F!CopiesAreBounded' /\ F!NoStorm'
<1>0. IsFiniteSet(flood_shown)
  BY DEF FloodInv, FloodTypes
<1>1. ASSUME NEW B \in SUBSET flood_shown, NEW A \in SUBSET B, NEW n \in Nat, Cardinality(B) < n
      PROVE  Cardinality(A) < n
  <2>1. IsFiniteSet(B)
    BY <1>0, FS_Subset
  <2>2. Cardinality(B) \in Nat
    BY <2>1, FS_CardinalityType
  <2>3. ~(Cardinality(B) >= n)
    BY <1>1, <2>2
  <2> QED
    BY <2>1, <2>3, Fewer
<1>2. ASSUME NEW n PROVE F!Of(n) \in SUBSET flood_shown /\ F!Of(n)' \in SUBSET F!Of(n)
  BY DEF F!Of
<1>3. ASSUME NEW what PROVE F!About(what) \in SUBSET flood_shown /\ F!About(what)' \in SUBSET F!About(what)
  BY DEF F!About
<1>4. F!NobodyFloods'
  BY FloodCardinality, <1>1, <1>2, <1>3, FloodConstants DEF FloodInv, F!NobodyFloods
<1>5. F!CopiesAreBounded'
  <2> SUFFICES ASSUME NEW t \in FloodTexts
               PROVE  \/ Cardinality(F!About(F!Text(t))') < DUP_THRESHOLD
                      \/ Cardinality(F!About(F!Text(t))') < DUP_MIN_IN_WINDOW
    BY FloodCardinality DEF F!CopiesAreBounded
  <2>1. \/ Cardinality(F!About(F!Text(t))) < DUP_THRESHOLD
        \/ Cardinality(F!About(F!Text(t))) < DUP_MIN_IN_WINDOW
    BY FloodCardinality DEF FloodInv, F!CopiesAreBounded
  <2> QED
    BY <1>1, <1>3, <2>1, FloodConstants
<1>6. F!NoStorm'
  <2> DEFINE B == F!Senders({m \in F!About(F!Privately) : m.nick \in FloodTilde})
             A == F!Senders({m \in F!About(F!Privately)' : m.nick \in FloodTilde})
  <2>1. A \in SUBSET B
    BY <1>3 DEF F!Senders
  <2>2. IsFiniteSet(B)
    <3>1. IsFiniteSet({m \in F!About(F!Privately) : m.nick \in FloodTilde})
      BY <1>0, FS_Subset DEF F!About
    <3> QED
      BY <3>1, SendersFinite
  <2>3. Cardinality(B) \in Nat
    BY <2>2, FS_CardinalityType
  <2>4. ~(Cardinality(B) >= STORM_THRESHOLD)
    BY FloodCardinality, <2>3, FloodConstants DEF FloodInv, F!NoStorm
  <2>5. Cardinality(A) < STORM_THRESHOLD
    BY <2>1, <2>2, <2>4, Fewer, FloodConstants
  <2> QED
    BY FloodCardinality, <2>5 DEF F!NoStorm
<1> QED
  BY <1>4, <1>5, <1>6

(* The checks that count a message.                                        *)
Passes(m) ==
  /\ m.nick \in FloodTilde /\ m.what \in Said => ~F!Suppresses(F!Nick(m.nick), m, THRESHOLD)
  /\ \A c \in FloodChannels : m.what = F!Renames(c) => ~F!Suppresses(F!Renames(c), m, NICK_THRESHOLD)
  /\ m.what = F!Ctcp => ~F!Suppresses(F!Ctcp, m, CTCP_THRESHOLD)
  /\ m.what \in Words => ~F!IsDuplicate(m)
  /\ m.what = F!Privately /\ m.nick \in FloodTilde => ~F!StormSuppresses(m)

(* One more on the screen, that passed the checks which count it.          *)
LEMMA OneMoreShown ==
  ASSUME FloodInv, NEW m \in F!Entry, m.at = flood_now, flood_shown' = flood_shown \cup {m}, Passes(m)
  PROVE  F!NobodyFloods' /\ F!CopiesAreBounded' /\ F!NoStorm'
<1>0. FloodTypes /\ (\A s \in flood_shown : Known(s)) /\ F!NobodyFloods /\ F!CopiesAreBounded /\ F!NoStorm
  BY DEF FloodInv
<1>1. ASSUME NEW what, what # m.what PROVE F!About(what)' = F!About(what)
  BY <1>1 DEF F!About
<1>2. ASSUME NEW n \in FloodTilde PROVE Cardinality(F!Of(n)') < THRESHOLD
  <2>0. n \in FloodNicks /\ THRESHOLD \in Nat
    BY FloodConstants
  <2>1. CASE n = m.nick /\ m.what \in Said
    <3>1. F!Of(n)' \in SUBSET (flood_shown \cup {m})
      BY DEF F!Of
    <3>2. \A s \in F!Of(n)' : s = m \/ Remembered(F!Nick(n), s)
      <4> TAKE s \in F!Of(n)'
      <4>1. s \in flood_shown \cup {m} /\ s.nick = n /\ s.what \in Said
        BY DEF F!Of, Said, Words
      <4> QED
        BY <1>0, <4>1 DEF Known
    <3>3. ~F!Suppresses(F!Nick(n), m, THRESHOLD) /\ F!Nick(n) \in F!Keys
      BY <2>0, <2>1, KeysAreKeys DEF Passes
    <3> QED
      BY <1>0, <2>0, <3>1, <3>2, <3>3, WindowBound
  <2>2. CASE ~(n = m.nick /\ m.what \in Said)
    <3>1. F!Of(n)' = F!Of(n)
      BY <2>2 DEF F!Of, Said, Words
    <3> QED
      BY FloodCardinality, <1>0, <3>1 DEF F!NobodyFloods
  <2> QED
    BY <2>1, <2>2
<1>3. ASSUME NEW k \in Counters, NEW threshold \in Nat, m.what = k => ~F!Suppresses(k, m, threshold),
             Cardinality(F!About(k)) < threshold
      PROVE  Cardinality(F!About(k)') < threshold
  <2>1. CASE k = m.what
    <3>1. F!About(k)' \in SUBSET (flood_shown \cup {m})
      BY DEF F!About
    <3>2. \A s \in F!About(k)' : s = m \/ Remembered(k, s)
      <4> TAKE s \in F!About(k)'
      <4>1. s \in flood_shown \cup {m} /\ s.what = k
        BY DEF F!About
      <4> QED
        BY <1>0, <4>1 DEF Known
    <3>3. k \in F!Keys
      BY KeysAreKeys DEF Counters
    <3> QED
      BY <1>0, <1>3, <2>1, <3>1, <3>2, <3>3, WindowBound
  <2> QED
    BY <1>1, <1>3, <2>1
<1>4. F!NobodyFloods'
  <2>1. \A c \in FloodChannels : Cardinality(F!About(F!Renames(c))') < NICK_THRESHOLD
    BY FloodCardinality, <1>0, <1>3, FloodConstants, KeysAreKeys DEF F!NobodyFloods, Passes
  <2>2. Cardinality(F!About(F!Ctcp)') < CTCP_THRESHOLD
    BY FloodCardinality, <1>0, <1>3, FloodConstants, KeysAreKeys DEF F!NobodyFloods, Passes
  <2> QED
    BY FloodCardinality, <1>2, <2>1, <2>2 DEF F!NobodyFloods
<1>5. F!CopiesAreBounded'
  <2> SUFFICES ASSUME NEW t \in FloodTexts
               PROVE  \/ Cardinality(F!About(F!Text(t))') < DUP_THRESHOLD
                      \/ Cardinality(F!About(F!Text(t))') < DUP_MIN_IN_WINDOW
    BY FloodCardinality DEF F!CopiesAreBounded
  <2>1. CASE m.what = F!Text(t)
    <3> DEFINE A == F!About(F!Text(t))'
               w == F!TextWindow(m)
    <3>1. w \in SUBSET F!Entry /\ IsFiniteSet(w) /\ m \in w /\ \A s \in flood_shown : s \in texts => s \in w
      BY <1>0, RecentFacts DEF F!TextWindow, FloodTypes
    <3>2. \A s \in A : s \in w /\ s.what = m.what
      <4> TAKE s \in A
      <4>1. s \in flood_shown \cup {m} /\ s.what = F!Text(t)
        BY DEF F!About
      <4>2. s \in flood_shown => s \in texts
        BY <1>0, <4>1, KeysAreKeys DEF Known
      <4> QED
        BY <2>1, <3>1, <4>1, <4>2
    <3>3. A \in SUBSET F!Copies(m) /\ A \in SUBSET w
      BY <3>2 DEF F!Copies
    <3>4. IsFiniteSet(F!Copies(m))
      BY <3>1, FS_Subset DEF F!Copies
    <3>5. ~(Cardinality(w) >= DUP_MIN_IN_WINDOW) \/ ~(Cardinality(F!Copies(m)) >= DUP_THRESHOLD)
      BY FloodCardinality, <2>1, KeysAreKeys DEF F!IsDuplicate, Passes
    <3> HIDE DEF A, w
    <3>6. Cardinality(A) < DUP_THRESHOLD \/ Cardinality(A) < DUP_MIN_IN_WINDOW
      BY <3>1, <3>3, <3>4, <3>5, Fewer, FloodConstants
    <3> QED
      BY <3>6 DEF A
  <2>2. CASE m.what # F!Text(t)
    BY FloodCardinality, <1>0, <1>1, <2>2 DEF F!CopiesAreBounded
  <2> QED
    BY <2>1, <2>2
<1>6. F!NoStorm'
  <2>1. CASE m.what = F!Privately /\ m.nick \in FloodTilde
    <3> DEFINE A == {s \in F!About(F!Privately)' : s.nick \in FloodTilde}
               w == F!StormWindow(m)
    <3>1. w \in SUBSET F!Entry /\ IsFiniteSet(w) /\ m \in w /\ \A s \in flood_shown : s \in storm => s \in w
      BY <1>0, RecentFacts DEF F!StormWindow, FloodTypes
    <3>2. ~F!Blocked(F!Storm) /\ ~(Cardinality(F!Senders(w)) >= STORM_THRESHOLD)
      BY FloodCardinality, <2>1 DEF F!StormSuppresses, Passes
    <3>3. A \in SUBSET w
      <4> SUFFICES ASSUME NEW s \in A PROVE s \in w
        OBVIOUS
      <4>1. s \in flood_shown \cup {m} /\ s.what = F!Privately /\ s.nick \in FloodTilde
        BY DEF F!About
      <4>2. s \in flood_shown => s \in storm
        BY <1>0, <3>2, <4>1, InTheWindow, KeysAreKeys DEF Known
      <4> QED
        BY <3>1, <4>1, <4>2
    <3>4. F!Senders(A) \in SUBSET F!Senders(w)
      BY <3>3 DEF F!Senders
    <3>5. IsFiniteSet(F!Senders(w))
      BY <3>1, SendersFinite
    <3>6. Cardinality(F!Senders(A)) < STORM_THRESHOLD
      BY <3>2, <3>4, <3>5, Fewer, FloodConstants
    <3> QED
      BY FloodCardinality, <3>6 DEF F!NoStorm
  <2>2. CASE ~(m.what = F!Privately /\ m.nick \in FloodTilde)
    <3>1. {s \in F!About(F!Privately)' : s.nick \in FloodTilde} = {s \in F!About(F!Privately) : s.nick \in FloodTilde}
      BY <2>2 DEF F!About
    <3> QED
      BY FloodCardinality, <1>0, <3>1 DEF F!NoStorm
  <2> QED
    BY <2>1, <2>2
<1> QED
  BY <1>4, <1>5, <1>6

(* What a handler leaves as it must be.                                    *)
Framed ==
  /\ flood_now' = flood_now /\ flood_messages' \in Nat /\ exempt' \in SUBSET FloodNicks
  /\ times' \in [F!Keys -> SUBSET F!Entry] /\ blocked' \in [F!Keys -> Nat]
  /\ \A j \in F!Keys : /\ IsFiniteSet(times'[j]) /\ blocked'[j] <= flood_now + FLOOD_BLOCK
                     /\ \A e \in times'[j] : e.at <= flood_now
  /\ \A j \in F!Keys, s \in flood_shown : Remembered(j, s) => Remembered(j, s)'
  /\ storm' \in SUBSET F!Entry /\ IsFiniteSet(storm') /\ texts' \in SUBSET F!Entry /\ IsFiniteSet(texts')
  /\ \A s \in flood_shown : s \in texts => s \in texts'
  /\ \A s \in flood_shown : s \in storm \/ s.at + FLOOD_BLOCK <= blocked[F!Storm] =>
                      s \in storm' \/ s.at + FLOOD_BLOCK <= blocked'[F!Storm]
  /\ \A n \in queries' : <<n, "ALL">> \notin FloodIgnores

LEMMA FramedKnown ==
  ASSUME FloodInv, Framed, NEW s \in flood_shown PROVE Known(s)'
<1>1. Known(s) /\ s \in F!Entry
  BY DEF FloodInv, FloodTypes
<1>2. s.nick \in FloodNicks /\ F!Nick(s.nick) \in F!Keys /\ \A k \in Counters : k \in F!Keys
  BY <1>1, KeysAreKeys DEF F!Entry, Counters
<1>3. /\ s.nick \in FloodTilde /\ s.what \in Said => Remembered(F!Nick(s.nick), s)'
      /\ s.what \in Counters => Remembered(s.what, s)'
  BY <1>1, <1>2 DEF Known, Framed
<1>4. /\ s.what \in Words => s \in texts'
      /\ s.what = F!Privately /\ s.nick \in FloodTilde => s \in storm' \/ s.at + FLOOD_BLOCK <= blocked'[F!Storm]
  BY <1>1 DEF Known, Framed
<1> QED
  BY <1>3, <1>4 DEF Known

LEMMA Handled == ASSUME FloodInv, Framed, flood_shown' = flood_shown PROVE FloodInv'
<1>1. FloodTypes'
  BY DEF FloodInv, FloodTypes, Framed
<1>2. \A s \in flood_shown' : Known(s)'
  BY FramedKnown
<1> QED
  BY <1>1, <1>2, FewerShown DEF FloodInv

LEMMA HandledAndShown ==
  ASSUME FloodInv, Framed, NEW m \in F!Entry, m.at = flood_now, flood_shown' = flood_shown \cup {m}, Passes(m), Known(m)'
  PROVE  FloodInv'
<1>1. FloodTypes'
  <2>1. IsFiniteSet(flood_shown')
    BY FS_AddElement DEF FloodInv, FloodTypes
  <2>2. \A s \in flood_shown' : flood_now' - FLOOD_WINDOW <= s.at /\ s.at <= flood_now'
    BY FloodConstants DEF FloodInv, FloodTypes, Framed
  <2> QED
    BY <2>1, <2>2 DEF FloodInv, FloodTypes, Framed
<1>2. \A s \in flood_shown' : Known(s)'
  BY FramedKnown
<1> QED
  BY <1>1, <1>2, OneMoreShown DEF FloodInv

(* Nothing is counted.                                                     *)
LEMMA NothingCounted ==
  ASSUME FloodInv, UNCHANGED <<flood_now, times, blocked, storm, texts>>, flood_messages' \in Nat,
         exempt' \in SUBSET FloodNicks, \A n \in queries' : <<n, "ALL">> \notin FloodIgnores
  PROVE  Framed
BY DEF FloodInv, FloodTypes, Framed, Remembered

(* A check is all that is counted.                                         *)
LEMMA OneCheck ==
  ASSUME FloodInv, NEW k \in F!Keys, NEW m \in F!Entry, m.at = flood_now, NEW threshold \in Nat,
         F!Check(k, m, threshold),
         UNCHANGED <<flood_now, storm, texts>>, flood_messages' \in Nat,
         exempt' \in SUBSET FloodNicks, \A n \in queries' : <<n, "ALL">> \notin FloodIgnores
  PROVE  Framed
<1>1. /\ times' \in [F!Keys -> SUBSET F!Entry] /\ blocked' \in [F!Keys -> Nat]
      /\ \A j \in F!Keys : /\ IsFiniteSet(times'[j]) /\ blocked'[j] <= flood_now + FLOOD_BLOCK
                         /\ blocked[j] <= blocked'[j] /\ \A e \in times'[j] : e.at <= flood_now
      /\ \A j \in F!Keys, s \in flood_shown : Remembered(j, s) => Remembered(j, s)'
  BY CheckFacts DEF FloodInv
<1>2. \A s \in flood_shown : s.at + FLOOD_BLOCK <= blocked[F!Storm] => s.at + FLOOD_BLOCK <= blocked'[F!Storm]
  <2>1. \A s \in flood_shown : s.at \in Nat
    BY DEF FloodInv, FloodTypes, F!Entry
  <2>2. blocked[F!Storm] \in Nat /\ blocked'[F!Storm] \in Nat /\ blocked[F!Storm] <= blocked'[F!Storm]
    BY <1>1, KeysAreKeys DEF FloodInv, FloodTypes
  <2> QED
    BY <2>1, <2>2, FloodConstants
<1> QED
  BY <1>1, <1>2 DEF FloodInv, FloodTypes, Framed

(* A message that its sender's window lets through to the next check.      *)
LEMMA CountedOn ==
  ASSUME FloodInv, NEW k \in F!Keys, NEW m \in F!Entry, m.at = flood_now,
         times' \in {times, [times EXCEPT ![k] = F!Counted(k, m)]},
         NEW j \in F!Keys, blocked' \in {blocked, [blocked EXCEPT ![j] = flood_now + FLOOD_BLOCK]},
         flood_now' = flood_now, flood_messages' \in Nat, exempt' = exempt,
         \A n \in queries' : <<n, "ALL">> \notin FloodIgnores,
         storm' \in SUBSET F!Entry, IsFiniteSet(storm'), texts' \in SUBSET F!Entry, IsFiniteSet(texts'),
         \A s \in flood_shown : s \in texts => s \in texts',
         \A s \in flood_shown : s \in storm => s \in storm' \/ blocked'[F!Storm] = flood_now + FLOOD_BLOCK
  PROVE  /\ Framed
         /\ times' = [times EXCEPT ![k] = F!Counted(k, m)] => m \in times'[k]
<1>1. /\ blocked' \in [F!Keys -> Nat]
      /\ \A i \in F!Keys : blocked[i] <= blocked'[i] /\ blocked'[i] <= flood_now + FLOOD_BLOCK
  BY BlockGrows DEF FloodInv
<1>2. /\ times' \in [F!Keys -> SUBSET F!Entry]
      /\ \A i \in F!Keys : IsFiniteSet(times'[i]) /\ \A e \in times'[i] : e.at <= flood_now
      /\ times' = [times EXCEPT ![k] = F!Counted(k, m)] => m \in times'[k]
  BY WindowMoves DEF FloodInv
<1>3. \A s \in flood_shown : s.at \in Nat /\ s.at <= flood_now /\ flood_now \in Nat
  BY DEF FloodInv, FloodTypes, F!Entry
<1>4. ASSUME NEW i \in F!Keys, NEW s \in flood_shown, s.at + FLOOD_BLOCK <= blocked[i]
      PROVE  s.at + FLOOD_BLOCK <= blocked'[i]
  <2>1. blocked[i] \in Nat /\ blocked'[i] \in Nat /\ blocked[i] <= blocked'[i]
    BY <1>1 DEF FloodInv, FloodTypes
  <2> QED
    BY <1>3, <1>4, <2>1, FloodConstants
<1>5. ASSUME NEW i \in F!Keys, NEW s \in flood_shown, s \in times[i] PROVE s \in times'[i]
  <2>1. CASE times' = times
    BY <1>5, <2>1
  <2>2. CASE times' = [times EXCEPT ![k] = F!Counted(k, m)]
    <3>1. times'[i] = IF i = k THEN F!Counted(k, m) ELSE times[i]
      BY <2>2 DEF FloodInv, FloodTypes
    <3>2. i = k => s \in F!Counted(k, m)
      BY <1>5, RecentFacts DEF F!Counted, FloodInv, FloodTypes
    <3> QED
      BY <1>5, <3>1, <3>2
  <2> QED
    BY <2>1, <2>2
<1>6. \A i \in F!Keys, s \in flood_shown : Remembered(i, s) => Remembered(i, s)'
  BY <1>4, <1>5 DEF Remembered
<1>7. \A s \in flood_shown : s \in storm \/ s.at + FLOOD_BLOCK <= blocked[F!Storm] =>
                       s \in storm' \/ s.at + FLOOD_BLOCK <= blocked'[F!Storm]
  <2> TAKE s \in flood_shown
  <2>1. blocked'[F!Storm] = flood_now + FLOOD_BLOCK => s.at + FLOOD_BLOCK <= blocked'[F!Storm]
    BY <1>3, FloodConstants
  <2> QED
    BY <1>4, <2>1, KeysAreKeys
<1> QED
  BY <1>1, <1>2, <1>6, <1>7 DEF FloodInv, FloodTypes, Framed

LEMMA PublicKeeps ==
  ASSUME FloodInv, NEW n \in FloodNicks, NEW t \in FloodTexts, F!Public(n, t) PROVE FloodInv'
<1>m. PICK m \in F!Entry : m = F!This(n, F!Text(t))
  BY ThisEntry, KeysAreKeys DEF FloodInv
<1>1. /\ m \in F!Entry /\ m.nick = n /\ m.what = F!Text(t) /\ m.at = flood_now
      /\ F!Text(t) \in F!Keys /\ F!Text(t) \in Words /\ F!Text(t) \in Said /\ F!Nick(n) \in F!Keys
  BY <1>m, ThisEntry, KeysAreKeys DEF FloodInv, Said
<1>2. /\ FloodTypes /\ flood_now' = flood_now /\ flood_messages' \in Nat /\ exempt' \in SUBSET FloodNicks /\ exempt' = exempt
      /\ (\A q \in queries' : <<q, "ALL">> \notin FloodIgnores)
      /\ storm' = storm /\ storm \in SUBSET F!Entry /\ IsFiniteSet(storm)
      /\ texts \in SUBSET F!Entry /\ IsFiniteSet(texts)
  BY DEF F!Public, F!Settings, F!Message, FloodInv, FloodTypes
<1>3. /\ F!Text(t) # F!Privately /\ F!Text(t) # F!Ctcp /\ (\A c \in FloodChannels : F!Text(t) # F!Renames(c))
      /\ F!Text(t) \notin Counters
  BY KeysDiffer DEF Counters
<1> DEFINE checked == n \in FloodTilde /\ F!Suppresses(F!Nick(n), m, THRESHOLD)
<1>4. \/ ~F!Watched(n) /\ F!Show(m) /\ UNCHANGED <<times, blocked, texts>>
      \/ F!Watched(n) /\ checked /\ F!Check(F!Nick(n), m, THRESHOLD) /\ F!Hide /\ UNCHANGED texts
      \/ /\ F!Watched(n) /\ ~checked
         /\ times' = IF n \in FloodTilde THEN [times EXCEPT ![F!Nick(n)] = F!Counted(F!Nick(n), m)] ELSE times
         /\ texts' = IF F!Blocked(F!Text(t)) THEN texts ELSE F!TextWindow(m)
         /\ IF F!TextSuppresses(m) THEN F!Hide /\ blocked' = [blocked EXCEPT ![F!Text(t)] = flood_now + FLOOD_BLOCK]
            ELSE F!Show(m) /\ UNCHANGED blocked
  BY <1>m DEF F!Public
<1>5. CASE ~F!Watched(n) /\ F!Show(m) /\ UNCHANGED <<times, blocked, texts>>
  BY <1>1, <1>2, <1>5, NothingCounted, Handled DEF F!Show
<1>6. CASE F!Watched(n) /\ checked /\ F!Check(F!Nick(n), m, THRESHOLD) /\ F!Hide /\ UNCHANGED texts
  <2>1. Framed
    BY <1>1, <1>2, <1>6, OneCheck, FloodConstants
  <2> QED
    BY <1>6, <2>1, Handled DEF F!Hide
<1>7. CASE /\ F!Watched(n) /\ ~checked
           /\ times' = IF n \in FloodTilde THEN [times EXCEPT ![F!Nick(n)] = F!Counted(F!Nick(n), m)] ELSE times
           /\ texts' = IF F!Blocked(F!Text(t)) THEN texts ELSE F!TextWindow(m)
           /\ IF F!TextSuppresses(m) THEN F!Hide /\ blocked' = [blocked EXCEPT ![F!Text(t)] = flood_now + FLOOD_BLOCK]
              ELSE F!Show(m) /\ UNCHANGED blocked
  <2> DEFINE w == F!TextWindow(m)
  <2>1. w \in SUBSET F!Entry /\ IsFiniteSet(w) /\ m \in w /\ \A s \in flood_shown : s \in texts => s \in w
    BY <1>1, <1>2, RecentFacts DEF F!TextWindow
  <2> HIDE DEF w
  <2>2. /\ texts' \in SUBSET F!Entry /\ IsFiniteSet(texts') /\ (\A s \in flood_shown : s \in texts => s \in texts')
        /\ ~F!Blocked(F!Text(t)) => m \in texts'
    BY <1>2, <1>7, <2>1 DEF w
  <2>3. /\ times' \in {times, [times EXCEPT ![F!Nick(n)] = F!Counted(F!Nick(n), m)]}
        /\ blocked' \in {blocked, [blocked EXCEPT ![F!Text(t)] = flood_now + FLOOD_BLOCK]}
    BY <1>7
  <2>4. Framed /\ (times' = [times EXCEPT ![F!Nick(n)] = F!Counted(F!Nick(n), m)] => m \in times'[F!Nick(n)])
    BY <1>1, <1>2, <2>2, <2>3, CountedOn
  <2>5. CASE F!TextSuppresses(m)
    BY <1>7, <2>4, <2>5, Handled DEF F!Hide
  <2>6. CASE ~F!TextSuppresses(m)
    <3>1. flood_shown' = flood_shown \cup {m}
      BY <1>1, <1>7, <2>6 DEF F!Show
    <3>2. Passes(m)
      BY <1>1, <1>3, <1>7, <2>6 DEF Passes, F!TextSuppresses
    <3>3. Known(m)'
      <4>1. m \in texts'
        BY <1>1, <2>2, <2>6 DEF F!TextSuppresses
      <4>2. n \in FloodTilde => m \in times'[F!Nick(n)]
        BY <1>7, <2>4
      <4>3. m.nick = n /\ m.what = F!Text(t)
        BY <1>1
      <4> QED
        BY <1>3, <4>1, <4>2, <4>3 DEF Known, Remembered
    <3> QED
      BY <1>1, <2>4, <3>1, <3>2, <3>3, HandledAndShown
  <2> QED
    BY <2>5, <2>6
<1> QED
  BY <1>4, <1>5, <1>6, <1>7

LEMMA PrivateKeeps ==
  ASSUME FloodInv, NEW n \in FloodNicks, F!Private(n) PROVE FloodInv'
<1>m. PICK m \in F!Entry : m = F!This(n, F!Privately)
  BY ThisEntry, KeysAreKeys DEF FloodInv
<1>1. /\ m \in F!Entry /\ m.nick = n /\ m.what = F!Privately /\ m.at = flood_now
      /\ F!Nick(n) \in F!Keys /\ F!Storm \in F!Keys /\ F!Privately \in Said
  BY <1>m, ThisEntry, KeysAreKeys DEF FloodInv, Said
<1>2. /\ FloodTypes /\ flood_now' = flood_now /\ flood_messages' \in Nat /\ exempt' \in SUBSET FloodNicks /\ exempt' = exempt
      /\ (\A q \in queries' : <<q, "ALL">> \notin FloodIgnores)
      /\ texts' = texts /\ storm \in SUBSET F!Entry /\ IsFiniteSet(storm)
      /\ texts \in SUBSET F!Entry /\ IsFiniteSet(texts)
  BY DEF F!Private, F!Settings, F!Message, F!ShouldIgnore, FloodInv, FloodTypes
<1>3. /\ F!Privately # F!Ctcp /\ (\A c \in FloodChannels : F!Privately # F!Renames(c))
      /\ F!Privately \notin Counters /\ F!Privately \notin Words
  BY KeysDiffer, FloodConstants DEF Counters, Words
<1> DEFINE checked == F!Suppresses(F!Nick(n), m, THRESHOLD)
<1>4. \/ (~F!Watched(n) \/ n \notin FloodTilde) /\ F!Show(m) /\ UNCHANGED <<times, blocked, storm>>
      \/ n \in FloodTilde /\ F!Check(F!Nick(n), m, THRESHOLD) /\ F!Hide /\ UNCHANGED storm
      \/ /\ n \in FloodTilde /\ ~checked
         /\ times' = [times EXCEPT ![F!Nick(n)] = F!Counted(F!Nick(n), m)]
         /\ storm' = IF F!Blocked(F!Storm) THEN storm
                     ELSE IF F!StormSuppresses(m) THEN {} ELSE F!StormWindow(m)
         /\ IF F!StormSuppresses(m) THEN F!Hide /\ blocked' = [blocked EXCEPT ![F!Storm] = flood_now + FLOOD_BLOCK]
            ELSE F!Show(m) /\ UNCHANGED blocked
  BY <1>m DEF F!Private
<1>5. CASE (~F!Watched(n) \/ n \notin FloodTilde) /\ F!Show(m) /\ UNCHANGED <<times, blocked, storm>>
  <2>1. Framed
    BY <1>1, <1>2, <1>5, NothingCounted
  <2>2. CASE flood_shown' = flood_shown
    BY <2>1, <2>2, Handled
  <2>3. CASE flood_shown' = flood_shown \cup {m} /\ n \notin FloodTilde
    <3>1. Passes(m) /\ Known(m)'
      BY <1>1, <1>3, <2>3 DEF Passes, Known
    <3> QED
      BY <1>1, <2>1, <2>3, <3>1, HandledAndShown
  <2> QED
    BY <1>1, <1>5, <2>2, <2>3 DEF F!Show
<1>6. CASE n \in FloodTilde /\ F!Check(F!Nick(n), m, THRESHOLD) /\ F!Hide /\ UNCHANGED storm
  <2>1. Framed
    BY <1>1, <1>2, <1>6, OneCheck, FloodConstants
  <2> QED
    BY <1>6, <2>1, Handled DEF F!Hide
<1>7. CASE /\ n \in FloodTilde /\ ~checked
           /\ times' = [times EXCEPT ![F!Nick(n)] = F!Counted(F!Nick(n), m)]
           /\ storm' = IF F!Blocked(F!Storm) THEN storm
                       ELSE IF F!StormSuppresses(m) THEN {} ELSE F!StormWindow(m)
           /\ IF F!StormSuppresses(m) THEN F!Hide /\ blocked' = [blocked EXCEPT ![F!Storm] = flood_now + FLOOD_BLOCK]
              ELSE F!Show(m) /\ UNCHANGED blocked
  <2> DEFINE w == F!StormWindow(m)
  <2>1. w \in SUBSET F!Entry /\ IsFiniteSet(w) /\ m \in w /\ \A s \in flood_shown : s \in storm => s \in w
    BY <1>1, <1>2, RecentFacts DEF F!StormWindow
  <2>e. {} \in SUBSET F!Entry /\ IsFiniteSet({})
    BY FS_EmptySet
  <2> HIDE DEF w
  <2>0. blocked \in [F!Keys -> Nat]
    BY <1>2 DEF FloodTypes
  <2>2. /\ storm' \in SUBSET F!Entry /\ IsFiniteSet(storm')
        /\ \A s \in flood_shown : s \in storm => s \in storm' \/ blocked'[F!Storm] = flood_now + FLOOD_BLOCK
        /\ ~F!StormSuppresses(m) => m \in storm'
    <3>1. CASE F!Blocked(F!Storm)
      BY FloodCardinality, <1>1, <1>2, <1>7, <3>1 DEF F!StormSuppresses
    <3>2. CASE ~F!Blocked(F!Storm) /\ F!StormSuppresses(m)
      <4>1. storm' = {} /\ blocked'[F!Storm] = flood_now + FLOOD_BLOCK
        BY <1>1, <1>7, <2>0, <3>2
      <4> QED
        BY <2>e, <3>2, <4>1
    <3>3. CASE ~F!Blocked(F!Storm) /\ ~F!StormSuppresses(m)
      BY <1>7, <2>1, <3>3 DEF w
    <3> QED
      BY <3>1, <3>2, <3>3
  <2>3. /\ times' \in {times, [times EXCEPT ![F!Nick(n)] = F!Counted(F!Nick(n), m)]}
        /\ blocked' \in {blocked, [blocked EXCEPT ![F!Storm] = flood_now + FLOOD_BLOCK]}
    BY <1>7
  <2>4. Framed /\ m \in times'[F!Nick(n)]
    BY <1>1, <1>2, <1>7, <2>2, <2>3, CountedOn
  <2>5. CASE F!StormSuppresses(m)
    BY <1>7, <2>4, <2>5, Handled DEF F!Hide
  <2>6. CASE ~F!StormSuppresses(m)
    <3>1. flood_shown' = flood_shown \/ flood_shown' = flood_shown \cup {m}
      BY <1>7, <2>6 DEF F!Show
    <3>2. Passes(m)
      BY <1>1, <1>3, <1>7, <2>6 DEF Passes
    <3>3. Known(m)'
      BY <1>1, <1>3, <2>2, <2>4, <2>6 DEF Known, Remembered
    <3> QED
      BY <1>1, <2>4, <3>1, <3>2, <3>3, Handled, HandledAndShown
  <2> QED
    BY <2>5, <2>6
<1> QED
  BY <1>4, <1>5, <1>6, <1>7

(* A /me is counted nowhere, and is none of what the limits are about.     *)
LEMMA MeKeeps ==
  ASSUME FloodInv, NEW n \in FloodNicks, F!CtcpAction(n) PROVE FloodInv'
<1>m. PICK m \in F!Entry : m = F!This(n, F!Action)
  BY ThisEntry DEF FloodInv
<1>1. m \in F!Entry /\ m.nick = n /\ m.what = F!Action /\ m.at = flood_now
  BY <1>m, ThisEntry DEF FloodInv
<1>2. /\ flood_messages' \in Nat /\ exempt' \in SUBSET FloodNicks
      /\ UNCHANGED <<flood_now, times, blocked, storm, texts>>
      /\ (\A q \in queries' : <<q, "ALL">> \notin FloodIgnores)
  BY DEF F!CtcpAction, F!Settings, F!Message, F!ShouldIgnore, FloodInv, FloodTypes
<1>3. Framed
  BY <1>2, NothingCounted
<1>4. flood_shown' = flood_shown \/ flood_shown' = flood_shown \cup {m}
  BY <1>m DEF F!CtcpAction, F!Show
<1>5. F!Action \notin Said /\ F!Action \notin Counters /\ F!Action \notin Words
  BY KeysDiffer DEF Said, Counters, Words
<1>6. Passes(m) /\ Known(m)'
  BY <1>1, <1>5, KeysDiffer DEF Passes, Known
<1> QED
  BY <1>1, <1>3, <1>4, <1>6, Handled, HandledAndShown

LEMMA CtcpKeeps ==
  ASSUME FloodInv, NEW n \in FloodNicks, F!CtcpRequest(n) PROVE FloodInv'
<1>m. PICK m \in F!Entry : m = F!This(n, F!Ctcp)
  BY ThisEntry, KeysAreKeys DEF FloodInv
<1>1. m \in F!Entry /\ m.nick = n /\ m.what = F!Ctcp /\ m.at = flood_now /\ F!Ctcp \in F!Keys
  BY <1>m, ThisEntry, KeysAreKeys DEF FloodInv
<1>2. /\ FloodTypes /\ flood_messages' \in Nat /\ exempt' \in SUBSET FloodNicks
      /\ UNCHANGED <<flood_now, storm, texts>> /\ (\A q \in queries' : <<q, "ALL">> \notin FloodIgnores)
  BY DEF F!CtcpRequest, F!Settings, F!Message, F!ShouldIgnore, FloodInv, FloodTypes
<1>3. F!Ctcp # F!Privately /\ F!Ctcp \notin Words /\ F!Ctcp \notin Said /\ \A c \in FloodChannels : F!Ctcp # F!Renames(c)
  BY KeysDiffer, FloodConstants DEF Words, Said
<1>4. \/ ~F!Watched(n) /\ F!Show(m) /\ UNCHANGED <<times, blocked>>
      \/ F!Check(F!Ctcp, m, CTCP_THRESHOLD) /\ F!Suppresses(F!Ctcp, m, CTCP_THRESHOLD) /\ F!Hide
      \/ F!Check(F!Ctcp, m, CTCP_THRESHOLD) /\ ~F!Suppresses(F!Ctcp, m, CTCP_THRESHOLD) /\ F!Show(m)
  BY <1>m DEF F!CtcpRequest
<1>5. CASE ~F!Watched(n) /\ F!Show(m) /\ UNCHANGED <<times, blocked>>
  BY <1>1, <1>2, <1>5, NothingCounted, Handled DEF F!Show
<1>6. ASSUME F!Check(F!Ctcp, m, CTCP_THRESHOLD)
      PROVE  Framed /\ (~F!Suppresses(F!Ctcp, m, CTCP_THRESHOLD) => m \in times'[F!Ctcp])
  BY <1>1, <1>2, <1>6, OneCheck, CheckFacts, FloodConstants
<1>7. CASE F!Check(F!Ctcp, m, CTCP_THRESHOLD) /\ F!Hide
  BY <1>6, <1>7, Handled DEF F!Hide
<1>8. CASE F!Check(F!Ctcp, m, CTCP_THRESHOLD) /\ ~F!Suppresses(F!Ctcp, m, CTCP_THRESHOLD) /\ F!Show(m)
  <2>1. Passes(m)
    BY <1>1, <1>3, <1>8 DEF Passes
  <2>2. Known(m)'
    BY <1>1, <1>3, <1>6, <1>8 DEF Known, Remembered
  <2>3. flood_shown' = flood_shown \/ flood_shown' = flood_shown \cup {m}
    BY <1>8 DEF F!Show
  <2> QED
    BY <1>1, <1>6, <1>8, <2>1, <2>2, <2>3, Handled, HandledAndShown
<1> QED
  BY <1>4, <1>5, <1>7, <1>8

LEMMA NickChangeKeeps ==
  ASSUME FloodInv, NEW n \in FloodNicks, NEW c \in FloodChannels, F!NickChange(n, c) PROVE FloodInv'
<1> DEFINE k == F!Renames(c)
<1>m. PICK m \in F!Entry : m = F!This(n, k)
  BY ThisEntry, KeysAreKeys DEF FloodInv
<1>1. m \in F!Entry /\ m.nick = n /\ m.what = k /\ m.at = flood_now /\ k \in F!Keys /\ k \in Counters
  BY <1>m, ThisEntry, KeysAreKeys DEF FloodInv
<1>2. /\ FloodTypes /\ flood_messages' \in Nat /\ exempt' \in SUBSET FloodNicks
      /\ UNCHANGED <<flood_now, storm, texts>> /\ (\A q \in queries' : <<q, "ALL">> \notin FloodIgnores)
  BY DEF F!NickChange, F!Settings, F!Message, FloodInv, FloodTypes
<1>3. k # F!Privately /\ k # F!Ctcp /\ k \notin Words /\ k \notin Said
  BY KeysDiffer DEF Words, Said
<1>4. \/ UNCHANGED <<times, blocked, flood_shown>>
      \/ /\ F!Check(k, m, NICK_THRESHOLD)
         /\ flood_shown' = IF F!Suppresses(k, m, NICK_THRESHOLD) THEN flood_shown ELSE flood_shown \cup {m}
  BY <1>m DEF F!NickChange
<1> HIDE DEF k
<1>5. CASE UNCHANGED <<times, blocked, flood_shown>>
  BY <1>2, <1>5, NothingCounted, Handled
<1>6. CASE /\ F!Check(k, m, NICK_THRESHOLD)
           /\ flood_shown' = IF F!Suppresses(k, m, NICK_THRESHOLD) THEN flood_shown ELSE flood_shown \cup {m}
  <2>1. Framed /\ (~F!Suppresses(k, m, NICK_THRESHOLD) => m \in times'[k])
    BY <1>1, <1>2, <1>6, OneCheck, CheckFacts, FloodConstants
  <2>2. CASE F!Suppresses(k, m, NICK_THRESHOLD)
    BY <1>6, <2>1, <2>2, Handled
  <2>3. CASE ~F!Suppresses(k, m, NICK_THRESHOLD)
    <3>1. Passes(m)
      BY <1>1, <1>3, <2>3 DEF Passes
    <3>2. Known(m)'
      BY <1>1, <1>3, <2>1, <2>3 DEF Known, Remembered
    <3> QED
      BY <1>1, <1>6, <2>1, <2>3, <3>1, <3>2, HandledAndShown
  <2> QED
    BY <2>2, <2>3
<1> QED
  BY <1>4, <1>5, <1>6

LEMMA CmdFloodKeeps ==
  ASSUME FloodInv, NEW on \in BOOLEAN, NEW es \in SUBSET FloodNicks, F!CmdFlood(on, es) PROVE FloodInv'
<1>1. /\ flood_messages' \in Nat /\ exempt' \in SUBSET FloodNicks /\ flood_shown' = flood_shown
      /\ UNCHANGED <<flood_now, times, blocked, storm, texts>> /\ (\A q \in queries' : <<q, "ALL">> \notin FloodIgnores)
  BY DEF F!CmdFlood, F!Message, FloodInv, FloodTypes
<1> QED
  BY <1>1, NothingCounted, Handled

LEMMA TickKeepsFlood == ASSUME FloodInv, F!Tick PROVE FloodInv'
<1>1. /\ flood_now' = flood_now + 1 /\ flood_now < FloodMaxClock /\ flood_shown' = {m \in flood_shown : m.at >= flood_now' - FLOOD_WINDOW}
      /\ UNCHANGED <<protection, exempt, times, blocked, storm, texts, queries, flood_messages>>
  BY DEF F!Tick
<1>0. FloodTypes /\ flood_now \in Nat /\ (\A s \in flood_shown : s.at \in Nat) /\ blocked \in [F!Keys -> Nat]
      /\ \A k \in F!Keys : \A e \in times[k] : e.at \in Nat
  BY DEF FloodInv, FloodTypes, F!Entry
<1>2. FloodTypes'
  <2>1. IsFiniteSet(flood_shown')
    BY <1>0, <1>1, FS_Subset DEF FloodTypes
  <2>2. \A s \in flood_shown' : flood_now' - FLOOD_WINDOW <= s.at /\ s.at <= flood_now'
    BY <1>0, <1>1, FloodConstants DEF FloodTypes
  <2>3. \A k \in F!Keys : /\ IsFiniteSet(times'[k]) /\ blocked'[k] <= flood_now' + FLOOD_BLOCK
                        /\ \A m \in times'[k] : m.at <= flood_now'
    BY <1>0, <1>1, FloodConstants DEF FloodTypes
  <2>4. flood_now' \in Nat /\ 1 <= flood_now' /\ flood_now' <= FloodMaxClock
    BY <1>0, <1>1, FloodConstants
  <2> QED
    BY <1>0, <1>1, <2>1, <2>2, <2>3, <2>4 DEF FloodTypes
<1>3. \A s \in flood_shown' : Known(s)'
  BY <1>1 DEF FloodInv, Known, Remembered
<1> QED
  BY <1>1, <1>2, <1>3, FewerShown DEF FloodInv

LEMMA FloodStep == ASSUME FloodInv, [F!Next]_(F!vars) PROVE FloodInv'
<1>1. CASE UNCHANGED F!vars
  <2>1. flood_shown' = flood_shown /\ flood_messages' \in Nat /\ exempt' \in SUBSET FloodNicks
        /\ UNCHANGED <<flood_now, times, blocked, storm, texts>> /\ (\A q \in queries' : <<q, "ALL">> \notin FloodIgnores)
    BY <1>1 DEF F!vars, FloodInv, FloodTypes
  <2> QED
    BY <2>1, NothingCounted, Handled
<1>2. \A n \in FloodNicks : exempt \cup {n} \in SUBSET FloodNicks /\ exempt \ {n} \in SUBSET FloodNicks /\ exempt \in SUBSET FloodNicks
  BY DEF FloodInv, FloodTypes
<1> QED
  BY <1>1, <1>2, TickKeepsFlood, PublicKeeps, PrivateKeeps, MeKeeps, CtcpKeeps, NickChangeKeeps, CmdFloodKeeps DEF F!Next

LEMMA FloodTyped == ASSUME FloodInv PROVE F!TypeOK
<1>1. flood_now \in 1 .. FloodMaxClock
  BY FloodConstants DEF FloodInv, FloodTypes
<1> QED
  BY <1>1 DEF FloodInv, FloodTypes, F!TypeOK

LEMMA FloodAlways == MCSpec => [](part = "flood" => FloodInv)
<1> DEFINE Inv == part = "flood" => FloodInv
<1>1. MCInit => Inv
  BY FloodInit DEF MCInit
<1>2. Inv /\ [MCNext]_mcVars => Inv'
  <2> SUFFICES ASSUME part = "flood" => FloodInv, [MCNext]_mcVars, part' = "flood" PROVE FloodInv'
    OBVIOUS
  <2>1. part = "flood" /\ [F!Next]_(F!vars)
    BY DEF MCNext, mcVars, floodVars, F!vars, LimitsOnly, FloodOnly, SplitsOnly, FileOnly,
           ConfigOnly, ScriptsOnly, StateOnly, WizardOnly, ThumbsOnly, LoginOnly
  <2> QED
    BY <2>1, FloodStep
<1> QED
  BY <1>1, <1>2, PTL DEF MCSpec

(* The windows (WindowsAreKept): the back-off of the key requests ends and *)
(* whoever only asks automatically is never refused, if MaxPerWindow gaps  *)
(* are longer than the window and the longest delay; and no window of the  *)
(* flood protection shows as many as its threshold, whatever is sent,      *)
(* switched on and off, blocked and unblocked in between, where a /me is   *)
(* sent but not among what is counted.                                     *)
THEOREM Windows == ASSUME MaxPerWindow * Gap > Window + MaxDelay PROVE MCSpec => []WindowsAreKept
<1>1. (part = "limits" => LimInv) /\ (part = "flood" => FloodInv) => WindowsAreKept
  <2>1. part = "limits" /\ LimInv => TypeOK /\ BackoffEnds /\ HonestNeverRefused
    BY LimitsTyped, BackoffsEnd, HonestPass DEF Fits
  <2>2. part = "flood" /\ FloodInv => F!TypeOK /\ F!NobodyFloods /\ F!CopiesAreBounded /\ F!NoStorm
    BY FloodTyped DEF FloodInv
  <2> QED
    BY <2>1, <2>2 DEF WindowsAreKept, BackOffsEnd, HonestSendersPass, NobodyFloods,
                      CopiesAreBounded, NoStorm
<1> QED
  BY <1>1, LimitsAlways, FloodAlways, PTL

-----------------------------------------------------------------------------
(* The configuration and its files (Configuration).                        *)

(* What was saved is what is in memory, as long as every file could be     *)
(* written; the shared key of the server web is left out.                  *)
SavedAsIs ==
  config_faults = 0 =>
    /\ diskServers = DOMAIN servers
    /\ \A id \in diskServers \ {"web"} : env[id] = servers[id]
ConfigInv ==
  /\ C!TypeOK /\ C!RuntimeFollowsConfig /\ C!NoOrphanedSecret
  /\ C!RemovalIsConsistent /\ SavedAsIs
  /\ config_faults \in Nat

LEMMA ValuesAreNumbers == 0 \in C!Values /\ \A v \in C!Values : v \in Nat
BY ConfigsAssumption DEF C!Values, C!ConfigurationAssumption

LEMMA ConfigInit == ASSUME C!Init PROVE ConfigInv
<1>1. /\ mem = [s \in C!Settings |-> 0] /\ disk = mem /\ runtime = mem
         /\ env = [k \in C!EnvKeys |-> 0]
      /\ DOMAIN servers = {} /\ diskServers = {} /\ webPass = 0 /\ config_faults = 0
      /\ restartPending \in BOOLEAN /\ config_wizard \in {"closed", "add"} \cup C!Ids
  BY DEF C!Init
<1>2. C!TypeOK
  BY <1>1, ValuesAreNumbers DEF C!TypeOK
<1>3. C!RuntimeFollowsConfig
  BY <1>1 DEF C!RuntimeFollowsConfig, C!Settings
<1>4. C!NoOrphanedSecret /\ C!RemovalIsConsistent /\ SavedAsIs
  BY <1>1 DEF C!NoOrphanedSecret, C!RemovalIsConsistent, SavedAsIs, C!PasswordKey, C!EnvKeys
<1> QED
  BY <1>1, <1>2, <1>3, <1>4 DEF ConfigInv

(* What a credential becomes is a value.                                   *)
LEMMA Credentials ==
  ASSUME C!TypeOK, NEW id \in C!Ids
  PROVE  /\ \A u \in C!Updates : C!Resolved(id, u) \in C!Values
         /\ \A v \in C!Values : C!Resolved(id, {v}) = v
         /\ env[id] \in C!Values /\ C!Credential(id, 0) = env[id]
<1>1. env[id] \in C!Values /\ env[id] \in Nat
  BY ValuesAreNumbers DEF C!TypeOK, C!EnvKeys
<1>2. \A v \in C!Values : C!Resolved(id, {v}) = v
  BY DEF C!Resolved, C!Keep
<1>3. C!Resolved(id, C!Keep) \in C!Values
  BY ValuesAreNumbers DEF C!Resolved, C!Keep, C!TypeOK
<1>4. C!Credential(id, 0) = env[id]
  BY <1>1 DEF C!Credential, C!PasswordKey
<1> QED
  BY <1>1, <1>2, <1>3, <1>4 DEF C!Updates

(* A command about a setting that saves, or fails to.                      *)
LEMMA SettingKeeps ==
  ASSUME ConfigInv, NEW ok \in BOOLEAN, UNCHANGED <<servers, config_wizard>>, C!SaveConfig(ok),
         mem' \in [C!Settings -> C!Values], runtime' \in [C!Settings -> C!Values],
         webPass' \in C!Values, restartPending' \in BOOLEAN, env' \in [C!EnvKeys -> C!Values],
         \A id \in C!Ids \ {"web"} : env'[id] = env[id], C!RuntimeFollowsConfig'
  PROVE  ConfigInv'
<1>1. C!TypeOK'
  BY DEF ConfigInv, C!TypeOK, C!SaveConfig
<1>2. C!NoOrphanedSecret'
  BY DEF ConfigInv, C!NoOrphanedSecret, C!RemovalIsConsistent, C!SaveConfig, C!PasswordKey
<1>3. C!RemovalIsConsistent'
  BY DEF ConfigInv, C!RemovalIsConsistent, C!SaveConfig
<1>4. config_faults' \in Nat /\ (config_faults' = 0 => config_faults = 0)
  BY DEF ConfigInv, C!SaveConfig
<1>5. SavedAsIs'
  BY <1>4 DEF ConfigInv, SavedAsIs, C!SaveConfig, C!TypeOK
<1> QED
  BY <1>1, <1>2, <1>3, <1>4, <1>5 DEF ConfigInv

(* A server is stored, and its secret once the file has it.                *)
LEMMA ApplyKeeps ==
  ASSUME ConfigInv, NEW id \in C!Ids, NEW u \in C!Updates, NEW ok \in BOOLEAN,
         C!ApplyServerConfig(id, u, ok), config_wizard' \in {"closed", "add"} \cup C!Ids
  PROVE  ConfigInv'
<1> DEFINE v == C!Resolved(id, u)
<1>1. v \in C!Values /\ v \in Nat
  BY Credentials, ValuesAreNumbers DEF ConfigInv
<1>2. /\ servers' = C!With(servers, id, v) /\ mem' = mem /\ runtime' = runtime
         /\ reloaded' = reloaded
      /\ webPass' = webPass /\ restartPending' = restartPending
      /\ C!SaveConfig(ok)
      /\ \/ env' = env /\ (ok => u = C!Keep)
         \/ env' = [env EXCEPT ![id] = v] /\ ok
  BY DEF C!ApplyServerConfig, C!EnvAfterSave, C!WriteEnv, C!PasswordKey
<1>3. u = C!Keep => v = IF id \in DOMAIN servers THEN servers[id] ELSE 0
  BY DEF C!Resolved, C!Keep
<1> HIDE DEF v
<1>4. /\ DOMAIN servers' = DOMAIN servers \cup {id} /\ servers'[id] = v
      /\ \A i \in DOMAIN servers : i # id => servers'[i] = servers[i]
  BY <1>2 DEF C!With
<1>5. id \in C!EnvKeys /\ env \in [C!EnvKeys -> C!Values]
  BY DEF C!EnvKeys, ConfigInv, C!TypeOK
<1>6. /\ env' \in [C!EnvKeys -> C!Values] /\ \A i \in C!Ids : i # id => env'[i] = env[i]
      /\ env'[id] = env[id] \/ (env'[id] = v /\ ok)
  BY <1>1, <1>2, <1>5 DEF C!EnvKeys
<1>7. config_faults' \in Nat /\ (config_faults' = 0 => config_faults = 0 /\ ok) 
      /\ (ok => diskServers' = DOMAIN servers') /\ (~ok => diskServers' = diskServers)
      /\ disk' \in [C!Settings -> C!Values]
  BY <1>2 DEF ConfigInv, C!SaveConfig, C!TypeOK
<1>8. C!TypeOK'
  BY <1>1, <1>2, <1>4, <1>6, <1>7 DEF ConfigInv, C!TypeOK
<1>9. C!RuntimeFollowsConfig'
  BY <1>2 DEF ConfigInv, C!RuntimeFollowsConfig
<1>10. C!RemovalIsConsistent'
  BY <1>4, <1>7 DEF ConfigInv, C!RemovalIsConsistent
<1>11. C!NoOrphanedSecret'
  BY <1>4, <1>6, <1>7 DEF ConfigInv, C!NoOrphanedSecret, C!RemovalIsConsistent, C!PasswordKey
<1>12. SavedAsIs'
  <2> SUFFICES ASSUME config_faults' = 0
               PROVE  /\ diskServers' = DOMAIN servers'
                      /\ \A i \in diskServers' \ {"web"} : env'[i] = servers'[i]
    BY DEF SavedAsIs
  <2>1. ok /\ diskServers' = DOMAIN servers' /\ diskServers = DOMAIN servers
    BY <1>7 DEF ConfigInv, SavedAsIs
  <2>2. \A i \in diskServers \ {"web"} : env[i] = servers[i]
    BY <1>7 DEF ConfigInv, SavedAsIs
  <2>3. ASSUME NEW i \in diskServers', i # id, i # "web" PROVE env'[i] = servers'[i]
    BY <1>4, <1>6, <2>1, <2>2, <2>3 DEF ConfigInv, C!TypeOK
  <2>4. ASSUME id # "web" PROVE env'[id] = servers'[id]
    <3>1. CASE env' = [env EXCEPT ![id] = v]
      BY <1>4, <1>5, <3>1
    <3>2. CASE env' = env /\ u = C!Keep
      <4>1. CASE id \in DOMAIN servers
        BY <1>3, <1>4, <2>1, <2>2, <2>4, <3>2, <4>1
      <4>2. CASE id \notin DOMAIN servers
        <5>1. ~(env[id] > 0) /\ env[id] \in Nat
          BY <2>1, <2>4, <4>2, <1>5, ValuesAreNumbers DEF ConfigInv, C!NoOrphanedSecret,
             C!PasswordKey
        <5> QED
          BY <1>3, <1>4, <3>2, <4>2, <5>1
      <4> QED
        BY <4>1, <4>2
    <3> QED
      BY <1>2, <2>1, <3>1, <3>2
  <2> QED
    BY <2>1, <2>3, <2>4
<1> QED
  BY <1>7, <1>8, <1>9, <1>10, <1>11, <1>12 DEF ConfigInv

(* The removal of a server, undone when the file could not be written.     *)
LEMMA RemoveKeeps ==
  ASSUME ConfigInv, NEW id \in C!Ids, NEW ok \in BOOLEAN, C!CmdServerRemove(id, ok)
  PROVE  ConfigInv'
<1>0. C!Resolved(id, {0}) = 0
  BY Credentials, ValuesAreNumbers DEF ConfigInv
<1>1. /\ id \in DOMAIN servers /\ servers' = IF ok THEN C!Without(servers, id) ELSE servers
      /\ mem' = mem /\ runtime' = runtime /\ reloaded' = reloaded /\ config_wizard' = config_wizard
      /\ webPass' = webPass /\ restartPending' = restartPending
      /\ C!SaveConfig(ok) /\ env' = IF ok THEN [env EXCEPT ![id] = 0] ELSE env
  BY <1>0 DEF C!CmdServerRemove, C!RemovedIfSaved, C!EnvAfterSave, C!WriteEnv, C!PasswordKey, C!Keep
<1>2. /\ DOMAIN servers' = IF ok THEN DOMAIN servers \ {id} ELSE DOMAIN servers
      /\ \A i \in DOMAIN servers' : servers'[i] = servers[i]
  BY <1>1 DEF C!Without
<1>3. env' \in [C!EnvKeys -> C!Values] /\ (\A i \in C!Ids : i # id \/ ~ok => env'[i] = env[i])
        /\ (ok => env'[id] = 0)
  BY <1>1, ValuesAreNumbers DEF ConfigInv, C!TypeOK, C!EnvKeys
<1>4. /\ config_faults' \in Nat /\ (config_faults' = 0 => config_faults = 0 /\ ok) 
      /\ (ok => diskServers' = DOMAIN servers') /\ (~ok => diskServers' = diskServers)
      /\ disk' \in [C!Settings -> C!Values]
  BY <1>1 DEF ConfigInv, C!SaveConfig, C!TypeOK
<1>5. C!TypeOK'
  BY <1>1, <1>2, <1>3, <1>4 DEF ConfigInv, C!TypeOK
<1>6. C!RuntimeFollowsConfig'
  BY <1>1 DEF ConfigInv, C!RuntimeFollowsConfig
<1>7. C!RemovalIsConsistent'
  BY <1>2, <1>4 DEF ConfigInv, C!RemovalIsConsistent
<1>8. C!NoOrphanedSecret'
  BY <1>2, <1>3, <1>4 DEF ConfigInv, C!NoOrphanedSecret, C!RemovalIsConsistent, C!PasswordKey
<1>9. SavedAsIs'
  BY <1>2, <1>3, <1>4 DEF ConfigInv, SavedAsIs, C!TypeOK
<1> QED
  BY <1>4, <1>5, <1>6, <1>7, <1>8, <1>9 DEF ConfigInv

(* Memory is filled from the files: /reload and a restart.                 *)
LEMMA FilesKeep ==
  ASSUME ConfigInv, mem' = disk, runtime' \in [C!Settings -> C!Values], C!RuntimeFollowsConfig',
         UNCHANGED <<disk, diskServers, env>>, DOMAIN servers' = diskServers,
         \A id \in diskServers : servers'[id] \in C!Values, webPass' \in C!Values,
           restartPending' \in BOOLEAN,
         config_wizard' = "closed", config_faults' \in Nat, config_faults' = 0
           => \A id \in diskServers : servers'[id] = env[id]
  PROVE  ConfigInv'
BY DEF ConfigInv, C!TypeOK, C!NoOrphanedSecret, C!RemovalIsConsistent, SavedAsIs, C!PasswordKey

LEMMA ReloadKeeps == ASSUME ConfigInv, NEW ok \in BOOLEAN, C!CmdReload(ok) PROVE ConfigInv'
<1>1. \A id \in diskServers : id \in C!Ids
  BY DEF ConfigInv, C!TypeOK
<1>2. \A id \in diskServers : C!Credential(id, 0) = env[id] /\ env[id] \in C!Values
  BY <1>1, Credentials DEF ConfigInv
<1>3. env["web"] \in C!Values /\ 0 \in C!Values
  BY ValuesAreNumbers DEF ConfigInv, C!TypeOK, C!EnvKeys
<1>4. runtime' \in [C!Settings -> C!Values] /\ C!RuntimeFollowsConfig'
  BY DEF C!CmdReload, C!CopiedByReload, ConfigInv, C!TypeOK, C!RuntimeFollowsConfig, C!Settings
<1>5. config_faults' \in Nat /\ (config_faults' = 0 => ok)
  BY DEF C!CmdReload, ConfigInv
<1>6. /\ DOMAIN servers' = diskServers
      /\ \A id \in diskServers : servers'[id] = IF ok THEN env[id] ELSE 0
  BY <1>2 DEF C!CmdReload
<1>7. webPass' \in C!Values
  BY <1>3 DEF C!CmdReload, C!PasswordKey
<1>8. /\ mem' = disk /\ UNCHANGED <<disk, diskServers, env, restartPending>>
         /\ config_wizard' = "closed"
      /\ restartPending' \in BOOLEAN
  BY DEF C!CmdReload, ConfigInv, C!TypeOK
<1>9. \A id \in diskServers : servers'[id] \in C!Values
  BY <1>2, <1>3, <1>6
<1> QED
  BY <1>4, <1>5, <1>6, <1>7, <1>8, <1>9, FilesKeep

LEMMA RestartKeeps == ASSUME ConfigInv, C!Restart PROVE ConfigInv'
<1>1. \A id \in diskServers : id \in C!Ids
  BY DEF ConfigInv, C!TypeOK
<1>2. \A id \in diskServers : C!Credential(id, 0) = env[id] /\ env[id] \in C!Values
  BY <1>1, Credentials DEF ConfigInv
<1>3. env["web"] \in C!Values
  BY DEF ConfigInv, C!TypeOK, C!EnvKeys
<1>4. runtime' \in [C!Settings -> C!Values] /\ C!RuntimeFollowsConfig'
  BY DEF C!Restart, ConfigInv, C!TypeOK, C!RuntimeFollowsConfig, C!Settings
<1>5. DOMAIN servers' = diskServers /\ \A id \in diskServers : servers'[id] = env[id]
  BY <1>2 DEF C!Restart
<1>6. webPass' \in C!Values
  BY <1>3 DEF C!Restart, C!PasswordKey
<1>7. /\ mem' = disk /\ UNCHANGED <<disk, diskServers, env, config_faults>>
         /\ config_wizard' = "closed"
      /\ restartPending' \in BOOLEAN /\ config_faults' \in Nat
  BY DEF C!Restart, ConfigInv
<1> QED
  BY <1>2, <1>4, <1>5, <1>6, <1>7, FilesKeep

(* The commands about settings.                                            *)
LEMMA SettingsKeep ==
  ASSUME ConfigInv, NEW v \in C!Values, NEW ok \in BOOLEAN,
         \/ \E s \in C!Settings : C!CmdSet(s, v, ok)
         \/ C!CmdSetWebPassword(v, ok) \/ C!CmdFlood(v, ok) \/ C!CmdIgnore(v, ok)
  PROVE  ConfigInv'
<1>0. /\ mem \in [C!Settings -> C!Values] /\ runtime \in [C!Settings -> C!Values]
         /\ env \in [C!EnvKeys -> C!Values]
      /\ webPass \in C!Values /\ restartPending \in BOOLEAN /\ C!RuntimeFollowsConfig
  BY DEF ConfigInv, C!TypeOK
<1>1. ASSUME NEW s \in C!Settings, C!CmdSet(s, v, ok) PROVE ConfigInv'
  <2>1. /\ mem' = [mem EXCEPT ![s] = v] /\ restartPending' = (restartPending \/ s = "web")
           /\ C!SaveConfig(ok)
        /\ UNCHANGED <<servers, webPass, env, config_wizard, reloaded>> /\ s # "ignores"
        /\ runtime' = IF s \in {"scrollback", "dcc"} THEN [k \in DOMAIN runtime \cup {s} |-> IF k = s THEN v ELSE runtime[k]] ELSE runtime
    BY <1>1 DEF C!CmdSet, C!CopiedBySet, C!With
  <2>2. runtime' \in [C!Settings -> C!Values] /\ mem' \in [C!Settings -> C!Values]
          /\ restartPending' \in BOOLEAN
    BY <1>0, <2>1
  <2>3. C!RuntimeFollowsConfig'
    BY <1>0, <2>1 DEF C!RuntimeFollowsConfig, C!Settings
  <2> QED
    BY <1>0, <2>1, <2>2, <2>3, SettingKeeps
<1>2. CASE C!CmdSetWebPassword(v, ok)
  <2>1. /\ webPass' = v /\ restartPending' = TRUE /\ env' = [env EXCEPT !["web"] = v]
           /\ C!SaveConfig(ok)
        /\ UNCHANGED <<mem, servers, runtime, config_wizard, reloaded>>
    BY <1>2 DEF C!CmdSetWebPassword, C!WriteEnv, C!PasswordKey
  <2>2. C!RuntimeFollowsConfig'
    BY <1>0, <2>1 DEF C!RuntimeFollowsConfig
  <2>3. env' \in [C!EnvKeys -> C!Values] /\ \A id \in C!Ids \ {"web"} : env'[id] = env[id]
    BY <1>0, <2>1 DEF C!EnvKeys
  <2> QED
    BY <1>0, <2>1, <2>2, <2>3, SettingKeeps
<1>3. CASE C!CmdFlood(v, ok)
  <2>1. /\ mem' = [mem EXCEPT !["scrollback"] = v] /\ C!SaveConfig(ok)
        /\ UNCHANGED <<servers, webPass, env, restartPending, config_wizard, reloaded>>
        /\ runtime' = [k \in DOMAIN runtime \cup {"scrollback"} |-> IF k = "scrollback" THEN v ELSE runtime[k]]
    BY <1>3 DEF C!CmdFlood, C!With
  <2>2. runtime' \in [C!Settings -> C!Values] /\ mem' \in [C!Settings -> C!Values]
    BY <1>0, <2>1 DEF C!Settings
  <2>3. C!RuntimeFollowsConfig'
    BY <1>0, <2>1 DEF C!RuntimeFollowsConfig, C!Settings
  <2> QED
    BY <1>0, <2>1, <2>2, <2>3, SettingKeeps
<1>4. CASE C!CmdIgnore(v, ok)
  <2>1. /\ mem' = [mem EXCEPT !["ignores"] = v] /\ C!SaveConfig(ok)
        /\ UNCHANGED <<servers, webPass, env, runtime, restartPending, config_wizard, reloaded>>
    BY <1>4 DEF C!CmdIgnore
  <2>2. mem' \in [C!Settings -> C!Values]
    BY <1>0, <2>1
  <2>3. C!RuntimeFollowsConfig'
    BY <1>0, <2>1 DEF C!RuntimeFollowsConfig, C!Settings
  <2> QED
    BY <1>0, <2>1, <2>2, <2>3, SettingKeeps
<1> QED
  BY <1>1, <1>2, <1>3, <1>4

(* The forms, which add a server under a free name or change one.          *)
LEMMA FormsKeep ==
  ASSUME ConfigInv, NEW u \in C!Updates, NEW ok \in BOOLEAN,
         \/ \E id \in ConfigServerIds : C!CmdServerAdd(id, u, ok)
         \/ C!WizardSave(u, ok) \/ \E id \in C!Ids : C!WebSaveServer(id, u, ok)
  PROVE  ConfigInv'
<1>1. config_wizard \in {"closed", "add"} \cup C!Ids /\ ConfigServerIds \subseteq C!Ids
  BY DEF ConfigInv, C!TypeOK, C!Ids
<1>2. ASSUME NEW id \in ConfigServerIds, C!CmdServerAdd(id, u, ok) PROVE ConfigInv'
  BY <1>1, <1>2, ApplyKeeps DEF C!CmdServerAdd
<1>3. CASE C!WizardSave(u, ok)
  <2>1. C!BuiltId \in C!Ids /\ C!ApplyServerConfig(C!BuiltId, u, ok)
          /\ config_wizard' \in {"closed", "add"} \cup C!Ids
    BY <1>1, <1>3 DEF C!WizardSave, C!BuiltId, C!UniqueId, C!Ids, C!NewIds
  <2> QED
    BY <2>1, ApplyKeeps
<1>4. ASSUME NEW id \in C!Ids, C!WebSaveServer(id, u, ok) PROVE ConfigInv'
  BY <1>1, <1>4, ApplyKeeps DEF C!WebSaveServer
<1> QED
  BY <1>2, <1>3, <1>4

LEMMA OthersKeep ==
  ASSUME ConfigInv,
         \/ \E s \in C!Settings, v \in C!Values : C!EditFile(s, v)
         \/ C!RestartWebServer \/ (\E w \in {"add"} \cup C!Ids : C!OpenServerWizard(w)) \/ C!CloseWizard
         \/ UNCHANGED C!configVars
  PROVE  ConfigInv'
<1>1. ASSUME NEW s \in C!Settings, NEW v \in C!Values, C!EditFile(s, v) PROVE ConfigInv'
  BY <1>1 DEF C!EditFile, ConfigInv, C!TypeOK, C!RuntimeFollowsConfig, C!NoOrphanedSecret,
     C!RemovalIsConsistent, SavedAsIs
<1>2. CASE C!RestartWebServer
  <2>1. runtime' \in [C!Settings -> C!Values] /\ C!RuntimeFollowsConfig'
    BY <1>2 DEF C!RestartWebServer, C!With, ConfigInv, C!TypeOK, C!RuntimeFollowsConfig, C!Settings
  <2> QED
    BY <1>2, <2>1 DEF C!RestartWebServer, ConfigInv, C!TypeOK, C!NoOrphanedSecret,
       C!RemovalIsConsistent, SavedAsIs
<1>3. ASSUME NEW w \in {"add"} \cup C!Ids, C!OpenServerWizard(w) PROVE ConfigInv'
  BY <1>3 DEF C!OpenServerWizard, ConfigInv, C!TypeOK, C!RuntimeFollowsConfig, C!NoOrphanedSecret,
     C!RemovalIsConsistent, SavedAsIs
<1>4. CASE C!CloseWizard
  BY <1>4 DEF C!CloseWizard, ConfigInv, C!TypeOK, C!RuntimeFollowsConfig, C!NoOrphanedSecret,
     C!RemovalIsConsistent, SavedAsIs
<1>5. CASE UNCHANGED C!configVars
  BY <1>5 DEF C!configVars, ConfigInv, C!TypeOK, C!RuntimeFollowsConfig, C!NoOrphanedSecret,
     C!RemovalIsConsistent, SavedAsIs
<1> QED
  BY <1>1, <1>2, <1>3, <1>4, <1>5

LEMMA ConfigStep == ASSUME ConfigInv, [C!Next]_(C!configVars) PROVE ConfigInv'
BY SettingsKeep, FormsKeep, OthersKeep, ReloadKeeps, RestartKeeps, RemoveKeeps DEF C!Next

LEMMA ConfigAgrees == ASSUME ConfigInv PROVE C!TypeOK /\ C!RuntimeFollowsConfig
        /\ C!RestartKeepsServers /\ C!NoOrphanedSecret /\ C!RemovalIsConsistent
BY DEF ConfigInv, SavedAsIs, C!RestartKeepsServers, C!PasswordKey

-----------------------------------------------------------------------------
(* The server form (Wizard).                                               *)

(* What a field may hold.                                                  *)
Value(f) == IF W!IsText(f) THEN Seq(FormChars) ELSE IF Form[f].kind = "toggle" THEN {0, 1}
  ELSE 0..(FormOptions - 1)
Forms == [open : {TRUE}, edit : BOOLEAN, page : W!Pages, focus : DOMAIN Form
  \cup {W!Save, W!Cancel}, cursor : Nat,
          values : [DOMAIN Form -> Seq(FormChars) \cup Nat], touched : SUBSET DOMAIN Form,
            error : BOOLEAN]
Typical(w) == w \in Forms /\ \A f \in DOMAIN Form : w.values[f] \in Value(f)
GoodForm(w) == /\ Typical(w)
               /\ FormDrawsFirst => w.focus \in W!FocusRing(w, w.page)
               /\ W!TextFocused(w) => w.cursor <= Len(w.values[w.focus])
(* A field gets another value, a text is edited.                           *)
Chosen(w, x) == [w EXCEPT !.values[w.focus] = x, !.touched = @ \cup {w.focus}]
Edited(w, s, c) == [w EXCEPT !.touched = @ \cup {w.focus}, !.values[w.focus] = s, !.cursor = c]
WizInv ==
  /\ frame \in W!Pages \cup {W!Blank} /\ handed \in [W!Secrets -> W!Updates] /\ complete = TRUE
  /\ typed \subseteq DOMAIN Form /\ keys \in 0..FormMaxKeys
  /\ wizard_wizard = W!Closed
     \/ (GoodForm(wizard_wizard) /\ \A f \in wizard_wizard.touched : W!IsText(f) => f \in typed)

(* The assumption on the constants, one by one.                            *)
LEMMA WizardConstants ==
  /\ Len(Form) \in Nat /\ DOMAIN Form = 1..Len(Form) /\ FormOptions \in Nat /\ FormOptions >= 1
     /\ FormMaxKeys \in Nat
  /\ 1 \in W!Pages /\ " " \in FormChars /\ (CHOOSE c \in FormDigits : TRUE) \in FormChars
  /\ \A f \in DOMAIN Form : /\ Form[f].required => W!IsText(f)
                            /\ Form[f].kind \in {"text", "number", "masked", "toggle", "select"}
  /\ W!Blank \notin W!Pages /\ \A f \in W!Secrets : f \in DOMAIN Form /\ W!IsText(f)
<1> DEFINE Kinds == W!Texts \cup {"toggle", "select"}
           Rows == [kind : Kinds, page : Nat \ {W!Blank}, required : BOOLEAN, locked : BOOLEAN]
<1>1. Form \in Seq(Rows)
  BY FormsAssumption DEF W!WizardAssumption
<1> HIDE DEF Rows
<1>2. Len(Form) \in Nat /\ DOMAIN Form = 1..Len(Form) /\ \A f \in DOMAIN Form : Form[f] \in Rows
  BY <1>1
<1>3. \A f \in DOMAIN Form : Form[f].kind \in Kinds /\ Form[f].page \in Nat \ {W!Blank}
  BY <1>2 DEF Rows
<1>4. /\ 1 \in W!Pages /\ " " \in FormChars /\ FormDigits \subseteq FormChars /\ FormDigits # {}
      /\ \A f \in DOMAIN Form : Form[f].required => W!IsText(f)
  BY FormsAssumption DEF W!WizardAssumption
<1>5. FormOptions \in Nat \ {0} /\ {FormMaxText, FormMaxKeys} \subseteq Nat
  BY FormsAssumption DEF W!WizardAssumption
<1>6. FormMaxKeys \in Nat /\ FormOptions \in Nat /\ FormOptions >= 1
  BY <1>5
<1>7. \A f \in W!Secrets : f \in DOMAIN Form /\ W!IsText(f)
  BY DEF W!Secrets, W!IsText, W!Texts
<1>8. W!Blank \notin W!Pages
  BY <1>3 DEF W!Pages
<1>9. (CHOOSE c \in FormDigits : TRUE) \in FormChars
  BY <1>4
<1> QED
  BY <1>1, <1>2, <1>3, <1>4, <1>6, <1>7, <1>8, <1>9 DEF W!Texts

LEMMA FormNumbers ==
  /\ Len(Form) \in Nat /\ FormOptions \in Nat /\ FormOptions >= 1
     /\ \A x \in DOMAIN Form : x \in Nat /\ x <= Len(Form)
  /\ 0 \in 0..FormMaxKeys /\ \A k \in 0..FormMaxKeys : k < FormMaxKeys => k + 1 \in 0..FormMaxKeys
<1>1. Len(Form) \in Nat /\ DOMAIN Form = 1..Len(Form) /\ FormOptions \in Nat /\ FormOptions >= 1
        /\ FormMaxKeys \in Nat
  BY WizardConstants
<1>2. \A x \in 1..Len(Form) : x \in Nat /\ x <= Len(Form)
  BY <1>1
<1>3. 0 \in 0..FormMaxKeys /\ \A k \in 0..FormMaxKeys : k < FormMaxKeys => k + 1 \in 0..FormMaxKeys
  BY <1>1
<1> QED
  BY <1>1, <1>2, <1>3

(* A remainder.                                                            *)
LEMMA Remainder == ASSUME NEW x \in Int, NEW n \in Nat, n >= 1 PROVE x % n \in Nat /\ x % n <= n - 1
OBVIOUS

(* A set of places has a first and a last.                                 *)
LEMMA FirstAndLast ==
  ASSUME NEW Places \in SUBSET (DOMAIN Form \cup {W!Save, W!Cancel}), Places # {}
  PROVE  W!Min(Places) \in Places /\ W!Max(Places) \in Places
<1> DEFINE n == Len(Form) + 2
           Rest == {n - x : x \in Places}
<1>1. n \in Nat /\ Places \in SUBSET Nat /\ \A x \in Places : x <= n
  <2>1. Len(Form) \in Nat /\ \A x \in DOMAIN Form : x \in Nat /\ x <= Len(Form)
    BY FormNumbers
  <2>2. Len(Form) + 1 \in Nat /\ Len(Form) + 2 \in Nat
    BY <2>1
  <2>3. \A x \in Places : x \in DOMAIN Form \/ x = Len(Form) + 1 \/ x = Len(Form) + 2
    BY DEF W!Save, W!Cancel
  <2>4. \A x \in Places : x \in Nat /\ x <= n
    BY <2>1, <2>2, <2>3
  <2> QED
    BY <2>2, <2>4
<1>2. PICK x \in Places : \A y \in Places : x <= y
  BY <1>1, LeastNumber
<1> HIDE DEF n
<1>3. Rest \in SUBSET Nat /\ Rest # {}
  BY <1>1
<1>4. PICK z \in Rest : \A y \in Rest : z <= y
  BY <1>3, LeastNumber
<1>5. PICK g \in Places : z = n - g
  BY <1>4
<1>6. ASSUME NEW y \in Places PROVE g >= y
  <2>1. n - g <= n - y
    BY <1>4, <1>5
  <2>2. n \in Nat /\ g \in Nat /\ y \in Nat
    BY <1>1
  <2> QED
    BY <2>1, <2>2
<1>7. \A y \in Places : g >= y
  BY <1>6
<1> QED
  BY <1>2, <1>5, <1>7 DEF W!Min, W!Max

(* The ring of a page and the places on either side of one.                *)
LEMMA RingPlaces ==
  ASSUME NEW w
  PROVE  /\ \A p : W!FocusRing(w, p) \in SUBSET (DOMAIN Form \cup {W!Save, W!Cancel})
            /\ W!FirstField(w, p) \in W!FocusRing(w, p)
         /\ W!Cancel \in W!FocusRing(w, w.page)
         /\ W!Behind(w) # {} => W!Min(W!Behind(w)) \in W!FocusRing(w, w.page)
         /\ W!Before(w) # {} => W!Max(W!Before(w)) \in W!FocusRing(w, w.page)
<1>1. \A p : W!FocusRing(w, p) \in SUBSET (DOMAIN Form \cup {W!Save, W!Cancel})
        /\ W!Cancel \in W!FocusRing(w, p)
  BY DEF W!FocusRing, W!PageFields
<1>2. \A p : W!FirstField(w, p) \in W!FocusRing(w, p)
  BY <1>1, FirstAndLast DEF W!FirstField
<1>3. W!Behind(w) \in SUBSET W!FocusRing(w, w.page) /\ W!Before(w) \in SUBSET W!FocusRing(w, w.page)
  BY DEF W!Behind, W!Before
<1>4. W!Behind(w) \in SUBSET (DOMAIN Form \cup {W!Save, W!Cancel})
        /\ W!Before(w) \in SUBSET (DOMAIN Form \cup {W!Save, W!Cancel})
  BY <1>1, <1>3
<1>5. /\ W!Behind(w) # {} => W!Min(W!Behind(w)) \in W!Behind(w)
      /\ W!Before(w) # {} => W!Max(W!Before(w)) \in W!Before(w)
  BY <1>4, FirstAndLast
<1> QED
  BY <1>1, <1>2, <1>3, <1>5

(* Moving the focus.                                                       *)
LEMMA FocusMoves ==
  ASSUME NEW w, Typical(w), NEW p \in W!Pages, NEW f \in DOMAIN Form \cup {W!Save, W!Cancel},
         FormDrawsFirst => f \in W!FocusRing(w, p)
  PROVE  LET v == W!SetFocus([w EXCEPT !.page = p], f) IN
         /\ GoodForm(v) /\ v.touched = w.touched /\ v.page = p /\ v.focus = f /\ v.values = w.values
         /\ v.edit = w.edit
<1> DEFINE u == [w EXCEPT !.page = p]
           x == [u EXCEPT !.focus = f]
           c == IF W!OnKind(x, W!Texts) THEN Len(x.values[x.focus]) ELSE 0
           v == [x EXCEPT !.cursor = c]
<1>1. u \in Forms /\ u.edit = w.edit /\ u.values = w.values /\ u.touched = w.touched /\ u.page = p
  BY DEF Typical, Forms
<1>2. x \in Forms /\ x.edit = w.edit /\ x.values = w.values /\ x.touched = w.touched /\ x.page = p
        /\ x.focus = f
  BY <1>1 DEF Forms
<1>3. W!OnKind(x, W!Texts) => f \in DOMAIN Form /\ x.values[f] \in Seq(FormChars)
  BY <1>2 DEF W!OnKind, W!Focused, Typical, Value, W!IsText
<1>4. c \in Nat
  BY <1>2, <1>3
<1> HIDE DEF c
<1>5. v \in Forms /\ v.edit = w.edit /\ v.values = w.values /\ v.touched = w.touched /\ v.page = p
        /\ v.focus = f /\ v.cursor = c
  BY <1>2, <1>4 DEF Forms
<1> HIDE DEF v
<1>6. W!TextFocused(v) => W!OnKind(x, W!Texts)
  BY <1>2, <1>5 DEF W!TextFocused, W!OnKind, W!Focused
<1>7. W!TextFocused(v) => v.cursor <= Len(v.values[v.focus])
  BY <1>2, <1>3, <1>5, <1>6 DEF c
<1>8. W!FocusRing(v, p) = W!FocusRing(w, p)
  BY <1>5 DEF W!FocusRing, W!PageFields, W!Readonly
<1>10. GoodForm(v)
  BY <1>5, <1>7, <1>8 DEF GoodForm, Typical
<1>9. v = W!SetFocus([w EXCEPT !.page = p], f)
  BY DEF v, W!SetFocus, W!SyncCursor, c
<1> QED
  BY <1>5, <1>9, <1>10

(* ... on the page that is shown.                                          *)
LEMMA FocusStays ==
  ASSUME NEW w, Typical(w), NEW f \in DOMAIN Form \cup {W!Save, W!Cancel},
         FormDrawsFirst => f \in W!FocusRing(w, w.page)
  PROVE  GoodForm(W!SetFocus(w, f)) /\ W!SetFocus(w, f).touched = w.touched
    /\ W!SetFocus(w, f).page = w.page
         /\ W!SetFocus(w, f).focus = f /\ W!SetFocus(w, f).values = w.values
         /\ W!SetFocus(w, f).edit = w.edit
<1>1. w.page \in W!Pages /\ [w EXCEPT !.page = w.page] = w
  BY DEF Typical, Forms
<1> QED
  BY <1>1, FocusMoves

LEMMA PageMoves ==
  ASSUME NEW w, GoodForm(w), NEW p
  PROVE  GoodForm(W!SetPage(w, p)) /\ W!SetPage(w, p).touched = w.touched
BY FocusMoves, RingPlaces DEF W!SetPage, GoodForm

LEMMA FocusRounds ==
  ASSUME NEW w, GoodForm(w)
  PROVE  /\ GoodForm(W!FocusNext(w)) /\ W!FocusNext(w).touched = w.touched
         /\ GoodForm(W!FocusPrev(w)) /\ W!FocusPrev(w).touched = w.touched
BY FocusStays, RingPlaces DEF W!FocusNext, W!FocusPrev, GoodForm

(* A field that is not a text gets another value.                          *)
LEMMA ChoiceKeeps ==
  ASSUME NEW w, GoodForm(w), NEW f \in DOMAIN Form, w.focus = f, ~W!IsText(f), NEW x \in Value(f)
  PROVE  GoodForm(Chosen(w, x)) /\ Chosen(w, x).touched = w.touched \cup {f}
<1> DEFINE v == Chosen(w, x)
<1>0. x \in Nat
  <2>1. x \in {0, 1} \/ x \in 0..(FormOptions - 1)
    BY DEF Value
  <2> QED
    BY <2>1, FormNumbers
<1>1. w \in Forms /\ w.values \in [DOMAIN Form -> Seq(FormChars) \cup Nat]
  BY DEF GoodForm, Typical, Forms
<1>2. /\ v \in Forms /\ v.edit = w.edit /\ v.values = [w.values EXCEPT ![f] = x]
         /\ v.touched = w.touched \cup {f}
      /\ v.page = w.page /\ v.focus = w.focus /\ v.cursor = w.cursor
  BY <1>0, <1>1 DEF Forms, Chosen
<1> HIDE DEF v
<1>3. \A g \in DOMAIN Form : v.values[g] \in Value(g)
  BY <1>1, <1>2 DEF GoodForm, Typical
<1>4. ~W!TextFocused(v)
  BY <1>2 DEF W!TextFocused, W!OnKind, W!IsText
<1>5. W!FocusRing(v, v.page) = W!FocusRing(w, w.page)
  BY <1>2 DEF W!FocusRing, W!PageFields, W!Readonly
<1>6. GoodForm(v)
  BY <1>2, <1>3, <1>4, <1>5 DEF GoodForm, Typical
<1> QED
  BY <1>2, <1>6 DEF v

LEMMA ToggleKeeps ==
  ASSUME NEW w, GoodForm(w), W!OnKind(w, {"toggle"})
  PROVE  GoodForm(W!ToggleFocused(w)) /\ W!ToggleFocused(w).touched = w.touched \cup {w.focus}
<1>1. w.focus \in DOMAIN Form /\ ~W!IsText(w.focus) /\ Value(w.focus) = {0, 1}
        /\ w.values[w.focus] \in Value(w.focus)
  BY DEF W!OnKind, W!Focused, W!IsText, W!Texts, Value, GoodForm, Typical
<1>2. 1 - w.values[w.focus] \in Value(w.focus)
  BY <1>1
<1>3. W!ToggleFocused(w) = Chosen(w, 1 - w.values[w.focus])
  BY DEF W!ToggleFocused, Chosen
<1> QED
  BY <1>1, <1>2, <1>3, ChoiceKeeps

LEMMA CycleKeeps ==
  ASSUME NEW w, GoodForm(w), W!OnKind(w, {"select"}), NEW by \in {1, -1}
  PROVE  GoodForm(W!CycleFocused(w, by)) /\ W!CycleFocused(w, by).touched = w.touched \cup {w.focus}
<1>1. w.focus \in DOMAIN Form /\ ~W!IsText(w.focus) /\ Value(w.focus) = 0..(FormOptions - 1)
        /\ w.values[w.focus] \in Value(w.focus)
  BY DEF W!OnKind, W!Focused, W!IsText, W!Texts, Value, GoodForm, Typical
<1>2. (w.values[w.focus] + by + FormOptions) % FormOptions \in Value(w.focus)
  <2>1. w.values[w.focus] \in Nat /\ FormOptions \in Nat /\ FormOptions >= 1
    BY <1>1, FormNumbers
  <2>2. w.values[w.focus] + by + FormOptions \in Int
    BY <2>1
  <2>3. LET r == (w.values[w.focus] + by + FormOptions) % FormOptions IN r \in Nat
          /\ r <= FormOptions - 1
    BY <2>1, <2>2, Remainder
  <2> QED
    BY <1>1, <2>1, <2>3
<1>3. W!CycleFocused(w, by) = Chosen(w, (w.values[w.focus] + by + FormOptions) % FormOptions)
  BY DEF W!CycleFocused, Chosen
<1> QED
  <2> DEFINE x == (w.values[w.focus] + by + FormOptions) % FormOptions
  <2>1. x \in Value(w.focus)
    BY <1>2
  <2> HIDE DEF x
  <2>2. GoodForm(Chosen(w, x)) /\ Chosen(w, x).touched = w.touched \cup {w.focus}
    BY <1>1, <2>1, ChoiceKeeps
  <2> QED
    BY <1>3, <2>2 DEF x

(* A text is edited at its cursor.                                         *)
LEMMA EditKeeps ==
  ASSUME NEW w, GoodForm(w), W!TextFocused(w), NEW s \in Seq(FormChars), NEW c \in Nat, c <= Len(s)
  PROVE  GoodForm(Edited(w, s, c)) /\ Edited(w, s, c).touched = w.touched \cup {w.focus}
<1> DEFINE v == Edited(w, s, c)
           f == w.focus
<1>0. f \in DOMAIN Form /\ W!IsText(f)
  BY DEF W!TextFocused, W!OnKind, W!Focused, W!IsText
<1>1. w \in Forms /\ w.values \in [DOMAIN Form -> Seq(FormChars) \cup Nat]
  BY DEF GoodForm, Typical, Forms
<1>2. /\ v \in Forms /\ v.edit = w.edit /\ v.values = [w.values EXCEPT ![f] = s]
         /\ v.touched = w.touched \cup {f}
      /\ v.page = w.page /\ v.focus = w.focus /\ v.cursor = c
  BY <1>0, <1>1 DEF Forms, Edited
<1> HIDE DEF v
<1>3. \A g \in DOMAIN Form : v.values[g] \in Value(g)
  BY <1>0, <1>1, <1>2 DEF GoodForm, Typical, Value
<1>4. v.values[f] = s
  BY <1>0, <1>1, <1>2
<1>5. W!FocusRing(v, v.page) = W!FocusRing(w, w.page)
  BY <1>2 DEF W!FocusRing, W!PageFields, W!Readonly
<1>6. GoodForm(v)
  BY <1>2, <1>3, <1>4, <1>5 DEF GoodForm, Typical
<1> QED
  BY <1>2, <1>6 DEF v

LEMMA InsertKeeps ==
  ASSUME NEW w, GoodForm(w), NEW e \in Seq(FormChars)
  PROVE  /\ GoodForm(W!Insert(w, e))
         /\ W!Insert(w, e).touched = IF W!TextFocused(w) THEN w.touched \cup {w.focus}
            ELSE w.touched
<1>1. CASE W!TextFocused(w)
  <2> DEFINE t == w.values[w.focus]
             a == SubSeq(t, 1, w.cursor)
             b == SubSeq(t, w.cursor + 1, Len(t))
             s == a \o e \o b
  <2>1. t \in Seq(FormChars) /\ w.cursor \in Nat /\ w.cursor <= Len(t) /\ Len(t) \in Nat
          /\ Len(e) \in Nat
    BY <1>1 DEF W!TextFocused, W!OnKind, W!Focused, W!IsText, GoodForm, Typical, Value, Forms
  <2> HIDE DEF t
  <2>2. a \in Seq(FormChars) /\ Len(a) = w.cursor /\ b \in Seq(FormChars)
          /\ Len(b) = Len(t) - w.cursor
    BY <2>1
  <2> HIDE DEF a, b
  <2>3. a \o e \in Seq(FormChars) /\ Len(a \o e) = w.cursor + Len(e)
    <3>1. a \o e \in Seq(FormChars) /\ Len(a \o e) = Len(a) + Len(e)
      BY <2>2, ConcatProperties
    <3> QED
      BY <2>2, <3>1
  <2>4. s \in Seq(FormChars) /\ Len(s) = Len(t) + Len(e)
    <3>1. s \in Seq(FormChars) /\ Len(s) = Len(a \o e) + Len(b)
      BY <2>2, <2>3, ConcatProperties
    <3> QED
      BY <2>1, <2>2, <2>3, <3>1
  <2>5. s = SubSeq(w.values[w.focus], 1, w.cursor) \o e
              \o SubSeq(w.values[w.focus], w.cursor + 1, Len(w.values[w.focus]))
    BY DEF a, b, t
  <2> HIDE DEF s
  <2> DEFINE c == w.cursor + Len(e)
  <2>6. c \in Nat /\ c <= Len(s)
    BY <2>1, <2>4
  <2>7. W!Insert(w, e) = Edited(w, s, c)
    BY <1>1, <2>5 DEF W!Insert, Edited
  <2> HIDE DEF c
  <2>8. GoodForm(Edited(w, s, c)) /\ Edited(w, s, c).touched = w.touched \cup {w.focus}
    BY <1>1, <2>4, <2>6, EditKeeps
  <2> QED
    BY <1>1, <2>7, <2>8
<1>2. CASE ~W!TextFocused(w)
  BY <1>2 DEF W!Insert
<1> QED
  BY <1>1, <1>2

LEMMA BackspaceKeeps ==
  ASSUME NEW w, GoodForm(w)
  PROVE  /\ GoodForm(W!Backspace(w))
         /\ W!Backspace(w).touched = IF W!TextFocused(w) /\ w.cursor > 0
            THEN w.touched \cup {w.focus} ELSE w.touched
<1>0. w.cursor \in Nat
  BY DEF GoodForm, Typical, Forms
<1>1. CASE W!TextFocused(w) /\ w.cursor # 0
  <2> DEFINE t == w.values[w.focus]
             s == W!RemoveAt(t, w.cursor)
  <2>1. t \in Seq(FormChars) /\ w.cursor <= Len(t) /\ Len(t) \in Nat
    BY <1>1 DEF W!TextFocused, W!OnKind, W!Focused, W!IsText, GoodForm, Typical, Value, Forms
  <2> HIDE DEF t
  <2>2. /\ SubSeq(t, 1, w.cursor - 1) \in Seq(FormChars)
           /\ Len(SubSeq(t, 1, w.cursor - 1)) = w.cursor - 1
        /\ SubSeq(t, w.cursor + 1, Len(t)) \in Seq(FormChars)
           /\ Len(SubSeq(t, w.cursor + 1, Len(t))) = Len(t) - w.cursor
    BY <1>0, <1>1, <2>1
  <2>3. s \in Seq(FormChars) /\ Len(s) = Len(t) - 1
    BY <1>0, <1>1, <2>1, <2>2 DEF W!RemoveAt
  <2> HIDE DEF s
  <2>4. w.cursor - 1 \in Nat /\ w.cursor - 1 <= Len(s)
    BY <1>0, <1>1, <2>1, <2>3
  <2>5. W!Backspace(w) = Edited(w, s, w.cursor - 1)
    BY <1>1 DEF W!Backspace, Edited, s, t
  <2>6. w.cursor > 0
    BY <1>0, <1>1
  <2> DEFINE c == w.cursor - 1
  <2>7. c \in Nat /\ c <= Len(s)
    BY <2>4
  <2> HIDE DEF c
  <2>8. GoodForm(Edited(w, s, c)) /\ Edited(w, s, c).touched = w.touched \cup {w.focus}
    BY <1>1, <2>3, <2>7, EditKeeps
  <2>9. W!Backspace(w) = Edited(w, s, c)
    BY <2>5 DEF c
  <2> QED
    BY <1>1, <2>6, <2>8, <2>9
<1>2. CASE ~W!TextFocused(w) \/ w.cursor = 0
  BY <1>2 DEF W!Backspace
<1> QED
  BY <1>0, <1>1, <1>2

(* The form that opens.                                                    *)
LEMMA OpenedIsGood == ASSUME NEW edit \in BOOLEAN
                      PROVE GoodForm(W!Opened(edit)) /\ W!Opened(edit).touched = {}
<1> DEFINE d == CHOOSE c \in FormDigits : TRUE
           w == [open |-> TRUE, edit |-> edit, page |-> 1, focus |-> W!Save, cursor |-> 0,
                 values |-> [f \in DOMAIN Form |-> W!Stored(f, edit)], touched |-> {},
                   error |-> FALSE]
<1>1. d \in FormChars
  BY WizardConstants
<1>2. \A f \in DOMAIN Form : W!Stored(f, edit) \in Value(f)
  <2> TAKE f \in DOMAIN Form
  <2>1. CASE W!IsText(f)
    <3>1. W!Stored(f, edit) = <<d>> \/ W!Stored(f, edit) = <<>>
      BY <2>1 DEF W!Stored
    <3> HIDE DEF d
    <3>2. <<d>> \in Seq(FormChars) /\ <<>> \in Seq(FormChars)
      BY <1>1
    <3> QED
      BY <2>1, <3>1, <3>2 DEF Value
  <2>2. CASE ~W!IsText(f)
    <3>1. W!Stored(f, edit) = 0
      BY <2>2 DEF W!Stored
    <3>2. 0 \in 0..(FormOptions - 1) /\ 0 \in {0, 1}
      BY FormNumbers
    <3> QED
      BY <2>2, <3>1, <3>2 DEF Value
  <2> QED
    BY <2>1, <2>2
<1>3. \A f \in DOMAIN Form : Value(f) \subseteq Seq(FormChars) \cup Nat
  BY FormNumbers DEF Value
<1>4. w.values \in [DOMAIN Form -> Seq(FormChars) \cup Nat]
        /\ \A f \in DOMAIN Form : w.values[f] \in Value(f)
  BY <1>2, <1>3
<1>5. w \in Forms
  BY <1>4, WizardConstants DEF Forms
<1>6. Typical(w) /\ w.touched = {}
  BY <1>4, <1>5 DEF Typical
<1> HIDE DEF w
<1>7. GoodForm(W!SetPage(w, 1)) /\ W!SetPage(w, 1).touched = w.touched
  <2>1. 1 \in W!Pages /\ W!FirstField(w, 1) \in W!FocusRing(w, 1)
          /\ W!FirstField(w, 1) \in DOMAIN Form \cup {W!Save, W!Cancel}
    BY WizardConstants, RingPlaces
  <2>2. W!SetPage(w, 1) = W!SetFocus([w EXCEPT !.page = 1], W!FirstField(w, 1))
    <3>1. W!FirstField([w EXCEPT !.page = 1], 1) = W!FirstField(w, 1)
      BY <1>5 DEF W!FirstField, W!FocusRing, W!PageFields, W!Readonly, Forms
    <3> QED
      BY <2>1, <3>1 DEF W!SetPage
  <2> QED
    BY <1>6, <2>1, <2>2, FocusMoves
<1> QED
  BY <1>6, <1>7 DEF W!Opened, w

LEMMA WizInit == ASSUME W!Init PROVE WizInv
<1>1. 0 \in 0..FormMaxKeys
  BY FormNumbers
<1>2. W!Kept \in [W!Secrets -> W!Updates]
  BY DEF W!Kept, W!Updates
<1> QED
  BY <1>1, <1>2 DEF W!Init, WizInv

(* What is known of an open form when an event comes.                      *)
LEMMA Meets ==
  ASSUME WizInv, W!Event
  PROVE  /\ GoodForm(wizard_wizard) /\ (FormDrawsFirst => frame = wizard_wizard.page)
            /\ keys' \in 0..FormMaxKeys
         /\ \A f \in wizard_wizard.touched : W!IsText(f) => f \in typed
         /\ wizard_wizard.touched \subseteq DOMAIN Form /\ typed \subseteq DOMAIN Form
<1>1. wizard_wizard.open /\ keys < FormMaxKeys /\ keys' = keys + 1
        /\ (FormDrawsFirst => frame = wizard_wizard.page)
  BY DEF W!Event
<1>2. wizard_wizard # W!Closed
  BY <1>1 DEF W!Closed
<1>3. GoodForm(wizard_wizard) /\ (\A f \in wizard_wizard.touched : W!IsText(f) => f \in typed)
        /\ keys \in 0..FormMaxKeys
      /\ typed \subseteq DOMAIN Form
  BY <1>2 DEF WizInv
<1>4. keys' \in 0..FormMaxKeys
  BY <1>1, <1>3, FormNumbers
<1>5. wizard_wizard.touched \subseteq DOMAIN Form
  BY <1>3 DEF GoodForm, Typical, Forms
<1> QED
  BY <1>1, <1>3, <1>4, <1>5

(* A key that leaves a good form, and names in `typed' the texts it has    *)
(* touched.                                                                *)
LEMMA KeyKeeps ==
  ASSUME WizInv, W!Event, NEW w, GoodForm(w), W!HandleKey(w), typed \subseteq typed',
    typed' \subseteq DOMAIN Form,
         \A f \in w.touched : W!IsText(f) => f \in wizard_wizard.touched \/ f \in typed'
  PROVE  WizInv'
<1>1. wizard_wizard' = w /\ frame' = frame /\ handed' = handed /\ complete' = complete
  BY DEF W!HandleKey
<1>2. keys' \in 0..FormMaxKeys /\ \A f \in wizard_wizard.touched : W!IsText(f) => f \in typed
  BY Meets
<1>3. \A f \in w.touched : W!IsText(f) => f \in typed'
  BY <1>2
<1>4. GoodForm(wizard_wizard)'
  BY <1>1 DEF GoodForm, Typical, W!TextFocused, W!OnKind, W!Focused, W!Readonly, W!FocusRing,
     W!PageFields
<1> QED
  BY <1>1, <1>2, <1>3, <1>4 DEF WizInv

LEMMA MovesKeep == ASSUME WizInv, W!Moves PROVE WizInv'
<1>1. W!Event /\ typed' = typed
  BY DEF W!Moves
<1>2. GoodForm(wizard_wizard) /\ typed \subseteq DOMAIN Form
  BY <1>1, Meets
<1>3. ASSUME NEW by \in {1, -1}, W!OnKind(wizard_wizard, {"select"}),
        W!HandleKey(W!CycleFocused(wizard_wizard, by)) PROVE WizInv'
  <2>1. /\ GoodForm(W!CycleFocused(wizard_wizard, by))
        /\ W!CycleFocused(wizard_wizard, by).touched = wizard_wizard.touched
           \cup {wizard_wizard.focus}
    BY <1>2, <1>3, CycleKeeps
  <2>2. ~W!IsText(wizard_wizard.focus)
    BY <1>3 DEF W!OnKind, W!IsText, W!Texts
  <2> QED
    BY <1>1, <1>2, <1>3, <2>1, <2>2, KeyKeeps
<1>4. ASSUME NEW p, W!HandleKey(W!SetPage(wizard_wizard, p)) PROVE WizInv'
  BY <1>1, <1>2, <1>4, PageMoves, KeyKeeps
<1>5. ASSUME NEW by \in {1, -1}, W!HandleKey(W!Sideways(wizard_wizard, by)) PROVE WizInv'
  BY <1>3, <1>4, <1>5 DEF W!Sideways, W!NextPage, W!PrevPage
<1>6. CASE W!HandleKey(W!FocusNext(wizard_wizard)) \/ W!HandleKey(W!FocusPrev(wizard_wizard))
  BY <1>1, <1>2, <1>6, FocusRounds, KeyKeeps
<1> QED
  BY <1>5, <1>6 DEF W!Moves

LEMMA EnterKeeps == ASSUME WizInv, W!EnterInField PROVE WizInv'
<1>1. W!Event /\ typed' = typed /\ W!HandleKey(W!FocusNext(wizard_wizard))
  BY DEF W!EnterInField
<1>2. GoodForm(wizard_wizard) /\ typed \subseteq DOMAIN Form
  BY <1>1, Meets
<1> QED
  BY <1>1, <1>2, FocusRounds, KeyKeeps

(* A key or a paste that edits the text, or changes another field.         *)
LEMMA EditsKeep ==
  ASSUME WizInv, NEW w, NEW n, W!Edits(w, n), GoodForm(wizard_wizard) => GoodForm(w),
         GoodForm(wizard_wizard) => \A f \in w.touched :
           W!IsText(f)
             => f \in wizard_wizard.touched
               \/ (W!TextFocused(wizard_wizard) /\ f = wizard_wizard.focus)
  PROVE  WizInv'
<1>1. W!Event /\ W!HandleKey(w) /\ typed' = IF W!TextFocused(wizard_wizard)
        THEN typed \cup {wizard_wizard.focus} ELSE typed
  BY DEF W!Edits
<1>2. GoodForm(wizard_wizard) /\ typed \subseteq DOMAIN Form
  BY <1>1, Meets
<1>3. typed \subseteq typed' /\ typed' \subseteq DOMAIN Form
  BY <1>1, <1>2 DEF W!TextFocused, W!OnKind, W!Focused
<1>4. \A f \in w.touched : W!IsText(f) => f \in wizard_wizard.touched \/ f \in typed'
  BY <1>1, <1>2
<1> QED
  BY <1>1, <1>2, <1>3, <1>4, KeyKeeps

LEMMA TypeKeeps == ASSUME WizInv, NEW c \in FormChars, W!TypeChar(c) PROVE WizInv'
<1>1. CASE c = " " /\ W!OnKind(wizard_wizard, {"toggle"})
  <2>1. ~W!IsText(wizard_wizard.focus)
    BY <1>1 DEF W!OnKind, W!IsText, W!Texts
  <2>2. W!Edits(W!ToggleFocused(wizard_wizard), 1)
    BY <1>1 DEF W!TypeChar, W!Types
  <2> QED
    BY <1>1, <2>1, <2>2, ToggleKeeps, EditsKeep
<1>2. CASE ~(c = " " /\ W!OnKind(wizard_wizard, {"toggle"}))
  <2>1. W!Edits(W!Insert(wizard_wizard, <<c>>), 1)
    BY <1>2 DEF W!TypeChar, W!Types
  <2>2. <<c>> \in Seq(FormChars)
    OBVIOUS
  <2> QED
    BY <2>1, <2>2, InsertKeeps, EditsKeep
<1> QED
  BY <1>1, <1>2

LEMMA PasteKeeps == ASSUME WizInv, NEW c \in FormChars, NEW d \in FormChars, W!HandlePaste(c, d)
                    PROVE WizInv'
<1>1. <<c, d>> \in Seq(FormChars)
  OBVIOUS
<1> QED
  BY <1>1, InsertKeeps, EditsKeep DEF W!HandlePaste

LEMMA PressKeeps == ASSUME WizInv, W!PressBackspace PROVE WizInv'
<1>1. /\ W!Event /\ W!HandleKey(W!Backspace(wizard_wizard))
      /\ typed' = IF W!TextFocused(wizard_wizard) /\ wizard_wizard.cursor > 0
         THEN typed \cup {wizard_wizard.focus} ELSE typed
  BY DEF W!PressBackspace
<1>2. GoodForm(wizard_wizard) /\ typed \subseteq DOMAIN Form
  BY <1>1, Meets
<1>3. typed \subseteq typed' /\ typed' \subseteq DOMAIN Form
  BY <1>1, <1>2 DEF W!TextFocused, W!OnKind, W!Focused
<1> QED
  BY <1>1, <1>2, <1>3, BackspaceKeeps, KeyKeeps

(* Saving, from the keyboard or the mouse.                                 *)
LEMMA FailsKeeps ==
  ASSUME NEW w, GoodForm(w)
  PROVE  GoodForm([w EXCEPT !.error = TRUE]) /\ [w EXCEPT !.error = TRUE].touched = w.touched
<1> DEFINE v == [w EXCEPT !.error = TRUE]
<1>1. /\ v \in Forms /\ v.values = w.values /\ v.touched = w.touched /\ v.page = w.page
      /\ v.focus = w.focus /\ v.cursor = w.cursor /\ v.edit = w.edit
  BY DEF GoodForm, Typical, Forms
<1> HIDE DEF v
<1>2. GoodForm(v)
  BY <1>1 DEF GoodForm, Typical, W!TextFocused, W!OnKind, W!Focused, W!Readonly, W!FocusRing,
     W!PageFields
<1> QED
  BY <1>1, <1>2 DEF v

LEMMA SaveKeeps == ASSUME WizInv, W!Event, W!WizardSave PROVE WizInv' /\ W!SecretsAreKeptStep
<1>1. /\ GoodForm(wizard_wizard) /\ keys' \in 0..FormMaxKeys
         /\ (\A f \in wizard_wizard.touched : W!IsText(f) => f \in typed)
      /\ typed \subseteq DOMAIN Form /\ typed' = typed
  BY Meets DEF W!WizardSave
<1>2. ASSUME W!Fails
      PROVE  frame' = frame /\ GoodForm(wizard_wizard)'
        /\ \A f \in wizard_wizard'.touched : W!IsText(f) => f \in typed'
  <2> DEFINE w == [wizard_wizard EXCEPT !.error = TRUE]
  <2>1. GoodForm(w) /\ w.touched = wizard_wizard.touched
    BY <1>1, FailsKeeps
  <2>2. wizard_wizard' = w /\ frame' = frame
    BY <1>2 DEF W!Fails
  <2> HIDE DEF w
  <2>3. GoodForm(wizard_wizard)'
    BY <2>1, <2>2
       DEF GoodForm, Typical, W!TextFocused, W!OnKind, W!Focused, W!Readonly, W!FocusRing,
         W!PageFields
  <2> QED
    BY <1>1, <2>1, <2>2, <2>3
<1>3. CASE W!Missing(wizard_wizard) # {} \/ W!Malformed(wizard_wizard) # {}
  <2>1. W!Fails /\ UNCHANGED <<handed, complete>>
    BY <1>3 DEF W!WizardSave
  <2> QED
    BY <1>1, <1>2, <2>1 DEF WizInv, W!SecretsAreKeptStep
<1>4. CASE W!Missing(wizard_wizard) = {} /\ W!Malformed(wizard_wizard) = {}
  <2>1. /\ W!Closes \/ W!Fails
        /\ handed' = [f \in W!Secrets |-> W!ResolveCred(wizard_wizard, f)]
        /\ complete' = (complete /\ \A f \in DOMAIN Form :
                           /\ Form[f].required => ~W!IsBlank(wizard_wizard.values[f])
                           /\ Form[f].kind = "number" => W!IsNumber(wizard_wizard.values[f]))
    BY <1>4 DEF W!WizardSave
  <2>2. \A f \in DOMAIN Form : Form[f].required => W!IsText(f)
    BY WizardConstants
  <2>3. \A f \in DOMAIN Form : /\ Form[f].required => ~W!IsBlank(wizard_wizard.values[f])
                               /\ Form[f].kind = "number" => W!IsNumber(wizard_wizard.values[f])
    BY <1>4, <2>2 DEF W!Missing, W!Malformed
  <2>4. complete' = TRUE
    BY <2>1, <2>3 DEF WizInv
  <2>5. handed' \in [W!Secrets -> W!Updates]
    BY <2>1 DEF W!ResolveCred, W!Updates
  <2>6. \A f \in W!Secrets : handed'[f] # "keep" => f \in wizard_wizard.touched
    BY <2>1 DEF W!ResolveCred
  <2>7. W!SecretsAreKeptStep
    BY <1>1, <2>6, WizardConstants DEF W!SecretsAreKeptStep
  <2>8. CASE W!Closes
    BY <1>1, <2>4, <2>5, <2>7, <2>8 DEF WizInv, W!Closes
  <2>9. CASE W!Fails
    BY <1>1, <1>2, <2>4, <2>5, <2>7, <2>9 DEF WizInv
  <2> QED
    BY <2>1, <2>8, <2>9
<1> QED
  BY <1>3, <1>4

LEMMA CancelKeeps == ASSUME WizInv, W!Cancels, keys' \in 0..FormMaxKeys
                     PROVE WizInv' /\ W!SecretsAreKeptStep
BY DEF W!Cancels, W!Closes, WizInv, W!SecretsAreKeptStep

(* A click on a field of the page that is shown.                           *)
LEMMA HitKeeps ==
  ASSUME WizInv, W!Event, NEW f \in W!PageFields(wizard_wizard, frame),
    wizard_wizard' = W!HitField(wizard_wizard, f),
         UNCHANGED <<frame, handed, complete, typed>>
  PROVE  WizInv'
<1>1. GoodForm(wizard_wizard) /\ (FormDrawsFirst => frame = wizard_wizard.page)
        /\ typed \subseteq DOMAIN Form
  BY Meets
<1> DEFINE at == W!SetFocus(wizard_wizard, f)
<1>2. f \in DOMAIN Form /\ (FormDrawsFirst => f \in W!FocusRing(wizard_wizard, wizard_wizard.page))
  BY <1>1 DEF W!PageFields, W!FocusRing
<1>3. GoodForm(at) /\ at.touched = wizard_wizard.touched /\ at.focus = f
  BY <1>1, <1>2, FocusStays DEF GoodForm
<1> HIDE DEF at
<1>4. W!HitField(wizard_wizard, f) = IF Form[f].kind = "toggle" THEN W!ToggleFocused(at)
                                     ELSE IF Form[f].kind = "select" THEN W!CycleFocused(at, 1)
                                       ELSE at
  BY DEF W!HitField, at
<1>5. CASE Form[f].kind = "toggle"
  <2>1. W!OnKind(at, {"toggle"}) /\ ~W!IsText(f)
    BY <1>2, <1>3, <1>5 DEF W!OnKind, W!Focused, W!IsText, W!Texts
  <2>2. GoodForm(W!ToggleFocused(at))
          /\ W!ToggleFocused(at).touched = wizard_wizard.touched \cup {f}
    BY <1>3, <2>1, ToggleKeeps
  <2> QED
    BY <1>1, <1>4, <1>5, <2>1, <2>2, KeyKeeps DEF W!HandleKey
<1>6. CASE Form[f].kind = "select"
  <2>1. W!OnKind(at, {"select"}) /\ ~W!IsText(f)
    BY <1>2, <1>3, <1>6 DEF W!OnKind, W!Focused, W!IsText, W!Texts
  <2>2. GoodForm(W!CycleFocused(at, 1))
          /\ W!CycleFocused(at, 1).touched = wizard_wizard.touched \cup {f}
    BY <1>3, <2>1, CycleKeeps
  <2>3. W!HitField(wizard_wizard, f) = W!CycleFocused(at, 1)
    BY <1>4, <1>6
  <2> QED
    BY <1>1, <2>1, <2>2, <2>3, KeyKeeps DEF W!HandleKey
<1>7. CASE Form[f].kind # "toggle" /\ Form[f].kind # "select"
  BY <1>1, <1>3, <1>4, <1>7, KeyKeeps DEF W!HandleKey
<1> QED
  BY <1>5, <1>6, <1>7

LEMMA ClickKeeps == ASSUME WizInv, W!Click PROVE WizInv' /\ W!SecretsAreKeptStep
<1>1. W!Event
  BY DEF W!Click
<1>2. CASE W!WizardSave
  BY <1>1, <1>2, SaveKeeps
<1>3. CASE W!Cancels
  BY <1>1, <1>3, Meets, CancelKeeps
<1>4. ASSUME NEW p \in W!Pages, wizard_wizard' = W!SetPage(wizard_wizard, p),
             UNCHANGED <<frame, handed, complete, typed>>
      PROVE  WizInv'
  <2>1. GoodForm(wizard_wizard) /\ typed \subseteq DOMAIN Form
    BY <1>1, Meets
  <2> QED
    BY <1>1, <1>4, <2>1, PageMoves, KeyKeeps DEF W!HandleKey
<1>5. CASE UNCHANGED <<frame, handed, complete,
                       typed>> /\ ((\E p \in W!Pages : wizard_wizard' = W!SetPage(wizard_wizard, p))
            \/ (\E f \in W!PageFields(wizard_wizard, frame) :
                  wizard_wizard' = W!HitField(wizard_wizard, f)))
  BY <1>1, <1>4, <1>5, HitKeeps DEF W!SecretsAreKeptStep
<1> QED
  BY <1>2, <1>3, <1>5 DEF W!Click

LEMMA OpenKeeps == ASSUME WizInv, NEW edit \in BOOLEAN, W!OpenServerWizard(edit)
                   PROVE WizInv' /\ W!SecretsAreKeptStep
<1>1. keys' \in 0..FormMaxKeys
  BY FormNumbers DEF W!OpenServerWizard, WizInv
<1>2. wizard_wizard' = W!Opened(edit) /\ frame' = W!Blank /\ typed' = {} /\ handed' = W!Kept
        /\ complete' = complete
  BY DEF W!OpenServerWizard
<1> DEFINE w == W!Opened(edit)
<1>3. GoodForm(w) /\ w.touched = {}
  BY OpenedIsGood
<1> HIDE DEF w
<1>4. GoodForm(wizard_wizard)' /\ wizard_wizard'.touched = {}
  BY <1>2, <1>3
     DEF GoodForm, Typical, W!TextFocused, W!OnKind, W!Focused, W!Readonly, W!FocusRing,
       W!PageFields, w
<1>5. W!Kept \in [W!Secrets -> W!Updates] /\ \A f \in W!Secrets : W!Kept[f] = "keep"
  BY DEF W!Kept, W!Updates
<1> QED
  BY <1>1, <1>2, <1>4, <1>5 DEF WizInv, W!SecretsAreKeptStep

LEMMA RenderKeeps == ASSUME WizInv, W!Render PROVE WizInv'
<1>1. UNCHANGED <<wizard_wizard, handed, complete, typed,
                  keys>> /\ wizard_wizard.open /\ frame' = wizard_wizard.page
  BY DEF W!Render
<1>2. wizard_wizard.page \in W!Pages
  <2>1. wizard_wizard \in Forms
    BY <1>1 DEF WizInv, GoodForm, Typical, W!Closed
  <2> QED
    BY <2>1 DEF Forms
<1>3. GoodForm(wizard_wizard) => GoodForm(wizard_wizard)'
  BY <1>1 DEF GoodForm, Typical, W!TextFocused, W!OnKind, W!Focused, W!Readonly, W!FocusRing,
     W!PageFields
<1> QED
  BY <1>1, <1>2, <1>3 DEF WizInv

LEMMA WizStep == ASSUME WizInv, [W!Next]_(W!vars) PROVE WizInv' /\ W!SecretsAreKeptStep
<1>1. CASE UNCHANGED W!vars
  <2>1. UNCHANGED <<wizard_wizard, frame, handed, complete, typed, keys>>
    BY <1>1 DEF W!vars
  <2>2. GoodForm(wizard_wizard) => GoodForm(wizard_wizard)'
    BY <2>1 DEF GoodForm, Typical, W!TextFocused, W!OnKind, W!Focused, W!Readonly, W!FocusRing,
       W!PageFields
  <2> QED
    BY <2>1, <2>2 DEF WizInv, W!SecretsAreKeptStep
<1>2. CASE W!EnterOnButton
  BY <1>2, Meets, SaveKeeps, CancelKeeps DEF W!EnterOnButton
<1>3. CASE W!Escape \/ W!CmdReload
  <2>1. W!Cancels /\ keys' \in 0..FormMaxKeys
    BY <1>3, Meets DEF W!Escape, W!CmdReload, WizInv
  <2> QED
    BY <2>1, CancelKeeps
<1>4. W!Render \/ W!Moves \/ W!PressBackspace \/ W!EnterInField
        \/ (\E c \in FormChars : W!TypeChar(c) \/ \E d \in FormChars : W!HandlePaste(c, d))
        => handed' = handed
  BY DEF W!Render, W!Moves, W!PressBackspace, W!EnterInField, W!TypeChar, W!HandlePaste, W!Edits,
     W!HandleKey
<1> QED
  BY <1>1, <1>2, <1>3, <1>4, OpenKeeps, RenderKeeps, MovesKeep, PressKeeps, EnterKeeps, ClickKeeps,
     TypeKeeps, PasteKeeps
     DEF W!Next, W!SecretsAreKeptStep

LEMMA WizGood == ASSUME WizInv
                 PROVE W!TypeOK /\ W!CursorIsInTheText /\ (FormDrawsFirst => W!FocusIsOnThePage)
                   /\ W!SavedServersAreComplete
<1>1. wizard_wizard.open => GoodForm(wizard_wizard)
  BY DEF WizInv, W!Closed
<1>2. wizard_wizard.open => Typical(wizard_wizard) /\ wizard_wizard \in Forms
  BY <1>1 DEF GoodForm, Typical
<1>3. W!TypeOK
  BY <1>2 DEF W!TypeOK, WizInv, Typical, Forms, Value
<1>4. W!CursorIsInTheText
  <2> SUFFICES ASSUME wizard_wizard.open, W!TextFocused(wizard_wizard)
               PROVE wizard_wizard.cursor \in 0..Len(wizard_wizard.values[wizard_wizard.focus])
    BY DEF W!CursorIsInTheText
  <2>1. wizard_wizard.cursor <= Len(wizard_wizard.values[wizard_wizard.focus])
          /\ wizard_wizard.cursor \in Nat
    BY <1>1, <1>2 DEF GoodForm, Forms
  <2>2. wizard_wizard.values[wizard_wizard.focus] \in Seq(FormChars)
    BY <1>2 DEF W!TextFocused, W!OnKind, W!Focused, Typical, Value, W!IsText
  <2> QED
    BY <2>1, <2>2
<1> QED
  BY <1>1, <1>3, <1>4 DEF W!FocusIsOnThePage, GoodForm, W!SavedServersAreComplete, WizInv

-----------------------------------------------------------------------------
(* The script engine (Scripting).                                          *)

(* What the channel may hold.                                              *)
Asks == [what : {"register", "unregister"}, name : ScriptVerbs]
        \cup [what : {"start"}, id : Nat, repeating : BOOLEAN]
        \cup [what : {"cancel", "fired"}, id : Nat] \cup [what : {"irc", "ui"}]
(* Only timers that have a number are started.                             *)
Startable(q) == \A i \in 1..Len(q) : q[i].what = "start" => q[i].id \in 1..(nextTimer - 1)
Channel == scripts_queue \in Seq(Asks) /\ Len(scripts_queue) <= ScriptQueueCap
             /\ Startable(scripts_queue)
CommandLists == DOMAIN scripts_commands \subseteq ScriptVerbs
                  /\ scriptCommands \subseteq ScriptVerbs
(* The callback that runs, and whose it is.                                *)
Runs == running = S!None \/ running.what \in {"event", "setup", "cleanup", "handler", "command", "timer"}
Owned == running.what \notin {"none", "event"} =>
           /\ running.owner \in ScriptNames \ gone
           /\ running.what = "cleanup" => running.owner \notin scripts
(* A number is given to one handler, once.                                 *)
Numbered ==
  /\ ids \in Nat /\ \A h \in handlers \cup left : h.id \in Nat /\ h.id < ids
  /\ \A g, h \in handlers \cup left : g.id = h.id => g = h
  /\ \A i \in retired \cup fired : i \in Nat /\ i < ids
  /\ \A h \in handlers : h.id \notin retired
HandlerRows == [id : Nat, priority : ScriptPriorities, once : BOOLEAN, owner : ScriptNames]
(* What the engine lists belongs to scripts that are not unloaded.         *)
Owners ==
  /\ handlers \cup left \subseteq HandlerRows /\ \A h \in handlers : h.owner \notin gone
  /\ \A c \in DOMAIN scripts_commands : scripts_commands[c] \in ScriptNames \ gone
  /\ \A tm \in DOMAIN timers : timers[tm] \in ScriptNames \ gone
Timed == nextTimer \in Nat \ {0} /\ DOMAIN timers \subseteq 1..(nextTimer - 1)
           /\ DOMAIN tasks \subseteq 1..(nextTimer - 1)
RegistryHolds == scripts_registry = {S!Key("handler", h.id) : h \in handlers} \cup {S!Key("timer", tm) : tm \in DOMAIN timers}
ScriptLists == scripts \subseteq ScriptNames /\ gone \subseteq ScriptNames \ scripts
ScriInv == /\ ScriptLists /\ CommandLists /\ Channel /\ Runs /\ Owned /\ Numbered /\ Owners
              /\ Timed /\ RegistryHolds /\ S!UrgentFirst

LEMMA ScriInit == ASSUME S!Init PROVE ScriInv
<1>1. ScriptQueueCap \in Nat
  BY ScriptsAssumption DEF S!ScriptingAssumption
<1>2. Channel
  BY <1>1 DEF S!Init, Channel, Startable
<1>3. ScriptLists /\ CommandLists /\ Runs /\ Owned /\ Owners /\ S!UrgentFirst
  BY DEF S!Init, ScriptLists, CommandLists, Runs, Owned, Owners, S!UrgentFirst, S!None
<1>4. Numbered /\ Timed /\ RegistryHolds
  BY DEF S!Init, Numbered, Timed, RegistryHolds
<1> QED
  BY <1>2, <1>3, <1>4 DEF ScriInv

(* The channel takes what fits.                                            *)
LEMMA Sending ==
  ASSUME Channel, nextTimer \in Nat, nextTimer' \in Nat, nextTimer <= nextTimer', NEW a \in Asks,
         a.what = "start" => a.id \in 1..(nextTimer' - 1),
         scripts_queue' = scripts_queue \/ (Len(scripts_queue) < ScriptQueueCap
           /\ scripts_queue' = Append(scripts_queue, a))
  PROVE  Channel'
<1>0. ScriptQueueCap \in Nat /\ Len(scripts_queue) \in Nat
  BY ScriptsAssumption DEF S!ScriptingAssumption, Channel
<1> DEFINE m == nextTimer
           n == nextTimer'
<1>1. \A x \in 1..(nextTimer - 1) : x \in 1..(nextTimer' - 1)
  <2>1. m \in Nat /\ n \in Nat /\ m <= n
    OBVIOUS
  <2> HIDE DEF m, n
  <2>2. \A x \in 1..(m - 1) : x \in 1..(n - 1)
    BY <2>1
  <2> QED
    BY <2>2 DEF m, n
<1> HIDE DEF m, n
<1>2. CASE scripts_queue' = scripts_queue
  BY <1>1, <1>2 DEF Channel, Startable
<1>3. CASE Len(scripts_queue) < ScriptQueueCap /\ scripts_queue' = Append(scripts_queue, a)
  <2>1. scripts_queue' \in Seq(Asks) /\ Len(scripts_queue') = Len(scripts_queue) + 1
    BY <1>3 DEF Channel
  <2>2. \A i \in 1..Len(scripts_queue') : (i \in 1..Len(scripts_queue)
          /\ scripts_queue'[i] = scripts_queue[i]) \/ scripts_queue'[i] = a
    BY <1>3, <2>1 DEF Channel
  <2>3. Startable(scripts_queue)'
    BY <1>1, <2>2 DEF Channel, Startable
  <2> QED
    BY <1>0, <1>3, <2>1, <2>3 DEF Channel
<1> QED
  BY <1>2, <1>3

LEMMA Receiving ==
  ASSUME Channel, nextTimer' = nextTimer, scripts_queue # <<>>, scripts_queue' = Tail(scripts_queue)
  PROVE  Channel' /\ Head(scripts_queue) \in Asks /\ (Head(scripts_queue).what = "start"
           => Head(scripts_queue).id \in 1..(nextTimer - 1))
<1>1. scripts_queue' \in Seq(Asks) /\ Len(scripts_queue') = Len(scripts_queue) - 1
        /\ Head(scripts_queue) = scripts_queue[1] /\ scripts_queue[1] \in Asks
             /\ Len(scripts_queue) \in Nat
      /\ Len(scripts_queue) >= 1
  BY DEF Channel
<1>2. \A i \in 1..Len(scripts_queue') : i + 1 \in 1..Len(scripts_queue)
        /\ scripts_queue'[i] = scripts_queue[i + 1]
  BY <1>1 DEF Channel
<1>3. Startable(scripts_queue)' /\ (scripts_queue[1].what = "start"
        => scripts_queue[1].id \in 1..(nextTimer - 1))
  BY <1>1, <1>2 DEF Channel, Startable
<1>4. Len(scripts_queue') <= ScriptQueueCap
  BY <1>1, ScriptsAssumption DEF S!ScriptingAssumption, Channel
<1> QED
  BY <1>1, <1>3, <1>4 DEF Channel

(* An API call: a callback runs, and it goes on running.                   *)
LEMMA Calling ==
  ASSUME ScriInv, S!Call
  PROVE  running.owner \in ScriptNames \ gone /\ running.what # "none"
BY DEF ScriInv, Owned, S!Call

LEMMA SameQueue == ASSUME ScriInv, UNCHANGED <<scripts_queue, nextTimer>> PROVE Channel'
BY DEF ScriInv, Channel, Startable

LEMMA OnKeeps ==
  ASSUME ScriInv, NEW p \in ScriptPriorities, NEW once \in BOOLEAN, S!On(p, once)
  PROVE  ScriInv'
<1> DEFINE h == [id |-> ids, priority |-> p, once |-> once, owner |-> running.owner]
<1>1. /\ handlers' = handlers \cup {h}
         /\ scripts_registry' = scripts_registry \cup {S!Key("handler", ids)} /\ ids' = ids + 1
              /\ S!Call
      /\ UNCHANGED <<scripts, scripts_commands, timers, tasks, scripts_queue, scriptCommands,
           running, left, fired, nextTimer, retired, gone>>
  BY DEF S!On, S!app, S!emission
<1>2. running.owner \in ScriptNames \ gone
  BY <1>1, Calling
<1>3. h.id = ids /\ h.owner = running.owner /\ ids \in Nat /\ h \in HandlerRows
  BY <1>2 DEF ScriInv, Numbered, HandlerRows
<1> HIDE DEF h
<1>4. Numbered'
  <2>1. ids' \in Nat /\ ids < ids'
    BY <1>1, <1>3
  <2>2. \A g \in handlers' \cup left' : g \in handlers \cup left \/ g = h
    BY <1>1
  <2>3. \A g \in handlers \cup left : g.id \in Nat /\ g.id < ids /\ g.id < ids'
    BY <1>1, <1>3 DEF ScriInv, Numbered
  <2>4. \A i \in retired' \cup fired' : i \in Nat /\ i < ids /\ i < ids'
    BY <1>1, <1>3 DEF ScriInv, Numbered
  <2>5. \A g \in handlers' \cup left' : g.id \in Nat /\ g.id < ids'
    BY <1>3, <2>1, <2>2, <2>3
  <2>6. \A f, g \in handlers' \cup left' : f.id = g.id => f = g
    BY <1>3, <2>2, <2>3 DEF ScriInv, Numbered
  <2>7. \A g \in handlers' : g.id \notin retired'
    BY <1>1, <1>3, <2>4 DEF ScriInv, Numbered
  <2> QED
    BY <2>1, <2>4, <2>5, <2>6, <2>7 DEF Numbered
<1>5. Owners'
  BY <1>1, <1>2, <1>3 DEF ScriInv, Owners
<1>6. RegistryHolds'
  BY <1>1, <1>3 DEF ScriInv, RegistryHolds
<1>7. Channel'
  BY <1>1, SameQueue
<1>8. ScriptLists' /\ CommandLists' /\ Runs' /\ Owned' /\ Timed' /\ S!UrgentFirst'
  BY <1>1 DEF ScriInv, ScriptLists, CommandLists, Runs, Owned, Timed, S!UrgentFirst
<1> QED
  BY <1>4, <1>5, <1>6, <1>7, <1>8 DEF ScriInv

(* Some handlers go, for good or because their script goes.                *)
LEMMA FewerHandlers ==
  ASSUME ScriInv, NEW U \in SUBSET handlers, handlers' = handlers \ U,
    DOMAIN timers' \subseteq DOMAIN timers,
         scripts_registry' = scripts_registry \ ({S!Key("handler", h.id) : h \in U} \cup {S!Key("timer", tm) : tm \in DOMAIN timers \ DOMAIN timers'})
  PROVE  RegistryHolds'
<1>1. \A g \in handlers', h \in U : g.id # h.id
  BY DEF ScriInv, Numbered
<1>2. \A x, y : S!Key("handler", x) # S!Key("timer", y)
        /\ (S!Key("handler", x) = S!Key("handler", y) => x = y)
                /\ (S!Key("timer", x) = S!Key("timer", y) => x = y)
  BY DEF S!Key
<1>3. ASSUME NEW k \in scripts_registry'
        PROVE k \in {S!Key("handler", h.id) : h \in handlers'} \cup {S!Key("timer", tm) : tm \in DOMAIN timers'}
  <2>1. CASE k \in {S!Key("handler", h.id) : h \in handlers}
    BY <2>1
  <2>2. CASE k \in {S!Key("timer", tm) : tm \in DOMAIN timers}
    BY <2>2
  <2> QED
    BY <2>1, <2>2 DEF ScriInv, RegistryHolds
<1>4. ASSUME NEW g \in handlers' PROVE S!Key("handler", g.id) \in scripts_registry'
  BY <1>1, <1>2 DEF ScriInv, RegistryHolds
<1>5. ASSUME NEW tm \in DOMAIN timers' PROVE S!Key("timer", tm) \in scripts_registry'
  BY <1>2 DEF ScriInv, RegistryHolds
<1> QED
  BY <1>3, <1>4, <1>5 DEF RegistryHolds

LEMMA OffKeeps == ASSUME ScriInv, NEW id, S!Off(id) PROVE ScriInv'
<1> DEFINE U == {h \in handlers : h.id = id}
<1>1. /\ handlers' = handlers \ U
         /\ scripts_registry' = scripts_registry \ {S!Key("handler", id)}
              /\ retired' = retired \cup {id}
      /\ U # {} /\ UNCHANGED <<scripts, scripts_commands, timers, tasks, scripts_queue,
           scriptCommands, running, left, fired, ids, nextTimer, gone>>
  BY DEF S!Off, S!app, S!emission, S!Freed, S!OffNow
<1>2. {S!Key("handler", h.id) : h \in U} = {S!Key("handler", id)} /\ id \in Nat /\ id < ids
  BY <1>1 DEF ScriInv, Numbered
<1>3. RegistryHolds'
  <2>1. scripts_registry' = scripts_registry \ ({S!Key("handler", h.id) : h \in U} \cup {S!Key("timer", tm) : tm \in DOMAIN timers \ DOMAIN timers'})
    BY <1>1, <1>2
  <2>2. U \in SUBSET handlers /\ DOMAIN timers' \subseteq DOMAIN timers
    BY <1>1
  <2> HIDE DEF U
  <2> QED
    BY <1>1, <2>1, <2>2, FewerHandlers
<1>4. Numbered'
  BY <1>1, <1>2 DEF ScriInv, Numbered
<1>5. Channel'
  BY <1>1, SameQueue
<1>6. ScriptLists' /\ CommandLists' /\ Runs' /\ Owned' /\ Timed' /\ S!UrgentFirst' /\ Owners'
  BY <1>1 DEF ScriInv, ScriptLists, CommandLists, Runs, Owned, Timed, S!UrgentFirst, Owners
<1> QED
  BY <1>3, <1>4, <1>5, <1>6 DEF ScriInv

(* Calls about commands and timers, and all the others.                    *)
LEMMA CommandKeeps == ASSUME ScriInv, NEW c \in ScriptVerbs, S!Command(c) \/ S!RemoveCommand(c)
        PROVE ScriInv'
<1>1. UNCHANGED <<scripts, handlers, timers, scripts_registry, tasks, scriptCommands, running,
        left, fired, ids, nextTimer, retired, gone>>
      /\ S!Call
  BY DEF S!Command, S!RemoveCommand, S!emission
<1>2. running.owner \in ScriptNames \ gone
  BY <1>1, Calling
<1>3. /\ DOMAIN scripts_commands' \subseteq DOMAIN scripts_commands \cup {c}
      /\ \A d \in DOMAIN scripts_commands' : (d \in DOMAIN scripts_commands
           /\ scripts_commands'[d] = scripts_commands[d]) \/ scripts_commands'[d] = running.owner
  BY DEF S!Command, S!RemoveCommand, S!With, S!Restrict
<1>4. Channel'
  <2>1. \E a \in [what : {"register", "unregister"}, name : ScriptVerbs] : S!TrySend(a)
    BY DEF S!Command, S!RemoveCommand
  <2> QED
    BY <1>1, <2>1, Sending DEF S!TrySend, Asks, ScriInv, Timed
<1>5. ScriptLists' /\ CommandLists' /\ Runs' /\ Owned' /\ Timed' /\ S!UrgentFirst' /\ Owners'
        /\ RegistryHolds' /\ Numbered'
  BY <1>1, <1>2, <1>3 DEF ScriInv, ScriptLists, CommandLists, Runs, Owned, Timed, S!UrgentFirst,
     Owners, RegistryHolds, Numbered
<1> QED
  BY <1>4, <1>5 DEF ScriInv

LEMMA StartKeeps == ASSUME ScriInv, NEW r \in BOOLEAN, S!StartTimer(r) PROVE ScriInv'
<1>1. /\ UNCHANGED <<scripts, handlers, scripts_commands, tasks, scriptCommands, running, left,
         fired, ids, retired, gone>>
      /\ S!Call /\ nextTimer' = nextTimer + 1 /\ nextTimer \in Nat /\ nextTimer > 0
      /\ timers' = S!With(timers, nextTimer, running.owner)
           /\ scripts_registry' = scripts_registry \cup {S!Key("timer", nextTimer)}
      /\ S!TrySend([what |-> "start", id |-> nextTimer, repeating |-> r])
  BY DEF S!StartTimer, S!emission, ScriInv, Timed
<1>2. running.owner \in ScriptNames \ gone
  BY <1>1, Calling
<1>3. /\ DOMAIN timers' = DOMAIN timers \cup {nextTimer}
      /\ \A tm \in DOMAIN timers' : (tm \in DOMAIN timers
           /\ timers'[tm] = timers[tm]) \/ timers'[tm] = running.owner
  BY <1>1 DEF S!With
<1>4. nextTimer' \in Nat \ {0} /\ nextTimer <= nextTimer' /\ nextTimer \in 1..(nextTimer' - 1)
      /\ \A x \in 1..(nextTimer - 1) : x \in 1..(nextTimer' - 1)
  BY <1>1
<1>5. Channel'
  <2> DEFINE a == [what |-> "start", id |-> nextTimer, repeating |-> r]
  <2>1. a \in Asks /\ a.id \in 1..(nextTimer' - 1)
    BY <1>1, <1>4 DEF Asks
  <2> HIDE DEF a
  <2>2. S!TrySend(a)
    BY <1>1 DEF a
  <2>3. nextTimer \in Nat /\ nextTimer' \in Nat
    BY <1>1, <1>4
  <2> QED
    BY <1>4, <2>1, <2>2, <2>3, Sending DEF S!TrySend, ScriInv
<1>6. Timed'
  BY <1>1, <1>3, <1>4 DEF ScriInv, Timed
<1>7. RegistryHolds'
  BY <1>1, <1>3 DEF ScriInv, RegistryHolds
<1>8. ScriptLists' /\ CommandLists' /\ Runs' /\ Owned' /\ S!UrgentFirst' /\ Owners' /\ Numbered'
  BY <1>1, <1>2, <1>3 DEF ScriInv, ScriptLists, CommandLists, Runs, Owned, S!UrgentFirst, Owners,
     Numbered
<1> QED
  BY <1>5, <1>6, <1>7, <1>8 DEF ScriInv

LEMMA AskKeeps == ASSUME ScriInv, S!Ask \/ \E tm \in 1..ScriptMaxTimers : S!CancelTimer(tm)
        PROVE ScriInv'
<1>1. UNCHANGED <<scripts, handlers, scripts_commands, timers, scripts_registry, tasks,
        scriptCommands, running, left, fired, ids, nextTimer, retired, gone>>
  BY DEF S!Ask, S!CancelTimer, S!emission, S!engine
<1>2. Channel'
  <2>0. nextTimer \in Nat
    BY DEF ScriInv, Timed
  <2>1. ASSUME NEW a \in Asks, a.what # "start", S!TrySend(a) PROVE Channel'
    BY <1>1, <2>0, <2>1, Sending DEF S!TrySend, ScriInv
  <2>2. CASE S!Ask
    <3>1. [what |-> "irc"] \in Asks /\ [what |-> "ui"] \in Asks
      BY DEF Asks
    <3> QED
      BY <2>1, <2>2, <3>1 DEF S!Ask, S!AskIrc, S!AskUi
  <2>3. ASSUME NEW tm \in 1..ScriptMaxTimers, S!CancelTimer(tm) PROVE Channel'
    <3>1. tm \in Nat /\ S!TrySend([what |-> "cancel", id |-> tm])
      BY <2>3 DEF S!CancelTimer
    <3>2. [what |-> "cancel", id |-> tm] \in Asks
      BY <3>1 DEF Asks
    <3> QED
      BY <2>1, <3>1, <3>2
  <2> QED
    BY <2>2, <2>3
<1>3. ScriptLists' /\ CommandLists' /\ Runs' /\ Owned' /\ Timed' /\ S!UrgentFirst' /\ Owners'
        /\ RegistryHolds' /\ Numbered'
  BY <1>1 DEF ScriInv, ScriptLists, CommandLists, Runs, Owned, Timed, S!UrgentFirst, Owners,
     RegistryHolds, Numbered
<1> QED
  BY <1>2, <1>3 DEF ScriInv

(* Loading and unloading.                                                  *)
LEMMA LoadKeeps == ASSUME ScriInv, NEW sc \in ScriptNames, S!LoadScript(sc) PROVE ScriInv'
<1>1. /\ running' = [what |-> "setup", owner |-> sc] /\ gone' = gone \ {sc} /\ sc \notin scripts
      /\ UNCHANGED <<scripts, handlers, scripts_commands, timers, scripts_registry, tasks,
           scripts_queue, scriptCommands, left, fired, ids, nextTimer, retired>>
  BY DEF S!LoadScript, S!engine, S!app, S!emission, S!counters
<1>2. Channel'
  BY <1>1, SameQueue
<1> QED
  BY <1>1, <1>2 DEF ScriInv, ScriptLists, CommandLists, Runs, Owned, Timed, S!UrgentFirst, Owners,
     RegistryHolds, Numbered, S!None

LEMMA SetupKeeps == ASSUME ScriInv, NEW ok \in BOOLEAN, S!SetupReturns(ok) PROVE ScriInv'
<1>1. /\ running.what = "setup" /\ running' = S!None
         /\ scripts' = IF ok THEN scripts \cup {running.owner} ELSE scripts
      /\ UNCHANGED <<handlers, scripts_commands, timers, scripts_registry, tasks, scripts_queue,
           scriptCommands, left, fired, ids, nextTimer, retired, gone>>
  BY DEF S!SetupReturns, S!engine, S!app, S!emission, S!counters
<1>2. Channel'
  BY <1>1, SameQueue
<1>3. running.owner \in ScriptNames \ gone
  BY <1>1 DEF ScriInv, Owned
<1> QED
  BY <1>1, <1>2, <1>3 DEF ScriInv, ScriptLists, CommandLists, Runs, Owned, Timed, S!UrgentFirst,
     Owners, RegistryHolds, Numbered, S!None

LEMMA UnloadKeeps == ASSUME ScriInv, NEW sc \in ScriptNames, S!Unload(sc) PROVE ScriInv'
<1>1. /\ running' = [what |-> "cleanup", owner |-> sc] /\ sc \in scripts
         /\ scripts' = scripts \ {sc}
      /\ UNCHANGED <<handlers, scripts_commands, timers, scripts_registry, tasks, scripts_queue,
           scriptCommands, left, fired, ids, nextTimer, retired, gone>>
  BY DEF S!Unload, S!engine, S!app, S!emission, S!counters
<1>2. Channel'
  BY <1>1, SameQueue
<1>3. sc \notin gone
  BY <1>1 DEF ScriInv, ScriptLists
<1> QED
  BY <1>1, <1>2, <1>3 DEF ScriInv, ScriptLists, CommandLists, Runs, Owned, Timed, S!UrgentFirst,
     Owners, RegistryHolds, Numbered, S!None

LEMMA CleanupKeeps == ASSUME ScriInv, S!CleanupReturns PROVE ScriInv'
<1> DEFINE sc == running.owner
           U == {h \in handlers : h.owner = sc}
<1>1. /\ running.what = "cleanup" /\ running' = S!None /\ handlers' = handlers \ U
         /\ gone' = gone \cup {sc}
      /\ scripts_commands' = S!Restrict(scripts_commands, {c \in DOMAIN scripts_commands : scripts_commands[c] # sc})
      /\ timers' = S!Restrict(timers, DOMAIN timers \ S!TimersOf(sc))
      /\ scripts_registry' = scripts_registry \ ({S!Key("handler", h) : h \in {h.id : h \in U}} \cup {S!Key("timer", tm) : tm \in S!TimersOf(sc)})
      /\ UNCHANGED <<scripts, tasks, scripts_queue, scriptCommands, left, fired, ids, nextTimer,
           retired>>
  BY DEF S!CleanupReturns, S!Dropped, S!app, S!emission, S!counters
<1>2. sc \in ScriptNames /\ sc \notin scripts
  BY <1>1 DEF ScriInv, Owned
<1>3. DOMAIN timers' = DOMAIN timers \ S!TimersOf(sc)
        /\ DOMAIN timers \ DOMAIN timers' = S!TimersOf(sc)
      /\ \A tm \in DOMAIN timers' : timers'[tm] = timers[tm] /\ timers[tm] # sc
  BY <1>1 DEF S!Restrict, S!TimersOf
<1>4. {S!Key("handler", h) : h \in {h.id : h \in U}} = {S!Key("handler", h.id) : h \in U}
  OBVIOUS
<1>5. RegistryHolds'
  BY <1>1, <1>3, <1>4, FewerHandlers
<1>6. Channel'
  BY <1>1, SameQueue
<1>7. Owners'
  BY <1>1, <1>3 DEF ScriInv, Owners, S!Restrict
<1>8. CommandLists' /\ ScriptLists'
  BY <1>1, <1>2 DEF ScriInv, ScriptLists, CommandLists, S!Restrict
<1> QED
  BY <1>1, <1>3, <1>5, <1>6, <1>7, <1>8 DEF ScriInv, Runs, Owned, Timed, S!UrgentFirst, Numbered,
     S!None

(* Events.                                                                 *)
LEMMA EmitKeeps == ASSUME ScriInv, S!Emit PROVE ScriInv'
<1>1. /\ running' = [what |-> "event"] /\ left' = handlers /\ fired' = {}
      /\ UNCHANGED <<scripts, handlers, scripts_commands, timers, scripts_registry, tasks,
           scripts_queue, scriptCommands, ids, nextTimer, retired, gone>>
  BY DEF S!Emit, S!engine, S!app, S!counters
<1>2. Channel'
  BY <1>1, SameQueue
<1> QED
  BY <1>1, <1>2 DEF ScriInv, ScriptLists, CommandLists, Runs, Owned, Timed, S!UrgentFirst, Owners,
     RegistryHolds, Numbered

LEMMA NextKeeps == ASSUME ScriInv, S!NextHandler PROVE ScriInv' /\ S!RetiredHandlersAreSilentStep
<1>1. PICK h \in left :
        /\ \A g \in left : ~S!Precedes(g, h)
        /\ left' = left \ {h} /\ fired' = IF h.once THEN fired \cup {h.id} ELSE fired
        /\ running' = IF S!Key("handler", h.id) \in scripts_registry
                      THEN [what |-> "handler", owner |-> h.owner, id |-> h.id, priority |-> h.priority] ELSE running
  BY DEF S!NextHandler
<1>2. /\ UNCHANGED <<scripts, handlers, scripts_commands, timers, scripts_registry, tasks,
         scripts_queue, scriptCommands, ids, nextTimer, retired, gone>>
      /\ running.what = "event"
  BY DEF S!NextHandler, S!engine, S!app, S!counters
<1>3. Channel'
  BY <1>2, SameQueue
<1>4. S!Key("handler", h.id) \in scripts_registry => h \in handlers
  BY DEF ScriInv, RegistryHolds, S!Key, Numbered
<1>5. \A g \in left : g.priority \in Int
  BY ScriptsAssumption DEF S!ScriptingAssumption, ScriInv, Owners, HandlerRows
<1>6. S!UrgentFirst'
  BY <1>1, <1>2, <1>5 DEF S!UrgentFirst, S!Precedes
<1>7. Owned' /\ Runs'
  BY <1>1, <1>2, <1>4 DEF ScriInv, Owned, Owners, Runs, HandlerRows
<1>8. ScriptLists' /\ CommandLists' /\ Timed' /\ Owners' /\ RegistryHolds' /\ Numbered'
  BY <1>1, <1>2 DEF ScriInv, ScriptLists, CommandLists, Timed, Owners, RegistryHolds, Numbered
<1>9. S!RetiredHandlersAreSilentStep
  BY <1>1, <1>2, <1>4 DEF ScriInv, Numbered, S!RetiredHandlersAreSilentStep
<1> QED
  BY <1>3, <1>6, <1>7, <1>8, <1>9 DEF ScriInv

LEMMA ReturnKeeps == ASSUME ScriInv, NEW b \in BOOLEAN, S!HandlerReturns(b) PROVE ScriInv'
<1>1. /\ running' = [what |-> "event"] /\ left' \subseteq left
      /\ UNCHANGED <<scripts, handlers, scripts_commands, timers, scripts_registry, tasks,
           scripts_queue, scriptCommands, fired, ids, nextTimer, retired, gone>>
  BY DEF S!HandlerReturns, S!engine, S!app, S!counters
<1>2. Channel'
  BY <1>1, SameQueue
<1> QED
  BY <1>1, <1>2 DEF ScriInv, ScriptLists, CommandLists, Runs, Owned, Timed, S!UrgentFirst, Owners,
     RegistryHolds, Numbered

LEMMA EndKeeps == ASSUME ScriInv, S!EmitEnds PROVE ScriInv'
<1> DEFINE U == {h \in handlers : h.id \in fired}
<1>1. /\ running' = S!None /\ handlers' = handlers \ U /\ retired' = retired \cup fired
         /\ fired' = {}
      /\ scripts_registry' = scripts_registry \ {S!Key("handler", h) : h \in fired}
      /\ UNCHANGED <<scripts, scripts_commands, timers, tasks, scripts_queue, scriptCommands,
           left, ids, nextTimer, gone>>
  BY DEF S!EmitEnds, S!UsedUp, S!FiredIds, S!app, S!counters
<1>2. Channel'
  BY <1>1, SameQueue
<1>3. scripts_registry' = scripts_registry \ {S!Key("handler", h.id) : h \in U}
  BY <1>1 DEF ScriInv, RegistryHolds, S!Key
<1>4. RegistryHolds'
  <2>1. scripts_registry' = scripts_registry \ ({S!Key("handler", h.id) : h \in U} \cup {S!Key("timer", tm) : tm \in DOMAIN timers \ DOMAIN timers'})
    BY <1>1, <1>3
  <2>2. U \in SUBSET handlers /\ DOMAIN timers' \subseteq DOMAIN timers
    BY <1>1
  <2> HIDE DEF U
  <2> QED
    BY <1>1, <2>1, <2>2, FewerHandlers
<1> QED
  BY <1>1, <1>2, <1>4 DEF ScriInv, ScriptLists, CommandLists, Runs, Owned, Timed, S!UrgentFirst,
     Owners, Numbered, S!None

LEMMA CallbackKeeps == ASSUME ScriInv,
        S!CallbackReturns \/ \E c \in ScriptVerbs : S!HandleCommand(c) PROVE ScriInv'
<1>1. UNCHANGED <<scripts, handlers, scripts_commands, timers, scripts_registry, tasks,
        scripts_queue, scriptCommands, left, fired, ids, nextTimer, retired, gone>>
  BY DEF S!CallbackReturns, S!HandleCommand, S!engine, S!app, S!emission, S!counters
<1>2. Channel'
  BY <1>1, SameQueue
<1>3. running' = S!None \/ \E c \in DOMAIN scripts_commands : running' = [what |-> "command", owner |-> scripts_commands[c]]
  BY DEF S!CallbackReturns, S!HandleCommand
<1> QED
  BY <1>1, <1>2, <1>3 DEF ScriInv, ScriptLists, CommandLists, Runs, Owned, Timed, S!UrgentFirst,
     Owners, RegistryHolds, Numbered, S!None

(* The main loop and the tasks.                                            *)
LEMMA ActionKeeps == ASSUME ScriInv, S!HandleScriptAction PROVE ScriInv'
<1> DEFINE a == Head(scripts_queue)
<1>1. /\ UNCHANGED <<scripts, handlers, scripts_commands, timers, scripts_registry, left, fired,
         ids, nextTimer, retired, gone>>
      /\ scripts_queue # <<>> /\ scripts_queue' = Tail(scripts_queue)
  BY DEF S!HandleScriptAction, S!engine, S!emission, S!counters
<1>2. Channel' /\ a \in Asks /\ (a.what = "start" => a.id \in 1..(nextTimer - 1))
  BY <1>1, Receiving DEF ScriInv
<1>3. a.what \in {"register", "unregister"} => a.name \in ScriptVerbs
  BY <1>2 DEF Asks
<1>4. /\ scriptCommands' \subseteq scriptCommands \cup ScriptVerbs
      /\ DOMAIN tasks' \subseteq DOMAIN tasks \cup 1..(nextTimer - 1)
      /\ \/ running' = running
         \/ a.id \in DOMAIN timers
           /\ running' = [what |-> "timer", owner |-> timers[a.id], id |-> a.id]
  BY <1>2, <1>3 DEF S!HandleScriptAction, S!With, S!Restrict
<1>5. Owned' /\ Runs' /\ S!UrgentFirst'
  BY <1>1, <1>4 DEF ScriInv, Owned, Runs, S!UrgentFirst, Owners
<1> QED
  BY <1>1, <1>2, <1>4, <1>5 DEF ScriInv, ScriptLists, CommandLists, Timed, Owners, RegistryHolds,
     Numbered

LEMMA ExpiryKeeps == ASSUME ScriInv, NEW tm \in DOMAIN tasks, S!TimerExpires(tm) PROVE ScriInv'
<1>1. /\ UNCHANGED <<scripts, handlers, scripts_commands, timers, scripts_registry,
         scriptCommands, running, left, fired, ids, nextTimer, retired, gone>>
      /\ DOMAIN tasks' = DOMAIN tasks /\ Len(scripts_queue) < ScriptQueueCap
           /\ scripts_queue' = Append(scripts_queue, [what |-> "fired", id |-> tm])
  BY DEF S!TimerExpires, S!engine, S!emission, S!counters
<1>2. [what |-> "fired", id |-> tm] \in Asks /\ nextTimer \in Nat
  BY DEF Asks, ScriInv, Timed
<1>3. Channel'
  BY <1>1, <1>2, Sending DEF ScriInv
<1> QED
  BY <1>1, <1>3 DEF ScriInv, ScriptLists, CommandLists, Runs, Owned, Timed, S!UrgentFirst, Owners,
     RegistryHolds, Numbered

LEMMA StillKeeps == ASSUME ScriInv, UNCHANGED S!vars PROVE ScriInv'
<1>1. UNCHANGED <<scripts, handlers, scripts_commands, timers, scripts_registry, tasks,
        scripts_queue, scriptCommands, running, left, fired, ids, nextTimer, retired, gone>>
  BY DEF S!vars
<1>2. Channel'
  BY <1>1, SameQueue
<1> QED
  BY <1>1, <1>2 DEF ScriInv, ScriptLists, CommandLists, Runs, Owned, Timed, S!UrgentFirst, Owners,
     RegistryHolds, Numbered

LEMMA ScriStep == ASSUME ScriInv, [S!Next]_(S!vars) PROVE ScriInv'
BY StillKeeps, OnKeeps, OffKeeps, CommandKeeps, StartKeeps, AskKeeps, LoadKeeps, SetupKeeps,
   UnloadKeeps, CleanupKeeps,
   EmitKeeps, NextKeeps, ReturnKeeps, EndKeeps, CallbackKeeps, ActionKeeps, ExpiryKeeps
     DEF S!Next, S!ApiCall

LEMMA RetiredStep == ASSUME ScriInv, [S!Next]_(S!vars) PROVE S!RetiredHandlersAreSilentStep
<1>1. CASE S!NextHandler
  BY <1>1, NextKeeps
<1>2. CASE UNCHANGED running
  BY <1>2 DEF S!RetiredHandlersAreSilentStep
<1>3. S!ApiCall \/ UNCHANGED S!vars \/ (\E tm \in DOMAIN tasks : S!TimerExpires(tm))
        => UNCHANGED running
  BY DEF S!ApiCall, S!vars, S!Ask, S!On, S!Off, S!Command, S!RemoveCommand, S!StartTimer,
     S!CancelTimer, S!TimerExpires
<1>4. CASE running'.what # "handler"
  BY <1>4 DEF S!RetiredHandlersAreSilentStep
<1>5. \A sc : S!LoadScript(sc) \/ S!Unload(sc) => running'.what # "handler"
  BY DEF S!LoadScript, S!Unload
<1>6. (\E b : S!SetupReturns(b) \/ S!HandlerReturns(b)) \/ S!CleanupReturns \/ S!Emit \/ S!EmitEnds \/ S!CallbackReturns => running'.what # "handler"
  BY DEF S!SetupReturns, S!HandlerReturns, S!CleanupReturns, S!Emit, S!EmitEnds,
     S!CallbackReturns, S!None
<1>7. \A c : S!HandleCommand(c) => running'.what # "handler"
  BY DEF S!HandleCommand
<1>8. S!HandleScriptAction => UNCHANGED running \/ running'.what # "handler"
  BY DEF S!HandleScriptAction
<1> QED
  BY <1>1, <1>2, <1>3, <1>4, <1>5, <1>6, <1>7, <1>8 DEF S!Next

LEMMA ScriGood == ASSUME ScriInv PROVE S!TypeOK /\ S!UnloadedScriptsAreSilent /\ S!UrgentFirst
BY DEF ScriInv, ScriptLists, CommandLists, Channel, Owners, HandlerRows, Timed, RegistryHolds,
   Owned, S!TypeOK, S!UnloadedScriptsAreSilent, S!Idle, Runs, S!None

-----------------------------------------------------------------------------
(* What scripts know (ScriptState).                                        *)

(* Settings on their way are of scripts there are.                         *)
Queued == state_queue \in Seq(ScriptNames \X StateValues) /\ Len(state_queue) <= StateQueueCap
StateTypes ==
    /\ server \subseteq StateNicks /\ users \subseteq StateNicks /\ active \in StateBuffers
    /\ config \in StateValues /\ cachedToml \in StateValues \cup {Nothing}
    /\ loaded \subseteq ScriptNames /\ DOMAIN settings \subseteq ScriptNames
         /\ state_dirty \in BOOLEAN
StateInv == StateTypes /\ Queued /\ T!MembersStayTrue /\ T!SnapshotKeepsUp

LEMMA StateNumbers == StateQueueCap \in Nat
BY StatesAssumption DEF T!ScriptStateAssumption

LEMMA StateInit == ASSUME T!Init PROVE StateInv
<1>1. Queued
  BY StateNumbers DEF T!Init, Queued
<1> QED
  BY <1>1 DEF T!Init, StateInv, StateTypes, T!MembersStayTrue, T!SnapshotKeepsUp, T!None

(* What is marked need not be in the snapshot yet.                         *)
LEMMA MarkedKeeps ==
  ASSUME StateInv, state_dirty' = TRUE, StateTypes', T!MembersStayTrue', state_queue' = state_queue
  PROVE  StateInv'
BY DEF StateInv, Queued, T!SnapshotKeepsUp

LEMMA EventKeeps ==
  ASSUME StateInv, NEW kind, NEW n \in StateNicks, NEW b \in BOOLEAN, T!HandleIrcEvent(kind, n, b)
  PROVE  StateInv' /\ T!SettingsStayStep
<1>1. /\ server' = T!Members(server, kind, n) /\ state_dirty' = TRUE
      /\ users' = IF b /\ ~T!StateMutating(kind) THEN users ELSE T!Members(users, kind, n)
      /\ UNCHANGED <<active, config, cachedToml, loaded, settings, state_queue, snapshot>>
  BY DEF T!HandleIrcEvent
<1>2. ~T!StateMutating(kind) => T!Members(server, kind, n) = server
  BY DEF T!StateMutating, T!Members
<1>3. T!Members(server, kind, n) \subseteq StateNicks /\ users = server
  BY DEF StateInv, StateTypes, T!Members, T!MembersStayTrue
<1>4. users' = server' /\ server' \subseteq StateNicks
  BY <1>1, <1>2, <1>3
<1>5. StateTypes' /\ T!MembersStayTrue'
  BY <1>1, <1>4 DEF StateInv, StateTypes, T!MembersStayTrue
<1> QED
  BY <1>1, <1>5, MarkedKeeps DEF T!SettingsStayStep

LEMMA SubmitKeeps ==
  ASSUME StateInv, T!HandleSubmit, active' \in StateBuffers, config' \in StateValues,
    cachedToml' \in StateValues \cup {Nothing},
         loaded' \subseteq ScriptNames, DOMAIN settings' \subseteq ScriptNames
  PROVE  StateInv'
<1>1. state_dirty' = TRUE /\ UNCHANGED <<server, users, state_queue, snapshot>>
  BY DEF T!HandleSubmit
<1>2. StateTypes' /\ T!MembersStayTrue'
  BY <1>1 DEF StateInv, StateTypes, T!MembersStayTrue
<1> QED
  BY <1>1, <1>2, MarkedKeeps

LEMMA LinesKeep ==
  ASSUME StateInv,
         \/ \E v \in StateValues : T!CmdSet(v)
         \/ \E b \in StateBuffers : T!CmdSwitch(b)
         \/ \E s \in ScriptNames, ok \in BOOLEAN : T!CmdLoad(s, ok) \/ T!CmdReload(s, ok)
         \/ \E s \in ScriptNames : T!CmdUnload(s)
         \/ \E Us \in SUBSET (ScriptNames \ loaded) : T!AutoloadScripts(Us)
  PROVE  StateInv' /\ T!SettingsStayStep
<1>0. StateTypes /\ T!HandleSubmit
  BY DEF StateInv, T!CmdSet, T!CmdSwitch, T!CmdLoad, T!CmdReload, T!CmdUnload, T!AutoloadScripts
<1>1. ASSUME NEW s \in ScriptNames, T!CmdUnload(s) PROVE StateInv' /\ T!SettingsStayStep
  <2>1. /\ loaded' = loaded \ {s} /\ DOMAIN settings' = DOMAIN settings \ {s}
        /\ UNCHANGED <<active, config, cachedToml>>
    BY <1>1 DEF T!CmdUnload, T!Unloaded, T!Dropped, T!Restrict
  <2> QED
    BY <1>0, <2>1, SubmitKeeps DEF StateTypes, T!SettingsStayStep
<1>2. CASE settings' = settings
  <2>1. loaded' \subseteq ScriptNames
    BY <1>0 DEF StateTypes, T!CmdSet, T!CmdSwitch, T!CmdLoad, T!CmdReload, T!CmdUnload,
       T!AutoloadScripts, T!Loaded, T!Unloaded
  <2>2. active' \in StateBuffers /\ config' \in StateValues
          /\ cachedToml' \in StateValues \cup {Nothing}
    BY <1>0 DEF StateTypes, T!CmdSet, T!CmdSwitch, T!CmdLoad, T!CmdReload, T!CmdUnload,
       T!AutoloadScripts
  <2> QED
    BY <1>0, <1>2, <2>1, <2>2, SubmitKeeps DEF StateTypes, T!SettingsStayStep
<1> QED
  BY <1>1, <1>2 DEF T!CmdSet, T!CmdSwitch, T!CmdLoad, T!CmdReload, T!AutoloadScripts

LEMMA KeysKeep ==
  ASSUME StateInv,
    (\E b \in StateBuffers : T!SwitchByKey(b)) \/ (\E v \in StateValues : T!WizardSave(v)) \/ UNCHANGED T!vars
  PROVE  StateInv' /\ T!SettingsStayStep
<1>1. UNCHANGED <<server, users, loaded, settings, state_queue, snapshot, state_dirty>>
  BY DEF T!SwitchByKey, T!WizardSave, T!vars
<1>2. active' \in StateBuffers /\ config' \in StateValues
        /\ cachedToml' \in StateValues \cup {Nothing}
  BY DEF T!SwitchByKey, T!WizardSave, T!vars, StateInv, StateTypes
<1> QED
  BY <1>1, <1>2 DEF StateInv, StateTypes, Queued, T!MembersStayTrue, T!SnapshotKeepsUp,
     T!BufferNicks, T!ConfigGet, T!SettingsStayStep

LEMMA ConfigSetKeeps == ASSUME StateInv, NEW s \in ScriptNames, NEW v \in StateValues,
        T!ConfigSet(s, v) PROVE StateInv' /\ T!SettingsStayStep
<1>1. /\ state_queue' = IF Len(state_queue) < StateQueueCap THEN Append(state_queue, <<s, v>>) ELSE state_queue
      /\ UNCHANGED <<server, users, active, config, cachedToml, loaded, settings, snapshot,
           state_dirty>>
  BY DEF T!ConfigSet
<1>2. state_queue' \in Seq(ScriptNames \X StateValues) /\ Len(state_queue') <= StateQueueCap
  BY <1>1, StateNumbers DEF StateInv, Queued
<1> QED
  BY <1>1, <1>2 DEF StateInv, StateTypes, Queued, T!MembersStayTrue, T!SnapshotKeepsUp,
     T!BufferNicks, T!ConfigGet, T!SettingsStayStep

LEMMA ActionStays == ASSUME StateInv, T!HandleScriptAction PROVE StateInv' /\ T!SettingsStayStep
<1>1. /\ state_queue # <<>> /\ state_queue' = Tail(state_queue)
         /\ DOMAIN settings' = DOMAIN settings \cup {Head(state_queue)[1]} /\ state_dirty' = TRUE
      /\ UNCHANGED <<server, users, active, config, cachedToml, loaded, snapshot>>
  BY DEF T!HandleScriptAction, T!Marked
<1>2. state_queue' \in Seq(ScriptNames \X StateValues) /\ Len(state_queue') <= StateQueueCap
        /\ Head(state_queue) \in ScriptNames \X StateValues
  BY <1>1, StateNumbers DEF StateInv, Queued
<1>3. Head(state_queue)[1] \in ScriptNames
  BY <1>2
<1> QED
  BY <1>1, <1>2, <1>3 DEF StateInv, StateTypes, Queued, T!MembersStayTrue, T!SnapshotKeepsUp,
     T!SettingsStayStep

LEMMA SnapshotStays == ASSUME StateInv, T!UpdateScriptSnapshot PROVE StateInv' /\ T!SettingsStayStep
<1>1. UNCHANGED <<server, users, active, config, loaded, settings, state_queue>>
        /\ state_dirty' = (loaded = {})
  BY DEF T!UpdateScriptSnapshot
<1>2. cachedToml' \in StateValues \cup {Nothing}
  BY DEF T!UpdateScriptSnapshot, T!Toml, StateInv, StateTypes
<1>3. loaded # {} => snapshot'.users = users /\ snapshot'.settings = settings
  BY DEF T!UpdateScriptSnapshot, T!ScriptSnapshot
<1> QED
  BY <1>1, <1>2, <1>3 DEF StateInv, StateTypes, Queued, T!MembersStayTrue, T!SnapshotKeepsUp,
     T!BufferNicks, T!ConfigGet, T!SettingsStayStep

LEMMA StateStep == ASSUME StateInv, [T!Next]_(T!vars) PROVE StateInv' /\ T!SettingsStayStep
BY EventKeeps, LinesKeep, KeysKeep, ConfigSetKeeps, ActionStays, SnapshotStays DEF T!Next

LEMMA StateGood == ASSUME StateInv PROVE T!TypeOK /\ T!MembersStayTrue /\ T!SnapshotKeepsUp
BY DEF StateInv, StateTypes, Queued, T!TypeOK

-----------------------------------------------------------------------------
(* The thumbnails of the web pages (Thumbnails).                           *)

RegistryTypes ==
  /\ thumbs_registry \subseteq ThumbLinks /\ Cardinality(thumbs_registry) <= MAX_REGISTRY_ENTRIES
  /\ thumbs_shown \in Seq(ThumbLinks) /\ Len(thumbs_shown) <= ThumbMaxPerMessage
     /\ N!IsInjective(thumbs_shown)
  /\ thumbs_messages \in 0..ThumbMaxMessages
(* A request is about a link until it has been answered.                   *)
Placed == \A r \in ThumbReaders :
            (request[r].link = "none") <=> (request[r].at \in {"idle", "prune", "remove"})
RequestTypes == request \in [ThumbReaders -> N!Requests] /\ Placed
CountTypes == requests \in 0..ThumbMaxRequests /\ thumbs_faults \in 0..ThumbMaxFaults
DirTypes ==
  /\ holds \in [N!Names -> N!Contents] /\ dir \in Seq(N!Names) /\ N!IsInjective(dir)
  /\ N!ToSet(dir) = {n \in N!Names : holds[n] # "none"}
PruneTypes == prune \in [ThumbReaders -> [list : Seq(N!Names), over : Int]]
(* Until a crash, a directory beyond its limit has a request that is going *)
(* to list it, or one whose list has all that is there.                    *)
Growing == \E r \in ThumbReaders : request[r].at \in {"write", "rename", "prune"}
Lists(r) == /\ N!At(r, "remove") /\ N!ToSet(dir) \subseteq N!ToSet(prune[r].list)
            /\ Len(dir) - ThumbCacheMax <= prune[r].over
Bounded == thumbs_faults = 0
  => Growing \/ Len(dir) <= ThumbCacheMax \/ \E r \in ThumbReaders : Lists(r)
(* What is being written, or waits to be renamed, is torn if two requests  *)
(* are at it, so that what becomes the file is whole or torn.              *)
WritesSafely(x) ==
  LET tmp == holds[N!Tmp(request[x].link)] IN
  /\ N!At(x, "write") =>
       \/ request[x].fd = "tmp" /\ tmp \in {"part", "torn"}
       \/ request[x].fd = "file" /\ tmp # "part" /\ holds[N!File(request[x].link)] = "torn"
       \/ request[x].fd = "gone" /\ tmp # "part"
  /\ N!At(x, "rename") => tmp # "part"
WholeFiles ==
  /\ \A u \in ThumbLinks : holds[N!File(u)] # "part"
  /\ \A r \in ThumbReaders : request[r].got # "part"
  /\ \A r \in ThumbReaders : WritesSafely(r)
  /\ \A x, y \in ThumbReaders, u \in ThumbLinks :
       x # y /\ N!Stores(x, u) /\ N!Stores(y, u) => holds[N!Tmp(u)] \in {"torn", "none"}
CacheInv == /\ RegistryTypes /\ RequestTypes /\ CountTypes /\ DirTypes /\ PruneTypes
            /\ Bounded /\ WholeFiles

LEMMA ThumbSets == \A U : (N!IsFiniteSet(U) <=> IsFiniteSet(U)) /\ N!Cardinality(U) = Cardinality(U)
BY DEF N!IsFiniteSet, IsFiniteSet, N!Cardinality, Cardinality

LEMMA ThumbNumbers ==
  /\ IsFiniteSet(ThumbLinks) /\ "none" \notin ThumbLinks
  /\ MAX_REGISTRY_ENTRIES \in Nat /\ MAX_REGISTRY_ENTRIES >= 1 /\ ThumbMaxPerMessage \in Nat
  /\ ThumbCacheMax \in Nat /\ ThumbMaxMessages \in Nat /\ ThumbMaxRequests \in Nat
     /\ ThumbMaxFaults \in Nat
BY ThumbsAssumption, ThumbSets DEF N!ThumbnailsAssumption

LEMMA NamesDiffer ==
  /\ \A u \in ThumbLinks : N!File(u) \in N!Names /\ N!Tmp(u) \in N!Names
  /\ \A u, v \in ThumbLinks : N!File(u) # N!Tmp(v) /\ (N!File(u) = N!File(v) => u = v)
     /\ (N!Tmp(u) = N!Tmp(v) => u = v)
  /\ \A u, fd : <<u, fd>> \in N!Names <=> u \in ThumbLinks /\ fd \in {"file", "tmp"}
BY DEF N!Names, N!File, N!Tmp

(* A sequence from some place on.                                          *)
LEMMA TailFrom ==
  ASSUME NEW s \in Seq(N!Names), NEW k \in Nat, k <= Len(s)
  PROVE  /\ SubSeq(s, k + 1, Len(s)) \in Seq(N!Names) /\ Len(SubSeq(s, k + 1, Len(s))) = Len(s) - k
         /\ DOMAIN SubSeq(s, k + 1, Len(s)) = 1..(Len(s) - k)
         /\ \A j \in 1..(Len(s) - k) : SubSeq(s, k + 1, Len(s))[j] = s[j + k]
<1> DEFINE n == Len(s)
<1>0. n \in Nat /\ k + 1 \in Nat /\ k + 1 >= 1 /\ k <= n
  OBVIOUS
<1>1. SubSeq(s, k + 1, n) \in Seq(N!Names)
  BY <1>0
<1>2. Len(SubSeq(s, k + 1, n)) = n - k
  <2>1. CASE k = n
    BY <1>0, <2>1
  <2>2. CASE k < n
    BY <1>0, <2>2
  <2> QED
    BY <1>0, <2>1, <2>2
<1>3. \A j \in 1..(n - k) : SubSeq(s, k + 1, n)[j] = s[j + k]
  BY <1>0
<1> QED
  BY <1>1, <1>2, <1>3

(* A sequence without one of its elements.                                 *)
LEMMA WithoutOne ==
  ASSUME NEW s \in Seq(N!Names), N!IsInjective(s), NEW i \in DOMAIN s
  PROVE  /\ N!RemoveAt(s, i) \in Seq(N!Names) /\ N!IsInjective(N!RemoveAt(s, i))
         /\ N!ToSet(N!RemoveAt(s, i)) = N!ToSet(s) \ {s[i]}
         /\ Len(N!RemoveAt(s, i)) = Len(s) - 1
<1> DEFINE r == N!RemoveAt(s, i)   n == Len(s)
<1>1. n \in Nat /\ i \in 1..n /\ DOMAIN s = 1..n /\ \A j \in 1..n : s[j] \in N!Names
  OBVIOUS
<1> DEFINE p == SubSeq(s, 1, i - 1)   q == SubSeq(s, i + 1, n)
<1>2. r = p \o q
  BY DEF N!RemoveAt
<1>2a. p \in Seq(N!Names) /\ Len(p) = i - 1 /\ \A j \in 1..(i - 1) : p[j] = s[j]
  BY <1>1
<1>2b. q \in Seq(N!Names) /\ Len(q) = n - i /\ \A j \in 1..(n - i) : q[j] = s[j + i]
  <2>1. i \in Nat /\ i <= Len(s)
    BY <1>1
  <2> QED
    BY <2>1, TailFrom
<1> HIDE DEF r, p, q
<1>3. r \in Seq(N!Names) /\ Len(r) = n - 1 /\ DOMAIN r = 1..(n - 1)
  <2>1. p \o q \in Seq(N!Names) /\ Len(p \o q) = Len(p) + Len(q)
    BY <1>2a, <1>2b, ConcatProperties
  <2>2. Len(p) + Len(q) = n - 1
    BY <1>1, <1>2a, <1>2b
  <2> QED
    BY <1>2, <2>1, <2>2
<1>4. \A j \in 1..(n - 1) : r[j] = IF j < i THEN s[j] ELSE s[j + 1]
  <2> SUFFICES ASSUME NEW j \in 1..(n - 1) PROVE r[j] = IF j < i THEN s[j] ELSE s[j + 1]
    OBVIOUS
  <2>1. r[j] = IF j <= Len(p) THEN p[j] ELSE q[j - Len(p)]
    BY <1>1, <1>2, <1>2a, <1>2b
  <2>2. CASE j < i
    BY <2>1, <2>2, <1>1, <1>2a
  <2>3. CASE j >= i
    <3>1. j - (i - 1) \in 1..(n - i) /\ (j - (i - 1)) + i = j + 1 /\ ~(j <= i - 1) /\ ~(j < i)
      BY <2>3, <1>1
    <3> QED
      BY <2>1, <3>1, <1>2a, <1>2b
  <2> QED
    BY <2>2, <2>3, <1>1
<1>5. N!IsInjective(r)
  <2> SUFFICES ASSUME NEW a \in 1..(n - 1), NEW b \in 1..(n - 1), r[a] = r[b] PROVE a = b
    BY <1>3 DEF N!IsInjective
  <2> DEFINE f(j) == IF j < i THEN j ELSE j + 1
  <2>1. f(a) \in 1..n /\ f(b) \in 1..n /\ (f(a) = f(b) => a = b)
    BY <1>1
  <2>2. s[f(a)] = s[f(b)]
    BY <1>4
  <2> QED
    BY <2>1, <2>2, <1>1 DEF N!IsInjective
<1>6. N!ToSet(r) \subseteq N!ToSet(s) \ {s[i]}
  <2> SUFFICES ASSUME NEW a \in 1..(n - 1) PROVE r[a] \in N!ToSet(s) /\ r[a] # s[i]
    BY <1>3 DEF N!ToSet
  <2> DEFINE f == IF a < i THEN a ELSE a + 1
  <2>1. f \in 1..n /\ f # i /\ r[a] = s[f]
    BY <1>1, <1>4
  <2> QED
    BY <2>1, <1>1 DEF N!IsInjective, N!ToSet
<1>7. N!ToSet(s) \ {s[i]} \subseteq N!ToSet(r)
  <2> SUFFICES ASSUME NEW b \in 1..n, b # i PROVE s[b] \in N!ToSet(r)
    BY <1>1 DEF N!ToSet
  <2> DEFINE a == IF b < i THEN b ELSE b - 1
  <2>1. a \in 1..(n - 1) /\ r[a] = s[b]
    BY <1>1, <1>4
  <2> QED
    BY <2>1, <1>3 DEF N!ToSet
<1> QED
  BY <1>3, <1>5, <1>6, <1>7 DEF r

LEMMA WithAnother ==
  ASSUME NEW Us, NEW s \in Seq(Us), N!IsInjective(s), NEW u \in Us, u \notin N!ToSet(s)
  PROVE  /\ Append(s, u) \in Seq(Us) /\ N!IsInjective(Append(s, u))
            /\ Len(Append(s, u)) = Len(s) + 1
         /\ N!ToSet(Append(s, u)) = N!ToSet(s) \cup {u}
<1> DEFINE r == Append(s, u)   n == Len(s)
<1>1. n \in Nat /\ DOMAIN s = 1..n /\ \A j \in 1..n : s[j] \in Us /\ s[j] # u
  BY DEF N!ToSet
<1>2. r \in Seq(Us) /\ Len(r) = n + 1 /\ DOMAIN r = 1..(n + 1) /\ r[n + 1] = u
      /\ \A j \in 1..n : r[j] = s[j]
  OBVIOUS
<1> HIDE DEF r
<1>3. N!IsInjective(r)
  <2> SUFFICES ASSUME NEW a \in 1..(n + 1), NEW b \in 1..(n + 1), r[a] = r[b] PROVE a = b
    BY <1>2 DEF N!IsInjective
  <2>1. CASE a \in 1..n /\ b \in 1..n
    BY <2>1, <1>1, <1>2 DEF N!IsInjective
  <2> QED
    BY <2>1, <1>1, <1>2
<1>4. N!ToSet(r) = N!ToSet(s) \cup {u}
  <2>1. \A j \in 1..(n + 1) : j = n + 1 \/ j \in 1..n
    BY <1>1
  <2>2. \A j \in 1..n : j \in 1..(n + 1)
    BY <1>1
  <2>3. n + 1 \in 1..(n + 1)
    BY <1>1
  <2> QED
    BY <1>1, <1>2, <2>1, <2>2, <2>3 DEF N!ToSet
<1> QED
  BY <1>2, <1>3, <1>4 DEF r

(* A name leaves the directory, or is written last.                        *)
LEMMA WithoutFacts ==
  ASSUME NEW s \in Seq(N!Names), N!IsInjective(s), NEW n
  PROVE  /\ N!Without(s, n) \in Seq(N!Names) /\ N!IsInjective(N!Without(s, n))
         /\ N!ToSet(N!Without(s, n)) = N!ToSet(s) \ {n}
         /\ Len(N!Without(s, n)) = IF n \in N!ToSet(s) THEN Len(s) - 1 ELSE Len(s)
<1> DEFINE i == CHOOSE j \in DOMAIN s : s[j] = n
<1>1. n \in N!ToSet(s) => i \in DOMAIN s /\ s[i] = n
  BY DEF N!ToSet
<1>2. N!Without(s, n) = IF n \in N!ToSet(s) THEN N!RemoveAt(s, i) ELSE s
  BY DEF N!Without
<1> HIDE DEF i
<1> QED
  BY <1>1, <1>2, WithoutOne

LEMMA NewestFacts ==
  ASSUME dir \in Seq(N!Names), N!IsInjective(dir), NEW n \in N!Names
  PROVE  N!Newest(n) \in Seq(N!Names) /\ N!IsInjective(N!Newest(n))
    /\ N!ToSet(N!Newest(n)) = N!ToSet(dir) \cup {n}
<1> DEFINE rest == N!Without(dir, n)
<1>1. rest \in Seq(N!Names) /\ N!IsInjective(rest) /\ N!ToSet(rest) = N!ToSet(dir) \ {n}
  BY WithoutFacts
<1>2. N!Newest(n) = Append(rest, n)
  BY DEF N!Newest
<1> HIDE DEF rest
<1>3. /\ Append(rest, n) \in Seq(N!Names) /\ N!IsInjective(Append(rest, n))
      /\ N!ToSet(Append(rest, n)) = N!ToSet(rest) \cup {n}
  BY <1>1, WithAnother
<1> QED
  BY <1>1, <1>2, <1>3

(* A temporary file takes the place of the file.                           *)
LEMMA RenamedFacts ==
  ASSUME dir \in Seq(N!Names), N!IsInjective(dir), NEW u \in ThumbLinks, N!Tmp(u) \in N!ToSet(dir)
  PROVE  /\ N!Renamed(u) \in Seq(N!Names) /\ N!IsInjective(N!Renamed(u))
         /\ N!ToSet(N!Renamed(u)) = (N!ToSet(dir) \ {N!Tmp(u)}) \cup {N!File(u)}
<1> DEFINE rest == N!Without(dir, N!File(u))   r == N!Renamed(u)
<1>1. rest \in Seq(N!Names) /\ N!IsInjective(rest) /\ N!ToSet(rest) = N!ToSet(dir) \ {N!File(u)}
  BY WithoutFacts
<1>2. r = [i \in DOMAIN rest |-> IF rest[i] = N!Tmp(u) THEN N!File(u) ELSE rest[i]]
  BY DEF N!Renamed
<1>3. N!File(u) \in N!Names /\ N!File(u) # N!Tmp(u)
  BY NamesDiffer
<1> HIDE DEF rest, r
<1>4. DOMAIN rest = 1..Len(rest) /\ Len(rest) \in Nat /\ \A i \in DOMAIN rest : rest[i] \in N!Names
  <2>1. rest \in Seq(N!Names)
    BY <1>1
  <2>2. DOMAIN rest = 1..Len(rest) /\ Len(rest) \in Nat
    BY <2>1
  <2>3. rest \in [1..Len(rest) -> N!Names]
    BY <2>1
  <2> QED
    BY <2>2, <2>3
<1>5. \A i \in DOMAIN rest : rest[i] # N!File(u)
  BY <1>1 DEF N!ToSet
<1>6. r \in Seq(N!Names) /\ DOMAIN r = DOMAIN rest
      /\ \A i \in DOMAIN rest : r[i] = IF rest[i] = N!Tmp(u) THEN N!File(u) ELSE rest[i]
  <2>1. r \in [1..Len(rest) -> N!Names]
    BY <1>2, <1>3, <1>4
  <2> QED
    BY <1>2, <1>4, <2>1
<1>7. N!IsInjective(r)
  BY <1>1, <1>5, <1>6 DEF N!IsInjective
<1>8. N!ToSet(r) = (N!ToSet(rest) \ {N!Tmp(u)}) \cup {N!File(u)}
  <2>1. PICK k \in DOMAIN rest : rest[k] = N!Tmp(u)
    BY <1>1, <1>3 DEF N!ToSet
  <2>2. N!File(u) \in N!ToSet(r)
    BY <1>6, <2>1 DEF N!ToSet
  <2>3. \A i \in DOMAIN rest : rest[i] # N!Tmp(u) => rest[i] \in N!ToSet(r)
    BY <1>6 DEF N!ToSet
  <2>4. \A i \in DOMAIN rest : r[i] = N!File(u) \/ (r[i] \in N!ToSet(rest) /\ r[i] # N!Tmp(u))
    BY <1>6 DEF N!ToSet
  <2>5. N!ToSet(r) \subseteq (N!ToSet(rest) \ {N!Tmp(u)}) \cup {N!File(u)}
    BY <1>6, <2>4 DEF N!ToSet
  <2>6. N!ToSet(rest) \ {N!Tmp(u)} \subseteq N!ToSet(r)
    BY <2>3 DEF N!ToSet
  <2> QED
    BY <2>2, <2>5, <2>6
<1> QED
  BY <1>1, <1>3, <1>6, <1>7, <1>8 DEF r

(* The first of a list is taken off.                                       *)
LEMMA TailFacts ==
  ASSUME NEW s \in Seq(N!Names), s # << >>
  PROVE  Head(s) \in N!Names /\ Tail(s) \in Seq(N!Names)
    /\ N!ToSet(s) \subseteq N!ToSet(Tail(s)) \cup {Head(s)}
<1>1. Head(s) \in N!Names /\ Tail(s) \in Seq(N!Names) /\ Len(s) \in Nat /\ Len(s) >= 1
      /\ Len(Tail(s)) = Len(s) - 1 /\ Head(s) = s[1]
  OBVIOUS
<1>2. \A j \in 1..(Len(s) - 1) : Tail(s)[j] = s[j + 1]
  OBVIOUS
<1>3. ASSUME NEW j \in 1..Len(s), j # 1 PROVE s[j] \in N!ToSet(Tail(s))
  <2>1. j - 1 \in 1..(Len(s) - 1) /\ (j - 1) + 1 = j
    <3>1. Len(s) \in Nat
      OBVIOUS
    <3> QED
      BY <1>3, <3>1
  <2>2. DOMAIN Tail(s) = 1..Len(Tail(s))
    BY <1>1
  <2>3. DOMAIN Tail(s) = 1..(Len(s) - 1)
    BY <1>1, <2>2
  <2> QED
    BY <1>2, <2>1, <2>3 DEF N!ToSet
<1>4. DOMAIN s = 1..Len(s)
  OBVIOUS
<1> QED
  BY <1>1, <1>3, <1>4 DEF N!ToSet

(* One request is replaced.                                                *)
LEMMA OneReplaced ==
  ASSUME RequestTypes, NEW r \in ThumbReaders, NEW q \in N!Requests,
         (q.link = "none") <=> (q.at \in {"idle", "prune", "remove"}),
         request' = [request EXCEPT ![r] = q]
  PROVE  RequestTypes' /\ \A x \in ThumbReaders : request'[x] = IF x = r THEN q ELSE request[x]
<1>1. \A x \in ThumbReaders : request'[x] = IF x = r THEN q ELSE request[x]
  BY DEF RequestTypes
<1>2. request' \in [ThumbReaders -> N!Requests]
  BY DEF RequestTypes
<1> QED
  BY <1>1, <1>2 DEF RequestTypes, Placed

(* A link is entered.                                                      *)
LEMMA ClassifyKeeps ==
  ASSUME CacheInv, NEW u \in ThumbLinks, NEW before, before = << >> \/ before = thumbs_shown,
         thumbs_messages' \in 0..ThumbMaxMessages, N!Classify(u, before)
  PROVE  CacheInv'
<1>1. UNCHANGED <<request, holds, dir, prune, requests, thumbs_faults>>
  BY DEF N!Classify
<1>2. /\ RequestTypes' /\ CountTypes' /\ DirTypes' /\ PruneTypes' /\ Bounded' /\ WholeFiles'
  BY <1>1 DEF CacheInv, RequestTypes, Placed, CountTypes, DirTypes, PruneTypes, Bounded, Growing,
     Lists,
              N!At, N!Stores, WritesSafely, WholeFiles
<1>3. thumbs_shown' \in Seq(ThumbLinks) /\ Len(thumbs_shown') <= ThumbMaxPerMessage
        /\ N!IsInjective(thumbs_shown')
  <2>1. before \in Seq(ThumbLinks) /\ N!IsInjective(before)
    <3>1. << >> \in Seq(ThumbLinks) /\ DOMAIN << >> = {}
      OBVIOUS
    <3>2. N!IsInjective(<< >>)
      BY <3>1 DEF N!IsInjective
    <3> QED
      BY <3>1, <3>2 DEF CacheInv, RegistryTypes
  <2>2. thumbs_shown' = Append(before, u) /\ Len(before) < ThumbMaxPerMessage
          /\ u \notin N!ToSet(before)
    BY DEF N!Classify
  <2> QED
    BY <2>1, <2>2, WithAnother, ThumbNumbers
<1>4. thumbs_registry' \subseteq ThumbLinks /\ Cardinality(thumbs_registry') <= MAX_REGISTRY_ENTRIES
  <2>1. thumbs_registry \subseteq ThumbLinks /\ Cardinality(thumbs_registry) <= MAX_REGISTRY_ENTRIES
        /\ thumbs_registry' = N!Entered(thumbs_registry, u)
    BY DEF CacheInv, RegistryTypes, N!Classify
  <2>2. IsFiniteSet(thumbs_registry) /\ Cardinality(thumbs_registry) \in Nat
    BY <2>1, ThumbNumbers, FS_Subset, FS_CardinalityType
  <2>3. CASE u \notin ThumbDirect /\ Cardinality(thumbs_registry) >= MAX_REGISTRY_ENTRIES
    <3>1. thumbs_registry' = {u} /\ Cardinality({u}) = 1
      BY <2>1, <2>3, FS_Singleton, ThumbSets DEF N!Entered
    <3> QED
      BY <3>1, ThumbNumbers
  <2>4. CASE u \notin ThumbDirect /\ ~(Cardinality(thumbs_registry) >= MAX_REGISTRY_ENTRIES)
    <3>1. thumbs_registry' = thumbs_registry \cup {u}
      BY <2>1, <2>4, ThumbSets DEF N!Entered
    <3>2. Cardinality(thumbs_registry \cup {u}) = Cardinality(thumbs_registry)
            \/ Cardinality(thumbs_registry \cup {u}) = Cardinality(thumbs_registry) + 1
      BY <2>2, FS_AddElement
    <3> QED
      BY <2>1, <2>2, <2>4, <3>1, <3>2, ThumbNumbers
  <2>5. CASE u \in ThumbDirect
    BY <2>1, <2>5 DEF N!Entered
  <2> QED
    BY <2>3, <2>4, <2>5
<1> QED
  BY <1>2, <1>3, <1>4 DEF CacheInv, RegistryTypes

(* A request comes, goes on to fetch, or is answered without a write.      *)
LEMMA RequestGoesOn ==
  ASSUME CacheInv, NEW r \in ThumbReaders, NEW q \in N!Requests,
    (q.link = "none") <=> (q.at = "idle"),
         q.at \in {"idle", "read", "fetch"}, request[r].at \in {"idle", "read", "fetch"},
         request' = [request EXCEPT ![r] = q], q.got # "part",
         \/ q.link \in {"none", request[r].link} /\ requests' = requests
         \/ requests' = requests + 1 /\ requests < ThumbMaxRequests,
         UNCHANGED <<thumbs_registry, thumbs_shown, holds, dir, prune, thumbs_faults,
                     thumbs_messages>>
  PROVE  CacheInv'
<1>1. RequestTypes' /\ \A x \in ThumbReaders : request'[x] = IF x = r THEN q ELSE request[x]
  BY OneReplaced DEF CacheInv
<1>2. RegistryTypes' /\ DirTypes' /\ PruneTypes'
  BY DEF CacheInv, RegistryTypes, DirTypes, PruneTypes
<1>3. CountTypes'
  BY ThumbNumbers DEF CacheInv, CountTypes
<1>4. Bounded'
  <2>1. Growing => Growing'
    BY <1>1 DEF Growing
  <2>2. \A x \in ThumbReaders : Lists(x) => Lists(x)'
    BY <1>1 DEF Lists, N!At
  <2> QED
    BY <2>1, <2>2 DEF CacheInv, Bounded
<1>5. WholeFiles'
  BY <1>1 DEF CacheInv, WholeFiles, WritesSafely, N!Stores, N!At
<1> QED
  BY <1>1, <1>2, <1>3, <1>4, <1>5 DEF CacheInv

LEMMA PreviewKeeps == ASSUME CacheInv, NEW r \in ThumbReaders, NEW u \in ThumbLinks,
                        N!PreviewHandler(r, u) PROVE CacheInv'
<1> DEFINE q == [at |-> "read", link |-> u, fd |-> "none", got |-> "none"]
<1>1. q \in N!Requests /\ q.link = u /\ q.at = "read" /\ q.got = "none" /\ u # "none"
  BY ThumbNumbers DEF N!Requests, N!Contents, N!Phases
<1>2. /\ request[r].at = "idle" /\ request' = [request EXCEPT ![r] = q]
      /\ requests' = requests + 1 /\ requests < ThumbMaxRequests
      /\ UNCHANGED <<thumbs_registry, thumbs_shown, holds, dir, prune, thumbs_faults,
                     thumbs_messages>>
  BY DEF N!PreviewHandler, N!At, N!Same
<1> HIDE DEF q
<1> QED
  BY <1>1, <1>2, RequestGoesOn

LEMMA OneField ==
  ASSUME NEW p \in N!Requests, NEW at
  PROVE  [p EXCEPT !.at = at] = [at |-> at, link |-> p.link, fd |-> p.fd, got |-> p.got]
BY DEF N!Requests

LEMMA ReadCacheKeeps == ASSUME CacheInv, NEW r \in ThumbReaders, N!ReadCache(r) \/ N!FetchFails(r)
                        PROVE CacheInv'
<1>1. /\ request[r] \in N!Requests /\ request[r].link \in ThumbLinks
         /\ request[r].at \in {"read", "fetch"}
      /\ UNCHANGED <<thumbs_registry, thumbs_shown, holds, dir, prune, requests, thumbs_faults,
                     thumbs_messages>>
  BY DEF CacheInv, RequestTypes, Placed, N!ReadCache, N!FetchFails, N!At, N!Same, N!Requests
<1> DEFINE f == holds[N!File(request[r].link)]
<1>2. f \in N!Contents /\ f # "part"
  BY <1>1, NamesDiffer DEF CacheInv, DirTypes, WholeFiles
<1>3. CASE N!ReadCache(r) /\ f = "none"
  <2> DEFINE q == [at |-> "fetch", link |-> request[r].link, fd |-> request[r].fd,
                   got |-> request[r].got]
  <2>1. q \in N!Requests /\ q.link = request[r].link /\ q.at = "fetch" /\ q.got = request[r].got
    BY <1>1 DEF N!Requests, N!Phases
  <2>2. request' = [request EXCEPT ![r] = q]
    <3>1. request' = [request EXCEPT ![r] = [request[r] EXCEPT !.at = "fetch"]]
      BY <1>3 DEF N!ReadCache, N!Goes
    <3>2. [request[r] EXCEPT !.at = "fetch"] = q
      BY <1>1, OneField
    <3> QED
      BY <3>1, <3>2
  <2>3. q.got # "part"
    BY <2>1 DEF CacheInv, WholeFiles
  <2>4. q.link # "none"
    BY <1>1, <2>1, ThumbNumbers
  <2> HIDE DEF q
  <2> QED
    BY <1>1, <2>1, <2>2, <2>3, <2>4, RequestGoesOn
<1>4. ASSUME NEW g \in N!Contents, g # "part", request' = [request EXCEPT ![r] = N!Idle(g)]
      PROVE  CacheInv'
  <2> DEFINE q == N!Idle(g)
  <2>1. q \in N!Requests /\ q.link = "none" /\ q.at = "idle" /\ q.got = g
    BY DEF N!Requests, N!Idle, N!Phases
  <2>2. request' = [request EXCEPT ![r] = q]
    BY <1>4
  <2> HIDE DEF q
  <2> QED
    BY <1>1, <1>4, <2>1, <2>2, RequestGoesOn
<1>5. "none" \in N!Contents /\ "none" # "part"
  BY DEF N!Contents
<1>6. \/ N!ReadCache(r) /\ f = "none"
      \/ request' = [request EXCEPT ![r] = N!Idle(f)]
      \/ request' = [request EXCEPT ![r] = N!Idle("none")]
  BY DEF N!ReadCache, N!FetchFails
<1> HIDE DEF f
<1> QED
  BY <1>2, <1>3, <1>4, <1>5, <1>6

(* A request that is about a link writes or renames: the parts that do not *)
(* depend on what it does to the directory.                                *)
LEMMA GrowingKeeps ==
  ASSUME CacheInv, NEW r \in ThumbReaders, request'[r].at \in {"write", "rename", "prune"},
         UNCHANGED <<thumbs_registry, thumbs_shown, thumbs_messages, requests, thumbs_faults,
                     prune>>
  PROVE  RegistryTypes' /\ CountTypes' /\ PruneTypes' /\ Bounded'
BY DEF CacheInv, RegistryTypes, CountTypes, PruneTypes, Bounded, Growing

(* A temporary file is begun.                                              *)
LEMMA BeginKeeps ==
  ASSUME CacheInv, NEW r \in ThumbReaders, NEW u \in ThumbLinks, u = request[r].link,
    N!WriteBegins(r) PROVE CacheInv'
<1> DEFINE q == [at |-> "write", link |-> u, fd |-> "tmp", got |-> request[r].got]
           c == N!Begun(r, u)
<1>1. /\ request[r].at = "fetch" /\ holds' = [holds EXCEPT ![N!Tmp(u)] = c]
         /\ dir' = N!Newest(N!Tmp(u))
      /\ request' = [request EXCEPT ![r].at = "write", ![r].fd = "tmp"]
      /\ UNCHANGED <<thumbs_registry, thumbs_shown, thumbs_messages, requests, thumbs_faults,
                     prune>>
  BY DEF N!WriteBegins, N!At, N!Same
<1>2. request[r] \in N!Requests /\ u # "none"
  BY ThumbNumbers DEF CacheInv, RequestTypes
<1>3. q \in N!Requests /\ q.link = u /\ q.at = "write" /\ q.fd = "tmp" /\ q.got = request[r].got
  BY <1>2 DEF N!Requests, N!Phases
<1>4. request' = [request EXCEPT ![r] = q]
  <2>1. ASSUME NEW p \in N!Requests
        PROVE  [[p EXCEPT !.at = "write"] EXCEPT !.fd = "tmp"]
                 = [at |-> "write", link |-> p.link, fd |-> "tmp", got |-> p.got]
    <3>1. [p EXCEPT !.at = "write"] = [at |-> "write", link |-> p.link, fd |-> p.fd, got |-> p.got]
      BY <2>1, OneField
    <3>2. [[at |-> "write", link |-> p.link, fd |-> p.fd, got |-> p.got] EXCEPT !.fd = "tmp"]
            = [at |-> "write", link |-> p.link, fd |-> "tmp", got |-> p.got]
      OBVIOUS
    <3> QED
      BY <3>1, <3>2
  <2>2. request' = [request EXCEPT ![r] = [[request[r] EXCEPT !.at = "write"] EXCEPT !.fd = "tmp"]]
    BY <1>1 DEF CacheInv, RequestTypes
  <2> QED
    BY <1>2, <2>1, <2>2
<1>a. /\ c \in {"part", "torn"}
      /\ \A x \in ThumbReaders : x # r /\ N!Stores(x, u) => c = "torn"
  BY DEF N!Begun
<1> HIDE DEF q, c
<1>5. RequestTypes' /\ \A x \in ThumbReaders : request'[x] = IF x = r THEN q ELSE request[x]
  BY <1>2, <1>3, <1>4, OneReplaced DEF CacheInv
<1>6. RegistryTypes' /\ CountTypes' /\ PruneTypes' /\ Bounded'
  BY <1>1, <1>3, <1>5, GrowingKeeps
<1>7. DirTypes'
  <2>1. N!Tmp(u) \in N!Names /\ c \in N!Contents /\ c # "none"
    BY <1>a, NamesDiffer DEF N!Contents
  <2>2. dir' \in Seq(N!Names) /\ N!IsInjective(dir') /\ N!ToSet(dir') = N!ToSet(dir) \cup {N!Tmp(u)}
    BY <1>1, <2>1, NewestFacts DEF CacheInv, DirTypes
  <2>3. holds' \in [N!Names -> N!Contents] /\ \A n \in N!Names : holds'[n] = IF n = N!Tmp(u)
          THEN c ELSE holds[n]
    BY <1>1, <2>1 DEF CacheInv, DirTypes
  <2> QED
    BY <2>1, <2>2, <2>3 DEF CacheInv, DirTypes
<1>8. /\ \A v \in ThumbLinks : holds'[N!File(v)] = holds[N!File(v)]
                               /\ (v # u => holds'[N!Tmp(v)] = holds[N!Tmp(v)])
      /\ holds'[N!Tmp(u)] = c
  BY <1>1, NamesDiffer DEF CacheInv, DirTypes
<1>9. WholeFiles'
  <2>1. ASSUME NEW x \in ThumbReaders, x # r PROVE WritesSafely(x)'
    <3>1. request'[x] = request[x] /\ WritesSafely(x)
      BY <1>5, <2>1 DEF CacheInv, WholeFiles
    <3>2. request[x].at \in {"write", "rename"} => request[x].link \in ThumbLinks
      BY DEF CacheInv, RequestTypes, Placed, N!Requests
    <3>3. CASE request[x].link = u /\ request[x].at \in {"write", "rename"}
      <4>1. c = "torn"
        BY <1>a, <2>1, <3>3 DEF N!Stores
      <4> QED
        BY <1>8, <3>1, <3>3, <4>1 DEF WritesSafely, N!At
    <3>4. CASE request[x].link # u \/ request[x].at \notin {"write", "rename"}
      BY <1>8, <3>1, <3>2, <3>4 DEF WritesSafely, N!At
    <3> QED
      BY <3>3, <3>4
  <2>2. WritesSafely(r)'
    BY <1>3, <1>5, <1>8, <1>a DEF WritesSafely, N!At
  <2>3. ASSUME NEW x \in ThumbReaders, NEW y \in ThumbReaders, NEW v \in ThumbLinks,
               x # y, N!Stores(x, v)', N!Stores(y, v)'
        PROVE  holds'[N!Tmp(v)] \in {"torn", "none"}
    <3>1. CASE v = u
      <4>1. PICK z \in ThumbReaders \ {r} : N!Stores(z, u)'
        BY <2>3, <3>1
      <4>2. N!Stores(z, u)
        BY <1>5, <4>1 DEF N!Stores
      <4> QED
        BY <1>8, <1>a, <3>1, <4>1, <4>2
    <3>2. CASE v # u
      <4>1. x # r /\ y # r
        BY <1>3, <1>5, <2>3, <3>2 DEF N!Stores
      <4>2. N!Stores(x, v) /\ N!Stores(y, v)
        BY <1>5, <2>3, <4>1 DEF N!Stores
      <4> QED
        BY <1>8, <2>3, <3>2, <4>2 DEF CacheInv, WholeFiles
    <3> QED
      BY <3>1, <3>2
  <2>4. \A x \in ThumbReaders : request'[x].got # "part"
    BY <1>3, <1>5 DEF CacheInv, WholeFiles
  <2>5. \A v \in ThumbLinks : holds'[N!File(v)] # "part"
    BY <1>8 DEF CacheInv, WholeFiles
  <2> QED
    BY <2>1, <2>2, <2>3, <2>4, <2>5 DEF WholeFiles
<1> QED
  BY <1>5, <1>6, <1>7, <1>9 DEF CacheInv

(* What was begun is written to its end, wherever it is by then.           *)
LEMMA EndKeepsCache ==
  ASSUME CacheInv, NEW r \in ThumbReaders, NEW u \in ThumbLinks, u = request[r].link,
    N!WriteEnds(r) PROVE CacheInv'
<1> DEFINE n == <<u, request[r].fd>>
           c == IF holds[n] = "torn" THEN "torn" ELSE "whole"
           q == [at |-> "rename", link |-> u, fd |-> request[r].fd, got |-> request[r].got]
<1>1. /\ request[r].at = "write" /\ request' = [request EXCEPT ![r].at = "rename"]
      /\ n \in N!Names => holds' = [holds EXCEPT ![n] = c] /\ dir' = N!Newest(n)
      /\ n \notin N!Names => UNCHANGED <<holds, dir>>
      /\ UNCHANGED <<thumbs_registry, thumbs_shown, thumbs_messages, requests, thumbs_faults,
                     prune>>
  BY DEF N!WriteEnds, N!At, N!Goes, N!Same
<1>2. request[r] \in N!Requests /\ u # "none"
  BY ThumbNumbers DEF CacheInv, RequestTypes
<1>3. q \in N!Requests /\ q.link = u /\ q.at = "rename" /\ q.fd = request[r].fd
        /\ q.got = request[r].got
  BY <1>2 DEF N!Requests, N!Phases
<1>4. request' = [request EXCEPT ![r] = q]
  <2>1. request' = [request EXCEPT ![r] = [request[r] EXCEPT !.at = "rename"]]
    BY <1>1
  <2>2. [request[r] EXCEPT !.at = "rename"] = q
    BY <1>2, OneField
  <2> QED
    BY <2>1, <2>2
<1>5. c \in N!Contents /\ c # "none"
  BY DEF N!Contents
<1>6. c \in {"torn", "whole"} /\ (holds[n] = "torn" => c = "torn")
  OBVIOUS
<1> HIDE DEF q, c
<1>7. RequestTypes' /\ \A x \in ThumbReaders : request'[x] = IF x = r THEN q ELSE request[x]
  BY <1>2, <1>3, <1>4, OneReplaced DEF CacheInv
<1>8. RegistryTypes' /\ CountTypes' /\ PruneTypes' /\ Bounded'
  BY <1>1, <1>3, <1>7, GrowingKeeps
<1>9. DirTypes'
  <2>1. CASE n \in N!Names
    <3>1. dir' \in Seq(N!Names) /\ N!IsInjective(dir') /\ N!ToSet(dir') = N!ToSet(dir) \cup {n}
      BY <1>1, <2>1, NewestFacts DEF CacheInv, DirTypes
    <3>2. holds' \in [N!Names -> N!Contents] /\ \A m \in N!Names : holds'[m] = IF m = n THEN c
            ELSE holds[m]
      BY <1>1, <1>5, <2>1 DEF CacheInv, DirTypes
    <3> QED
      BY <1>5, <2>1, <3>1, <3>2 DEF CacheInv, DirTypes
  <2>2. CASE n \notin N!Names
    BY <1>1, <2>2 DEF CacheInv, DirTypes
  <2> QED
    BY <2>1, <2>2
<1>10. WritesSafely(r) /\ request'[r] = q
  BY <1>7 DEF CacheInv, WholeFiles
<1>11. \A x \in ThumbReaders : request[x].at \in {"write", "rename"} => request[x].link \in ThumbLinks
  BY DEF CacheInv, RequestTypes, Placed, N!Requests
<1>12. \A v \in ThumbLinks : v # u => /\ holds'[N!File(v)] = holds[N!File(v)]
                                    /\ holds'[N!Tmp(v)] = holds[N!Tmp(v)]
  <2>1. CASE n \in N!Names
    <3>1. \A m \in N!Names : m # n => holds'[m] = holds[m]
      BY <1>1, <2>1 DEF CacheInv, DirTypes
    <3>2. \A v \in ThumbLinks : v # u => N!File(v) # n /\ N!Tmp(v) # n
      BY DEF N!File, N!Tmp
    <3> QED
      BY <3>1, <3>2, NamesDiffer
  <2>2. CASE n \notin N!Names
    BY <1>1, <2>2
  <2> QED
    BY <2>1, <2>2
(* The names of the link itself: of the two one is written, if any.        *)
<1>13. /\ holds'[N!File(u)] = holds[N!File(u)] \/ (holds'[N!File(u)] = "torn" /\ holds[N!File(u)] = "torn")
       /\ holds'[N!Tmp(u)] # "part"
       /\ \/ holds'[N!Tmp(u)] = holds[N!Tmp(u)]
          \/ request[r].fd = "tmp" /\ holds[N!Tmp(u)] \in {"part", "torn"}
       /\ holds[N!Tmp(u)] = "torn" => holds'[N!Tmp(u)] = "torn"
  <2>1. CASE request[r].fd = "tmp" /\ holds[N!Tmp(u)] \in {"part", "torn"}
    <3>1. n = N!Tmp(u) /\ n \in N!Names
      BY <2>1, NamesDiffer DEF N!Tmp
    <3>2. \A m \in N!Names : holds'[m] = IF m = N!Tmp(u) THEN c ELSE holds[m]
      BY <1>1, <3>1 DEF CacheInv, DirTypes
    <3> QED
      BY <1>6, <2>1, <3>1, <3>2, NamesDiffer
  <2>2. CASE request[r].fd = "file" /\ holds[N!Tmp(u)] # "part" /\ holds[N!File(u)] = "torn"
    <3>1. n = N!File(u) /\ n \in N!Names
      BY <2>2, NamesDiffer DEF N!File
    <3>2. \A m \in N!Names : holds'[m] = IF m = N!File(u) THEN c ELSE holds[m]
      BY <1>1, <3>1 DEF CacheInv, DirTypes
    <3> QED
      BY <1>6, <2>2, <3>1, <3>2, NamesDiffer
  <2>3. CASE request[r].fd = "gone" /\ holds[N!Tmp(u)] # "part"
    <3>1. n \notin N!Names
      BY <2>3, NamesDiffer
    <3> QED
      BY <1>1, <2>3, <3>1
  <2> QED
    BY <1>1, <1>10, <2>1, <2>2, <2>3 DEF WritesSafely, N!At
<1>14. WholeFiles'
  <2>1. \A x, y \in ThumbReaders, v \in ThumbLinks :
          x # y /\ N!Stores(x, v)' /\ N!Stores(y, v)' => holds[N!Tmp(v)] \in {"torn", "none"}
    <3>1. \A x \in ThumbReaders, v \in ThumbLinks : N!Stores(x, v)' => N!Stores(x, v)
      BY <1>1, <1>3, <1>7 DEF N!Stores
    <3> QED
      BY <3>1 DEF CacheInv, WholeFiles
  <2>2. \A v \in ThumbLinks : holds[N!Tmp(v)] \in {"torn", "none"} => holds'[N!Tmp(v)] = holds[N!Tmp(v)]
    BY <1>12, <1>13
  <2>3. ASSUME NEW x \in ThumbReaders, x # r PROVE WritesSafely(x)'
    <3>1. request'[x] = request[x] /\ WritesSafely(x)
      BY <1>7, <2>3 DEF CacheInv, WholeFiles
    <3>2. CASE request[x].link = u /\ request[x].at \in {"write", "rename"}
      <4>1. N!Stores(x, u) /\ N!Stores(r, u)
        BY <1>1, <3>2 DEF N!Stores
      <4>2. holds[N!Tmp(u)] \in {"torn", "none"}
        BY <2>3, <4>1 DEF CacheInv, WholeFiles
      <4>3. holds'[N!Tmp(u)] = holds[N!Tmp(u)]
        BY <2>2, <4>2
      <4> QED
        BY <1>13, <3>1, <3>2, <4>3 DEF WritesSafely, N!At
    <3>3. CASE request[x].link # u \/ request[x].at \notin {"write", "rename"}
      BY <1>11, <1>12, <3>1, <3>3 DEF WritesSafely, N!At
    <3> QED
      BY <3>2, <3>3
  <2>4. WritesSafely(r)'
    BY <1>3, <1>10, <1>13 DEF WritesSafely, N!At
  <2>5. \A x \in ThumbReaders : request'[x].got # "part"
    BY <1>3, <1>7 DEF CacheInv, WholeFiles
  <2>6. \A v \in ThumbLinks : holds'[N!File(v)] # "part"
    BY <1>12, <1>13 DEF CacheInv, WholeFiles
  <2> QED
    BY <2>1, <2>2, <2>3, <2>4, <2>5, <2>6 DEF WholeFiles
<1> QED
  BY <1>7, <1>8, <1>9, <1>14 DEF CacheInv

(* A request whose file cannot be written is answered and prunes.          *)
LEMMA FailKeeps == ASSUME CacheInv, NEW r \in ThumbReaders, N!WriteFails(r) PROVE CacheInv'
<1> DEFINE q == [at |-> "prune", link |-> "none", fd |-> "none", got |-> "whole"]
<1>1. /\ request' = [request EXCEPT ![r] = q]
      /\ UNCHANGED <<thumbs_registry, thumbs_shown, thumbs_messages, requests, thumbs_faults,
                     prune, holds, dir>>
  BY DEF N!WriteFails, N!Prunes, N!Same
<1>2. q \in N!Requests /\ q.link = "none" /\ q.at = "prune" /\ q.got = "whole"
  BY DEF N!Requests, N!Phases, N!Contents
<1> HIDE DEF q
<1>3. RequestTypes' /\ \A x \in ThumbReaders : request'[x] = IF x = r THEN q ELSE request[x]
  BY <1>1, <1>2, OneReplaced DEF CacheInv
<1>4. RegistryTypes' /\ CountTypes' /\ PruneTypes' /\ Bounded'
  BY <1>1, <1>2, <1>3, GrowingKeeps
<1>5. DirTypes'
  BY <1>1 DEF CacheInv, DirTypes
<1>6. WholeFiles'
  BY <1>1, <1>2, <1>3 DEF CacheInv, WholeFiles, WritesSafely, N!Stores, N!At
<1> QED
  BY <1>3, <1>4, <1>5, <1>6 DEF CacheInv

(* Who writes a name goes on writing what it was.                          *)
LEMMA ReopenedFacts ==
  ASSUME NEW f \in [ThumbReaders -> N!Requests], NEW n, NEW to \in {"file", "gone"}
  PROVE  /\ N!Reopened(f, n, to) \in [ThumbReaders -> N!Requests]
         /\ \A x \in ThumbReaders :
              /\ N!Reopened(f, n, to)[x].at = f[x].at /\ N!Reopened(f, n, to)[x].link = f[x].link
              /\ N!Reopened(f, n, to)[x].got = f[x].got
              /\ N!Reopened(f, n, to)[x].fd =
                   IF f[x].at = "write" /\ <<f[x].link, f[x].fd>> = n THEN to ELSE f[x].fd
<1>1. \A x \in ThumbReaders : N!Reopened(f, n, to)[x] =
        IF f[x].at = "write" /\ <<f[x].link, f[x].fd>> = n THEN [f[x] EXCEPT !.fd = to] ELSE f[x]
  BY DEF N!Reopened
<1>2. ASSUME NEW p \in N!Requests
      PROVE  /\ [p EXCEPT !.fd = to] \in N!Requests /\ [p EXCEPT !.fd = to].at = p.at
             /\ [p EXCEPT !.fd = to].link = p.link /\ [p EXCEPT !.fd = to].got = p.got
             /\ [p EXCEPT !.fd = to].fd = to
  BY DEF N!Requests
<1>3. ASSUME NEW x \in ThumbReaders
      PROVE  LET m == N!Reopened(f, n, to)[x] IN
               /\ m \in N!Requests /\ m.at = f[x].at /\ m.link = f[x].link /\ m.got = f[x].got
               /\ m.fd = IF f[x].at = "write" /\ <<f[x].link, f[x].fd>> = n THEN to ELSE f[x].fd
  <2> DEFINE m == N!Reopened(f, n, to)[x]
  <2>1. f[x] \in N!Requests
    OBVIOUS
  <2>2. CASE f[x].at = "write" /\ <<f[x].link, f[x].fd>> = n
    <3>1. m = [f[x] EXCEPT !.fd = to]
      BY <1>1, <2>2
    <3> QED
      BY <1>2, <2>1, <2>2, <3>1
  <2>3. CASE ~(f[x].at = "write" /\ <<f[x].link, f[x].fd>> = n)
    <3>1. m = f[x]
      BY <1>1, <2>3
    <3> QED
      BY <2>1, <2>3, <3>1
  <2> QED
    BY <2>2, <2>3
<1>4. N!Reopened(f, n, to) \in [ThumbReaders -> N!Requests]
  <2>1. N!Reopened(f, n, to) = [x \in ThumbReaders |-> N!Reopened(f, n, to)[x]]
    BY DEF N!Reopened
  <2> QED
    BY <1>3, <2>1
<1> QED
  BY <1>3, <1>4

(* A file takes its place.                                                 *)
LEMMA RenameKeeps ==
  ASSUME CacheInv, NEW r \in ThumbReaders, NEW u \in ThumbLinks, u = request[r].link, N!Rename(r)
  PROVE CacheInv'
<1> DEFINE once == N!Reopened(request, N!File(u), "gone")
           moved == IF holds[N!Tmp(u)] = "none" THEN request ELSE N!Reopened(once, N!Tmp(u), "file")
           q == [at |-> "prune", link |-> "none", fd |-> "none", got |-> "whole"]
<1>1. /\ request[r].at = "rename" /\ request' = [moved EXCEPT ![r] = q]
      /\ holds[N!Tmp(u)] = "none" => UNCHANGED <<holds, dir>>
      /\ holds[N!Tmp(u)] # "none" =>
           /\ holds' = [n \in N!Names |-> IF n = N!File(u) THEN holds[N!Tmp(u)]
                                          ELSE IF n = N!Tmp(u) THEN "none" ELSE holds[n]]
           /\ dir' = N!Renamed(u)
      /\ UNCHANGED <<thumbs_registry, thumbs_shown, thumbs_messages, requests, thumbs_faults,
                     prune>>
  BY DEF N!Rename, N!At, N!Prunes, N!Same
<1>2. q \in N!Requests /\ q.link = "none" /\ q.at = "prune" /\ q.got = "whole"
  BY DEF N!Requests, N!Phases, N!Contents
<1>3. u # "none" /\ request \in [ThumbReaders -> N!Requests]
  BY ThumbNumbers DEF CacheInv, RequestTypes
<1>4. /\ moved \in [ThumbReaders -> N!Requests]
      /\ \A x \in ThumbReaders : /\ moved[x].at = request[x].at /\ moved[x].link = request[x].link
                                 /\ moved[x].got = request[x].got
                                 /\ request[x].link # u => moved[x].fd = request[x].fd
  <2>1. /\ once \in [ThumbReaders -> N!Requests]
        /\ \A x \in ThumbReaders : /\ once[x].at = request[x].at /\ once[x].link = request[x].link
                                   /\ once[x].got = request[x].got
                                   /\ request[x].link # u => once[x].fd = request[x].fd
    BY <1>3, ReopenedFacts DEF N!File
  <2> HIDE DEF once
  <2>2. LET twice == N!Reopened(once, N!Tmp(u), "file") IN
          /\ twice \in [ThumbReaders -> N!Requests]
          /\ \A x \in ThumbReaders : /\ twice[x].at = once[x].at /\ twice[x].link = once[x].link
                                     /\ twice[x].got = once[x].got
                                     /\ once[x].link # u => twice[x].fd = once[x].fd
    BY <2>1, ReopenedFacts DEF N!Tmp
  <2> QED
    BY <1>3, <2>1, <2>2
<1> HIDE DEF moved, q
<1>5. request' \in [ThumbReaders -> N!Requests] /\ \A x \in ThumbReaders : request'[x] = IF x = r
        THEN q ELSE moved[x]
  BY <1>1, <1>2, <1>4
<1>6. RequestTypes'
  BY <1>2, <1>4, <1>5 DEF CacheInv, RequestTypes, Placed
<1>7. RegistryTypes' /\ CountTypes' /\ PruneTypes' /\ Bounded'
  BY <1>1, <1>2, <1>5, GrowingKeeps
<1>8. DirTypes'
  <2>1. CASE holds[N!Tmp(u)] = "none"
    BY <1>1, <2>1 DEF CacheInv, DirTypes
  <2>2. CASE holds[N!Tmp(u)] # "none"
    <3>1. N!File(u) \in N!Names /\ N!Tmp(u) \in N!Names /\ N!File(u) # N!Tmp(u)
      BY NamesDiffer
    <3>2. N!Tmp(u) \in N!ToSet(dir) /\ holds[N!Tmp(u)] \in N!Contents /\ "none" \in N!Contents
      BY <2>2, <3>1 DEF CacheInv, DirTypes, N!Contents
    <3>3. dir' \in Seq(N!Names) /\ N!IsInjective(dir')
            /\ N!ToSet(dir') = (N!ToSet(dir) \ {N!Tmp(u)}) \cup {N!File(u)}
      BY <1>1, <2>2, <3>2, RenamedFacts DEF CacheInv, DirTypes
    <3>4. /\ holds' \in [N!Names -> N!Contents]
          /\ \A n \in N!Names : holds'[n] = IF n = N!File(u) THEN holds[N!Tmp(u)]
                                            ELSE IF n = N!Tmp(u) THEN "none" ELSE holds[n]
      BY <1>1, <2>2, <3>2 DEF CacheInv, DirTypes
    <3> QED
      BY <2>2, <3>1, <3>3, <3>4 DEF CacheInv, DirTypes
  <2> QED
    BY <2>1, <2>2
<1>9. /\ WritesSafely(r) /\ N!Stores(r, u)
      /\ \A x \in ThumbReaders : request[x].at \in {"write", "rename"} => request[x].link \in ThumbLinks
  BY <1>1 DEF CacheInv, WholeFiles, RequestTypes, Placed, N!Requests, N!Stores
<1>10. /\ \A v \in ThumbLinks : v # u => /\ holds'[N!File(v)] = holds[N!File(v)]
                                        /\ holds'[N!Tmp(v)] = holds[N!Tmp(v)]
       /\ holds'[N!Tmp(u)] = "none"
       /\ holds'[N!File(u)] = IF holds[N!Tmp(u)] = "none" THEN holds[N!File(u)]
                              ELSE holds[N!Tmp(u)]
  BY <1>1, NamesDiffer
<1>11. holds[N!Tmp(u)] # "part"
  BY <1>1, <1>9 DEF WritesSafely, N!At
(* Whoever else writes the link: its temporary file is now the file.       *)
<1>12. ASSUME NEW x \in ThumbReaders, x # r, request[x].at = "write", request[x].link = u
       PROVE  \/ moved[x].fd = "gone"
              \/ moved[x].fd = "file" /\ holds'[N!File(u)] = "torn"
  <2>1. holds[N!Tmp(u)] \in {"torn", "none"} /\ WritesSafely(x)
    BY <1>9, <1>12 DEF CacheInv, WholeFiles, N!Stores
  <2>2. CASE holds[N!Tmp(u)] = "none"
    <3>1. moved = request
      BY <2>2 DEF moved
    <3> QED
      BY <1>10, <1>12, <2>1, <2>2, <3>1 DEF WritesSafely, N!At
  <2>3. CASE holds[N!Tmp(u)] = "torn"
    <3>1. moved = N!Reopened(once, N!Tmp(u), "file")
      BY <2>3 DEF moved
    <3>2. /\ once \in [ThumbReaders -> N!Requests]
          /\ once[x].at = "write" /\ once[x].link = u
          /\ once[x].fd = IF <<u, request[x].fd>> = N!File(u) THEN "gone" ELSE request[x].fd
      BY <1>3, <1>12, ReopenedFacts
    <3> HIDE DEF once
    <3>3. moved[x].fd = IF <<u, once[x].fd>> = N!Tmp(u) THEN "file" ELSE once[x].fd
      BY <3>1, <3>2, ReopenedFacts
    <3>4. request[x].fd \in {"tmp", "file", "gone"}
      BY <1>12, <2>1 DEF WritesSafely, N!At
    <3> QED
      BY <1>10, <2>3, <3>2, <3>3, <3>4 DEF N!File, N!Tmp
  <2> QED
    BY <2>1, <2>2, <2>3
<1>13. WholeFiles'
  <2>1. ASSUME NEW x \in ThumbReaders PROVE WritesSafely(x)'
    <3>1. CASE x = r
      BY <1>2, <1>5, <3>1 DEF WritesSafely, N!At
    <3>2. CASE x # r /\ request[x].link = u
      <4>1. request'[x].at = request[x].at /\ request'[x].link = u /\ request'[x].fd = moved[x].fd
        BY <1>4, <1>5, <3>2
      <4> QED
        BY <1>10, <1>12, <3>2, <4>1 DEF WritesSafely, N!At
    <3>3. CASE x # r /\ request[x].link # u
      <4>1. /\ request'[x].at = request[x].at /\ request'[x].link = request[x].link
            /\ request'[x].fd = request[x].fd /\ WritesSafely(x)
        BY <1>4, <1>5, <3>3 DEF CacheInv, WholeFiles
      <4> QED
        BY <1>9, <1>10, <3>3, <4>1 DEF WritesSafely, N!At
    <3> QED
      BY <3>1, <3>2, <3>3
  <2>2. ASSUME NEW x \in ThumbReaders, NEW y \in ThumbReaders, NEW v \in ThumbLinks,
               x # y, N!Stores(x, v)', N!Stores(y, v)'
        PROVE  holds'[N!Tmp(v)] \in {"torn", "none"}
    <3>1. N!Stores(x, v) /\ N!Stores(y, v)
      BY <1>2, <1>4, <1>5, <2>2 DEF N!Stores
    <3>2. holds[N!Tmp(v)] \in {"torn", "none"}
      BY <2>2, <3>1 DEF CacheInv, WholeFiles
    <3> QED
      BY <1>10, <3>2
  <2>3. \A x \in ThumbReaders : request'[x].got # "part"
    BY <1>2, <1>4, <1>5 DEF CacheInv, WholeFiles
  <2>4. \A v \in ThumbLinks : holds'[N!File(v)] # "part"
    BY <1>10, <1>11 DEF CacheInv, WholeFiles
  <2> QED
    BY <2>1, <2>2, <2>3, <2>4 DEF WholeFiles
<1> QED
  BY <1>6, <1>7, <1>8, <1>13 DEF CacheInv

(* The directory is listed before anything is removed.                     *)
LEMMA PruneReadsKeeps == ASSUME CacheInv, NEW r \in ThumbReaders, N!PruneReads(r) PROVE CacheInv'
<1> DEFINE q == [at |-> "remove", link |-> request[r].link, fd |-> request[r].fd, got |-> request[r].got]
           p == [list |-> dir, over |-> Len(dir) - ThumbCacheMax]
<1>1. /\ request[r].at = "prune" /\ request' = [request EXCEPT ![r].at = "remove"]
      /\ prune' = [prune EXCEPT ![r] = p]
      /\ UNCHANGED <<thumbs_registry, thumbs_shown, thumbs_messages, requests, thumbs_faults,
                     holds, dir>>
  BY DEF N!PruneReads, N!At, N!Goes, N!Same
<1>2. request[r] \in N!Requests /\ request[r].link = "none"
  BY <1>1 DEF CacheInv, RequestTypes, Placed
<1>3. q \in N!Requests /\ q.link = "none" /\ q.at = "remove" /\ q.got = request[r].got
  BY <1>2 DEF N!Requests, N!Phases
<1>4. request' = [request EXCEPT ![r] = q]
  <2>1. request' = [request EXCEPT ![r] = [request[r] EXCEPT !.at = "remove"]]
    BY <1>1
  <2>2. [request[r] EXCEPT !.at = "remove"] = q
    BY <1>2, OneField
  <2> QED
    BY <2>1, <2>2
<1>5. p \in [list : Seq(N!Names), over : Int] /\ p.list = dir /\ p.over = Len(dir) - ThumbCacheMax
  BY ThumbNumbers DEF CacheInv, DirTypes
<1> HIDE DEF p, q
<1>6. RequestTypes' /\ \A x \in ThumbReaders : request'[x] = IF x = r THEN q ELSE request[x]
  BY <1>2, <1>3, <1>4, OneReplaced DEF CacheInv
<1>7. PruneTypes' /\ prune'[r] = p
  BY <1>1, <1>5 DEF CacheInv, PruneTypes
<1>8. RegistryTypes' /\ CountTypes' /\ DirTypes'
  BY <1>1 DEF CacheInv, RegistryTypes, CountTypes, DirTypes
<1>9. Bounded'
  <2>1. Len(dir) \in Nat
    BY DEF CacheInv, DirTypes
  <2>2. Len(dir) - ThumbCacheMax <= p.over
    BY <1>5, <2>1, ThumbNumbers
  <2>3. Lists(r)'
    BY <1>1, <1>3, <1>5, <1>6, <1>7, <2>2 DEF Lists, N!At
  <2> QED
    BY <2>3 DEF Bounded
<1>10. WholeFiles'
  BY <1>1, <1>2, <1>3, <1>6 DEF CacheInv, WholeFiles, WritesSafely, N!Stores, N!At
<1> QED
  BY <1>6, <1>7, <1>8, <1>9, <1>10 DEF CacheInv

(* A name of the list is removed, or was no longer there.                  *)
LEMMA PruneRemovesKeeps == ASSUME CacheInv, NEW r \in ThumbReaders, N!PruneRemoves(r)
                           PROVE CacheInv'
<1> DEFINE l == prune[r].list   n == Head(l)   k == prune[r].over
           less == IF holds[n] = "none" THEN k ELSE k - 1
           p == [list |-> Tail(l), over |-> less]
<1>1. /\ request[r].at = "remove" /\ k > 0 /\ l # << >> /\ prune' = [prune EXCEPT ![r] = p]
      /\ holds[n] = "none" => UNCHANGED <<request, holds, dir>>
      /\ holds[n] # "none" => /\ holds' = [holds EXCEPT ![n] = "none"] /\ dir' = N!Without(dir, n)
                              /\ request' = N!Reopened(request, n, "gone")
      /\ UNCHANGED <<thumbs_registry, thumbs_shown, thumbs_messages, requests, thumbs_faults>>
  BY DEF N!PruneRemoves, N!At, N!Same
<1>2. l \in Seq(N!Names) /\ k \in Int /\ request \in [ThumbReaders -> N!Requests]
  BY DEF CacheInv, PruneTypes, RequestTypes
<1>3. n \in N!Names /\ Tail(l) \in Seq(N!Names) /\ N!ToSet(l) \subseteq N!ToSet(Tail(l)) \cup {n}
  BY <1>1, <1>2, TailFacts
<1>4. p \in [list : Seq(N!Names), over : Int] /\ p.list = Tail(l) /\ p.over = less
  BY <1>2, <1>3
<1> HIDE DEF n, p, less
<1>5. PruneTypes' /\ \A x \in ThumbReaders : prune'[x] = IF x = r THEN p ELSE prune[x]
  BY <1>1, <1>4 DEF CacheInv, PruneTypes
<1>6. /\ request' \in [ThumbReaders -> N!Requests]
      /\ \A x \in ThumbReaders :
           /\ request'[x].at = request[x].at /\ request'[x].link = request[x].link
           /\ request'[x].got = request[x].got
           /\ request'[x].fd = IF /\ holds[n] # "none" /\ request[x].at = "write"
                                  /\ <<request[x].link, request[x].fd>> = n
                               THEN "gone" ELSE request[x].fd
  <2>1. CASE holds[n] = "none"
    BY <1>1, <1>2, <2>1
  <2>2. CASE holds[n] # "none"
    BY <1>1, <1>2, <2>2, ReopenedFacts
  <2> QED
    BY <2>1, <2>2
<1>7. RequestTypes'
  BY <1>6 DEF CacheInv, RequestTypes, Placed
<1>8. /\ dir' \in Seq(N!Names) /\ N!IsInjective(dir') /\ N!ToSet(dir') = N!ToSet(dir) \ {n}
      /\ Len(dir') = IF holds[n] = "none" THEN Len(dir) ELSE Len(dir) - 1
      /\ holds' \in [N!Names -> N!Contents]
      /\ \A m \in N!Names : holds'[m] = IF m = n THEN "none" ELSE holds[m]
  <2>1. /\ dir \in Seq(N!Names) /\ N!IsInjective(dir)
           /\ N!ToSet(dir) = {m \in N!Names : holds[m] # "none"}
        /\ holds \in [N!Names -> N!Contents]
    BY DEF CacheInv, DirTypes
  <2>2. CASE holds[n] = "none"
    <3>1. dir' = dir /\ holds' = holds
      BY <1>1, <2>2
    <3> QED
      BY <2>1, <2>2, <3>1
  <2>3. CASE holds[n] # "none"
    <3>1. n \in N!ToSet(dir)
      BY <1>3, <2>1, <2>3
    <3>2. /\ dir' \in Seq(N!Names) /\ N!IsInjective(dir') /\ N!ToSet(dir') = N!ToSet(dir) \ {n}
          /\ Len(dir') = Len(dir) - 1
      BY <1>1, <2>1, <2>3, <3>1, WithoutFacts
    <3>3. "none" \in N!Contents
      BY DEF N!Contents
    <3>4. holds' \in [N!Names -> N!Contents] /\ \A m \in N!Names : holds'[m] = IF m = n
            THEN "none" ELSE holds[m]
      BY <1>1, <2>1, <2>3, <3>3
    <3> QED
      BY <2>3, <3>2, <3>4
  <2> QED
    BY <2>2, <2>3
<1>9. DirTypes'
  BY <1>8 DEF CacheInv, DirTypes
<1>10. RegistryTypes' /\ CountTypes'
  BY <1>1 DEF CacheInv, RegistryTypes, CountTypes
<1>11. Bounded'
  <2>1. Growing => Growing'
    BY <1>6 DEF Growing
  <2>2. Len(dir) \in Nat /\ Len(dir') \in Nat /\ Len(dir') <= Len(dir)
    <3>1. Len(dir) \in Nat
      BY DEF CacheInv, DirTypes
    <3>2. Len(dir') \in Nat
      BY <1>8
    <3> QED
      BY <1>8, <3>1, <3>2
  <2>3. Len(dir) <= ThumbCacheMax => Len(dir') <= ThumbCacheMax
    BY <2>2, ThumbNumbers
  <2>4. ASSUME NEW x \in ThumbReaders, Lists(x) PROVE Lists(x)'
    <3>1. request'[x].at = "remove" /\ N!ToSet(dir) \subseteq N!ToSet(prune[x].list)
          /\ Len(dir) - ThumbCacheMax <= prune[x].over /\ prune[x].over \in Int
      BY <1>6, <2>4 DEF Lists, N!At, CacheInv, PruneTypes
    <3>2. CASE x # r
      <4>1. prune'[x] = prune[x]
        BY <1>5, <3>2
      <4>2. Len(dir') - ThumbCacheMax <= prune[x].over
        BY <2>2, <3>1, ThumbNumbers
      <4> QED
        BY <1>8, <3>1, <4>1, <4>2 DEF Lists, N!At
    <3>3. CASE x = r
      <4>1. prune'[x].list = Tail(l) /\ prune'[x].over = less
        BY <1>4, <1>5, <3>3
      <4>2. N!ToSet(dir') \subseteq N!ToSet(Tail(l))
        BY <1>3, <1>8, <3>1, <3>3
      <4>3. Len(dir') - ThumbCacheMax <= less
        <5>1. Len(dir) - ThumbCacheMax <= k
          BY <3>1, <3>3
        <5>2. CASE holds[n] = "none"
          BY <1>8, <5>1, <5>2 DEF less
        <5>3. CASE holds[n] # "none"
          BY <1>2, <1>8, <2>2, <5>1, <5>3, ThumbNumbers DEF less
        <5> QED
          BY <5>2, <5>3
      <4> QED
        BY <3>1, <4>1, <4>2, <4>3 DEF Lists, N!At
    <3> QED
      BY <3>2, <3>3
  <2> QED
    BY <1>1, <2>1, <2>3, <2>4 DEF CacheInv, Bounded
<1>12. /\ \A v \in ThumbLinks :
            /\ holds'[N!File(v)] = IF N!File(v) = n THEN "none" ELSE holds[N!File(v)]
            /\ holds'[N!Tmp(v)] = IF N!Tmp(v) = n THEN "none" ELSE holds[N!Tmp(v)]
       /\ \A x \in ThumbReaders : request[x].at \in {"write", "rename"} => request[x].link \in ThumbLinks
  BY <1>8, NamesDiffer DEF CacheInv, RequestTypes, Placed, N!Requests
<1>13. WholeFiles'
  <2>1. ASSUME NEW x \in ThumbReaders PROVE WritesSafely(x)'
    <3>1. /\ request'[x].at = request[x].at /\ request'[x].link = request[x].link
          /\ WritesSafely(x)
      BY <1>6 DEF CacheInv, WholeFiles
    <3>2. CASE request[x].at = "write"
      <4> DEFINE v == request[x].link
      <4>1. v \in ThumbLinks
        BY <1>12, <3>2
      <4>2. CASE request[x].fd = "tmp" /\ holds[N!Tmp(v)] \in {"part", "torn"}
        <5>1. CASE N!Tmp(v) = n
          <6>1. request'[x].fd = "gone" /\ holds'[N!Tmp(v)] = "none"
            BY <1>6, <1>12, <3>2, <4>1, <4>2, <5>1 DEF N!Tmp
          <6> QED
            BY <3>1, <3>2, <6>1 DEF WritesSafely, N!At
        <5>2. CASE N!Tmp(v) # n
          <6>1. request'[x].fd = "tmp" /\ holds'[N!Tmp(v)] = holds[N!Tmp(v)]
            BY <1>6, <1>12, <3>2, <4>1, <4>2, <5>2 DEF N!Tmp
          <6> QED
            BY <3>1, <3>2, <4>2, <6>1 DEF WritesSafely, N!At
        <5> QED
          BY <5>1, <5>2
      <4>3. CASE request[x].fd = "file" /\ holds[N!Tmp(v)] # "part" /\ holds[N!File(v)] = "torn"
        <5>0. holds'[N!Tmp(v)] # "part"
          BY <1>12, <4>1, <4>3
        <5>1. CASE N!File(v) = n
          <6>1. request'[x].fd = "gone"
            BY <1>6, <3>2, <4>3, <5>1 DEF N!File
          <6> QED
            BY <3>1, <3>2, <5>0, <6>1 DEF WritesSafely, N!At
        <5>2. CASE N!File(v) # n
          <6>1. request'[x].fd = "file" /\ holds'[N!File(v)] = "torn"
            BY <1>6, <1>12, <3>2, <4>1, <4>3, <5>2 DEF N!File
          <6> QED
            BY <3>1, <3>2, <5>0, <6>1 DEF WritesSafely, N!At
        <5> QED
          BY <5>1, <5>2
      <4>4. CASE request[x].fd = "gone" /\ holds[N!Tmp(v)] # "part"
        <5>1. request'[x].fd = "gone" /\ holds'[N!Tmp(v)] # "part"
          BY <1>6, <1>12, <4>1, <4>4
        <5> QED
          BY <3>1, <3>2, <5>1 DEF WritesSafely, N!At
      <4> QED
        BY <3>1, <3>2, <4>2, <4>3, <4>4 DEF WritesSafely, N!At
    <3>3. CASE request[x].at # "write"
      BY <1>12, <3>1, <3>3 DEF WritesSafely, N!At
    <3> QED
      BY <3>2, <3>3
  <2>2. ASSUME NEW x \in ThumbReaders, NEW y \in ThumbReaders, NEW v \in ThumbLinks,
               x # y, N!Stores(x, v)', N!Stores(y, v)'
        PROVE  holds'[N!Tmp(v)] \in {"torn", "none"}
    <3>1. N!Stores(x, v) /\ N!Stores(y, v)
      BY <1>6, <2>2 DEF N!Stores
    <3>2. holds[N!Tmp(v)] \in {"torn", "none"}
      BY <2>2, <3>1 DEF CacheInv, WholeFiles
    <3> QED
      BY <1>12, <3>2
  <2>3. \A x \in ThumbReaders : request'[x].got # "part"
    BY <1>6 DEF CacheInv, WholeFiles
  <2>4. \A v \in ThumbLinks : holds'[N!File(v)] # "part"
    BY <1>12 DEF CacheInv, WholeFiles
  <2> QED
    BY <2>1, <2>2, <2>3, <2>4 DEF WholeFiles
<1> QED
  BY <1>5, <1>7, <1>9, <1>10, <1>11, <1>13 DEF CacheInv

(* The prune is done when the rest of its list fits.                       *)
LEMMA PruneEndsKeeps == ASSUME CacheInv, NEW r \in ThumbReaders, N!PruneEnds(r) PROVE CacheInv'
<1> DEFINE q == N!Idle("whole")
<1>1. /\ request[r].at = "remove" /\ (prune[r].over <= 0 \/ prune[r].list = << >>)
      /\ request' = [request EXCEPT ![r] = q] /\ prune' = [prune EXCEPT ![r] = N!NoPrune]
      /\ UNCHANGED <<thumbs_registry, thumbs_shown, thumbs_messages, requests, thumbs_faults,
                     holds, dir>>
  BY DEF N!PruneEnds, N!At, N!Same
<1>2. q \in N!Requests /\ q.link = "none" /\ q.at = "idle" /\ q.got = "whole"
  BY DEF N!Idle, N!Requests, N!Phases, N!Contents
<1> HIDE DEF q
<1>3. RequestTypes' /\ \A x \in ThumbReaders : request'[x] = IF x = r THEN q ELSE request[x]
  BY <1>1, <1>2, OneReplaced DEF CacheInv
<1>4. N!NoPrune \in [list : Seq(N!Names), over : Int]
  BY DEF N!NoPrune
<1>5. PruneTypes' /\ \A x \in ThumbReaders : x # r => prune'[x] = prune[x]
  BY <1>1, <1>4 DEF CacheInv, PruneTypes
<1>6. RegistryTypes' /\ CountTypes' /\ DirTypes'
  BY <1>1 DEF CacheInv, RegistryTypes, CountTypes, DirTypes
<1>7. Bounded'
  <2>1. Growing => Growing'
    BY <1>1, <1>3 DEF Growing
  <2>2. Len(dir) \in Nat /\ (N!ToSet(dir) = {} => Len(dir) = 0)
    <3>1. dir \in Seq(N!Names)
      BY DEF CacheInv, DirTypes
    <3>2. Len(dir) \in Nat /\ DOMAIN dir = 1..Len(dir)
      BY <3>1
    <3>3. 1 \in 1..Len(dir) => dir[1] \in N!ToSet(dir)
      BY <3>2 DEF N!ToSet
    <3>4. Len(dir) # 0 => 1 \in 1..Len(dir)
      BY <3>2
    <3> QED
      BY <3>2, <3>3, <3>4
  <2>3. ASSUME Lists(r) PROVE Len(dir) <= ThumbCacheMax
    <3>1. CASE prune[r].over <= 0
      BY <2>2, <2>3, <3>1, ThumbNumbers DEF Lists, CacheInv, PruneTypes
    <3>2. CASE prune[r].list = << >>
      <4>1. N!ToSet(prune[r].list) = {}
        <5>1. DOMAIN << >> = {}
          OBVIOUS
        <5> QED
          BY <3>2, <5>1 DEF N!ToSet
      <4> QED
        BY <2>2, <2>3, <4>1, ThumbNumbers DEF Lists
    <3> QED
      BY <1>1, <3>1, <3>2
  <2>4. ASSUME NEW x \in ThumbReaders, x # r, Lists(x) PROVE Lists(x)'
    BY <1>1, <1>3, <1>5, <2>4 DEF Lists, N!At
  <2> QED
    BY <1>1, <2>1, <2>3, <2>4 DEF CacheInv, Bounded
<1>8. WholeFiles'
  BY <1>1, <1>2, <1>3 DEF CacheInv, WholeFiles, WritesSafely, N!Stores, N!At
<1> QED
  BY <1>3, <1>5, <1>6, <1>7, <1>8 DEF CacheInv

(* Whatever the process was doing is lost, what is on disk stays.          *)
LEMMA CrashKeeps == ASSUME CacheInv, N!Crash PROVE CacheInv'
<1>1. /\ thumbs_faults < ThumbMaxFaults /\ thumbs_faults' = thumbs_faults + 1
         /\ thumbs_registry' = {} /\ thumbs_shown' = << >>
      /\ request' = [x \in ThumbReaders |-> N!Idle("none")]
         /\ prune' = [x \in ThumbReaders |-> N!NoPrune]
      /\ UNCHANGED <<holds, dir, thumbs_messages, requests>>
  BY DEF N!Crash
<1>2. \A x \in ThumbReaders : request'[x] = N!Idle("none")
  BY <1>1
<1>3. /\ N!Idle("none") \in N!Requests /\ N!Idle("none").at = "idle" /\ N!Idle("none").link = "none"
      /\ N!Idle("none").got = "none"
  BY DEF N!Idle, N!Requests, N!Contents, N!Phases
<1>4. RequestTypes'
  BY <1>1, <1>2, <1>3 DEF RequestTypes, Placed
<1>5. RegistryTypes'
  <2>1. thumbs_shown' \in Seq(ThumbLinks) /\ Len(thumbs_shown') = 0 /\ N!IsInjective(thumbs_shown')
    BY <1>1 DEF N!IsInjective
  <2>2. Cardinality({}) = 0
    BY FS_EmptySet
  <2> QED
    BY <1>1, <2>1, <2>2, ThumbNumbers DEF CacheInv, RegistryTypes
<1>6. thumbs_faults' \in 0..ThumbMaxFaults /\ thumbs_faults' # 0
  BY <1>1, ThumbNumbers DEF CacheInv, CountTypes
<1>7. CountTypes' /\ Bounded'
  BY <1>1, <1>6 DEF CacheInv, CountTypes, Bounded
<1>8. PruneTypes'
  <2>1. N!NoPrune \in [list : Seq(N!Names), over : Int]
    BY DEF N!NoPrune
  <2> QED
    BY <1>1, <2>1 DEF PruneTypes
<1>9. DirTypes'
  BY <1>1 DEF CacheInv, DirTypes
<1>10. WholeFiles'
  BY <1>1, <1>2, <1>3 DEF CacheInv, WholeFiles, WritesSafely, N!Stores, N!At
<1> QED
  BY <1>4, <1>5, <1>7, <1>8, <1>9, <1>10 DEF CacheInv

LEMMA CacheInit == ASSUME N!Init PROVE CacheInv
<1>1. /\ thumbs_registry = {} /\ thumbs_shown = << >>
         /\ request = [x \in ThumbReaders |-> N!Idle("none")]
      /\ holds = [n \in N!Names |-> "none"] /\ dir = << >>
         /\ prune = [x \in ThumbReaders |-> N!NoPrune]
      /\ thumbs_messages = 0 /\ requests = 0 /\ thumbs_faults = 0
  BY DEF N!Init
<1>2. \A x \in ThumbReaders : request[x] = N!Idle("none")
  BY <1>1
<1>3. /\ N!Idle("none") \in N!Requests /\ N!Idle("none").at = "idle" /\ N!Idle("none").link = "none"
      /\ N!Idle("none").got = "none"
  BY DEF N!Idle, N!Requests, N!Contents, N!Phases
<1>4. << >> \in Seq(ThumbLinks) /\ << >> \in Seq(N!Names) /\ Len(<< >>) = 0
        /\ N!IsInjective(<< >>) /\ N!ToSet(<< >>) = {}
  <2>1. DOMAIN << >> = {}
    OBVIOUS
  <2> QED
    BY <2>1 DEF N!IsInjective, N!ToSet
<1>5. Cardinality({}) = 0
  BY FS_EmptySet
<1>6. RegistryTypes
  BY <1>1, <1>4, <1>5, ThumbNumbers DEF RegistryTypes
<1>7. RequestTypes
  BY <1>1, <1>2, <1>3 DEF RequestTypes, Placed
<1>8. DirTypes
  BY <1>1, <1>4 DEF DirTypes, N!Contents
<1>9. CountTypes
  BY <1>1, ThumbNumbers DEF CountTypes
<1>10. WholeFiles
  <2>1. \A u \in ThumbLinks : holds[N!File(u)] = "none"
    BY <1>1, NamesDiffer
  <2> QED
    BY <1>2, <1>3, <2>1 DEF WholeFiles, WritesSafely, N!Stores, N!At
<1>11. PruneTypes
  <2>1. N!NoPrune \in [list : Seq(N!Names), over : Int]
    BY DEF N!NoPrune
  <2> QED
    BY <1>1, <2>1 DEF PruneTypes
<1>12. Bounded
  BY <1>1, <1>4, ThumbNumbers DEF Bounded
<1> QED
  BY <1>6, <1>7, <1>8, <1>9, <1>10, <1>11, <1>12 DEF CacheInv

LEMMA CacheStep == ASSUME CacheInv, [N!Next]_(N!vars) PROVE CacheInv'
<1>1. ASSUME NEW u \in ThumbLinks, N!ExtractFirst(u) \/ N!ExtractNext(u) PROVE CacheInv'
  <2>1. CASE N!ExtractFirst(u)
    <3>1. thumbs_messages' \in 0..ThumbMaxMessages
      BY <2>1, ThumbNumbers DEF N!ExtractFirst, CacheInv, RegistryTypes
    <3> QED
      BY <2>1, <3>1, ClassifyKeeps DEF N!ExtractFirst
  <2>2. CASE N!ExtractNext(u)
    <3>1. thumbs_messages' \in 0..ThumbMaxMessages
      BY <2>2 DEF N!ExtractNext, CacheInv, RegistryTypes
    <3> QED
      BY <2>2, <3>1, ClassifyKeeps DEF N!ExtractNext
  <2> QED
    BY <1>1, <2>1, <2>2
<1>2. ASSUME NEW r \in ThumbReaders, N!WriteBegins(r) \/ N!WriteEnds(r) \/ N!Rename(r)
      PROVE CacheInv'
  <2>1. request[r].link \in ThumbLinks
    BY <1>2 DEF CacheInv, RequestTypes, Placed, N!Requests, N!At, N!WriteBegins, N!WriteEnds,
       N!Rename
  <2>2. PICK u \in ThumbLinks : u = request[r].link
    BY <2>1
  <2> QED
    BY <1>2, <2>2, BeginKeeps, EndKeepsCache, RenameKeeps
<1>3. ASSUME UNCHANGED N!vars PROVE CacheInv'
  BY <1>3 DEF N!vars, CacheInv, RegistryTypes, RequestTypes, Placed, CountTypes, DirTypes,
     PruneTypes,
              Bounded, Growing, Lists, N!At, N!Stores, WritesSafely, WholeFiles
<1> QED
  BY <1>1, <1>2, <1>3, PreviewKeeps, ReadCacheKeeps, FailKeeps, PruneReadsKeeps, PruneRemovesKeeps,
     PruneEndsKeeps, CrashKeeps DEF N!Next

LEMMA CacheGood == ASSUME CacheInv
                   PROVE N!TypeOK /\ N!CacheIsBounded /\ N!ThumbnailsAreWhole
<1>1. N!TypeOK
  BY ThumbSets DEF CacheInv, RegistryTypes, RequestTypes, CountTypes, DirTypes, PruneTypes, N!TypeOK
<1>2. N!CacheIsBounded
  BY DEF N!CacheIsBounded, CacheInv, Bounded, Growing, Lists, N!At
<1> QED
  BY <1>1, <1>2 DEF CacheInv, WholeFiles, N!ThumbnailsAreWhole

LEMMA ConfigAlways == MCSpec => [](part = "config" => ConfigInv)
<1> DEFINE Inv == part = "config" => ConfigInv
<1>1. MCInit => Inv
  BY ConfigInit DEF MCInit
<1>2. Inv /\ [MCNext]_mcVars => Inv'
  <2> SUFFICES ASSUME part = "config" => ConfigInv, [MCNext]_mcVars, part' = "config" PROVE ConfigInv'
    OBVIOUS
  <2>1. part = "config" /\ [C!Next]_(C!configVars)
    BY DEF MCNext, mcVars, configVars, C!configVars, LimitsOnly, FloodOnly, SplitsOnly, FileOnly,
           ConfigOnly, ScriptsOnly, StateOnly, WizardOnly, ThumbsOnly, LoginOnly
  <2> QED
    BY <2>1, ConfigStep
<1> QED
  BY <1>1, <1>2, PTL DEF MCSpec

LEMMA FormRun == part = "wizard" /\ [MCNext]_mcVars => [W!Next]_(W!vars)
BY DEF MCNext, mcVars, wizardVars, W!vars, LimitsOnly, FloodOnly, SplitsOnly, FileOnly,
       ConfigOnly, ScriptsOnly, StateOnly, WizardOnly, ThumbsOnly, LoginOnly

LEMMA FormAlways == MCSpec => [](part = "wizard" => WizInv)
<1> DEFINE Inv == part = "wizard" => WizInv
<1>1. MCInit => Inv
  BY WizInit DEF MCInit
<1>2. Inv /\ [MCNext]_mcVars => Inv'
  <2> SUFFICES ASSUME part = "wizard" => WizInv, [MCNext]_mcVars, part' = "wizard" PROVE WizInv'
    OBVIOUS
  <2>1. part = "wizard"
    BY DEF MCNext, mcVars, LimitsOnly, FloodOnly, SplitsOnly, FileOnly, ConfigOnly,
           ScriptsOnly, StateOnly, WizardOnly, ThumbsOnly, LoginOnly
  <2> QED
    BY <2>1, FormRun, WizStep
<1> QED
  BY <1>1, <1>2, PTL DEF MCSpec

(* The settings (SettingsAgree): memory, the files and the copies in use   *)
(* agree after any commands, edits, reloads, restarts and failed writes;   *)
(* and a form of any number of fields keeps its cursor inside the text,    *)
(* its focus on the page (as far as each event meets a fresh frame) and    *)
(* hands nothing over that lacks a required value or has a wrong number.   *)
THEOREM Settings == MCSpec => []SettingsAgree
<1>1. (part = "config" => ConfigInv) /\ (part = "wizard" => WizInv) => SettingsAgree
  <2>1. part = "config" /\ ConfigInv => /\ C!TypeOK /\ C!RuntimeFollowsConfig /\ C!RestartKeepsServers
                                        /\ C!NoOrphanedSecret /\ C!RemovalIsConsistent
    BY ConfigAgrees
  <2>2. part = "wizard" /\ WizInv => /\ W!TypeOK /\ W!CursorIsInTheText /\ W!SavedServersAreComplete
                                     /\ (FormDrawsFirst => W!FocusIsOnThePage)
    BY WizGood
  <2> QED
    BY <2>1, <2>2 DEF SettingsAgree, RuntimeFollowsConfig, RestartKeepsServers, NoOrphanedSecret,
                      RemovalIsConsistent, CursorIsInTheText, FocusIsOnThePage, SavedServersAreComplete
<1> QED
  BY <1>1, ConfigAlways, FormAlways, PTL

(* The stored secrets (SecretsAreKept): no order of keys, clicks, pages,   *)
(* pasted texts and deletions makes saving overwrite a secret whose field  *)
(* nobody typed into, even when clicks are answered from the frame before. *)
THEOREM Secrets == MCSpec => SecretsAreKept
<1>1. (part = "wizard" => WizInv) /\ [MCNext]_mcVars => [part = "wizard" => W!SecretsAreKeptStep]_mcVars
  BY FormRun, WizStep
<1> QED
  BY <1>1, FormAlways, PTL DEF MCSpec, SecretsAreKept

LEMMA ScriRun == part = "scripts" /\ [MCNext]_mcVars => [S!Next]_(S!vars)
BY DEF MCNext, mcVars, scriptsVars, S!vars, LimitsOnly, FloodOnly, SplitsOnly, FileOnly,
       ConfigOnly, ScriptsOnly, StateOnly, WizardOnly, ThumbsOnly, LoginOnly

LEMMA ScriAlways == MCSpec => [](part = "scripts" => ScriInv)
<1> DEFINE Inv == part = "scripts" => ScriInv
<1>1. MCInit => Inv
  BY ScriInit DEF MCInit
<1>2. Inv /\ [MCNext]_mcVars => Inv'
  <2> SUFFICES ASSUME part = "scripts" => ScriInv, [MCNext]_mcVars, part' = "scripts" PROVE ScriInv'
    OBVIOUS
  <2>1. part = "scripts"
    BY DEF MCNext, mcVars, LimitsOnly, FloodOnly, SplitsOnly, FileOnly, ConfigOnly,
           ScriptsOnly, StateOnly, WizardOnly, ThumbsOnly, LoginOnly
  <2> QED
    BY <2>1, ScriRun, ScriStep
<1> QED
  BY <1>1, <1>2, PTL DEF MCSpec

LEMMA StateRun == part = "state" /\ [MCNext]_mcVars => [T!Next]_(T!vars)
BY DEF MCNext, mcVars, stateVars, T!vars, LimitsOnly, FloodOnly, SplitsOnly, FileOnly,
       ConfigOnly, ScriptsOnly, StateOnly, WizardOnly, ThumbsOnly, LoginOnly

LEMMA StateAlways == MCSpec => [](part = "state" => StateInv)
<1> DEFINE Inv == part = "state" => StateInv
<1>1. MCInit => Inv
  BY StateInit DEF MCInit
<1>2. Inv /\ [MCNext]_mcVars => Inv'
  <2> SUFFICES ASSUME part = "state" => StateInv, [MCNext]_mcVars, part' = "state" PROVE StateInv'
    OBVIOUS
  <2>1. part = "state"
    BY DEF MCNext, mcVars, LimitsOnly, FloodOnly, SplitsOnly, FileOnly, ConfigOnly,
           ScriptsOnly, StateOnly, WizardOnly, ThumbsOnly, LoginOnly
  <2> QED
    BY <2>1, StateRun, StateStep
<1> QED
  BY <1>1, <1>2, PTL DEF MCSpec

(* The scripts (ScriptsAreContained): what the engine lists is what Lua    *)
(* keeps alive, nothing of an unloaded script runs, the urgent handlers    *)
(* come first, no script changes who is on a channel, and without a mark   *)
(* the scripts see the nick lists and their settings as they are; for any  *)
(* scripts, handlers, timers and sizes of the channels.                    *)
THEOREM Scripts == MCSpec => []ScriptsAreContained
<1>1. (part = "scripts" => ScriInv) /\ (part = "state" => StateInv) => ScriptsAreContained
  <2>1. part = "scripts" /\ ScriInv => S!TypeOK /\ S!UnloadedScriptsAreSilent /\ S!UrgentFirst
    BY ScriGood
  <2>2. part = "state" /\ StateInv => T!TypeOK /\ T!MembersStayTrue /\ T!SnapshotKeepsUp
    BY StateGood
  <2> QED
    BY <2>1, <2>2 DEF ScriptsAreContained, UnloadedScriptsAreSilent, UrgentFirst,
                      MembersStayTrue, SnapshotKeepsUp
<1> QED
  BY <1>1, ScriAlways, StateAlways, PTL

(* A handler that was turned off, or a once handler that ran, is not       *)
(* called again (RetiredHandlersAreSilent): a number is given once, and    *)
(* the event asks the registry before each call.                           *)
THEOREM RetiredHandlers == MCSpec => RetiredHandlersAreSilent
<1>1. (part = "scripts" => ScriInv) /\ [MCNext]_mcVars
        => [part = "scripts" => S!RetiredHandlersAreSilentStep]_mcVars
  BY ScriRun, RetiredStep
<1> QED
  BY <1>1, ScriAlways, PTL DEF MCSpec, RetiredHandlersAreSilent

(* A script keeps its settings while it is loaded (SettingsStay).          *)
THEOREM ScriptSettings == MCSpec => SettingsStay
<1>1. (part = "state" => StateInv) /\ [MCNext]_mcVars
        => [part = "state" => T!SettingsStayStep]_mcVars
  BY StateRun, StateStep
<1> QED
  BY <1>1, StateAlways, PTL DEF MCSpec, SettingsStay

(* No step of a service breaks a promise (NoStepBreaksAPromise): the limit *)
(* on key requests, the handlers that have retired, the settings of        *)
(* scripts and the secrets of servers.                                     *)
THEOREM Promises == MCSpec => NoStepBreaksAPromise
BY Limit, RetiredHandlers, ScriptSettings, Secrets DEF NoStepBreaksAPromise

LEMMA ThumbsAlways == MCSpec => [](part = "thumbs" => CacheInv)
<1> DEFINE Inv == part = "thumbs" => CacheInv
<1>1. MCInit => Inv
  BY CacheInit DEF MCInit
<1>2. Inv /\ [MCNext]_mcVars => Inv'
  <2> SUFFICES ASSUME part = "thumbs" => CacheInv, [MCNext]_mcVars, part' = "thumbs" PROVE CacheInv'
    OBVIOUS
  <2>1. part = "thumbs" /\ [N!Next]_(N!vars)
    BY DEF MCNext, mcVars, thumbsVars, N!vars, LimitsOnly, FloodOnly, SplitsOnly, FileOnly,
           ConfigOnly, ScriptsOnly, StateOnly, WizardOnly, ThumbsOnly, LoginOnly
  <2> QED
    BY <2>1, CacheStep
<1> QED
  BY <1>1, <1>2, PTL DEF MCSpec

(* The limit of the cache (CacheIsBounded): as long as nothing crashed,    *)
(* the cache is within its limit whenever no request and no prune is under *)
(* way, however many requests for one link write at the same time.         *)
THEOREM BoundedCache == MCSpec => []CacheIsBounded
<1>1. (part = "thumbs" => CacheInv) => CacheIsBounded
  BY CacheGood DEF CacheIsBounded
<1> QED
  BY <1>1, ThumbsAlways, PTL

(* The thumbnails (ThumbnailsAreKept): what a browser is served is never a *)
(* part of a thumbnail, through crashes in the middle of a write, prunes   *)
(* that remove what is being written and any number of requests, unless    *)
(* two of them were writing that same link; and the cache keeps its limit. *)
THEOREM Thumbnails == MCSpec => []ThumbnailsAreKept
<1>1. (part = "thumbs" => CacheInv) => ThumbnailsAreKept
  BY CacheGood DEF ThumbnailsAreKept, ThumbnailsAreWhole, CacheIsBounded
<1> QED
  BY <1>1, ThumbsAlways, PTL
=============================================================================
