------------------------------- MODULE MCIrc --------------------------------
(***************************************************************************)
(* The connection of a user who waits for an attempt to end before the     *)
(* next /connect (the instance P), and of one who does not.                *)
(***************************************************************************)
EXTENDS IrcConnectionProofs

CONSTANTS PatientTasks, PatientRetries, PatientSteps

ASSUME PatientAssumption ==
  NoTask \notin PatientTasks /\ PatientRetries \in Nat /\ PatientSteps \in Nat

VARIABLE user
mcVars == <<user, vars>>

P == INSTANCE IrcConnectionProofs WITH
         Tasks <- PatientTasks, Impatient <- FALSE,
         MaxRetries <- PatientRetries, MaxUserSteps <- PatientSteps
IsPatient == user = "patient"

MCInit == \/ IsPatient /\ P!Init
          \/ user = "impatient" /\ Init
MCNext == \/ IsPatient /\ P!Next /\ UNCHANGED user
          \/ user = "impatient" /\ Next /\ UNCHANGED user
MCSpec ==
  /\ MCInit /\ [][MCNext]_mcVars
  /\ \A t \in PatientTasks :
       /\ WF_mcVars(IsPatient /\ P!HandleEvent(t) /\ UNCHANGED user)
       /\ SF_mcVars(IsPatient /\ P!DialSucceeds(t) /\ UNCHANGED user)
       /\ SF_mcVars(IsPatient /\ P!Welcomed(t) /\ UNCHANGED user)
       /\ WF_mcVars(IsPatient /\ P!Doomed(t) /\ P!StreamEnds(t) /\ UNCHANGED user)
  /\ WF_mcVars(IsPatient /\ P!TimerExpires /\ UNCHANGED user)
  /\ WF_mcVars(IsPatient /\ P!CheckReconnects /\ UNCHANGED user)

(* For a patient user there is one usable session at a time, the connection is the link its user *)
(* was promised, and with automatic reconnection it is up again and again until turned off.      *)
PatientOneUsableSession == IsPatient => P!TypeOK /\ P!OneUsableSession
PatientLink == INSTANCE ServerLink WITH
    phase <- IF IsPatient THEN P!Phase ELSE "none", wanted <- IsPatient /\ should
PatientLinkSpec == PatientLink!Spec
PatientComesBack ==
  (IsPatient /\ status # "none" /\ should) ~> (P!Online \/ ~should \/ status = "none")

(* For both: no handle of a dead connection is left behind, and a connection is never given up.  *)
NoStaleHandle == IF IsPatient THEN P!HandleIsNotStale ELSE HandleIsNotStale
NobodyIsStuck == IF IsPatient THEN P!NeverStuck ELSE NeverStuck

(* After /disconnect nothing dials until the user says /connect, however impatient.              *)
NoDialingWhenOffline ==
  [][offline /\ offline' =>
       \A t \in DOMAIN task : task'[t] = "dialing" => task[t] = "dialing"]_mcVars

-----------------------------------------------------------------------------
(* Each user's steps keep that user's invariant, whatever the bounds.      *)
UsersInv == IF IsPatient THEN P!PatientInv ELSE ConnInv
LEMMA UsersInit == MCInit => UsersInv
  BY PatientAssumption, ConnectionAssumption, InitConn, P!PatientInit DEF MCInit, UsersInv, IsPatient

(* A step is that of the one user there is.                                *)
LEMMA UserKept == [MCNext]_mcVars => UNCHANGED user
  BY DEF MCNext, mcVars

LEMMA UsersStep == UsersInv /\ [MCNext]_mcVars => UsersInv'
  <1> SUFFICES ASSUME UsersInv, [MCNext]_mcVars PROVE UsersInv'
    OBVIOUS
  <1>1. UNCHANGED user
    BY UserKept
  <1>2. CASE IsPatient
    <2>1. [P!Next]_(P!vars)
      BY <1>2 DEF MCNext, mcVars, vars, P!vars, IsPatient
    <2> QED BY <1>1, <1>2, <2>1, P!PatientStep, PatientAssumption, ConnectionAssumption DEF UsersInv, IsPatient
  <1>3. CASE ~IsPatient
    <2>1. [Next]_vars
      BY <1>3 DEF MCNext, mcVars, vars, IsPatient
    <2> QED BY <1>1, <1>3, <2>1, ConnStep DEF UsersInv, IsPatient
  <1> QED BY <1>2, <1>3

LEMMA UsersInvariant == MCSpec => []UsersInv
  BY UsersInit, UsersStep, PTL DEF MCSpec

(* No handle of a dead connection is left behind, whoever the user is.     *)
THEOREM StaleHandles == MCSpec => []NoStaleHandle
  <1>1. UsersInv => NoStaleHandle
    BY DEF UsersInv, NoStaleHandle, P!PatientInv, P!ConnInv, ConnInv
  <1> QED BY <1>1, UsersInvariant, PTL

(* While a reconnect is wanted, something runs, is on its way or is timed. *)
THEOREM Stuck == MCSpec => []NobodyIsStuck
  <1>1. UsersInv => NobodyIsStuck
    BY DEF UsersInv, NobodyIsStuck, P!PatientInv, P!ConnInv, ConnInv
  <1> QED BY <1>1, UsersInvariant, PTL

(* A patient user has at most one attempt or session, and a connection     *)
(* shown as Connected can be written to.                                   *)
THEOREM UsableSession == MCSpec => []PatientOneUsableSession
  <1>1. UsersInv => PatientOneUsableSession
    BY P!AtMostOneAttempt, PatientAssumption, ConnectionAssumption
       DEF UsersInv, PatientOneUsableSession, P!PatientInv, P!ConnInv, P!OneUsableSession
  <1> QED BY <1>1, UsersInvariant, PTL

(* Nothing dials after /disconnect until the user says /connect.           *)
THEOREM NoDialing == MCSpec => NoDialingWhenOffline
  <1> DEFINE Quiet == offline /\ offline' =>
                        \A t \in DOMAIN task : task'[t] = "dialing" => task[t] = "dialing"
  <1>1. UsersInv /\ [MCNext]_mcVars => [Quiet]_mcVars
    <2> SUFFICES ASSUME UsersInv, [MCNext]_mcVars, offline, offline',
                        NEW t \in DOMAIN task, task'[t] = "dialing"
                 PROVE  task[t] = "dialing"
      OBVIOUS
    <2>1. CASE IsPatient
      <3>1. P!ConnInv /\ [P!Next]_(P!vars) /\ t \in PatientTasks
        BY <2>1 DEF MCNext, mcVars, vars, P!vars, IsPatient, UsersInv, P!PatientInv,
                    P!ConnInv, P!TypeOK
      <3> QED BY <3>1, P!OfflineStep, PatientAssumption, ConnectionAssumption
    <2>2. CASE ~IsPatient
      <3>1. ConnInv /\ [Next]_vars /\ t \in Tasks
        BY <2>2 DEF MCNext, mcVars, vars, IsPatient, UsersInv, ConnInv, TypeOK
      <3> QED BY <3>1, OfflineStep
    <2> QED BY <2>1, <2>2
  <1> QED BY <1>1, UsersInvariant, PTL DEF MCSpec, NoDialingWhenOffline

(* The connection of a patient user implements the link of ServerLink.     *)
THEOREM PatientImplementsLink == MCSpec => PatientLinkSpec
  <1>1. MCInit => PatientLink!Init
    BY DEF MCInit, IsPatient, P!Init, PatientLink!Init, P!Phase
  <1>2. UsersInv /\ [MCNext]_mcVars => [PatientLink!Next]_(PatientLink!vars)
    <2> SUFFICES ASSUME UsersInv, [MCNext]_mcVars
                 PROVE  [PatientLink!Next]_(PatientLink!vars)
      OBVIOUS
    <2>1. CASE IsPatient
      <3>1. P!PatientInv /\ [P!Next]_(P!vars) /\ IsPatient'
        BY <2>1, UserKept DEF MCNext, mcVars, vars, P!vars, IsPatient, UsersInv
      <3>2. [P!Link!Next]_(P!Link!vars)
        BY <3>1, P!LinkStep, PatientAssumption, ConnectionAssumption
      <3>3. UsersInv' /\ should \in BOOLEAN /\ should' \in BOOLEAN
        BY <2>1, <3>1, UsersStep DEF UsersInv, P!PatientInv, P!ConnInv, P!TypeOK
      <3>4. /\ (IsPatient /\ should) = should /\ (IsPatient /\ should)' = should'
            /\ (IF IsPatient THEN P!Phase ELSE "none") = P!Phase
            /\ (IF IsPatient THEN P!Phase ELSE "none")' = P!Phase'
        BY <2>1, <3>1, <3>3
      <3>5. CASE UNCHANGED P!Link!vars
        BY <3>4, <3>5 DEF P!Link!vars, PatientLink!vars
      <3>6. CASE P!Link!Next
        BY <3>4, <3>6
           DEF P!Link!Next, P!Link!Connect, P!Link!Answered, P!Link!Lost, P!Link!Redial,
               P!Link!Disconnect, P!Link!Forget,
               PatientLink!Next, PatientLink!Connect, PatientLink!Answered,
               PatientLink!Lost, PatientLink!Redial, PatientLink!Disconnect,
               PatientLink!Forget
      <3> QED BY <3>2, <3>5, <3>6
    <2>2. CASE ~IsPatient
      BY <2>2, UserKept DEF PatientLink!vars, IsPatient
    <2> QED BY <2>1, <2>2
  <1> QED BY <1>1, <1>2, UsersInvariant, PTL DEF MCSpec, PatientLinkSpec, PatientLink!Spec
=============================================================================
