----------------------------- MODULE MCSessions -----------------------------
(***************************************************************************)
(* What waits for somebody else and must not wait forever, part by part:   *)
(* DCC records, which wait for a peer, and the terminals that attach to a  *)
(* session. Each part runs by itself, under the fairness of its own        *)
(* module.                                                                 *)
(***************************************************************************)
EXTENDS DccChat, TLC

CONSTANTS Terminals, Sizes, MAX_SOCKET_OUTPUT_QUEUE, MaxSessionSteps

VARIABLE part
VARIABLES shim, size, up, down, backlog, pc, joining, current, attached, detached, shouldDetach,
          terminal, cached, pressed, session_steps

sessionVars == <<shim, size, up, down, backlog, pc, joining, current, attached, detached,
                 shouldDetach, terminal, cached, pressed, session_steps>>
mcVars == <<part, vars, sessionVars>>

S == INSTANCE Session WITH
         Shims <- Terminals, MaxSteps <- MaxSessionSteps, steps <- session_steps
ASSUME SessionConstants == S!SessionAssumption

(* The variables of a part that does not run have no value of their own.   *)
Idle == "idle"
DccOff ==
  /\ records = Idle /\ senders = Idle /\ tasks = Idle /\ events = Idle /\ nickOf = Idle
  /\ asked = Idle /\ spent = Idle /\ left = Idle /\ steps = Idle
SessionOff ==
  /\ shim = Idle /\ size = Idle /\ up = Idle /\ down = Idle /\ backlog = Idle /\ pc = Idle
  /\ joining = Idle /\ current = Idle /\ attached = Idle /\ detached = Idle
  /\ shouldDetach = Idle /\ terminal = Idle /\ cached = Idle /\ pressed = Idle
  /\ session_steps = Idle

DccOnly == UNCHANGED <<part, sessionVars>>
SessionOnly == UNCHANGED <<part, vars>>

MCInit == \/ part = "dcc" /\ Init /\ SessionOff
          \/ part = "session" /\ S!Init /\ DccOff
MCNext == \/ part = "dcc" /\ Next /\ DccOnly
          \/ part = "session" /\ S!Next /\ SessionOnly
(* No more than FairSpec of each module: steps that the bounds let happen  *)
(* finitely often share a condition, within a module and across the two.   *)
Fair(dcc, session) == \/ part = "dcc" /\ DccOnly /\ dcc
                      \/ part = "session" /\ SessionOnly /\ session
Fairness ==
  /\ WF_mcVars(Fair(HandleDccEvent, S!Top))
  /\ WF_mcVars(Fair(\E id \in Ids : PurgeExpired(id), S!HelloArrives \/ S!HelloFails))
  /\ WF_mcVars(Fair(\E t \in Tasks : WriterEnds(t),
                    \E s \in Terminals : S!Hello(s) \/ S!ConnectionLost(s)))
  /\ \A s \in Terminals : WF_mcVars(Fair(FALSE, S!Reads(s)))
  /\ SF_mcVars(Fair(\E t \in Tasks : TimesOut(t) \/ Connects(t) \/ ConnectsToUs(t),
                    S!TermEvent \/ S!OtherMessage))
  /\ SF_mcVars(Fair(FALSE, S!ShimLost \/ S!Accept))
MCSpec == MCInit /\ [][MCNext]_mcVars /\ Fairness

-----------------------------------------------------------------------------
(* A DCC record does not wait, listen or dial forever.                     *)
RecordsEnd == \A id \in Ids : []<>(part = "dcc" => ~Pending(id))

(* A terminal that the backend no longer serves is told why, whatever took *)
(* its place.                                                              *)
ReplacedShimsAreTold == part = "session" => S!ReplacedShimsAreTold

(* A frame is drawn for an attached terminal only, and SIGHUP and SIGINT,  *)
(* which ask "detached", find it false while one is attached.              *)
DetachedMeansAlone == part = "session" => S!DetachedMeansAlone

(* Whoever connects gets the screen or leaves, whatever the other          *)
(* terminals and the signals do.                                           *)
TerminalsAreServed ==
  \A s \in Terminals : []<>(part = "session" => current = s \/ shim[s] \notin {"connected", "relay"})

(* One terminal drives the client, and the others know (app/session.rs);   *)
(* the records stay within their limit (dcc/mod.rs).                       *)
TerminalsAreTold ==
  /\ part = "dcc" => TypeOK
  /\ part = "session" => S!TypeOK
  /\ ReplacedShimsAreTold
  /\ DetachedMeansAlone

(* Nobody waits for ever: no DCC record, no terminal (dcc/mod.rs,          *)
(* app/session.rs).                                                        *)
WaitingEnds ==
  /\ RecordsEnd
  /\ TerminalsAreServed

=============================================================================
