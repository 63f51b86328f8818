------------------------------ MODULE ServerLink ------------------------------
(***************************************************************************)
(* What a server connection promises to its user: it is being dialled, or  *)
(* online, or offline; it is dialled again by itself only while that is    *)
(* wanted; it is forgotten only when offline.  IrcConnection implements it *)
(* for a user who does not dial twice at once.                             *)
(***************************************************************************)
CONSTANT AutoReconnect  \* is a new link wanted again after it is lost?

VARIABLES phase,  \* "none", "dialing", "online" or "offline"
          wanted  \* is it dialled again when it is lost?
vars == <<phase, wanted>>

Init == phase = "none" /\ wanted = FALSE

Connect == phase \in {"none", "offline"} /\ phase' = "dialing" /\ wanted' = AutoReconnect
Answered == phase = "dialing" /\ phase' = "online" /\ UNCHANGED wanted
Lost == phase \in {"dialing", "online"} /\ phase' = "offline" /\ UNCHANGED wanted
Redial == phase = "offline" /\ wanted /\ phase' = "dialing" /\ UNCHANGED wanted
Disconnect == phase # "none" /\ wanted' = FALSE /\ UNCHANGED phase
Forget == phase = "offline" /\ phase' = "none" /\ wanted' = FALSE

Next == Connect \/ Answered \/ Lost \/ Redial \/ Disconnect \/ Forget
Spec == Init /\ [][Next]_vars
=============================================================================
