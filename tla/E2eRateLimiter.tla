---------------------------- MODULE E2eRateLimiter ----------------------------
(***************************************************************************)
(* The two halves of the per-peer KEYREQ limiter (src/e2e/handshake.rs)    *)
(* facing each other: the sender's allow_outgoing and the receiver's       *)
(* allow_incoming, joined by a network that keeps order and delays a       *)
(* message by at most MaxDelay.  Time is discrete; the code's constants    *)
(* are Gap = 30 s, Window = 60 s, MaxPerWindow = 3, Backoff = 300 s.       *)
(***************************************************************************)
EXTENDS Integers, Sequences

CONSTANTS Gap,          \* RATE_LIMIT_WINDOW
          Window,       \* INCOMING_WINDOW
          MaxPerWindow, \* INCOMING_MAX_PER_WINDOW
          Backoff,      \* INCOMING_BACKOFF
          MaxDelay,     \* longest delay of a message
          Horizon,      \* bound on time
          MaxInFlight   \* bound on the KEYREQs in flight

ASSUME LimiterAssumption ==
  /\ {Gap, Window, MaxPerWindow, Backoff, MaxDelay, Horizon, MaxInFlight} \subseteq Nat
  /\ MaxPerWindow > 0 /\ Horizon > 0
  /\ Window < Backoff

VARIABLES
  now,          \* the clock, 1 at the start
  lastSent,     \* sender: time recorded by allow_outgoing, 0 = none
  net,          \* send times of the KEYREQs in flight, oldest first
  recent,       \* receiver: IncomingBucket.recent
  backoffUntil, \* receiver: IncomingBucket.backoff_until, 0 = None
  lastKeyReq,   \* history: when the last KEYREQ left, 0 = never
  spacing,      \* history: least time between two KEYREQs that left
  accepted,     \* history: times of the last MaxPerWindow accepted KEYREQs
  refused,      \* history: has the receiver ever refused one?
  manual        \* history: has the sender's user typed /e2e handshake?

vars == <<now, lastSent, net, recent, backoffUntil, lastKeyReq, spacing,
          accepted, refused, manual>>

(* Types; the window never holds more than it may. *)
TypeOK ==
  /\ now \in 1 .. Horizon
  /\ {lastSent, lastKeyReq} \subseteq 0 .. now
  /\ net \in Seq(1 .. now)
  /\ recent \in Seq(1 .. now) /\ Len(recent) <= MaxPerWindow
  /\ backoffUntil \in 0 .. now + Backoff
  /\ spacing \in 0 .. Horizon
  /\ accepted \in Seq(1 .. now) /\ Len(accepted) <= MaxPerWindow
  /\ {refused, manual} \subseteq BOOLEAN

Init ==
  /\ now = 1
  /\ lastSent = 0 /\ lastKeyReq = 0 /\ spacing = Horizon
  /\ net = <<>> /\ recent = <<>> /\ accepted = <<>>
  /\ backoffUntil = 0
  /\ refused = FALSE /\ manual = FALSE

(* Time passes unless a message is due.                                    *)
Tick ==
  /\ now < Horizon
  /\ net # <<>> => now < Head(net) + MaxDelay
  /\ now' = now + 1
  /\ UNCHANGED <<lastSent, net, recent, backoffUntil, lastKeyReq, spacing,
                 accepted, refused, manual>>

-----------------------------------------------------------------------------
(* Sender.                                                                 *)
Least(a, b) == IF a < b THEN a ELSE b
SendKeyReq ==
  /\ Len(net) < MaxInFlight
  /\ net' = Append(net, now)
  /\ lastKeyReq' = now
  /\ spacing' = IF lastKeyReq = 0 THEN spacing ELSE Least(spacing, now - lastKeyReq)

AllowOutgoing ==
  /\ lastSent # 0 => now - lastSent >= Gap
  /\ lastSent' = now

(* try_decrypt_e2e on a chunk without a session, and the reciprocal of a   *)
(* KEYREQ that was answered.                                               *)
AutomaticKeyReq ==
  /\ AllowOutgoing
  /\ SendKeyReq
  /\ UNCHANGED <<now, recent, backoffUntil, accepted, refused, manual>>

(* Answering a peer we already trust takes the slot and sends nothing.     *)
UnusedReciprocal ==
  /\ AllowOutgoing
  /\ UNCHANGED <<now, net, recent, backoffUntil, lastKeyReq, spacing, accepted,
                 refused, manual>>

(* /e2e handshake does not ask the limiter.                                *)
ManualKeyReq ==
  /\ manual' = TRUE
  /\ SendKeyReq
  /\ UNCHANGED <<now, lastSent, recent, backoffUntil, accepted, refused>>

-----------------------------------------------------------------------------
(* Receiver: allow_incoming.                                               *)
InBackoff == backoffUntil # 0 /\ now < backoffUntil

(* Mutant of Fresh: evicts an entry when the window ends, not after it.    *)
FreshStrictly(t) == now - t < Window
Fresh(t) == now - t <= Window
(* Old entries are popped from the front, up to the first that is fresh.   *)
Evicts(k) == /\ \A i \in 1 .. k : ~Fresh(recent[i])
             /\ k < Len(recent) => Fresh(recent[k + 1])
(* What is left of the window; ending a back-off empties it.               *)
Left(k) == IF backoffUntil # 0 THEN <<>> ELSE SubSeq(recent, k + 1, Len(recent))

(* The history keeps MaxPerWindow times.                                   *)
KeepLast(s) == IF Len(s) > MaxPerWindow THEN Tail(s) ELSE s

Accept(window) ==
  /\ Len(window) < MaxPerWindow
  /\ recent' = Append(window, now)
  /\ backoffUntil' = 0
  /\ accepted' = KeepLast(Append(accepted, now))
  /\ UNCHANGED refused

StartBackoff(window) ==
  /\ Len(window) >= MaxPerWindow
  /\ recent' = window
  /\ backoffUntil' = now + Backoff
  /\ refused' = TRUE
  /\ UNCHANGED accepted

(* Mutant of RefuseInBackoff: every refused KEYREQ restarts the back-off.  *)
RefuseExtending ==
  /\ InBackoff
  /\ refused' = TRUE
  /\ backoffUntil' = now + Backoff
  /\ UNCHANGED <<recent, accepted>>
RefuseInBackoff ==
  /\ InBackoff
  /\ refused' = TRUE
  /\ UNCHANGED <<recent, backoffUntil, accepted>>

AllowIncoming ==
  /\ net # <<>>
  /\ net' = Tail(net)
  /\ \/ /\ ~InBackoff
        /\ \E k \in 0 .. Len(recent) : Evicts(k) /\ (Accept(Left(k)) \/ StartBackoff(Left(k)))
     \/ RefuseInBackoff
  /\ UNCHANGED <<now, lastSent, lastKeyReq, spacing, manual>>

Next == \/ Tick \/ AutomaticKeyReq \/ UnusedReciprocal \/ ManualKeyReq
        \/ AllowIncoming
Spec == Init /\ [][Next]_vars

-----------------------------------------------------------------------------
WithinLimitStep ==
  accepted' # accepted /\ Len(accepted) = MaxPerWindow =>
       now - Head(accepted) > Window
(* However the window slides and whenever a back-off clears it, no stretch *)
(* of Window sees more than MaxPerWindow KEYREQs let through.              *)
WithinLimit == [][WithinLimitStep]_vars

(* A sender that only asks automatically, through its own limiter, is      *)
(* never refused: the two limits fit together.                             *)
HonestNeverRefused == refused => manual

(* A back-off ends at most Window + Backoff after the last KEYREQ that got *)
(* through, however often the peer asks while it lasts.                    *)
BackoffEnds ==
  backoffUntil # 0 =>
    /\ accepted # <<>>
    /\ backoffUntil <= accepted[Len(accepted)] + Window + Backoff

(* "outgoing: a minimum 30 second gap between KEYREQs to the same peer".   *)
OutgoingGap == spacing >= Gap
=============================================================================
