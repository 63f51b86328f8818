----------------------------- MODULE ChannelQuery -----------------------------
(***************************************************************************)
(* The automatic WHO and MODE b of the channels one joins: the queue, the  *)
(* batch in flight, its 30 s limit and the flags that keep the replies off *)
(* the screen (src/app/who.rs, and the reply handlers of                   *)
(* src/irc/events.rs).                                                     *)
(*                                                                         *)
(* The server answers WHO requests in their order and ban-list requests in *)
(* theirs; it may be arbitrarily late and may skip targets silently.       *)
(***************************************************************************)
EXTENDS Naturals, Sequences, FiniteSets, SequencesExt

CONSTANTS Channels,
          MaxTargets,    \* MAX_WHO_TARGETS
          MaxUserSteps   \* bound on joins, departures and commands

ASSUME QueryAssumption ==
  MaxTargets \in Nat \ {0} /\ MaxUserSteps \in Nat

VARIABLES
  online,      \* is there a session?
  handle,      \* is there a handle to send with?
  queue,       \* channel_query_queues
  inFlight,    \* channel_query_in_flight, {} when there is none
  sentAt,      \* is there a channel_query_sent_at?
  silentWho,   \* silent_who_channels
  silentBans,  \* silent_banlist_channels
  asked,       \* WHO requests not answered yet
  askedBans,   \* ban-list requests not answered yet
  crossed,     \* history: channels the client asked about again unanswered
  touched,     \* history: channels left, or asked about by hand
  userSteps    \* joins, departures and commands so far

batching == <<queue, inFlight, sentAt>>
vars == <<online, handle, batching, silentWho, silentBans, asked, askedBans, crossed, touched, userSteps>>

(* A request about some channels; a manual one was typed by the user.      *)
Requests == [chans : SUBSET Channels, manual : BOOLEAN]
Ask(chans, manual) == [chans |-> chans, manual |-> manual]
Awaited(requests) == UNION {requests[i].chans : i \in DOMAIN requests}

(* Types of every variable.                                                *)
TypeOK ==
  /\ online \in BOOLEAN /\ handle \in BOOLEAN
  /\ queue \in Seq(Channels)
  /\ inFlight \in SUBSET Channels /\ Cardinality(inFlight) <= MaxTargets
  /\ sentAt \in BOOLEAN
  /\ silentWho \in SUBSET Channels /\ silentBans \in SUBSET Channels
  /\ asked \in Seq(Requests) /\ askedBans \in Seq(Requests)
  /\ crossed \in SUBSET Channels /\ touched \in SUBSET Channels
  /\ userSteps \in 0 .. MaxUserSteps

Init ==
  /\ online = FALSE /\ handle = FALSE
  /\ queue = <<>> /\ inFlight = {} /\ sentAt = FALSE
  /\ silentWho = {} /\ silentBans = {}
  /\ asked = <<>> /\ askedBans = <<>>
  /\ crossed = {} /\ touched = {}
  /\ userSteps = 0

-----------------------------------------------------------------------------
(* How many of the queued channels a batch takes: the byte budget may end  *)
(* it early.                                                               *)
BatchSizes(q) == {n \in 1 .. MaxTargets : n <= Len(q)}

(* send_channel_query_batch, on queue q when the WHO flags are w, the      *)
(* unanswered requests a, and timer says whether there is a time of        *)
(* sending.  Without a handle the batch is taken from the queue all the    *)
(* same.                                                                   *)
SendBatch(q, w, a, timer) ==
  \/ /\ q = <<>>
     /\ queue' = q /\ inFlight' = {} /\ sentAt' = FALSE
     /\ silentWho' = w /\ asked' = a
     /\ UNCHANGED <<silentBans, askedBans, crossed>>
  \/ \E n \in BatchSizes(q) :
       LET batch == ToSet(SubSeq(q, 1, n)) IN
       /\ handle
       /\ queue' = SubSeq(q, n + 1, Len(q))
       /\ inFlight' = batch /\ sentAt' = TRUE
       /\ silentWho' = w \cup batch /\ silentBans' = silentBans \cup batch
       /\ asked' = Append(a, Ask(batch, FALSE))
       /\ askedBans' = askedBans \o [i \in 1 .. n |-> Ask({q[i]}, FALSE)]
       /\ crossed' = crossed \cup (batch \cap (Awaited(a) \cup Awaited(askedBans)))
                          \cup {c \in batch : Cardinality({i \in 1 .. n : q[i] = c}) > 1}
  \/ \E n \in BatchSizes(q) :
       /\ ~handle
       /\ queue' = SubSeq(q, n + 1, Len(q)) /\ inFlight' = {} /\ sentAt' = timer
       /\ silentWho' = w /\ asked' = a
       /\ UNCHANGED <<silentBans, askedBans, crossed>>

(* RPL_ENDOFNAMES, after a join or after /names: queue_channel_query.      *)
EndOfNames(c) ==
  IF inFlight = {}
  THEN SendBatch(Append(queue, c), silentWho, asked, sentAt)
  ELSE /\ queue' = Append(queue, c)
       /\ UNCHANGED <<inFlight, sentAt, silentWho, silentBans, asked, askedBans, crossed>>

(* The requests once the head has been answered for some targets.          *)
Less(requests, targets) ==
  LET rest == Head(requests).chans \ targets IN
  IF rest = {} THEN Tail(requests)
  ELSE <<[Head(requests) EXCEPT !.chans = rest]>> \o Tail(requests)

(* RPL_ENDOFWHO names one target or a comma-separated list: the flags go,  *)
(* unless a script hides the line, and the batch in flight shrinks.        *)
EndOfWho ==
  /\ asked # <<>>
  /\ \E targets \in SUBSET Head(asked).chans \ {{}}, hidden \in BOOLEAN :
       LET later == Less(asked, targets)
           flags == IF hidden THEN silentWho ELSE silentWho \ targets IN
       IF inFlight # {} /\ inFlight \subseteq targets
       THEN SendBatch(queue, flags, later, sentAt)
       ELSE /\ inFlight' = inFlight \ targets
            /\ silentWho' = flags /\ asked' = later
            /\ UNCHANGED <<queue, sentAt, silentBans, askedBans, crossed>>

(* RPL_ENDOFBANLIST, or an error numeric in its place.                     *)
EndOfBanList ==
  /\ askedBans # <<>>
  /\ askedBans' = Tail(askedBans)
  /\ \E hidden \in BOOLEAN :
       silentBans' = IF hidden THEN silentBans ELSE silentBans \ Head(askedBans).chans
  /\ UNCHANGED <<batching, silentWho, asked, crossed>>

(* The server skips targets of a WHO.                                      *)
Skips ==
  /\ asked # <<>>
  /\ \E targets \in SUBSET Head(asked).chans \ {{}} : asked' = Less(asked, targets)
  /\ UNCHANGED <<batching, silentWho, silentBans, askedBans, crossed>>

(* check_stale_who_batches, more than 30 s after the batch was sent.       *)
(* Mutants of Stale: the flags go with the batch; the next is not sent.    *)
StaleWithFlags ==
  /\ sentAt
  /\ SendBatch(queue, silentWho \ inFlight, asked, FALSE)
StaleWithoutNext ==
  /\ sentAt /\ sentAt' = FALSE /\ inFlight' = {}
  /\ UNCHANGED <<queue, silentWho, silentBans, asked, askedBans, crossed>>
Stale == sentAt /\ SendBatch(queue, silentWho, asked, FALSE)

-----------------------------------------------------------------------------
(* The user, and whoever kicks.                                            *)
Leave(c) ==
  /\ silentWho' = silentWho \ {c} /\ silentBans' = silentBans \ {c}
  /\ touched' = touched \cup {c}
  /\ UNCHANGED <<batching, asked, askedBans, crossed>>
(* /who: cmd_who leaves the flags alone.                                   *)
ManualWho(c) ==
  /\ handle
  /\ asked' = Append(asked, Ask({c}, TRUE))
  /\ touched' = touched \cup {c}
  /\ UNCHANGED <<batching, silentWho, silentBans, askedBans, crossed>>
(* /ban without a mask: list_mode_set takes the flag away.                 *)
ManualBanList(c) ==
  /\ handle
  /\ askedBans' = Append(askedBans, Ask({c}, TRUE))
  /\ silentBans' = silentBans \ {c}
  /\ touched' = touched \cup {c}
  /\ UNCHANGED <<batching, silentWho, asked, crossed>>

UserStep ==
  /\ online
  /\ userSteps < MaxUserSteps /\ userSteps' = userSteps + 1
  /\ \E c \in Channels : \/ EndOfNames(c) /\ UNCHANGED touched
                         \/ Leave(c) \/ ManualWho(c) \/ ManualBanList(c)
  /\ UNCHANGED <<online, handle>>

(* handle_connected clears the flags, the Disconnected event the rest.     *)
Connects ==
  /\ ~online /\ online' = TRUE /\ handle' = TRUE
  /\ silentWho' = {} /\ silentBans' = {}
  /\ UNCHANGED <<batching, asked, askedBans, crossed, touched, userSteps>>
BatchingEnds == queue' = <<>> /\ inFlight' = {} /\ sentAt' = FALSE
Disconnects ==
  /\ online /\ online' = FALSE /\ handle' = FALSE /\ BatchingEnds
  /\ asked' = <<>> /\ askedBans' = <<>> /\ crossed' = {} /\ touched' = {}
  /\ UNCHANGED <<silentWho, silentBans, userSteps>>
(* The end of an earlier session of this connection, reported late, takes  *)
(* the handle of this one; its messages keep coming.                       *)
LosesHandle ==
  /\ handle /\ handle' = FALSE /\ BatchingEnds
  /\ UNCHANGED <<online, silentWho, silentBans, asked, askedBans, crossed, touched, userSteps>>

InSession == online /\ UNCHANGED <<online, handle, touched, userSteps>>
ServerStep == InSession /\ (EndOfWho \/ EndOfBanList \/ Skips)
Tick == InSession /\ Stale
Next == UserStep \/ Connects \/ Disconnects \/ LosesHandle \/ ServerStep \/ Tick
Spec == Init /\ [][Next]_vars
(* The main loop ticks every second; the server owes nothing.              *)
FairSpec == Spec /\ WF_vars(Tick)

-----------------------------------------------------------------------------
(* Nothing waits in the queue without a batch in flight whose timer runs:  *)
(* whichever of a completion, a timeout and a late reply came first.       *)
SomethingMovesTheQueue ==
  /\ queue # <<>> => inFlight # {}
  /\ inFlight # {} <=> sentAt

(* "late replies will still be suppressed": an automatic query that is     *)
(* still unanswered has its flag, timed out or not, unless the channel was *)
(* left or queried again meanwhile.                                        *)
Flagged(requests, flags) ==
  \A i \in DOMAIN requests : ~requests[i].manual => requests[i].chans \subseteq flags \cup crossed \cup touched
LateRepliesAreSilent == Flagged(asked, silentWho) /\ Flagged(askedBans, silentBans)

(* Every channel that was joined is asked about, whatever the server skips *)
(* or delays, as long as the session and its handle last.                  *)
EveryChannelIsAsked == \A c \in Channels : (c \in ToSet(queue)) ~> (c \notin ToSet(queue))

(* "late RPL_ENDOFWHO ... can arrive past the cleanup window", "must stay  *)
(* suppressed": of a channel not left and not asked about by hand, even    *)
(* if the client has asked twice.                                          *)
EveryLateReplyIsSilent ==
  asked # <<>> /\ ~Head(asked).manual => Head(asked).chans \subseteq silentWho \cup touched

(* "never silent - manual request": the answer to /who is shown.           *)
ManualWhoIsShown ==
  asked # <<>> /\ Head(asked).manual => Head(asked).chans \cap silentWho = {}
=============================================================================
