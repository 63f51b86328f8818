---------------------------- MODULE Registration ----------------------------
(***************************************************************************)
(* Registration with an IRC server: CAP LS, REQ and END, SASL, the welcome,*)
(* and the capabilities the server changes later.  Messages that arrive    *)
(* during CAP LS are kept and replayed once the reader task runs.          *)
(***************************************************************************)
EXTENDS Naturals, Sequences, FiniteSets, SequencesExt

CONSTANTS DESIRED_CAPS,
          MaxNotices, MaxChanges    \* bounds

VARIABLES pc,                \* of the task: "ls", "ack", "plus", "sasl", "reader", "up"
          mech,              \* SASL mechanism selected, or "none"
          asked, enabled,    \* capabilities requested; enabled, as the task knows
          early,             \* messages kept for replay
          caps,              \* Connection.enabled_caps
          inbox,             \* from the server
          server,            \* [ircv3, offers, on, mechs, account, auth, ended, welcomed,
                             \*  answered, silent]
          creds, cert,       \* sasl_user and sasl_pass; client certificate
          notices, shown,    \* notices the server sent; shown to the user
          changes,
          missed             \* history: capabilities whose last ACK or DEL came before the
                             \* welcome, where it is dropped or overwritten
task == <<pc, mech, asked, enabled, early>>
vars == <<task, caps, inbox, server, creds, cert, notices, shown, changes, missed>>

Mechanisms == {"EXTERNAL", "SCRAM-SHA-256", "PLAIN"}
Msg(k, c) == [kind |-> k, caps |-> c]

TypeOK ==
  /\ pc \in {"ls", "ack", "plus", "sasl", "reader", "up"} /\ mech \in Mechanisms \cup {"none"}
  /\ asked \cup enabled \cup caps \cup missed \subseteq DESIRED_CAPS
  /\ server.on \subseteq DESIRED_CAPS /\ shown <= notices /\ notices \in 0..MaxNotices
  /\ changes \in 0..MaxChanges /\ (mech # "none" => creds \/ cert)

Init ==
  /\ pc = "ls" /\ mech = "none" /\ asked = {} /\ enabled = {} /\ early = << >> /\ caps = {}
  /\ \E v \in {"yes", "no", "unknown"}, o \in SUBSET DESIRED_CAPS, m \in SUBSET Mechanisms :
       server = [ircv3 |-> v, offers |-> o, on |-> {}, mechs |-> m, account |-> FALSE,
                 auth |-> "none", ended |-> FALSE, welcomed |-> FALSE, answered |-> FALSE,
                 silent |-> FALSE]
  /\ inbox = << >> /\ creds \in BOOLEAN /\ cert \in BOOLEAN
  /\ notices = 0 /\ shown = 0 /\ changes = 0 /\ missed = {}

(* select_sasl_mechanism without an override; "sasl" without a value means PLAIN.                  *)
Offered == IF "sasl" \in server.offers
           THEN IF server.mechs = {} THEN {"PLAIN"} ELSE server.mechs ELSE {}
Select ==
  IF cert /\ "EXTERNAL" \in Offered THEN "EXTERNAL"
  ELSE IF creds /\ "SCRAM-SHA-256" \in Offered THEN "SCRAM-SHA-256"
  ELSE IF creds /\ "PLAIN" \in Offered THEN "PLAIN" ELSE "none"
-----------------------------------------------------------------------------
(* The server.  One that fell silent neither sends nor takes anything more.                        *)
FallsSilent ==
  /\ ~server.silent /\ server' = [server EXCEPT !.silent = TRUE]
  /\ UNCHANGED <<task, caps, inbox, creds, cert, shown, missed, notices, changes>>
Send(m) == ~server.silent /\ inbox' = inbox \o m
ours == <<task, caps, creds, cert, shown, missed>>
AnswerLs ==
  /\ ~server.answered
  /\ \/ /\ server.ircv3 = "yes" /\ server' = [server EXCEPT !.answered = TRUE]
        /\ \/ Send(<<Msg("LS", server.offers)>>)
           \/ \E S \in SUBSET server.offers : Send(<<Msg("LS*", S), Msg("LS", server.offers \ S)>>)
     \/ /\ server.ircv3 = "unknown" /\ Send(<<Msg("421", {}), Msg("001", {})>>)
        /\ server' = [server EXCEPT !.answered = TRUE, !.welcomed = TRUE]
     \/ /\ server.ircv3 = "no" /\ Send(<<Msg("001", {})>>)
        /\ server' = [server EXCEPT !.answered = TRUE, !.welcomed = TRUE]
  /\ UNCHANGED <<ours, notices, changes>>
Notice ==
  /\ notices < MaxNotices /\ notices' = notices + 1 /\ Send(<<Msg("NOTICE", {})>>)
  /\ UNCHANGED <<ours, server, changes>>
Authenticates ==
  /\ \/ /\ server.auth = "asked" /\ Send(<<Msg("AUTHENTICATE +", {})>>)
        /\ server' = [server EXCEPT !.auth = "ready"]
     \/ /\ server.auth = "asked" /\ Send(<<Msg("904", {})>>)
        /\ server' = [server EXCEPT !.auth = "none"]
     \/ /\ server.auth = "first" /\ Send(<<Msg("server-first", {})>>)
        /\ server' = [server EXCEPT !.auth = "challenged"]
     \/ /\ server.auth = "credentials"
        /\ \/ Send(<<Msg("903", {})>>) /\ server' = [server EXCEPT !.auth = "done", !.account = TRUE]
           \/ Send(<<Msg("904", {})>>) /\ server' = [server EXCEPT !.auth = "none"]
  /\ UNCHANGED <<ours, notices, changes>>
Welcome ==
  /\ server.ended /\ ~server.welcomed /\ server' = [server EXCEPT !.welcomed = TRUE]
  /\ Send(<<Msg("001", {})>>) /\ UNCHANGED <<ours, notices, changes>>
(* CAP LS 302 subscribes the client to changes, from the answer on (cap-notify). *)
MayNotify == changes < MaxChanges /\ server.ircv3 = "yes" /\ server.answered
Withdraws(c) ==
  /\ MayNotify /\ c \in server.offers \ {"sasl"} /\ changes' = changes + 1
  /\ server' = [server EXCEPT !.offers = @ \ {c}, !.on = @ \ {c}] /\ Send(<<Msg("DEL", {c})>>)
  /\ UNCHANGED <<ours, notices>>
Offers(c) ==
  /\ MayNotify /\ c \in DESIRED_CAPS \ (server.offers \cup {"sasl"}) /\ changes' = changes + 1
  /\ server' = [server EXCEPT !.offers = @ \cup {c}] /\ Send(<<Msg("NEW", {c})>>)
  /\ UNCHANGED <<ours, notices>>

(* The server takes CAP REQ c as a whole or not at all, and may need two lines to say so.          *)
Requested(c, rest) ==
  \/ server.silent /\ inbox' = rest /\ UNCHANGED server
  \/ /\ ~server.silent /\ c \subseteq server.offers /\ server' = [server EXCEPT !.on = @ \cup c]
     /\ \/ inbox' = Append(rest, Msg("ACK", c))
        \/ \E S \in (SUBSET c) \ {{}, c} :
             inbox' = Append(Append(rest, Msg("ACK", S)), Msg("ACK", c \ S))
  \/ /\ ~server.silent /\ ~(c \subseteq server.offers)
     /\ inbox' = Append(rest, Msg("NAK", c)) /\ UNCHANGED server
(* What a message that is taken before the welcome would have changed.                             *)
Changed(m) == IF m.kind \in {"ACK", "DEL"} THEN m.caps ELSE {}
-----------------------------------------------------------------------------
(* negotiate_caps.  The task takes one message; what happens next depends on where it is.          *)
ToTask == inbox # << >> /\ pc \notin {"reader", "up"}
Rest == Tail(inbox)
others == <<caps, creds, cert, notices, shown, changes>>
(* Mutant of End: CAP END is never sent. *)
EndUnsent(on) == pc' = "reader" /\ enabled' = on /\ UNCHANGED server
End(on) ==
  /\ pc' = "reader" /\ enabled' = on /\ server' = [server EXCEPT !.ended = TRUE, !.auth = "none"]
CapLs ==
  /\ ToTask /\ pc = "ls" /\ UNCHANGED <<others, missed>>
  /\ LET m == Head(inbox)
         C == asked \cup m.caps
         want == IF Select = "none" THEN C \ {"sasl"} ELSE C IN
     \/ /\ m.kind = "LS" /\ mech' = Select /\ asked' = want /\ UNCHANGED <<early>>
        /\ IF want = {} THEN End({}) /\ inbox' = Rest
           ELSE pc' = "ack" /\ Requested(want, Rest) /\ UNCHANGED enabled
     \/ /\ m.kind = "LS*" /\ asked' = C /\ inbox' = Rest
        /\ UNCHANGED <<pc, mech, enabled, early, server>>
     \/ /\ m.kind \in {"421", "001"} /\ pc' = "reader" /\ inbox' = Rest
        /\ early' = IF m.kind = "001" THEN Append(early, m) ELSE early
        /\ UNCHANGED <<mech, asked, enabled, server>>
     \/ /\ m.kind \notin {"LS", "LS*", "421", "001"} /\ early' = Append(early, m) /\ inbox' = Rest
        /\ UNCHANGED <<pc, mech, asked, enabled, server>>
CapAck ==
  /\ ToTask /\ pc = "ack" /\ inbox' = Rest /\ UNCHANGED <<others, mech, asked, early>>
  /\ LET m == Head(inbox) IN
     IF m.kind \notin {"ACK", "NAK"}
     THEN missed' = missed \cup Changed(m) /\ UNCHANGED <<pc, enabled, server>>
     ELSE UNCHANGED missed /\ LET on == IF m.kind = "ACK" THEN m.caps ELSE {} IN
          IF "sasl" \notin on THEN End(on)
          ELSE /\ pc' = "plus" /\ enabled' = on /\ server' = [server EXCEPT !.auth = "asked"]

(* run_sasl_plain, run_sasl_scram and run_sasl_external.                                           *)
Fails == End(enabled \ {"sasl"})
FirstReply == IF mech = "SCRAM-SHA-256" THEN "first" ELSE "credentials"
AwaitAuthenticatePlus ==
  /\ ToTask /\ pc = "plus" /\ inbox' = Rest /\ UNCHANGED <<others, mech, asked, early>>
  /\ missed' = missed \cup Changed(Head(inbox))
  /\ LET m == Head(inbox) IN
     \/ /\ m.kind = "AUTHENTICATE +" /\ pc' = "sasl" /\ UNCHANGED enabled
        /\ server' = [server EXCEPT !.auth = FirstReply]
     \/ m.kind = "904" /\ Fails
     \/ m.kind \notin {"AUTHENTICATE +", "904"} /\ UNCHANGED <<pc, enabled, server>>
(* SASL_TIMEOUT_SECS, whatever is already on its way.                                              *)
PlusTimesOut ==
  /\ pc = "plus" /\ Fails /\ UNCHANGED <<others, missed, inbox, mech, asked, early>>
Awaited(m) == m.kind = "903"
(* Mutant of Succeeds: any numeric is taken for success. *)
NotAwaited(m) == TRUE
Succeeds(m) == Awaited(m)
RunSasl ==
  /\ ToTask /\ pc = "sasl" /\ inbox' = Rest /\ UNCHANGED <<others, mech, asked, early>>
  /\ missed' = missed \cup Changed(Head(inbox))
  /\ LET m == Head(inbox) IN
     \/ Succeeds(m) /\ End(enabled)
     \/ m.kind = "904" /\ Fails
     \/ /\ m.kind = "server-first" /\ server' = [server EXCEPT !.auth = "credentials"]
        /\ UNCHANGED <<pc, enabled>>
     \/ m.kind \notin {"903", "904", "server-first"} /\ UNCHANGED <<pc, enabled, server>>
-----------------------------------------------------------------------------
(* The reader task and the handlers: the early messages first, then the stream.                    *)
Source == IF early # << >> THEN early ELSE inbox
Deleted(c) == caps \ c
HandleCapDel(c) == Deleted(c)
Handle(m, rest) ==
  \/ /\ m.kind = "001" /\ pc' = "up" /\ caps' = enabled /\ inbox' = rest /\ UNCHANGED <<server, shown>>
  \/ /\ m.kind = "NOTICE" /\ shown' = shown + 1 /\ inbox' = rest /\ UNCHANGED <<pc, caps, server>>
  \/ /\ m.kind = "NEW" /\ UNCHANGED <<pc, caps, shown>>
     /\ LET new == (m.caps \cap DESIRED_CAPS) \ caps IN
        IF new = {} THEN inbox' = rest /\ UNCHANGED server ELSE Requested(new, rest)
  \/ /\ m.kind = "DEL" /\ caps' = HandleCapDel(m.caps) /\ inbox' = rest
     /\ UNCHANGED <<pc, server, shown>>
  \/ /\ m.kind = "ACK" /\ caps' = caps \cup m.caps /\ inbox' = rest /\ UNCHANGED <<pc, server, shown>>
  \/ /\ m.kind \notin {"001", "NOTICE", "NEW", "DEL", "ACK"} /\ inbox' = rest
     /\ UNCHANGED <<pc, caps, server, shown>>
Read ==
  /\ pc \in {"reader", "up"} /\ Source # << >>
  /\ early' = IF early # << >> THEN Tail(early) ELSE early
  /\ Handle(Head(Source), IF early # << >> THEN inbox ELSE Rest)
  /\ missed' = IF pc = "up" THEN missed \ Changed(Head(Source)) ELSE missed \cup Changed(Head(Source))
  /\ UNCHANGED <<mech, asked, enabled, creds, cert, notices, changes>>

Next ==
  \/ FallsSilent \/ AnswerLs \/ Notice \/ Authenticates \/ Welcome
  \/ \E c \in DESIRED_CAPS : Withdraws(c) \/ Offers(c)
  \/ CapLs \/ CapAck \/ AwaitAuthenticatePlus \/ PlusTimesOut \/ RunSasl \/ Read
Spec == Init /\ [][Next]_vars
Task == CapLs \/ CapAck \/ AwaitAuthenticatePlus \/ RunSasl \/ Read
FairSpec == Spec /\ WF_vars(AnswerLs) /\ WF_vars(Authenticates) /\ WF_vars(Welcome)
                 /\ WF_vars(Task) /\ WF_vars(PlusTimesOut)
-----------------------------------------------------------------------------
(* With nothing under way the client and the server agree on each capability, over every change,   *)
(* but for those whose last ACK or DEL the client took before the welcome: negotiate_caps reads    *)
(* one ACK and drops what else comes while it waits, and the welcome overwrites what the reader    *)
(* task handled before it.  The next change of such a capability mends it.                         *)
CapsAgree ==
  (pc = "up" /\ Source = << >>) =>
    \A c \in DESIRED_CAPS \ {"sasl"} : c \in missed \/ (c \in caps <=> c \in server.on)

(* CAP END never cuts off an authentication: after it the client believes in its login exactly if  *)
(* the server does, also if it gave up waiting for AUTHENTICATE +.                                 *)
LoginIsMutual ==
  (pc \in {"reader", "up"} /\ mech # "none" /\ server.ircv3 = "yes")
    => ("sasl" \in enabled <=> server.account)

(* Registration ends, whatever server it is and however authentication goes, or the client waits   *)
(* for a server that fell silent: in CAP LS, ACK, the outcome of SASL or the welcome, which have   *)
(* no timeout; only the wait for AUTHENTICATE + has one.                                           *)
RegistrationEnds == <>(pc = "up" \/ (server.silent /\ pc # "plus"))

(* The code does not give this: what arrives while ACK and SASL are awaited is dropped.            *)
NothingIsDropped == (pc = "up" /\ Source = << >>) => shown = notices
=============================================================================
