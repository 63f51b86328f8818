---------------------------- MODULE ChannelModes -----------------------------
(***************************************************************************)
(* One channel as its server keeps it and as the client's buffer shows it: *)
(* simple modes, modes with a parameter, the ban list and the modes of the *)
(* nicks (irc/events.rs, commands/handlers_irc.rs, app/who.rs).            *)
(*                                                                         *)
(* `wire' carries the server's messages to the client, `asks' the client's *)
(* commands to the server; both keep their order, and a lost connection    *)
(* loses both.                                                             *)
(***************************************************************************)
EXTENDS Integers, Sequences, FiniteSets, SequencesExt, Functions, TLC

CONSTANTS Flags,       \* the modes without a parameter
          ParamModes,  \* the modes with one, in the order a server lists them: <<"f", "k">>
          Values,      \* the parameters
          Masks, Others, NickModes,
          MAX_LIST_MODE_ENTRIES, MaxChanges, MaxCommands, MaxDrops

LimitIsPositive == MAX_LIST_MODE_ENTRIES \in Nat \ {0}

VARIABLES server,     \* the channel: flags, params, bans, users
          joined,     \* the client is in it, as the server sees it
          wire, asks,
          buf,        \* the client's buffer, or NoBuffer
          silent,     \* silent_banlist_channels holds the channel
          pending,    \* the automatic query of a joined channel is still to be sent
          listed,     \* the list on the screen: what /unban <number> refers to
          changes, commands, drops
vars == <<server, joined, wire, asks, buf, silent, pending, listed, changes, commands, drops>>
counters == <<changes, commands, drops>>

Self == "me"
NoBuffer == [flags |-> {}, params |-> <<>>, bans |-> <<>>, users |-> <<>>, open |-> FALSE]
EmptyBuffer == [NoBuffer EXCEPT !.open = TRUE]
Put(f, x, y) == [z \in DOMAIN f \cup {x} |-> IF z = x THEN y ELSE f[z]]
Del(f, x) == Restrict(f, DOMAIN f \ {x})

(* A change of one mode.                                                   *)
Changes == [kind : {"flag"}, adding : BOOLEAN, mode : Flags, arg : {"none"}]
           \cup [kind : {"param"}, adding : BOOLEAN, mode : ToSet(ParamModes), arg : Values]
           \cup [kind : {"ban"}, adding : BOOLEAN, mode : {"b"}, arg : Masks]
           \cup [kind : {"nick"}, adding : BOOLEAN, mode : NickModes, arg : Others \cup {Self}]

Init == /\ server = [flags |-> {}, params |-> <<>>, bans |-> {}, users |-> [n \in Others |-> {}]]
        /\ joined = FALSE /\ wire = <<>> /\ asks = <<>>
        /\ buf = NoBuffer /\ silent = FALSE /\ pending = FALSE /\ listed = <<>>
        /\ changes = 0 /\ commands = 0 /\ drops = 0

-----------------------------------------------------------------------------
(* The server.                                                             *)
Applied(s, c) ==
  CASE c.kind = "flag" -> [s EXCEPT !.flags = IF c.adding THEN @ \cup {c.mode} ELSE @ \ {c.mode}]
    [] c.kind = "param" -> [s EXCEPT !.params = IF c.adding THEN Put(@, c.mode, c.arg) ELSE Del(@, c.mode)]
    [] c.kind = "ban" -> [s EXCEPT !.bans = IF c.adding THEN @ \cup {c.arg} ELSE @ \ {c.arg}]
    [] c.kind = "nick" -> [s EXCEPT !.users[c.arg] = IF c.adding THEN @ \cup {c.mode} ELSE @ \ {c.mode}]
Possible(c) == (c.kind = "nick" => c.arg \in DOMAIN server.users) /\ Applied(server, c) # server
Broadcast(c) == /\ server' = Applied(server, c)
                /\ wire' = IF joined THEN Append(wire, [what |-> "mode", change |-> c]) ELSE wire

SomeoneSets(c) ==
  /\ changes < MaxChanges /\ changes' = changes + 1 /\ Possible(c) /\ Broadcast(c)
  /\ UNCHANGED <<joined, asks, buf, silent, pending, listed, commands, drops>>

(* RPL_CHANNELMODEIS lists the modes, then the parameters in the same order. *)
ModeIs == [what |-> "modeis", flags |-> server.flags,
           params |-> SelectSeq([i \in DOMAIN ParamModes |-> <<ParamModes[i],
                                   IF ParamModes[i] \in DOMAIN server.params
                                   THEN server.params[ParamModes[i]] ELSE "none">>],
                                LAMBDA p : p[2] # "none")]
BanList == [i \in 1..Cardinality(server.bans) |-> [what |-> "ban", mask |-> SetToSeq(server.bans)[i]]]
           \o <<[what |-> "endofbans"]>>
Names == [what |-> "names", users |-> server.users]

ServerAnswers ==
  /\ asks # <<>> /\ asks' = Tail(asks)
  /\ LET a == Head(asks) IN
     \/ /\ a.what = "join" /\ ~joined /\ joined' = TRUE
        /\ server' = [server EXCEPT !.users = Put(@, Self, {})]
        /\ wire' = wire \o <<[what |-> "join"], [Names EXCEPT !.users = Put(@, Self, {})]>>
     \/ /\ a.what = "part" /\ joined /\ joined' = FALSE
        /\ server' = [server EXCEPT !.users = Del(@, Self)]
        /\ wire' = Append(wire, [what |-> "part"])
     \/ a.what = "query" /\ wire' = Append(wire, ModeIs) /\ UNCHANGED <<server, joined>>
     \/ a.what = "bans" /\ wire' = wire \o BanList /\ UNCHANGED <<server, joined>>
     \/ /\ a.what = "set" /\ UNCHANGED joined
        /\ IF Possible(a.change) THEN Broadcast(a.change) ELSE UNCHANGED <<server, wire>>
     \/ a.what \in {"join", "part"} /\ joined = (a.what = "join") /\ UNCHANGED <<server, joined, wire>>
  /\ UNCHANGED <<buf, silent, pending, listed, counters>>

-----------------------------------------------------------------------------
(* The handlers of the client.                                             *)
UpsertListModeEntry(bs, mask) ==
  IF mask \in ToSet(bs) THEN bs
  ELSE IF Len(bs) < MAX_LIST_MODE_ENTRIES THEN Append(bs, mask) ELSE Append(Tail(bs), mask)
Upserted(bs, mask) == UpsertListModeEntry(bs, mask)
RemoveListModeEntry(bs, mask) == SelectSeq(bs, LAMBDA m : m # mask)

ApplyChannelMode(c) ==
  CASE c.kind = "nick" ->
         IF c.arg \in DOMAIN buf.users
         THEN [buf EXCEPT !.users[c.arg] = IF c.adding THEN @ \cup {c.mode} ELSE @ \ {c.mode}]
         ELSE buf
    [] c.kind = "ban" ->
         [buf EXCEPT !.bans = IF c.adding THEN Upserted(@, c.arg) ELSE RemoveListModeEntry(@, c.arg)]
    [] c.kind = "flag" -> [buf EXCEPT !.flags = IF c.adding THEN @ \cup {c.mode} ELSE @ \ {c.mode}]
    (* the letter always, the parameter only of a key or a limit *)
    [] c.kind = "param" ->
         [buf EXCEPT !.flags = IF c.adding THEN @ \cup {c.mode} ELSE @ \ {c.mode},
                     !.params = IF c.adding THEN IF c.mode \in {"k", "l"} THEN Put(@, c.mode, c.arg) ELSE @
                                ELSE Del(@, c.mode)]
(* Mutant of HandleMode: "+v" takes an op's "@" away.                       *)
ApplyOneNickMode(c) ==
  IF c.kind = "nick" /\ c.adding /\ c.arg \in DOMAIN buf.users
  THEN [buf EXCEPT !.users[c.arg] = {c.mode}] ELSE ApplyChannelMode(c)
HandleMode(c) == ApplyChannelMode(c)

(* The parameters are handed out to the letters k and l, in their order.   *)
ChannelModeIs(m) ==
  LET named == SelectSeq(m.params, LAMBDA p : p[1] \in {"k", "l"}) IN
  [buf EXCEPT !.flags = m.flags \cup {p[1] : p \in ToSet(m.params)},
              !.params = [x \in {p[1] : p \in ToSet(named)} |->
                            m.params[CHOOSE i \in DOMAIN named : named[i][1] = x][2]]]

(* Our own JOIN resets a buffer without users, and is a replay for one with users. *)
HandleSelfJoin == IF buf.open /\ DOMAIN buf.users # {} THEN buf ELSE EmptyBuffer

Receive ==
  /\ wire # <<>> /\ wire' = Tail(wire)
  /\ LET m == Head(wire) IN
     \/ m.what = "join" /\ buf' = HandleSelfJoin /\ UNCHANGED <<silent, pending, listed>>
     \/ /\ m.what = "part" /\ buf' = NoBuffer /\ pending' = FALSE /\ listed' = <<>>
        /\ UNCHANGED silent
     \/ /\ m.what = "names"
        /\ buf' = IF buf.open THEN [buf EXCEPT !.users = m.users @@ @] ELSE buf
        /\ pending' = TRUE        \* RPL_ENDOFNAMES queues the automatic query
        /\ UNCHANGED <<silent, listed>>
     \/ /\ m.what = "mode" /\ buf' = IF buf.open THEN HandleMode(m.change) ELSE buf
        /\ UNCHANGED <<silent, pending, listed>>
     \/ /\ m.what = "modeis" /\ buf' = IF buf.open THEN ChannelModeIs(m) ELSE buf
        /\ UNCHANGED <<silent, pending, listed>>
     \/ /\ m.what = "ban" /\ buf' = IF buf.open THEN [buf EXCEPT !.bans = Upserted(@, m.mask)] ELSE buf
        /\ listed' = IF silent THEN listed ELSE Append(listed, m.mask)
        /\ UNCHANGED <<silent, pending>>
     \/ /\ m.what = "endofbans" /\ silent' = FALSE /\ UNCHANGED <<buf, pending, listed>>
  /\ UNCHANGED <<server, joined, asks, counters>>

(* The automatic query of a joined channel (app/who.rs), answered in silence. *)
SendChannelQuery ==
  /\ pending /\ buf.open /\ pending' = FALSE
  /\ silent' = TRUE /\ buf' = [buf EXCEPT !.bans = <<>>]
  /\ asks' = asks \o <<[what |-> "query"], [what |-> "bans"]>>
  /\ UNCHANGED <<server, joined, wire, listed, counters>>

-----------------------------------------------------------------------------
(* The user's commands.                                                    *)
Commands(as) == /\ commands < MaxCommands /\ commands' = commands + 1
                /\ asks' = asks \o as /\ UNCHANGED <<server, joined, wire, pending, changes, drops>>
Set(c) == [what |-> "set", change |-> c]

Join == /\ ~buf.open /\ Commands(<<[what |-> "join"]>>) /\ UNCHANGED <<buf, silent, listed>>
Sets(cs) == buf.open /\ Commands([i \in DOMAIN cs |-> Set(cs[i])]) /\ UNCHANGED <<buf, silent, listed>>
Mode(c) == c.kind \in {"flag", "param"} /\ Sets(<<c>>)
SetNickMode(c) == c.kind = "nick" /\ Sets(<<c>>)
ListModeSet(c) == c.kind = "ban" /\ c.adding /\ Sets(<<c>>)
Unban(mask) == [kind |-> "ban", adding |-> FALSE, mode |-> "b", arg |-> mask]
ListBans == /\ buf.open /\ Commands(<<[what |-> "bans"]>>)
            /\ silent' = FALSE /\ buf' = [buf EXCEPT !.bans = <<>>] /\ listed' = <<>>
UnbanNumber(i) == i \in DOMAIN buf.bans /\ Sets(<<Unban(buf.bans[i])>>)
UnbanWildcard == buf.bans # <<>> /\ Sets([i \in DOMAIN buf.bans |-> Unban(buf.bans[i])])
Cycle == /\ buf.open /\ Commands(<<[what |-> "part"], [what |-> "join"]>>)
         /\ UNCHANGED <<buf, silent, listed>>

(* The connection is lost and made again: the nick list is wiped, the channel rejoined. *)
Reconnect ==
  /\ drops < MaxDrops /\ drops' = drops + 1 /\ buf.open
  /\ server' = [server EXCEPT !.users = Del(@, Self)] /\ joined' = FALSE
  /\ wire' = <<>> /\ asks' = <<[what |-> "join"]>>
  /\ buf' = [buf EXCEPT !.users = <<>>] /\ silent' = FALSE /\ pending' = FALSE
  /\ UNCHANGED <<listed, changes, commands>>

Next == \/ \E c \in Changes : SomeoneSets(c) \/ Mode(c) \/ SetNickMode(c) \/ ListModeSet(c)
        \/ ServerAnswers \/ Receive \/ SendChannelQuery
        \/ Join \/ ListBans \/ Cycle \/ Reconnect
        \/ \E i \in 1..MAX_LIST_MODE_ENTRIES : UnbanNumber(i)
        \/ UnbanWildcard
Spec == Init /\ [][Next]_vars

-----------------------------------------------------------------------------
Quiet == joined /\ buf.open /\ wire = <<>> /\ asks = <<>> /\ ~pending

TypeOK ==
  /\ DOMAIN server.users \subseteq Others \cup {Self} /\ joined = (Self \in DOMAIN server.users)
  /\ Len(buf.bans) <= MAX_LIST_MODE_ENTRIES /\ IsInjective(buf.bans)
  /\ DOMAIN buf.params \subseteq buf.flags
  /\ ~buf.open => buf = NoBuffer

(* Once everything asked is answered, the buffer shows the modes and the nicks of the channel,   *)
(* whatever was set, by whom, and however often the connection was lost.                         *)
ModesMatch ==
  Quiet => /\ buf.flags = server.flags \cup DOMAIN server.params
           /\ buf.users = server.users
(* So does the list of bans, as long as the channel has no more of them than the buffer keeps.   *)
BansMatch == Quiet /\ Cardinality(server.bans) <= MAX_LIST_MODE_ENTRIES => ToSet(buf.bans) = server.bans
(* The key that the status line shows, and that /cycle joins with, is the key of the channel.    *)
KeyIsTheKey ==
  Quiet => \A m \in {"k", "l"} : /\ m \in DOMAIN buf.params <=> m \in DOMAIN server.params
                                 /\ m \in DOMAIN buf.params => buf.params[m] = server.params[m]

(* Violated by the code: /unban <number> removes the ban that /ban listed under the number       *)
(* (docs/commands/unban.md:14-19).                                                               *)
UnbanHitsTheShownBan ==
  [][\A i \in DOMAIN listed : UnbanNumber(i) => buf.bans[i] = listed[i]]_vars
(* Violated by the code: a ban is listed once for a /ban.                                        *)
ListedOnce == IsInjective(listed)
=============================================================================
