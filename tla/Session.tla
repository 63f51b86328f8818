------------------------------ MODULE Session -------------------------------
(***************************************************************************)
(* The backend and its terminals: shims that connect to the session socket,*)
(* the one that is attached, what it types, what is drawn for it, and the  *)
(* ways out (detached, replaced, killed, the backend quits).               *)
(***************************************************************************)
EXTENDS Naturals, Sequences, FiniteSets, SequencesExt

CONSTANTS Shims, Sizes, MAX_SOCKET_OUTPUT_QUEUE,
          MaxSteps                      \* bounds what users, terminals and signals do

VARIABLES shim,               \* "none", "connected", "relay" (its greeting is sent), "gone"
          size,               \* of its terminal
          up, down,           \* socket and channels, either way
          backlog,            \* connections not accepted yet
          pc,                 \* the main loop: "top", "select", "hello" (awaits a greeting), "quit"
          joining, current,   \* the shim greeted now; the one attached
          attached, detached, shouldDetach,
          terminal, cached,   \* size drawn at (0: no terminal); cached_term_cols and _rows
          pressed, steps      \* shims where the detach key was pressed
shims == <<shim, size, up, pressed>>
flags == <<current, attached, detached, shouldDetach, terminal, cached>>
vars == <<shims, down, backlog, pc, joining, flags, steps>>

None == "none"
DefaultSize == CHOOSE n \in Sizes : TRUE
TermEvents == {"key", "resized"}
Msg(k, n) == [kind |-> k, size |-> n]
Out == "out"

TypeOK ==
  /\ shim \in [Shims -> {"none", "connected", "relay", "gone"}] /\ size \in [Shims -> Sizes]
  /\ \A s \in Shims : Len(down[s]) <= MAX_SOCKET_OUTPUT_QUEUE + 3
  /\ backlog \in SeqOf(Shims, Cardinality(Shims)) /\ pc \in {"top", "select", "hello", "quit"}
  /\ joining \in Shims \cup {None} /\ current \in Shims \cup {None}
  /\ {attached, detached, shouldDetach} \subseteq BOOLEAN
  /\ terminal \in Sizes \cup {0} /\ cached \in Sizes /\ pressed \subseteq Shims
  /\ steps \in 0..MaxSteps

Init ==
  /\ shim = [s \in Shims |-> "none"] /\ size = [s \in Shims |-> DefaultSize]
  /\ up = [s \in Shims |-> << >>] /\ down = [s \in Shims |-> << >>] /\ backlog = << >>
  /\ pc = "top" /\ joining = None /\ current = None
  /\ attached = FALSE /\ detached = TRUE /\ shouldDetach = FALSE
  /\ terminal = 0 /\ cached = DefaultSize /\ pressed = {} /\ steps = 0

Step == steps < MaxSteps /\ steps' = steps + 1
main == <<down, backlog, pc, joining, flags>>
-----------------------------------------------------------------------------
(* A shim connects, says what terminal it has, and relays.                                         *)
Connect(s) ==
  /\ Step /\ shim[s] = "none" /\ pc # "quit"
  /\ shim' = [shim EXCEPT ![s] = "connected"] /\ backlog' = Append(backlog, s)
  /\ UNCHANGED <<size, up, pressed, down, pc, joining, flags>>
Hello(s) ==
  /\ shim[s] = "connected" /\ shim' = [shim EXCEPT ![s] = "relay"]
  /\ up' = [up EXCEPT ![s] = <<Msg("hello", size[s])>>]
  /\ UNCHANGED <<size, pressed, steps>> /\ UNCHANGED main
Says(s, msgs) == /\ Step /\ shim[s] = "relay" /\ up' = [up EXCEPT ![s] = @ \o msgs]
Types(s) == Says(s, <<Msg("key", 0)>>) /\ UNCHANGED <<shim, size, pressed>> /\ UNCHANGED main
PressesDetach(s) ==
  /\ Says(s, <<Msg("detach", 0)>>) /\ pressed' = pressed \cup {s}
  /\ UNCHANGED <<shim, size>> /\ UNCHANGED main
(* The input reader and the SIGWINCH task each report a new size.                                  *)
Resizes(s, n) ==
  /\ n # size[s] /\ size' = [size EXCEPT ![s] = n]
  /\ \/ Says(s, <<Msg("resized", n), Msg("resize", n)>>)
     \/ Says(s, <<Msg("resize", n), Msg("resized", n)>>)
  /\ UNCHANGED <<shim, pressed>> /\ UNCHANGED main
Leaves(s) == shim' = [shim EXCEPT ![s] = "gone"] /\ UNCHANGED <<size, up, pressed>>
Dies(s) == Step /\ shim[s] \in {"connected", "relay"} /\ Leaves(s) /\ UNCHANGED main
Reads(s) ==
  /\ shim[s] = "relay" /\ down[s] # << >> /\ down' = [down EXCEPT ![s] = Tail(@)]
  /\ \/ Head(down[s]) = Out /\ UNCHANGED shims
     \/ Head(down[s]) # Out /\ Leaves(s)
  /\ UNCHANGED <<backlog, pc, joining, flags, steps>>
ConnectionLost(s) ==
  /\ pc = "quit" /\ shim[s] \in {"connected", "relay"} /\ down[s] = << >> /\ Leaves(s)
  /\ UNCHANGED steps /\ UNCHANGED main
-----------------------------------------------------------------------------
(* The top of the loop: a detach that is due, else a frame.  A draw fails when the queue is full   *)
(* or nobody takes from it; the detach that follows waits for the next time round.                 *)
TornDown == /\ current' = None /\ attached' = FALSE /\ terminal' = 0
Told(m) == IF current = None THEN down ELSE [down EXCEPT ![current] = Append(@, m)]
PerformDetach ==
  /\ shouldDetach /\ down' = Told("detached") /\ TornDown /\ detached' = TRUE
  /\ shouldDetach' = FALSE /\ UNCHANGED cached
HasRoom == Len(down[current]) < MAX_SOCKET_OUTPUT_QUEUE
Draw ==
  /\ ~shouldDetach
  /\ \/ UNCHANGED <<down, terminal, shouldDetach>>
     \/ /\ terminal # 0 /\ HasRoom
        /\ down' = Told(Out) /\ UNCHANGED <<terminal, shouldDetach>>
     \/ /\ terminal # 0
        /\ ~HasRoom \/ shim[current] = "gone"
        /\ terminal' = 0 /\ shouldDetach' = TRUE /\ UNCHANGED down
  /\ UNCHANGED <<current, attached, detached, cached>>
Top ==
  /\ pc = "top" /\ pc' = "select" /\ (PerformDetach \/ Draw)
  /\ UNCHANGED <<backlog, joining, steps>> /\ UNCHANGED shims

(* One branch of the select.  After a terminal event what has arrived behind it is drained too,    *)
(* and of that only the terminal events are handled.                                               *)
Branch == pc = "select" /\ pc' = "top" /\ UNCHANGED <<joining, backlog>>
Sized(msgs) ==
  LET R == {i \in DOMAIN msgs : msgs[i].kind = "resized"} IN
  IF R = {} THEN cached ELSE msgs[Max(R)].size
DetachCommand == shouldDetach' \in {shouldDetach, TRUE}    \* one of the keys may end "/detach"
TermEvent ==
  /\ Branch /\ current # None /\ up[current] # << >> /\ Head(up[current]).kind \in TermEvents
  /\ \E n \in 1..Len(up[current]) :
       LET D == SubSeq(up[current], 1, n) IN
       /\ up' = [up EXCEPT ![current] = SubSeq(@, n + 1, Len(@))] /\ cached' = Sized(D)
       /\ IF \E i \in 1..n : D[i].kind = "key" THEN DetachCommand ELSE UNCHANGED shouldDetach
  /\ UNCHANGED <<shim, size, pressed, down, current, attached, detached, terminal, steps>>
OtherMessage ==
  /\ Branch /\ current # None /\ up[current] # << >> /\ up' = [up EXCEPT ![current] = Tail(@)]
  /\ LET m == Head(up[current]) IN
     \/ /\ m.kind = "resize" /\ cached' = m.size
        /\ terminal' = IF terminal = 0 THEN 0 ELSE m.size
        /\ UNCHANGED shouldDetach
     \/ m.kind = "detach" /\ shouldDetach' = TRUE /\ UNCHANGED <<terminal, cached>>
  /\ UNCHANGED <<shim, size, pressed, down, current, attached, detached, steps>>
ShimLost ==
  /\ Branch /\ current # None /\ up[current] = << >> /\ shim[current] = "gone"
  /\ TornDown /\ detached' = TRUE
  /\ UNCHANGED <<down, shouldDetach, cached, steps>> /\ UNCHANGED shims
Disconnected(m) == down' = Told(m) /\ TornDown
DisconnectShim == Disconnected("detached")
Accept ==
  /\ pc = "select" /\ backlog # << >> /\ pc' = "hello"
  /\ joining' = Head(backlog) /\ backlog' = Tail(backlog) /\ DisconnectShim
  /\ UNCHANGED <<detached, shouldDetach, cached, steps>> /\ UNCHANGED shims
Attaches == attached' = TRUE /\ detached' = FALSE
(* Mutant of Attach: the mark of the detachment stays. *)
StillDetached == attached' = TRUE /\ UNCHANGED detached
Attach == Attaches
HelloArrives ==
  /\ pc = "hello" /\ pc' = "top" /\ joining' = None /\ up[joining] # << >>
  /\ current' = joining /\ Attach
  /\ terminal' = Head(up[joining]).size /\ cached' = terminal'
  /\ up' = [up EXCEPT ![joining] = Tail(@)] /\ down' = [down EXCEPT ![joining] = <<Out>>]
  /\ UNCHANGED <<shim, size, pressed, shouldDetach, backlog, steps>>
(* Mutant of HelloFails: a shim that died before its hello is waited for. *)
AwaitsForever == FALSE
HelloFails ==
  /\ pc = "hello" /\ up[joining] = << >> /\ shim[joining] = "gone"
  /\ pc' = "top" /\ joining' = None
  /\ UNCHANGED <<down, flags, backlog, steps>> /\ UNCHANGED shims
OtherBranch ==
  /\ Branch /\ UNCHANGED <<down, flags, steps>> /\ UNCHANGED shims
Sighup ==
  /\ Step /\ Branch /\ ~detached /\ shouldDetach' = TRUE
  /\ UNCHANGED <<down, current, attached, detached, terminal, cached>> /\ UNCHANGED shims
(* SIGTERM, SIGINT while detached, /quit: the attached shim is told, every socket closes.          *)
Quit ==
  /\ Step /\ pc = "select" /\ pc' = "quit" /\ down' = Told("quit") /\ TornDown
  /\ UNCHANGED <<backlog, joining, detached, shouldDetach, cached>> /\ UNCHANGED shims

Next ==
  \/ \E s \in Shims : \/ Connect(s) \/ Hello(s) \/ Types(s) \/ PressesDetach(s)
                      \/ Dies(s) \/ Reads(s) \/ ConnectionLost(s)
                      \/ \E n \in Sizes : Resizes(s, n)
  \/ Top \/ TermEvent \/ OtherMessage \/ ShimLost \/ Accept \/ HelloArrives \/ HelloFails
  \/ OtherBranch \/ Sighup \/ Quit
Spec == Init /\ [][Next]_vars
(* Shims run; the loop comes round, and its select starves no branch.                              *)
FairSpec ==
  /\ Spec /\ WF_vars(Top) /\ WF_vars(HelloArrives) /\ WF_vars(HelloFails)
  /\ SF_vars(TermEvent) /\ SF_vars(OtherMessage) /\ SF_vars(ShimLost) /\ SF_vars(Accept)
  /\ \A s \in Shims : WF_vars(Hello(s)) /\ WF_vars(Reads(s)) /\ WF_vars(ConnectionLost(s))
-----------------------------------------------------------------------------
(* A terminal that the backend no longer serves is told why, whatever took its place.              *)
ReplacedShimsAreTold ==
  \A s \in Shims : (shim[s] = "relay" /\ pc # "quit")
    => s \in {joining, current} \cup ToSet(backlog) \/ "detached" \in ToSet(down[s])

(* A frame is drawn for an attached terminal only, and SIGHUP and SIGINT, which ask "detached",    *)
(* find it false while one is attached.                                                            *)
DetachedMeansAlone == (terminal # 0 => attached) /\ (attached => ~detached)

(* Whoever connects gets the screen or leaves, whatever the other terminals and the signals do.    *)
TerminalsAreServed == \A s \in Shims : shim[s] = "connected" ~> (current = s \/ shim[s] = "gone")

(* The code does not give these.  The detach key leaves the session: it is lost when it arrives    *)
(* behind another key.                                                                             *)
DetachKeyDetaches == \A s \in Shims : s \in pressed ~> shim[s] = "gone"
(* Once nothing is under way the screen is drawn in the terminal's size: a size is lost likewise.  *)
SizeIsTheirs ==
  (terminal # 0 /\ up[current] = << >> /\ shim[current] = "relay") => terminal = size[current]
(* A new terminal is not sent away by the detach that was due for the one before it.               *)
NewTerminalsStay == [][current' \notin {current, None} => ~shouldDetach']_vars
(* While "detached" is false somebody is attached, or about to be: not after a greeting failed.    *)
AttachedOrDetached == detached \/ attached \/ pc = "hello"
-----------------------------------------------------------------------------
(* The inductive invariant.  A connection waits for its turn at one place; the first              *)
(* thing it says is its greeting; what is left for a shim to read ends with the reason it was left.*)
SessionAssumption ==
  /\ IsFiniteSet(Shims) /\ None \notin Shims
  /\ Sizes \subseteq Nat \ {0} /\ Sizes # {}
  /\ MAX_SOCKET_OUTPUT_QUEUE \in Nat \ {0} /\ MaxSteps \in Nat

Messages == {Msg("key", 0), Msg("detach", 0)}
            \cup {Msg(k, n) : k \in {"hello", "resized", "resize"}, n \in Sizes}
Sent == {Out, "detached", "quit"}
ShimTypes ==
  /\ shim \in [Shims -> {"none", "connected", "relay", "gone"}] /\ size \in [Shims -> Sizes]
  /\ up \in [Shims -> Seq(Messages)] /\ down \in [Shims -> Seq(Sent)] /\ pressed \subseteq Shims
LoopTypes ==
  /\ backlog \in Seq(Shims) /\ pc \in {"top", "select", "hello", "quit"}
  /\ joining \in Shims \cup {None} /\ current \in Shims \cup {None}
  /\ attached \in BOOLEAN /\ detached \in BOOLEAN /\ shouldDetach \in BOOLEAN
  /\ terminal \in Sizes \cup {0} /\ cached \in Sizes /\ steps \in 0..MaxSteps
Typed == ShimTypes /\ LoopTypes

Once(q) == \A i, j \in DOMAIN q : q[i] = q[j] => i = j
Waiting == ToSet(backlog) \cup {joining}
OnePlaceEach ==
  /\ Once(backlog) /\ joining \notin ToSet(backlog) /\ current \notin ToSet(backlog)
  /\ IF pc = "hello" THEN joining \in Shims /\ current = None ELSE joining = None
  /\ \A s \in Shims : shim[s] = "none" => s \notin Waiting \cup {current}
Greeted(s) ==
  /\ shim[s] \in {"none", "connected"} => up[s] = << >>
  /\ s \in Waiting => /\ shim[s] = "relay" => up[s] # << >>
                      /\ up[s] # << >> => Head(up[s]).kind = "hello"
ServedOrTold(s) ==
  (shim[s] \in {"connected", "relay"} /\ pc # "quit")
    => s \in Waiting \cup {current} \/ "detached" \in ToSet(down[s])
Bounded(s) ==
  Len(down[s]) <= (IF s = current THEN 0 ELSE 1) + MAX_SOCKET_OUTPUT_QUEUE
Screen == /\ attached <=> current # None
          /\ terminal # 0 => attached
          /\ attached => ~detached
SessionInv ==
  /\ Typed /\ OnePlaceEach /\ Screen
  /\ \A s \in Shims : Greeted(s) /\ ServedOrTold(s) /\ Bounded(s)
=============================================================================
