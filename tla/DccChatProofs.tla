---------------------------- MODULE DccChatProofs ----------------------------
(***************************************************************************)
(* What DccChat promises as long as no two offers draw the same token      *)
(* ("collide" \notin Allowed): proofs for any sets of peers, nicks, tasks  *)
(* and tokens, and any limits.  The invariant is about tables rs and ss,   *)
(* for the handlers remove one record before they add another.  At the end *)
(* what the run of MCSessions promises, with the terminals of Session.     *)
(***************************************************************************)
EXTENDS MCSessions, TLAPS, FiniteSetTheorems, SequenceTheorems, WellFoundedInduction

TaskRecords == [stage : Stages, id : Ids \cup {NoId}, peer : Peers \cup Tasks \cup {Nobody}]
Asks == [peer : Peers, token : Tokens]
Types(rs, ss, ts, ak, sp) ==
  /\ rs \in [Ids -> Records \cup {NoRecord}] /\ ss \in [Ids -> Tasks \cup {NoTask}]
  /\ ts \in [Tasks -> TaskRecords] /\ ak \subseteq Asks /\ sp \subseteq Tokens
  /\ IsFiniteSet(Open(rs))
(* A record dials the person it is about, or a listener of ours, or waits  *)
(* to be told where.                                                       *)
Address(r) == r.addr \in {r.who, Nowhere} \cup Tasks
(* The task at the other end of a record's line channel has been started,  *)
(* and talks to the person the record is about, or to a task of ours, or   *)
(* to nobody yet; unless its record was closed by nick.                    *)
Serves(task, r) == task.stage # "free" /\ task.peer \in {r.who, Nobody} \cup Tasks
SendersServe(lf, rs, ss, ts) ==
  \A id \in Ids : ss[id] # NoTask =>
    /\ ts[ss[id]].stage # "free"
    /\ (rs[id] # NoRecord /\ Serves(ts[ss[id]], rs[id])) \/ ss[id] \in lf
(* A task in a session talks to somebody.                                  *)
HasPeer(task) == task.stage = "session" => task.peer \in Peers \cup Tasks
(* A token is given out once, and the record that has it is about the      *)
(* person who was asked.                                                   *)
TokensAreSpent(rs, ak, sp) ==
  /\ \A id \in Open(rs) : rs[id].token \in sp \cup {NoToken}
  /\ \A ask \in ak : ask.token \in sp
AsksAreTheirs(rs, ak) ==
  /\ \A ask \in ak, id \in Open(rs) : rs[id].token = ask.token => rs[id].who = ask.peer
  /\ \A a, b \in ak : a.token = b.token => a = b
Sound(lf, rs, ss, ts, ak, sp) ==
  /\ Types(rs, ss, ts, ak, sp) /\ SendersServe(lf, rs, ss, ts)
  /\ \A id \in Open(rs) : Address(rs[id])
  /\ \A t \in Tasks : HasPeer(ts[t])
  /\ TokensAreSpent(rs, ak, sp) /\ AsksAreTheirs(rs, ak)
DccInv == /\ Sound(left, records, senders, tasks, asked, spent)
          /\ nickOf \in [Peers -> Nicks \cup {NoNick}]

-----------------------------------------------------------------------------
(* A set of numbers has a least one.                                       *)
LEMMA Least ==
  ASSUME NEW U \in SUBSET Nat, U # {}
  PROVE  \E k \in U : \A j \in U : ~(j < k)
<1> DEFINE R == OpToRel(<, Nat)
<1>1. IsWellFoundedOn(R, Nat)
  BY NatLessThanWellFounded
<1>2. \A x, y \in Nat : y < x => <<y, x>> \in R
  BY DEF OpToRel
<1> HIDE DEF R
<1>3. PICK k \in U : \A y \in U : ~(<<y, k>> \in R)
  BY <1>1, WFMin
<1> QED
  BY <1>2, <1>3

(* With less than MaxConnections records one of MaxConnections + 1 ids is  *)
(* free.                                                                   *)
LEMMA SomeIdIsFree ==
  ASSUME NEW rs \in [Ids -> Records \cup {NoRecord}], IsFiniteSet(Open(rs)), ~Full(rs),
         NEW n \in Nicks
  PROVE  \E k \in 1 .. MaxConnections + 1 : rs[<<n, k>>] = NoRecord
<1> SUFFICES ASSUME \A k \in 1 .. MaxConnections + 1 : rs[<<n, k>>] # NoRecord PROVE FALSE
  OBVIOUS
<1>0. MaxConnections \in Nat
  BY DccAssumption
<1> DEFINE N == 1 .. MaxConnections + 1
           id == [k \in N |-> <<n, k>>]
<1>1. id \in Injection(N, Open(rs))
  <2>1. \A k \in N : <<n, k>> \in Open(rs)
    BY DEF Open, Ids
  <2>2. \A a, b \in N : id[a] = id[b] => a = b
    OBVIOUS
  <2> QED
    BY <2>1, <2>2 DEF Injection, IsInjective
<1>2. IsFiniteSet(N) /\ Cardinality(N) = MaxConnections + 1
  BY <1>0, FS_Interval
<1> HIDE DEF N, id
<1>3. Cardinality(N) <= Cardinality(Open(rs))
  BY <1>1, FS_Injection
<1> QED
  BY <1>0, <1>2, <1>3, FS_CardinalityType DEF Full

LEMMA GeneratedIdIsFree ==
  ASSUME NEW rs \in [Ids -> Records \cup {NoRecord}], IsFiniteSet(Open(rs)), ~Full(rs),
         NEW n \in Nicks
  PROVE  GenerateId(rs, n) \in Ids /\ rs[GenerateId(rs, n)] = NoRecord
<1> DEFINE U == {k \in 1 .. MaxConnections + 1 : rs[<<n, k>>] = NoRecord}
<1>1. U \in SUBSET Nat /\ U # {} /\ MaxConnections \in Nat
  BY SomeIdIsFree, DccAssumption
<1>2. PICK k \in U : \A j \in U : ~(j < k)
  BY <1>1, Least
<1>3. /\ k \in 1 .. MaxConnections + 1 /\ rs[<<n, k>>] = NoRecord
      /\ \A j \in 1 .. k - 1 : rs[<<n, j>>] # NoRecord
  BY <1>1, <1>2
<1> DEFINE first == CHOOSE j \in 1 .. MaxConnections + 1 :
                       rs[<<n, j>>] = NoRecord /\ \A i \in 1 .. j - 1 : rs[<<n, i>>] # NoRecord
<1>4. first \in 1 .. MaxConnections + 1 /\ rs[<<n, first>>] = NoRecord
  BY <1>3
<1> QED
  BY <1>4 DEF GenerateId, Ids

-----------------------------------------------------------------------------
(* What each change of the tables keeps.                                   *)

LEMMA RecordFacts ==
  ASSUME NEW rs \in [Ids -> Records \cup {NoRecord}], NEW id \in Open(rs)
  PROVE  id \in Ids /\ rs[id] \in Records /\ rs[id] # NoRecord
BY DEF Open

(* A free id gets a record.                                                *)
Adds(rs, ak, sp, id, r, new) ==
  /\ id \in Ids /\ rs[id] = NoRecord /\ new = [rs EXCEPT ![id] = r]
  /\ r \in Records /\ Address(r)
  /\ r.token \in sp \cup {NoToken} /\ \A ask \in ak : r.token # ask.token
LEMMA RecordAdded ==
  ASSUME NEW rs, NEW ss, NEW ts, NEW ak, NEW sp, Sound(left, rs, ss, ts, ak, sp),
         NEW id, NEW r, NEW new, Adds(rs, ak, sp, id, r, new)
  PROVE  Sound(left, new, ss, ts, ak, sp) /\ new[id] = r /\ id \in Open(new)
<1>0. Adds(rs, ak, sp, id, r, new)
  OBVIOUS
<1> USE <1>0 DEF Adds
<1>1. rs \in [Ids -> Records \cup {NoRecord}] /\ r # NoRecord
  BY NoRecordAssumption DEF Sound, Types
<1>2. /\ new \in [Ids -> Records \cup {NoRecord}] /\ new[id] = r
      /\ \A i \in Ids \ {id} : new[i] = rs[i]
  BY <1>1
<1>3. Open(new) = Open(rs) \cup {id}
  BY <1>1, <1>2 DEF Open
<1>4. IsFiniteSet(Open(new))
  <2>1. IsFiniteSet(Open(rs))
    BY DEF Sound, Types
  <2>2. IsFiniteSet(Open(rs) \cup {id})
    BY <2>1, FS_AddElement
  <2> QED
    BY <1>3, <2>2
<1>5. Types(new, ss, ts, ak, sp)
  BY <1>2, <1>4 DEF Sound, Types
<1>6. SendersServe(left, new, ss, ts)
  BY <1>1, <1>2 DEF Sound, SendersServe
<1>7. \A i \in Open(new) : Address(new[i])
  BY <1>2, <1>3 DEF Sound, Open
<1>8. TokensAreSpent(new, ak, sp) /\ AsksAreTheirs(new, ak)
  BY <1>2, <1>3 DEF Sound, TokensAreSpent, AsksAreTheirs, Open
<1> QED
  BY <1>2, <1>3, <1>5, <1>6, <1>7, <1>8 DEF Sound

(* A record goes, and its sender with it.                                  *)
LEMMA RecordRemoved ==
  ASSUME NEW rs, NEW ss, NEW ts, NEW ak, NEW sp, Sound(left, rs, ss, ts, ak, sp), NEW id
  PROVE  Sound(left, [rs EXCEPT ![id] = NoRecord], [ss EXCEPT ![id] = NoTask], ts, ak, sp)
<1> DEFINE new == [rs EXCEPT ![id] = NoRecord]
           without == [ss EXCEPT ![id] = NoTask]
<1>1. rs \in [Ids -> Records \cup {NoRecord}] /\ ss \in [Ids -> Tasks \cup {NoTask}]
  BY DEF Sound, Types
<1>2. /\ new \in [Ids -> Records \cup {NoRecord}] /\ without \in [Ids -> Tasks \cup {NoTask}]
      /\ \A i \in Ids \ {id} : new[i] = rs[i] /\ without[i] = ss[i]
      /\ id \in Ids => new[id] = NoRecord /\ without[id] = NoTask
  BY <1>1
<1> HIDE DEF new, without
<1>3. Open(new) \subseteq Open(rs) /\ \A i \in Open(new) : new[i] = rs[i]
  BY <1>1, <1>2 DEF Open
<1>4. IsFiniteSet(Open(new))
  BY <1>3, FS_Subset DEF Sound, Types
<1>5. Types(new, without, ts, ak, sp)
  BY <1>2, <1>4 DEF Sound, Types
<1>6. SendersServe(left, new, without, ts)
  BY <1>1, <1>2 DEF Sound, SendersServe
<1>7. \A i \in Open(new) : Address(new[i])
  BY <1>3 DEF Sound
<1>8. TokensAreSpent(new, ak, sp) /\ AsksAreTheirs(new, ak)
  BY <1>3 DEF Sound, TokensAreSpent, AsksAreTheirs
<1> QED
  BY <1>5, <1>6, <1>7, <1>8 DEF Sound, new, without

(* A free task is started for a record, which changes its state and        *)
(* perhaps its address: the task talks to whom the record is about.        *)
Starts(rs, ss, ts, id, t, r, task, new, served, tasked) ==
  /\ id \in Open(rs) /\ t \in Tasks /\ ts[t].stage = "free"
  /\ r \in Records /\ Address(r) /\ r.token = rs[id].token /\ r.who = rs[id].who
  /\ task \in TaskRecords /\ Serves(task, r) /\ task.stage # "session"
  /\ new = [rs EXCEPT ![id] = r] /\ served = [ss EXCEPT ![id] = t]
  /\ tasked = [ts EXCEPT ![t] = task]
LEMMA TaskStarted ==
  ASSUME NEW rs, NEW ss, NEW ts, NEW ak, NEW sp, Sound(left, rs, ss, ts, ak, sp),
         NEW id, NEW t, NEW r, NEW task, NEW new, NEW served, NEW tasked,
         Starts(rs, ss, ts, id, t, r, task, new, served, tasked)
  PROVE  Sound(left, new, served, tasked, ak, sp)
<1>0. Starts(rs, ss, ts, id, t, r, task, new, served, tasked)
  OBVIOUS
<1> USE <1>0 DEF Starts
<1>1. /\ rs \in [Ids -> Records \cup {NoRecord}] /\ ss \in [Ids -> Tasks \cup {NoTask}]
      /\ ts \in [Tasks -> TaskRecords] /\ id \in Ids /\ r # NoRecord /\ NoTask \notin Tasks
  BY NoRecordAssumption, DccAssumption DEF Sound, Types, Open
<1>2. /\ new \in [Ids -> Records \cup {NoRecord}] /\ served \in [Ids -> Tasks \cup {NoTask}]
      /\ tasked \in [Tasks -> TaskRecords]
      /\ \A i \in Ids \ {id} : new[i] = rs[i] /\ served[i] = ss[i]
      /\ new[id] = r /\ served[id] = t /\ tasked[t] = task
      /\ \A u \in Tasks \ {t} : tasked[u] = ts[u]
  BY <1>1
<1>3. Open(new) = Open(rs)
  BY <1>1, <1>2 DEF Open
<1>4. Types(new, served, tasked, ak, sp)
  BY <1>2, <1>3 DEF Sound, Types
<1>5. \A i \in Ids \ {id} : ss[i] # NoTask => ss[i] \in Tasks \ {t}
  BY <1>1 DEF Sound, SendersServe, Serves
<1>6. SendersServe(left, new, served, tasked)
  BY <1>1, <1>2, <1>5 DEF Sound, SendersServe, Serves
<1>7. \A i \in Open(new) : Address(new[i])
  BY <1>1, <1>2, <1>3 DEF Sound, Open
<1>8. TokensAreSpent(new, ak, sp) /\ AsksAreTheirs(new, ak)
  BY <1>1, <1>2, <1>3 DEF Sound, TokensAreSpent, AsksAreTheirs, Open
<1>9. \A u \in Tasks : HasPeer(tasked[u])
  BY <1>2 DEF Sound, HasPeer
<1> QED
  BY <1>4, <1>6, <1>7, <1>8, <1>9 DEF Sound

-----------------------------------------------------------------------------
(* The handlers.                                                           *)

LEMMA Accepted ==
  ASSUME NEW rs, NEW ss, NEW ak, NEW sp, Sound(left, rs, ss, tasks, ak, sp), NEW id \in Open(rs),
         AcceptDccChat(rs, ss, id)
  PROVE  Sound(left, records', senders', tasks', ak, sp)
<1> DEFINE passive == rs[id].addr = Nowhere
           stage == IF passive THEN "listening" ELSE "connecting"
           peer == IF passive THEN rs[id].who ELSE rs[id].addr
           r == [rs[id] EXCEPT !.state = stage]
<1>1. PICK t \in Tasks : /\ tasks[t].stage = "free" /\ senders' = [ss EXCEPT ![id] = t]
                         /\ records' = [rs EXCEPT ![id].state = stage]
                         /\ tasks' = [tasks EXCEPT ![t] = Task(stage, id, peer)]
  BY DEF AcceptDccChat
<1>2. /\ id \in Ids /\ rs[id] \in Records /\ Address(rs[id])
      /\ rs \in [Ids -> Records \cup {NoRecord}]
  BY RecordFacts DEF Sound, Types
<1>3. /\ r \in Records /\ Address(r) /\ r.token = rs[id].token /\ r.who = rs[id].who
      /\ records' = [rs EXCEPT ![id] = r]
  BY <1>1, <1>2 DEF Records, Address, States
<1>4. /\ Task(stage, id, peer) \in TaskRecords /\ Task(stage, id, peer).stage \notin {"free", "session"}
      /\ Task(stage, id, peer).peer \in {r.who, Nobody} \cup Tasks
  BY <1>2, <1>3 DEF Task, TaskRecords, Stages, Records, Address
<1> HIDE DEF r, stage, peer
<1>5. Serves(Task(stage, id, peer), r)
  BY <1>4 DEF Serves
<1>6. Starts(rs, ss, tasks, id, t, r, Task(stage, id, peer), records', senders', tasks')
  BY <1>1, <1>3, <1>4, <1>5 DEF Starts
<1> QED
  BY <1>6, TaskStarted

(* The token of an offer is new, or was that of an ask that is answered.   *)
LEMMA Registered ==
  ASSUME NEW rs, NEW ss, NEW ak, NEW sp, Sound(left, rs, ss, tasks, ak, sp),
         NEW p \in Peers, nickOf[p] \in Nicks, NEW addr \in {p, Nowhere},
         NEW token \in (Tokens \cap sp) \cup {NoToken}, \A ask \in ak : token # ask.token,
         NEW auto \in BOOLEAN, Register(rs, ss, p, addr, token, auto)
  PROVE  Sound(left, records', senders', tasks', ak, sp)
<1> DEFINE id == GenerateId(rs, nickOf[p])
           r == Record("waiting", addr, token, p)
           new == [rs EXCEPT ![id] = r]
<1>1. rs \in [Ids -> Records \cup {NoRecord}] /\ IsFiniteSet(Open(rs))
  BY DEF Sound, Types
<1>2. CASE Full(rs) /\ records' = rs /\ senders' = ss /\ UNCHANGED tasks
  BY <1>2
<1>3. ASSUME ~Full(rs) PROVE Sound(left, new, ss, tasks, ak, sp)
  <2>1. id \in Ids /\ rs[id] = NoRecord
    BY <1>1, <1>3, GeneratedIdIsFree
  <2>2. r \in Records /\ Address(r) /\ r.token = token
    BY DEF Record, Records, Address, States
  <2> HIDE DEF id, r
  <2>3. Adds(rs, ak, sp, id, r, new)
    BY <2>1, <2>2 DEF Adds
  <2> QED
    BY <2>3, RecordAdded
<1>4. CASE ~Full(rs) /\ ~auto /\ records' = new /\ senders' = ss /\ UNCHANGED tasks
  BY <1>3, <1>4
<1>5. ASSUME ~Full(rs), NEW pending \in FindPending(new, nickOf[p]), AcceptDccChat(new, ss, pending)
      PROVE  Sound(left, records', senders', tasks', ak, sp)
  <2>1. pending \in Open(new)
    BY DEF FindPending, OfNick
  <2> HIDE DEF new
  <2> QED
    BY <1>3, <1>5, <2>1, Accepted
<1> QED
  BY <1>2, <1>4, <1>5 DEF Register

LEMMA Requested ==
  ASSUME NEW ak, NEW sp, Sound(left, records, senders, tasks, ak, sp),
         NEW p \in Peers, nickOf[p] \in Nicks, NEW addr \in {p, Nowhere},
         NEW token \in (Tokens \cap sp) \cup {NoToken}, \A ask \in ak : token # ask.token,
         IncomingRequest(p, addr, token)
  PROVE  Sound(left, records', senders', tasks', ak, sp)
<1>1. CASE \E auto \in BOOLEAN : Register(records, senders, p, addr, token, auto)
  BY <1>1, Registered
<1>2. ASSUME NEW id, Register([records EXCEPT ![id] = NoRecord], [senders EXCEPT ![id] = NoTask],
                              p, addr, token, TRUE)
      PROVE  Sound(left, records', senders', tasks', ak, sp)
  BY <1>2, Registered, RecordRemoved
<1> QED
  BY <1>1, <1>2 DEF IncomingRequest

LEMMA InvFacts ==
  ASSUME DccInv
  PROVE  /\ Types(records, senders, tasks, asked, spent)
         /\ Sound(left, records, senders, tasks, asked, spent)
         /\ nickOf \in [Peers -> Nicks \cup {NoNick}]
BY DEF DccInv, Sound

(* More tokens spent, fewer questions.                                     *)
LEMMA TokensGo ==
  ASSUME NEW rs, NEW ss, NEW ts, NEW ak, NEW sp, Sound(left, rs, ss, ts, ak, sp),
         NEW sp2 \in SUBSET Tokens, sp \subseteq sp2, NEW ak2 \in SUBSET ak
  PROVE  Sound(left, rs, ss, ts, ak2, sp2)
BY DEF Sound, Types, TokensAreSpent, AsksAreTheirs

LEMMA OfferKeeps ==
  ASSUME "collide" \notin Allowed, DccInv, NEW p \in Peers, Offer(p)
  PROVE  DccInv'
<1>1. nickOf[p] \in Nicks /\ UNCHANGED <<nickOf, asked, left>>
  BY InvFacts DEF Offer
<1>2. CASE IncomingRequest(p, p, NoToken) /\ UNCHANGED spent
  <2>1. \A ask \in asked : NoToken # ask.token
    BY InvFacts, DccAssumption DEF Types, Asks
  <2> QED
    BY <1>1, <1>2, <2>1, InvFacts, Requested DEF DccInv
<1>3. ASSUME NEW token \in Tokens, Token(token), IncomingRequest(p, Nowhere, token),
             spent' = spent \cup {token}
      PROVE  DccInv'
  <2>1. token \notin spent /\ spent \subseteq Tokens
    BY <1>3, InvFacts DEF Token, Types
  <2>2. \A ask \in asked : token # ask.token
    BY <2>1, InvFacts DEF Sound, TokensAreSpent
  <2>3. Sound(left, records, senders, tasks, asked, spent')
    BY <1>3, <2>1, InvFacts, TokensGo
  <2> QED
    BY <1>1, <1>3, <2>1, <2>2, <2>3, InvFacts, Requested DEF DccInv
<1> QED
  BY <1>2, <1>3 DEF Offer

LEMMA ResponseKeeps ==
  ASSUME DccInv, NEW p \in Peers, Response(p)
  PROVE  DccInv'
<1>1. nickOf[p] \in Nicks /\ UNCHANGED <<nickOf, spent, left>>
  BY InvFacts DEF Response
<1>2. PICK ask \in asked :
        LET matching == {id \in Open(records) : records[id].token = ask.token} IN
        /\ ask.peer = p /\ asked' = asked \ {ask}
        /\ \/ \E id \in matching, t \in Tasks :
                /\ tasks[t].stage = "free"
                /\ records' = [records EXCEPT ![id].addr = p, ![id].state = "connecting"]
                /\ senders' = [senders EXCEPT ![id] = t]
                /\ tasks' = [tasks EXCEPT ![t] = Task("connecting", id, p)]
           \/ matching = {} /\ IncomingRequest(p, p, ask.token)
  BY DEF Response
<1>3. /\ Sound(left, records, senders, tasks, asked', spent') /\ spent' = spent
      /\ ask.token \in Tokens \cap spent /\ \A a \in asked' : ask.token # a.token
  <2>1. Sound(left, records, senders, tasks, asked', spent')
    BY <1>1, <1>2, InvFacts, TokensGo DEF Types
  <2>2. ask.token \in Tokens \cap spent
    BY InvFacts DEF Types, Asks, Sound, TokensAreSpent
  <2>3. \A a \in asked' : ask.token # a.token
    BY <1>2, InvFacts DEF Sound, AsksAreTheirs
  <2> QED
    BY <1>1, <2>1, <2>2, <2>3
<1>4. CASE IncomingRequest(p, p, ask.token)
  BY <1>1, <1>3, <1>4, Requested DEF DccInv
<1>5. ASSUME NEW id \in Open(records), records[id].token = ask.token, NEW t \in Tasks,
             tasks[t].stage = "free",
             records' = [records EXCEPT ![id].addr = p, ![id].state = "connecting"],
             senders' = [senders EXCEPT ![id] = t],
             tasks' = [tasks EXCEPT ![t] = Task("connecting", id, p)]
      PROVE  DccInv'
  <2> DEFINE r == [records[id] EXCEPT !.addr = p, !.state = "connecting"]
  <2>1. id \in Ids /\ records[id] \in Records /\ records \in [Ids -> Records \cup {NoRecord}]
    BY InvFacts, RecordFacts DEF Types
  <2>2. records[id].who = p
    BY <1>2, <1>5, InvFacts DEF Sound, AsksAreTheirs
  <2>3. /\ r \in Records /\ Address(r) /\ r.token = records[id].token
        /\ r.who = records[id].who /\ records' = [records EXCEPT ![id] = r]
    BY <1>5, <2>1, <2>2 DEF Records, Address, States
  <2>4. /\ Task("connecting", id, p) \in TaskRecords /\ Task("connecting", id, p).stage # "session"
        /\ Serves(Task("connecting", id, p), r)
    BY <2>1, <2>2, <2>3 DEF Task, TaskRecords, Stages, Serves
  <2> HIDE DEF r
  <2>5. Starts(records, senders, tasks, id, t, r, Task("connecting", id, p), records', senders', tasks')
    BY <1>5, <2>3, <2>4 DEF Starts
  <2>6. Sound(left, records', senders', tasks', asked', spent')
    BY <1>3, <2>5, TaskStarted
  <2> QED
    BY <1>1, <2>6, InvFacts DEF DccInv
<1> QED
  BY <1>2, <1>4, <1>5

LEMMA ChatKeeps ==
  ASSUME DccInv, NEW n \in Nicks, Chat(n)
  PROVE  DccInv'
<1>1. UNCHANGED <<nickOf, asked, spent, left>>
  BY DEF Chat
<1>2. CASE \E id \in FindPending(records, n) : AcceptDccChat(records, senders, id)
  <2>1. PICK id \in Open(records) : AcceptDccChat(records, senders, id)
    BY <1>2 DEF FindPending, OfNick
  <2> QED
    BY <1>1, <2>1, InvFacts, Accepted DEF DccInv
<1>3. ASSUME ~Full(records), NEW t \in Tasks, tasks[t].stage = "free",
             records' = [records EXCEPT ![GenerateId(records, n)] = Record("listening", t, NoToken, WhoIs(n))],
             senders' = [senders EXCEPT ![GenerateId(records, n)] = t],
             tasks' = [tasks EXCEPT ![t] = Task("listening", GenerateId(records, n), WhoIs(n))]
      PROVE  DccInv'
  <2> DEFINE id == GenerateId(records, n)
             r == Record("listening", t, NoToken, WhoIs(n))
             new == [records EXCEPT ![id] = r]
  <2>1. id \in Ids /\ records[id] = NoRecord /\ records \in [Ids -> Records \cup {NoRecord}]
    BY <1>3, InvFacts, GeneratedIdIsFree DEF Types
  <2>2. WhoIs(n) \in Peers \cup {Nobody}
    BY DEF WhoIs
  <2>3. r \in Records /\ Address(r) /\ r.token = NoToken /\ \A ask \in asked : r.token # ask.token
    BY <2>2, InvFacts, DccAssumption DEF Record, Records, Address, States, Types, Asks
  <2>4. /\ Task("listening", id, WhoIs(n)) \in TaskRecords
        /\ Task("listening", id, WhoIs(n)).stage # "session"
        /\ Serves(Task("listening", id, WhoIs(n)), r)
    BY <2>1, <2>2 DEF Task, TaskRecords, Stages, Serves, Record
  <2> HIDE DEF id, r
  <2>5. Sound(left, new, senders, tasks, asked, spent) /\ new[id] = r /\ id \in Open(new)
    <3>1. Adds(records, asked, spent, id, r, new)
      BY <2>1, <2>3 DEF Adds
    <3> QED
      BY <3>1, InvFacts, RecordAdded
  <2>6. new = [new EXCEPT ![id] = r] /\ records' = new
    BY <1>3, <2>1, <2>5 DEF id, r
  <2> HIDE DEF new
  <2>7. senders' = [senders EXCEPT ![id] = t] /\ tasks[t].stage = "free"
        /\ tasks' = [tasks EXCEPT ![t] = Task("listening", id, WhoIs(n))]
    BY <1>3 DEF id
  <2>8. Starts(new, senders, tasks, id, t, r, Task("listening", id, WhoIs(n)), records', senders', tasks')
    BY <2>7, <2>3, <2>4, <2>5, <2>6 DEF Starts
  <2>9. Sound(left, records', senders', tasks', asked, spent)
    BY <2>8, <2>5, TaskStarted
  <2> QED
    BY <1>1, <2>9, InvFacts DEF DccInv
<1> QED
  BY <1>2, <1>3 DEF Chat

LEMMA ChatLatestKeeps == ASSUME DccInv, ChatLatest PROVE DccInv'
BY InvFacts, Accepted DEF ChatLatest, DccInv

(* Questions with one token that no other question has, and that only a    *)
(* record about the person who is asked has.                               *)
LEMMA Asked ==
  ASSUME NEW rs, NEW ss, NEW ts, NEW ak, NEW sp, Sound(left, rs, ss, ts, ak, sp),
         NEW token \in sp, \A ask \in ak : ask.token # token, NEW p,
         \A id \in Open(rs) : rs[id].token = token => rs[id].who = p,
         NEW more \in SUBSET Asks, \A ask \in more : ask = [peer |-> p, token |-> token]
  PROVE  Sound(left, rs, ss, ts, ak \cup more, sp)
<1>1. \A ask \in more : ask.token = token /\ ask.peer = p
  OBVIOUS
<1>2. TokensAreSpent(rs, ak \cup more, sp)
  BY <1>1 DEF Sound, TokensAreSpent
<1>3. AsksAreTheirs(rs, ak \cup more)
  BY <1>1 DEF Sound, AsksAreTheirs
<1>4. Types(rs, ss, ts, ak \cup more, sp)
  BY DEF Sound, Types
<1> QED
  BY <1>2, <1>3, <1>4 DEF Sound

LEMMA ChatPassiveKeeps ==
  ASSUME "collide" \notin Allowed, DccInv, NEW n \in Nicks, ChatPassive(n)
  PROVE  DccInv'
<1> DEFINE id == GenerateId(records, n)
<1>1. /\ ~Full(records) /\ UNCHANGED <<senders, tasks, nickOf, left>>
      /\ records \in [Ids -> Records \cup {NoRecord}] /\ IsFiniteSet(Open(records))
      /\ asked \subseteq Asks /\ spent \subseteq Tokens
  BY InvFacts DEF ChatPassive, Types
<1>2. PICK token \in Tokens :
        /\ Token(token) /\ spent' = spent \cup {token}
        /\ records' = [records EXCEPT ![id] = Record("waiting", Nowhere, token, WhoIs(n))]
        /\ asked' = asked \cup {[peer |-> p, token |-> token] : p \in {WhoIs(n)} \ {Nobody}}
  BY DEF ChatPassive
<1> DEFINE r == Record("waiting", Nowhere, token, WhoIs(n))
           more == {[peer |-> p, token |-> token] : p \in {WhoIs(n)} \ {Nobody}}
<1>3. id \in Ids /\ records[id] = NoRecord
  BY <1>1, GeneratedIdIsFree
<1>4. WhoIs(n) \in Peers \cup {Nobody}
  BY DEF WhoIs
<1>5. /\ r \in Records /\ Address(r) /\ r.token = token /\ r.who = WhoIs(n)
  BY <1>4 DEF Record, Records, Address, States
<1>6. more \in SUBSET Asks /\ \A ask \in more : ask = [peer |-> WhoIs(n), token |-> token]
  BY <1>4 DEF Asks
<1>7. token \notin spent /\ token # NoToken
  BY <1>2, DccAssumption DEF Token
<1>8. records' = [records EXCEPT ![id] = r] /\ asked' = asked \cup more
  BY <1>2
<1> HIDE DEF id, r, more
<1>9. Sound(left, records, senders, tasks, asked, spent')
  BY <1>1, <1>2, InvFacts, TokensGo
<1>10. \A ask \in asked : ask.token # token
  BY <1>7, InvFacts DEF Sound, TokensAreSpent
<1>11. Sound(left, records', senders, tasks, asked, spent') /\ records'[id] = r
  <2>1. r.token \in spent' \cup {NoToken} /\ \A ask \in asked : r.token # ask.token
    BY <1>2, <1>5, <1>10
  <2> QED
    <3>1. Adds(records, asked, spent', id, r, records')
      BY <1>3, <1>5, <1>8, <2>1 DEF Adds
    <3> QED
      BY <1>9, <3>1, RecordAdded
<1>12. \A i \in Open(records') : records'[i].token = token => records'[i].who = WhoIs(n)
  <2>1. \A i \in Open(records) : records[i].token # token
    BY <1>7, InvFacts DEF Sound, TokensAreSpent
  <2> QED
    BY <1>1, <1>5, <1>8, <1>11, <2>1 DEF Open
<1>13. token \in spent'
  BY <1>2
<1>14. Sound(left, records', senders, tasks, asked \cup more, spent')
  BY <1>6, <1>10, <1>11, <1>12, <1>13, Asked
<1> QED
  BY <1>1, <1>8, <1>14, InvFacts DEF DccInv

(* Records may trade ids, as long as their senders go with them, and those *)
(* of records that are gone go anywhere.                                   *)
LEMMA Rearranged ==
  ASSUME NEW rs, NEW ss, NEW ts, NEW ak, NEW sp, Sound(left, rs, ss, ts, ak, sp),
         NEW new \in [Ids -> Records \cup {NoRecord}], NEW served \in [Ids -> Tasks \cup {NoTask}],
         IsFiniteSet(Open(new)),
         \A id \in Open(new) : \E j \in Open(rs) : new[id] = rs[j],
         \A id \in Ids : served[id] # NoTask =>
           \E j \in Ids : ss[j] # NoTask /\ served[id] = ss[j] /\ (new[id] = rs[j] \/ rs[j] = NoRecord)
  PROVE  Sound(left, new, served, ts, ak, sp)
<1>1. Types(new, served, ts, ak, sp)
  BY DEF Sound, Types
<1>2. SendersServe(left, new, served, ts)
  BY DEF Sound, SendersServe
<1>3. \A id \in Open(new) : Address(new[id])
  BY DEF Sound
<1>4. TokensAreSpent(new, ak, sp)
  BY DEF Sound, TokensAreSpent
<1>5. AsksAreTheirs(new, ak)
  BY DEF Sound, AsksAreTheirs
<1> QED
  BY <1>1, <1>2, <1>3, <1>4, <1>5 DEF Sound

LEMMA RenameKeeps ==
  ASSUME DccInv, NEW p \in Peers, NEW to \in Nicks, Rename(p, to)
  PROVE  DccInv'
<1> DEFINE old == OfNick(records, nickOf[p])
           free == FreeIds(to, Cardinality(old))
<1>1. /\ UNCHANGED <<tasks, asked, spent, left>> /\ nickOf' = [nickOf EXCEPT ![p] = to]
      /\ records \in [Ids -> Records \cup {NoRecord}] /\ senders \in [Ids -> Tasks \cup {NoTask}]
      /\ IsFiniteSet(Open(records))
  BY InvFacts DEF Rename, Types
<1>2. PICK from \in Bijection(free, old) :
        records' = MovedRecords(from) /\ senders' = MovedSenders(from)
  BY DEF Rename, UpdateNick
<1>3. /\ DOMAIN from = free /\ Range(from) = old /\ \A id \in free : from[id] \in old
      /\ from \in Injection(free, old)
  BY DEF Bijection, Injection, Surjection, Range
<1>4. /\ old \subseteq Open(records) /\ free \subseteq Ids
      /\ \A id \in free : records[id] = NoRecord
  BY DEF OfNick, FreeIds
<1> HIDE DEF old, free
<1>5. /\ records' \in [Ids -> Records \cup {NoRecord}]
      /\ \A id \in free : records'[id] = records[from[id]]
      /\ \A id \in old : records'[id] = NoRecord
      /\ \A id \in Ids \ (free \cup old) : records'[id] = records[id]
  BY <1>1, <1>2, <1>3, <1>4 DEF MovedRecords, Open
<1>6. /\ senders' \in [Ids -> Tasks \cup {NoTask}]
      /\ \A id \in free : senders'[id] = IF senders[from[id]] # NoTask THEN senders[from[id]]
                                       ELSE senders[id]
      /\ \A id \in old : senders'[id] = NoTask
      /\ \A id \in Ids \ (free \cup old) : senders'[id] = senders[id]
  BY <1>1, <1>2, <1>3, <1>4 DEF MovedSenders, Open
<1>7. IsFiniteSet(Open(records'))
  <2>1. IsFiniteSet(old)
    BY <1>1, <1>4, FS_Subset
  <2>2. IsFiniteSet(free)
    BY <1>3, <2>1, FS_Injection
  <2>3. IsFiniteSet(free \cup Open(records))
    BY <1>1, <2>2, FS_Union
  <2>4. Open(records') \subseteq free \cup Open(records)
    BY <1>5 DEF Open
  <2> QED
    BY <2>3, <2>4, FS_Subset
<1>8. \A id \in Open(records') : \E j \in Open(records) : records'[id] = records[j]
  BY <1>3, <1>4, <1>5 DEF Open
<1>9. \A id \in Ids : senders'[id] # NoTask =>
         \E j \in Ids : senders[j] # NoTask /\ senders'[id] = senders[j]
                       /\ (records'[id] = records[j] \/ records[j] = NoRecord)
  <2>1. ASSUME NEW id \in free, senders'[id] # NoTask
        PROVE  \E j \in Ids : senders[j] # NoTask /\ senders'[id] = senders[j]
                             /\ (records'[id] = records[j] \/ records[j] = NoRecord)
    <3>1. CASE senders[from[id]] # NoTask
      BY <1>3, <1>4, <1>5, <1>6, <2>1, <3>1 DEF Open
    <3>2. CASE senders[from[id]] = NoTask
      BY <1>4, <1>6, <2>1, <3>2
    <3> QED
      BY <3>1, <3>2
  <2> QED
    BY <1>5, <1>6, <2>1
<1>10. Sound(left, records', senders', tasks, asked, spent)
  BY <1>5, <1>6, <1>7, <1>8, <1>9, InvFacts, Rearranged
<1>11. nickOf' \in [Peers -> Nicks \cup {NoNick}]
  BY <1>1, InvFacts
<1> QED
  BY <1>1, <1>10, <1>11 DEF DccInv

(* A record is closed by nick: its task is one of those left.              *)
LEMMA CloseByNickKeeps ==
  ASSUME DccInv, NEW n \in Nicks, CloseByNick(n)
  PROVE  DccInv'
<1>1. UNCHANGED <<senders, tasks, nickOf, asked, spent>>
  BY DEF CloseByNick
<1>2. PICK id \in Open(records) : /\ records' = [records EXCEPT ![id] = NoRecord]
                                 /\ left' = left \cup ({senders[id]} \ {NoTask})
  BY DEF CloseByNick, OfNick
<1>3. records \in [Ids -> Records \cup {NoRecord}] /\ IsFiniteSet(Open(records)) /\ id \in Ids
  BY InvFacts DEF Types, Open
<1>4. /\ records' \in [Ids -> Records \cup {NoRecord}] /\ records'[id] = NoRecord
      /\ \A i \in Ids \ {id} : records'[i] = records[i]
  BY <1>2, <1>3
<1>5. Open(records') \subseteq Open(records) /\ \A i \in Open(records') : records'[i] = records[i]
  BY <1>4 DEF Open
<1>6. IsFiniteSet(Open(records'))
  BY <1>3, <1>5, FS_Subset
<1>7. Types(records', senders, tasks, asked, spent)
  BY <1>4, <1>6, InvFacts DEF Types
<1>8. SendersServe(left', records', senders, tasks)
  <2>1. left \subseteq left' /\ (senders[id] # NoTask => senders[id] \in left')
    BY <1>2
  <2> QED
    BY <1>4, <2>1, InvFacts DEF Sound, SendersServe
<1>9. \A i \in Open(records') : Address(records'[i])
  BY <1>5, InvFacts DEF Sound
<1>10. TokensAreSpent(records', asked, spent) /\ AsksAreTheirs(records', asked)
  BY <1>5, InvFacts DEF Sound, TokensAreSpent, AsksAreTheirs
<1>11. Sound(left', records', senders, tasks, asked, spent)
  BY <1>7, <1>8, <1>9, <1>10, InvFacts DEF Sound
<1> QED
  BY <1>1, <1>11, InvFacts DEF DccInv

LEMMA LeaveIrcKeeps == ASSUME DccInv, NEW p \in Peers, LeaveIrc(p) PROVE DccInv'
BY InvFacts DEF LeaveIrc, DccInv

LEMMA PurgeExpiredKeeps == ASSUME DccInv, NEW id \in Ids, PurgeExpired(id) PROVE DccInv'
BY InvFacts, RecordRemoved DEF PurgeExpired, DccInv

-----------------------------------------------------------------------------
(* The tasks, and their reports.                                           *)

(* A task stays started, and changes its peer for nobody or a task only.   *)
LEMMA TasksMove ==
  ASSUME NEW rs, NEW ss, NEW ts, NEW ak, NEW sp, Sound(left, rs, ss, ts, ak, sp),
         NEW new \in [Tasks -> TaskRecords], \A t \in Tasks : HasPeer(new[t]),
         \A t \in Tasks : ts[t].stage # "free" =>
           new[t].stage # "free" /\ new[t].peer \in {ts[t].peer, Nobody} \cup Tasks
  PROVE  Sound(left, rs, ss, new, ak, sp)
<1>1. Types(rs, ss, new, ak, sp)
  BY DEF Sound, Types
<1>2. SendersServe(left, rs, ss, new)
  BY DEF Sound, Types, SendersServe, Serves
<1> QED
  BY <1>1, <1>2 DEF Sound

LEMMA EndsKeeps ==
  ASSUME DccInv, NEW t \in Tasks, Ends(t), OnlyTasks
  PROVE  DccInv'
<1>1. tasks \in [Tasks -> TaskRecords] /\ \A u \in Tasks : HasPeer(tasks[u])
  BY InvFacts DEF Types, Sound
<1>2. Task("over", NoId, Nobody) \in TaskRecords /\ HasPeer(Task("over", NoId, Nobody))
      /\ Task("over", NoId, Nobody).peer = Nobody /\ Task("over", NoId, Nobody).stage = "over"
  BY DEF Task, TaskRecords, Stages, HasPeer
<1>3. /\ tasks' \in [Tasks -> TaskRecords] /\ \A u \in Tasks : HasPeer(tasks'[u])
      /\ \A u \in Tasks : tasks[u].stage # "free" =>
           tasks'[u].stage # "free" /\ tasks'[u].peer \in {tasks[u].peer, Nobody} \cup Tasks
  BY <1>1, <1>2 DEF Ends
<1> QED
  BY <1>3, InvFacts, TasksMove DEF OnlyTasks, DccInv

LEMMA ConnectsKeeps ==
  ASSUME DccInv, NEW t \in Tasks, Connects(t)
  PROVE  DccInv'
<1>1. tasks \in [Tasks -> TaskRecords] /\ \A u \in Tasks : HasPeer(tasks[u])
  BY InvFacts DEF Types, Sound
<1> DEFINE task == [tasks[t] EXCEPT !.stage = "session"]
<1>2. task \in TaskRecords /\ HasPeer(task) /\ task.peer = tasks[t].peer /\ task.stage = "session"
  BY <1>1 DEF TaskRecords, Stages, HasPeer, Connects
<1>3. tasks' = [tasks EXCEPT ![t] = task]
  BY <1>1 DEF Connects, Becomes
<1> HIDE DEF task
<1>4. /\ tasks' \in [Tasks -> TaskRecords] /\ \A u \in Tasks : HasPeer(tasks'[u])
      /\ \A u \in Tasks : tasks[u].stage # "free" =>
           tasks'[u].stage # "free" /\ tasks'[u].peer \in {tasks[u].peer, Nobody} \cup Tasks
  BY <1>1, <1>2, <1>3
<1> QED
  BY <1>4, InvFacts, TasksMove DEF Connects, OnlyTasks, DccInv

LEMMA ConnectsToUsKeeps ==
  ASSUME DccInv, NEW t \in Tasks, ConnectsToUs(t)
  PROVE  DccInv'
<1>1. tasks \in [Tasks -> TaskRecords] /\ \A u \in Tasks : HasPeer(tasks[u])
  BY InvFacts DEF Types, Sound
<1> DEFINE u == tasks[t].peer
           caller == [tasks[t] EXCEPT !.stage = "session"]
           called == Task("session", tasks[u].id, t)
<1>2. /\ u \in Tasks /\ u # t
      /\ tasks' = [tasks EXCEPT ![t].stage = "session", ![u] = Task("session", @.id, t)]
  BY DEF ConnectsToUs
<1>3. tasks' = [[tasks EXCEPT ![t] = caller] EXCEPT ![u] = called]
  BY <1>1, <1>2
<1>4. /\ caller \in TaskRecords /\ HasPeer(caller) /\ caller.stage = "session"
      /\ caller.peer = tasks[t].peer
  BY <1>1, <1>2 DEF TaskRecords, Stages, HasPeer
<1>5. /\ called \in TaskRecords /\ HasPeer(called) /\ called.stage = "session" /\ called.peer \in Tasks
  BY <1>1, <1>2 DEF Task, TaskRecords, Stages, HasPeer
<1> HIDE DEF u, caller, called
<1>6. /\ tasks' \in [Tasks -> TaskRecords] /\ \A v \in Tasks : HasPeer(tasks'[v])
      /\ \A v \in Tasks : tasks[v].stage # "free" =>
           tasks'[v].stage # "free" /\ tasks'[v].peer \in {tasks[v].peer, Nobody} \cup Tasks
  BY <1>1, <1>2, <1>3, <1>4, <1>5
<1> QED
  BY <1>6, InvFacts, TasksMove DEF ConnectsToUs, OnlyTasks, DccInv

LEMMA HandleDccEventKeeps ==
  ASSUME DccInv, HandleDccEvent
  PROVE  DccInv'
<1> DEFINE e == Head(events)
<1>1. UNCHANGED <<tasks, nickOf, asked, spent, left>>
  BY DEF HandleDccEvent
<1>2. CASE UNCHANGED <<records, senders>>
  BY <1>1, <1>2, InvFacts DEF DccInv
<1>3. CASE Ended(e)
  BY <1>1, <1>3, InvFacts, RecordRemoved DEF Ended, DccInv
<1>4. CASE /\ records[e.id] # NoRecord /\ UNCHANGED senders
           /\ records' = [records EXCEPT ![e.id].state = "connected"]
  <2>1. records \in [Ids -> Records \cup {NoRecord}] /\ senders \in [Ids -> Tasks \cup {NoTask}]
    BY InvFacts DEF Types
  <2>2. CASE e.id \notin Ids
    <3>1. records' = records
      BY <1>4, <2>1, <2>2
    <3> QED
      BY <1>2, <1>4, <3>1
  <2>3. CASE e.id \in Ids
    <3> DEFINE r == [records[e.id] EXCEPT !.state = "connected"]
    <3>1. /\ r \in Records /\ r # NoRecord /\ r.addr = records[e.id].addr
          /\ r.token = records[e.id].token /\ r.who = records[e.id].who
      BY <1>4, <2>1, <2>3, NoRecordAssumption DEF Records, States
    <3>2. records' = [records EXCEPT ![e.id] = r]
      BY <1>4, <2>1, <2>3
    <3> HIDE DEF r
    <3>3. /\ records' \in [Ids -> Records \cup {NoRecord}] /\ Open(records') = Open(records)
          /\ \A id \in Open(records) : /\ records'[id].addr = records[id].addr
                                       /\ records'[id].token = records[id].token
                                       /\ records'[id].who = records[id].who
      BY <1>4, <2>1, <2>3, <3>1, <3>2 DEF Open
    <3>4. Types(records', senders, tasks, asked, spent)
      BY <3>3, InvFacts DEF Types
    <3>5. SendersServe(left, records', senders, tasks)
      BY <3>3, InvFacts DEF Sound, SendersServe, Serves, Open
    <3>6. \A id \in Open(records') : Address(records'[id])
      BY <3>3, InvFacts DEF Sound, Address
    <3>7. TokensAreSpent(records', asked, spent) /\ AsksAreTheirs(records', asked)
      BY <3>3, InvFacts DEF Sound, TokensAreSpent, AsksAreTheirs
    <3>8. Sound(left, records', senders, tasks, asked, spent)
      BY <3>4, <3>5, <3>6, <3>7, InvFacts DEF Sound
    <3> QED
      BY <1>1, <1>4, <3>8, InvFacts DEF DccInv
  <2> QED
    BY <2>2, <2>3
<1>5. \/ UNCHANGED <<records, senders>> \/ Ended(e)
      \/ /\ records[e.id] # NoRecord /\ UNCHANGED senders
         /\ records' = [records EXCEPT ![e.id].state = "connected"]
  BY DEF HandleDccEvent
<1> HIDE DEF e
<1> QED
  BY <1>2, <1>3, <1>4, <1>5

-----------------------------------------------------------------------------
LEMMA InitHolds == Init => DccInv
<1> SUFFICES ASSUME Init PROVE DccInv
  OBVIOUS
<1>1. /\ records = [id \in Ids |-> NoRecord] /\ senders = [id \in Ids |-> NoTask]
      /\ tasks = [t \in Tasks |-> Task("free", NoId, Nobody)]
      /\ nickOf \in [Peers -> Nicks] /\ asked = {} /\ spent = {}
  BY DEF Init
<1>2. Open(records) = {}
  BY <1>1 DEF Open
<1>3. IsFiniteSet(Open(records))
  BY <1>2, FS_EmptySet
<1>4. Task("free", NoId, Nobody) \in TaskRecords /\ HasPeer(Task("free", NoId, Nobody))
  BY DEF Task, TaskRecords, Stages, HasPeer
<1>5. Types(records, senders, tasks, asked, spent)
  BY <1>1, <1>3, <1>4 DEF Types
<1>6. SendersServe(left, records, senders, tasks) /\ \A t \in Tasks : HasPeer(tasks[t])
  BY <1>1, <1>4 DEF SendersServe
<1> QED
  BY <1>1, <1>2, <1>5, <1>6 DEF DccInv, Sound, TokensAreSpent, AsksAreTheirs

LEMMA NextKeeps ==
  ASSUME "collide" \notin Allowed, DccInv, [Next]_vars
  PROVE  DccInv'
<1>1. ASSUME NEW p \in Peers, Offer(p) PROVE DccInv'
  BY <1>1, OfferKeeps
<1>2. ASSUME NEW p \in Peers, Response(p) PROVE DccInv'
  BY <1>2, ResponseKeeps
<1>3. ASSUME NEW p \in Peers, NEW n \in Nicks, Rename(p, n) PROVE DccInv'
  BY <1>3, RenameKeeps
<1>4. CASE PeerStep
  BY <1>1, <1>2, <1>3, <1>4, LeaveIrcKeeps DEF PeerStep
<1>5. CASE UserStep
  BY <1>5, ChatLatestKeeps, ChatKeeps, ChatPassiveKeeps, CloseByNickKeeps
     DEF UserStep, Close, NoSuchNick
<1>6. ASSUME NEW t \in Tasks, TaskStep(t) PROVE DccInv'
  <2>1. CASE TimesOut(t) \/ HangsUp(t) \/ WriterEnds(t)
    <3>1. Ends(t) /\ OnlyTasks
      BY <2>1 DEF TimesOut, HangsUp, WriterEnds
    <3> QED
      BY <3>1, EndsKeeps
  <2>2. CASE Connects(t)
    BY <2>2, ConnectsKeeps
  <2>3. CASE ConnectsToUs(t)
    BY <2>3, ConnectsToUsKeeps
  <2>4. CASE Line(t)
    BY <2>4 DEF Line, OnlyTasks, DccInv
  <2> QED
    BY <1>6, <2>1, <2>2, <2>3, <2>4 DEF TaskStep
<1>7. CASE UNCHANGED vars
  BY <1>7 DEF vars, DccInv
<1>8. CASE Next
  BY <1>4, <1>5, <1>6, <1>8, PurgeExpiredKeeps, HandleDccEventKeeps DEF Next
<1> QED
  BY <1>7, <1>8

LEMMA Invariance == ASSUME "collide" \notin Allowed PROVE Spec => []DccInv
BY InitHolds, NextKeeps, PTL DEF Spec

(* Whatever the peers rename to, offer and answer, however offers cross    *)
(* and tasks time out, whatever is closed: a line typed at a connected     *)
(* record goes to the person the record is about, or to our own listener,  *)
(* unless it goes to a task whose record was closed by nick.               *)
THEOREM LinesReach ==
  ASSUME "collide" \notin Allowed
  PROVE  Spec => []LinesReachTheirPeer
<1>1. ASSUME DccInv PROVE LinesReachTheirPeer
  <2> SUFFICES ASSUME NEW id \in Ids, Running(id)
               PROVE  tasks[senders[id]].peer \in {records[id].who} \cup Tasks \/ senders[id] \in left
    BY DEF LinesReachTheirPeer
  <2>1. /\ senders[id] \in Tasks /\ tasks[senders[id]].stage = "session"
        /\ Serves(tasks[senders[id]], records[id]) \/ senders[id] \in left
        /\ HasPeer(tasks[senders[id]])
    BY <1>1, InvFacts DEF Running, Types, Sound, SendersServe
  <2> QED
    BY <2>1, DccAssumption DEF Serves, HasPeer
<1> QED
  BY <1>1, Invariance, PTL

(* No sender is left for a record that is gone, so that no task waits for  *)
(* lines that cannot come, except where the record was closed by nick.     *)
THEOREM SessionsHaveTheirRecords ==
  ASSUME "collide" \notin Allowed
  PROVE  Spec => []SessionsHaveRecords
<1>1. ASSUME DccInv PROVE SessionsHaveRecords
  BY <1>1, InvFacts DEF SessionsHaveRecords, Sound, SendersServe
<1> QED
  BY <1>1, Invariance, PTL

-----------------------------------------------------------------------------
(* Whatever the peers and the user do (any Allowed): the types, and the    *)
(* limit on the number of records.                                         *)
Table(rs) ==
  /\ rs \in [Ids -> Records \cup {NoRecord}]
  /\ IsFiniteSet(Open(rs)) /\ Cardinality(Open(rs)) <= MaxConnections
Tables(rs, ss, ts) ==
  /\ Table(rs) /\ ss \in [Ids -> Tasks \cup {NoTask}] /\ ts \in [Tasks -> TaskRecords]
Reports == [type : {"ChatError", "ChatConnected", "ChatMessage", "ChatClosed"},
            id : Ids \cup {NoId}, task : Tasks]
People == /\ nickOf \in [Peers -> Nicks \cup {NoNick}] /\ asked \subseteq Asks /\ spent \subseteq Tokens
          /\ left \subseteq Tasks
Channel == events \in Seq(Reports) /\ Len(events) <= MaxEvents
DccTyped == /\ Tables(records, senders, tasks) /\ People /\ Channel
            /\ steps \in 0 .. MaxSteps

LEMMA EntrySet ==
  ASSUME NEW rs, Table(rs), NEW id \in Open(rs), NEW r \in Records
  PROVE  Table([rs EXCEPT ![id] = r]) /\ id \in Open([rs EXCEPT ![id] = r])
<1> DEFINE new == [rs EXCEPT ![id] = r]
<1>1. r # NoRecord /\ rs \in [Ids -> Records \cup {NoRecord}] /\ id \in Ids
  BY NoRecordAssumption DEF Table, Open
<1>2. new \in [Ids -> Records \cup {NoRecord}] /\ Open(new) = Open(rs)
  BY <1>1 DEF Open
<1> QED
  BY <1>2 DEF Table

LEMMA EntryAdded ==
  ASSUME NEW rs, Table(rs), ~Full(rs), NEW id \in Ids, NEW r \in Records
  PROVE  Table([rs EXCEPT ![id] = r]) /\ id \in Open([rs EXCEPT ![id] = r])
<1> DEFINE new == [rs EXCEPT ![id] = r]
<1>1. r # NoRecord /\ rs \in [Ids -> Records \cup {NoRecord}] /\ IsFiniteSet(Open(rs))
  BY NoRecordAssumption DEF Table
<1>2. new \in [Ids -> Records \cup {NoRecord}] /\ Open(new) = Open(rs) \cup {id}
  BY <1>1 DEF Open
<1>3. /\ Cardinality(Open(rs)) \in Nat /\ MaxConnections \in Nat
      /\ ~(Cardinality(Open(rs)) >= MaxConnections)
  BY <1>1, FS_CardinalityType, DccAssumption DEF Full
<1>4. /\ IsFiniteSet(Open(rs) \cup {id})
      /\ Cardinality(Open(rs) \cup {id}) <= Cardinality(Open(rs)) + 1
  BY <1>1, <1>3, FS_AddElement
<1>5. Cardinality(Open(rs) \cup {id}) \in Nat
  BY <1>4, FS_CardinalityType
<1> HIDE DEF new
<1>6. Cardinality(Open(new)) <= MaxConnections /\ IsFiniteSet(Open(new))
  BY <1>2, <1>3, <1>4, <1>5
<1> QED
  BY <1>2, <1>6 DEF Table, new

LEMMA FewerOpen ==
  ASSUME NEW rs, Table(rs), NEW new \in [Ids -> Records \cup {NoRecord}], Open(new) \subseteq Open(rs)
  PROVE  Table(new)
<1>1. IsFiniteSet(Open(rs)) /\ Cardinality(Open(rs)) <= MaxConnections
  BY DEF Table
<1>2. IsFiniteSet(Open(new)) /\ Cardinality(Open(new)) <= Cardinality(Open(rs))
  BY <1>1, FS_Subset
<1>3. /\ Cardinality(Open(new)) \in Nat /\ Cardinality(Open(rs)) \in Nat
      /\ MaxConnections \in Nat
  BY <1>1, <1>2, FS_CardinalityType, DccAssumption
<1> QED
  BY <1>1, <1>2, <1>3 DEF Table

LEMMA EntryGone ==
  ASSUME NEW rs, Table(rs), NEW id
  PROVE  Table([rs EXCEPT ![id] = NoRecord])
<1> DEFINE new == [rs EXCEPT ![id] = NoRecord]
<1>1. new \in [Ids -> Records \cup {NoRecord}] /\ Open(new) \subseteq Open(rs)
  BY DEF Table, Open
<1> QED
  BY <1>1, FewerOpen

LEMMA AcceptTyped ==
  ASSUME NEW rs, NEW ss, Tables(rs, ss, tasks), NEW id \in Open(rs), AcceptDccChat(rs, ss, id)
  PROVE  Tables(records', senders', tasks')
<1> DEFINE passive == rs[id].addr = Nowhere
           stage == IF passive THEN "listening" ELSE "connecting"
           peer == IF passive THEN rs[id].who ELSE rs[id].addr
           r == [rs[id] EXCEPT !.state = stage]
<1>1. PICK t \in Tasks : /\ senders' = [ss EXCEPT ![id] = t] /\ records' = [rs EXCEPT ![id].state = stage]
                        /\ tasks' = [tasks EXCEPT ![t] = Task(stage, id, peer)]
  BY DEF AcceptDccChat
<1>2. id \in Ids /\ rs[id] \in Records
  BY DEF Tables, Table, Open
<1>3. r \in Records
  BY <1>2 DEF Records, States
<1>4. stage \in Stages /\ peer \in Peers \cup Tasks \cup {Nobody}
  BY <1>2 DEF Records, Stages
<1>5. records' = [rs EXCEPT ![id] = r]
  BY <1>1
<1> HIDE DEF stage, peer, r
<1>6. Table(records')
  BY <1>3, <1>5, EntrySet DEF Tables
<1>7. Task(stage, id, peer) \in TaskRecords
  BY <1>2, <1>4 DEF Task, TaskRecords
<1> QED
  BY <1>1, <1>2, <1>6, <1>7 DEF Tables

LEMMA RegisterTyped ==
  ASSUME NEW rs, NEW ss, Tables(rs, ss, tasks), NEW p \in Peers, nickOf[p] \in Nicks,
         NEW addr \in Peers \cup {Nowhere}, NEW token \in Tokens \cup {NoToken}, NEW auto \in BOOLEAN,
         Register(rs, ss, p, addr, token, auto)
  PROVE  Tables(records', senders', tasks')
<1> DEFINE id == GenerateId(rs, nickOf[p])
           r == Record("waiting", addr, token, p)
           new == [rs EXCEPT ![id] = r]
<1>1. r \in Records
  BY DEF Record, Records, States
<1>2. CASE Full(rs)
  BY <1>2 DEF Register
<1>3. CASE ~Full(rs)
  <2>1. id \in Ids
    BY <1>3, GeneratedIdIsFree DEF Tables, Table
  <2> HIDE DEF id, r
  <2>2. Table(new)
    BY <1>1, <1>3, <2>1, EntryAdded DEF Tables
  <2>3. \/ ~auto /\ records' = new /\ senders' = ss /\ UNCHANGED tasks
        \/ \E pending \in FindPending(new, nickOf[p]) : AcceptDccChat(new, ss, pending)
    BY <1>3 DEF Register, id, r
  <2> HIDE DEF new
  <2>4. Tables(new, ss, tasks)
    BY <2>2 DEF Tables
  <2>5. FindPending(new, nickOf[p]) \subseteq Open(new)
    BY DEF FindPending, OfNick
  <2> QED
    BY <2>3, <2>4, <2>5, AcceptTyped
<1> QED
  BY <1>2, <1>3

LEMMA IncomingTyped ==
  ASSUME Tables(records, senders, tasks), NEW p \in Peers, nickOf[p] \in Nicks,
         NEW addr \in Peers \cup {Nowhere}, NEW token \in Tokens \cup {NoToken},
         IncomingRequest(p, addr, token)
  PROVE  Tables(records', senders', tasks')
<1>1. CASE \E auto \in BOOLEAN : Register(records, senders, p, addr, token, auto)
  BY <1>1, RegisterTyped
<1>2. ASSUME NEW id, Register([records EXCEPT ![id] = NoRecord],
                              [senders EXCEPT ![id] = NoTask], p, addr, token, TRUE)
      PROVE  Tables(records', senders', tasks')
  <2> DEFINE rs == [records EXCEPT ![id] = NoRecord]
             ss == [senders EXCEPT ![id] = NoTask]
  <2>1. Table(rs)
    BY EntryGone DEF Tables
  <2>2. Tables(rs, ss, tasks)
    BY <2>1 DEF Tables
  <2>3. Register(rs, ss, p, addr, token, TRUE)
    BY <1>2
  <2> HIDE DEF rs, ss
  <2> QED
    BY <2>2, <2>3, RegisterTyped
<1> QED
  BY <1>1, <1>2 DEF IncomingRequest

LEMMA OfferTyped ==
  ASSUME Tables(records, senders, tasks), People, NEW p \in Peers, Offer(p)
  PROVE  Tables(records', senders', tasks') /\ People' /\ UNCHANGED events
<1>1. nickOf[p] \in Nicks /\ spent \subseteq Tokens
  BY DEF Offer, People
<1>2. CASE IncomingRequest(p, p, NoToken) /\ UNCHANGED spent
  BY <1>1, <1>2, IncomingTyped DEF Offer, People
<1>3. ASSUME NEW token \in Tokens, IncomingRequest(p, Nowhere, token), spent' = spent \cup {token}
      PROVE  Tables(records', senders', tasks') /\ spent' \subseteq Tokens
  BY <1>1, <1>3, IncomingTyped
<1> QED
  BY <1>1, <1>2, <1>3 DEF Offer, People

LEMMA ResponseTyped ==
  ASSUME Tables(records, senders, tasks), People, NEW p \in Peers, Response(p)
  PROVE  Tables(records', senders', tasks') /\ People' /\ UNCHANGED events
<1>1. nickOf[p] \in Nicks /\ UNCHANGED <<events, nickOf, spent, left>> /\ asked \subseteq Asks
  BY DEF Response, People
<1>2. PICK ask \in asked :
        /\ asked' = asked \ {ask}
        /\ \/ \E id \in {i \in Open(records) : records[i].token = ask.token}, t \in Tasks :
                /\ records' = [records EXCEPT ![id].addr = p, ![id].state = "connecting"]
                /\ senders' = [senders EXCEPT ![id] = t]
                /\ tasks' = [tasks EXCEPT ![t] = Task("connecting", id, p)]
           \/ IncomingRequest(p, p, ask.token)
  BY DEF Response
<1>3. People'
  BY <1>1, <1>2 DEF People
<1>4. ASSUME NEW id \in Open(records), NEW t \in Tasks,
             records' = [records EXCEPT ![id].addr = p, ![id].state = "connecting"],
             senders' = [senders EXCEPT ![id] = t],
             tasks' = [tasks EXCEPT ![t] = Task("connecting", id, p)]
      PROVE  Tables(records', senders', tasks')
  <2>1. id \in Ids /\ records[id] \in Records /\ records \in [Ids -> Records \cup {NoRecord}]
    BY DEF Tables, Table, Open
  <2> DEFINE r == [records[id] EXCEPT !.addr = p, !.state = "connecting"]
  <2>2. r \in Records /\ records' = [records EXCEPT ![id] = r]
    BY <1>4, <2>1 DEF Records, States
  <2> HIDE DEF r
  <2>3. Table(records')
    BY <2>2, EntrySet DEF Tables
  <2>4. Task("connecting", id, p) \in TaskRecords
    BY <2>1 DEF Task, TaskRecords, Stages
  <2> QED
    BY <1>4, <2>1, <2>3, <2>4 DEF Tables
<1>5. CASE IncomingRequest(p, p, ask.token)
  <2> DEFINE token == ask.token
  <2>1. token \in Tokens \cup {NoToken} /\ p \in Peers \cup {Nowhere}
    BY <1>1 DEF Asks
  <2>2. IncomingRequest(p, p, token)
    BY <1>5
  <2> HIDE DEF token
  <2> QED
    BY <1>1, <1>3, <2>1, <2>2, IncomingTyped
<1> QED
  BY <1>1, <1>2, <1>3, <1>4, <1>5

LEMMA ChatTyped ==
  ASSUME Tables(records, senders, tasks), People, NEW n \in Nicks, Chat(n)
  PROVE  Tables(records', senders', tasks') /\ People' /\ UNCHANGED events
<1>1. UNCHANGED <<events, nickOf, asked, spent, left>> /\ People'
  BY DEF Chat, People
<1>2. ASSUME NEW id \in FindPending(records, n), AcceptDccChat(records, senders, id)
      PROVE  Tables(records', senders', tasks')
  BY <1>2, AcceptTyped DEF FindPending, OfNick
<1>3. ASSUME ~Full(records), NEW t \in Tasks, NEW id, id = GenerateId(records, n),
             records' = [records EXCEPT ![id] = Record("listening", t, NoToken, WhoIs(n))],
             senders' = [senders EXCEPT ![id] = t],
             tasks' = [tasks EXCEPT ![t] = Task("listening", id, WhoIs(n))]
      PROVE  Tables(records', senders', tasks')
  <2>1. id \in Ids
    BY <1>3, GeneratedIdIsFree DEF Tables, Table
  <2>2. WhoIs(n) \in Peers \cup {Nobody}
    BY DEF WhoIs
  <2>3. /\ Record("listening", t, NoToken, WhoIs(n)) \in Records
        /\ Task("listening", id, WhoIs(n)) \in TaskRecords
    BY <2>1, <2>2 DEF Record, Records, States, Task, TaskRecords, Stages
  <2>4. Table(records')
    BY <1>3, <2>1, <2>3, EntryAdded DEF Tables
  <2> QED
    BY <1>3, <2>1, <2>3, <2>4 DEF Tables
<1> QED
  BY <1>1, <1>2, <1>3 DEF Chat

LEMMA ChatPassiveTyped ==
  ASSUME Tables(records, senders, tasks), People, NEW n \in Nicks, ChatPassive(n)
  PROVE  Tables(records', senders', tasks') /\ People' /\ UNCHANGED events
<1>1. PICK token \in Tokens :
        /\ spent' = spent \cup {token}
        /\ records' = [records EXCEPT
             ![GenerateId(records, n)] = Record("waiting", Nowhere, token, WhoIs(n))]
        /\ asked' = asked \cup {[peer |-> p, token |-> token] : p \in {WhoIs(n)} \ {Nobody}}
  BY DEF ChatPassive
<1>2. ~Full(records) /\ UNCHANGED <<senders, tasks, events, nickOf, left>>
  BY DEF ChatPassive
<1>3. WhoIs(n) \in Peers \cup {Nobody}
  BY DEF WhoIs
<1>4. Record("waiting", Nowhere, token, WhoIs(n)) \in Records
  BY <1>3 DEF Record, Records, States
<1>5. GenerateId(records, n) \in Ids
  BY <1>2, GeneratedIdIsFree DEF Tables, Table
<1>6. Table(records')
  BY <1>1, <1>2, <1>4, <1>5, EntryAdded DEF Tables
<1>7. Tables(records', senders', tasks')
  BY <1>2, <1>6 DEF Tables
<1>8. asked' \subseteq Asks
  BY <1>1, <1>3 DEF People, Asks
<1> QED
  BY <1>1, <1>2, <1>7, <1>8 DEF People

(* update_nick moves records to free ids: none is added.                   *)
LEMMA RenameTyped ==
  ASSUME Tables(records, senders, tasks), People, NEW p \in Peers, NEW to \in Nicks, Rename(p, to)
  PROVE  Tables(records', senders', tasks') /\ People' /\ UNCHANGED events
<1> DEFINE old == OfNick(records, nickOf[p])
           free == FreeIds(to, Cardinality(old))
<1>1. /\ UNCHANGED <<tasks, events, asked, spent, left>> /\ nickOf' = [nickOf EXCEPT ![p] = to]
      /\ records \in [Ids -> Records \cup {NoRecord}] /\ senders \in [Ids -> Tasks \cup {NoTask}]
      /\ IsFiniteSet(Open(records)) /\ Cardinality(Open(records)) <= MaxConnections
  BY DEF Rename, Tables, Table
<1>2. PICK from \in Bijection(free, old) :
        records' = MovedRecords(from) /\ senders' = MovedSenders(from)
  BY DEF Rename, UpdateNick
<1>3. /\ DOMAIN from = free /\ Range(from) = old /\ \A id \in free : from[id] \in old
      /\ \A a, b \in free : from[a] = from[b] => a = b
  BY DEF Bijection, Injection, Surjection, Range, IsInjective
<1>4. /\ old \subseteq Open(records) /\ free \subseteq Ids
      /\ \A id \in free : records[id] = NoRecord
  BY DEF OfNick, FreeIds
<1> HIDE DEF old, free
<1>5. /\ records' \in [Ids -> Records \cup {NoRecord}]
      /\ \A id \in old : records'[id] = NoRecord
      /\ \A id \in Ids \ (free \cup old) : records'[id] = records[id]
  BY <1>1, <1>2, <1>3, <1>4 DEF MovedRecords, Open
<1>6. senders' \in [Ids -> Tasks \cup {NoTask}]
  BY <1>1, <1>2, <1>3, <1>4 DEF MovedSenders, Open
<1> DEFINE was == [id \in Open(records') |-> IF id \in free THEN from[id] ELSE id]
<1>7. was \in Injection(Open(records'), Open(records))
  <2>1. \A id \in Open(records') : id \notin old /\ (id \notin free => id \in Open(records))
    BY <1>5 DEF Open
  <2>2. \A id \in Open(records') : was[id] \in Open(records)
    BY <1>3, <1>4, <2>1
  <2>3. \A a, b \in Open(records') : was[a] = was[b] => a = b
    BY <1>3, <2>1
  <2> QED
    BY <2>2, <2>3 DEF Injection, IsInjective
<1>8. IsFiniteSet(Open(records')) /\ Cardinality(Open(records')) <= Cardinality(Open(records))
  BY <1>1, <1>7, FS_Injection
<1>9. Table(records')
  BY <1>1, <1>5, <1>8, FS_CardinalityType, DccAssumption DEF Table
<1>10. nickOf' \in [Peers -> Nicks \cup {NoNick}]
  BY <1>1 DEF People
<1> QED
  BY <1>1, <1>6, <1>9, <1>10 DEF Tables, People

LEMMA OneStepTyped ==
  ASSUME Tables(records, senders, tasks), People, PeerStep \/ UserStep
  PROVE  Tables(records', senders', tasks') /\ People' /\ UNCHANGED events
<1>1. CASE \E p \in Peers : LeaveIrc(p)
  BY <1>1 DEF LeaveIrc, Tables, People
<1>2. ASSUME NEW n \in Nicks, CloseByNick(n)
      PROVE  Tables(records', senders', tasks') /\ People' /\ UNCHANGED events
  <2>1. PICK id \in Ids : /\ records' = [records EXCEPT ![id] = NoRecord]
                          /\ left' = left \cup ({senders[id]} \ {NoTask})
    BY <1>2 DEF CloseByNick, OfNick, Open
  <2>2. Table(records')
    BY <2>1, EntryGone DEF Tables
  <2>3. left' \subseteq Tasks
    BY <2>1 DEF Tables, People
  <2> QED
    BY <1>2, <2>2, <2>3 DEF CloseByNick, Tables, People
<1>3. CASE ChatLatest
  BY <1>3, AcceptTyped DEF ChatLatest, People
<1>4. CASE PeerStep
  BY <1>1, <1>4, OfferTyped, ResponseTyped, RenameTyped DEF PeerStep
<1>5. CASE UserStep
  BY <1>2, <1>3, <1>5, ChatTyped, ChatPassiveTyped DEF UserStep, Close, NoSuchNick
<1> QED
  BY <1>4, <1>5

(* A task reports what it is with the id it was given.                     *)
LEMMA ReportTyped ==
  ASSUME DccTyped, NEW es \in Seq(Reports), Report(es)
  PROVE  Channel'
<1>1. events \in Seq(Reports) /\ events' = events \o es /\ Len(events) + Len(es) <= MaxEvents
  BY DEF DccTyped, Channel, Report
<1>2. events' \in Seq(Reports) /\ Len(events') = Len(events) + Len(es)
  BY <1>1, ConcatProperties
<1> QED
  BY <1>1, <1>2 DEF Channel

LEMMA TaskStepTyped ==
  ASSUME DccTyped, NEW t \in Tasks, TaskStep(t)
  PROVE  DccTyped'
<1>1. /\ UNCHANGED <<records, senders, nickOf, asked, spent, left, steps>>
      /\ tasks \in [Tasks -> TaskRecords] /\ Task("over", NoId, Nobody) \in TaskRecords
  BY DEF TaskStep, TimesOut, Connects, ConnectsToUs, Line, HangsUp, WriterEnds, OnlyTasks,
         DccTyped, Tables, Task, TaskRecords, Stages
<1>2. ASSUME NEW u \in Tasks, NEW type \in {"ChatError", "ChatConnected", "ChatMessage", "ChatClosed"}
      PROVE  Event(type, u) \in Reports
  BY <1>1 DEF Event, Reports, TaskRecords
<1>3. CASE TimesOut(t) \/ HangsUp(t)
  <2>1. <<Event("ChatError", t)>> \in Seq(Reports) /\ <<Event("ChatClosed", t)>> \in Seq(Reports)
    BY <1>2
  <2>2. Channel' /\ Ends(t)
    BY <1>3, <2>1, ReportTyped DEF TimesOut, HangsUp
  <2> QED
    BY <1>1, <2>2 DEF Ends, DccTyped, Tables, People
<1>4. CASE Connects(t)
  <2>1. <<Event("ChatConnected", t)>> \in Seq(Reports)
    BY <1>2
  <2>2. Channel' /\ Becomes(t, "session")
    BY <1>4, <2>1, ReportTyped DEF Connects
  <2>3. tasks' \in [Tasks -> TaskRecords]
    BY <1>1, <2>2 DEF Becomes, TaskRecords, Stages
  <2> QED
    BY <1>1, <2>2, <2>3 DEF DccTyped, Tables, People
<1>5. CASE ConnectsToUs(t)
  <2> DEFINE u == tasks[t].peer
             c == Event("ChatConnected", t)
             d == Event("ChatConnected", u)
  <2>1. u \in Tasks /\ tasks' = [tasks EXCEPT ![t].stage = "session", ![u] = Task("session", @.id, t)]
    BY <1>5 DEF ConnectsToUs
  <2>2. <<c, d>> \in Seq(Reports) /\ <<d, c>> \in Seq(Reports)
    <3>1. c \in Reports /\ d \in Reports
      BY <1>2, <2>1
    <3> HIDE DEF c, d
    <3> QED
      BY <3>1
  <2>3. Report(<<c, d>>) \/ Report(<<d, c>>)
    BY <1>5 DEF ConnectsToUs
  <2> HIDE DEF c, d
  <2>4. Channel'
    BY <2>2, <2>3, ReportTyped
  <2>5. tasks' \in [Tasks -> TaskRecords]
    <3> DEFINE caller == [tasks[t] EXCEPT !.stage = "session"]
               called == Task("session", tasks[u].id, t)
    <3>1. u # t
      BY <1>5 DEF ConnectsToUs
    <3>2. tasks' = [[tasks EXCEPT ![t] = caller] EXCEPT ![u] = called]
      BY <1>1, <2>1, <3>1
    <3>3. caller \in TaskRecords
      BY <1>1 DEF TaskRecords, Stages
    <3>4. called \in TaskRecords
      BY <1>1, <2>1 DEF Task, TaskRecords, Stages
    <3> HIDE DEF u, caller, called
    <3> QED
      BY <1>1, <2>1, <3>2, <3>3, <3>4
  <2> QED
    BY <1>1, <2>4, <2>5 DEF DccTyped, Tables, People
<1>6. CASE Line(t)
  <2>1. <<Event("ChatMessage", t)>> \in Seq(Reports)
    BY <1>2
  <2>2. Channel' /\ UNCHANGED tasks
    BY <1>6, <2>1, ReportTyped DEF Line
  <2> QED
    BY <1>1, <2>2 DEF DccTyped, Tables, People
<1>7. CASE WriterEnds(t)
  BY <1>1, <1>7 DEF WriterEnds, Ends, DccTyped, Tables, People, Channel
<1> QED
  BY <1>3, <1>4, <1>5, <1>6, <1>7 DEF TaskStep

LEMMA HandleDccEventTyped ==
  ASSUME DccTyped, HandleDccEvent
  PROVE  DccTyped'
<1>1. /\ events # <<>> /\ events' = Tail(events) /\ UNCHANGED <<tasks, nickOf, asked, spent, left, steps>>
      /\ events \in Seq(Reports) /\ Len(events) <= MaxEvents /\ MaxEvents \in Nat
  BY DccAssumption DEF HandleDccEvent, DccTyped, Channel
<1>2. Channel'
  <2>1. Tail(events) \in Seq(Reports) /\ Len(Tail(events)) = Len(events) - 1 /\ Len(events) \in Nat
    BY <1>1, HeadTailProperties, LenProperties
  <2> QED
    BY <1>1, <2>1 DEF Channel
<1> DEFINE e == Head(events)
<1>3. e \in Reports
  BY <1>1, HeadTailProperties
<1>4. /\ \/ records' = records
         \/ records[e.id] # NoRecord /\ records' = [records EXCEPT ![e.id].state = "connected"]
         \/ records' = [records EXCEPT ![e.id] = NoRecord]
      /\ senders' = senders \/ senders' = [senders EXCEPT ![e.id] = NoTask]
  <2>1. CASE e.type = "ChatConnected"
    BY <2>1 DEF HandleDccEvent
  <2>2. CASE e.type = "ChatMessage"
    BY <2>2 DEF HandleDccEvent
  <2>3. CASE e.type \notin {"ChatConnected", "ChatMessage"}
    BY <2>3 DEF HandleDccEvent, Ended
  <2> QED
    BY <2>1, <2>2, <2>3
<1> HIDE DEF e
<1>5. Table(records) /\ senders \in [Ids -> Tasks \cup {NoTask}]
  BY DEF DccTyped, Tables
<1>6. Table(records')
  <2>1. CASE records[e.id] # NoRecord /\ records' = [records EXCEPT ![e.id].state = "connected"]
    <3> DEFINE id == e.id
               r == [records[id] EXCEPT !.state = "connected"]
    <3>1. CASE id \in Ids
      <4>1. id \in Open(records) /\ records[id] \in Records
        BY <1>5, <2>1, <3>1 DEF Table, Open
      <4>2. r \in Records /\ records' = [records EXCEPT ![id] = r]
        BY <2>1, <4>1 DEF Records, States
      <4> HIDE DEF id, r
      <4> QED
        BY <1>5, <4>1, <4>2, EntrySet
    <3>2. CASE id \notin Ids
      <4>1. records' = records
        BY <1>5, <2>1, <3>2 DEF Table
      <4> QED
        BY <1>5, <4>1
    <3> QED
      BY <3>1, <3>2
  <2>2. CASE records' = [records EXCEPT ![e.id] = NoRecord]
    BY <1>5, <2>2, EntryGone
  <2> QED
    BY <1>4, <1>5, <2>1, <2>2
<1>7. senders' \in [Ids -> Tasks \cup {NoTask}]
  BY <1>4, <1>5
<1> QED
  BY <1>1, <1>2, <1>6, <1>7 DEF DccTyped, Tables, People

LEMMA TypedInit == ASSUME Init PROVE DccTyped
<1>1. Open(records) = {} /\ Cardinality({}) = 0 /\ IsFiniteSet({}) /\ MaxConnections \in Nat
  BY FS_EmptySet, DccAssumption DEF Init, Open
<1>2. Table(records)
  <2>1. records \in [Ids -> Records \cup {NoRecord}]
    BY DEF Init
  <2> QED
    BY <1>1, <2>1 DEF Table
<1>3. tasks \in [Tasks -> TaskRecords]
  BY DEF Init, Task, TaskRecords, Stages
<1>4. events \in Seq(Reports) /\ Len(events) <= MaxEvents
  BY EmptySeq, DccAssumption DEF Init
<1>5. steps \in 0 .. MaxSteps
  BY DccAssumption DEF Init
<1>6. People
  BY DEF Init, People
<1> QED
  BY <1>2, <1>3, <1>4, <1>5, <1>6 DEF DccTyped, Tables, Channel, Init

LEMMA TypedNext == ASSUME DccTyped, [Next]_vars PROVE DccTyped'
<1>1. CASE UNCHANGED vars
  BY <1>1 DEF vars, DccTyped, Tables, People, Channel
<1>2. CASE steps < MaxSteps /\ steps' = steps + 1 /\ (PeerStep \/ UserStep)
  <2>1. Tables(records', senders', tasks') /\ People' /\ UNCHANGED events
    BY <1>2, OneStepTyped DEF DccTyped
  <2>2. steps' \in 0 .. MaxSteps
    BY <1>2, DccAssumption DEF DccTyped
  <2> QED
    BY <2>1, <2>2 DEF DccTyped, Channel
<1>3. ASSUME NEW id \in Ids, PurgeExpired(id) PROVE DccTyped'
  <2>1. Table(records')
    BY <1>3, EntryGone DEF PurgeExpired, DccTyped, Tables
  <2> QED
    BY <1>3, <2>1 DEF PurgeExpired, DccTyped, Tables, People, Channel
<1>4. ASSUME NEW t \in Tasks, TaskStep(t) PROVE DccTyped'
  BY <1>4, TaskStepTyped
<1>5. CASE HandleDccEvent
  BY <1>5, HandleDccEventTyped
<1> QED
  BY <1>1, <1>2, <1>3, <1>4, <1>5 DEF Next

LEMMA TypedSuffices == ASSUME DccTyped PROVE TypeOK
<1>1. \A id \in Open(records) : records[id] \in Records
  BY DEF DccTyped, Tables, Table, Open
<1>2. \A t \in Tasks : tasks[t].stage \in Stages /\ tasks[t].id \in Ids \cup {NoId}
  BY DEF DccTyped, Tables, TaskRecords
<1>3. asked \in SUBSET [peer : Peers, token : Tokens]
  BY DEF DccTyped, People, Asks
<1> QED
  BY <1>1, <1>2, <1>3 DEF TypeOK, DccTyped, Tables, Table, People, Channel

(* Whatever the peers and the user do there are never more records than    *)
(* dcc.max_connections, and every table keeps its types: the limit is      *)
(* asked before a record is added, and a rename adds none.                 *)
THEOREM RecordsAreLimited == Spec => []TypeOK
<1>1. Init => DccTyped
  BY TypedInit
<1>2. DccTyped /\ [Next]_vars => DccTyped'
  BY TypedNext
<1>3. DccTyped => TypeOK
  BY TypedSuffices
<1> QED
  BY <1>1, <1>2, <1>3, PTL DEF Spec

-----------------------------------------------------------------------------
(* The terminals of a session, for any finite set of them.                 *)
LEMMA SessionCounts ==
  \A U : (S!IsFiniteSet(U) <=> IsFiniteSet(U)) /\ S!Cardinality(U) = Cardinality(U)
BY DEF S!IsFiniteSet, IsFiniteSet, S!Cardinality, Cardinality

(* What queues do.                                                         *)
LEMMA QueueFacts ==
  ASSUME NEW T, NEW q \in Seq(T)
  PROVE  /\ Len(q) \in Nat /\ DOMAIN q = 1..Len(q) /\ S!ToSet(q) \subseteq T
         /\ S!ToSet(<< >>) = {} /\ (q # << >> => Len(q) # 0)
<1>1. Len(q) \in Nat /\ DOMAIN q = 1..Len(q) /\ \A i \in DOMAIN q : q[i] \in T
  BY LenProperties, ElementOfSeq
<1>2. q # << >> => Len(q) # 0
  BY EmptySeq, Zenon
<1>3. S!ToSet(<< >>) = {}
  BY DEF S!ToSet
<1> QED
  BY <1>1, <1>2, <1>3 DEF S!ToSet

LEMMA QueueAppended ==
  ASSUME NEW T, NEW q \in Seq(T), NEW x \in T
  PROVE  /\ Append(q, x) \in Seq(T) /\ Append(q, x) # << >> /\ Len(Append(q, x)) = Len(q) + 1
         /\ S!ToSet(Append(q, x)) = S!ToSet(q) \cup {x}
         /\ (S!Once(q) /\ x \notin S!ToSet(q) => S!Once(Append(q, x)))
         /\ (q # << >> => Head(Append(q, x)) = Head(q))
<1> DEFINE r == Append(q, x)
<1>1. /\ r \in Seq(T) /\ r # << >> /\ Len(r) = Len(q) + 1
      /\ \A i \in 1..Len(q) : r[i] = q[i]
      /\ r[Len(q) + 1] = x
  BY AppendProperties
<1>2. Len(q) \in Nat /\ DOMAIN q = 1..Len(q) /\ DOMAIN r = 1..Len(r)
  BY <1>1, QueueFacts
<1>3. q # << >> => Head(r) = Head(q)
  BY HeadTailAppend
<1> HIDE DEF r
<1>4. DOMAIN r = DOMAIN q \cup {Len(q) + 1}
  BY <1>1, <1>2
<1>5. S!ToSet(r) = S!ToSet(q) \cup {x}
  BY <1>1, <1>2, <1>4 DEF S!ToSet
<1>6. S!Once(q) /\ x \notin S!ToSet(q) => S!Once(r)
  BY <1>1, <1>2, <1>4 DEF S!ToSet, S!Once
<1> QED
  BY <1>1, <1>3, <1>5, <1>6 DEF r

LEMMA QueueTaken ==
  ASSUME NEW T, NEW q \in Seq(T), q # << >>
  PROVE  /\ Head(q) \in T /\ Tail(q) \in Seq(T) /\ Len(Tail(q)) = Len(q) - 1
         /\ S!ToSet(q) = S!ToSet(Tail(q)) \cup {Head(q)}
         /\ (S!Once(q) => S!Once(Tail(q)) /\ Head(q) \notin S!ToSet(Tail(q)))
<1> DEFINE r == Tail(q)
<1>1. /\ Head(q) \in T /\ r \in Seq(T) /\ Len(r) = Len(q) - 1
      /\ \A i \in 1..Len(r) : r[i] = q[i + 1]
  BY HeadTailProperties
<1>2. Len(q) \in Nat \ {0} /\ DOMAIN q = 1..Len(q) /\ DOMAIN r = 1..Len(r) /\ Head(q) = q[1]
  BY <1>1, QueueFacts
<1> HIDE DEF r
<1>3. \A i \in DOMAIN q : i = 1 \/ (i - 1 \in DOMAIN r /\ r[i - 1] = q[i])
  BY <1>1, <1>2
<1>4. \A i \in DOMAIN r : i + 1 \in DOMAIN q /\ r[i] = q[i + 1] /\ i + 1 # 1
  BY <1>1, <1>2
<1>5. S!ToSet(q) = S!ToSet(r) \cup {Head(q)}
  BY <1>2, <1>3, <1>4 DEF S!ToSet
<1>6. S!Once(q) => S!Once(r) /\ Head(q) \notin S!ToSet(r)
  <2> SUFFICES ASSUME S!Once(q) PROVE S!Once(r) /\ Head(q) \notin S!ToSet(r)
    OBVIOUS
  <2>1. S!Once(r)
    BY <1>1, <1>2, <1>4 DEF S!Once
  <2>2. Head(q) \notin S!ToSet(r)
    <3> SUFFICES ASSUME NEW i \in DOMAIN r, r[i] = q[1] PROVE FALSE
      BY <1>2 DEF S!ToSet
    <3> QED
      BY <1>2, <1>4 DEF S!Once
  <2> QED
    BY <2>1, <2>2
<1> QED
  BY <1>1, <1>5, <1>6 DEF r

LEMMA QueueBounded ==
  ASSUME NEW T, IsFiniteSet(T), NEW q \in Seq(T), S!Once(q)
  PROVE  Len(q) <= Cardinality(T)
<1> DEFINE n == Len(q)
<1>1. n \in Nat /\ q \in [1..n -> T]
  BY LenProperties
<1>2. q \in Injection(1..n, T)
  BY <1>1 DEF Injection, IsInjective, S!Once
<1>3. Cardinality(1..n) = n
  BY <1>1, FS_Interval
<1> QED
  BY <1>2, <1>3, FS_Injection

LEMMA Greatest ==
  ASSUME NEW n \in Nat, NEW R \in SUBSET (1..n), R # {}
  PROVE  S!Max(R) \in R
<1> DEFINE U == {k \in 0..n : n - k \in R}
           Less == OpToRel(<, Nat)
<1>1. IsWellFoundedOn(Less, Nat) /\ \A x, y \in Nat : y < x => <<y, x>> \in Less
  BY NatLessThanWellFounded DEF OpToRel
<1>2. U \in SUBSET Nat /\ U # {}
  <2>1. PICK i \in R : TRUE
    OBVIOUS
  <2>2. n - i \in 0..n /\ n - (n - i) \in R
    BY <2>1
  <2>3. n - i \in U
    BY <2>2
  <2>4. U # {}
    BY <2>3
  <2> QED
    BY <2>4
<1> HIDE DEF Less
<1>3. PICK k \in U : \A y \in U : ~(<<y, k>> \in Less)
  BY <1>1, <1>2, WFMin
<1>4. \A y \in U : ~(y < k)
  BY <1>1, <1>2, <1>3
<1>5. n - k \in R /\ k \in 0..n
  BY <1>3
<1>6. \A j \in R : n - j \in U
  OBVIOUS
<1> HIDE DEF U
<1>7. ASSUME NEW j \in R PROVE n - k >= j
  <2>1. ~(n - j < k) /\ j \in 1..n
    BY <1>4, <1>6
  <2> QED
    BY <2>1, <1>5
<1> QED
  BY <1>5, <1>7 DEF S!Max

(* The size taken from what is drained is one that was sent.               *)
LEMMA SizedType ==
  ASSUME S!SessionInv, NEW msgs \in Seq(S!Messages)
  PROVE  S!Sized(msgs) \in Sizes
<1> DEFINE R == {i \in DOMAIN msgs : msgs[i].kind = "resized"}
<1>1. Len(msgs) \in Nat /\ DOMAIN msgs = 1..Len(msgs)
      /\ \A i \in DOMAIN msgs : msgs[i] \in S!Messages
  BY LenProperties, ElementOfSeq
<1>2. cached \in Sizes
  BY DEF S!SessionInv, S!Typed, S!LoopTypes
<1>3. CASE R = {}
  BY <1>2, <1>3 DEF S!Sized
<1>4. CASE R # {}
  <2>1. S!Max(R) \in R
    BY <1>1, <1>4, Greatest
  <2>2. msgs[S!Max(R)] \in S!Messages /\ msgs[S!Max(R)].kind = "resized"
    BY <1>1, <2>1
  <2>3. \A m \in S!Messages : m.kind = "resized" => m.size \in Sizes
    BY DEF S!Messages, S!Msg
  <2>4. msgs[S!Max(R)].size \in Sizes
    BY <2>2, <2>3
  <2> QED
    BY <1>4, <2>4 DEF S!Sized
<1> QED
  BY <1>3, <1>4

-----------------------------------------------------------------------------
(* The shims.                                                              *)
LEMMA ShimFacts ==
  ASSUME S!SessionInv, NEW s \in Terminals
  PROVE  /\ shim[s] \in {"none", "connected", "relay", "gone"} /\ size[s] \in Sizes
         /\ up[s] \in Seq(S!Messages) /\ down[s] \in Seq(S!Sent)
         /\ S!Greeted(s) /\ S!ServedOrTold(s) /\ S!Bounded(s)
BY DEF S!SessionInv, S!Typed, S!ShimTypes

LEMMA SessionStepsCount ==
  ASSUME S!SessionAssumption, S!SessionInv, S!Step
  PROVE  session_steps' \in 0..MaxSessionSteps
BY DEF S!SessionAssumption, S!SessionInv, S!Typed, S!LoopTypes, S!Step

LEMMA ConnectKeeps ==
  ASSUME S!SessionAssumption, S!SessionInv, NEW s \in Terminals, S!Connect(s)
  PROVE  S!SessionInv'
<1> USE DEF S!shims, S!flags, S!main, S!vars
<1>1. /\ shim[s] = "none" /\ pc # "quit" /\ shim' = [shim EXCEPT ![s] = "connected"]
      /\ backlog' = Append(backlog, s)
      /\ UNCHANGED <<size, up, pressed, down, pc, joining, S!flags>>
      /\ session_steps' \in 0..MaxSessionSteps
  BY SessionStepsCount DEF S!Connect
<1>2. /\ backlog \in Seq(Terminals) /\ S!Once(backlog) /\ s \notin S!Waiting \cup {current}
      /\ s \notin S!ToSet(backlog)
      /\ shim \in [Terminals -> {"none", "connected", "relay", "gone"}]
  BY <1>1 DEF S!SessionInv, S!Typed, S!ShimTypes, S!LoopTypes, S!OnePlaceEach, S!Waiting
<1>3. backlog' \in Seq(Terminals) /\ S!ToSet(backlog') = S!ToSet(backlog) \cup {s}
      /\ S!Once(backlog')
  BY <1>1, <1>2, QueueAppended
<1>4. S!Typed'
  BY <1>1, <1>2, <1>3 DEF S!SessionInv, S!Typed, S!ShimTypes, S!LoopTypes
<1>5. S!Waiting' = S!Waiting \cup {s}
      /\ \A t \in Terminals : shim'[t] = IF t = s THEN "connected" ELSE shim[t]
  BY <1>1, <1>2, <1>3 DEF S!Waiting
<1>6. S!OnePlaceEach'
  BY <1>1, <1>2, <1>3, <1>5 DEF S!SessionInv, S!OnePlaceEach, S!Waiting
<1>7. S!Screen'
  BY <1>1 DEF S!SessionInv, S!Screen
<1>8. ASSUME NEW t \in Terminals PROVE (S!Greeted(t) /\ S!ServedOrTold(t) /\ S!Bounded(t))'
  BY <1>1, <1>5, <1>2, ShimFacts DEF S!Greeted, S!ServedOrTold, S!Bounded
<1> QED
  BY <1>4, <1>6, <1>7, <1>8 DEF S!SessionInv

LEMMA HelloKeeps ==
  ASSUME S!SessionAssumption, S!SessionInv, NEW s \in Terminals, S!Hello(s)
  PROVE  S!SessionInv'
<1> USE DEF S!shims, S!flags, S!main, S!vars
<1>1. /\ shim[s] = "connected" /\ shim' = [shim EXCEPT ![s] = "relay"]
      /\ up' = [up EXCEPT ![s] = <<S!Msg("hello", size[s])>>]
      /\ UNCHANGED <<size, pressed, session_steps, S!main>>
  BY DEF S!Hello
<1>2. S!Typed
  BY DEF S!SessionInv
<1> DEFINE m == S!Msg("hello", size[s])
<1>3. m \in S!Messages /\ m.kind = "hello"
  <2>1. size[s] \in Sizes
    BY ShimFacts
  <2> QED
    BY <2>1 DEF S!Messages, S!Msg
<1>a. up' = [up EXCEPT ![s] = <<m>>]
  BY <1>1
<1> HIDE DEF m
<1>4. <<m>> \in Seq(S!Messages) /\ <<m>> # << >> /\ Head(<<m>>) = m
  BY <1>3
<1>5. S!Typed'
  BY <1>1, <1>2, <1>a, <1>4 DEF S!Typed, S!ShimTypes, S!LoopTypes
<1>6. S!Waiting' = S!Waiting /\ S!ToSet(backlog') = S!ToSet(backlog)
  BY <1>1 DEF S!Waiting
<1>7. \A t \in Terminals : /\ shim'[t] = (IF t = s THEN "relay" ELSE shim[t])
                      /\ up'[t] = (IF t = s THEN <<m>> ELSE up[t])
  <2>1. /\ shim \in [Terminals -> {"none", "connected", "relay", "gone"}]
        /\ up \in [Terminals -> Seq(S!Messages)]
    BY <1>2 DEF S!Typed, S!ShimTypes
  <2> QED
    BY <1>1, <1>a, <2>1
<1>8. S!OnePlaceEach' /\ S!Screen'
  BY <1>1, <1>6, <1>7 DEF S!SessionInv, S!OnePlaceEach, S!Screen, S!Once
<1>9. ASSUME NEW t \in Terminals PROVE (S!Greeted(t) /\ S!ServedOrTold(t) /\ S!Bounded(t))'
  <2>1. S!Greeted(t)'
    <3>1. CASE t = s
      BY <1>3, <1>4, <1>6, <1>7, <3>1 DEF S!Greeted
    <3>2. CASE t # s
      BY <1>6, <1>7, <3>2, ShimFacts DEF S!Greeted
    <3> QED
      BY <3>1, <3>2
  <2>2. (S!ServedOrTold(t) /\ S!Bounded(t))'
    BY <1>1, <1>6, <1>7, ShimFacts DEF S!ServedOrTold, S!Bounded
  <2> QED
    BY <2>1, <2>2
<1> QED
  BY <1>5, <1>8, <1>9 DEF S!SessionInv

LEMMA SaysKeeps ==
  ASSUME S!SessionAssumption, S!SessionInv, NEW s \in Terminals, NEW msgs \in Seq(S!Messages),
         S!Says(s, msgs), UNCHANGED shim, UNCHANGED S!main, size' \in [Terminals -> Sizes],
         pressed' \subseteq Terminals
  PROVE  S!SessionInv'
<1> USE DEF S!flags, S!main
<1>1. /\ shim[s] = "relay" /\ up' = [up EXCEPT ![s] = @ \o msgs]
      /\ session_steps' \in 0..MaxSessionSteps
      /\ UNCHANGED <<shim, down, backlog, pc, joining, S!flags>>
  BY SessionStepsCount DEF S!Says
<1> DEFINE said == up[s] \o msgs
<1>2. said \in Seq(S!Messages) /\ (up[s] # << >> => said # << >> /\ Head(said) = Head(up[s]))
  <2>1. up[s] \in Seq(S!Messages)
    BY ShimFacts
  <2>2. /\ said \in Seq(S!Messages) /\ Len(said) = Len(up[s]) + Len(msgs)
        /\ \A i \in 1..Len(up[s]) : said[i] = up[s][i]
    BY <2>1, ConcatProperties
  <2>3. Len(up[s]) \in Nat /\ Len(msgs) \in Nat /\ (up[s] # << >> => Len(up[s]) # 0)
    BY <2>1, QueueFacts
  <2>4. CASE up[s] # << >>
    <3>1. Len(said) # 0 /\ said[1] = up[s][1]
      BY <2>2, <2>3, <2>4
    <3> HIDE DEF said
    <3>2. said # << >>
      BY <3>1
    <3> QED
      BY <2>1, <2>2, <2>4, <3>1, <3>2
  <2> QED
    BY <2>2, <2>4
<1>3. up \in [Terminals -> Seq(S!Messages)] /\ up' = [up EXCEPT ![s] = said]
  BY <1>1 DEF S!SessionInv, S!Typed, S!ShimTypes
<1> HIDE DEF said
<1>4. S!Typed'
  BY <1>1, <1>2, <1>3 DEF S!SessionInv, S!Typed, S!ShimTypes, S!LoopTypes
<1>5. S!Waiting' = S!Waiting /\ \A t \in Terminals : up'[t] = IF t = s THEN said ELSE up[t]
  BY <1>1, <1>3 DEF S!Waiting
<1>6. S!OnePlaceEach' /\ S!Screen'
  BY <1>1, <1>5 DEF S!SessionInv, S!OnePlaceEach, S!Screen, S!Once
<1>7. ASSUME NEW t \in Terminals PROVE (S!Greeted(t) /\ S!ServedOrTold(t) /\ S!Bounded(t))'
  <2>1. CASE t = s
    BY <1>1, <1>2, <1>5, <2>1, ShimFacts DEF S!Greeted, S!ServedOrTold, S!Bounded
  <2>2. CASE t # s
    BY <1>1, <1>5, <2>2, ShimFacts DEF S!Greeted, S!ServedOrTold, S!Bounded
  <2> QED
    BY <2>1, <2>2
<1> QED
  BY <1>4, <1>6, <1>7 DEF S!SessionInv

LEMMA UserSaysKeeps ==
  ASSUME S!SessionAssumption, S!SessionInv, NEW s \in Terminals,
         S!Types(s) \/ S!PressesDetach(s) \/ \E n \in Sizes : S!Resizes(s, n)
  PROVE  S!SessionInv'
<1>1. size \in [Terminals -> Sizes] /\ pressed \subseteq Terminals
  BY DEF S!SessionInv, S!Typed, S!ShimTypes
<1>2. S!Msg("key", 0) \in S!Messages /\ S!Msg("detach", 0) \in S!Messages
  BY DEF S!Messages
<1>a. <<S!Msg("key", 0)>> \in Seq(S!Messages) /\ <<S!Msg("detach", 0)>> \in Seq(S!Messages)
  BY <1>2
<1>3. CASE S!Types(s)
  BY <1>1, <1>a, <1>3, SaysKeeps DEF S!Types
<1>4. CASE S!PressesDetach(s)
  <2>1. pressed' \subseteq Terminals
    BY <1>1, <1>4 DEF S!PressesDetach
  <2> QED
    BY <1>1, <1>a, <1>4, <2>1, SaysKeeps DEF S!PressesDetach
<1>5. ASSUME NEW n \in Sizes, S!Resizes(s, n) PROVE S!SessionInv'
  <2>1. S!Msg("resized", n) \in S!Messages /\ S!Msg("resize", n) \in S!Messages
    BY DEF S!Messages
  <2>2. <<S!Msg("resized", n), S!Msg("resize", n)>> \in Seq(S!Messages)
    BY <2>1
  <2>3. <<S!Msg("resize", n), S!Msg("resized", n)>> \in Seq(S!Messages)
    BY <2>1
  <2>4. size' \in [Terminals -> Sizes] /\ UNCHANGED <<shim, pressed, S!main>>
    BY <1>1, <1>5 DEF S!Resizes
  <2> QED
    BY <1>1, <1>5, <2>2, <2>3, <2>4, SaysKeeps DEF S!Resizes
<1> QED
  BY <1>3, <1>4, <1>5

LEMMA LeavesKeeps ==
  ASSUME S!SessionAssumption, S!SessionInv, NEW s \in Terminals, shim[s] # "none", S!Leaves(s),
         UNCHANGED S!main, session_steps' \in 0..MaxSessionSteps
  PROVE  S!SessionInv'
<1> USE DEF S!flags, S!main
<1>1. /\ shim' = [shim EXCEPT ![s] = "gone"] /\ UNCHANGED <<size, up, pressed>>
      /\ shim \in [Terminals -> {"none", "connected", "relay", "gone"}]
  BY DEF S!Leaves, S!SessionInv, S!Typed, S!ShimTypes
<1>2. S!Typed'
  BY <1>1 DEF S!SessionInv, S!Typed, S!ShimTypes, S!LoopTypes
<1>3. S!Waiting' = S!Waiting
      /\ \A t \in Terminals : shim'[t] = IF t = s THEN "gone" ELSE shim[t]
  BY <1>1 DEF S!Waiting
<1>4. S!OnePlaceEach' /\ S!Screen'
  BY <1>3 DEF S!SessionInv, S!OnePlaceEach, S!Screen, S!Once
<1>5. ASSUME NEW t \in Terminals PROVE (S!Greeted(t) /\ S!ServedOrTold(t) /\ S!Bounded(t))'
  BY <1>1, <1>3, ShimFacts DEF S!Greeted, S!ServedOrTold, S!Bounded
<1> QED
  BY <1>2, <1>4, <1>5 DEF S!SessionInv

LEMMA DepartureKeeps ==
  ASSUME S!SessionAssumption, S!SessionInv, NEW s \in Terminals, S!Dies(s) \/ S!ConnectionLost(s)
  PROVE  S!SessionInv'
<1>1. session_steps \in 0..MaxSessionSteps
  BY DEF S!SessionInv, S!Typed, S!LoopTypes
<1> QED
  BY <1>1, SessionStepsCount, LeavesKeeps DEF S!Dies, S!ConnectionLost

(* What is read before the reason leaves the reason to be read.            *)
LEMMA ReadsKeeps ==
  ASSUME S!SessionAssumption, S!SessionInv, NEW s \in Terminals, S!Reads(s)
  PROVE  S!SessionInv'
<1> USE DEF S!shims, S!flags
<1> DEFINE unread == Tail(down[s])
<1>1. /\ shim[s] = "relay" /\ down[s] # << >> /\ down' = [down EXCEPT ![s] = unread]
      /\ \/ Head(down[s]) = S!Out /\ UNCHANGED S!shims
         \/ S!Leaves(s)
      /\ UNCHANGED <<backlog, pc, joining, S!flags, session_steps>>
  BY DEF S!Reads
<1>2. /\ unread \in Seq(S!Sent) /\ Len(unread) = Len(down[s]) - 1 /\ Len(down[s]) \in Nat
      /\ S!ToSet(down[s]) = S!ToSet(unread) \cup {Head(down[s])}
  BY <1>1, ShimFacts, QueueTaken, QueueFacts
<1> HIDE DEF unread
<1>3. /\ UNCHANGED <<size, up, pressed>>
      /\ shim' \in [Terminals -> {"none", "connected", "relay", "gone"}]
      /\ \A t \in Terminals \ {s} : shim'[t] = shim[t]
      /\ (shim'[s] = "relay" /\ Head(down[s]) = S!Out) \/ shim'[s] = "gone"
  <2>1. shim \in [Terminals -> {"none", "connected", "relay", "gone"}]
    BY DEF S!SessionInv, S!Typed, S!ShimTypes
  <2> QED
    BY <1>1, <2>1 DEF S!Leaves
<1>4. down \in [Terminals -> Seq(S!Sent)]
  BY DEF S!SessionInv, S!Typed, S!ShimTypes
<1>5. S!Typed'
  BY <1>1, <1>2, <1>3, <1>4 DEF S!SessionInv, S!Typed, S!ShimTypes, S!LoopTypes
<1>6. S!Waiting' = S!Waiting /\ \A t \in Terminals : down'[t] = IF t = s THEN unread ELSE down[t]
  BY <1>1, <1>4 DEF S!Waiting
<1>7. S!OnePlaceEach' /\ S!Screen'
  BY <1>1, <1>3, <1>6 DEF S!SessionInv, S!OnePlaceEach, S!Screen, S!Once
<1>8. MAX_SOCKET_OUTPUT_QUEUE \in Nat /\ "detached" # S!Out
  BY DEF S!SessionAssumption, S!Out
<1>9. ASSUME NEW t \in Terminals PROVE (S!Greeted(t) /\ S!ServedOrTold(t) /\ S!Bounded(t))'
  <2>1. CASE t = s
    <3>1. S!Greeted(t)'
      BY <1>1, <1>3, <1>6, <2>1, ShimFacts DEF S!Greeted
    <3>2. S!ServedOrTold(t)'
      BY <1>1, <1>2, <1>3, <1>6, <1>8, <2>1, ShimFacts DEF S!ServedOrTold
    <3>3. S!Bounded(t)'
      BY <1>1, <1>2, <1>6, <1>8, <2>1, ShimFacts DEF S!Bounded
    <3> QED
      BY <3>1, <3>2, <3>3
  <2>2. CASE t # s
    BY <1>1, <1>3, <1>6, <2>2, ShimFacts DEF S!Greeted, S!ServedOrTold, S!Bounded
  <2> QED
    BY <2>1, <2>2
<1> QED
  BY <1>5, <1>7, <1>9 DEF S!SessionInv

-----------------------------------------------------------------------------
(* The main loop.                                                          *)
LEMMA ToldFacts ==
  ASSUME S!SessionAssumption, S!SessionInv, NEW m \in S!Sent
  PROVE  /\ S!Told(m) \in [Terminals -> Seq(S!Sent)]
         /\ \A t \in Terminals :
              IF t = current THEN /\ Len(S!Told(m)[t]) = Len(down[t]) + 1
                                  /\ S!ToSet(S!Told(m)[t]) = S!ToSet(down[t]) \cup {m}
              ELSE S!Told(m)[t] = down[t]
<1>1. down \in [Terminals -> Seq(S!Sent)] /\ current \in Terminals \cup {S!None}
      /\ S!None \notin Terminals
  BY DEF S!SessionInv, S!Typed, S!ShimTypes, S!LoopTypes, S!SessionAssumption
<1>2. CASE current = S!None
  BY <1>1, <1>2 DEF S!Told
<1>3. CASE current # S!None
  <2> DEFINE line == Append(down[current], m)
  <2>1. current \in Terminals /\ S!Told(m) = [down EXCEPT ![current] = line]
    BY <1>1, <1>3 DEF S!Told
  <2>2. /\ line \in Seq(S!Sent) /\ Len(line) = Len(down[current]) + 1
        /\ S!ToSet(line) = S!ToSet(down[current]) \cup {m}
    BY <1>1, <2>1, QueueAppended
  <2> HIDE DEF line
  <2> QED
    BY <1>1, <2>1, <2>2
<1> QED
  BY <1>2, <1>3

(* The terminal goes, and its shim is told why.                            *)
LEMMA DropKeeps ==
  ASSUME S!SessionAssumption, S!SessionInv, NEW m \in {"detached", "quit"},
         down' = S!Told(m), S!TornDown, UNCHANGED <<S!shims, cached>>,
         detached' \in BOOLEAN, shouldDetach' \in BOOLEAN, session_steps' \in 0..MaxSessionSteps,
         IF m = "quit" THEN pc' = "quit" ELSE pc' # "quit" /\ pc # "quit",
         pc' \in {"top", "select", "hello", "quit"}, backlog' \in Seq(Terminals), S!Once(backlog'),
         S!ToSet(backlog') \cup {joining'} \subseteq S!Waiting \cup {S!None},
         S!Waiting \subseteq S!ToSet(backlog') \cup {joining', S!None},
         joining' \notin S!ToSet(backlog'),
         IF pc' = "hello" THEN joining' \in Terminals ELSE joining' = S!None
  PROVE  S!SessionInv'
<1> USE DEF S!shims
<1>1. /\ current' = S!None /\ attached' = FALSE /\ terminal' = 0 /\ S!None \notin Terminals
      /\ current \in Terminals \cup {S!None} /\ MAX_SOCKET_OUTPUT_QUEUE \in Nat /\ m \in S!Sent
  BY DEF S!TornDown, S!SessionAssumption, S!SessionInv, S!Typed, S!LoopTypes, S!Sent
<1>2. /\ down' \in [Terminals -> Seq(S!Sent)]
      /\ \A t \in Terminals :
           IF t = current THEN /\ Len(down'[t]) = Len(down[t]) + 1
                               /\ S!ToSet(down'[t]) = S!ToSet(down[t]) \cup {m}
           ELSE down'[t] = down[t]
  BY <1>1, ToldFacts
<1>3. S!Typed'
  BY <1>1, <1>2 DEF S!SessionInv, S!Typed, S!ShimTypes, S!LoopTypes
<1>4. S!Waiting' \subseteq S!Waiting \cup {S!None}
      /\ S!Waiting \subseteq S!Waiting' \cup {S!None}
  BY DEF S!Waiting
<1>5. S!None \notin S!ToSet(backlog')
  BY <1>1, QueueFacts
<1>6. S!OnePlaceEach'
  BY <1>1, <1>4, <1>5 DEF S!SessionInv, S!OnePlaceEach, S!Waiting
<1>7. S!Screen'
  BY <1>1 DEF S!Screen
<1>8. ASSUME NEW t \in Terminals PROVE (S!Greeted(t) /\ S!ServedOrTold(t) /\ S!Bounded(t))'
  <2>1. S!Greeted(t)'
    BY <1>1, <1>4, ShimFacts DEF S!Greeted
  <2>2. S!ServedOrTold(t)'
    BY <1>1, <1>2, <1>4, ShimFacts DEF S!ServedOrTold
  <2>3. S!Bounded(t)'
    <3>1. Len(down[t]) \in Nat /\ S!Bounded(t) /\ t # current'
      BY <1>1, ShimFacts, QueueFacts
    <3>2. CASE t = current
      <4>1. /\ Len(down'[t]) = Len(down[t]) + 1
            /\ Len(down[t]) <= MAX_SOCKET_OUTPUT_QUEUE
        BY <1>1, <1>2, <3>1, <3>2 DEF S!Bounded
      <4> QED
        BY <1>1, <3>1, <4>1 DEF S!Bounded
    <3>3. CASE t # current
      BY <1>1, <1>2, <3>1, <3>3 DEF S!Bounded
    <3> QED
      BY <3>2, <3>3
  <2> QED
    BY <2>1, <2>2, <2>3
<1> QED
  BY <1>3, <1>6, <1>7, <1>8 DEF S!SessionInv

LEMMA MainLoopFacts ==
  ASSUME S!SessionAssumption, S!SessionInv
  PROVE  /\ S!Typed /\ S!LoopTypes /\ S!None \notin Terminals /\ S!None \notin S!ToSet(backlog)
         /\ MAX_SOCKET_OUTPUT_QUEUE \in Nat \ {0}
         /\ S!Once(backlog) /\ joining \notin S!ToSet(backlog)
         /\ current \notin S!ToSet(backlog)
         /\ (pc # "hello" => joining = S!None) /\ (pc = "hello" => joining \in Terminals /\ current = S!None)
         /\ (attached <=> current # S!None) /\ (terminal # 0 => attached) /\ (attached => ~detached)
<1>1. S!None \notin S!ToSet(backlog)
  BY QueueFacts DEF S!SessionInv, S!Typed, S!LoopTypes, S!SessionAssumption
<1> QED
  BY <1>1 DEF S!SessionInv, S!Typed, S!OnePlaceEach, S!Screen, S!SessionAssumption

LEMMA PerformDetachKeeps ==
  ASSUME S!SessionAssumption, S!SessionInv, S!Top, S!PerformDetach
  PROVE  S!SessionInv'
<1>1. /\ pc = "top" /\ pc' = "select"
      /\ UNCHANGED <<backlog, joining, session_steps, S!shims, cached>>
      /\ down' = S!Told("detached") /\ S!TornDown /\ detached' = TRUE /\ shouldDetach' = FALSE
  BY DEF S!Top, S!PerformDetach
<1>2. /\ backlog \in Seq(Terminals) /\ S!Once(backlog) /\ joining = S!None
      /\ session_steps \in 0..MaxSessionSteps
      /\ joining \notin S!ToSet(backlog)
  BY <1>1, MainLoopFacts DEF S!LoopTypes
<1>3. S!ToSet(backlog') = S!ToSet(backlog) /\ S!Once(backlog')
  BY <1>1, <1>2
<1> QED
  BY <1>1, <1>2, <1>3, DropKeeps DEF S!Waiting

LEMMA DrawKeeps ==
  ASSUME S!SessionAssumption, S!SessionInv, S!Top, S!Draw
  PROVE  S!SessionInv'
<1> USE DEF S!shims
<1>1. /\ pc = "top" /\ pc' = "select" /\ UNCHANGED <<backlog, joining, session_steps, S!shims>>
      /\ UNCHANGED <<current, attached, detached, cached>>
      /\ shouldDetach' \in BOOLEAN
      /\ terminal' \in {terminal, 0}
      /\ down' = down \/ (terminal # 0 /\ S!HasRoom /\ down' = S!Told(S!Out))
  <2>1. shouldDetach \in BOOLEAN
    BY MainLoopFacts DEF S!LoopTypes
  <2> QED
    BY <2>1 DEF S!Top, S!Draw
<1>2. S!Waiting' = S!Waiting
  BY <1>1 DEF S!Waiting
<1>3. /\ down' \in [Terminals -> Seq(S!Sent)]
      /\ \A t \in Terminals : S!ToSet(down[t]) \subseteq S!ToSet(down'[t]) /\ S!Bounded(t)'
  <2>1. CASE down' = down
    BY <1>1, <2>1, ShimFacts DEF S!Bounded, S!SessionInv, S!Typed, S!ShimTypes
  <2>2. CASE terminal # 0 /\ S!HasRoom /\ down' = S!Told(S!Out)
    <3>1. /\ down' \in [Terminals -> Seq(S!Sent)]
          /\ \A t \in Terminals :
               IF t = current THEN /\ Len(down'[t]) = Len(down[t]) + 1
                                   /\ S!ToSet(down'[t]) = S!ToSet(down[t]) \cup {S!Out}
               ELSE down'[t] = down[t]
      BY <2>2, ToldFacts DEF S!Sent
    <3>2. ASSUME NEW t \in Terminals PROVE S!Bounded(t)'
      <4>1. Len(down[t]) \in Nat /\ S!Bounded(t) /\ MAX_SOCKET_OUTPUT_QUEUE \in Nat
        BY ShimFacts, QueueFacts, MainLoopFacts
      <4>2. current' = current
        BY <1>1
      <4> QED
        BY <2>2, <3>1, <4>1, <4>2 DEF S!Bounded, S!HasRoom
    <3> QED
      BY <3>1, <3>2
  <2> QED
    BY <1>1, <2>1, <2>2
<1>4. S!Typed'
  BY <1>1, <1>3 DEF S!SessionInv, S!Typed, S!ShimTypes, S!LoopTypes
<1>5. S!OnePlaceEach' /\ S!Screen'
  BY <1>1, <1>2 DEF S!SessionInv, S!OnePlaceEach, S!Screen, S!Once
<1>6. ASSUME NEW t \in Terminals PROVE (S!Greeted(t) /\ S!ServedOrTold(t))'
  BY <1>1, <1>2, <1>3, ShimFacts DEF S!Greeted, S!ServedOrTold
<1> QED
  BY <1>3, <1>4, <1>5, <1>6 DEF S!SessionInv

(* What the attached shim has sent is taken.                               *)
LEMMA TakesKeeps ==
  ASSUME S!SessionAssumption, S!SessionInv, S!Branch, current # S!None, up[current] # << >>,
         NEW q \in Seq(S!Messages), up' = [up EXCEPT ![current] = q],
         UNCHANGED <<shim, size, pressed, down, current, attached, detached, session_steps>>,
         shouldDetach' \in BOOLEAN, terminal' \in Sizes \cup {0}, terminal = 0 => terminal' = 0,
         cached' \in Sizes
  PROVE  S!SessionInv'
<1>1. /\ pc = "select" /\ pc' = "top" /\ joining = S!None /\ UNCHANGED <<joining, backlog>>
      /\ current \in Terminals /\ current \notin S!ToSet(backlog) /\ current \notin S!Waiting
  BY MainLoopFacts DEF S!Branch, S!LoopTypes, S!Waiting
<1>2. up \in [Terminals -> Seq(S!Messages)]
  BY DEF S!SessionInv, S!Typed, S!ShimTypes
<1>3. S!Typed'
  BY <1>1, <1>2 DEF S!SessionInv, S!Typed, S!ShimTypes, S!LoopTypes
<1>4. S!Waiting' = S!Waiting /\ \A t \in Terminals : t # current => up'[t] = up[t]
  BY <1>1, <1>2 DEF S!Waiting
<1>5. S!OnePlaceEach' /\ S!Screen'
  BY <1>1, <1>4 DEF S!SessionInv, S!OnePlaceEach, S!Screen, S!Once
<1>6. ASSUME NEW t \in Terminals PROVE (S!Greeted(t) /\ S!ServedOrTold(t) /\ S!Bounded(t))'
  BY <1>1, <1>4, ShimFacts DEF S!Greeted, S!ServedOrTold, S!Bounded
<1> QED
  BY <1>3, <1>5, <1>6 DEF S!SessionInv

LEMMA TermEventKeeps ==
  ASSUME S!SessionAssumption, S!SessionInv, S!TermEvent
  PROVE  S!SessionInv'
<1>1. /\ S!Branch /\ current # S!None /\ up[current] # << >>
      /\ UNCHANGED <<shim, size, pressed, down, current, attached, detached, terminal, session_steps>>
      /\ shouldDetach' \in BOOLEAN
  <2>1. shouldDetach \in BOOLEAN
    BY MainLoopFacts DEF S!LoopTypes
  <2> QED
    BY <2>1 DEF S!TermEvent, S!DetachCommand
<1> DEFINE line == up[current]
<1>2. PICK n \in 1..Len(line) : /\ up' = [up EXCEPT ![current] = SubSeq(@, n + 1, Len(@))]
                                /\ cached' = S!Sized(SubSeq(line, 1, n))
  BY DEF S!TermEvent
<1>3. current \in Terminals /\ terminal \in Sizes \cup {0}
  BY <1>1, MainLoopFacts DEF S!LoopTypes
<1>4. line \in Seq(S!Messages) /\ Len(line) \in Nat
      /\ \A i \in 1..Len(line) : line[i] \in S!Messages
  BY <1>3, ShimFacts, QueueFacts, ElementOfSeq
<1>5. up' = [up EXCEPT ![current] = SubSeq(line, n + 1, Len(line))]
  BY <1>2
<1> HIDE DEF line
<1>6. SubSeq(line, 1, n) \in Seq(S!Messages)
      /\ SubSeq(line, n + 1, Len(line)) \in Seq(S!Messages)
  BY <1>4, SubSeqProperties
<1>7. cached' \in Sizes
  BY <1>2, <1>6, SizedType
<1> QED
  BY <1>1, <1>3, <1>5, <1>6, <1>7, TakesKeeps

LEMMA OtherMessageKeeps ==
  ASSUME S!SessionAssumption, S!SessionInv, S!OtherMessage
  PROVE  S!SessionInv'
<1> DEFINE m == Head(up[current])
<1>1. /\ S!Branch /\ current # S!None /\ up[current] # << >>
      /\ up' = [up EXCEPT ![current] = Tail(@)]
      /\ UNCHANGED <<shim, size, pressed, down, current, attached, detached, session_steps>>
      /\ \/ /\ m.kind = "resize" /\ cached' = m.size
            /\ terminal' = IF terminal = 0 THEN 0 ELSE m.size
            /\ UNCHANGED shouldDetach
         \/ m.kind = "detach" /\ shouldDetach' = TRUE /\ UNCHANGED <<terminal, cached>>
  BY DEF S!OtherMessage
<1>2. /\ current \in Terminals /\ shouldDetach \in BOOLEAN /\ terminal \in Sizes \cup {0}
      /\ cached \in Sizes
  BY <1>1, MainLoopFacts DEF S!LoopTypes
<1>3. m \in S!Messages /\ Tail(up[current]) \in Seq(S!Messages)
  BY <1>1, <1>2, ShimFacts, QueueTaken
<1>4. m.kind = "resize" => m.size \in Sizes
  BY <1>3 DEF S!Messages, S!Msg
<1> HIDE DEF m
<1>5. /\ shouldDetach' \in BOOLEAN /\ terminal' \in Sizes \cup {0}
      /\ (terminal = 0 => terminal' = 0) /\ cached' \in Sizes
  BY <1>1, <1>2, <1>4
<1> QED
  BY <1>1, <1>3, <1>5, TakesKeeps

LEMMA ShimLostKeeps ==
  ASSUME S!SessionAssumption, S!SessionInv, S!ShimLost
  PROVE  S!SessionInv'
<1> USE DEF S!shims
<1>1. /\ pc = "select" /\ pc' = "top" /\ UNCHANGED <<joining, backlog>> /\ current # S!None
      /\ shim[current] = "gone" /\ current' = S!None /\ attached' = FALSE /\ terminal' = 0
      /\ detached' = TRUE /\ UNCHANGED <<down, shouldDetach, cached, session_steps>>
      /\ UNCHANGED S!shims
  BY DEF S!ShimLost, S!Branch, S!TornDown
<1>2. /\ S!None \notin Terminals /\ S!None \notin S!ToSet(backlog) /\ joining = S!None
      /\ MAX_SOCKET_OUTPUT_QUEUE \in Nat
  BY <1>1, MainLoopFacts
<1>3. S!Typed' /\ S!Waiting' = S!Waiting
  BY <1>1 DEF S!SessionInv, S!Typed, S!ShimTypes, S!LoopTypes, S!Waiting
<1>4. S!OnePlaceEach' /\ S!Screen'
  BY <1>1, <1>2, <1>3 DEF S!SessionInv, S!OnePlaceEach, S!Screen, S!Once
<1>5. ASSUME NEW t \in Terminals PROVE (S!Greeted(t) /\ S!ServedOrTold(t) /\ S!Bounded(t))'
  <2>1. (S!Greeted(t) /\ S!ServedOrTold(t))'
    BY <1>1, <1>3, ShimFacts DEF S!Greeted, S!ServedOrTold
  <2>2. Len(down[t]) \in Nat /\ S!Bounded(t)
    BY ShimFacts, QueueFacts
  <2>3. S!Bounded(t)'
    BY <1>1, <1>2, <2>2 DEF S!Bounded
  <2> QED
    BY <2>1, <2>3
<1> QED
  BY <1>3, <1>4, <1>5 DEF S!SessionInv

LEMMA AcceptKeeps ==
  ASSUME S!SessionAssumption, S!SessionInv, S!Accept
  PROVE  S!SessionInv'
<1>1. /\ pc = "select" /\ backlog # << >> /\ pc' = "hello" /\ joining' = Head(backlog)
      /\ backlog' = Tail(backlog) /\ down' = S!Told("detached") /\ S!TornDown
      /\ UNCHANGED <<S!shims, cached, detached, shouldDetach, session_steps>>
  BY DEF S!Accept, S!DisconnectShim, S!Disconnected
<1>2. /\ backlog \in Seq(Terminals) /\ S!Once(backlog) /\ joining = S!None
      /\ session_steps \in 0..MaxSessionSteps
      /\ detached \in BOOLEAN /\ shouldDetach \in BOOLEAN
  BY <1>1, MainLoopFacts DEF S!LoopTypes
<1>3. /\ joining' \in Terminals /\ backlog' \in Seq(Terminals) /\ S!Once(backlog')
      /\ S!ToSet(backlog) = S!ToSet(backlog') \cup {joining'}
      /\ joining' \notin S!ToSet(backlog')
  BY <1>1, <1>2, QueueTaken
<1>4. /\ S!ToSet(backlog') \cup {joining'} \subseteq S!Waiting \cup {S!None}
      /\ S!Waiting \subseteq S!ToSet(backlog') \cup {joining', S!None}
  BY <1>2, <1>3 DEF S!Waiting
<1> QED
  BY <1>1, <1>2, <1>3, <1>4, DropKeeps

LEMMA HelloArrivesKeeps ==
  ASSUME S!SessionAssumption, S!SessionInv, S!HelloArrives
  PROVE  S!SessionInv'
<1>1. /\ pc = "hello" /\ pc' = "top" /\ joining' = S!None /\ up[joining] # << >>
      /\ current' = joining /\ attached' = TRUE /\ detached' = FALSE
      /\ terminal' = Head(up[joining]).size /\ cached' = terminal'
      /\ up' = [up EXCEPT ![joining] = Tail(@)] /\ down' = [down EXCEPT ![joining] = <<S!Out>>]
      /\ UNCHANGED <<shim, size, pressed, shouldDetach, backlog, session_steps>>
  BY DEF S!HelloArrives, S!Attach, S!Attaches
<1>2. /\ joining \in Terminals /\ current = S!None /\ S!None \notin Terminals
      /\ S!None \notin S!ToSet(backlog)
      /\ joining \notin S!ToSet(backlog) /\ MAX_SOCKET_OUTPUT_QUEUE \in Nat \ {0}
  BY <1>1, MainLoopFacts
<1>3. Head(up[joining]) \in S!Messages /\ Tail(up[joining]) \in Seq(S!Messages)
  BY <1>1, <1>2, ShimFacts, QueueTaken
<1>4. Head(up[joining]).kind = "hello" /\ shim[joining] \notin {"none", "connected"}
  BY <1>1, <1>2, ShimFacts DEF S!Greeted, S!Waiting
<1>5. terminal' \in Sizes
  BY <1>1, <1>3, <1>4 DEF S!Messages, S!Msg
<1>6. <<S!Out>> \in Seq(S!Sent) /\ Len(<<S!Out>>) = 1
  BY DEF S!Sent
<1>7. up \in [Terminals -> Seq(S!Messages)] /\ down \in [Terminals -> Seq(S!Sent)]
  BY DEF S!SessionInv, S!Typed, S!ShimTypes
<1>8. S!Typed'
  BY <1>1, <1>2, <1>3, <1>5, <1>6, <1>7 DEF S!SessionInv, S!Typed, S!ShimTypes, S!LoopTypes
<1>9. /\ S!Waiting = S!ToSet(backlog) \cup {joining}
      /\ S!Waiting' = S!ToSet(backlog) \cup {S!None}
      /\ S!ToSet(backlog') = S!ToSet(backlog)
      /\ \A t \in Terminals : t # joining => up'[t] = up[t] /\ down'[t] = down[t]
      /\ Len(down'[joining]) = 1
  BY <1>1, <1>2, <1>6, <1>7 DEF S!Waiting
<1>a. S!OnePlaceEach'
  BY <1>1, <1>2, <1>4, <1>9 DEF S!SessionInv, S!OnePlaceEach, S!Once
<1>b. S!Screen'
  BY <1>1, <1>2 DEF S!Screen
<1>c. ASSUME NEW t \in Terminals PROVE (S!Greeted(t) /\ S!ServedOrTold(t) /\ S!Bounded(t))'
  <2>1. S!Greeted(t)'
    BY <1>1, <1>2, <1>4, <1>9, ShimFacts DEF S!Greeted
  <2>2. S!ServedOrTold(t)'
    BY <1>1, <1>2, <1>9, ShimFacts DEF S!ServedOrTold
  <2>3. S!Bounded(t)'
    <3>1. CASE t = joining
      <4>1. t = current' /\ Len(down'[t]) = 1 /\ 1 <= MAX_SOCKET_OUTPUT_QUEUE
        BY <1>1, <1>2, <1>9, <3>1
      <4> QED
        BY <1>2, <4>1 DEF S!Bounded
    <3>2. CASE t # joining
      <4>1. t # current /\ t # current' /\ down'[t] = down[t] /\ S!Bounded(t)
        BY <1>1, <1>2, <1>9, <3>2, ShimFacts
      <4> QED
        BY <4>1 DEF S!Bounded
    <3> QED
      BY <3>1, <3>2
  <2> QED
    BY <2>1, <2>2, <2>3
<1> QED
  BY <1>8, <1>a, <1>b, <1>c DEF S!SessionInv

LEMMA HelloFailsKeeps ==
  ASSUME S!SessionAssumption, S!SessionInv, S!HelloFails
  PROVE  S!SessionInv'
<1> USE DEF S!shims, S!flags
<1>1. /\ pc = "hello" /\ shim[joining] = "gone" /\ pc' = "top" /\ joining' = S!None
      /\ UNCHANGED <<down, S!flags, backlog, session_steps, S!shims>>
  BY DEF S!HelloFails
<1>2. joining \in Terminals /\ S!None \notin Terminals /\ S!None \notin S!ToSet(backlog)
  BY <1>1, MainLoopFacts
<1>3. S!Typed' /\ S!Waiting = S!ToSet(backlog) \cup {joining}
      /\ S!Waiting' = S!ToSet(backlog) \cup {S!None}
  BY <1>1 DEF S!SessionInv, S!Typed, S!ShimTypes, S!LoopTypes, S!Waiting
<1>4. S!OnePlaceEach' /\ S!Screen'
  BY <1>1, <1>2, <1>3 DEF S!SessionInv, S!OnePlaceEach, S!Screen, S!Once
<1>5. ASSUME NEW t \in Terminals PROVE (S!Greeted(t) /\ S!ServedOrTold(t) /\ S!Bounded(t))'
  BY <1>1, <1>2, <1>3, ShimFacts DEF S!Greeted, S!ServedOrTold, S!Bounded
<1> QED
  BY <1>3, <1>4, <1>5 DEF S!SessionInv

LEMMA OthersKeep ==
  ASSUME S!SessionAssumption, S!SessionInv, S!OtherBranch \/ S!Sighup
  PROVE  S!SessionInv'
<1> USE DEF S!shims, S!flags
<1>1. /\ pc = "select" /\ pc' = "top" /\ UNCHANGED <<joining, backlog, down, S!shims>>
      /\ UNCHANGED <<current, attached, detached, terminal, cached>>
      /\ shouldDetach' \in BOOLEAN /\ session_steps' \in 0..MaxSessionSteps
  BY SessionStepsCount, MainLoopFacts DEF S!OtherBranch, S!Sighup, S!Branch, S!LoopTypes
<1>2. S!Typed' /\ S!Waiting' = S!Waiting
  BY <1>1 DEF S!SessionInv, S!Typed, S!ShimTypes, S!LoopTypes, S!Waiting
<1>3. S!OnePlaceEach' /\ S!Screen'
  BY <1>1, <1>2 DEF S!SessionInv, S!OnePlaceEach, S!Screen, S!Once
<1>4. ASSUME NEW t \in Terminals PROVE (S!Greeted(t) /\ S!ServedOrTold(t) /\ S!Bounded(t))'
  BY <1>1, <1>2, ShimFacts DEF S!Greeted, S!ServedOrTold, S!Bounded
<1> QED
  BY <1>2, <1>3, <1>4 DEF S!SessionInv

LEMMA QuitKeeps ==
  ASSUME S!SessionAssumption, S!SessionInv, S!Quit
  PROVE  S!SessionInv'
<1>1. /\ pc = "select" /\ pc' = "quit" /\ UNCHANGED <<backlog, joining, S!shims, cached>>
      /\ UNCHANGED <<detached, shouldDetach>> /\ down' = S!Told("quit") /\ S!TornDown
      /\ session_steps' \in 0..MaxSessionSteps
  BY SessionStepsCount DEF S!Quit
<1>2. /\ backlog \in Seq(Terminals) /\ S!Once(backlog) /\ joining = S!None
      /\ joining \notin S!ToSet(backlog) /\ detached \in BOOLEAN /\ shouldDetach \in BOOLEAN
  BY <1>1, MainLoopFacts DEF S!LoopTypes
<1>3. S!ToSet(backlog') = S!ToSet(backlog) /\ S!Once(backlog')
  BY <1>1, <1>2
<1> QED
  BY <1>1, <1>2, <1>3, DropKeeps DEF S!Waiting

LEMMA SessionInit == ASSUME S!SessionAssumption, S!Init PROVE S!SessionInv
<1> USE DEF S!Init
<1>1. S!DefaultSize \in Sizes /\ S!None \notin Terminals /\ MAX_SOCKET_OUTPUT_QUEUE \in Nat
      /\ MaxSessionSteps \in Nat
  BY DEF S!SessionAssumption, S!DefaultSize
<1>2. << >> \in Seq(S!Messages) /\ << >> \in Seq(S!Sent) /\ << >> \in Seq(Terminals)
      /\ Len(<< >>) = 0
  BY EmptySeq
<1>3. S!ToSet(<< >>) = {}
  BY <1>2, QueueFacts
<1>4. S!Typed
  <2>1. S!ShimTypes
    BY <1>1, <1>2 DEF S!ShimTypes
  <2>2. S!LoopTypes
    <3>1. backlog \in Seq(Terminals)
      BY <1>2
    <3>2. cached \in Sizes /\ session_steps \in 0..MaxSessionSteps
      BY <1>1
    <3> QED
      BY <3>1, <3>2 DEF S!LoopTypes
  <2> QED
    BY <2>1, <2>2 DEF S!Typed
<1>5. S!OnePlaceEach /\ S!Screen /\ S!Waiting = {S!None}
  BY <1>1, <1>3 DEF S!OnePlaceEach, S!Screen, S!Once, S!Waiting
<1>6. ASSUME NEW s \in Terminals PROVE S!Greeted(s) /\ S!ServedOrTold(s) /\ S!Bounded(s)
  BY <1>1, <1>2, <1>5 DEF S!Greeted, S!ServedOrTold, S!Bounded
<1> QED
  BY <1>4, <1>5, <1>6 DEF S!SessionInv

LEMMA SessionNext == ASSUME S!SessionAssumption, S!SessionInv, [S!Next]_(S!vars) PROVE S!SessionInv'
<1>1. CASE UNCHANGED S!vars
  <2>1. S!Typed' /\ S!Waiting' = S!Waiting
    BY <1>1 DEF S!vars, S!shims, S!flags, S!SessionInv, S!Typed, S!ShimTypes, S!LoopTypes, S!Waiting
  <2>2. S!OnePlaceEach' /\ S!Screen'
    BY <1>1, <2>1 DEF S!vars, S!shims, S!flags, S!SessionInv, S!OnePlaceEach, S!Screen, S!Once
  <2>3. ASSUME NEW t \in Terminals PROVE (S!Greeted(t) /\ S!ServedOrTold(t) /\ S!Bounded(t))'
    BY <1>1, <2>1, ShimFacts DEF S!vars, S!shims, S!flags, S!Greeted, S!ServedOrTold, S!Bounded
  <2> QED
    BY <2>1, <2>2, <2>3 DEF S!SessionInv
<1>2. ASSUME NEW s \in Terminals, S!Connect(s) PROVE S!SessionInv'
  BY <1>2, ConnectKeeps
<1>3. ASSUME NEW s \in Terminals, S!Hello(s) PROVE S!SessionInv'
  BY <1>3, HelloKeeps
<1>4. ASSUME NEW s \in Terminals, S!Types(s) \/ S!PressesDetach(s) \/ \E n \in Sizes : S!Resizes(s, n)
      PROVE  S!SessionInv'
  BY <1>4, UserSaysKeeps
<1>5. ASSUME NEW s \in Terminals, S!Dies(s) \/ S!ConnectionLost(s) PROVE S!SessionInv'
  BY <1>5, DepartureKeeps
<1>6. ASSUME NEW s \in Terminals, S!Reads(s) PROVE S!SessionInv'
  BY <1>6, ReadsKeeps
<1>7. CASE S!Top
  BY <1>7, PerformDetachKeeps, DrawKeeps DEF S!Top
<1>8. CASE S!TermEvent \/ S!OtherMessage \/ S!ShimLost
  BY <1>8, TermEventKeeps, OtherMessageKeeps, ShimLostKeeps
<1>9. CASE S!Accept \/ S!HelloArrives \/ S!HelloFails
  BY <1>9, AcceptKeeps, HelloArrivesKeeps, HelloFailsKeeps
<1>a. CASE S!OtherBranch \/ S!Sighup \/ S!Quit
  BY <1>a, OthersKeep, QuitKeeps
<1> QED
  BY <1>1, <1>2, <1>3, <1>4, <1>5, <1>6, <1>7, <1>8, <1>9, <1>a DEF S!Next

LEMMA SessionSuffices ==
  ASSUME S!SessionAssumption, S!SessionInv
  PROVE  S!TypeOK /\ S!ReplacedShimsAreTold /\ S!DetachedMeansAlone
<1>1. S!TypeOK
  <2>1. ASSUME NEW s \in Terminals PROVE Len(down[s]) <= MAX_SOCKET_OUTPUT_QUEUE + 3
    <3>1. Len(down[s]) \in Nat /\ S!Bounded(s) /\ MAX_SOCKET_OUTPUT_QUEUE \in Nat
      BY ShimFacts, QueueFacts, MainLoopFacts
    <3> QED
      BY <3>1 DEF S!Bounded
  <2>2. backlog \in S!SeqOf(Terminals, S!Cardinality(Terminals))
    <3>1. backlog \in Seq(Terminals) /\ S!Once(backlog) /\ IsFiniteSet(Terminals)
      BY MainLoopFacts, SessionCounts DEF S!LoopTypes, S!SessionAssumption
    <3>2. /\ Len(backlog) \in Nat /\ backlog \in [1..Len(backlog) -> Terminals]
          /\ Len(backlog) <= Cardinality(Terminals) /\ Cardinality(Terminals) \in Nat
      BY <3>1, LenProperties, QueueBounded, FS_CardinalityType
    <3>3. Len(backlog) \in 0..Cardinality(Terminals)
      BY <3>2
    <3> QED
      BY <3>2, <3>3, SessionCounts DEF S!SeqOf
  <2> QED
    BY <2>1, <2>2 DEF S!TypeOK, S!SessionInv, S!Typed, S!ShimTypes, S!LoopTypes
<1>2. S!ReplacedShimsAreTold
  <2> SUFFICES ASSUME NEW s \in Terminals, shim[s] = "relay", pc # "quit"
               PROVE  s \in {joining, current} \cup S!ToSet(backlog) \/ "detached" \in S!ToSet(down[s])
    BY DEF S!ReplacedShimsAreTold
  <2> QED
    BY ShimFacts DEF S!ServedOrTold, S!Waiting
<1>3. S!DetachedMeansAlone
  BY MainLoopFacts DEF S!DetachedMeansAlone
<1> QED
  BY <1>1, <1>2, <1>3

(* A terminal that the backend no longer serves is told why, and "detached" *)
(* and the frames agree with who is attached.                              *)
THEOREM TerminalsTold ==
  ASSUME S!SessionAssumption
  PROVE  S!Spec => [](S!TypeOK /\ S!ReplacedShimsAreTold /\ S!DetachedMeansAlone)
<1>1. S!Init => S!SessionInv
  BY SessionInit
<1>2. S!SessionInv /\ [S!Next]_(S!vars) => S!SessionInv'
  BY SessionNext
<1>3. S!SessionInv => S!TypeOK /\ S!ReplacedShimsAreTold /\ S!DetachedMeansAlone
  BY SessionSuffices
<1> QED
  BY <1>1, <1>2, <1>3, PTL DEF S!Spec

-----------------------------------------------------------------------------
(* The part that runs keeps its own invariant; the other part is idle.     *)
PartInv ==
  \/ part = "dcc" /\ DccTyped
  \/ part = "session" /\ S!SessionInv

LEMMA PartInit == ASSUME MCInit PROVE PartInv
<1>1. CASE part = "dcc" /\ Init /\ SessionOff
  BY <1>1, TypedInit DEF PartInv
<1>2. CASE part = "session" /\ S!Init /\ DccOff
  BY <1>2, SessionConstants, SessionInit DEF PartInv
<1> QED
  BY <1>1, <1>2 DEF MCInit

LEMMA PartNext == ASSUME PartInv, [MCNext]_mcVars PROVE PartInv'
<1>1. CASE part = "dcc" /\ DccTyped
  <2>1. [Next]_vars /\ UNCHANGED part
    BY <1>1 DEF MCNext, DccOnly, mcVars
  <2> QED
    BY <1>1, <2>1, TypedNext DEF PartInv
<1>2. CASE part = "session" /\ S!SessionInv
  <2>1. [S!Next]_(S!vars) /\ UNCHANGED part
    BY <1>2 DEF MCNext, SessionOnly, mcVars, sessionVars, S!vars, S!shims, S!flags
  <2> QED
    BY <1>2, <2>1, SessionConstants, SessionNext DEF PartInv
<1> QED
  BY <1>1, <1>2 DEF PartInv

(* Whichever part runs, for any peers, nicks, tasks and terminals: no more *)
(* records than dcc.max_connections, and a terminal that the backend no    *)
(* longer serves is told why before another takes its place.               *)
THEOREM TerminalsAreToldHolds == MCSpec => []TerminalsAreTold
<1>1. MCInit => PartInv
  BY PartInit
<1>2. PartInv /\ [MCNext]_mcVars => PartInv'
  BY PartNext
<1>3. PartInv => TerminalsAreTold
  BY TypedSuffices, SessionConstants, SessionSuffices
     DEF PartInv, TerminalsAreTold, ReplacedShimsAreTold, DetachedMeansAlone
<1> QED
  BY <1>1, <1>2, <1>3, PTL DEF MCSpec

=============================================================================
