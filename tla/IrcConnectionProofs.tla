------------------------- MODULE IrcConnectionProofs -------------------------
(***************************************************************************)
(* Proofs about IrcConnection, for any task slots and any bounds: what is  *)
(* on its way from a task fits the stage of its attempt; from that, no     *)
(* dead handle stays, nobody is stuck, nothing dials while offline, and    *)
(* the connection of a patient user implements ServerLink.                 *)
(***************************************************************************)
EXTENDS IrcConnection, TLAPS, FiniteSetTheorems, SequenceTheorems

(* The events q still on their way from an attempt at this stage.          *)
Fits(stage, q) ==
  /\ q \in Seq(IrcEvents) /\ Len(q) <= 4
  /\ stage \in {"free", "dialing"} => q = <<>>
  /\ stage = "registering" => Len(q) <= 1 /\ \A i \in 1 .. Len(q) : q[i] = "HandleReady"
  /\ stage = "up" => Len(q) <= 2
  /\ \A i \in 1 .. Len(q) :
       /\ q[i] = "HandleReady" => i = 1
       /\ q[i] = "Connected" => i = 1 \/ (i = 2 /\ q[1] = "HandleReady")
       /\ q[i] \in Ends <=> stage = "ended" /\ i = Len(q)
QueuesFit == \A t \in Tasks : Fits(task[t], events[t])

(* Going offline takes the wish to reconnect with it.                      *)
OfflineIsUnwanted == offline => ~should

(* The inductive invariant of any user's connection.                       *)
ConnInv == TypeOK /\ QueuesFit /\ HandleIsNotStale /\ NeverStuck /\ OfflineIsUnwanted

(* For a patient user the one attempt that is not forgotten is the one     *)
(* being dialled, before its handle is known, or holds the handle.         *)
OneAttempt == \A t, u \in Tasks : ~Forgotten(t) /\ ~Forgotten(u) => t = u
BeingDialled(t) ==
  /\ handle = NoTask /\ status = "Connecting"
  /\ task[t] # "dialing" =>
       events[t] # <<>> /\ events[t][1] \in {"HandleReady", "Failed"}
HoldsHandle(t) ==
  /\ handle = t
  /\ events[t] # <<>> => events[t][1] # "HandleReady"
  /\ task[t] = "registering" \/ (events[t] # <<>> /\ events[t][1] = "Connected") =>
       status = "Connecting"
AttemptIsKnown == \A t \in Tasks : ~Forgotten(t) => BeingDialled(t) \/ HoldsHandle(t)
PatientInv == ConnInv /\ OneAttempt /\ AttemptIsKnown /\ ConnectedIsUsable

-----------------------------------------------------------------------------
(* Handling an event, and each step of a task, keep the queue fitting.     *)
LEMMA TailFits ==
  ASSUME NEW stage, NEW q, Fits(stage, q), q # <<>>
  PROVE  Fits(stage, Tail(q))
  <1> DEFINE r == Tail(q)
  <1>1. q \in Seq(IrcEvents) /\ Len(q) \in Nat /\ Len(q) <= 4 /\ Len(q) # 0
    <2>1. q \in Seq(IrcEvents) /\ Len(q) \in Nat /\ Len(q) <= 4
      BY LenProperties DEF Fits
    <2>2. Len(q) \in Nat \ {0}
      BY <2>1, EmptySeq, Zenon
    <2> QED BY <2>1, <2>2
  <1>2. /\ r \in Seq(IrcEvents) /\ Len(r) = Len(q) - 1
        /\ \A i \in 1 .. Len(r) : r[i] = q[i + 1]
    BY <1>1, HeadTailProperties
  <1> HIDE DEF r
  <1>3. stage \notin {"free", "dialing"}
    BY DEF Fits
  <1>4. stage = "registering" =>
          Len(r) <= 1 /\ \A i \in 1 .. Len(r) : r[i] = "HandleReady"
    BY <1>1, <1>2 DEF Fits
  <1>5. ASSUME NEW i \in 1 .. Len(r)
        PROVE  /\ r[i] # "HandleReady"
               /\ r[i] = "Connected" => i = 1
               /\ r[i] \in Ends <=> stage = "ended" /\ i = Len(r)
    <2>1. /\ i + 1 \in 1 .. Len(q) /\ r[i] = q[i + 1]
          /\ i + 1 # 1 /\ (i + 1 = 2 => i = 1) /\ (i + 1 = Len(q) <=> i = Len(r))
      BY <1>1, <1>2
    <2> QED BY <2>1 DEF Fits
  <1>6. stage = "up" => Len(r) <= 2
    BY <1>1, <1>2 DEF Fits
  <1>7. Fits(stage, r)
    BY <1>1, <1>2, <1>3, <1>4, <1>5, <1>6 DEF Fits
  <1> QED BY <1>7 DEF r

LEMMA EmitFits ==
  ASSUME NEW stage, NEW q, Fits(stage, q)
  PROVE  /\ stage = "dialing" => /\ Fits("registering", q \o <<"HandleReady">>)
                                 /\ Fits("ended", q \o <<"Failed">>)
         /\ stage = "registering" => Fits("up", q \o <<"Connected">>)
  <1>1. q \in Seq(IrcEvents) /\ Len(q) \in Nat
    BY LenProperties DEF Fits
  <1>2. ASSUME NEW e \in IrcEvents
        PROVE  /\ q \o <<e>> \in Seq(IrcEvents) /\ Len(q \o <<e>>) = Len(q) + 1
               /\ \A i \in 1 .. Len(q) : (q \o <<e>>)[i] = q[i]
               /\ (q \o <<e>>)[Len(q) + 1] = e
    BY <1>1
  <1>3. CASE stage = "dialing"
    <2>1. Len(q) = 0
      BY <1>3 DEF Fits
    <2> QED BY <1>2, <1>3, <2>1 DEF Fits, IrcEvents, Ends
  <1>4. CASE stage = "registering"
    BY <1>1, <1>2, <1>4 DEF Fits, IrcEvents, Ends
  <1> QED BY <1>3, <1>4

LEMMA EndFits ==
  ASSUME NEW stage \in {"registering", "up"}, NEW q, Fits(stage, q),
         NEW errorLine \in {<<>>, <<"ERROR">>}, NEW last \in Ends
  PROVE  /\ Fits("ended", q \o (errorLine \o <<last>>))
         /\ \E i \in 1 .. Len(q \o (errorLine \o <<last>>)) :
              (q \o (errorLine \o <<last>>))[i] \in Ends
  <1>1. q \in Seq(IrcEvents) /\ Len(q) \in Nat /\ Len(q) <= 2
    <2>1. q \in Seq(IrcEvents) /\ Len(q) \in Nat
      BY LenProperties DEF Fits
    <2>2. Len(q) <= 2
      BY <2>1 DEF Fits
    <2> QED BY <2>1, <2>2
  <1>2. \A i \in 1 .. Len(q) : q[i] \notin Ends
    BY DEF Fits
  <1>3. CASE errorLine = <<>>
    <2> DEFINE r == q \o (errorLine \o <<last>>)
    <2>1. /\ r \in Seq(IrcEvents) /\ Len(r) = Len(q) + 1
          /\ \A i \in 1 .. Len(q) : r[i] = q[i]
          /\ r[Len(q) + 1] = last
      BY <1>1, <1>3 DEF IrcEvents, Ends
    <2> HIDE DEF r
    <2>2. Fits("ended", r)
      BY <1>1, <1>2, <2>1 DEF Fits, IrcEvents, Ends
    <2>3. \E i \in 1 .. Len(r) : r[i] \in Ends
      BY <1>1, <2>1
    <2> QED BY <2>2, <2>3 DEF r
  <1>4. CASE errorLine = <<"ERROR">>
    <2> DEFINE r == q \o (errorLine \o <<last>>)
    <2>1. /\ r \in Seq(IrcEvents) /\ Len(r) = Len(q) + 2
          /\ \A i \in 1 .. Len(q) : r[i] = q[i]
          /\ r[Len(q) + 1] = "ERROR" /\ r[Len(q) + 2] = last
      BY <1>1, <1>4 DEF IrcEvents, Ends
    <2> HIDE DEF r
    <2>2. Fits("ended", r)
      BY <1>1, <1>2, <2>1 DEF Fits, IrcEvents, Ends
    <2>3. \E i \in 1 .. Len(r) : r[i] \in Ends
      BY <1>1, <2>1
    <2> QED BY <2>2, <2>3 DEF r
  <1> QED BY <1>3, <1>4
-----------------------------------------------------------------------------
(* What a task does to its own stage and queue, and to nothing else.       *)
LEMMA TaskStepQueue ==
  ASSUME TypeOK, NEW t \in Tasks, NEW stage, NEW evs, TaskStep(t, stage, evs)
  PROVE  /\ task'[t] = stage /\ events'[t] = events[t] \o evs
         /\ \A u \in Tasks \ {t} : task'[u] = task[u] /\ events'[u] = events[u]
         /\ stage \in Stages => task' \in [Tasks -> Stages]
         /\ events'[t] \in Seq(IrcEvents) => events' \in [Tasks -> Seq(IrcEvents)]
  BY DEF TypeOK, TaskStep, Emit

(* Each step of a task leads to a stage its queue then fits.               *)
LEMMA TaskStages ==
  ASSUME TypeOK, QueuesFit, NEW t \in Tasks,
         DialFails(t) \/ DialSucceeds(t) \/ Welcomed(t) \/ StreamEnds(t)
  PROVE  /\ Fits(task'[t], events'[t])
         /\ \A u \in Tasks \ {t} : task'[u] = task[u] /\ events'[u] = events[u]
         /\ task' \in [Tasks -> Stages] /\ events' \in [Tasks -> Seq(IrcEvents)]
         /\ task'[t] \in {"registering", "up", "ended"} /\ Live(t)
         /\ UNCHANGED <<record, handle, quitting, muted, offline, userSteps>>
  <1>1. Fits(task[t], events[t])
    BY DEF QueuesFit
  <1>2. CASE DialFails(t)
    <2>1. task[t] = "dialing" /\ TaskStep(t, "ended", <<"Failed">>)
      BY <1>2 DEF DialFails
    <2>2. Fits("ended", events[t] \o <<"Failed">>)
      BY <1>1, <2>1, EmitFits
    <2>3. events[t] \o <<"Failed">> \in Seq(IrcEvents)
      BY <2>2 DEF Fits
    <2> QED BY <2>1, <2>2, <2>3, TaskStepQueue
            DEF Stages, TaskStep, Live, record
  <1>3. CASE DialSucceeds(t)
    <2>1. task[t] = "dialing" /\ TaskStep(t, "registering", <<"HandleReady">>)
      BY <1>3 DEF DialSucceeds
    <2>2. Fits("registering", events[t] \o <<"HandleReady">>)
      BY <1>1, <2>1, EmitFits
    <2>3. events[t] \o <<"HandleReady">> \in Seq(IrcEvents)
      BY <2>2 DEF Fits
    <2> QED BY <2>1, <2>2, <2>3, TaskStepQueue
            DEF Stages, TaskStep, Live, record
  <1>4. CASE Welcomed(t)
    <2>1. task[t] = "registering" /\ TaskStep(t, "up", <<"Connected">>)
      BY <1>4 DEF Welcomed
    <2>2. Fits("up", events[t] \o <<"Connected">>)
      BY <1>1, <2>1, EmitFits
    <2>3. events[t] \o <<"Connected">> \in Seq(IrcEvents)
      BY <2>2 DEF Fits
    <2> QED BY <2>1, <2>2, <2>3, TaskStepQueue
            DEF Stages, TaskStep, Live, record
  <1>5. CASE StreamEnds(t)
    <2>1. PICK errorLine \in {<<>>, <<"ERROR">>}, last \in Ends :
            TaskStep(t, "ended", errorLine \o <<last>>)
      BY <1>5 DEF StreamEnds, Ends
    <2>2. task[t] \in {"registering", "up"}
      BY <1>5 DEF StreamEnds, HasSession
    <2>3. Fits("ended", events[t] \o (errorLine \o <<last>>))
      BY <1>1, <2>2, EndFits
    <2>4. events[t] \o (errorLine \o <<last>>) \in Seq(IrcEvents)
      BY <2>3 DEF Fits
    <2> QED BY <2>1, <2>2, <2>3, <2>4, TaskStepQueue
            DEF Stages, TaskStep, Live, record
  <1> QED BY <1>2, <1>3, <1>4, <1>5

(* A new attempt takes a forgotten slot.                                   *)
LEMMA SpawnStages ==
  ASSUME TypeOK, QueuesFit, Spawn, UNCHANGED events
  PROVE  /\ QueuesFit' /\ task' \in [Tasks -> Stages]
         /\ quitting' \in SUBSET Tasks /\ muted' \in SUBSET Tasks
         /\ \E t \in Tasks : /\ Forgotten(t) /\ task'[t] = "dialing"
                             /\ \A u \in Tasks \ {t} : task'[u] = task[u]
  <1>1. PICK t \in Tasks : /\ Forgotten(t)
                          /\ task' = [task EXCEPT ![t] = "dialing"]
                          /\ quitting' = quitting \ {t} /\ muted' = muted \ {t}
    BY DEF Spawn
  <1>2. /\ task' \in [Tasks -> Stages] /\ task'[t] = "dialing"
        /\ \A u \in Tasks \ {t} : task'[u] = task[u]
    BY <1>1 DEF TypeOK, Stages
  <1>3. Fits("dialing", events[t])
    <2>1. events[t] = <<>>
      BY <1>1 DEF Forgotten
    <2> QED BY <2>1, EmptySeq DEF Fits
  <1>4. QueuesFit'
    BY <1>2, <1>3 DEF QueuesFit
  <1> QED BY <1>1, <1>2, <1>4 DEF TypeOK

(* The main loop takes the first event of a task's queue.                  *)
LEMMA EventStages ==
  ASSUME TypeOK, QueuesFit, NEW t \in Tasks, HandleEvent(t)
  PROVE  /\ QueuesFit' /\ UNCHANGED task
         /\ events' \in [Tasks -> Seq(IrcEvents)]
         /\ events[t] # <<>> /\ events'[t] = Tail(events[t])
         /\ \A u \in Tasks \ {t} : events'[u] = events[u]
  <1>1. Fits(task[t], events[t])
    BY DEF QueuesFit
  <1>2. /\ events[t] # <<>> /\ UNCHANGED task
        /\ events' = [events EXCEPT ![t] = Tail(@)]
    BY DEF HandleEvent
  <1>3. Fits(task[t], Tail(events[t]))
    BY <1>1, <1>2, TailFits
  <1>4. Tail(events[t]) \in Seq(IrcEvents)
    BY <1>3 DEF Fits
  <1> QED BY <1>2, <1>3, <1>4 DEF TypeOK, QueuesFit

(* What the first event of a fitting queue says of the rest of it.         *)
LEMMA HeadOfFitting ==
  ASSUME NEW stage, NEW q, Fits(stage, q), q # <<>>
  PROVE  /\ Head(q) = q[1] /\ q[1] \in IrcEvents
         /\ stage \notin {"free", "dialing"}
         /\ stage = "registering" => q[1] = "HandleReady"
         /\ q[1] \in Ends => Tail(q) = <<>> /\ stage = "ended"
         /\ q[1] \notin Ends /\ stage = "ended" =>
              /\ Tail(q) # <<>>
              /\ \E i \in 1 .. Len(Tail(q)) : Tail(q)[i] \in Ends
         /\ \A i \in 1 .. Len(q) : q[i] \in Ends => stage = "ended"
         /\ Tail(q) # <<>> => /\ Tail(q)[1] # "HandleReady"
                              /\ Tail(q)[1] = "Connected" => q[1] = "HandleReady"
                              /\ stage # "registering"
  <1>1. q \in Seq(IrcEvents) /\ Len(q) \in Nat /\ Len(q) # 0
    <2>1. q \in Seq(IrcEvents) /\ Len(q) \in Nat
      BY LenProperties DEF Fits
    <2>2. Len(q) \in Nat \ {0}
      BY <2>1, EmptySeq, Zenon
    <2> QED BY <2>1, <2>2
  <1> DEFINE r == Tail(q)
  <1>2. /\ r \in Seq(IrcEvents) /\ Len(r) = Len(q) - 1 /\ Len(r) \in Nat
        /\ \A i \in 1 .. Len(r) : r[i] = q[i + 1]
    BY <1>1, HeadTailProperties, LenProperties
  <1>3. r # <<>> => Len(r) # 0
    <2>1. r # <<>> => Len(r) \in Nat \ {0}
      BY <1>2, EmptySeq, Zenon
    <2> QED BY <2>1
  <1>4. Len(r) # 0 => r # <<>>
    BY EmptySeq
  <1>5. Head(q) = q[1] /\ 1 \in 1 .. Len(q) /\ q[1] \in IrcEvents
    BY <1>1, ElementOfSeq
  <1> HIDE DEF r
  <1>6. q[1] \in Ends => r = <<>> /\ stage = "ended"
    <2>1. q[1] \in Ends => stage = "ended" /\ 1 = Len(q)
      BY <1>5 DEF Fits
    <2> QED BY <1>1, <1>2, <1>3, <2>1
  <1>7. q[1] \notin Ends /\ stage = "ended" =>
          r # <<>> /\ \E i \in 1 .. Len(r) : r[i] \in Ends
    <2>1. Len(q) \in 1 .. Len(q)
      BY <1>1
    <2>2. stage = "ended" => q[Len(q)] \in Ends
      BY <2>1 DEF Fits
    <2>3. Len(q) # 1 => Len(r) \in 1 .. Len(r) /\ r[Len(r)] = q[Len(q)]
      BY <1>1, <1>2
    <2> QED BY <1>1, <1>2, <1>4, <2>2, <2>3
  <1>8. r # <<>> => /\ r[1] # "HandleReady"
                    /\ r[1] = "Connected" => q[1] = "HandleReady"
                    /\ stage # "registering"
    <2>1. r # <<>> => 2 \in 1 .. Len(q) /\ r[1] = q[2] /\ Len(q) > 1
      BY <1>1, <1>2, <1>3
    <2> QED BY <1>1, <2>1 DEF Fits
  <1> QED BY <1>5, <1>6, <1>7, <1>8 DEF r, Fits
-----------------------------------------------------------------------------
LEMMA InitConn == Init => ConnInv
  <1> SUFFICES ASSUME Init PROVE ConnInv
    OBVIOUS
  <1>1. ASSUME NEW t \in Tasks
        PROVE  task[t] = "free" /\ events[t] = <<>>
    BY DEF Init
  <1>2. <<>> \in Seq(IrcEvents) /\ Len(<<>>) = 0
    BY EmptySeq
  <1>3. QueuesFit
    <2>1. Fits("free", <<>>)
      BY <1>2 DEF Fits
    <2> QED BY <1>1, <2>1 DEF QueuesFit
  <1>4. TypeOK
    <2>1. \A t \in Tasks : Len(events[t]) <= 4
      BY <1>1, <1>2
    <2>2. events \in [Tasks -> Seq(IrcEvents)] /\ task \in [Tasks -> Stages]
      BY <1>2 DEF Init, Stages
    <2>3. 0 \in 0 .. MaxRetries + 1 /\ 0 \in 0 .. MaxUserSteps
      BY ConnectionAssumption
    <2> QED BY <2>1, <2>2, <2>3 DEF Init, TypeOK, Statuses
  <1> QED BY <1>3, <1>4 DEF Init, ConnInv, HandleIsNotStale, NeverStuck, OfflineIsUnwanted

(* Lengths are bounded because the queues fit.                             *)
LEMMA FitsLength ==
  ASSUME QueuesFit
  PROVE  \A t \in Tasks : Len(events[t]) <= 4
  BY DEF QueuesFit, Fits

(* The steps of a task: the record and the handle are left alone, and an   *)
(* end that loses the session sends its event.                             *)
LEMMA TaskKeepsConn ==
  ASSUME ConnInv, NEW t \in Tasks,
         DialFails(t) \/ DialSucceeds(t) \/ Welcomed(t) \/ StreamEnds(t)
  PROVE  ConnInv'
  <1>1. /\ Fits(task'[t], events'[t])
        /\ \A u \in Tasks \ {t} : task'[u] = task[u] /\ events'[u] = events[u]
        /\ task' \in [Tasks -> Stages] /\ events' \in [Tasks -> Seq(IrcEvents)]
        /\ task'[t] \in {"registering", "up", "ended"} /\ Live(t)
        /\ UNCHANGED <<status, should, timer, attempts, handle, quitting, muted,
                       offline, userSteps>>
    BY TaskStages DEF ConnInv, record
  <1>2. QueuesFit'
    BY <1>1 DEF ConnInv, QueuesFit
  <1>3. \A u \in Tasks : Len(events'[u]) <= 4
    BY <1>2, <1>1 DEF QueuesFit, Fits
  <1>4. TypeOK'
    BY <1>1, <1>3 DEF ConnInv, TypeOK
  <1>5. task'[t] = "ended" =>
          events'[t] # <<>> /\ \E i \in 1 .. Len(events'[t]) : events'[t][i] \in Ends
    <2>1. CASE DialFails(t)
      <3>1. events'[t] = events[t] \o <<"Failed">>
        BY <2>1, TaskStepQueue DEF DialFails, ConnInv
      <3>2. events[t] \in Seq(IrcEvents)
        BY DEF ConnInv, TypeOK
      <3>3. /\ Len(events'[t]) = Len(events[t]) + 1 /\ Len(events[t]) \in Nat
            /\ events'[t][Len(events[t]) + 1] = "Failed"
        BY <3>1, <3>2
      <3> QED BY <3>3, EmptySeq DEF Ends
    <2>2. CASE DialSucceeds(t) \/ Welcomed(t)
      BY <2>2, TaskStepQueue DEF DialSucceeds, Welcomed, ConnInv
    <2>3. CASE StreamEnds(t)
      <3>1. PICK errorLine \in {<<>>, <<"ERROR">>}, last \in Ends :
              TaskStep(t, "ended", errorLine \o <<last>>)
        BY <2>3 DEF StreamEnds, Ends
      <3>2. task[t] \in {"registering", "up"} /\ Fits(task[t], events[t])
        BY <2>3 DEF StreamEnds, HasSession, ConnInv, QueuesFit
      <3>3. events'[t] = events[t] \o (errorLine \o <<last>>)
        BY <3>1, TaskStepQueue DEF ConnInv
      <3>4. \E i \in 1 .. Len(events'[t]) : events'[t][i] \in Ends
        <4> DEFINE r == events[t] \o (errorLine \o <<last>>)
        <4>1. \E i \in 1 .. Len(r) : r[i] \in Ends
          BY <3>1, <3>2, EndFits, Zenon
        <4> HIDE DEF r
        <4> QED BY <3>3, <4>1 DEF r
      <3>5. Len(<<>>) = 0
        BY EmptySeq
      <3> QED BY <3>4, <3>5
    <2> QED BY <2>1, <2>2, <2>3
  <1>6. HandleIsNotStale'
    <2>1. handle = t => HasSession(t)' \/ task'[t] = "ended"
      BY <1>1 DEF HasSession
    <2>2. handle # t => \/ handle = NoTask
                        \/ /\ HasSession(handle) => HasSession(handle)'
                           /\ events'[handle] = events[handle]
      BY <1>1 DEF ConnInv, TypeOK, HasSession
    <2> QED BY <1>1, <1>5, <2>1, <2>2 DEF ConnInv, HandleIsNotStale, HasSession
  <1>7. ~Forgotten(t)'
    BY <1>1, <1>5 DEF Forgotten, Live
  <1> QED BY <1>1, <1>2, <1>4, <1>6, <1>7
          DEF ConnInv, NeverStuck, OfflineIsUnwanted

(* The main loop's events: a handle is taken only while its end is still   *)
(* to come, and the last end starts the timer.                             *)
LEMMA EventKeepsConn ==
  ASSUME ConnInv, NEW t \in Tasks, HandleEvent(t)
  PROVE  ConnInv'
  <1> USE DEF ConnInv
  <1>1. /\ QueuesFit' /\ UNCHANGED task
        /\ events' \in [Tasks -> Seq(IrcEvents)]
        /\ events[t] # <<>> /\ events'[t] = Tail(events[t])
        /\ \A u \in Tasks \ {t} : events'[u] = events[u]
    BY EventStages
  <1>2. Fits(task[t], events[t])
    BY DEF QueuesFit
  <1>3. UNCHANGED <<quitting, offline, userSteps>>
    BY DEF HandleEvent
  <1>4. \A u \in Tasks : Len(events'[u]) <= 4
    BY <1>1 DEF QueuesFit, Fits
  <1>5. events[t][1] \in IrcEvents /\ Head(events[t]) = events[t][1]
        /\ task[t] \in {"registering", "up", "ended"}
    BY <1>1, <1>2, HeadOfFitting DEF TypeOK, Stages
  <1>6. CASE events[t][1] = "HandleReady"
    <2>1. handle' = t /\ UNCHANGED <<status, should, timer, attempts, muted>>
      BY <1>5, <1>6 DEF HandleEvent, HandleReady, record
    <2>2. TypeOK'
      BY <1>1, <1>3, <1>4, <2>1 DEF TypeOK
    <2>3. HandleIsNotStale' /\ ~Forgotten(t)'
      <3>1. task[t] = "ended" => /\ Tail(events[t]) # <<>>
                                /\ \E i \in 1 .. Len(Tail(events[t])) : Tail(events[t])[i] \in Ends
        BY <1>1, <1>2, <1>6, HeadOfFitting DEF Ends
      <3> QED BY <1>1, <1>5, <2>1, <3>1 DEF HandleIsNotStale, HasSession, Forgotten, Live
    <2> QED BY <1>1, <1>3, <2>1, <2>2, <2>3 DEF NeverStuck, OfflineIsUnwanted
  <1>7. CASE events[t][1] \in {"Connected", "ERROR"}
    <2>1. /\ UNCHANGED <<should, handle, muted>>
          /\ status' \in Statuses /\ timer' \in {"none", timer} /\ attempts' \in {0, attempts}
      BY <1>5, <1>7 DEF HandleEvent, HandleConnected, HandleError, TypeOK, Statuses
    <2>2. TypeOK'
      BY <1>1, <1>3, <1>4, <2>1, ConnectionAssumption DEF TypeOK
    <2>3. task[t] = "ended" => /\ Tail(events[t]) # <<>>
                              /\ \E i \in 1 .. Len(Tail(events[t])) : Tail(events[t])[i] \in Ends
      BY <1>1, <1>2, <1>7, HeadOfFitting DEF Ends
    <2>4. HandleIsNotStale'
      <3>1. CASE handle = t
        BY <1>1, <1>5, <2>1, <2>3, <3>1 DEF HandleIsNotStale, HasSession
      <3>2. CASE handle # t /\ handle # NoTask
        BY <1>1, <2>1, <3>2 DEF HandleIsNotStale, HasSession, TypeOK
      <3> QED BY <2>1, <3>1, <3>2 DEF HandleIsNotStale
    <2>5. ~Forgotten(t)'
      BY <1>1, <1>5, <2>3 DEF Forgotten, Live
    <2> QED BY <1>1, <1>3, <2>1, <2>2, <2>4, <2>5 DEF NeverStuck, OfflineIsUnwanted
  <1>8. CASE events[t][1] \in Ends
    <2>1. HandleDisconnected(events[t][1])
      BY <1>5, <1>8 DEF HandleEvent, Ends
    <2>2. /\ UNCHANGED <<should, attempts>> /\ handle' = NoTask
          /\ muted' \in SUBSET Tasks
          /\ status' \in Statuses /\ (status' = "none" <=> status = "none")
          /\ timer' = IF status # "none" /\ should THEN "waiting" ELSE timer
      BY <2>1 DEF HandleDisconnected, Unmake, Ended, TypeOK, Statuses
    <2>3. TypeOK'
      BY <1>1, <1>3, <1>4, <2>2 DEF TypeOK
    <2> QED BY <1>1, <1>3, <2>2, <2>3
            DEF HandleIsNotStale, NeverStuck, OfflineIsUnwanted
  <1> QED BY <1>5, <1>6, <1>7, <1>8 DEF IrcEvents, Ends
(* A spawned attempt is not forgotten, and no handle was on its slot.      *)
LEMMA SpawnKeepsConn ==
  ASSUME ConnInv, Spawn, UNCHANGED <<handle, events>>, handle = NoTask,
         status' \in Statuses, should' \in BOOLEAN, timer' = "none",
         attempts' \in 0 .. MaxRetries + 1, offline' \in BOOLEAN,
         userSteps' \in 0 .. MaxUserSteps, offline' => ~should'
  PROVE  ConnInv'
  <1>1. /\ QueuesFit' /\ task' \in [Tasks -> Stages]
        /\ quitting' \in SUBSET Tasks /\ muted' \in SUBSET Tasks
    BY SpawnStages DEF ConnInv
  <1>2. PICK t \in Tasks : task'[t] = "dialing"
    BY SpawnStages DEF ConnInv
  <1>3. TypeOK'
    BY <1>1 DEF ConnInv, TypeOK
  <1>4. ~Forgotten(t)'
    BY <1>2 DEF Forgotten, Live
  <1> QED BY <1>1, <1>3, <1>4
          DEF ConnInv, HandleIsNotStale, NeverStuck, OfflineIsUnwanted

LEMMA RecordKeepsConn ==
  ASSUME ConnInv, UNCHANGED <<handle, task, muted, events>>, attempts' \in {0, attempts},
         status' \in Statuses, should' \in BOOLEAN, timer' \in {"none", "waiting", "due"},
         quitting' \in SUBSET Tasks, offline' \in BOOLEAN,
         userSteps' \in 0 .. MaxUserSteps, offline' => ~should',
         status' # "none" /\ should' => status # "none" /\ should /\
                                       (timer # "none" => timer' # "none")
  PROVE  ConnInv'
  <1>1. TypeOK'
    BY ConnectionAssumption DEF ConnInv, TypeOK
  <1>2. QueuesFit' /\ HandleIsNotStale'
    BY DEF ConnInv, QueuesFit, HandleIsNotStale, HasSession
  <1>3. \A t \in Tasks : Forgotten(t)' <=> Forgotten(t)
    BY DEF Forgotten, Live
  <1> QED BY <1>1, <1>2, <1>3 DEF ConnInv, NeverStuck, OfflineIsUnwanted

LEMMA ConnStep == ConnInv /\ [Next]_vars => ConnInv'
  <1> SUFFICES ASSUME ConnInv, [Next]_vars PROVE ConnInv'
    OBVIOUS
  <1>1. ASSUME NEW t \in Tasks, TaskNext(t)
        PROVE  ConnInv'
    BY <1>1, TaskKeepsConn, EventKeepsConn DEF TaskNext
  <1>2. CASE TimerExpires
    BY <1>2, RecordKeepsConn DEF TimerExpires, ConnInv, TypeOK, OfflineIsUnwanted
  <1>3. CASE CheckReconnects
    <2>1. attempts' \in 0 .. MaxRetries + 1
      BY <1>3, ConnectionAssumption DEF CheckReconnects, ConnInv, TypeOK
    <2> QED BY <1>3, <2>1, SpawnKeepsConn
            DEF CheckReconnects, ConnInv, TypeOK, Statuses, OfflineIsUnwanted
  <1>4. CASE UserStep
    <2>1. userSteps' \in 0 .. MaxUserSteps
      BY <1>4, ConnectionAssumption DEF UserStep, ConnInv, TypeOK
    <2>2. CASE Connect
      <3>1. 0 \in 0 .. MaxRetries + 1
        BY ConnectionAssumption
      <3> QED BY <2>1, <2>2, <3>1, SpawnKeepsConn, ConnectionAssumption
              DEF Connect, Statuses
    <2>3. CASE Disconnect
      <3>1. quitting' \in SUBSET Tasks
        BY <2>3 DEF Disconnect, ConnInv, TypeOK
      <3> QED BY <2>1, <2>3, <3>1, RecordKeepsConn
              DEF Disconnect, ConnInv, TypeOK
    <2>4. CASE Close
      BY <2>1, <2>4, RecordKeepsConn DEF Close, ConnInv, TypeOK, Statuses
    <2> QED BY <1>4, <2>2, <2>3, <2>4 DEF UserStep
  <1>5. CASE UNCHANGED vars
    BY <1>5, RecordKeepsConn DEF vars, ConnInv, TypeOK, OfflineIsUnwanted
  <1> QED BY <1>1, <1>2, <1>3, <1>4, <1>5 DEF Next

(* For any user: types hold, no handle of a dead connection is left        *)
(* behind, and a wanted connection is never given up.                      *)
THEOREM Connection == Spec => [](TypeOK /\ HandleIsNotStale /\ NeverStuck)
  <1>1. ConnInv => TypeOK /\ HandleIsNotStale /\ NeverStuck
    BY DEF ConnInv
  <1> QED BY <1>1, InitConn, ConnStep, PTL DEF Spec

(* After /disconnect nothing dials until the user says /connect: a step    *)
(* that starts an attempt is a /connect, or a reconnect that is wanted.    *)
LEMMA OfflineStep ==
  ASSUME ConnInv, [Next]_vars, offline, offline', NEW t \in Tasks, task'[t] = "dialing"
  PROVE  task[t] = "dialing"
  <1>1. ~should
    BY DEF ConnInv, OfflineIsUnwanted
  <1>2. ASSUME NEW u \in Tasks, TaskNext(u)
        PROVE  task[t] = "dialing"
    <2>1. CASE HandleEvent(u)
      BY <2>1 DEF HandleEvent
    <2>2. CASE ~HandleEvent(u)
      BY <1>2, <2>2, TaskStages DEF TaskNext, ConnInv
    <2> QED BY <2>1, <2>2
  <1>3. CASE UserStep
    BY <1>3 DEF UserStep, Connect, Disconnect, Close
  <1>4. CASE TimerExpires \/ UNCHANGED vars
    BY <1>4 DEF TimerExpires, vars
  <1> QED BY <1>1, <1>2, <1>3, <1>4 DEF Next, CheckReconnects

THEOREM Offline == Spec => OfflineMeansNoDialing
  <1>1. ConnInv /\ [Next]_vars =>
          [offline /\ offline' =>
             \A t \in Tasks : task'[t] = "dialing" => task[t] = "dialing"]_vars
    BY OfflineStep
  <1> QED BY <1>1, InitConn, ConnStep, PTL DEF Spec, OfflineMeansNoDialing
-----------------------------------------------------------------------------
(* A patient user's connection.  Nothing is under way when /connect or the *)
(* reconnect timer starts an attempt.                                      *)
LEMMA NothingUnderWay ==
  ASSUME PatientInv, handle = NoTask, status # "Connecting"
  PROVE  \A t \in Tasks : Forgotten(t)
  BY ConnectionAssumption DEF PatientInv, AttemptIsKnown, BeingDialled, HoldsHandle

(* Events are added at the back.                                           *)
LEMMA FrontStays ==
  ASSUME NEW q \in Seq(IrcEvents), NEW e \in Seq(IrcEvents), e # <<>>
  PROVE  /\ q \o e # <<>>
         /\ q # <<>> => (q \o e)[1] = q[1]
         /\ q = <<>> => (q \o e)[1] = e[1]
  <1>1. Len(e) \in Nat \ {0} /\ Len(q) \in Nat
    BY EmptySeq, LenProperties, Zenon
  <1>2. q # <<>> => Len(q) \in Nat \ {0}
    BY EmptySeq, Zenon
  <1>3. q = <<>> => Len(q) = 0
    BY EmptySeq
  <1>4. /\ Len(q \o e) = Len(q) + Len(e)
        /\ \A i \in 1 .. Len(q) + Len(e) :
             (q \o e)[i] = IF i <= Len(q) THEN q[i] ELSE e[i - Len(q)]
    BY ConcatProperties
  <1>5. 1 \in 1 .. Len(q) + Len(e)
    BY <1>1
  <1>6. q \o e # <<>>
    <2>1. Len(q \o e) # 0
      BY <1>1, <1>4
    <2> QED BY <2>1, EmptySeq
  <1>7. q # <<>> => 1 <= Len(q)
    BY <1>2
  <1>8. q = <<>> => ~(1 <= Len(q)) /\ 1 - Len(q) = 1
    BY <1>3
  <1> QED BY <1>4, <1>5, <1>6, <1>7, <1>8

(* A task's step emits something, and leaves the attempt as known as it    *)
(* was: the front of its queue is what it was, unless the queue was empty. *)
LEMMA TaskEmits ==
  ASSUME ConnInv, NEW t \in Tasks,
         DialFails(t) \/ DialSucceeds(t) \/ Welcomed(t) \/ StreamEnds(t)
  PROVE  \E e \in Seq(IrcEvents) :
           /\ e # <<>> /\ events'[t] = events[t] \o e
           /\ task[t] = "dialing" => e[1] \in {"HandleReady", "Failed"}
           /\ task[t] # "dialing" => e[1] # "HandleReady"
           /\ e[1] = "Connected" => task[t] = "registering"
           /\ task'[t] = "registering" => task[t] = "dialing"
  <1> USE DEF ConnInv
  <1>0. ASSUME NEW e \in IrcEvents
        PROVE  <<e>> \in Seq(IrcEvents) /\ <<e>> # <<>> /\ <<e>>[1] = e
    OBVIOUS
  <1>1. CASE DialFails(t)
    <2>1. task[t] = "dialing" /\ TaskStep(t, "ended", <<"Failed">>)
      BY <1>1 DEF DialFails
    <2>2. /\ <<"Failed">> \in Seq(IrcEvents) /\ <<"Failed">> # <<>>
          /\ <<"Failed">>[1] = "Failed"
      BY <1>0 DEF IrcEvents
    <2>3. task'[t] = "ended" /\ events'[t] = events[t] \o <<"Failed">>
      BY <2>1, TaskStepQueue
    <2> USE <2>2
    <2> WITNESS <<"Failed">> \in Seq(IrcEvents)
    <2> QED BY <2>1, <2>2, <2>3
  <1>2. CASE DialSucceeds(t)
    <2>1. task[t] = "dialing" /\ TaskStep(t, "registering", <<"HandleReady">>)
      BY <1>2 DEF DialSucceeds
    <2>2. /\ <<"HandleReady">> \in Seq(IrcEvents) /\ <<"HandleReady">> # <<>>
          /\ <<"HandleReady">>[1] = "HandleReady"
      BY <1>0 DEF IrcEvents
    <2>3. task'[t] = "registering" /\ events'[t] = events[t] \o <<"HandleReady">>
      BY <2>1, TaskStepQueue
    <2> USE <2>2
    <2> WITNESS <<"HandleReady">> \in Seq(IrcEvents)
    <2> QED BY <2>1, <2>2, <2>3
  <1>3. CASE Welcomed(t)
    <2>1. task[t] = "registering" /\ TaskStep(t, "up", <<"Connected">>)
      BY <1>3 DEF Welcomed
    <2>2. /\ <<"Connected">> \in Seq(IrcEvents) /\ <<"Connected">> # <<>>
          /\ <<"Connected">>[1] = "Connected"
      BY <1>0 DEF IrcEvents
    <2>3. task'[t] = "up" /\ events'[t] = events[t] \o <<"Connected">>
      BY <2>1, TaskStepQueue
    <2> USE <2>2
    <2> WITNESS <<"Connected">> \in Seq(IrcEvents)
    <2> QED BY <2>1, <2>2, <2>3
  <1>4. CASE StreamEnds(t)
    <2>1. PICK errorLine \in {<<>>, <<"ERROR">>}, last \in Ends :
            TaskStep(t, "ended", errorLine \o <<last>>)
      BY <1>4 DEF StreamEnds, Ends
    <2>2. task[t] \in {"registering", "up"}
      BY <1>4 DEF StreamEnds, HasSession
    <2>3. /\ errorLine \o <<last>> \in Seq(IrcEvents)
          /\ errorLine \o <<last>> # <<>>
          /\ (errorLine \o <<last>>)[1] \in {"ERROR", "Disconnected", "Failed"}
      <3>1. last \in {"Disconnected", "Failed"} /\ last \in IrcEvents
        BY <2>1 DEF IrcEvents, Ends
      <3>2. <<last>> \in Seq(IrcEvents) /\ <<last>> # <<>> /\ <<last>>[1] = last
        BY <1>0, <3>1
      <3>3. <<"ERROR">> \in Seq(IrcEvents) /\ <<"ERROR">>[1] = "ERROR"
        BY <1>0 DEF IrcEvents
      <3>4. errorLine \in Seq(IrcEvents)
        BY <2>1, <3>3, EmptySeq
      <3>5. errorLine # <<>> => errorLine[1] = "ERROR"
        BY <2>1, <3>3
      <3> QED BY <3>1, <3>2, <3>4, <3>5, FrontStays, ConcatProperties
    <2>4. task'[t] = "ended" /\ events'[t] = events[t] \o (errorLine \o <<last>>)
      BY <2>1, TaskStepQueue
    <2> QED BY <2>2, <2>3, <2>4
  <1> QED BY <1>1, <1>2, <1>3, <1>4

LEMMA TaskKeepsAttempt ==
  ASSUME PatientInv, NEW t \in Tasks,
         DialFails(t) \/ DialSucceeds(t) \/ Welcomed(t) \/ StreamEnds(t)
  PROVE  OneAttempt' /\ AttemptIsKnown' /\ ConnectedIsUsable'
  <1> USE DEF PatientInv
  <1>1. /\ \A u \in Tasks \ {t} : task'[u] = task[u] /\ events'[u] = events[u]
        /\ UNCHANGED <<status, handle>>
        /\ task'[t] \in {"registering", "up", "ended"} /\ Live(t)
    BY TaskStages DEF ConnInv, record
  <1>2. \A u \in Tasks : Forgotten(u)' <=> Forgotten(u)
    <2>1. events'[t] # <<>>
      BY TaskEmits, FrontStays DEF ConnInv, TypeOK
    <2> QED BY <1>1, <2>1 DEF Forgotten, Live
  <1>3. \A u \in Tasks \ {t} : Forgotten(u)
    BY <1>1 DEF OneAttempt, Forgotten
  <1>4. BeingDialled(t)' \/ HoldsHandle(t)'
    <2>1. PICK e \in Seq(IrcEvents) :
           /\ e # <<>> /\ events'[t] = events[t] \o e
           /\ task[t] = "dialing" => e[1] \in {"HandleReady", "Failed"}
           /\ task[t] # "dialing" => e[1] # "HandleReady"
           /\ e[1] = "Connected" => task[t] = "registering"
           /\ task'[t] = "registering" => task[t] = "dialing"
      BY TaskEmits
    <2>2. /\ events'[t] # <<>>
          /\ events[t] # <<>> => events'[t][1] = events[t][1]
          /\ events[t] = <<>> => events'[t][1] = e[1]
      BY <2>1, FrontStays DEF ConnInv, TypeOK
    <2>3. task[t] = "dialing" => events[t] = <<>> /\ ~HoldsHandle(t)
      <3>1. Fits(task[t], events[t])
        BY DEF ConnInv, QueuesFit
      <3>2. task[t] = "dialing" => events[t] = <<>>
        BY <3>1 DEF Fits
      <3>3. Len(<<>>) = 0
        BY EmptySeq
      <3> QED BY <3>2, <3>3, ConnectionAssumption
              DEF HoldsHandle, ConnInv, HandleIsNotStale, HasSession
    <2>4. CASE BeingDialled(t)
      BY <1>1, <2>1, <2>2, <2>3, <2>4 DEF BeingDialled
    <2>5. CASE HoldsHandle(t)
      BY <1>1, <2>1, <2>2, <2>3, <2>5 DEF HoldsHandle
    <2> QED BY <1>1, <2>4, <2>5 DEF AttemptIsKnown, Forgotten
  <1> QED BY <1>1, <1>2, <1>3, <1>4
          DEF OneAttempt, AttemptIsKnown, ConnectedIsUsable

(* What the main loop does with the event at the front, attempt by attempt.*)
LEMMA EventOfAttempt ==
  ASSUME PatientInv, NEW t \in Tasks, HandleEvent(t)
  PROVE  /\ \A u \in Tasks \ {t} : Forgotten(u) /\ Forgotten(u)'
         /\ UNCHANGED <<should, task>>
         /\ \/ /\ BeingDialled(t) /\ HoldsHandle(t)' /\ UNCHANGED status
               /\ status = "Connecting"
            \/ /\ status = "Connecting" /\ status' = "Connected"
               /\ HoldsHandle(t) /\ HoldsHandle(t)'
            \/ /\ status' = IF status = "none" THEN "none" ELSE "Error"
               /\ HoldsHandle(t) /\ HoldsHandle(t)'
            \/ /\ status' = IF status = "none" THEN "none" ELSE Ended(events[t][1])
               /\ events[t][1] \in Ends
               /\ handle' = NoTask /\ Forgotten(t)'
  <1> USE DEF PatientInv, ConnInv
  <1>1. /\ UNCHANGED task
        /\ events[t] # <<>> /\ events'[t] = Tail(events[t])
        /\ \A u \in Tasks \ {t} : events'[u] = events[u]
    BY EventStages
  <1>2. Fits(task[t], events[t])
    BY DEF QueuesFit
  <1>3. \A u \in Tasks \ {t} : Forgotten(u) /\ Forgotten(u)'
    BY <1>1 DEF OneAttempt, Forgotten, Live
  <1>4. /\ events[t][1] \in IrcEvents /\ Head(events[t]) = events[t][1]
        /\ task[t] # "dialing"
        /\ task[t] = "registering" => events[t][1] = "HandleReady"
        /\ events[t][1] \in Ends => Tail(events[t]) = <<>> /\ task[t] = "ended"
        /\ Tail(events[t]) # <<>> =>
             /\ Tail(events[t])[1] # "HandleReady"
             /\ Tail(events[t])[1] = "Connected" => events[t][1] = "HandleReady"
    BY <1>1, <1>2, HeadOfFitting
  <1>5. BeingDialled(t) \/ HoldsHandle(t)
    BY <1>1 DEF AttemptIsKnown, Forgotten
  <1>6. should' = should
    BY <1>4 DEF HandleEvent, HandleReady, HandleConnected, HandleError,
                HandleDisconnected, record
  <1>7. CASE events[t][1] = "HandleReady"
    <2>1. handle' = t /\ UNCHANGED status
      BY <1>4, <1>7 DEF HandleEvent, HandleReady, record
    <2>2. BeingDialled(t)
      BY <1>1, <1>5, <1>7 DEF HoldsHandle
    <2>3. status = "Connecting"
      BY <2>2 DEF BeingDialled
    <2>4. HoldsHandle(t)'
      BY <1>1, <1>4, <2>1, <2>3 DEF HoldsHandle
    <2> QED BY <1>1, <1>3, <1>6, <2>1, <2>2, <2>3, <2>4
  <1>8. CASE events[t][1] = "Connected"
    <2>1. HoldsHandle(t)
      BY <1>4, <1>5, <1>8 DEF BeingDialled
    <2>2. status = "Connecting"
      BY <1>1, <1>8, <2>1 DEF HoldsHandle
    <2>3. status' = "Connected" /\ UNCHANGED handle
      BY <1>4, <1>8, <2>2 DEF HandleEvent, HandleConnected
    <2>4. HoldsHandle(t)'
      BY <1>1, <1>4, <1>8, <2>1, <2>3 DEF HoldsHandle
    <2> QED BY <1>1, <1>3, <1>6, <2>1, <2>2, <2>3, <2>4
  <1>9. CASE events[t][1] = "ERROR"
    <2>1. HoldsHandle(t)
      BY <1>4, <1>5, <1>9 DEF BeingDialled
    <2>2. status' = IF status = "none" THEN "none" ELSE "Error"
      BY <1>4, <1>9 DEF HandleEvent, HandleError
    <2>3. UNCHANGED handle
      BY <1>4, <1>9 DEF HandleEvent, HandleError
    <2>4. HoldsHandle(t)'
      BY <1>1, <1>4, <1>9, <2>1, <2>3 DEF HoldsHandle
    <2> QED BY <1>1, <1>3, <1>6, <2>1, <2>2, <2>4
  <1>10. CASE events[t][1] \in Ends
    <2>1. HandleDisconnected(events[t][1])
      BY <1>4, <1>10 DEF HandleEvent, Ends
    <2>2. /\ handle' = NoTask
          /\ status' = IF status = "none" THEN "none" ELSE Ended(events[t][1])
      BY <2>1 DEF HandleDisconnected, Unmake
    <2>3. Forgotten(t)'
      BY <1>1, <1>4, <1>10 DEF Forgotten, Live
    <2> QED BY <1>1, <1>3, <1>6, <1>10, <2>2, <2>3
  <1> QED BY <1>4, <1>7, <1>8, <1>9, <1>10 DEF IrcEvents, Ends

LEMMA EventKeepsAttempt ==
  ASSUME PatientInv, NEW t \in Tasks, HandleEvent(t)
  PROVE  OneAttempt' /\ AttemptIsKnown' /\ ConnectedIsUsable'
  <1>1. \A u \in Tasks \ {t} : Forgotten(u)'
    BY EventOfAttempt
  <1>2. OneAttempt'
    BY <1>1 DEF OneAttempt
  <1>3. Forgotten(t)' \/ HoldsHandle(t)'
    BY EventOfAttempt
  <1>4. AttemptIsKnown'
    BY <1>1, <1>3 DEF AttemptIsKnown
  <1>5. ConnectedIsUsable'
    <2>1. HoldsHandle(t)' => handle' # NoTask
      BY ConnectionAssumption DEF HoldsHandle
    <2>2. status' = "Connected" => HoldsHandle(t)'
      BY EventOfAttempt DEF Ended
    <2> QED BY <2>1, <2>2 DEF ConnectedIsUsable
  <1> QED BY <1>2, <1>4, <1>5

LEMMA SpawnIsTheAttempt ==
  ASSUME PatientInv, Spawn, UNCHANGED <<handle, events>>, handle = NoTask,
         status # "Connecting", status' = "Connecting"
  PROVE  OneAttempt' /\ AttemptIsKnown' /\ ConnectedIsUsable'
  <1>1. \A u \in Tasks : Forgotten(u)
    BY NothingUnderWay
  <1>2. PICK t \in Tasks : /\ task'[t] = "dialing"
                          /\ \A u \in Tasks \ {t} : task'[u] = task[u]
    BY SpawnStages DEF PatientInv, ConnInv
  <1>3. \A u \in Tasks \ {t} : Forgotten(u)'
    BY <1>1, <1>2 DEF Forgotten, Live
  <1>4. BeingDialled(t)'
    BY <1>2 DEF BeingDialled
  <1> QED BY <1>3, <1>4 DEF OneAttempt, AttemptIsKnown, ConnectedIsUsable

LEMMA PatientStep ==
  ~Impatient /\ PatientInv /\ [Next]_vars => PatientInv'
  <1> SUFFICES ASSUME ~Impatient, PatientInv, [Next]_vars
               PROVE  OneAttempt' /\ AttemptIsKnown' /\ ConnectedIsUsable'
    BY ConnStep DEF PatientInv
  <1>1. ASSUME NEW t \in Tasks, TaskNext(t)
        PROVE  OneAttempt' /\ AttemptIsKnown' /\ ConnectedIsUsable'
    BY <1>1, TaskKeepsAttempt, EventKeepsAttempt DEF TaskNext
  <1>2. ASSUME UNCHANGED <<handle, task, events>>, status' # "Connected" \/ status' = status,
               status = "Connecting" => status' = "Connecting"
        PROVE  OneAttempt' /\ AttemptIsKnown' /\ ConnectedIsUsable'
    <2>1. ASSUME NEW t \in Tasks, ~Forgotten(t)'
          PROVE  BeingDialled(t)' \/ HoldsHandle(t)'
      <3>1. BeingDialled(t) \/ HoldsHandle(t)
        BY <1>2, <2>1 DEF PatientInv, AttemptIsKnown, Forgotten, Live
      <3> QED BY <1>2, <3>1 DEF BeingDialled, HoldsHandle
    <2>2. OneAttempt'
      BY <1>2 DEF PatientInv, OneAttempt, Forgotten, Live
    <2>3. AttemptIsKnown'
      BY <2>1 DEF AttemptIsKnown
    <2>4. ConnectedIsUsable'
      BY <1>2 DEF PatientInv, ConnectedIsUsable
    <2> QED BY <2>2, <2>3, <2>4
  <1>3. CASE TimerExpires \/ UNCHANGED vars
    BY <1>2, <1>3 DEF TimerExpires, vars
  <1>4. CASE CheckReconnects
    BY <1>4, SpawnIsTheAttempt DEF CheckReconnects
  <1>5. CASE UserStep
    <2>1. CASE Connect
      BY <2>1, SpawnIsTheAttempt DEF Connect
    <2>2. CASE Disconnect \/ Close
      BY <1>2, <2>2 DEF Disconnect, Close
    <2> QED BY <1>5, <2>1, <2>2 DEF UserStep
  <1> QED BY <1>1, <1>3, <1>4, <1>5 DEF Next

LEMMA PatientInit == Init => PatientInv
  <1> SUFFICES ASSUME Init PROVE OneAttempt /\ AttemptIsKnown /\ ConnectedIsUsable
    BY InitConn DEF PatientInv
  <1>1. \A t \in Tasks : Forgotten(t)
    BY DEF Init, Forgotten, Live
  <1> QED BY <1>1 DEF Init, OneAttempt, AttemptIsKnown, ConnectedIsUsable

LEMMA AtMostOneAttempt == OneAttempt => AtMostOneSession
  <1> SUFFICES ASSUME OneAttempt PROVE AtMostOneSession
    OBVIOUS
  <1> DEFINE L == {t \in Tasks : Live(t)}
  <1>1. CASE L = {}
    BY <1>1, FS_EmptySet DEF AtMostOneSession
  <1>2. ASSUME NEW t \in L
        PROVE  AtMostOneSession
    <2>1. L = {t}
      BY DEF OneAttempt, Forgotten
    <2>2. Cardinality({t}) = 1
      BY FS_Singleton
    <2> QED BY <2>1, <2>2 DEF AtMostOneSession
  <1> QED BY <1>1, <1>2

(* A patient user has at most one attempt or session at a time, and a      *)
(* connection shown as Connected can be written to.                        *)
THEOREM PatientSession ==
  ASSUME ~Impatient
  PROVE  Spec => []OneUsableSession
  <1>1. PatientInv => OneUsableSession
    BY AtMostOneAttempt DEF PatientInv, OneUsableSession
  <1>2. PatientInv /\ [Next]_vars => PatientInv'
    BY PatientStep
  <1> QED BY <1>1, <1>2, PatientInit, PTL DEF Spec

(* Every step of a patient user's connection is a step of the link its     *)
(* user was promised, or leaves that link as it is.                        *)
LEMMA LinkStep ==
  ASSUME ~Impatient, PatientInv, [Next]_vars
  PROVE  [Link!Next]_Link!vars
  <1> USE DEF Link!vars
  <1>1. PatientInv'
    BY PatientStep
  <1>2. ASSUME UNCHANGED <<status, should, handle>>
        PROVE  UNCHANGED Link!vars
    BY <1>2 DEF Phase
  <1>3. ASSUME NEW t \in Tasks, TaskNext(t)
        PROVE  [Link!Next]_Link!vars
    <2>1. CASE HandleEvent(t)
      <3>1. should' = should
        BY <2>1, EventOfAttempt
      <3>2. HoldsHandle(t) => handle # NoTask
        BY ConnectionAssumption DEF HoldsHandle
      <3>3. HoldsHandle(t)' => handle' # NoTask
        BY ConnectionAssumption DEF HoldsHandle
      <3>4. CASE BeingDialled(t) /\ UNCHANGED status /\ status = "Connecting"
        <4>1. UNCHANGED Phase
          BY <3>4 DEF Phase
        <4> QED BY <3>1, <4>1
      <3>5. CASE status = "Connecting" /\ status' = "Connected" /\ HoldsHandle(t)'
        <4>1. Phase = "dialing" /\ Phase' = "online"
          BY <3>3, <3>5 DEF Phase
        <4> QED BY <3>1, <4>1 DEF Link!Next, Link!Answered
      <3>6. CASE status' = (IF status = "none" THEN "none" ELSE status') /\
                 status' \in {"none", "Error", "Disconnected"} /\
                 (status' = "none" => status = "none")
        <4>1. Phase \in {"none", "dialing", "online", "offline"}
          BY DEF Phase
        <4>2. IF status = "none" THEN Phase = "none" /\ Phase' = "none"
                                 ELSE Phase # "none" /\ Phase' = "offline"
          BY <3>6 DEF Phase
        <4> QED BY <3>1, <4>1, <4>2 DEF Link!Next, Link!Lost
      <3> QED BY <2>1, <3>4, <3>5, <3>6, EventOfAttempt DEF Ended
    <2>2. CASE ~HandleEvent(t)
      <3>1. UNCHANGED <<status, should, handle>>
        BY <1>3, <2>2, TaskStages DEF TaskNext, PatientInv, ConnInv, record
      <3> QED BY <1>2, <3>1
    <2> QED BY <2>1, <2>2
  <1>4. CASE TimerExpires \/ UNCHANGED vars
    BY <1>2, <1>4 DEF TimerExpires, vars
  <1>5. CASE CheckReconnects
    <2>1. Phase = "offline" /\ Phase' = "dialing" /\ should /\ UNCHANGED should
      BY <1>5 DEF CheckReconnects, Phase
    <2> QED BY <2>1 DEF Link!Next, Link!Redial
  <1>6. CASE UserStep
    <2>1. CASE Connect
      <3>1. Phase \in {"none", "offline"} /\ Phase' = "dialing" /\ should' = AutoReconnect
        BY <2>1 DEF Connect, Phase
      <3> QED BY <3>1 DEF Link!Next, Link!Connect
    <2>2. CASE Disconnect
      <3>1. Phase # "none" /\ UNCHANGED Phase /\ should' = FALSE
        BY <2>2 DEF Disconnect, Phase
      <3> QED BY <3>1 DEF Link!Next, Link!Disconnect
    <2>3. CASE Close
      <3>1. Phase = "offline" /\ Phase' = "none" /\ should' = FALSE
        BY <2>3 DEF Close, Phase
      <3> QED BY <3>1 DEF Link!Next, Link!Forget
    <2> QED BY <1>6, <2>1, <2>2, <2>3 DEF UserStep
  <1> QED BY <1>3, <1>4, <1>5, <1>6 DEF Next

(* IrcConnection implements ServerLink for a patient user.                 *)
THEOREM ImplementsLink ==
  ASSUME ~Impatient
  PROVE  Spec => LinkSpec
  <1>1. Init => Link!Init
    BY DEF Init, Link!Init, Phase
  <1>2. PatientInv /\ [Next]_vars => [Link!Next]_Link!vars
    BY LinkStep
  <1>3. PatientInv /\ [Next]_vars => PatientInv'
    BY PatientStep
  <1> QED BY <1>1, <1>2, <1>3, PatientInit, PTL DEF Spec, LinkSpec, Link!Spec
=============================================================================
