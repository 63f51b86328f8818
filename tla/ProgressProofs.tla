---------------------------- MODULE ProgressProofs ----------------------------
(***************************************************************************)
(* Proofs about parts of MCProgress, for all values of their constants:    *)
(* the queue of automatic queries, the writer of the log, and the          *)
(* registration of a connection.                                           *)
(***************************************************************************)
EXTENDS MCProgress, TLAPS, FiniteSetTheorems, SequenceTheorems, FunctionTheorems

(* Requests under way whose replies stay off the screen thanks to the      *)
(* flags, but for the exempted channels; no other channel is in two of     *)
(* them, so that the reply to one request leaves the flags of the others.  *)
Once(requests, exempt) ==
  \A i, j \in DOMAIN requests : i # j => requests[i].chans \cap requests[j].chans \subseteq exempt
Silent(requests, flags, exempt) ==
  /\ requests \in Seq(Requests) /\ flags \subseteq Channels /\ Once(requests, exempt)
  /\ \A i \in DOMAIN requests : ~requests[i].manual => requests[i].chans \subseteq flags \cup exempt
Exempt == crossed \cup touched
Batching == /\ queue \in Seq(Channels) /\ inFlight \subseteq Channels /\ sentAt \in BOOLEAN
            /\ IsFiniteSet(inFlight) /\ Cardinality(inFlight) <= MaxTargets
            /\ SomethingMovesTheQueue
            /\ handle \in BOOLEAN /\ (~handle => queue = <<>> /\ inFlight = {} /\ sentAt = FALSE)
QueryInv ==
  /\ online \in BOOLEAN /\ userSteps \in 0 .. MaxUserSteps
  /\ Batching
  /\ crossed \subseteq Channels /\ touched \subseteq Channels
  /\ Silent(asked, silentWho, Exempt) /\ Silent(askedBans, silentBans, Exempt)
  /\ ~online => asked = <<>> /\ askedBans = <<>>

-----------------------------------------------------------------------------
(* What the steps do to the requests under way.                            *)

LEMMA NonEmpty ==
  ASSUME NEW T, NEW s \in Seq(T), s # <<>>
  PROVE  Len(s) \in Nat \ {0} /\ 1 \in DOMAIN s /\ Head(s) = s[1]
<1>1. Len(s) \in Nat \ {0}
  BY EmptySeq, Zenon
<1> QED
  BY <1>1

LEMMA AwaitedFacts ==
  ASSUME NEW requests \in Seq(Requests)
  PROVE  \A i \in DOMAIN requests : /\ requests[i].chans \subseteq Awaited(requests)
                                    /\ requests[i].chans \subseteq Channels
<1> TAKE i \in DOMAIN requests
<1>1. requests[i] \in Requests
  OBVIOUS
<1>2. requests[i].chans \in {requests[k].chans : k \in DOMAIN requests}
  OBVIOUS
<1> QED
  BY <1>1, <1>2 DEF Awaited, Requests

(* Flags may go for channels that are exempted instead.                    *)
Moves(w, e, w2, e2) == w2 \subseteq Channels /\ e \subseteq e2 /\ w \subseteq w2 \cup e2
LEMMA SilentStays ==
  ASSUME NEW a, NEW w, NEW e, Silent(a, w, e), NEW w2, NEW e2, Moves(w, e, w2, e2)
  PROVE  Silent(a, w2, e2)
<1>1. Once(a, e2)
  BY DEF Silent, Once, Moves
<1>2. \A i \in DOMAIN a : ~a[i].manual => a[i].chans \subseteq w2 \cup e2
  BY DEF Silent, Moves
<1> QED
  BY <1>1, <1>2 DEF Silent, Moves

(* One more request: no flag is missing, no channel is awaited already.    *)
Fresh(a, w, e, chans, manual) ==
  /\ chans \subseteq Channels /\ manual \in BOOLEAN
  /\ ~manual => chans \subseteq w \cup e
  /\ chans \cap Awaited(a) \subseteq e
LEMMA Asking ==
  ASSUME NEW a, NEW w, NEW e, Silent(a, w, e), NEW chans, NEW manual,
         Fresh(a, w, e, chans, manual)
  PROVE  Silent(Append(a, Ask(chans, manual)), w, e)
<1> DEFINE r == Ask(chans, manual)
           b == Append(a, r)
<1>1. r \in Requests /\ r.chans = chans /\ r.manual = manual
  BY DEF Fresh, Ask, Requests
<1>2. a \in Seq(Requests) /\ Len(a) \in Nat /\ DOMAIN a = 1 .. Len(a)
  BY DEF Silent
<1> HIDE DEF r
<1>3. /\ b \in Seq(Requests) /\ DOMAIN b = DOMAIN a \cup {Len(a) + 1}
      /\ \A i \in DOMAIN a : b[i] = a[i] /\ i # Len(a) + 1
      /\ b[Len(a) + 1] = r
  BY <1>1, <1>2
<1>4. \A i \in DOMAIN a : a[i].chans \cap chans \subseteq e
  BY <1>2, AwaitedFacts DEF Fresh
<1> HIDE DEF b
<1>5. Once(b, e)
  BY <1>1, <1>2, <1>3, <1>4 DEF Once, Silent
<1>6. \A i \in DOMAIN b : ~b[i].manual => b[i].chans \subseteq w \cup e
  BY <1>1, <1>2, <1>3 DEF Silent, Fresh
<1> QED
  BY <1>3, <1>5, <1>6 DEF Silent, b, r

(* One request for each of the first channels of a queue.                  *)
Batch(q, n, batch, a, e) ==
  /\ q \in Seq(Channels) /\ n \in 1 .. Len(q)
  /\ batch \subseteq Channels /\ \A i \in 1 .. n : q[i] \in batch
  /\ batch \cap Awaited(a) \subseteq e
  /\ \A i, j \in 1 .. n : i # j /\ q[i] = q[j] => q[i] \in e
LEMMA AskingEach ==
  ASSUME NEW a, NEW w, NEW e, Silent(a, w, e), NEW q, NEW n, NEW batch, batch \subseteq w,
         Batch(q, n, batch, a, e)
  PROVE  Silent(a \o [i \in 1 .. n |-> Ask({q[i]}, FALSE)], w, e)
<1> DEFINE rs == [i \in 1 .. n |-> Ask({q[i]}, FALSE)]
           b == a \o rs
<1>1. /\ a \in Seq(Requests) /\ Len(a) \in Nat /\ DOMAIN a = 1 .. Len(a)
      /\ n \in Nat /\ \A i \in 1 .. n : q[i] \in Channels /\ q[i] \in batch
  BY DEF Silent, Batch
<1>2. \A i \in 1 .. n : rs[i] \in Requests /\ rs[i].chans = {q[i]}
  BY <1>1 DEF Ask, Requests
<1>3. rs \in Seq(Requests) /\ Len(rs) = n
  <2>1. \A i \in 1 .. n : Ask({q[i]}, FALSE) \in Requests
    BY <1>2
  <2>2. rs \in [1 .. n -> Requests]
    BY <2>1
  <2>3. Len(rs) = n
    BY <1>1
  <2> HIDE DEF rs
  <2>4. rs \in UNION {[1 .. k -> Requests] : k \in Nat}
    BY <1>1, <2>2
  <2> QED
    BY <2>3, <2>4, SeqDef
<1> HIDE DEF rs
<1>4. /\ b \in Seq(Requests) /\ Len(b) = Len(a) + n
      /\ \A i \in 1 .. Len(a) : b[i] = a[i]
      /\ \A i \in 1 .. n : b[Len(a) + i] = rs[i]
  BY <1>1, <1>3
<1> HIDE DEF b
<1>5. \A k \in DOMAIN b : \/ k \in DOMAIN a /\ b[k] = a[k]
                          \/ \E i \in 1 .. n : k = Len(a) + i /\ b[k] = rs[i]
  <2> SUFFICES ASSUME NEW k \in DOMAIN b, k \notin DOMAIN a
               PROVE  \E i \in 1 .. n : k = Len(a) + i /\ b[k] = rs[i]
    BY <1>1, <1>4
  <2>1. k \in Nat /\ k > Len(a) /\ k <= Len(a) + n /\ Len(a) \in Nat
    BY <1>1, <1>4
  <2>2. k - Len(a) \in 1 .. n /\ k = Len(a) + (k - Len(a))
    BY <1>1, <2>1
  <2> QED
    BY <1>4, <2>2
<1>6. \A i \in DOMAIN a : a[i].chans \cap batch \subseteq e
  BY <1>1, AwaitedFacts DEF Batch
<1>7. Once(b, e)
  <2> SUFFICES ASSUME NEW k \in DOMAIN b, NEW l \in DOMAIN b, k # l
               PROVE  b[k].chans \cap b[l].chans \subseteq e
    BY DEF Once
  <2>1. CASE k \in DOMAIN a /\ l \in DOMAIN a /\ b[k] = a[k] /\ b[l] = a[l]
    BY <2>1 DEF Silent, Once
  <2>2. CASE k \in DOMAIN a /\ b[k] = a[k] /\ \E i \in 1 .. n : l = Len(a) + i /\ b[l] = rs[i]
    <3> PICK i \in 1 .. n : l = Len(a) + i /\ b[l] = rs[i]
      BY <2>2
    <3>1. q[i] \in batch /\ b[l].chans = {q[i]}
      BY <1>1, <1>2
    <3> QED
      BY <1>6, <2>2, <3>1
  <2>3. CASE l \in DOMAIN a /\ b[l] = a[l] /\ \E i \in 1 .. n : k = Len(a) + i /\ b[k] = rs[i]
    <3> PICK i \in 1 .. n : k = Len(a) + i /\ b[k] = rs[i]
      BY <2>3
    <3>1. q[i] \in batch /\ b[k].chans = {q[i]}
      BY <1>1, <1>2
    <3> QED
      BY <1>6, <2>3, <3>1
  <2>4. ASSUME NEW i \in 1 .. n, k = Len(a) + i, b[k] = rs[i],
               NEW j \in 1 .. n, l = Len(a) + j, b[l] = rs[j]
        PROVE  b[k].chans \cap b[l].chans \subseteq e
    <3>1. i # j
      BY <2>4
    <3>2. b[k].chans \cap b[l].chans = {q[i]} \cap {q[j]}
      BY <1>2, <2>4
    <3>3. q[i] = q[j] => q[i] \in e
      BY <3>1 DEF Batch
    <3> QED
      BY <3>2, <3>3
  <2> QED
    BY <1>5, <2>1, <2>2, <2>3, <2>4
<1>8. \A k \in DOMAIN b : ~b[k].manual => b[k].chans \subseteq w \cup e
  <2> SUFFICES ASSUME NEW k \in DOMAIN b, ~b[k].manual
               PROVE  b[k].chans \subseteq w \cup e
    OBVIOUS
  <2>1. CASE k \in DOMAIN a /\ b[k] = a[k]
    BY <2>1 DEF Silent
  <2>2. CASE \E i \in 1 .. n : k = Len(a) + i /\ b[k] = rs[i]
    <3> PICK i \in 1 .. n : k = Len(a) + i /\ b[k] = rs[i]
      BY <2>2
    <3>1. q[i] \in batch /\ b[k].chans = {q[i]}
      BY <1>1, <1>2
    <3> QED
      BY <3>1
  <2> QED
    BY <1>5, <2>1, <2>2
<1> QED
  BY <1>1, <1>4, <1>7, <1>8 DEF Silent, b, rs

LEMMA LessFacts ==
  ASSUME NEW a \in Seq(Requests), a # <<>>, NEW targets
  PROVE  /\ Less(a, targets) \in Seq(Requests)
         /\ \E d \in {0, 1} : \A i \in DOMAIN Less(a, targets) :
              /\ i + d \in DOMAIN a
              /\ Less(a, targets)[i].manual = a[i + d].manual
              /\ \/ Less(a, targets)[i].chans = a[i + d].chans /\ i + d # 1
                 \/ Less(a, targets)[i].chans = a[i + d].chans \ targets
<1> DEFINE rest == Head(a).chans \ targets
           h == [Head(a) EXCEPT !.chans = rest]
<1>0. Len(a) \in Nat \ {0} /\ Head(a) = a[1]
  BY NonEmpty
<1>1. Head(a) \in Requests /\ Tail(a) \in Seq(Requests) /\ Head(a) = a[1] /\ Len(a) \in Nat \ {0}
  BY <1>0
<1>2. h \in Requests /\ h.manual = a[1].manual /\ h.chans = a[1].chans \ targets
  BY <1>1 DEF Requests
<1>3. /\ Len(Tail(a)) = Len(a) - 1
      /\ \A i \in 1 .. Len(a) - 1 : Tail(a)[i] = a[i + 1]
  BY <1>1
<1>4. CASE rest = {}
  <2>1. Less(a, targets) = Tail(a)
    BY <1>4 DEF Less
  <2>2. \A i \in DOMAIN Tail(a) : i + 1 \in DOMAIN a /\ Tail(a)[i] = a[i + 1] /\ i + 1 # 1
    BY <1>1, <1>3
  <2> QED
    BY <1>1, <2>1, <2>2
<1>5. CASE rest # {}
  <2>1. Less(a, targets) = <<h>> \o Tail(a)
    BY <1>5 DEF Less
  <2> DEFINE b == <<h>> \o Tail(a)
  <2> HIDE DEF h
  <2>2. <<h>> \in Seq(Requests) /\ Len(<<h>>) = 1 /\ <<h>>[1] = h
    BY <1>2
  <2>3. b \in Seq(Requests) /\ Len(b) = Len(a) /\ b[1] = h /\ \A i \in 2 .. Len(a) : b[i] = a[i]
    BY <1>1, <1>3, <2>2
  <2> HIDE DEF b
  <2>4. \A i \in DOMAIN b : /\ i + 0 \in DOMAIN a
                            /\ b[i].manual = a[i + 0].manual
                            /\ \/ b[i].chans = a[i + 0].chans /\ i + 0 # 1
                               \/ b[i].chans = a[i + 0].chans \ targets
    BY <1>1, <1>2, <2>3
  <2> QED
    BY <2>1, <2>3, <2>4 DEF b
<1> QED
  BY <1>4, <1>5

(* An answer to the first request takes flags away of its own channels,    *)
(* which the others do not have.                                           *)
Answered(a, w, targets, w2) ==
  a # <<>> /\ targets \subseteq Head(a).chans /\ w2 \in {w, w \ targets}
LEMMA Answering ==
  ASSUME NEW a, NEW w, NEW e, Silent(a, w, e), NEW targets, NEW w2, Answered(a, w, targets, w2)
  PROVE  Silent(Less(a, targets), w2, e)
<1> DEFINE b == Less(a, targets)
<1>1. a \in Seq(Requests) /\ w2 \subseteq Channels /\ Head(a) = a[1] /\ 1 \in DOMAIN a
  BY NonEmpty DEF Silent, Answered
<1>2. PICK d \in {0, 1} : \A i \in DOMAIN b :
              /\ i + d \in DOMAIN a
              /\ b[i].manual = a[i + d].manual
              /\ \/ b[i].chans = a[i + d].chans /\ i + d # 1
                 \/ b[i].chans = a[i + d].chans \ targets
  BY <1>1, LessFacts DEF Answered
<1>3. b \in Seq(Requests)
  BY <1>1, LessFacts DEF Answered
<1> HIDE DEF b
<1>4. \A i, j \in DOMAIN b : i # j => i + d # j + d
  BY <1>3
<1>5. Once(b, e)
  BY <1>2, <1>4 DEF Silent, Once
<1>6. ASSUME NEW i \in DOMAIN b, ~b[i].manual PROVE b[i].chans \subseteq w2 \cup e
  <2>1. a[i + d].chans \subseteq w \cup e /\ i + d \in DOMAIN a
    BY <1>2, <1>6 DEF Silent
  <2>2. CASE b[i].chans = a[i + d].chans \ targets
    BY <2>1, <2>2 DEF Answered
  <2>3. CASE b[i].chans = a[i + d].chans /\ i + d # 1
    <3>1. a[i + d].chans \cap a[1].chans \subseteq e
      BY <1>1, <2>1, <2>3 DEF Silent, Once
    <3> QED
      BY <1>1, <2>1, <2>3, <3>1 DEF Answered
  <2> QED
    BY <1>2, <2>2, <2>3
<1> QED
  BY <1>1, <1>3, <1>5, <1>6 DEF Silent, b

-----------------------------------------------------------------------------
(* A batch is sent.                                                        *)
LEMMA Sending ==
  ASSUME NEW q \in Seq(Channels), NEW w, NEW a, NEW timer, SendBatch(q, w, a, timer),
         UNCHANGED <<handle, touched>>, handle \in BOOLEAN, ~handle => Len(q) = 1 /\ timer = FALSE,
         crossed \subseteq Channels, touched \subseteq Channels,
         Silent(a, w, Exempt), Silent(askedBans, silentBans, Exempt)
  PROVE  /\ Batching' /\ crossed' \subseteq Channels
         /\ Silent(asked', silentWho', Exempt') /\ Silent(askedBans', silentBans', Exempt')
<1>0. MaxTargets \in Nat
  BY QueryAssumption
<1>1. CASE /\ q = <<>>
           /\ queue' = q /\ inFlight' = {} /\ sentAt' = FALSE
           /\ silentWho' = w /\ asked' = a
           /\ UNCHANGED <<silentBans, askedBans, crossed>>
  <2>1. Exempt' = Exempt
    BY <1>1 DEF Exempt
  <2>2. SomethingMovesTheQueue' /\ handle' \in BOOLEAN
    BY <1>1 DEF SomethingMovesTheQueue
  <2>3. Batching'
    <3>1. IsFiniteSet({}) /\ Cardinality({}) = 0
      BY FS_EmptySet
    <3>2. IsFiniteSet(inFlight') /\ Cardinality(inFlight') <= MaxTargets
      BY <1>0, <1>1, <3>1
    <3> QED
      BY <1>1, <2>2, <3>2 DEF Batching
  <2> QED
    BY <1>1, <2>1, <2>3
<1>2. ASSUME NEW n \in BatchSizes(q), handle,
             queue' = SubSeq(q, n + 1, Len(q)),
             inFlight' = ToSet(SubSeq(q, 1, n)), sentAt' = TRUE,
             silentWho' = w \cup ToSet(SubSeq(q, 1, n)),
             silentBans' = silentBans \cup ToSet(SubSeq(q, 1, n)),
             asked' = Append(a, Ask(ToSet(SubSeq(q, 1, n)), FALSE)),
             askedBans' = askedBans \o [i \in 1 .. n |-> Ask({q[i]}, FALSE)],
             crossed' = crossed \cup (ToSet(SubSeq(q, 1, n)) \cap (Awaited(a) \cup Awaited(askedBans)))
                          \cup {c \in ToSet(SubSeq(q, 1, n)) : Cardinality({i \in 1 .. n : q[i] = c}) > 1}
      PROVE  /\ Batching' /\ crossed' \subseteq Channels
             /\ Silent(asked', silentWho', Exempt') /\ Silent(askedBans', silentBans', Exempt')
  <2> DEFINE batch == ToSet(SubSeq(q, 1, n))
  <2>1. n \in 1 .. Len(q) /\ n <= MaxTargets /\ Len(q) \in Nat
    BY <1>0 DEF BatchSizes
  <2>2. batch = {q[i] : i \in 1 .. n} /\ batch \subseteq Channels /\ q[1] \in batch
    <3>1. Len(SubSeq(q, 1, n)) = n /\ \A i \in 1 .. n : SubSeq(q, 1, n)[i] = q[i]
      BY <2>1
    <3>2. DOMAIN SubSeq(q, 1, n) = 1 .. n
      BY <2>1, <3>1
    <3>3. \A i \in 1 .. n : q[i] \in Channels
      BY <2>1
    <3> DEFINE s == SubSeq(q, 1, n)
    <3>4. batch = {s[i] : i \in 1 .. n}
      BY <3>2 DEF ToSet
    <3>5. batch = {q[i] : i \in 1 .. n}
      BY <3>1, <3>4
    <3> QED
      BY <2>1, <3>3, <3>5
  <2>3. IsFiniteSet(batch) /\ Cardinality(batch) <= MaxTargets
    <3> DEFINE f == [i \in 1 .. n |-> q[i]]
    <3>1. f \in Surjection(1 .. n, batch)
      BY <2>2 DEF Surjection
    <3>2. IsFiniteSet(1 .. n) /\ Cardinality(1 .. n) = n
      BY <2>1, FS_Interval
    <3>3. IsFiniteSet(batch) /\ Cardinality(batch) <= n
      BY <3>1, <3>2, FS_Surjection
    <3> QED
      BY <1>0, <2>1, <3>3, FS_CardinalityType
  <2>4. queue' \in Seq(Channels)
    BY <1>2, <2>1
  <2>5. \A i, j \in 1 .. n : i # j /\ q[i] = q[j] => q[i] \in crossed'
    <3> SUFFICES ASSUME NEW i \in 1 .. n, NEW j \in 1 .. n, i # j, q[i] = q[j]
                 PROVE  Cardinality({k \in 1 .. n : q[k] = q[i]}) > 1
      BY <1>2, <2>2
    <3> DEFINE same == {k \in 1 .. n : q[k] = q[i]}
    <3>1. IsFiniteSet(1 .. n)
      BY <2>1, FS_Interval
    <3>2. IsFiniteSet(same)
      BY <3>1, FS_Subset
    <3>3. IsFiniteSet(same) /\ {i, j} \subseteq same
      BY <3>2
    <3>4. Cardinality({i, j}) = 2
      <4>1. Cardinality({i}) = 1 /\ IsFiniteSet({i})
        BY FS_Singleton
      <4>2. Cardinality({i} \cup {j}) = IF j \in {i} THEN Cardinality({i}) ELSE Cardinality({i}) + 1
        BY <4>1, FS_AddElement
      <4>3. {i} \cup {j} = {i, j}
        OBVIOUS
      <4>4. j \notin {i}
        OBVIOUS
      <4>5. Cardinality({i} \cup {j}) = 1 + 1
        BY <4>1, <4>2, <4>4, Zenon
      <4>6. Cardinality({i, j}) = 1 + 1
        BY <4>3, <4>5, Zenon
      <4> QED
        BY <4>6
    <3>5. Cardinality({i, j}) <= Cardinality(same) /\ Cardinality(same) \in Nat
      BY <3>3, FS_Subset, FS_CardinalityType
    <3> QED
      BY <3>4, <3>5
  <2> HIDE DEF batch
  <2>6. /\ inFlight' = batch /\ silentWho' = w \cup batch /\ silentBans' = silentBans \cup batch
        /\ asked' = Append(a, Ask(batch, FALSE))
        /\ Exempt \subseteq Exempt' /\ crossed' \subseteq Exempt' /\ crossed' \subseteq Channels
        /\ batch \cap Awaited(a) \subseteq crossed' /\ batch \cap Awaited(askedBans) \subseteq crossed'
    BY <1>2, <2>2 DEF batch, Exempt
  <2>7. SomethingMovesTheQueue'
    BY <1>2, <2>2, <2>6 DEF SomethingMovesTheQueue
  <2>8. Batching'
    BY <1>2, <2>2, <2>3, <2>4, <2>6, <2>7 DEF Batching
  <2>9. Silent(asked', silentWho', Exempt')
    <3>1. Moves(w, Exempt, silentWho', Exempt')
      BY <2>2, <2>6 DEF Silent, Moves
    <3>2. Silent(a, silentWho', Exempt')
      BY <3>1, SilentStays
    <3>3. Fresh(a, silentWho', Exempt', batch, FALSE)
      BY <2>2, <2>6 DEF Fresh
    <3> QED
      BY <2>6, <3>2, <3>3, Asking
  <2>10. Silent(askedBans', silentBans', Exempt')
    <3>1. Moves(silentBans, Exempt, silentBans', Exempt')
      BY <2>2, <2>6 DEF Silent, Moves
    <3>2. Silent(askedBans, silentBans', Exempt')
      BY <3>1, SilentStays
    <3>3. \A i \in 1 .. n : q[i] \in batch
      BY <2>2
    <3>4. \A i, j \in 1 .. n : i # j /\ q[i] = q[j] => q[i] \in Exempt'
      BY <2>5, <2>6
    <3>5. Batch(q, n, batch, askedBans, Exempt')
      BY <2>1, <2>2, <2>6, <3>3, <3>4 DEF Batch
    <3> QED
      BY <1>2, <2>6, <3>2, <3>5, AskingEach
  <2> QED
    BY <2>6, <2>8, <2>9, <2>10
<1>3. ASSUME NEW n \in BatchSizes(q), ~handle,
             queue' = SubSeq(q, n + 1, Len(q)), inFlight' = {}, sentAt' = timer,
             silentWho' = w, asked' = a, UNCHANGED <<silentBans, askedBans, crossed>>
      PROVE  /\ Batching' /\ crossed' \subseteq Channels
             /\ Silent(asked', silentWho', Exempt') /\ Silent(askedBans', silentBans', Exempt')
  <2>1. Exempt' = Exempt
    BY <1>3 DEF Exempt
  <2>7. n \in Nat /\ n >= 1 /\ n <= Len(q)
    BY <1>0 DEF BatchSizes
  <2>8. Len(q) = 1
    BY <1>3
  <2>2. n = 1 /\ Len(q) = 1
    BY <2>7, <2>8
  <2>3. queue' = <<>> /\ queue' \in Seq(Channels)
    BY <1>3, <2>2
  <2>4. IsFiniteSet({}) /\ Cardinality({}) = 0
    BY FS_EmptySet
  <2>5. IsFiniteSet(inFlight') /\ Cardinality(inFlight') <= MaxTargets
    BY <1>0, <1>3, <2>4
  <2>6. Batching'
    BY <1>3, <2>3, <2>5 DEF Batching, SomethingMovesTheQueue
  <2> QED
    BY <1>3, <2>1, <2>6
<1> QED
  BY <1>1, <1>2, <1>3 DEF SendBatch

-----------------------------------------------------------------------------
(* Every step keeps the invariant.                                         *)
LEMMA InitHolds == Init => QueryInv
<1> SUFFICES ASSUME Init PROVE QueryInv
  OBVIOUS
<1>0. MaxTargets \in Nat /\ MaxUserSteps \in Nat
  BY QueryAssumption
<1>1. Silent(<<>>, {}, Exempt)
  BY DEF Silent, Once
<1>2. IsFiniteSet({}) /\ Cardinality({}) = 0
  BY FS_EmptySet
<1>3. IsFiniteSet(inFlight) /\ Cardinality(inFlight) <= MaxTargets /\ queue = <<>> /\ queue \in Seq(Channels)
  BY <1>0, <1>2, EmptySeq DEF Init
<1>4. Batching
  BY <1>3 DEF Init, Batching, SomethingMovesTheQueue
<1>5. /\ asked = <<>> /\ askedBans = <<>> /\ silentWho = {} /\ silentBans = {}
      /\ online = FALSE /\ userSteps \in 0 .. MaxUserSteps
      /\ crossed \subseteq Channels /\ touched \subseteq Channels
  BY <1>0 DEF Init
<1> QED
  BY <1>1, <1>4, <1>5 DEF QueryInv

(* What the user and the server do within a session.                       *)
Kept == /\ Batching' /\ crossed' \subseteq Channels /\ touched' \subseteq Channels
        /\ Silent(asked', silentWho', Exempt') /\ Silent(askedBans', silentBans', Exempt')

LEMMA EndOfNamesKeeps ==
  ASSUME QueryInv, NEW c \in Channels, EndOfNames(c), UNCHANGED <<handle, touched>> PROVE Kept
<1>1. Append(queue, c) \in Seq(Channels)
  BY DEF QueryInv, Batching
<1>2. CASE inFlight = {}
  <2>1. ~handle => Len(Append(queue, c)) = 1 /\ sentAt = FALSE
    BY DEF QueryInv, Batching
  <2>2. SendBatch(Append(queue, c), silentWho, asked, sentAt) /\ handle \in BOOLEAN
    BY <1>2 DEF EndOfNames, QueryInv, Batching
  <2> QED
    BY <1>1, <2>1, <2>2, Sending DEF QueryInv, Kept
<1>3. CASE inFlight # {}
  <2>1. Exempt' = Exempt
    BY <1>3 DEF EndOfNames, Exempt
  <2>2. Batching'
    BY <1>1, <1>3 DEF EndOfNames, QueryInv, Batching, SomethingMovesTheQueue
  <2> QED
    BY <1>3, <2>1, <2>2 DEF EndOfNames, QueryInv, Kept
<1> QED
  BY <1>2, <1>3

LEMMA EndOfWhoKeeps ==
  ASSUME QueryInv, EndOfWho, UNCHANGED <<handle, touched>> PROVE Kept
<1> PICK targets \in SUBSET Head(asked).chans \ {{}}, hidden \in BOOLEAN :
       LET later == Less(asked, targets)
           flags == IF hidden THEN silentWho ELSE silentWho \ targets IN
       IF inFlight # {} /\ inFlight \subseteq targets
       THEN SendBatch(queue, flags, later, sentAt)
       ELSE /\ inFlight' = inFlight \ targets
            /\ silentWho' = flags /\ asked' = later
            /\ UNCHANGED <<queue, sentAt, silentBans, askedBans, crossed>>
  BY DEF EndOfWho
<1> DEFINE later == Less(asked, targets)
           flags == IF hidden THEN silentWho ELSE silentWho \ targets
<1>1. Silent(later, flags, Exempt)
  <2>1. flags \in {silentWho, silentWho \ targets} /\ targets \subseteq Head(asked).chans
    OBVIOUS
  <2>2. asked # <<>> /\ Silent(asked, silentWho, Exempt)
    BY DEF EndOfWho, QueryInv
  <2> HIDE DEF flags
  <2>3. Answered(asked, silentWho, targets, flags)
    BY <2>1, <2>2 DEF Answered
  <2> QED
    BY <2>2, <2>3, Answering
<1> HIDE DEF later, flags
<1>2. CASE inFlight # {} /\ inFlight \subseteq targets
  <2>1. SendBatch(queue, flags, later, sentAt) /\ (~handle => inFlight = {})
    BY <1>2 DEF later, flags, QueryInv, Batching
  <2> QED
    BY <1>1, <1>2, <2>1, Sending DEF QueryInv, Batching, Kept
<1>3. CASE ~(inFlight # {} /\ inFlight \subseteq targets)
  <2>1. /\ inFlight' = inFlight \ targets /\ silentWho' = flags /\ asked' = later
        /\ UNCHANGED <<queue, sentAt, silentBans, askedBans, crossed>>
    BY <1>3 DEF later, flags
  <2>2. Exempt' = Exempt
    BY <2>1 DEF Exempt
  <2>3. IsFiniteSet(inFlight') /\ Cardinality(inFlight') <= MaxTargets
    <3>1. IsFiniteSet(inFlight) /\ Cardinality(inFlight) <= MaxTargets /\ inFlight' \in SUBSET inFlight
      BY <2>1 DEF QueryInv, Batching
    <3>2. /\ IsFiniteSet(inFlight') /\ Cardinality(inFlight') <= Cardinality(inFlight)
          /\ Cardinality(inFlight') \in Nat /\ Cardinality(inFlight) \in Nat
      BY <3>1, FS_Subset, FS_CardinalityType
    <3> QED
      BY <3>1, <3>2, QueryAssumption
  <2>4. Batching'
    BY <1>3, <2>1, <2>3 DEF QueryInv, Batching, SomethingMovesTheQueue
  <2> QED
    BY <1>1, <2>1, <2>2, <2>4 DEF QueryInv, Kept
<1> QED
  BY <1>2, <1>3

LEMMA EndOfBanListKeeps ==
  ASSUME QueryInv, EndOfBanList, UNCHANGED <<handle, touched>> PROVE Kept
<1> DEFINE targets == Head(askedBans).chans
<1>1. Less(askedBans, targets) = Tail(askedBans)
  BY DEF Less
<1>2. silentBans' \in {silentBans, silentBans \ targets} /\ askedBans # <<>>
  BY DEF EndOfBanList
<1>3. Silent(askedBans, silentBans, Exempt)
  BY DEF QueryInv
<1> HIDE DEF targets
<1>4. Answered(askedBans, silentBans, targets, silentBans')
  BY <1>2 DEF Answered, targets
<1>4a. Silent(Less(askedBans, targets), silentBans', Exempt)
  BY <1>3, <1>4, Answering
<1>5. Exempt' = Exempt
  BY DEF EndOfBanList, Exempt
<1>6. Batching'
  BY DEF EndOfBanList, batching, QueryInv, Batching, SomethingMovesTheQueue
<1> QED
  BY <1>1, <1>4a, <1>5, <1>6 DEF EndOfBanList, QueryInv, Kept

LEMMA SkipsKeeps ==
  ASSUME QueryInv, Skips, UNCHANGED <<handle, touched>> PROVE Kept
<1> PICK targets \in SUBSET Head(asked).chans \ {{}} : asked' = Less(asked, targets)
  BY DEF Skips
<1>1. Silent(asked, silentWho, Exempt) /\ Answered(asked, silentWho, targets, silentWho)
  BY DEF Skips, QueryInv, Answered
<1>2. Silent(asked', silentWho, Exempt)
  BY <1>1, Answering
<1>3. Exempt' = Exempt
  BY DEF Skips, Exempt
<1>4. Batching'
  BY DEF Skips, batching, QueryInv, Batching, SomethingMovesTheQueue
<1> QED
  BY <1>2, <1>3, <1>4 DEF Skips, QueryInv, Kept

LEMMA StaleKeeps ==
  ASSUME QueryInv, Stale, UNCHANGED <<handle, touched>> PROVE Kept
BY Sending DEF Stale, QueryInv, Batching, Kept

LEMMA LeaveKeeps ==
  ASSUME QueryInv, NEW c \in Channels, Leave(c), UNCHANGED handle PROVE Kept
<1>1. Exempt' = Exempt \cup {c} /\ touched' \subseteq Channels
  BY DEF Leave, Exempt, QueryInv
<1>2. Moves(silentWho, Exempt, silentWho', Exempt') /\ Moves(silentBans, Exempt, silentBans', Exempt')
  BY <1>1 DEF Leave, Moves, QueryInv, Silent
<1>3. Silent(asked, silentWho', Exempt') /\ Silent(askedBans, silentBans', Exempt')
  BY <1>2, SilentStays DEF QueryInv
<1>4. Batching'
  BY DEF Leave, batching, QueryInv, Batching, SomethingMovesTheQueue
<1> QED
  BY <1>1, <1>3, <1>4 DEF Leave, QueryInv, Kept

(* A request by hand touches its channel.                                  *)
LEMMA ManualWhoKeeps ==
  ASSUME QueryInv, NEW c \in Channels, ManualWho(c), UNCHANGED handle PROVE Kept
<1>1. Exempt' = Exempt \cup {c} /\ touched' \subseteq Channels
  BY DEF ManualWho, Exempt, QueryInv
<1>2. Moves(silentWho, Exempt, silentWho', Exempt') /\ Moves(silentBans, Exempt, silentBans', Exempt')
  BY <1>1 DEF ManualWho, Moves, QueryInv, Silent
<1>3. Silent(asked, silentWho', Exempt') /\ Silent(askedBans, silentBans', Exempt')
  BY <1>2, SilentStays DEF QueryInv
<1>4. Batching'
  BY DEF ManualWho, batching, QueryInv, Batching, SomethingMovesTheQueue
<1>5. Fresh(asked, silentWho', Exempt', {c}, TRUE)
  BY <1>1 DEF Fresh
<1>6. Silent(asked', silentWho', Exempt')
  BY <1>3, <1>5, Asking DEF ManualWho
<1> QED
  BY <1>1, <1>3, <1>4, <1>6 DEF ManualWho, QueryInv, Kept

LEMMA ManualBanListKeeps ==
  ASSUME QueryInv, NEW c \in Channels, ManualBanList(c), UNCHANGED handle PROVE Kept
<1>1. Exempt' = Exempt \cup {c} /\ touched' \subseteq Channels
  BY DEF ManualBanList, Exempt, QueryInv
<1>2. Moves(silentWho, Exempt, silentWho', Exempt') /\ Moves(silentBans, Exempt, silentBans', Exempt')
  BY <1>1 DEF ManualBanList, Moves, QueryInv, Silent
<1>3. Silent(asked, silentWho', Exempt') /\ Silent(askedBans, silentBans', Exempt')
  BY <1>2, SilentStays DEF QueryInv
<1>4. Batching'
  BY DEF ManualBanList, batching, QueryInv, Batching, SomethingMovesTheQueue
<1>5. Fresh(askedBans, silentBans', Exempt', {c}, TRUE)
  BY <1>1 DEF Fresh
<1>6. Silent(askedBans', silentBans', Exempt')
  BY <1>3, <1>5, Asking DEF ManualBanList
<1> QED
  BY <1>1, <1>3, <1>4, <1>6 DEF ManualBanList, QueryInv, Kept

LEMMA NextKeeps == QueryInv /\ [Next]_vars => QueryInv'
<1> SUFFICES ASSUME QueryInv, [Next]_vars PROVE QueryInv'
  OBVIOUS
<1>0. MaxUserSteps \in Nat
  BY QueryAssumption
<1>1. CASE UserStep
  <2>1. online' = TRUE /\ UNCHANGED handle
    BY <1>1 DEF UserStep, QueryInv
  <2>2. Kept
    BY <1>1, <2>1, EndOfNamesKeeps, LeaveKeeps, ManualWhoKeeps, ManualBanListKeeps DEF UserStep
  <2>3. userSteps' \in 0 .. MaxUserSteps
    BY <1>0, <1>1 DEF UserStep, QueryInv
  <2> QED
    BY <2>1, <2>2, <2>3 DEF QueryInv, Kept
<1>2. CASE Connects
  <2>1. Exempt' = Exempt /\ asked' = <<>> /\ askedBans' = <<>>
    BY <1>2 DEF Connects, Exempt, QueryInv
  <2>2. Silent(asked', silentWho', Exempt') /\ Silent(askedBans', silentBans', Exempt')
    BY <1>2, <2>1 DEF Connects, Silent, Once
  <2>3. Batching'
    BY <1>2 DEF Connects, batching, QueryInv, Batching, SomethingMovesTheQueue
  <2> QED
    BY <1>2, <2>1, <2>2, <2>3 DEF Connects, QueryInv
<1>3. CASE Disconnects
  <2>1. silentWho' \subseteq Channels /\ silentBans' \subseteq Channels
    BY <1>3 DEF Disconnects, QueryInv, Silent
  <2>2. Silent(asked', silentWho', Exempt') /\ Silent(askedBans', silentBans', Exempt')
    BY <1>3, <2>1 DEF Disconnects, Silent, Once
  <2>3. IsFiniteSet({}) /\ Cardinality({}) = 0 /\ MaxTargets \in Nat
    BY FS_EmptySet, QueryAssumption
  <2>4. /\ IsFiniteSet(inFlight') /\ Cardinality(inFlight') <= MaxTargets
        /\ queue' = <<>> /\ queue' \in Seq(Channels) /\ inFlight' = {} /\ sentAt' = FALSE
    BY <1>3, <2>3, EmptySeq DEF Disconnects, BatchingEnds
  <2>5. Batching'
    BY <1>3, <2>4 DEF Batching, SomethingMovesTheQueue, Disconnects
  <2> QED
    BY <1>3, <2>2, <2>5 DEF Disconnects, QueryInv
<1>4. CASE ServerStep \/ Tick
  <2>1. UNCHANGED <<online, handle, touched, userSteps>> /\ online
    BY <1>4 DEF ServerStep, Tick, InSession
  <2>2. Kept
    BY <1>4, <2>1, EndOfWhoKeeps, EndOfBanListKeeps, SkipsKeeps, StaleKeeps DEF ServerStep, Tick
  <2> QED
    BY <2>1, <2>2 DEF QueryInv, Kept
<1>5. CASE UNCHANGED vars
  BY <1>5 DEF vars, batching, QueryInv, Batching, SomethingMovesTheQueue, Exempt
<1>6. CASE LosesHandle
  <2>1. Exempt' = Exempt
    BY <1>6 DEF LosesHandle, Exempt
  <2>2. IsFiniteSet({}) /\ Cardinality({}) = 0 /\ MaxTargets \in Nat
    BY FS_EmptySet, QueryAssumption
  <2>3. /\ IsFiniteSet(inFlight') /\ Cardinality(inFlight') <= MaxTargets
        /\ queue' = <<>> /\ queue' \in Seq(Channels) /\ inFlight' = {} /\ sentAt' = FALSE
    BY <1>6, <2>2, EmptySeq DEF LosesHandle, BatchingEnds
  <2>4. Batching'
    BY <1>6, <2>3 DEF Batching, SomethingMovesTheQueue, LosesHandle
  <2> QED
    BY <1>6, <2>1, <2>4 DEF LosesHandle, QueryInv
<1> QED
  BY <1>1, <1>2, <1>3, <1>4, <1>5, <1>6 DEF Next

LEMMA QueryInvSuffices ==
  ASSUME QueryInv PROVE TypeOK /\ SomethingMovesTheQueue /\ LateRepliesAreSilent
<1>1. TypeOK
  BY DEF QueryInv, Batching, Silent, TypeOK
<1>2. Flagged(asked, silentWho) /\ Flagged(askedBans, silentBans)
  BY DEF QueryInv, Silent, Flagged, Exempt
<1> QED
  BY <1>1, <1>2 DEF QueryInv, Batching, LateRepliesAreSilent

-----------------------------------------------------------------------------
(* The queries among the parts of MCProgress.                              *)
LEMMA QueriesInvariance == MCSpec => [](part = "query" => QueryInv)
<1> DEFINE I1 == part = "query" => QueryInv
<1>1. MCInit => I1
  BY InitHolds DEF MCInit
<1>2. I1 /\ [MCNext]_mcVars => I1'
  <2> SUFFICES ASSUME I1, [MCNext]_mcVars, part' = "query" PROVE QueryInv'
    OBVIOUS
  <2>1. part = "query" /\ [Next]_vars
    BY DEF MCNext, mcVars, queryVars, vars, batching, LogOnly, CommandsOnly, ShellOnly,
           ImagesOnly, RegistrationOnly
  <2> QED
    BY <2>1, NextKeeps
<1> QED
  BY <1>1, <1>2, PTL DEF MCSpec

(* The automatic WHO and MODE queries (app/who.rs) have a batch in flight  *)
(* whose timer runs whenever any wait, and late replies stay off the       *)
(* screen: for any channels, any size of a batch, any number of joins,     *)
(* departures and commands.                                                *)
THEOREM QueriesKeepMoving == MCSpec => []QueriesMove
<1>1. (part = "query" => QueryInv) => QueriesMove
  BY QueryInvSuffices DEF QueriesMove, QueueMoves, LateRepliesStaySilent
<1> QED
  BY <1>1, QueriesInvariance, PTL

-----------------------------------------------------------------------------
(* Registration: what may be under way between a server and the client in  *)
(* each phase, and what the stream says last of a capability.              *)
Logins == {"AUTHENTICATE +", "server-first", "903", "904"}
Kinds == {"LS", "LS*", "421", "001", "NOTICE", "ACK", "NAK", "DEL", "NEW"} \cup Logins
Messages == [kind : Kinds, caps : SUBSET DESIRED_CAPS]
Servers == [ircv3 : {"yes", "no", "unknown"}, offers : SUBSET DESIRED_CAPS,
            on : SUBSET DESIRED_CAPS, mechs : SUBSET R!Mechanisms, account : BOOLEAN,
            auth : {"none", "asked", "ready", "first", "challenged", "credentials", "done"},
            ended : BOOLEAN, welcomed : BOOLEAN, answered : BOOLEAN, silent : BOOLEAN]

Has(q, kind) == \E i \in DOMAIN q : q[i].kind = kind
Only(q, kinds) == \A kind \in Kinds : Has(q, kind) => kind \in kinds
AtMostOne(q, kind) == \A i, j \in DOMAIN q : q[i].kind = kind /\ q[j].kind = kind => i = j
NoticesIn(q) == Cardinality({i \in DOMAIN q : q[i].kind = "NOTICE"})

(* What the stream says last of a capability is what the server has; if it *)
(* says nothing of it, base has it right already, or it is excused.        *)
Tells(m, c) == m.kind \in {"ACK", "DEL"} /\ c \in m.caps
LastOf(q, c, i) == Tells(q[i], c) /\ \A j \in DOMAIN q : Tells(q[j], c) => j <= i
Settled(q, base, on, c, excused) ==
  /\ (\A i \in DOMAIN q : ~Tells(q[i], c)) => excused \/ (c \in base <=> c \in on)
  /\ \A i \in DOMAIN q : LastOf(q, c, i) => (q[i].kind = "ACK" <=> c \in on)
Agreed(q, base, on, excused) ==
  \A c \in DESIRED_CAPS \ {"sasl"} : Settled(q, base, on, c, c \in excused)

(* Until its answer to CAP LS a server that has CAP sends only notices.    *)
Idles == {"LS", "LS*", "NOTICE"}
LsFirst(q) ==
  \A i \in DOMAIN q : q[i].kind \notin Idles => \E j \in DOMAIN q : j < i /\ q[j].kind = "LS"

RegTyped ==
  /\ pc \in {"ls", "ack", "plus", "sasl", "reader", "up"} /\ mech \in R!Mechanisms \cup {"none"}
  /\ registration_asked \subseteq DESIRED_CAPS /\ enabled \subseteq DESIRED_CAPS
  /\ caps \subseteq DESIRED_CAPS /\ missed \subseteq DESIRED_CAPS
  /\ early \in Seq(Messages) /\ inbox \in Seq(Messages) /\ server \in Servers
  /\ creds \in BOOLEAN /\ cert \in BOOLEAN /\ (mech # "none" => creds \/ cert)
  /\ notices \in 0..MaxNotices /\ shown \in Nat /\ changes \in 0..MaxChanges
Counted == shown + NoticesIn(early) + NoticesIn(inbox) <= notices

(* A server without CAP.                                                   *)
Plain ==
  /\ pc \in {"ls", "reader", "up"} /\ enabled = {} /\ caps = {}
  /\ server.on = {} /\ server.auth = "none"
  /\ Only(inbox, {"421", "001", "NOTICE"}) /\ Only(early, {"001", "NOTICE"})

(* How far the negotiation with a server that has CAP is.                  *)
Listing == LsFirst(inbox) /\ (server.answered => Has(inbox, "LS"))
Unasked ==
  /\ enabled = {} /\ server.auth = "none" /\ ~server.account
  /\ \A k \in Logins : ~Has(inbox, k)
AwaitingPlus ==
  /\ ~server.account /\ server.auth \in {"asked", "ready", "none"}
  /\ Has(inbox, "AUTHENTICATE +") => server.auth = "ready"
  /\ Has(inbox, "904") => server.auth = "none"
  /\ ~Has(inbox, "server-first") /\ ~Has(inbox, "903")
LoggingIn ==
  /\ server.account <=> server.auth = "done"
  /\ server.auth \notin {"asked", "ready"}
  /\ Has(inbox, "server-first") => server.auth = "challenged"
  /\ Has(inbox, "904") => server.auth = "none"
  /\ Has(inbox, "903") => server.auth = "done"
  /\ AtMostOne(inbox, "server-first")
Negotiated ==
  /\ server.auth = "none"
  /\ mech # "none" => ("sasl" \in enabled <=> server.account)
Greeted ==
  /\ AtMostOne(inbox, "001")
  /\ Has(inbox, "001") => server.welcomed /\ pc = "reader"
  /\ pc = "up" => server.welcomed
  /\ pc \notin {"reader", "up"} => ~server.ended /\ ~server.welcomed
Base(p, c, e) == IF p = "up" THEN c ELSE e
Modern ==
  /\ Only(early, {"NOTICE"})
  /\ pc = "ls" => Listing
  /\ pc \in {"ls", "ack"} => Unasked
  /\ pc \in {"plus", "sasl"} => "sasl" \in enabled
  /\ pc = "plus" => AwaitingPlus
  /\ pc = "sasl" => LoggingIn
  /\ pc \in {"reader", "up"} => Negotiated
  /\ Greeted
  /\ Agreed(inbox, Base(pc, caps, enabled), server.on, missed)
RegInv == RegTyped /\ Counted /\ IF server.ircv3 = "yes" THEN Modern ELSE Plain
-----------------------------------------------------------------------------
(* What is left of a stream when one message is taken, or sent.            *)
LEMMA Taken ==
  ASSUME NEW T, NEW q \in Seq(T), q # << >>
  PROVE  /\ Head(q) \in T /\ Head(q) = q[1] /\ 1 \in DOMAIN q /\ Tail(q) \in Seq(T)
         /\ \A i \in DOMAIN q : i \in Nat /\ i >= 1 /\ q[i] \in T
         /\ \A i \in DOMAIN q : i = 1 \/ (i - 1 \in DOMAIN Tail(q) /\ q[i] = Tail(q)[i - 1])
         /\ \A i \in DOMAIN Tail(q) : i \in Nat /\ i >= 1 /\ i + 1 \in DOMAIN q /\ Tail(q)[i] = q[i + 1]
<1> DEFINE r == Tail(q)
<1>1. /\ Head(q) \in T /\ r \in Seq(T) /\ Len(r) = Len(q) - 1
      /\ \A i \in 1..Len(r) : r[i] = q[i + 1]
  BY HeadTailProperties
<1>2. Len(q) \in Nat /\ DOMAIN q = 1..Len(q) /\ \A i \in DOMAIN q : q[i] \in T
  BY LenProperties, ElementOfSeq
<1>3. Len(q) # 0
  BY EmptySeq, Zenon
<1>4. Len(r) \in Nat /\ DOMAIN r = 1..Len(r)
  BY <1>1, LenProperties
<1>5. Head(q) = q[1]
  OBVIOUS
<1> HIDE DEF r
<1>6. \A i \in DOMAIN q : i \in Nat /\ i >= 1 /\ (i = 1 \/ (i - 1 \in DOMAIN r /\ q[i] = r[i - 1]))
  BY <1>1, <1>2, <1>3, <1>4
<1>7. \A i \in DOMAIN r : i \in Nat /\ i >= 1 /\ i + 1 \in DOMAIN q /\ r[i] = q[i + 1]
  BY <1>1, <1>2, <1>3, <1>4
<1>8. 1 \in DOMAIN q
  BY <1>2, <1>3
<1> QED
  BY <1>1, <1>2, <1>5, <1>6, <1>7, <1>8 DEF r

LEMMA Put ==
  ASSUME NEW T, NEW q \in Seq(T), NEW m \in T
  PROVE  /\ Append(q, m) \in Seq(T) /\ Len(q) + 1 \in Nat
         /\ DOMAIN Append(q, m) = DOMAIN q \cup {Len(q) + 1} /\ Append(q, m)[Len(q) + 1] = m
         /\ \A i \in DOMAIN q : i \in Nat /\ i < Len(q) + 1 /\ Append(q, m)[i] = q[i]
<1> DEFINE r == Append(q, m)
<1>1. /\ r \in Seq(T) /\ Len(r) = Len(q) + 1 /\ r[Len(q) + 1] = m
      /\ \A i \in 1..Len(q) : r[i] = q[i]
  BY AppendProperties
<1>2. Len(q) \in Nat /\ DOMAIN q = 1..Len(q) /\ DOMAIN r = 1..Len(r)
  BY <1>1, LenProperties
<1> HIDE DEF r
<1>3. DOMAIN r = DOMAIN q \cup {Len(q) + 1} /\ Len(q) + 1 \in Nat
  BY <1>1, <1>2
<1>4. \A i \in DOMAIN q : i \in Nat /\ i < Len(q) + 1 /\ r[i] = q[i]
  BY <1>1, <1>2
<1> QED
  BY <1>1, <1>3, <1>4 DEF r

LEMMA OneSent ==
  ASSUME NEW T, NEW q \in Seq(T), NEW m \in T PROVE q \o <<m>> = Append(q, m)
  OBVIOUS

LEMMA TwoSent ==
  ASSUME NEW T, NEW q \in Seq(T), NEW m \in T, NEW n \in T
  PROVE  q \o <<m, n>> = Append(Append(q, m), n)
  OBVIOUS

LEMMA HasTaken ==
  ASSUME NEW q \in Seq(Messages), q # << >>, NEW k
  PROVE  /\ Has(q, k) <=> (Head(q).kind = k \/ Has(Tail(q), k))
         /\ AtMostOne(q, k) => AtMostOne(Tail(q), k) /\ (Head(q).kind = k => ~Has(Tail(q), k))
<1> DEFINE r == Tail(q)
<1>1. /\ Head(q) = q[1] /\ 1 \in DOMAIN q
      /\ \A i \in DOMAIN q : i \in Nat /\ i >= 1 /\ (i = 1 \/ (i - 1 \in DOMAIN r /\ q[i] = r[i - 1]))
      /\ \A i \in DOMAIN r : i \in Nat /\ i >= 1 /\ i + 1 \in DOMAIN q /\ r[i] = q[i + 1]
  BY Taken
<1> HIDE DEF r
<1>2. Has(q, k) <=> (Head(q).kind = k \/ Has(r, k))
  <2>1. Has(q, k) => (Head(q).kind = k \/ Has(r, k))
    BY <1>1 DEF Has
  <2>2. Head(q).kind = k => Has(q, k)
    BY <1>1 DEF Has
  <2>3. Has(r, k) => Has(q, k)
    BY <1>1 DEF Has
  <2> QED
    BY <2>1, <2>2, <2>3
<1>3. AtMostOne(q, k) => AtMostOne(r, k) /\ (Head(q).kind = k => ~Has(r, k))
  <2> SUFFICES ASSUME AtMostOne(q, k) PROVE AtMostOne(r, k) /\ (Head(q).kind = k => ~Has(r, k))
    OBVIOUS
  <2>1. AtMostOne(r, k)
    <3> SUFFICES ASSUME NEW i \in DOMAIN r, NEW j \in DOMAIN r, r[i].kind = k, r[j].kind = k
                 PROVE  i = j
      BY DEF AtMostOne
    <3>1. i + 1 = j + 1
      BY <1>1 DEF AtMostOne
    <3> QED
      BY <3>1, <1>1
  <2>2. ASSUME Head(q).kind = k, NEW i \in DOMAIN r, r[i].kind = k PROVE FALSE
    <3>1. i + 1 = 1
      BY <1>1, <2>2 DEF AtMostOne
    <3> QED
      BY <3>1, <1>1
  <2> QED
    BY <2>1, <2>2 DEF Has
<1> QED
  BY <1>2, <1>3 DEF r

LEMMA HasPut ==
  ASSUME NEW q \in Seq(Messages), NEW m \in Messages, NEW k
  PROVE  /\ Has(Append(q, m), k) <=> (m.kind = k \/ Has(q, k))
         /\ AtMostOne(q, k) /\ (m.kind = k => ~Has(q, k)) => AtMostOne(Append(q, m), k)
<1> DEFINE r == Append(q, m)
           n == Len(q) + 1
<1>1. /\ n \in Nat /\ DOMAIN r = DOMAIN q \cup {n} /\ r[n] = m
      /\ \A i \in DOMAIN q : i \in Nat /\ i < n /\ r[i] = q[i]
  BY Put
<1> HIDE DEF r, n
<1>2. Has(r, k) <=> (m.kind = k \/ Has(q, k))
  BY <1>1 DEF Has
<1>3. AtMostOne(q, k) /\ (m.kind = k => ~Has(q, k)) => AtMostOne(r, k)
  BY <1>1 DEF Has, AtMostOne
<1> QED
  BY <1>2, <1>3 DEF r

LEMMA NoticesTaken ==
  ASSUME NEW q \in Seq(Messages), q # << >>
  PROVE  /\ NoticesIn(q) \in Nat /\ NoticesIn(Tail(q)) \in Nat
         /\ NoticesIn(q) = NoticesIn(Tail(q)) + (IF Head(q).kind = "NOTICE" THEN 1 ELSE 0)
<1> DEFINE r == Tail(q)
           N == {i \in DOMAIN q : q[i].kind = "NOTICE"}
           M == {i \in DOMAIN r : r[i].kind = "NOTICE"}
           f == [i \in N \ {1} |-> i - 1]
<1>1. /\ Head(q) = q[1] /\ 1 \in DOMAIN q
      /\ \A i \in DOMAIN q : i \in Nat /\ i >= 1 /\ (i = 1 \/ (i - 1 \in DOMAIN r /\ q[i] = r[i - 1]))
      /\ \A i \in DOMAIN r : i \in Nat /\ i >= 1 /\ i + 1 \in DOMAIN q /\ r[i] = q[i + 1]
  BY Taken
<1>2. DOMAIN q = 1..Len(q) /\ Len(q) \in Nat
  BY LenProperties
<1>3. IsFiniteSet(N)
  <2>1. IsFiniteSet(1..Len(q))
    BY <1>2, FS_Interval
  <2>2. N \subseteq 1..Len(q)
    BY <1>2
  <2> QED
    BY <2>1, <2>2, FS_Subset
<1> HIDE DEF r
<1>4. IsFiniteSet(N \ {1}) /\ Cardinality(N) \in Nat
      /\ Cardinality(N \ {1}) = IF 1 \in N THEN Cardinality(N) - 1 ELSE Cardinality(N)
  BY <1>3, FS_RemoveElement, FS_CardinalityType, FS_Difference
<1>5. f \in Bijection(N \ {1}, M)
  <2>1. f \in [N \ {1} -> M]
    BY <1>1
  <2>2. \A i, j \in N \ {1} : f[i] = f[j] => i = j
    BY <1>1
  <2>3. \A i \in M : \E j \in N \ {1} : f[j] = i
    <3> TAKE i \in M
    <3>1. i + 1 \in N \ {1} /\ f[i + 1] = i
      BY <1>1
    <3> QED
      BY <3>1
  <2> QED
    BY <2>1, <2>2, <2>3, Fun_IsBij
<1>6. IsFiniteSet(M) /\ Cardinality(M) = Cardinality(N \ {1})
  BY <1>4, <1>5, FS_Bijection DEF ExistsBijection
<1>7. 1 \in N <=> Head(q).kind = "NOTICE"
  BY <1>1
<1>8. Cardinality(M) \in Nat
  BY <1>6, FS_CardinalityType
<1>9. NoticesIn(q) = Cardinality(N) /\ NoticesIn(r) = Cardinality(M)
  BY DEF NoticesIn
<1> HIDE DEF N, M
<1> QED
  BY <1>4, <1>6, <1>7, <1>8, <1>9 DEF r

LEMMA NoticesPut ==
  ASSUME NEW q \in Seq(Messages), NEW m \in Messages
  PROVE  /\ NoticesIn(q) \in Nat
         /\ NoticesIn(Append(q, m)) = NoticesIn(q) + (IF m.kind = "NOTICE" THEN 1 ELSE 0)
<1> DEFINE r == Append(q, m)
           n == Len(q) + 1
           N == {i \in DOMAIN q : q[i].kind = "NOTICE"}
           M == {i \in DOMAIN r : r[i].kind = "NOTICE"}
<1>1. /\ n \in Nat /\ DOMAIN r = DOMAIN q \cup {n} /\ r[n] = m
      /\ \A i \in DOMAIN q : i \in Nat /\ i < n /\ r[i] = q[i]
  BY Put
<1>2. DOMAIN q = 1..Len(q) /\ Len(q) \in Nat
  BY LenProperties
<1>3. IsFiniteSet(N)
  <2>1. IsFiniteSet(1..Len(q))
    BY <1>2, FS_Interval
  <2>2. N \subseteq 1..Len(q)
    BY <1>2
  <2> QED
    BY <2>1, <2>2, FS_Subset
<1> HIDE DEF r, n
<1>4. M = IF m.kind = "NOTICE" THEN N \cup {n} ELSE N
  BY <1>1
<1>5. n \notin N
  BY <1>1
<1>6. Cardinality(N) \in Nat /\ Cardinality(N \cup {n}) = Cardinality(N) + 1
  BY <1>3, <1>5, FS_AddElement, FS_CardinalityType
<1>7. NoticesIn(q) = Cardinality(N) /\ NoticesIn(r) = Cardinality(M)
  BY DEF NoticesIn
<1> HIDE DEF N, M
<1> QED
  BY <1>4, <1>6, <1>7 DEF r

LEMMA SettledTaken ==
  ASSUME NEW q \in Seq(Messages), q # << >>, NEW base, NEW on, NEW c, NEW base2,
         NEW excused \in BOOLEAN, NEW excused2 \in BOOLEAN, Settled(q, base, on, c, excused),
         IF Tells(Head(q), c) THEN excused2 \/ (c \in base2 <=> Head(q).kind = "ACK")
                              ELSE (excused => excused2) /\ (c \in base2 <=> c \in base)
  PROVE  Settled(Tail(q), base2, on, c, excused2)
<1> DEFINE r == Tail(q)
<1>1. /\ Head(q) = q[1] /\ 1 \in DOMAIN q
      /\ \A i \in DOMAIN q : i \in Nat /\ i >= 1 /\ (i = 1 \/ (i - 1 \in DOMAIN r /\ q[i] = r[i - 1]))
      /\ \A i \in DOMAIN r : i \in Nat /\ i >= 1 /\ i + 1 \in DOMAIN q /\ r[i] = q[i + 1]
  BY Taken
<1> HIDE DEF r
<1>4. ASSUME NEW i \in DOMAIN r, LastOf(r, c, i) PROVE r[i].kind = "ACK" <=> c \in on
  <2>1. LastOf(q, c, i + 1)
    <3>1. Tells(q[i + 1], c)
      BY <1>1, <1>4 DEF LastOf
    <3>2. ASSUME NEW j \in DOMAIN q, Tells(q[j], c) PROVE j <= i + 1
      <4>1. CASE j = 1
        BY <1>1, <4>1
      <4>2. CASE j # 1
        <5>1. j - 1 \in DOMAIN r /\ j \in Nat /\ Tells(r[j - 1], c)
          BY <1>1, <3>2, <4>2
        <5>2. j - 1 <= i
          BY <1>4, <5>1 DEF LastOf
        <5> QED
          BY <1>1, <5>1, <5>2
      <4> QED
        BY <4>1, <4>2
    <3> QED
      BY <3>1, <3>2 DEF LastOf
  <2> QED
    BY <1>1, <2>1 DEF Settled
<1>5. ASSUME \A i \in DOMAIN r : ~Tells(r[i], c), ~excused2 PROVE c \in base2 <=> c \in on
  <2>1. ASSUME NEW j \in DOMAIN q, j # 1 PROVE ~Tells(q[j], c)
    BY <1>1, <1>5, <2>1
  <2>2. CASE Tells(q[1], c)
    <3>1. LastOf(q, c, 1)
      BY <1>1, <2>1, <2>2 DEF LastOf
    <3> QED
      BY <1>1, <1>5, <2>2, <3>1 DEF Settled
  <2>3. CASE ~Tells(q[1], c)
    BY <1>1, <1>5, <2>1, <2>3 DEF Settled
  <2> QED
    BY <2>2, <2>3
<1>6. Settled(r, base2, on, c, excused2)
  BY <1>4, <1>5 DEF Settled
<1> QED
  BY <1>6 DEF r

(* A message that arrives behind the others tells of c, or does not.       *)
LEMMA SettledPut ==
  ASSUME NEW q \in Seq(Messages), NEW m \in Messages, NEW base, NEW on, NEW on2, NEW c,
         NEW excused \in BOOLEAN, Settled(q, base, on, c, excused),
         IF Tells(m, c) THEN c \in on2 <=> m.kind = "ACK" ELSE c \in on2 <=> c \in on
  PROVE  Settled(Append(q, m), base, on2, c, excused)
<1> DEFINE r == Append(q, m)
           n == Len(q) + 1
<1>1. /\ n \in Nat /\ DOMAIN r = DOMAIN q \cup {n} /\ r[n] = m
      /\ \A i \in DOMAIN q : i \in Nat /\ i < n /\ r[i] = q[i]
  BY Put
<1> HIDE DEF r, n
<1>2. CASE Tells(m, c)
  <2>1. ASSUME NEW i \in DOMAIN r, LastOf(r, c, i) PROVE i = n
    BY <1>1, <1>2, <2>1 DEF LastOf
  <2>2. Settled(r, base, on2, c, excused)
    BY <1>1, <1>2, <2>1 DEF Settled
  <2> QED
    BY <2>2 DEF r
<1>3. CASE ~Tells(m, c)
  <2>1. ASSUME NEW i \in DOMAIN r, LastOf(r, c, i) PROVE i \in DOMAIN q /\ LastOf(q, c, i)
    BY <1>1, <1>3, <2>1 DEF LastOf
  <2>2. ASSUME NEW i \in DOMAIN r, LastOf(r, c, i) PROVE r[i].kind = "ACK" <=> c \in on2
    BY <1>1, <1>3, <2>1, <2>2 DEF Settled
  <2>3. (\A i \in DOMAIN r : ~Tells(r[i], c)) => excused \/ (c \in base <=> c \in on2)
    BY <1>1, <1>3 DEF Settled
  <2>4. Settled(r, base, on2, c, excused)
    BY <2>2, <2>3 DEF Settled
  <2> QED
    BY <2>4 DEF r
<1> QED
  BY <1>2, <1>3

LEMMA AgreedTaken ==
  ASSUME NEW q \in Seq(Messages), q # << >>, NEW base, NEW on, NEW excused, NEW base2, NEW excused2,
         Agreed(q, base, on, excused),
         \A c \in DESIRED_CAPS \ {"sasl"} :
           IF Tells(Head(q), c) THEN c \in excused2 \/ (c \in base2 <=> Head(q).kind = "ACK")
                                ELSE (c \in excused => c \in excused2) /\ (c \in base2 <=> c \in base)
  PROVE  Agreed(Tail(q), base2, on, excused2)
<1> SUFFICES ASSUME NEW c \in DESIRED_CAPS \ {"sasl"}
             PROVE  Settled(Tail(q), base2, on, c, c \in excused2)
  BY DEF Agreed
<1> DEFINE x == c \in excused
           y == c \in excused2
<1>1. x \in BOOLEAN /\ y \in BOOLEAN /\ Settled(q, base, on, c, x)
  BY DEF Agreed
<1>2. IF Tells(Head(q), c) THEN y \/ (c \in base2 <=> Head(q).kind = "ACK")
                           ELSE (x => y) /\ (c \in base2 <=> c \in base)
  OBVIOUS
<1> HIDE DEF x, y
<1>3. Settled(Tail(q), base2, on, c, y)
  BY <1>1, <1>2, SettledTaken
<1> QED
  BY <1>3 DEF y

LEMMA AgreedPut ==
  ASSUME NEW q \in Seq(Messages), NEW m \in Messages, NEW base, NEW on, NEW on2, NEW excused,
         Agreed(q, base, on, excused),
         \A c \in DESIRED_CAPS \ {"sasl"} :
           IF Tells(m, c) THEN c \in on2 <=> m.kind = "ACK" ELSE c \in on2 <=> c \in on
  PROVE  Agreed(Append(q, m), base, on2, excused)
<1> SUFFICES ASSUME NEW c \in DESIRED_CAPS \ {"sasl"}
             PROVE  Settled(Append(q, m), base, on2, c, c \in excused)
  BY DEF Agreed
<1> DEFINE x == c \in excused
<1>1. x \in BOOLEAN /\ Settled(q, base, on, c, x)
  BY DEF Agreed
<1> HIDE DEF x
<1>2. Settled(Append(q, m), base, on2, c, x)
  BY <1>1, SettledPut
<1> QED
  BY <1>2 DEF x

LEMMA LsMoves ==
  ASSUME NEW q \in Seq(Messages), LsFirst(q)
  PROVE  /\ q # << >> => Head(q).kind \in Idles
         /\ q # << >> /\ Head(q).kind # "LS" => LsFirst(Tail(q))
         /\ \A m \in Messages : m.kind \in Idles \/ Has(q, "LS") => LsFirst(Append(q, m))
<1>1. ASSUME q # << >> PROVE Head(q).kind \in Idles
  <2>1. Head(q) = q[1] /\ 1 \in DOMAIN q /\ \A i \in DOMAIN q : i \in Nat /\ i >= 1
    BY <1>1, Taken
  <2> QED
    BY <2>1 DEF LsFirst
<1>2. ASSUME q # << >>, Head(q).kind # "LS" PROVE LsFirst(Tail(q))
  <2> DEFINE r == Tail(q)
  <2>1. /\ Head(q) = q[1] /\ 1 \in DOMAIN q
        /\ \A i \in DOMAIN q : i \in Nat /\ i >= 1 /\ (i = 1 \/ (i - 1 \in DOMAIN r /\ q[i] = r[i - 1]))
        /\ \A i \in DOMAIN r : i \in Nat /\ i >= 1 /\ i + 1 \in DOMAIN q /\ r[i] = q[i + 1]
    BY <1>2, Taken
  <2> HIDE DEF r
  <2>2. ASSUME NEW i \in DOMAIN r, r[i].kind \notin Idles PROVE \E j \in DOMAIN r : j < i /\ r[j].kind = "LS"
    <3>1. PICK j \in DOMAIN q : j < i + 1 /\ q[j].kind = "LS"
      BY <2>1, <2>2 DEF LsFirst
    <3>2. j # 1
      BY <1>2, <2>1, <3>1
    <3>3. j - 1 \in DOMAIN r /\ r[j - 1].kind = "LS"
      BY <2>1, <3>1, <3>2
    <3>4. i \in Nat /\ j \in Nat /\ j - 1 < i
      BY <2>1, <2>2, <3>1
    <3> QED
      BY <3>3, <3>4
  <2>3. LsFirst(r)
    BY <2>2 DEF LsFirst
  <2> QED
    BY <2>3 DEF r
<1>3. ASSUME NEW m \in Messages, m.kind \in Idles \/ Has(q, "LS") PROVE LsFirst(Append(q, m))
  <2> DEFINE r == Append(q, m)
             n == Len(q) + 1
  <2>1. /\ n \in Nat /\ DOMAIN r = DOMAIN q \cup {n} /\ r[n] = m
        /\ \A i \in DOMAIN q : i \in Nat /\ i < n /\ r[i] = q[i]
    BY Put
  <2> HIDE DEF r, n
  <2>2. ASSUME NEW i \in DOMAIN r, r[i].kind \notin Idles PROVE \E j \in DOMAIN r : j < i /\ r[j].kind = "LS"
    <3>1. CASE i \in DOMAIN q
      BY <2>1, <2>2, <3>1 DEF LsFirst
    <3>2. CASE i = n
      BY <1>3, <2>1, <2>2, <3>2 DEF Has
    <3> QED
      BY <2>1, <3>1, <3>2
  <2>3. LsFirst(r)
    BY <2>2 DEF LsFirst
  <2> QED
    BY <2>3 DEF r
<1> QED
  BY <1>1, <1>2, <1>3

-----------------------------------------------------------------------------
(* The steps of the server.                                                *)
LEMMA OnlyMoves ==
  ASSUME NEW q \in Seq(Messages), NEW K, Only(q, K)
  PROVE  /\ q # << >> => Only(Tail(q), K) /\ Head(q).kind \in K
         /\ \A m \in Messages : m.kind \in K => Only(Append(q, m), K)
         /\ \A k \in Kinds \ K : ~Has(q, k)
<1>1. q # << >> => Head(q).kind \in Kinds
  <2>1. q # << >> => Head(q) \in Messages
    BY Taken
  <2> QED
    BY <2>1 DEF Messages
<1> QED
  BY <1>1, HasTaken, HasPut DEF Only

(* More messages of kinds that only the listing waits for.                 *)
Grown(q, q2) ==
  /\ q2 \in Seq(Messages) /\ NoticesIn(q2) \in Nat
  /\ \A k \in Logins \cup {"001"} : /\ Has(q2, k) <=> Has(q, k)
                                    /\ AtMostOne(q, k) => AtMostOne(q2, k)

LEMMA GrownByOne ==
  ASSUME NEW q \in Seq(Messages), NEW m \in Messages, m.kind \notin Logins \cup {"001"}
  PROVE  Grown(q, Append(q, m))
<1>1. Append(q, m) \in Seq(Messages) /\ NoticesIn(Append(q, m)) \in Nat
  BY Put, NoticesPut
<1>2. \A k \in Logins \cup {"001"} : /\ Has(Append(q, m), k) <=> Has(q, k)
                                     /\ AtMostOne(q, k) => AtMostOne(Append(q, m), k)
  BY HasPut
<1> QED
  BY <1>1, <1>2 DEF Grown

LEMMA IdleSent ==
  ASSUME NEW q \in Seq(Messages), NEW m \in Messages, m.kind \in Idles
  PROVE  /\ Append(q, m) \in Seq(Messages) /\ Grown(q, Append(q, m))
         /\ NoticesIn(Append(q, m)) = NoticesIn(q) + (IF m.kind = "NOTICE" THEN 1 ELSE 0)
         /\ NoticesIn(q) \in Nat
         /\ LsFirst(q) => LsFirst(Append(q, m))
         /\ Has(q, "LS") \/ m.kind = "LS" => Has(Append(q, m), "LS")
         /\ \A base, on, excused : Agreed(q, base, on, excused)
                                     => Agreed(Append(q, m), base, on, excused)
<1>1. m.kind \notin Logins \cup {"001"} /\ \A c : ~Tells(m, c)
  BY DEF Idles, Logins, Tells
<1>2. Append(q, m) \in Seq(Messages) /\ Grown(q, Append(q, m))
  BY <1>1, Put, GrownByOne
<1>3. /\ NoticesIn(Append(q, m)) = NoticesIn(q) + (IF m.kind = "NOTICE" THEN 1 ELSE 0)
      /\ NoticesIn(q) \in Nat
  BY NoticesPut
<1>4. LsFirst(q) => LsFirst(Append(q, m))
  BY LsMoves
<1>5. Has(q, "LS") \/ m.kind = "LS" => Has(Append(q, m), "LS")
  BY HasPut
<1>6. \A base, on, excused : Agreed(q, base, on, excused) => Agreed(Append(q, m), base, on, excused)
  BY <1>1, AgreedPut
<1> QED
  BY <1>2, <1>3, <1>4, <1>5, <1>6

LEMMA StillCounted ==
  ASSUME Counted, shown' = shown, notices' = notices, shown \in Nat, notices \in Nat,
         NoticesIn(early) \in Nat, NoticesIn(inbox) \in Nat,
         NoticesIn(early') \in Nat, NoticesIn(inbox') \in Nat,
         NoticesIn(early') + NoticesIn(inbox') <= NoticesIn(early) + NoticesIn(inbox)
  PROVE  Counted'
<1> DEFINE a == NoticesIn(early)
           b == NoticesIn(inbox)
<1>1. shown + a + b <= notices /\ a \in Nat /\ b \in Nat
  BY DEF Counted
<1>2. ASSUME NEW c \in Nat, NEW d \in Nat, c + d <= a + b PROVE shown + c + d <= notices
  <2> HIDE DEF a, b
  <2> QED
    BY <1>1, <1>2
<1>3. shown + NoticesIn(early') + NoticesIn(inbox') <= notices
  BY <1>2
<1> QED
  BY <1>3 DEF Counted

LEMMA RegFacts ==
  ASSUME RegTyped
  PROVE  /\ server.on \subseteq DESIRED_CAPS /\ server.offers \subseteq DESIRED_CAPS
         /\ server.account \in BOOLEAN /\ server.ended \in BOOLEAN /\ server.welcomed \in BOOLEAN
         /\ server.answered \in BOOLEAN /\ missed \subseteq DESIRED_CAPS
         /\ enabled \subseteq DESIRED_CAPS /\ caps \subseteq DESIRED_CAPS
         /\ early \in Seq(Messages) /\ inbox \in Seq(Messages) /\ server \in Servers
         /\ NoticesIn(inbox) \in Nat /\ NoticesIn(early) \in Nat /\ shown \in Nat /\ notices \in Nat
<1>1. NoticesIn(inbox) \in Nat /\ NoticesIn(early) \in Nat
  <2>1. R!Msg("LS", {}) \in Messages
    BY DEF R!Msg, Messages, Kinds
  <2> QED
    BY <2>1, NoticesPut DEF RegTyped
<1> QED
  BY <1>1, RegistrationAssumption DEF RegTyped, Servers

(* The server sends, or says more of itself, but nothing about logins.     *)
SameServer == /\ server' \in Servers /\ server'.ircv3 = server.ircv3
              /\ server'.account = server.account /\ server'.auth = server.auth
              /\ server'.ended = server.ended /\ server'.welcomed = server.welcomed
Ours == UNCHANGED <<pc, mech, registration_asked, enabled, early, caps, creds, cert, shown, missed>>
LEMMA GrownKeeps ==
  ASSUME RegTyped, Modern, Grown(inbox, inbox'), SameServer, Ours,
         pc = "ls" => Listing',
         Agreed(inbox', Base(pc, caps, enabled), server'.on, missed)
  PROVE  Modern'
<1> USE RegFacts
<1>1. \A k \in Logins \cup {"001"} : /\ Has(inbox', k) <=> Has(inbox, k)
                                     /\ AtMostOne(inbox, k) => AtMostOne(inbox', k)
  BY DEF Grown
<1>3. (Unasked => Unasked') /\ (Negotiated => Negotiated')
  BY <1>1 DEF Unasked, Negotiated, SameServer, Ours
<1>4. (AwaitingPlus => AwaitingPlus') /\ (LoggingIn => LoggingIn')
  BY <1>1 DEF AwaitingPlus, LoggingIn, SameServer, Logins
<1>5. Greeted => Greeted'
  BY <1>1 DEF Greeted, SameServer, Ours
<1>6. Agreed(inbox', Base(pc', caps', enabled'), server'.on, missed')
  BY DEF Ours
<1> QED
  BY <1>3, <1>4, <1>5, <1>6 DEF Modern, SameServer, Ours

LEMMA MessageMade ==
  ASSUME NEW k \in Kinds, NEW c \in SUBSET DESIRED_CAPS
  PROVE  R!Msg(k, c) \in Messages /\ R!Msg(k, c).kind = k /\ R!Msg(k, c).caps = c
  BY DEF R!Msg, Messages

LEMMA OursKept == ASSUME UNCHANGED R!ours PROVE Ours
  BY DEF R!ours, R!task, Ours

LEMMA SilentKeeps == ASSUME RegInv, R!FallsSilent PROVE RegInv'
<1> USE RegFacts DEF RegInv
<1>1. /\ Ours /\ UNCHANGED <<inbox, notices, changes>> /\ SameServer
      /\ server'.answered = server.answered /\ server'.on = server.on
  BY DEF R!FallsSilent, R!task, Ours, SameServer, Servers
<1>2. RegTyped' /\ Counted'
  BY <1>1 DEF RegTyped, Counted, Ours, SameServer
<1>3. CASE server.ircv3 = "yes"
  <2>1. Grown(inbox, inbox')
    BY <1>1 DEF Grown
  <2>2. Agreed(inbox', Base(pc, caps, enabled), server'.on, missed)
    BY <1>1, <1>3 DEF Modern
  <2>3. pc = "ls" => Listing'
    BY <1>1, <1>3 DEF Modern, Listing
  <2>4. Modern'
    BY <1>1, <1>3, <2>1, <2>2, <2>3, GrownKeeps
  <2> QED
    BY <1>1, <1>2, <1>3, <2>4 DEF SameServer
<1>4. CASE server.ircv3 # "yes"
  BY <1>1, <1>2, <1>4 DEF Plain, SameServer, Ours
<1> QED
  BY <1>3, <1>4

LEMMA AnswerLsKeeps == ASSUME RegInv, R!AnswerLs PROVE RegInv'
<1> USE RegFacts DEF RegInv
<1>0. Ours /\ UNCHANGED <<notices, changes>> /\ server' \in Servers
  BY OursKept DEF R!AnswerLs, Servers, RegTyped
<1>1. CASE server.ircv3 = "yes"
  <2>1. SameServer /\ server'.ircv3 = "yes" /\ server'.on = server.on
    BY <1>1 DEF R!AnswerLs, SameServer, Servers
  <2> DEFINE base == Base(pc, caps, enabled)
             on == server.on
  <2>0. Agreed(inbox, base, on, missed)
    BY <1>1 DEF Modern
  <2> HIDE DEF base, on
  <2>2. /\ Grown(inbox, inbox') /\ NoticesIn(inbox') = NoticesIn(inbox)
        /\ (LsFirst(inbox) => LsFirst(inbox')) /\ Has(inbox', "LS")
        /\ Agreed(inbox', base, on, missed)
    <3>1. ASSUME NEW S \in SUBSET server.offers, inbox' = inbox \o <<R!Msg("LS*", S), R!Msg("LS", server.offers \ S)>>
          PROVE  /\ Grown(inbox, inbox') /\ NoticesIn(inbox') = NoticesIn(inbox)
                 /\ (LsFirst(inbox) => LsFirst(inbox')) /\ Has(inbox', "LS")
                 /\ Agreed(inbox', base, on, missed)
      <4> DEFINE m == R!Msg("LS*", S)
                 n == R!Msg("LS", server.offers \ S)
                 q == Append(inbox, m)
      <4>1. m \in Messages /\ m.kind = "LS*" /\ n \in Messages /\ n.kind = "LS"
        BY MessageMade DEF Kinds
      <4> HIDE DEF m, n
      <4>2. inbox' = Append(q, n) /\ q \in Seq(Messages)
        BY <3>1, <4>1, TwoSent, Put DEF m, n
      <4>0. m.kind \in Idles /\ n.kind \in Idles /\ m.kind # "NOTICE" /\ n.kind # "NOTICE"
        BY <4>1 DEF Idles
      <4>3. Grown(inbox, q) /\ NoticesIn(q) = NoticesIn(inbox) /\ (LsFirst(inbox) => LsFirst(q))
        BY <4>0, <4>1, IdleSent
      <4>4. Agreed(q, base, on, missed)
        BY <2>0, <4>0, <4>1, IdleSent
      <4> HIDE DEF q
      <4>5. /\ Grown(q, inbox') /\ NoticesIn(inbox') = NoticesIn(q)
            /\ (LsFirst(q) => LsFirst(inbox')) /\ Has(inbox', "LS")
        BY <4>0, <4>1, <4>2, IdleSent
      <4>6. Agreed(Append(q, n), base, on, missed)
        BY <4>0, <4>1, <4>2, <4>4, IdleSent
      <4> QED
        BY <4>2, <4>3, <4>5, <4>6 DEF Grown
    <3>2. CASE inbox' = inbox \o <<R!Msg("LS", server.offers)>>
      <4> DEFINE m == R!Msg("LS", server.offers)
      <4>1. m \in Messages /\ m.kind = "LS"
        BY MessageMade DEF Kinds
      <4>2. inbox' = Append(inbox, m)
        BY <3>2, <4>1, OneSent
      <4> HIDE DEF m
      <4>3. m.kind \in Idles /\ m.kind # "NOTICE"
        BY <4>1 DEF Idles
      <4> QED
        BY <2>0, <4>1, <4>2, <4>3, IdleSent
    <3> QED
      BY <1>1, <3>1, <3>2 DEF R!AnswerLs, R!Send
  <2>3. pc = "ls" => Listing'
    BY <1>1, <2>2 DEF Modern, Listing
  <2>4. Modern'
    BY <1>0, <1>1, <2>1, <2>2, <2>3, GrownKeeps DEF base, on
  <2> QED
    BY <1>0, <2>1, <2>2, <2>4 DEF RegTyped, Counted, Grown, Ours
<1>2. CASE server.ircv3 # "yes"
  <2>1. server'.ircv3 = server.ircv3 /\ server'.on = server.on /\ server'.auth = server.auth
    BY <1>2 DEF R!AnswerLs, Servers
  <2> DEFINE a == R!Msg("421", {})
             b == R!Msg("001", {})
             K == {"421", "001", "NOTICE"}
  <2>2. a \in Messages /\ b \in Messages /\ a.kind = "421" /\ b.kind = "001"
    BY MessageMade DEF Kinds
  <2>3. Only(inbox, K)
    BY <1>2 DEF Plain
  <2> HIDE DEF a, b
  <2>4. inbox' = Append(Append(inbox, a), b) \/ inbox' = Append(inbox, b)
    BY <1>2, <2>2, OneSent, TwoSent DEF R!AnswerLs, R!Send, a, b
  <2>5. Append(inbox, a) \in Seq(Messages) /\ Only(Append(inbox, a), K)
        /\ NoticesIn(Append(inbox, a)) = NoticesIn(inbox)
    BY <2>2, <2>3, OnlyMoves, Put, NoticesPut
  <2>6. inbox' \in Seq(Messages) /\ Only(inbox', K) /\ NoticesIn(inbox') = NoticesIn(inbox)
    <3> DEFINE q == Append(inbox, a)
    <3>1. q \in Seq(Messages) /\ Only(q, K) /\ NoticesIn(q) = NoticesIn(inbox)
      BY <2>5
    <3>2. inbox' = Append(q, b) \/ inbox' = Append(inbox, b)
      BY <2>4
    <3> HIDE DEF q, K
    <3>3. b.kind \in K
      BY <2>2 DEF K
    <3>4. CASE inbox' = Append(q, b)
      BY <2>2, <3>1, <3>3, <3>4, OnlyMoves, Put, NoticesPut
    <3>5. CASE inbox' = Append(inbox, b)
      BY <2>2, <2>3, <3>3, <3>5, OnlyMoves, Put, NoticesPut DEF K
    <3> QED
      BY <3>2, <3>4, <3>5
  <2> QED
    BY <1>0, <1>2, <2>1, <2>6 DEF RegTyped, Counted, Plain, Ours
<1> QED
  BY <1>1, <1>2

LEMMA NoticeKeeps == ASSUME RegInv, R!Notice PROVE RegInv'
<1> USE RegFacts DEF RegInv
<1> DEFINE m == R!Msg("NOTICE", {})
           base == Base(pc, caps, enabled)
           on == server.on
<1>0. Ours /\ UNCHANGED <<changes, server>> /\ notices' = notices + 1 /\ notices < MaxNotices
  BY OursKept DEF R!Notice
<1>1. m \in Messages /\ m.kind = "NOTICE"
  BY MessageMade DEF Kinds
<1> HIDE DEF m
<1>2. inbox' = Append(inbox, m)
  BY <1>1, OneSent DEF R!Notice, R!Send, m
<1>3. Grown(inbox, inbox') /\ NoticesIn(inbox') = NoticesIn(inbox) + 1
  BY <1>1, <1>2, GrownByOne, NoticesPut DEF Idles, Logins
<1>4. RegTyped'
  BY <1>0, <1>3, RegistrationAssumption DEF RegTyped, Grown, Ours
<1>5. ASSUME server.ircv3 = "yes" PROVE Modern'
  <2>1. Agreed(inbox, base, on, missed)
    BY <1>5 DEF Modern
  <2> HIDE DEF base, on
  <2>2. Agreed(inbox', base, on, missed)
    BY <1>1, <1>2, <2>1, AgreedPut DEF Tells
  <2>3. pc = "ls" => Listing'
    BY <1>0, <1>1, <1>2, <1>5, LsMoves, HasPut DEF Modern, Listing, Idles
  <2> QED
    BY <1>0, <1>3, <1>5, <2>2, <2>3, GrownKeeps DEF SameServer, base, on
<1>6. server.ircv3 # "yes" => Plain'
  BY <1>0, <1>1, <1>2, OnlyMoves DEF Plain, Ours
<1> QED
  BY <1>0, <1>3, <1>4, <1>5, <1>6 DEF Counted, Ours

LEMMA AuthenticatesKeeps == ASSUME RegInv, R!Authenticates PROVE RegInv'
<1> USE RegFacts DEF RegInv
<1>0. Ours /\ UNCHANGED <<notices, changes>> /\ server.auth \in {"asked", "first", "credentials"}
  BY OursKept DEF R!Authenticates
<1>1. server.ircv3 = "yes" /\ Modern
  BY <1>0 DEF Plain
<1>2. pc \in {"plus", "sasl"} /\ (pc = "plus" <=> server.auth = "asked")
  <2>1. pc \notin {"ls", "ack", "reader", "up"}
    BY <1>0, <1>1 DEF Modern, Unasked, Negotiated
  <2> QED
    BY <1>0, <1>1, <2>1 DEF Modern, AwaitingPlus, LoggingIn, RegTyped
<1>3. ASSUME NEW k \in Logins, inbox' = inbox \o <<R!Msg(k, {})>>, server' \in Servers,
             server'.on = server.on, server'.ircv3 = server.ircv3,
             server'.ended = server.ended, server'.welcomed = server.welcomed,
             IF pc = "plus" THEN AwaitingPlus' ELSE LoggingIn'
      PROVE  RegInv'
  <2> DEFINE m == R!Msg(k, {})
             base == Base(pc, caps, enabled)
             on == server.on
  <2>1. m \in Messages /\ m.kind = k /\ k \notin {"NOTICE", "001", "ACK", "DEL"}
    BY MessageMade DEF Kinds, Logins
  <2>2. inbox' = Append(inbox, m)
    BY <1>3, <2>1, OneSent
  <2>3. Agreed(inbox, base, on, missed)
    BY <1>1 DEF Modern
  <2> HIDE DEF m, base, on
  <2>4. inbox' \in Seq(Messages) /\ NoticesIn(inbox') = NoticesIn(inbox)
    BY <2>1, <2>2, Put, NoticesPut
  <2>5. /\ Has(inbox', "001") <=> Has(inbox, "001")
        /\ AtMostOne(inbox, "001") => AtMostOne(inbox', "001")
    BY <2>1, <2>2, HasPut
  <2>6. Agreed(Append(inbox, m), base, on, missed)
    BY <2>1, <2>3, AgreedPut DEF Tells
  <2>7. Agreed(inbox', Base(pc', caps', enabled'), server'.on, missed')
    BY <1>0, <1>3, <2>2, <2>6 DEF base, on, Ours
  <2>8. Modern'
    BY <1>0, <1>1, <1>2, <1>3, <2>5, <2>7 DEF Modern, Greeted, Ours
  <2> QED
    BY <1>0, <1>1, <1>3, <2>4, <2>8 DEF RegTyped, Counted, Ours
<1>4. ASSUME NEW k \in Logins, inbox' = inbox \o <<R!Msg(k, {})>>
      PROVE  /\ \A x : Has(inbox', x) <=> (k = x \/ Has(inbox, x))
             /\ AtMostOne(inbox, "server-first") /\ (k = "server-first" => ~Has(inbox, "server-first"))
                  => AtMostOne(inbox', "server-first")
  <2> DEFINE m == R!Msg(k, {})
  <2>1. m \in Messages /\ m.kind = k
    BY MessageMade DEF Kinds, Logins
  <2>2. inbox' = Append(inbox, m)
    BY <1>4, <2>1, OneSent
  <2> HIDE DEF m
  <2> QED
    BY <2>1, <2>2, HasPut
<1>5. CASE server.auth = "asked"
  <2>1. AwaitingPlus
    BY <1>1, <1>2, <1>5 DEF Modern
  <2>2. PICK k \in {"AUTHENTICATE +", "904"} :
          /\ inbox' = inbox \o <<R!Msg(k, {})>>
          /\ server' = [server EXCEPT !.auth = IF k = "904" THEN "none" ELSE "ready"]
    BY <1>5 DEF R!Authenticates, R!Send
  <2>3. k \in Logins /\ server' \in Servers /\ server'.on = server.on /\ server'.ircv3 = server.ircv3
        /\ server'.ended = server.ended /\ server'.welcomed = server.welcomed
        /\ server'.account = server.account /\ server'.auth = IF k = "904" THEN "none" ELSE "ready"
    BY <2>2 DEF Logins, Servers
  <2>4. AwaitingPlus'
    BY <2>1, <2>2, <2>3, <1>4, <1>5 DEF AwaitingPlus
  <2> QED
    BY <1>2, <1>3, <1>5, <2>2, <2>3, <2>4
<1>6. CASE server.auth = "first"
  <2>1. LoggingIn
    BY <1>1, <1>2, <1>6 DEF Modern
  <2>2. /\ inbox' = inbox \o <<R!Msg("server-first", {})>>
        /\ server' = [server EXCEPT !.auth = "challenged"]
    BY <1>6 DEF R!Authenticates, R!Send
  <2>3. "server-first" \in Logins /\ server' \in Servers /\ server'.on = server.on /\ server'.ircv3 = server.ircv3
        /\ server'.ended = server.ended /\ server'.welcomed = server.welcomed
        /\ server'.account = server.account /\ server'.auth = "challenged"
    BY <2>2 DEF Logins, Servers
  <2>4. LoggingIn'
    BY <2>1, <2>2, <2>3, <1>4, <1>6 DEF LoggingIn
  <2> QED
    BY <1>2, <1>3, <1>6, <2>2, <2>3, <2>4
<1>7. CASE server.auth = "credentials"
  <2>1. LoggingIn
    BY <1>1, <1>2, <1>7 DEF Modern
  <2>2. PICK k \in {"903", "904"} :
          /\ inbox' = inbox \o <<R!Msg(k, {})>>
          /\ server' = IF k = "903" THEN [server EXCEPT !.auth = "done", !.account = TRUE]
                                    ELSE [server EXCEPT !.auth = "none"]
    BY <1>7 DEF R!Authenticates, R!Send
  <2>3. k \in Logins /\ server' \in Servers /\ server'.on = server.on /\ server'.ircv3 = server.ircv3
        /\ server'.ended = server.ended /\ server'.welcomed = server.welcomed
        /\ server'.account = (IF k = "903" THEN TRUE ELSE server.account)
        /\ server'.auth = IF k = "903" THEN "done" ELSE "none"
    BY <2>2 DEF Logins, Servers
  <2>4. LoggingIn'
    BY <2>1, <2>2, <2>3, <1>4, <1>7 DEF LoggingIn
  <2> QED
    BY <1>2, <1>3, <1>7, <2>2, <2>3, <2>4
<1> QED
  BY <1>0, <1>5, <1>6, <1>7

LEMMA WelcomeKeeps == ASSUME RegInv, R!Welcome PROVE RegInv'
<1> USE RegFacts DEF RegInv
<1> DEFINE m == R!Msg("001", {})
           base == Base(pc, caps, enabled)
           on == server.on
<1>0. /\ Ours /\ UNCHANGED <<notices, changes>>
      /\ server.ended /\ ~server.welcomed /\ server' = [server EXCEPT !.welcomed = TRUE]
  BY OursKept DEF R!Welcome
<1>1. m \in Messages /\ m.kind = "001"
  BY MessageMade DEF Kinds
<1>2. inbox' = Append(inbox, m)
  BY <1>1, OneSent DEF R!Welcome, R!Send
<1> HIDE DEF m
<1>3. inbox' \in Seq(Messages) /\ NoticesIn(inbox') = NoticesIn(inbox)
  BY <1>1, <1>2, Put, NoticesPut
<1>4. /\ server' \in Servers /\ server'.on = server.on /\ server'.ircv3 = server.ircv3 /\ server'.auth = server.auth
      /\ server'.ended = server.ended /\ server'.welcomed = TRUE /\ server'.account = server.account
  BY <1>0 DEF Servers
<1>5. RegTyped' /\ Counted'
  BY <1>0, <1>3, <1>4 DEF RegTyped, Counted, Ours
<1>6. CASE server.ircv3 # "yes"
  <2>1. Only(inbox', {"421", "001", "NOTICE"})
    BY <1>1, <1>2, <1>6, OnlyMoves DEF Plain
  <2> QED
    BY <1>0, <1>4, <1>5, <1>6, <2>1 DEF Plain, Ours
<1>7. CASE server.ircv3 = "yes"
  <2>1. pc = "reader" /\ ~Has(inbox, "001")
    BY <1>0, <1>7 DEF Modern, Greeted, RegTyped
  <2>2. Negotiated'
    BY <1>0, <1>4, <1>7, <2>1 DEF Modern, Negotiated, Ours
  <2>3. Greeted'
    <3>1. AtMostOne(inbox, "001")
      BY <2>1 DEF Has, AtMostOne
    <3>2. AtMostOne(inbox', "001")
      BY <1>1, <1>2, <2>1, <3>1, HasPut
    <3> QED
      BY <1>0, <1>4, <2>1, <3>2 DEF Greeted, Ours
  <2>4. Agreed(inbox, base, on, missed)
    BY <1>7 DEF Modern
  <2> HIDE DEF base, on
  <2>5. Agreed(Append(inbox, m), base, on, missed)
    BY <1>1, <2>4, AgreedPut DEF Tells
  <2>6. Agreed(inbox', Base(pc', caps', enabled'), server'.on, missed')
    BY <1>0, <1>2, <1>4, <2>5 DEF base, on, Ours
  <2>7. Only(early', {"NOTICE"}) /\ pc' = "reader"
    BY <1>0, <1>7, <2>1 DEF Modern, Ours
  <2> QED
    BY <1>4, <1>5, <1>7, <2>2, <2>3, <2>6, <2>7 DEF Modern
<1> QED
  BY <1>6, <1>7

LEMMA NotifyKeeps ==
  ASSUME RegInv, NEW c \in DESIRED_CAPS, R!Withdraws(c) \/ R!Offers(c) PROVE RegInv'
<1> USE RegFacts DEF RegInv
<1>0. /\ Ours /\ UNCHANGED notices /\ server.answered
      /\ server.ircv3 = "yes" /\ c # "sasl" /\ changes < MaxChanges /\ changes' = changes + 1
  BY OursKept DEF R!Withdraws, R!Offers, R!MayNotify
<1>1. PICK k \in {"DEL", "NEW"} :
        /\ inbox' = inbox \o <<R!Msg(k, {c})>> /\ SameServer /\ server'.answered = server.answered
        /\ server'.on = IF k = "DEL" THEN server.on \ {c} ELSE server.on
  <2>1. CASE R!Withdraws(c)
    <3>1. SameServer /\ server'.answered = server.answered /\ server'.on = server.on \ {c}
      BY <2>1 DEF R!Withdraws, Servers, SameServer
    <3> QED
      BY <2>1, <3>1 DEF R!Withdraws, R!Send
  <2>2. CASE R!Offers(c)
    <3>1. SameServer /\ server'.answered = server.answered /\ server'.on = server.on
      BY <2>2 DEF R!Offers, Servers, SameServer
    <3> QED
      BY <2>2, <3>1 DEF R!Offers, R!Send
  <2> QED
    BY <2>1, <2>2
<1> DEFINE m == R!Msg(k, {c})
           base == Base(pc, caps, enabled)
           on == server.on
<1>2. m \in Messages /\ m.kind = k /\ m.caps = {c}
  BY MessageMade DEF Kinds
<1>3. inbox' = Append(inbox, m)
  BY <1>1, <1>2, OneSent
<1>4. Agreed(inbox, base, on, missed)
  BY <1>0 DEF Modern
<1>5. PICK on2 : on2 = IF k = "DEL" THEN on \ {c} ELSE on
  OBVIOUS
<1>6. server'.on = on2
  BY <1>1, <1>5
<1> HIDE DEF m, base, on
<1>7. inbox' \in Seq(Messages) /\ NoticesIn(inbox') = NoticesIn(inbox) /\ Grown(inbox, inbox')
  <2>1. m.kind \notin Logins \cup {"001", "NOTICE"}
    BY <1>2 DEF Logins
  <2>2. Append(inbox, m) \in Seq(Messages) /\ NoticesIn(Append(inbox, m)) = NoticesIn(inbox)
    BY <1>2, <2>1, Put, NoticesPut
  <2>3. Grown(inbox, Append(inbox, m))
    BY <1>2, <2>1, GrownByOne
  <2> QED
    BY <1>3, <2>2, <2>3
<1>8. RegTyped' /\ Counted'
  BY <1>0, <1>1, <1>7, RegistrationAssumption DEF RegTyped, Counted, SameServer, Ours
<1>9. ASSUME pc = "ls" PROVE Listing'
  <2>1. LsFirst(inbox) /\ Has(inbox, "LS")
    BY <1>0, <1>9 DEF Modern, Listing
  <2>2. LsFirst(Append(inbox, m)) /\ Has(Append(inbox, m), "LS")
    BY <1>2, <2>1, LsMoves, HasPut
  <2> QED
    BY <1>3, <2>2 DEF Listing
<1>10. Agreed(Append(inbox, m), base, on2, missed)
  <2>1. ASSUME NEW d \in DESIRED_CAPS \ {"sasl"}
        PROVE  IF Tells(m, d) THEN d \in on2 <=> m.kind = "ACK" ELSE d \in on2 <=> d \in on
    BY <1>2, <1>5 DEF Tells
  <2> QED
    BY <1>2, <1>4, <2>1, AgreedPut
<1>11. Modern'
  BY <1>0, <1>1, <1>3, <1>6, <1>7, <1>9, <1>10, GrownKeeps DEF base
<1> QED
  BY <1>0, <1>1, <1>8, <1>11 DEF SameServer

-----------------------------------------------------------------------------
(* The steps of the task.                                                  *)
LEMMA Takes ==
  ASSUME NEW q \in Seq(Messages), q # << >>
  PROVE  /\ Head(q) \in Messages /\ Tail(q) \in Seq(Messages) /\ Has(q, Head(q).kind)
         /\ Head(q).kind \in Kinds /\ Head(q).caps \subseteq DESIRED_CAPS
         /\ \A k : Has(Tail(q), k) => Has(q, k)
         /\ AtMostOne(q, "001") => AtMostOne(Tail(q), "001")
         /\ NoticesIn(q) \in Nat /\ NoticesIn(Tail(q)) \in Nat
         /\ NoticesIn(q) = NoticesIn(Tail(q)) + (IF Head(q).kind = "NOTICE" THEN 1 ELSE 0)
<1>1. Head(q) \in Messages /\ Tail(q) \in Seq(Messages)
  BY Taken
<1>2. Head(q).kind \in Kinds /\ Head(q).caps \subseteq DESIRED_CAPS
  BY <1>1 DEF Messages
<1> QED
  BY <1>1, <1>2, HasTaken, NoticesTaken

(* What the answer to CAP REQ c brings, in one line or two or none.        *)
LEMMA RequestedFacts ==
  ASSUME RegTyped, NEW c \in SUBSET DESIRED_CAPS, NEW rest \in Seq(Messages), R!Requested(c, rest)
  PROVE  /\ SameServer /\ inbox' \in Seq(Messages)
         /\ NoticesIn(rest) \in Nat /\ NoticesIn(inbox') = NoticesIn(rest)
         /\ \A k \in Logins \cup {"001"} : Has(inbox', k) <=> Has(rest, k)
         /\ AtMostOne(rest, "001") => AtMostOne(inbox', "001")
         /\ \A base, excused : Agreed(rest, base, server.on, excused)
                                 => Agreed(inbox', base, server'.on, excused)
<1> USE RegFacts
<1> DEFINE on == server.on
<1>0. NoticesIn(rest) \in Nat
  <2>1. R!Msg("LS", {}) \in Messages
    BY DEF R!Msg, Messages, Kinds
  <2> QED
    BY <2>1, NoticesPut
<1>1. CASE server.silent /\ inbox' = rest /\ UNCHANGED server
  BY <1>0, <1>1 DEF SameServer
<1>2. ASSUME NEW m \in Messages, m.kind \in {"ACK", "NAK"}, NEW q \in Seq(Messages)
      PROVE  /\ Append(q, m) \in Seq(Messages) /\ NoticesIn(Append(q, m)) = NoticesIn(q)
             /\ \A k \in Logins \cup {"001"} : Has(Append(q, m), k) <=> Has(q, k)
             /\ AtMostOne(q, "001") => AtMostOne(Append(q, m), "001")
  <2>1. m.kind \notin Logins \cup {"001", "NOTICE"}
    BY <1>2 DEF Logins
  <2> QED
    BY <2>1, Put, NoticesPut, HasPut
<1>3. CASE inbox' = Append(rest, R!Msg("NAK", c)) /\ UNCHANGED server
  <2> DEFINE m == R!Msg("NAK", c)
  <2>1. m \in Messages /\ m.kind = "NAK"
    BY MessageMade DEF Kinds
  <2> HIDE DEF m
  <2>2. inbox' = Append(rest, m) /\ SameServer /\ server'.on = server.on
    BY <1>3 DEF SameServer, m
  <2> HIDE DEF on
  <2>3. ASSUME NEW base, NEW excused, Agreed(rest, base, on, excused)
        PROVE  Agreed(Append(rest, m), base, on, excused)
    BY <2>1, <2>3, AgreedPut DEF Tells
  <2> QED
    BY <1>0, <1>2, <2>1, <2>2, <2>3 DEF on
<1>4. ASSUME server' = [server EXCEPT !.on = @ \cup c] PROVE SameServer /\ server'.on = on \cup c
  BY <1>4 DEF SameServer, Servers
<1>5. ASSUME NEW S \in SUBSET c, NEW q \in Seq(Messages), NEW base, NEW excused, NEW on1,
             Agreed(q, base, on1, excused)
      PROVE  Agreed(Append(q, R!Msg("ACK", S)), base, on1 \cup S, excused)
  <2> DEFINE m == R!Msg("ACK", S)
  <2>1. m \in Messages /\ m.kind = "ACK" /\ m.caps = S
    BY MessageMade DEF Kinds
  <2> HIDE DEF m
  <2>2. ASSUME NEW d \in DESIRED_CAPS \ {"sasl"}
        PROVE  IF Tells(m, d) THEN d \in on1 \cup S <=> m.kind = "ACK" ELSE d \in on1 \cup S <=> d \in on1
    BY <2>1 DEF Tells
  <2>3. PICK on2 : on2 = on1 \cup S
    OBVIOUS
  <2>4. Agreed(Append(q, m), base, on2, excused)
    BY <1>5, <2>1, <2>2, <2>3, AgreedPut
  <2> QED
    BY <2>3, <2>4 DEF m
<1>6. CASE server' = [server EXCEPT !.on = @ \cup c] /\ inbox' = Append(rest, R!Msg("ACK", c))
  <2> DEFINE m == R!Msg("ACK", c)
  <2>1. m \in Messages /\ m.kind = "ACK"
    BY MessageMade DEF Kinds
  <2>2. ASSUME NEW base, NEW excused, Agreed(rest, base, on, excused)
        PROVE  Agreed(Append(rest, m), base, on \cup c, excused)
    BY <1>5, <2>2
  <2> HIDE DEF m
  <2>3. inbox' = Append(rest, m)
    BY <1>6 DEF m
  <2> QED
    BY <1>0, <1>2, <1>4, <1>6, <2>1, <2>2, <2>3
<1>7. ASSUME NEW S \in (SUBSET c) \ {{}, c}, server' = [server EXCEPT !.on = @ \cup c],
             inbox' = Append(Append(rest, R!Msg("ACK", S)), R!Msg("ACK", c \ S))
      PROVE  /\ SameServer /\ inbox' \in Seq(Messages) /\ NoticesIn(inbox') = NoticesIn(rest)
             /\ \A k \in Logins \cup {"001"} : Has(inbox', k) <=> Has(rest, k)
             /\ AtMostOne(rest, "001") => AtMostOne(inbox', "001")
             /\ \A base, excused : Agreed(rest, base, server.on, excused)
                                     => Agreed(inbox', base, server'.on, excused)
  <2> DEFINE m == R!Msg("ACK", S)
             n == R!Msg("ACK", c \ S)
             q == Append(rest, m)
  <2>1. m \in Messages /\ m.kind = "ACK" /\ n \in Messages /\ n.kind = "ACK"
    BY MessageMade DEF Kinds
  <2>2. /\ q \in Seq(Messages) /\ NoticesIn(q) = NoticesIn(rest)
        /\ \A k \in Logins \cup {"001"} : Has(q, k) <=> Has(rest, k)
        /\ AtMostOne(rest, "001") => AtMostOne(q, "001")
    BY <1>2, <2>1
  <2>3. ASSUME NEW base, NEW excused, Agreed(rest, base, on, excused)
        PROVE  Agreed(Append(q, n), base, on \cup c, excused)
    <3>1. Agreed(q, base, on \cup S, excused)
      BY <1>5, <2>3
    <3>2. (on \cup S) \cup (c \ S) = on \cup c /\ c \ S \in SUBSET c
      OBVIOUS
    <3> HIDE DEF on, m, q
    <3>3. Agreed(Append(q, n), base, (on \cup S) \cup (c \ S), excused)
      BY <1>5, <2>2, <3>1, <3>2
    <3> QED
      BY <3>2, <3>3
  <2> HIDE DEF m, n
  <2>4. inbox' = Append(q, n)
    BY <1>7 DEF m, n
  <2> HIDE DEF q
  <2>5. /\ Append(q, n) \in Seq(Messages) /\ NoticesIn(Append(q, n)) = NoticesIn(q)
        /\ \A k \in Logins \cup {"001"} : Has(Append(q, n), k) <=> Has(q, k)
        /\ AtMostOne(q, "001") => AtMostOne(Append(q, n), "001")
    BY <1>2, <2>1, <2>2
  <2>6. SameServer /\ server'.on = on \cup c
    BY <1>4, <1>7
  <2>7. \A base, excused : Agreed(rest, base, server.on, excused)
                             => Agreed(inbox', base, server'.on, excused)
    BY <2>3, <2>4, <2>6
  <2> QED
    BY <2>2, <2>4, <2>5, <2>6, <2>7
<1> QED
  BY <1>0, <1>1, <1>3, <1>6, <1>7 DEF R!Requested

(* End, wherever it is called from.                                        *)
LEMMA EndKeeps ==
  ASSUME RegInv, server.ircv3 = "yes", pc \notin {"reader", "up"}, NEW on \in SUBSET DESIRED_CAPS, R!End(on),
         UNCHANGED <<caps, creds, cert, notices, shown, changes, early>>, missed' \subseteq DESIRED_CAPS,
         registration_asked' \subseteq DESIRED_CAPS, mech' \in R!Mechanisms \cup {"none"}, mech' # "none" => creds \/ cert,
         inbox' \in Seq(Messages), NoticesIn(inbox') <= NoticesIn(inbox), NoticesIn(inbox') \in Nat,
         \A k : Has(inbox', k) => Has(inbox, k),
         Agreed(inbox', on, server.on, missed'),
         mech' # "none" => ("sasl" \in on <=> server.account)
  PROVE  RegInv'
<1> USE RegFacts DEF RegInv
<1>1. /\ server' \in Servers /\ server'.ircv3 = server.ircv3 /\ server'.account = server.account
      /\ server'.welcomed = server.welcomed
      /\ server'.on = server.on /\ server'.auth = "none" /\ pc' = "reader" /\ enabled' = on
  BY DEF R!End, Servers
<1>2. RegTyped' /\ Counted'
  BY <1>1 DEF RegTyped, Counted
<1>3. ~server.welcomed /\ ~Has(inbox, "001")
  BY DEF Modern, Greeted, RegTyped
<1>4. Negotiated'
  BY <1>1 DEF Negotiated
<1>5. Greeted'
  <2>1. ~Has(inbox', "001")
    BY <1>3
  <2> QED
    BY <1>1, <2>1 DEF Greeted, AtMostOne, Has
<1>6. Agreed(inbox', Base(pc', caps', enabled'), server'.on, missed')
  BY <1>1 DEF Base
<1>7. Modern'
  BY <1>1, <1>4, <1>5, <1>6 DEF Modern
<1> QED
  BY <1>1, <1>2, <1>7

LEMMA CapLsKeeps == ASSUME RegInv, R!CapLs PROVE RegInv'
<1> USE RegFacts DEF RegInv
<1> DEFINE m == Head(inbox)
           rest == Tail(inbox)
           all == registration_asked \cup m.caps
           want == IF R!Select = "none" THEN all \ {"sasl"} ELSE all
           on == server.on
<1>0. /\ pc = "ls" /\ inbox # << >> /\ UNCHANGED <<caps, creds, cert, notices, shown, changes, missed>>
  BY DEF R!CapLs, R!ToTask, R!others
<1>1. /\ m \in Messages /\ rest \in Seq(Messages) /\ Has(inbox, m.kind)
      /\ m.kind \in Kinds /\ m.caps \subseteq DESIRED_CAPS
      /\ \A k : Has(rest, k) => Has(inbox, k)
      /\ AtMostOne(inbox, "001") => AtMostOne(rest, "001")
      /\ NoticesIn(inbox) \in Nat /\ NoticesIn(rest) \in Nat
      /\ NoticesIn(inbox) = NoticesIn(rest) + (IF m.kind = "NOTICE" THEN 1 ELSE 0)
  BY <1>0, Takes
<1>2. R!Select \in R!Mechanisms \cup {"none"} /\ (R!Select # "none" => creds \/ cert)
  BY DEF R!Select, R!Mechanisms
<1>3. all \subseteq DESIRED_CAPS /\ want \subseteq DESIRED_CAPS /\ registration_asked \subseteq DESIRED_CAPS
      /\ mech \in R!Mechanisms \cup {"none"} /\ (mech # "none" => creds \/ cert)
  BY <1>1 DEF RegTyped
<1>4. \/ /\ m.kind = "LS" /\ mech' = R!Select /\ registration_asked' = want /\ UNCHANGED <<early>>
         /\ IF want = {} THEN R!End({}) /\ inbox' = rest
            ELSE pc' = "ack" /\ R!Requested(want, rest) /\ UNCHANGED enabled
      \/ /\ m.kind = "LS*" /\ registration_asked' = all /\ inbox' = rest
         /\ UNCHANGED <<pc, mech, enabled, early, server>>
      \/ /\ m.kind \in {"421", "001"} /\ pc' = "reader" /\ inbox' = rest
         /\ early' = IF m.kind = "001" THEN Append(early, m) ELSE early
         /\ UNCHANGED <<mech, registration_asked, enabled, server>>
      \/ /\ m.kind \notin {"LS", "LS*", "421", "001"} /\ early' = Append(early, m) /\ inbox' = rest
         /\ UNCHANGED <<pc, mech, registration_asked, enabled, server>>
  BY DEF R!CapLs, R!Rest
<1>5. /\ Append(early, m) \in Seq(Messages)
      /\ NoticesIn(Append(early, m)) = NoticesIn(early) + (IF m.kind = "NOTICE" THEN 1 ELSE 0)
  BY <1>1, Put, NoticesPut
<1>6. CASE server.ircv3 = "yes"
  <2>1. /\ Listing /\ Unasked /\ m.kind \in Idles /\ (m.kind # "LS" => LsFirst(rest))
        /\ ~server.ended /\ ~server.welcomed /\ enabled = {} /\ ~Has(inbox, "001")
    BY <1>0, <1>6, LsMoves DEF Modern, Listing, Unasked, Greeted
  <2>2. Agreed(rest, {}, on, missed)
    <3>1. Agreed(inbox, {}, on, missed)
      BY <1>0, <1>6, <2>1 DEF Modern, Base
    <3>2. \A c : ~Tells(m, c)
      BY <2>1 DEF Tells, Idles
    <3> HIDE DEF on
    <3> QED
      BY <1>0, <3>1, <3>2, AgreedTaken
  <2>3. ASSUME m.kind = "LS", mech' = R!Select, registration_asked' = want, UNCHANGED early, R!End({}), inbox' = rest
        PROVE  RegInv'
    <3>1. {} \in SUBSET DESIRED_CAPS /\ ~server.account /\ missed' \subseteq DESIRED_CAPS
          /\ (mech' # "none" => ("sasl" \in {} <=> server.account)) /\ pc \notin {"reader", "up"}
      BY <1>0, <2>1 DEF Unasked
    <3>2. NoticesIn(inbox') <= NoticesIn(inbox) /\ NoticesIn(inbox') \in Nat /\ inbox' \in Seq(Messages)
          /\ \A k : Has(inbox', k) => Has(inbox, k)
      BY <1>1, <2>3
    <3>3. Agreed(inbox', {}, server.on, missed')
      BY <1>0, <2>2, <2>3
    <3>4. /\ UNCHANGED <<caps, creds, cert, notices, shown, changes, early>>
          /\ registration_asked' \subseteq DESIRED_CAPS
          /\ mech' \in R!Mechanisms \cup {"none"} /\ (mech' # "none" => creds \/ cert)
      BY <1>0, <1>2, <1>3, <2>3
    <3> HIDE DEF m, rest, all, want, on
    <3> QED
      BY <1>6, <2>3, <3>1, <3>2, <3>3, <3>4, EndKeeps
  <2>4. ASSUME m.kind = "LS", mech' = R!Select, registration_asked' = want, UNCHANGED early,
               pc' = "ack", R!Requested(want, rest), UNCHANGED enabled
        PROVE  RegInv'
    <3> HIDE DEF m, rest, all, want
    <3>1. /\ SameServer /\ inbox' \in Seq(Messages) /\ NoticesIn(inbox') = NoticesIn(rest)
          /\ \A k \in Logins \cup {"001"} : Has(inbox', k) <=> Has(rest, k)
          /\ Agreed(inbox', {}, server'.on, missed)
      <4>1. want \in SUBSET DESIRED_CAPS /\ rest \in Seq(Messages) /\ R!Requested(want, rest)
        BY <1>1, <1>3, <2>4
      <4> QED
        BY <2>2, <4>1, RequestedFacts
    <3>2. Unasked'
      BY <1>1, <2>1, <2>4, <3>1 DEF Unasked, SameServer
    <3>3. Greeted'
      <4>1. ~Has(inbox', "001") /\ pc' = "ack"
        BY <1>1, <2>1, <2>4, <3>1
      <4>2. AtMostOne(inbox', "001")
        BY <4>1 DEF AtMostOne, Has
      <4> QED
        BY <2>1, <3>1, <4>1, <4>2 DEF Greeted, SameServer
    <3>4. Agreed(inbox', Base(pc', caps', enabled'), server'.on, missed')
      BY <1>0, <2>1, <2>4, <3>1 DEF Base
    <3>5. Modern'
      BY <1>6, <2>4, <3>2, <3>3, <3>4 DEF Modern
    <3>6. RegTyped' /\ Counted'
      BY <1>0, <1>1, <1>2, <1>3, <2>1, <2>4, <3>1 DEF RegTyped, Counted, SameServer
    <3> QED
      BY <1>6, <3>1, <3>5, <3>6 DEF SameServer
  <2>5. ASSUME m.kind # "LS", inbox' = rest, UNCHANGED <<pc, mech, enabled, server>>,
               registration_asked' \subseteq DESIRED_CAPS,
               \/ UNCHANGED early /\ m.kind # "NOTICE"
               \/ early' = Append(early, m) /\ m.kind = "NOTICE"
        PROVE  RegInv'
    <3>0. Has(rest, "LS") <=> Has(inbox, "LS")
      BY <1>0, <2>5, HasTaken
    <3>1. Agreed(inbox', Base(pc', caps', enabled'), server'.on, missed')
      BY <1>0, <2>1, <2>2, <2>5 DEF Base
    <3> HIDE DEF m, rest, all, want, on
    <3>2. Only(early', {"NOTICE"})
      <4>1. Only(early, {"NOTICE"})
        BY <1>6 DEF Modern
      <4>2. CASE early' = Append(early, m) /\ m.kind = "NOTICE"
        BY <1>1, <4>1, <4>2, OnlyMoves
      <4> QED
        BY <2>5, <4>1, <4>2
    <3>3. Listing' /\ Unasked'
      BY <1>1, <2>1, <2>5, <3>0 DEF Listing, Unasked
    <3>4. Greeted'
      BY <1>0, <1>1, <2>1, <2>5 DEF Greeted, AtMostOne, Has
    <3>5. Modern'
      BY <1>0, <1>6, <2>5, <3>1, <3>2, <3>3, <3>4 DEF Modern
    <3>6. RegTyped'
      BY <1>0, <1>1, <1>5, <2>5 DEF RegTyped
    <3>7. /\ NoticesIn(early') \in Nat /\ NoticesIn(inbox') \in Nat
          /\ NoticesIn(early') + NoticesIn(inbox') = NoticesIn(early) + NoticesIn(inbox)
      <4>1. NoticesIn(inbox') = NoticesIn(rest)
        BY <2>5
      <4>2. CASE early' = early /\ m.kind # "NOTICE"
        BY <1>1, <4>1, <4>2
      <4>3. CASE early' = Append(early, m) /\ m.kind = "NOTICE"
        <5>1. NoticesIn(early') = NoticesIn(early) + 1
          BY <1>5, <4>3
        <5>2. NoticesIn(inbox) = NoticesIn(rest) + 1
          BY <1>1, <4>3
        <5>3. NoticesIn(early) \in Nat /\ NoticesIn(rest) \in Nat
          BY <1>1
        <5> QED
          BY SMTT(20), <4>1, <5>1, <5>2, <5>3
      <4> QED
        BY <2>5, <4>2, <4>3
    <3>8. Counted'
      <4>1. Counted /\ shown' = shown /\ notices' = notices
        BY <1>0
      <4>2. NoticesIn(early') + NoticesIn(inbox') <= NoticesIn(early) + NoticesIn(inbox)
        BY <3>7
      <4> QED
        BY <3>7, <4>1, <4>2, RegFacts, StillCounted, Zenon
    <3> QED
      BY <1>6, <2>5, <3>5, <3>6, <3>8
  <2> QED
    BY <1>3, <1>4, <2>1, <2>3, <2>4, <2>5 DEF Idles
<1>7. CASE server.ircv3 # "yes"
  <2> DEFINE K == {"421", "001", "NOTICE"}
  <2>1. Only(inbox, K)
    BY <1>7 DEF Plain
  <2>2. Only(rest, K) /\ m.kind \in K
    BY <1>0, <2>1, OnlyMoves
  <2>3. UNCHANGED <<mech, registration_asked, enabled, server>> /\ inbox' = rest /\ pc' \in {"ls", "reader"}
        /\ \/ UNCHANGED early /\ m.kind = "421"
           \/ early' = Append(early, m) /\ m.kind # "421"
    BY <1>0, <1>4, <2>2
  <2> HIDE DEF m, rest, all, want
  <2>4. Only(early', {"001", "NOTICE"})
    <3>1. Only(early, {"001", "NOTICE"})
      BY <1>7 DEF Plain
    <3>2. CASE early' = Append(early, m) /\ m.kind # "421"
      <4>1. m.kind \in {"001", "NOTICE"}
        BY <2>2, <3>2
      <4> QED
        BY <1>1, <3>1, <3>2, <4>1, OnlyMoves
    <3> QED
      BY <2>3, <3>1, <3>2
  <2>5. Plain'
    BY <1>0, <1>7, <2>2, <2>3, <2>4 DEF Plain
  <2>6. RegTyped'
    BY <1>0, <1>1, <1>5, <2>3 DEF RegTyped
  <2>7. /\ NoticesIn(early') \in Nat /\ NoticesIn(inbox') \in Nat
        /\ NoticesIn(early') + NoticesIn(inbox') <= NoticesIn(early) + NoticesIn(inbox)
    <3>1. NoticesIn(inbox') = NoticesIn(rest)
      BY <2>3
    <3>2. CASE early' = early /\ m.kind = "421"
      BY <1>1, <3>1, <3>2
    <3>3. CASE early' = Append(early, m)
      BY <1>1, <1>5, <3>1, <3>3
    <3> QED
      BY <2>3, <3>2, <3>3
  <2>8. Counted'
    <3>1. Counted /\ shown' = shown /\ notices' = notices
      BY <1>0
    <3> QED
      BY <2>7, <3>1, RegFacts, StillCounted, Zenon
  <2> QED
    BY <1>7, <2>3, <2>5, <2>6, <2>8
<1> QED
  BY <1>6, <1>7

LEMMA CapAckKeeps == ASSUME RegInv, R!CapAck PROVE RegInv'
<1> USE RegFacts DEF RegInv
<1> DEFINE m == Head(inbox)
           rest == Tail(inbox)
           on == IF m.kind = "ACK" THEN m.caps ELSE {}
           told == missed \cup R!Changed(m)
<1>0. /\ pc = "ack" /\ inbox # << >> /\ UNCHANGED <<caps, creds, cert, notices, shown, changes>>
      /\ UNCHANGED <<mech, registration_asked, early>> /\ server.ircv3 = "yes" /\ inbox' = rest
  BY DEF R!CapAck, R!ToTask, R!others, Plain, R!Rest
<1>1. /\ m \in Messages /\ rest \in Seq(Messages) /\ Has(inbox, m.kind)
      /\ m.kind \in Kinds /\ m.caps \subseteq DESIRED_CAPS
      /\ \A k : Has(rest, k) => Has(inbox, k)
      /\ AtMostOne(inbox, "001") => AtMostOne(rest, "001")
      /\ NoticesIn(inbox) \in Nat /\ NoticesIn(rest) \in Nat
      /\ NoticesIn(inbox) = NoticesIn(rest) + (IF m.kind = "NOTICE" THEN 1 ELSE 0)
  BY <1>0, Takes
<1>2. NoticesIn(inbox') \in Nat /\ NoticesIn(inbox') <= NoticesIn(inbox) /\ inbox' \in Seq(Messages)
      /\ (\A k : Has(inbox', k) => Has(inbox, k)) /\ on \subseteq DESIRED_CAPS /\ told \subseteq DESIRED_CAPS
  BY <1>0, <1>1 DEF R!Changed
<1>3. \/ m.kind \notin {"ACK", "NAK"} /\ missed' = told /\ UNCHANGED <<pc, enabled, server>>
      \/ m.kind \in {"ACK", "NAK"} /\ UNCHANGED missed /\ "sasl" \notin on /\ R!End(on)
      \/ /\ m.kind \in {"ACK", "NAK"} /\ UNCHANGED missed /\ "sasl" \in on
         /\ pc' = "plus" /\ enabled' = on /\ server' = [server EXCEPT !.auth = "asked"]
  BY DEF R!CapAck
<1>4. Unasked /\ Greeted /\ Agreed(inbox, {}, server.on, missed)
  BY <1>0 DEF Modern, Unasked, Base
<1>5. m.kind \in {"ACK", "NAK"} => Agreed(rest, on, server.on, missed)
  <2> SUFFICES ASSUME m.kind \in {"ACK", "NAK"} PROVE Agreed(rest, on, server.on, missed)
    OBVIOUS
  <2>1. \A c : IF Tells(m, c) THEN c \in on <=> m.kind = "ACK" ELSE c \in on <=> c \in {}
    BY DEF Tells
  <2> HIDE DEF on
  <2> QED
    BY <1>0, <1>4, <2>1, AgreedTaken
<1>6. m.kind \notin {"ACK", "NAK"} => Agreed(rest, {}, server.on, told)
  <2> SUFFICES ASSUME m.kind \notin {"ACK", "NAK"} PROVE Agreed(rest, {}, server.on, told)
    OBVIOUS
  <2>1. \A c : (Tells(m, c) => c \in told) /\ (c \in missed => c \in told)
    BY DEF Tells, R!Changed
  <2> HIDE DEF told
  <2> QED
    BY <1>0, <1>4, <2>1, AgreedTaken
<1>7. /\ \A k \in Logins : ~Has(rest, k)
      /\ ~Has(rest, "001") /\ ~server.ended /\ ~server.welcomed
  BY <1>0, <1>1, <1>4 DEF Unasked, Greeted
<1> HIDE DEF m, rest, on, told
<1>9. CASE m.kind \notin {"ACK", "NAK"} /\ missed' = told /\ UNCHANGED <<pc, enabled, server>>
  <2>1. Unasked' /\ Greeted' /\ enabled' = {}
    BY <1>0, <1>1, <1>4, <1>7, <1>9 DEF Unasked, Greeted
  <2>2. Agreed(inbox', Base(pc', caps', enabled'), server'.on, missed')
    BY <1>0, <1>6, <1>9, <2>1 DEF Base
  <2>3. Modern'
    BY <1>0, <1>9, <2>1, <2>2 DEF Modern
  <2> QED
    BY <1>0, <1>1, <1>2, <1>9, <2>3 DEF RegTyped, Counted
<1>10. CASE m.kind \in {"ACK", "NAK"} /\ UNCHANGED missed /\ "sasl" \notin on /\ R!End(on)
  <2>1. Agreed(inbox', on, server.on, missed') /\ ~server.account
    BY <1>0, <1>4, <1>5, <1>10 DEF Unasked
  <2>2. registration_asked' \subseteq DESIRED_CAPS /\ mech' \in R!Mechanisms \cup {"none"} /\ (mech' # "none" => creds \/ cert)
        /\ missed' \subseteq DESIRED_CAPS /\ pc \notin {"reader", "up"}
    BY <1>0, <1>10 DEF RegTyped
  <2>3. R!End(on) /\ (mech' # "none" => ("sasl" \in on <=> server.account))
    BY <1>10, <2>1
  <2> QED
    BY <1>0, <1>2, <2>1, <2>2, <2>3, EndKeeps
<1>11. CASE /\ m.kind \in {"ACK", "NAK"} /\ UNCHANGED missed /\ "sasl" \in on
            /\ pc' = "plus" /\ enabled' = on /\ server' = [server EXCEPT !.auth = "asked"]
  <2>1. /\ server' \in Servers /\ server'.ircv3 = server.ircv3 /\ server'.account = server.account
        /\ server'.welcomed = server.welcomed
        /\ server'.on = server.on /\ server'.auth = "asked" /\ server'.ended = server.ended
    BY <1>11 DEF Servers
  <2>2. AwaitingPlus'
    BY <1>0, <1>4, <1>7, <2>1 DEF AwaitingPlus, Unasked, Logins
  <2>3. Greeted'
    BY <1>0, <1>1, <1>4, <1>7, <1>11, <2>1 DEF Greeted
  <2>4. Agreed(inbox', Base(pc', caps', enabled'), server'.on, missed')
    BY <1>0, <1>5, <1>11, <2>1 DEF Base
  <2>5. Modern'
    BY <1>0, <1>11, <2>2, <2>3, <2>4 DEF Modern
  <2>6. RegTyped' /\ Counted'
    BY <1>0, <1>1, <1>2, <1>11, <2>1 DEF RegTyped, Counted
  <2> QED
    BY <1>0, <2>1, <2>5, <2>6
<1> QED
  BY <1>3, <1>9, <1>10, <1>11

LEMMA AwaitKeeps == ASSUME RegInv, R!AwaitAuthenticatePlus \/ R!RunSasl PROVE RegInv'
<1> USE RegFacts DEF RegInv
<1> DEFINE m == Head(inbox)
           rest == Tail(inbox)
           told == missed \cup R!Changed(m)
<1>0. /\ pc \in {"plus", "sasl"} /\ inbox # << >> /\ missed' = told
      /\ UNCHANGED <<caps, creds, cert, notices, shown, changes, mech, registration_asked, early>>
      /\ server.ircv3 = "yes" /\ inbox' = rest
  BY DEF R!AwaitAuthenticatePlus, R!RunSasl, R!ToTask, R!others, Plain, R!Rest
<1>1. /\ m \in Messages /\ rest \in Seq(Messages) /\ Has(inbox, m.kind)
      /\ m.kind \in Kinds /\ m.caps \subseteq DESIRED_CAPS
      /\ \A k : Has(rest, k) => Has(inbox, k)
      /\ AtMostOne(inbox, "001") => AtMostOne(rest, "001")
      /\ NoticesIn(inbox) \in Nat /\ NoticesIn(rest) \in Nat
      /\ NoticesIn(inbox) = NoticesIn(rest) + (IF m.kind = "NOTICE" THEN 1 ELSE 0)
  BY <1>0, Takes
<1>2. NoticesIn(inbox') \in Nat /\ NoticesIn(inbox') <= NoticesIn(inbox) /\ inbox' \in Seq(Messages)
      /\ (\A k : Has(inbox', k) => Has(inbox, k)) /\ missed' \subseteq DESIRED_CAPS
  BY <1>0, <1>1 DEF R!Changed
<1>3. /\ Greeted /\ "sasl" \in enabled
      /\ (pc = "plus" => AwaitingPlus) /\ (pc = "sasl" => LoggingIn)
  BY <1>0 DEF Modern
<1>4. ASSUME NEW on, on \ {"sasl"} = enabled \ {"sasl"} PROVE Agreed(rest, on, server.on, told)
  <2>1. Agreed(inbox, enabled, server.on, missed)
    BY <1>0 DEF Modern, Base
  <2>2. \A c : (Tells(m, c) => c \in told) /\ (c \in missed => c \in told)
    BY DEF Tells, R!Changed
  <2>3. \A c \in DESIRED_CAPS \ {"sasl"} : c \in on <=> c \in enabled
    BY <1>4
  <2> HIDE DEF told
  <2> QED
    BY <1>0, <2>1, <2>2, <2>3, AgreedTaken
<1>5. AtMostOne(inbox, "server-first") =>
        AtMostOne(rest, "server-first") /\ (m.kind = "server-first" => ~Has(rest, "server-first"))
  BY <1>0, HasTaken
<1> HIDE DEF m, rest, told
<1>6. ASSUME NEW on \in SUBSET enabled, R!End(on), on \ {"sasl"} = enabled \ {"sasl"},
             "sasl" \in on <=> server.account
      PROVE  RegInv'
  <2>1. Agreed(inbox', on, server.on, missed') /\ pc \notin {"reader", "up"} /\ on \in SUBSET DESIRED_CAPS
    BY <1>0, <1>4, <1>6
  <2>2. registration_asked' \subseteq DESIRED_CAPS /\ mech' \in R!Mechanisms \cup {"none"} /\ (mech' # "none" => creds \/ cert)
    BY <1>0 DEF RegTyped
  <2> QED
    BY <1>0, <1>2, <1>6, <2>1, <2>2, EndKeeps
<1>7. ASSUME pc' \in {"plus", "sasl"}, UNCHANGED enabled, server' \in Servers, server'.on = server.on,
             server'.ended = server.ended, server'.welcomed = server.welcomed,
             server'.ircv3 = server.ircv3,
             pc' = "plus" => AwaitingPlus', pc' = "sasl" => LoggingIn'
      PROVE  RegInv'
  <2>1. Greeted'
    BY <1>0, <1>1, <1>3, <1>7 DEF Greeted
  <2>2. Agreed(inbox', Base(pc', caps', enabled'), server'.on, missed')
    BY <1>0, <1>4, <1>7 DEF Base
  <2>3. Modern'
    BY <1>0, <1>3, <1>7, <2>1, <2>2 DEF Modern
  <2>4. RegTyped' /\ Counted'
    BY <1>0, <1>1, <1>2, <1>7 DEF RegTyped, Counted
  <2> QED
    BY <1>0, <1>7, <2>3, <2>4
<1>8. CASE R!AwaitAuthenticatePlus
  <2>0. pc = "plus" /\ AwaitingPlus
    BY <1>3, <1>8 DEF R!AwaitAuthenticatePlus
  <2>1. CASE m.kind = "904" /\ R!Fails
    <3>1. ~server.account
      BY <2>0 DEF AwaitingPlus
    <3> QED
      BY <2>1, <3>1, <1>6 DEF R!Fails
  <2>2. CASE m.kind = "AUTHENTICATE +" /\ pc' = "sasl" /\ UNCHANGED enabled
             /\ server' = [server EXCEPT !.auth = R!FirstReply]
    <3>1. R!FirstReply \in {"first", "credentials"}
      BY DEF R!FirstReply
    <3>2. /\ server' \in Servers /\ server'.on = server.on /\ server'.ended = server.ended
          /\ server'.auth = R!FirstReply /\ server'.account = server.account
          /\ server'.welcomed = server.welcomed /\ server'.ircv3 = server.ircv3
      BY <2>2, <3>1 DEF Servers
    <3>3. server.auth = "ready"
      BY <1>1, <2>0, <2>2 DEF AwaitingPlus
    <3>4. ~Has(rest, "904") /\ ~Has(rest, "903") /\ ~Has(rest, "server-first") /\ ~server.account
      BY <1>1, <2>0, <3>3 DEF AwaitingPlus
    <3>5. AtMostOne(rest, "server-first")
      BY <3>4 DEF AtMostOne, Has
    <3>6. LoggingIn'
      BY <1>0, <3>1, <3>2, <3>4, <3>5 DEF LoggingIn
    <3> QED
      BY <1>7, <2>2, <3>2, <3>6
  <2>3. CASE UNCHANGED <<pc, enabled, server>>
    <3>1. AwaitingPlus'
      BY <1>0, <1>1, <2>0, <2>3 DEF AwaitingPlus
    <3> QED
      BY <1>7, <2>0, <2>3, <3>1
  <2> QED
    BY <1>8, <2>1, <2>2, <2>3 DEF R!AwaitAuthenticatePlus, m
<1>9. CASE R!RunSasl
  <2>0. pc = "sasl" /\ LoggingIn
    BY <1>3, <1>9 DEF R!RunSasl
  <2>1. CASE m.kind = "903" /\ R!End(enabled)
    <3>1. server.account
      BY <1>1, <2>0, <2>1 DEF LoggingIn
    <3> QED
      BY <1>3, <2>1, <3>1, <1>6
  <2>2. CASE m.kind = "904" /\ R!Fails
    <3>1. ~server.account
      BY <1>1, <2>0, <2>2 DEF LoggingIn
    <3> QED
      BY <2>2, <3>1, <1>6 DEF R!Fails
  <2>3. CASE m.kind = "server-first" /\ UNCHANGED <<pc, enabled>>
             /\ server' = [server EXCEPT !.auth = "credentials"]
    <3>1. /\ server' \in Servers /\ server'.on = server.on /\ server'.ended = server.ended
          /\ server'.auth = "credentials" /\ server'.account = server.account
          /\ server'.welcomed = server.welcomed /\ server'.ircv3 = server.ircv3
      BY <2>3 DEF Servers
    <3>2. server.auth = "challenged" /\ ~Has(rest, "server-first") /\ AtMostOne(rest, "server-first")
      BY <1>1, <1>5, <2>0, <2>3 DEF LoggingIn
    <3>3. ~Has(rest, "904") /\ ~Has(rest, "903") /\ ~server.account
      BY <1>1, <2>0, <3>2 DEF LoggingIn
    <3>4. LoggingIn'
      BY <1>0, <3>1, <3>2, <3>3 DEF LoggingIn
    <3> QED
      BY <1>7, <2>0, <2>3, <3>1, <3>4
  <2>4. CASE UNCHANGED <<pc, enabled, server>>
    <3>1. LoggingIn'
      BY <1>0, <1>1, <1>5, <2>0, <2>4 DEF LoggingIn
    <3> QED
      BY <1>7, <2>0, <2>4, <3>1
  <2> QED
    BY <1>9, <2>1, <2>2, <2>3, <2>4 DEF R!RunSasl, R!Succeeds, R!Awaited, m
<1> QED
  BY <1>8, <1>9

LEMMA PlusTimesOutKeeps == ASSUME RegInv, R!PlusTimesOut PROVE RegInv'
<1> USE RegFacts DEF RegInv
<1> DEFINE on == enabled \ {"sasl"}
<1>0. /\ pc = "plus" /\ R!End(on) /\ UNCHANGED <<caps, creds, cert, notices, shown, changes, inbox, mech, registration_asked, early, missed>>
      /\ server.ircv3 = "yes"
  BY DEF R!PlusTimesOut, R!Fails, R!others, Plain
<1>1. on \in SUBSET DESIRED_CAPS /\ Agreed(inbox', on, server.on, missed') /\ ~server.account
  <2>1. Agreed(inbox, enabled, server.on, missed) /\ ~server.account
    BY <1>0 DEF Modern, Base, AwaitingPlus
  <2>2. Agreed(inbox, on, server.on, missed)
    BY <2>1 DEF Agreed, Settled
  <2> QED
    BY <1>0, <2>1, <2>2
<1>2. /\ registration_asked' \subseteq DESIRED_CAPS /\ mech' \in R!Mechanisms \cup {"none"} /\ (mech' # "none" => creds \/ cert)
      /\ inbox' \in Seq(Messages) /\ NoticesIn(inbox') \in Nat /\ NoticesIn(inbox') <= NoticesIn(inbox)
      /\ (\A k : Has(inbox', k) => Has(inbox, k)) /\ missed' \subseteq DESIRED_CAPS
  BY <1>0 DEF RegTyped
<1>3. mech' # "none" => ("sasl" \in on <=> server.account)
  BY <1>1
<1> HIDE DEF on
<1> QED
  BY <1>0, <1>1, <1>2, <1>3, EndKeeps

(* One message that the reader task takes.                                 *)
LEMMA HandleFacts ==
  ASSUME RegTyped, NEW m \in Messages, NEW rest \in Seq(Messages), R!Handle(m, rest)
  PROVE  /\ SameServer /\ inbox' \in Seq(Messages)
         /\ NoticesIn(rest) \in Nat /\ NoticesIn(inbox') = NoticesIn(rest)
         /\ Has(inbox', "001") <=> Has(rest, "001")
         /\ AtMostOne(rest, "001") => AtMostOne(inbox', "001")
         /\ \A base, excused : Agreed(rest, base, server.on, excused)
                                 => Agreed(inbox', base, server'.on, excused)
         /\ IF m.kind = "001" THEN pc' = "up" ELSE pc' = pc
         /\ caps' = IF m.kind = "001" THEN enabled ELSE IF m.kind = "DEL" THEN caps \ m.caps
                    ELSE IF m.kind = "ACK" THEN caps \cup m.caps ELSE caps
         /\ shown' = (IF m.kind = "NOTICE" THEN shown + 1 ELSE shown)
         /\ m.kind # "NEW" => inbox' = rest /\ UNCHANGED server
<1> USE RegFacts
<1>0. m.caps \subseteq DESIRED_CAPS /\ NoticesIn(rest) \in Nat
  BY NoticesPut DEF Messages
<1>1. CASE m.kind = "NEW" /\ UNCHANGED <<pc, caps, shown>> /\ R!Requested((m.caps \cap DESIRED_CAPS) \ caps, rest)
  <2> DEFINE new == (m.caps \cap DESIRED_CAPS) \ caps
  <2>1. new \in SUBSET DESIRED_CAPS /\ R!Requested(new, rest)
    BY <1>1
  <2> HIDE DEF new
  <2>2. /\ SameServer /\ inbox' \in Seq(Messages) /\ NoticesIn(inbox') = NoticesIn(rest)
        /\ \A k \in Logins \cup {"001"} : Has(inbox', k) <=> Has(rest, k)
        /\ AtMostOne(rest, "001") => AtMostOne(inbox', "001")
        /\ \A base, excused : Agreed(rest, base, server.on, excused)
                                => Agreed(inbox', base, server'.on, excused)
    BY <2>1, RequestedFacts
  <2> QED
    BY <1>0, <1>1, <2>2
<1>2. CASE inbox' = rest /\ UNCHANGED server
  <2>1. SameServer
    BY <1>2 DEF SameServer
  <2>2. /\ IF m.kind = "001" THEN pc' = "up" ELSE pc' = pc
        /\ caps' = IF m.kind = "001" THEN enabled ELSE IF m.kind = "DEL" THEN caps \ m.caps
                   ELSE IF m.kind = "ACK" THEN caps \cup m.caps ELSE caps
        /\ shown' = (IF m.kind = "NOTICE" THEN shown + 1 ELSE shown)
    BY <1>0, <1>2 DEF R!Handle, R!HandleCapDel, R!Deleted
  <2> QED
    BY <1>0, <1>2, <2>1, <2>2
<1> QED
  BY <1>1, <1>2 DEF R!Handle

LEMMA ReadKeeps == ASSUME RegInv, R!Read PROVE RegInv'
<1> USE RegFacts DEF RegInv
<1> DEFINE m == Head(R!Source)
<1>0. /\ pc \in {"reader", "up"} /\ UNCHANGED <<mech, registration_asked, enabled, creds, cert, notices, changes>>
      /\ missed' = IF pc = "up" THEN missed \ R!Changed(m) ELSE missed \cup R!Changed(m)
  BY DEF R!Read
<1>1. CASE early # << >>
  <2>0. m = Head(early)
    BY <1>1 DEF R!Source
  <2>1. early' = Tail(early) /\ R!Handle(m, inbox)
    BY <1>1 DEF R!Read, R!Source
  <2>2. /\ m \in Messages /\ Tail(early) \in Seq(Messages) /\ m.kind \in Kinds
        /\ NoticesIn(early) \in Nat /\ NoticesIn(Tail(early)) \in Nat
        /\ NoticesIn(early) = NoticesIn(Tail(early)) + (IF m.kind = "NOTICE" THEN 1 ELSE 0)
        /\ m.caps \subseteq DESIRED_CAPS
    BY <1>1, <2>0, Takes
  <2> HIDE DEF m
  <2>3. /\ SameServer /\ inbox' \in Seq(Messages)
        /\ NoticesIn(inbox) \in Nat /\ NoticesIn(inbox') = NoticesIn(inbox)
        /\ IF m.kind = "001" THEN pc' = "up" ELSE pc' = pc
        /\ caps' = IF m.kind = "001" THEN enabled ELSE IF m.kind = "DEL" THEN caps \ m.caps
                   ELSE IF m.kind = "ACK" THEN caps \cup m.caps ELSE caps
        /\ shown' = (IF m.kind = "NOTICE" THEN shown + 1 ELSE shown)
        /\ m.kind # "NEW" => inbox' = inbox /\ UNCHANGED server
    BY <2>1, <2>2, HandleFacts
  <2>4. RegTyped' /\ Counted'
    <3>0. R!Changed(m) \subseteq DESIRED_CAPS
      BY <2>2 DEF R!Changed
    <3>1. RegTyped'
      BY <1>0, <2>1, <2>2, <2>3, <3>0 DEF RegTyped, SameServer
    <3>2. shown' + NoticesIn(early') = shown + NoticesIn(early)
      BY <2>1, <2>2, <2>3
    <3> QED
      BY <1>0, <2>1, <2>2, <2>3, <3>1, <3>2 DEF Counted
  <2>5. CASE server.ircv3 = "yes"
    <3>1. Only(early, {"NOTICE"})
      BY <2>5 DEF Modern
    <3>2. m.kind = "NOTICE" /\ Only(early', {"NOTICE"})
      BY <1>1, <2>0, <2>1, <3>1, OnlyMoves
    <3>3. UNCHANGED <<pc, caps, inbox, server, missed>>
      BY <1>0, <2>3, <3>2 DEF R!Changed
    <3>4. Negotiated' /\ Greeted'
      BY <1>0, <2>5, <3>3 DEF Modern, Negotiated, Greeted
    <3>5. Agreed(inbox', Base(pc', caps', enabled'), server'.on, missed')
      BY <1>0, <2>5, <3>3 DEF Modern
    <3>6. Modern'
      BY <1>0, <2>5, <3>2, <3>3, <3>4, <3>5 DEF Modern
    <3> QED
      BY <2>4, <2>5, <3>3, <3>6
  <2>6. CASE server.ircv3 # "yes"
    <3> DEFINE K == {"001", "NOTICE"}
    <3>1. Only(early, K)
      BY <2>6 DEF Plain
    <3>2. m.kind \in K /\ Only(early', K)
      BY <1>1, <2>0, <2>1, <3>1, OnlyMoves
    <3>3. caps' = {} /\ UNCHANGED <<inbox, server>>
      BY <2>3, <2>6, <3>2 DEF Plain
    <3>4. Plain'
      BY <1>0, <2>3, <2>6, <3>2, <3>3 DEF Plain
    <3> QED
      BY <2>4, <2>6, <3>3, <3>4
  <2> QED
    BY <2>5, <2>6
<1>2. CASE early = << >>
  <2> DEFINE rest == Tail(inbox)
  <2>0. m = Head(inbox)
    BY <1>2 DEF R!Source
  <2>1. early' = early /\ R!Handle(m, rest) /\ inbox # << >>
    BY <1>2 DEF R!Read, R!Source, R!Rest
  <2>2. /\ m \in Messages /\ rest \in Seq(Messages) /\ m.kind \in Kinds /\ Has(inbox, m.kind)
        /\ m.caps \subseteq DESIRED_CAPS
        /\ \A k : Has(rest, k) => Has(inbox, k)
        /\ NoticesIn(inbox) \in Nat /\ NoticesIn(rest) \in Nat
        /\ NoticesIn(inbox) = NoticesIn(rest) + (IF m.kind = "NOTICE" THEN 1 ELSE 0)
    BY <2>0, <2>1, Takes
  <2>3. /\ Has(inbox, "001") <=> (m.kind = "001" \/ Has(rest, "001"))
        /\ AtMostOne(inbox, "001") => AtMostOne(rest, "001") /\ (m.kind = "001" => ~Has(rest, "001"))
    BY <2>0, <2>1, HasTaken
  <2> HIDE DEF m, rest
  <2>4. /\ SameServer /\ inbox' \in Seq(Messages)
        /\ NoticesIn(rest) \in Nat /\ NoticesIn(inbox') = NoticesIn(rest)
        /\ Has(inbox', "001") <=> Has(rest, "001")
        /\ AtMostOne(rest, "001") => AtMostOne(inbox', "001")
        /\ IF m.kind = "001" THEN pc' = "up" ELSE pc' = pc
        /\ caps' = IF m.kind = "001" THEN enabled ELSE IF m.kind = "DEL" THEN caps \ m.caps
                   ELSE IF m.kind = "ACK" THEN caps \cup m.caps ELSE caps
        /\ shown' = (IF m.kind = "NOTICE" THEN shown + 1 ELSE shown)
        /\ m.kind # "NEW" => inbox' = rest /\ UNCHANGED server
    BY <2>1, <2>2, HandleFacts
  <2>5. \A base, excused : Agreed(rest, base, server.on, excused)
                             => Agreed(inbox', base, server'.on, excused)
    BY <2>1, <2>2, HandleFacts
  <2>6. RegTyped' /\ Counted'
    <3>0. R!Changed(m) \subseteq DESIRED_CAPS
      BY <2>2 DEF R!Changed
    <3>1. RegTyped'
      BY <1>0, <2>1, <2>2, <2>4, <3>0 DEF RegTyped, SameServer
    <3>2. shown' + NoticesIn(inbox') = shown + NoticesIn(inbox)
      BY <2>1, <2>2, <2>4
    <3> QED
      BY <1>0, <2>1, <2>2, <2>4, <3>1, <3>2 DEF Counted
  <2>7. CASE server.ircv3 = "yes"
    <3>1. Negotiated'
      BY <1>0, <2>4, <2>7 DEF Modern, Negotiated, SameServer
    <3>2. Greeted'
      BY <1>0, <2>3, <2>4, <2>7 DEF Modern, Greeted, SameServer
    <3>3. m.kind = "001" => pc = "reader"
      BY <2>3, <2>7 DEF Modern, Greeted
    <3> DEFINE base == Base(pc, caps, enabled)
    <3>4. Agreed(inbox, base, server.on, missed)
      BY <2>7 DEF Modern
    <3>5. PICK b : b = IF pc = "up" \/ m.kind = "001" THEN (IF m.kind = "001" THEN enabled ELSE IF m.kind = "DEL" THEN caps \ m.caps
                   ELSE IF m.kind = "ACK" THEN caps \cup m.caps ELSE caps) ELSE enabled
      OBVIOUS
    <3>6. PICK x : x = IF pc = "up" THEN missed \ R!Changed(m) ELSE missed \cup R!Changed(m)
      OBVIOUS
    <3>7. b = Base(pc', caps', enabled') /\ x = missed'
      BY <1>0, <2>4, <3>5, <3>6 DEF Base
    <3>8. ASSUME NEW c \in DESIRED_CAPS \ {"sasl"}
          PROVE  IF Tells(m, c) THEN c \in x \/ (c \in b <=> m.kind = "ACK")
                                ELSE (c \in missed => c \in x) /\ (c \in b <=> c \in base)
      <4>1. c \in R!Changed(m) <=> Tells(m, c)
        BY DEF R!Changed, Tells
      <4>2. CASE pc = "up"
        <5>1. m.kind # "001" /\ base = caps
          BY <3>3, <4>2 DEF Base
        <5>2. b = IF m.kind = "DEL" THEN caps \ m.caps ELSE IF m.kind = "ACK" THEN caps \cup m.caps ELSE caps
          BY <3>5, <4>2, <5>1
        <5>3. CASE Tells(m, c)
          BY <5>2, <5>3 DEF Tells
        <5>4. CASE ~Tells(m, c)
          BY <3>6, <4>1, <4>2, <5>1, <5>2, <5>4 DEF Tells
        <5> QED
          BY <5>3, <5>4
      <4>3. CASE pc # "up"
        <5>1. b = enabled /\ base = enabled
          BY <3>5, <4>3 DEF Base
        <5> QED
          BY <3>6, <4>1, <4>3, <5>1
      <4> QED
        BY <4>2, <4>3
    <3>9. Agreed(rest, b, server.on, x)
      <4> HIDE DEF base
      <4>1. Agreed(Tail(inbox), b, server.on, x)
        BY <2>0, <2>1, <3>4, <3>8, AgreedTaken
      <4> QED
        BY <4>1 DEF rest
    <3>10. Agreed(inbox', Base(pc', caps', enabled'), server'.on, missed')
      BY <2>5, <3>7, <3>9
    <3>11. pc' \in {"reader", "up"} /\ Only(early', {"NOTICE"})
      BY <1>0, <2>1, <2>4, <2>7 DEF Modern
    <3>12. Modern'
      BY <3>1, <3>2, <3>10, <3>11 DEF Modern
    <3> QED
      BY <2>4, <2>6, <2>7, <3>12 DEF SameServer
  <2>8. CASE server.ircv3 # "yes"
    <3> DEFINE K == {"421", "001", "NOTICE"}
    <3>1. Only(inbox, K)
      BY <2>8 DEF Plain
    <3>2. m.kind \in K /\ Only(rest, K)
      BY <2>0, <2>1, <3>1, OnlyMoves DEF rest
    <3>3. caps' = {} /\ UNCHANGED server /\ inbox' = rest
      BY <2>4, <2>8, <3>2 DEF Plain
    <3>4. Plain'
      BY <1>0, <2>1, <2>4, <2>8, <3>2, <3>3 DEF Plain
    <3> QED
      BY <2>6, <2>8, <3>3, <3>4
  <2> QED
    BY <2>7, <2>8
<1> QED
  BY <1>1, <1>2

-----------------------------------------------------------------------------
LEMMA RegInit == ASSUME R!Init PROVE RegInv
<1> USE DEF R!Init
<1>1. PICK v \in {"yes", "no", "unknown"}, o \in SUBSET DESIRED_CAPS, m \in SUBSET R!Mechanisms :
        server = [ircv3 |-> v, offers |-> o, on |-> {}, mechs |-> m, account |-> FALSE,
                  auth |-> "none", ended |-> FALSE, welcomed |-> FALSE, answered |-> FALSE,
                  silent |-> FALSE]
  OBVIOUS
<1>2. server \in Servers /\ server.on = {} /\ server.auth = "none" /\ ~server.account
      /\ ~server.ended /\ ~server.welcomed /\ ~server.answered
  BY <1>1 DEF Servers
<1>3. << >> \in Seq(Messages) /\ DOMAIN << >> = {}
  BY EmptySeq
<1>4. NoticesIn(<< >>) = 0
  <2>1. {i \in DOMAIN << >> : << >>[i].kind = "NOTICE"} = {}
    BY <1>3
  <2> QED
    BY <2>1, FS_EmptySet DEF NoticesIn
<1>5. \A k : ~Has(<< >>, k)
  BY <1>3 DEF Has
<1>6. RegTyped /\ Counted
  BY <1>2, <1>3, <1>4, RegistrationAssumption DEF RegTyped, Counted
<1>7. Plain
  BY <1>2, <1>5 DEF Plain, Only
<1>8. Listing /\ Unasked /\ Greeted
  BY <1>2, <1>3, <1>5 DEF Listing, LsFirst, Unasked, Greeted, AtMostOne
<1>9. Agreed(inbox, Base(pc, caps, enabled), server.on, missed)
  BY <1>2, <1>3 DEF Agreed, Settled, Base
<1>10. Modern
  BY <1>2, <1>5, <1>8, <1>9 DEF Modern, Only
<1> QED
  BY <1>6, <1>7, <1>10 DEF RegInv

LEMMA RegNext == ASSUME RegInv, [R!Next]_(R!vars) PROVE RegInv'
<1>1. CASE UNCHANGED R!vars
  <2>1. RegTyped' /\ Counted' /\ (Plain => Plain') /\ UNCHANGED server
    BY <1>1 DEF R!vars, R!task, RegInv, RegTyped, Counted, Plain
  <2>2. Modern => Modern'
    BY <1>1 DEF R!vars, R!task, Modern, Listing, Unasked, AwaitingPlus, LoggingIn, Negotiated, Greeted
  <2> QED
    BY <2>1, <2>2 DEF RegInv
<1>2. CASE R!FallsSilent \/ R!AnswerLs \/ R!Notice \/ R!Authenticates \/ R!Welcome
  BY <1>2, SilentKeeps, AnswerLsKeeps, NoticeKeeps, AuthenticatesKeeps, WelcomeKeeps
<1>3. ASSUME NEW c \in DESIRED_CAPS, R!Withdraws(c) \/ R!Offers(c) PROVE RegInv'
  BY <1>3, NotifyKeeps
<1>4. CASE R!CapLs \/ R!CapAck \/ R!AwaitAuthenticatePlus \/ R!PlusTimesOut \/ R!RunSasl \/ R!Read
  BY <1>4, CapLsKeeps, CapAckKeeps, AwaitKeeps, PlusTimesOutKeeps, ReadKeeps
<1> QED
  BY <1>1, <1>2, <1>3, <1>4 DEF R!Next

LEMMA RegSuffices == ASSUME RegInv PROVE R!TypeOK /\ R!CapsAgree /\ R!LoginIsMutual
<1> USE RegFacts DEF RegInv
<1>1. R!TypeOK
  BY DEF RegTyped, Counted, R!TypeOK
<1>2. R!LoginIsMutual
  BY DEF R!LoginIsMutual, Modern, Negotiated
<1>3. R!CapsAgree
  <2> SUFFICES ASSUME pc = "up", R!Source = << >>, NEW c \in DESIRED_CAPS \ {"sasl"}, c \notin missed
               PROVE  c \in caps <=> c \in server.on
    BY DEF R!CapsAgree
  <2>1. inbox = << >>
    BY DEF R!Source
  <2>2. CASE server.ircv3 = "yes"
    <3>1. Settled(<< >>, caps, server.on, c, c \in missed)
      BY <2>1, <2>2 DEF Modern, Base, Agreed
    <3> QED
      BY <3>1 DEF Settled
  <2>3. CASE server.ircv3 # "yes"
    BY <2>3 DEF Plain
  <2> QED
    BY <2>2, <2>3
<1> QED
  BY <1>1, <1>2, <1>3

-----------------------------------------------------------------------------
(* The registration among the parts of MCProgress.                         *)
LEMMA RegistrationInvariance == MCSpec => [](part = "registration" => RegInv)
<1> DEFINE I1 == part = "registration" => RegInv
<1>1. MCInit => I1
  BY RegInit DEF MCInit
<1>2. I1 /\ [MCNext]_mcVars => I1'
  <2> SUFFICES ASSUME I1, [MCNext]_mcVars, part' = "registration" PROVE RegInv'
    OBVIOUS
  <2>1. part = "registration" /\ [R!Next]_(R!vars)
    BY DEF MCNext, mcVars, registrationVars, R!vars, R!task, QueryOnly, LogOnly, CommandsOnly,
           ShellOnly, ImagesOnly
  <2> QED
    BY <2>1, RegNext
<1> QED
  BY <1>1, <1>2, PTL DEF MCSpec

(* With nothing under way the client and the server agree on the           *)
(* capabilities (negotiate_caps in irc/mod.rs, the CAP handlers in         *)
(* irc/events.rs), however the answers are split and whatever is offered   *)
(* or withdrawn meanwhile, before the welcome too, but for those whose     *)
(* last ACK or DEL the client took before the welcome, where it loses it.  *)
(* They agree on the login also if the client gave up waiting for          *)
(* AUTHENTICATE +, while the server answered or not.                       *)
THEOREM RegistrationAgrees == MCSpec => []ServerAndClientAgree
<1>1. (part = "registration" => RegInv) => ServerAndClientAgree
  BY RegSuffices DEF ServerAndClientAgree, CapsAgree, LoginIsMutual
<1>2. MCSpec => [](part = "registration" => RegInv)
  BY RegistrationInvariance
<1> QED
  BY <1>1, <1>2, PTL

-----------------------------------------------------------------------------
(* The log: what is submitted moves from the channel to the queue, into a  *)
(* flush and into the table, in order, and leaves only for a reason.       *)

RowsOf(s) == {s[i] : i \in DOMAIN s}
Ordered(s) == \A i, j \in DOMAIN s : i < j => s[i].id < s[j].id
Before(S, T) == \A x \in S, y \in T : x < y
Chain(a, b, c, d) == /\ Before(a, b) /\ Before(a, c) /\ Before(a, d)
                     /\ Before(b, c) /\ Before(b, d) /\ Before(c, d)
(* A copy refers to an earlier row, which is of the same event.            *)
Alike(rows) ==
  \A r \in rows : /\ r.ref < r.id
                  /\ \A q \in rows : q.id = r.ref => q.event /\ r.event /\ q.ts = r.ts
InPlay == RowsOf(messages) \cup RowsOf(writing) \cup RowsOf(log_queue) \cup RowsOf(rowTx)

(* The inductive invariant.                                                *)
LogTypes ==
  /\ rowTx \in Seq(L!Rows) /\ log_queue \in Seq(L!Rows) /\ writing \in Seq(L!Rows)
  /\ messages \in Seq(L!Rows)
  /\ Len(rowTx) <= ChannelCap /\ Len(log_queue) <= MAX_PENDING_ROWS
  /\ Len(writing) <= MAX_PENDING_ROWS
  /\ closing \in BOOLEAN /\ logClock \in 0 .. MaxClock /\ rowCount \in 0 .. MaxRows
  /\ log_faults \in 0 .. MaxFaults /\ lost \subseteq 1 .. MaxRows /\ purged \subseteq 1 .. MaxRows
LogOrder ==
  /\ Ordered(messages) /\ Ordered(writing) /\ Ordered(log_queue) /\ Ordered(rowTx)
  /\ Chain(L!Ids(messages), L!Ids(writing), L!Ids(log_queue), L!Ids(rowTx))
LogPhase ==
  /\ writer \in {"waits", "flushes", "last flush", "stopped"}
  /\ writer \in {"waits", "stopped"} => writing = <<>>
  /\ writer # "waits" => log_queue = <<>>
LogInv == LogTypes /\ LogOrder /\ LogPhase /\ L!EveryRowIsAccountedFor /\ Alike(InPlay)

LEMMA LogBounds ==
  /\ LastBuffer \in Nat /\ ChannelCap \in Nat /\ MAX_PENDING_ROWS \in Nat /\ MaxRows \in Nat
  /\ MaxClock \in Nat /\ MaxFaults \in Nat /\ BATCH_SIZE \in Nat
BY LogAssumption DEF L!LogAssumption

-----------------------------------------------------------------------------
(* Pieces of sequences of rows.                                            *)

LEMMA RowFacts ==
  ASSUME NEW s \in Seq(L!Rows)
  PROVE  /\ Len(s) \in Nat /\ DOMAIN s = 1 .. Len(s)
         /\ \A i \in DOMAIN s : /\ s[i] \in L!Rows /\ s[i] \in RowsOf(s) /\ s[i].id \in L!Ids(s)
                                /\ s[i].id \in 1 .. MaxRows
         /\ \A x \in L!Ids(s) : \E i \in DOMAIN s : x = s[i].id
         /\ \A x \in RowsOf(s) : \E i \in DOMAIN s : x = s[i]
         /\ L!Ids(s) \subseteq 1 .. MaxRows
<1>1. Len(s) \in Nat /\ DOMAIN s = 1 .. Len(s) /\ \A i \in DOMAIN s : s[i] \in L!Rows
  OBVIOUS
<1>2. \A r \in L!Rows : r.id \in 1 .. MaxRows
  BY DEF L!Rows
<1> QED
  BY <1>1, <1>2 DEF RowsOf, L!Ids

LEMMA NoRows == L!Ids(<<>>) = {} /\ RowsOf(<<>>) = {} /\ Ordered(<<>>) /\ <<>> \in Seq(L!Rows)
                  /\ Len(<<>>) = 0
BY DEF L!Ids, RowsOf, Ordered

LEMMA NoRoom == Len(<<>>) <= MAX_PENDING_ROWS /\ Len(<<>>) <= ChannelCap
BY NoRows, LogBounds

LEMMA Joined ==
  ASSUME NEW s \in Seq(L!Rows), NEW t \in Seq(L!Rows), Ordered(s), Ordered(t),
         Before(L!Ids(s), L!Ids(t))
  PROVE  /\ s \o t \in Seq(L!Rows) /\ Len(s \o t) = Len(s) + Len(t)
         /\ Ordered(s \o t)
         /\ L!Ids(s \o t) = L!Ids(s) \cup L!Ids(t)
         /\ RowsOf(s \o t) = RowsOf(s) \cup RowsOf(t)
<1> DEFINE u == s \o t
           m == Len(s)
           n == Len(t)
<1>1. /\ u \in Seq(L!Rows) /\ Len(u) = m + n /\ m \in Nat /\ n \in Nat
      /\ DOMAIN u = 1 .. m + n /\ DOMAIN s = 1 .. m /\ DOMAIN t = 1 .. n
  BY ConcatProperties
<1>2. \A i \in 1 .. m : u[i] = s[i]
  BY ConcatProperties
<1>3. \A i \in 1 .. n : u[m + i] = t[i]
  BY ConcatProperties
<1>4. \A i \in 1 .. m + n : i \in 1 .. m \/ \E k \in 1 .. n : i = m + k
  <2> SUFFICES ASSUME NEW i \in 1 .. m + n, i \notin 1 .. m PROVE \E k \in 1 .. n : i = m + k
    OBVIOUS
  <2> DEFINE d == i - m
  <2>1. d \in 1 .. n /\ i = m + d
    BY <1>1
  <2> HIDE DEF d, m, n
  <2> QED
    BY <2>1
<1> HIDE DEF u, m, n
<1>5. RowsOf(u) = RowsOf(s) \cup RowsOf(t) /\ L!Ids(u) = L!Ids(s) \cup L!Ids(t)
  <2>1. \A i \in 1 .. m : i \in DOMAIN u
    BY <1>1
  <2>2. \A i \in 1 .. n : m + i \in DOMAIN u
    BY <1>1
  <2>3. ASSUME NEW i \in DOMAIN u
        PROVE  (\E k \in DOMAIN s : u[i] = s[k]) \/ (\E k \in DOMAIN t : u[i] = t[k])
    <3>1. i \in 1 .. m \/ \E k \in 1 .. n : i = m + k
      BY <1>1, <1>4
    <3>2. ASSUME NEW k \in 1 .. n, i = m + k PROVE k \in DOMAIN t /\ u[i] = t[k]
      BY <3>2, <1>1, <1>3
    <3>3. i \in 1 .. m => i \in DOMAIN s /\ u[i] = s[i]
      BY <1>1, <1>2
    <3> QED
      BY <3>1, <3>2, <3>3
  <2>4. /\ \A k \in DOMAIN s : \E i \in DOMAIN u : u[i] = s[k]
        /\ \A k \in DOMAIN t : \E i \in DOMAIN u : u[i] = t[k]
    BY <1>1, <1>2, <1>3, <2>1, <2>2
  <2> QED
    BY <2>3, <2>4 DEF RowsOf, L!Ids
<1>6. Ordered(u)
  <2> SUFFICES ASSUME NEW i \in DOMAIN u, NEW j \in DOMAIN u, i < j PROVE u[i].id < u[j].id
    BY DEF Ordered
  <2>1. CASE i \in 1 .. m /\ j \in 1 .. m
    BY <2>1, <1>1, <1>2 DEF Ordered
  <2>2. CASE i \in 1 .. m /\ j \notin 1 .. m
    <3>1. PICK k \in 1 .. n : j = m + k
      BY <2>2, <1>1, <1>4
    <3>2. s[i].id \in L!Ids(s) /\ t[k].id \in L!Ids(t)
      BY <2>2, <1>1 DEF L!Ids
    <3> QED
      BY <2>2, <3>1, <3>2, <1>2, <1>3 DEF Before
  <2>3. CASE i \notin 1 .. m
    <3>1. PICK k \in 1 .. n : i = m + k
      BY <2>3, <1>1, <1>4
    <3>2. j \notin 1 .. m
      BY <3>1, <1>1
    <3>3. PICK l \in 1 .. n : j = m + l
      BY <3>2, <1>1, <1>4
    <3>4. k < l
      BY <3>1, <3>3, <1>1
    <3> QED
      BY <3>1, <3>3, <3>4, <1>1, <1>3 DEF Ordered
  <2> QED
    BY <2>1, <2>2, <2>3
<1> QED
  BY <1>1, <1>5, <1>6 DEF u, m, n

LEMMA Cut ==
  ASSUME NEW s \in Seq(L!Rows), Ordered(s), NEW a \in Nat, a >= 1, NEW b \in Int, b <= Len(s)
  PROVE  /\ SubSeq(s, a, b) \in Seq(L!Rows)
         /\ Len(SubSeq(s, a, b)) = IF a <= b THEN b - a + 1 ELSE 0
         /\ Ordered(SubSeq(s, a, b))
         /\ L!Ids(SubSeq(s, a, b)) = {s[i].id : i \in a .. b}
         /\ RowsOf(SubSeq(s, a, b)) \subseteq RowsOf(s)
         /\ L!Ids(SubSeq(s, a, b)) \subseteq L!Ids(s)
<1> DEFINE u == SubSeq(s, a, b)
           n == IF a <= b THEN b - a + 1 ELSE 0
<1>1. Len(s) \in Nat /\ DOMAIN s = 1 .. Len(s) /\ \A i \in DOMAIN s : s[i] \in L!Rows
  OBVIOUS
<1>2. /\ n \in Nat /\ Len(u) = n /\ DOMAIN u = 1 .. n
      /\ \A i \in 1 .. n : u[i] = s[a + i - 1]
  OBVIOUS
<1>3. \A i \in 1 .. n : a + i - 1 \in DOMAIN s /\ a + i - 1 \in a .. b
  BY <1>1
<1>4. \A j \in a .. b : j - a + 1 \in 1 .. n /\ a + (j - a + 1) - 1 = j /\ j \in DOMAIN s
  BY <1>1
<1>5. u \in Seq(L!Rows)
  <2>1. u = [i \in 1 .. n |-> s[a + i - 1]]
    OBVIOUS
  <2> HIDE DEF u, n
  <2>2. u \in [1 .. n -> L!Rows]
    BY <1>1, <1>3, <2>1
  <2> QED
    BY <1>2, <2>2
<1>6. \A i, j \in 1 .. n : i < j => a + i - 1 < a + j - 1
  OBVIOUS
<1> HIDE DEF u, n
<1>7. Ordered(u)
  BY <1>2, <1>3, <1>6 DEF Ordered
<1>8. L!Ids(u) = {s[i].id : i \in a .. b}
  <2>1. \A x \in L!Ids(u) : x \in {s[i].id : i \in a .. b}
    <3> SUFFICES ASSUME NEW i \in 1 .. n PROVE u[i].id \in {s[k].id : k \in a .. b}
      BY <1>2 DEF L!Ids
    <3> QED
      BY <1>2, <1>3
  <2>2. ASSUME NEW j \in a .. b PROVE s[j].id \in L!Ids(u)
    <3> DEFINE i == j - a + 1
    <3>1. i \in 1 .. n /\ a + i - 1 = j
      BY <1>4
    <3> HIDE DEF i
    <3> QED
      BY <3>1, <1>2 DEF L!Ids
  <2> QED
    BY <2>1, <2>2
<1>9. RowsOf(u) \subseteq RowsOf(s)
  BY <1>2, <1>3 DEF RowsOf
<1>10. L!Ids(u) \subseteq L!Ids(s)
  BY <1>4, <1>8 DEF L!Ids
<1>11. Len(u) = n
  BY <1>2
<1> QED
  BY <1>5, <1>7, <1>8, <1>9, <1>10, <1>11 DEF u, n

LEMMA RowTaken ==
  ASSUME NEW s \in Seq(L!Rows), Ordered(s), s # <<>>
  PROVE  /\ Tail(s) \in Seq(L!Rows) /\ Len(Tail(s)) = Len(s) - 1 /\ Ordered(Tail(s))
         /\ Head(s) \in L!Rows /\ Head(s) \in RowsOf(s)
         /\ L!Ids(s) = {Head(s).id} \cup L!Ids(Tail(s))
         /\ RowsOf(Tail(s)) \subseteq RowsOf(s)
         /\ Before({Head(s).id}, L!Ids(Tail(s)))
<1>0. Len(s) \in Nat \ {0}
  BY EmptySeq, Zenon
<1>1. Tail(s) = SubSeq(s, 2, Len(s)) /\ Head(s) = s[1] /\ 1 \in DOMAIN s /\ DOMAIN s = 1 .. Len(s)
  BY <1>0
<1>2. /\ L!Ids(Tail(s)) = {s[i].id : i \in 2 .. Len(s)}
      /\ Tail(s) \in Seq(L!Rows) /\ Ordered(Tail(s)) /\ RowsOf(Tail(s)) \subseteq RowsOf(s)
  <2>1. 2 \in Nat /\ 2 >= 1 /\ Len(s) \in Int /\ Len(s) <= Len(s)
    BY <1>0
  <2>2. /\ SubSeq(s, 2, Len(s)) \in Seq(L!Rows) /\ Ordered(SubSeq(s, 2, Len(s)))
        /\ L!Ids(SubSeq(s, 2, Len(s))) = {s[i].id : i \in 2 .. Len(s)}
        /\ RowsOf(SubSeq(s, 2, Len(s))) \subseteq RowsOf(s)
    BY <2>1, Cut
  <2> QED
    BY <1>1, <2>2
<1>3. L!Ids(s) = {Head(s).id} \cup L!Ids(Tail(s))
  <2>1. \A i \in DOMAIN s : i = 1 \/ i \in 2 .. Len(s)
    BY <1>0, <1>1
  <2>2. \A i \in 2 .. Len(s) : i \in DOMAIN s
    BY <1>0, <1>1
  <2> QED
    BY <1>1, <1>2, <2>1, <2>2 DEF L!Ids
<1>4. \A i \in 2 .. Len(s) : s[1].id < s[i].id
  <2>1. \A i \in 2 .. Len(s) : i \in DOMAIN s /\ 1 < i
    BY <1>0, <1>1
  <2> QED
    BY <1>1, <2>1 DEF Ordered
<1>5. Before({Head(s).id}, L!Ids(Tail(s)))
  BY <1>1, <1>2, <1>4 DEF Before
<1>6. Head(s) \in L!Rows /\ Head(s) \in RowsOf(s)
  BY <1>1, RowFacts
<1>7. Len(Tail(s)) = Len(s) - 1
  BY <1>0
<1> QED
  BY <1>2, <1>3, <1>5, <1>6, <1>7

LEMMA OneRow ==
  ASSUME NEW r \in L!Rows
  PROVE  /\ <<r>> \in Seq(L!Rows) /\ Ordered(<<r>>) /\ L!Ids(<<r>>) = {r.id}
         /\ RowsOf(<<r>>) = {r} /\ Len(<<r>>) = 1
<1>1. <<r>> \in Seq(L!Rows) /\ Len(<<r>>) = 1 /\ DOMAIN <<r>> = {1} /\ <<r>>[1] = r
  OBVIOUS
<1> QED
  BY <1>1 DEF Ordered, L!Ids, RowsOf

LEMMA Capped ==
  ASSUME NEW s \in Seq(L!Rows), Ordered(s)
  PROVE  /\ L!CapPendingRows(s) \in Seq(L!Rows) /\ Ordered(L!CapPendingRows(s))
         /\ Len(L!CapPendingRows(s)) <= MAX_PENDING_ROWS
         /\ L!Ids(L!CapPendingRows(s)) \subseteq L!Ids(s)
         /\ RowsOf(L!CapPendingRows(s)) \subseteq RowsOf(s)
<1>1. CASE Len(s) <= MAX_PENDING_ROWS
  BY <1>1 DEF L!CapPendingRows
<1>2. CASE ~(Len(s) <= MAX_PENDING_ROWS)
  <2> DEFINE a == Len(s) - MAX_PENDING_ROWS + 1
             b == Len(s)
  <2>1. a \in Nat /\ a >= 1 /\ b \in Int /\ b <= Len(s)
    BY <1>2, LogBounds
  <2>2. (IF a <= b THEN b - a + 1 ELSE 0) = MAX_PENDING_ROWS
    BY <1>2, LogBounds
  <2>3. L!CapPendingRows(s) = SubSeq(s, a, b)
    BY <1>2 DEF L!CapPendingRows
  <2> HIDE DEF a, b
  <2>4. /\ SubSeq(s, a, b) \in Seq(L!Rows) /\ Ordered(SubSeq(s, a, b))
        /\ Len(SubSeq(s, a, b)) = (IF a <= b THEN b - a + 1 ELSE 0)
        /\ L!Ids(SubSeq(s, a, b)) \subseteq L!Ids(s) /\ RowsOf(SubSeq(s, a, b)) \subseteq RowsOf(s)
    BY <2>1, Cut
  <2> QED
    BY <2>2, <2>3, <2>4, LogBounds
<1> QED
  BY <1>1, <1>2

(* A row that could not be inserted is skipped, the others keep their      *)
(* order.                                                                  *)
LEMMA Skipped ==
  ASSUME NEW s \in Seq(L!Rows), Ordered(s), NEW i \in DOMAIN s
  PROVE  /\ L!RemoveAt(s, i) \in Seq(L!Rows) /\ Ordered(L!RemoveAt(s, i))
         /\ L!Ids(s) = {s[i].id} \cup L!Ids(L!RemoveAt(s, i))
         /\ RowsOf(L!RemoveAt(s, i)) \subseteq RowsOf(s)
<1> DEFINE u == SubSeq(s, 1, i - 1)
           v == SubSeq(s, i + 1, Len(s))
<1>1. Len(s) \in Nat /\ DOMAIN s = 1 .. Len(s) /\ i \in 1 .. Len(s)
  OBVIOUS
<1>2. /\ u \in Seq(L!Rows) /\ Ordered(u) /\ RowsOf(u) \subseteq RowsOf(s)
      /\ L!Ids(u) = {s[j].id : j \in 1 .. i - 1}
  <2>1. i - 1 \in Int /\ i - 1 <= Len(s) /\ 1 \in Nat /\ 1 >= 1
    BY <1>1
  <2> QED
    BY <2>1, Cut
<1>3. /\ v \in Seq(L!Rows) /\ Ordered(v) /\ RowsOf(v) \subseteq RowsOf(s)
      /\ L!Ids(v) = {s[j].id : j \in i + 1 .. Len(s)}
  <2>1. i + 1 \in Nat /\ i + 1 >= 1 /\ Len(s) \in Int /\ Len(s) <= Len(s)
    BY <1>1
  <2> QED
    BY <2>1, Cut
<1>4. L!RemoveAt(s, i) = u \o v
  BY DEF L!RemoveAt
<1> HIDE DEF u, v
<1>5. Before(L!Ids(u), L!Ids(v))
  <2>1. \A j \in 1 .. i - 1, k \in i + 1 .. Len(s) : j \in DOMAIN s /\ k \in DOMAIN s /\ j < k
    BY <1>1
  <2>2. \A j \in 1 .. i - 1, k \in i + 1 .. Len(s) : s[j].id < s[k].id
    BY <2>1 DEF Ordered
  <2> QED
    BY <1>2, <1>3, <2>2 DEF Before
<1>6. L!Ids(s) = {s[i].id} \cup (L!Ids(u) \cup L!Ids(v))
  <2>1. \A j \in DOMAIN s : j = i \/ j \in 1 .. i - 1 \/ j \in i + 1 .. Len(s)
    BY <1>1
  <2>2. /\ \A j \in 1 .. i - 1 : j \in DOMAIN s
        /\ \A j \in i + 1 .. Len(s) : j \in DOMAIN s
    BY <1>1
  <2> QED
    BY <1>2, <1>3, <2>1, <2>2 DEF L!Ids
<1>7. /\ u \o v \in Seq(L!Rows) /\ Ordered(u \o v) /\ L!Ids(u \o v) = L!Ids(u) \cup L!Ids(v)
      /\ RowsOf(u \o v) = RowsOf(u) \cup RowsOf(v)
  BY <1>2, <1>3, <1>5, Joined
<1> QED
  BY <1>2, <1>3, <1>4, <1>6, <1>7

LEMMA LogCardinality == \A U : L!Cardinality(U) = Cardinality(U)
BY DEF L!Cardinality, Cardinality, L!IsFiniteSet, IsFiniteSet

(* Places number the elements of a set from 1, in their order.             *)
LEMMA Places ==
  ASSUME NEW n \in Nat, NEW stay \in SUBSET (1 .. n)
  PROVE  /\ Cardinality(stay) \in Nat
         /\ \A i \in stay : L!Place(stay, i) \in 1 .. Cardinality(stay)
         /\ \A i, j \in stay : i < j => L!Place(stay, i) < L!Place(stay, j)
         /\ \A k \in 1 .. Cardinality(stay) : \E i \in stay : L!Place(stay, i) = k
<1> DEFINE upTo(i) == {j \in stay : j <= i}
           c == Cardinality(stay)
<1>1. IsFiniteSet(stay) /\ c \in Nat
  <2>1. IsFiniteSet(1 .. n)
    BY FS_Interval
  <2> QED
    BY <2>1, FS_Subset, FS_CardinalityType
<1>0. \A i \in stay : L!Place(stay, i) = Cardinality(upTo(i))
  BY LogCardinality DEF L!Place
<1>0a. \A i, j \in stay : i \in Nat /\ (j \in upTo(i) <=> j <= i)
  OBVIOUS
<1>0b. \A i \in stay : upTo(i) \in SUBSET stay
  OBVIOUS
<1> HIDE DEF upTo
<1>2. ASSUME NEW i \in stay
      PROVE  /\ IsFiniteSet(upTo(i)) /\ L!Place(stay, i) \in 1 .. c
             /\ Cardinality(upTo(i)) \in Nat
  <2>1. upTo(i) \in SUBSET stay /\ i \in upTo(i)
    BY <1>0a, <1>0b
  <2>2. /\ IsFiniteSet(upTo(i)) /\ Cardinality(upTo(i)) <= c /\ Cardinality(upTo(i)) \in Nat
        /\ Cardinality(upTo(i)) # 0
    BY <1>1, <2>1, FS_Subset, FS_CardinalityType, FS_EmptySet
  <2> QED
    BY <1>0, <1>1, <2>2
<1>3. ASSUME NEW i \in stay, NEW j \in stay, i < j PROVE L!Place(stay, i) < L!Place(stay, j)
  <2>1. j \in upTo(j) /\ j \notin upTo(i)
    BY <1>0a, <1>3
  <2>2. upTo(i) \in SUBSET upTo(j)
    <3> SUFFICES ASSUME NEW k \in upTo(i) PROVE k \in upTo(j)
      OBVIOUS
    <3>1. k \in stay /\ k <= i /\ k \in Nat /\ i \in Nat /\ j \in Nat
      BY <1>0a, <1>0b
    <3>2. k <= j
      BY <1>3, <3>1
    <3> QED
      BY <1>0a, <3>1, <3>2
  <2>3. IsFiniteSet(upTo(j)) /\ upTo(i) # upTo(j)
    BY <1>2, <2>1
  <2>4. /\ Cardinality(upTo(i)) # Cardinality(upTo(j))
        /\ Cardinality(upTo(i)) <= Cardinality(upTo(j))
    BY <2>2, <2>3, FS_Subset
  <2>5. Cardinality(upTo(i)) \in Nat /\ Cardinality(upTo(j)) \in Nat
    BY <1>2
  <2> QED
    BY <1>0, <2>4, <2>5
<1>4. \A i, j \in stay : L!Place(stay, i) = L!Place(stay, j) => i = j
  <2> SUFFICES ASSUME NEW i \in stay, NEW j \in stay, i # j
               PROVE  L!Place(stay, i) # L!Place(stay, j)
    OBVIOUS
  <2>1. i < j \/ j < i
    OBVIOUS
  <2>2. L!Place(stay, i) \in Nat /\ L!Place(stay, j) \in Nat
    BY <1>1, <1>2
  <2> QED
    BY <1>3, <2>1, <2>2
<1>5. \A k \in 1 .. c : \E i \in stay : L!Place(stay, i) = k
  <2> DEFINE f == [i \in stay |-> L!Place(stay, i)]
  <2>1. f \in Injection(stay, 1 .. c)
    BY <1>2, <1>4 DEF Injection, IsInjective
  <2>2. IsFiniteSet(1 .. c) /\ Cardinality(1 .. c) = c
    BY <1>1, FS_Interval
  <2>3. f \in Surjection(stay, 1 .. c)
    BY <2>1, <2>2, FS_Injection
  <2> QED
    BY <2>3 DEF Surjection
<1> QED
  BY <1>1, <1>2, <1>3, <1>5

(* What retention leaves: exactly the rows that are not doomed, in order.  *)
LEMMA Spared ==
  ASSUME messages \in Seq(L!Rows), Ordered(messages), NEW doomed
  PROVE  /\ L!Without(doomed) \in Seq(L!Rows) /\ Ordered(L!Without(doomed))
         /\ RowsOf(L!Without(doomed)) = RowsOf(messages) \ doomed
<1> DEFINE stay == {i \in DOMAIN messages : messages[i] \notin doomed}
           c == Cardinality(stay)
           at(k) == CHOOSE i \in stay : L!Place(stay, i) = k
           u == L!Without(doomed)
<1>1. Len(messages) \in Nat /\ stay \in SUBSET (1 .. Len(messages))
      /\ DOMAIN messages = 1 .. Len(messages) /\ \A i \in stay : messages[i] \in L!Rows
  OBVIOUS
<1>2. /\ c \in Nat
      /\ \A i \in stay : L!Place(stay, i) \in 1 .. c
      /\ \A i, j \in stay : i < j => L!Place(stay, i) < L!Place(stay, j)
      /\ \A k \in 1 .. c : \E i \in stay : L!Place(stay, i) = k
  BY <1>1, Places
<1>3. \A k \in 1 .. c : at(k) \in stay /\ L!Place(stay, at(k)) = k
  BY <1>2
<1>4. u = [k \in 1 .. c |-> messages[at(k)]]
  BY LogCardinality DEF L!Without
<1>5. \A i \in stay : i \in DOMAIN messages /\ messages[i] \notin doomed /\ i \in Nat
  BY <1>1
<1>6. \A i \in DOMAIN messages : messages[i] \notin doomed => i \in stay
  OBVIOUS
<1> HIDE DEF stay, c, at, u
<1>7. u \in Seq(L!Rows)
  <2>1. u \in [1 .. c -> L!Rows]
    BY <1>1, <1>3, <1>4
  <2> QED
    BY <1>2, <2>1
<1>8. Ordered(u)
  <2> SUFFICES ASSUME NEW i \in 1 .. c, NEW j \in 1 .. c, i < j PROVE u[i].id < u[j].id
    BY <1>4 DEF Ordered
  <2>1. at(i) \in stay /\ at(j) \in stay /\ L!Place(stay, at(i)) = i /\ L!Place(stay, at(j)) = j
    BY <1>3
  <2>2. at(i) \in Nat /\ at(j) \in Nat /\ i \in Nat /\ j \in Nat
    BY <1>2, <1>5, <2>1
  <2>3. at(j) < at(i) => j < i
    BY <1>2, <2>1
  <2>4. at(i) < at(j)
    BY <2>1, <2>2, <2>3
  <2> QED
    BY <1>4, <1>5, <2>1, <2>4 DEF Ordered
<1>9. RowsOf(u) = RowsOf(messages) \ doomed
  <2>1. ASSUME NEW x \in RowsOf(u) PROVE x \in RowsOf(messages) \ doomed
    BY <1>3, <1>4, <1>5 DEF RowsOf
  <2>2. ASSUME NEW i \in DOMAIN messages, messages[i] \notin doomed PROVE messages[i] \in RowsOf(u)
    <3>1. i \in stay
      BY <1>6, <2>2
    <3> DEFINE k == L!Place(stay, i)
    <3>2. k \in 1 .. c /\ at(k) \in stay /\ L!Place(stay, at(k)) = k
      BY <1>2, <1>3, <3>1
    <3>3. at(k) = i
      <4>1. at(k) \in Nat /\ i \in Nat /\ k \in Nat
        BY <1>2, <1>5, <3>1, <3>2
      <4>2. ~(at(k) < i) /\ ~(i < at(k))
        BY <1>2, <3>1, <3>2, <4>1
      <4> QED
        BY <4>1, <4>2
    <3> HIDE DEF k
    <3>4. u[k] = messages[i]
      BY <1>4, <3>2, <3>3
    <3> QED
      BY <1>4, <3>2, <3>4 DEF RowsOf
  <2>3. \A x \in RowsOf(messages) : \E i \in DOMAIN messages : x = messages[i]
    BY DEF RowsOf
  <2> QED
    BY <2>1, <2>2, <2>3
<1> QED
  BY <1>7, <1>8, <1>9 DEF u

-----------------------------------------------------------------------------
(* Every step keeps the invariant.                                         *)

LEMMA IdsOfRows == ASSUME NEW s PROVE L!Ids(s) = {r.id : r \in RowsOf(s)}
BY DEF L!Ids, RowsOf

LEMMA AlikeShrinks == ASSUME NEW rows, NEW fewer \in SUBSET rows, Alike(rows) PROVE Alike(fewer)
BY DEF Alike

LEMMA LogKnown ==
  ASSUME LogInv
  PROVE  /\ L!Ids(messages) \subseteq 1 .. rowCount /\ L!Ids(writing) \subseteq 1 .. rowCount
         /\ L!Ids(log_queue) \subseteq 1 .. rowCount /\ L!Ids(rowTx) \subseteq 1 .. rowCount
         /\ rowCount \in Nat /\ \A r \in InPlay : r \in L!Rows /\ r.id \in 1 .. rowCount
<1>1. /\ L!Ids(messages) \subseteq 1 .. rowCount /\ L!Ids(writing) \subseteq 1 .. rowCount
      /\ L!Ids(log_queue) \subseteq 1 .. rowCount /\ L!Ids(rowTx) \subseteq 1 .. rowCount
  BY Zenon DEF LogInv, L!EveryRowIsAccountedFor
<1>2. rowCount \in Nat
  BY LogBounds DEF LogInv, LogTypes
<1>3. /\ \A r \in RowsOf(messages) : r \in L!Rows /\ r.id \in L!Ids(messages)
      /\ \A r \in RowsOf(writing) : r \in L!Rows /\ r.id \in L!Ids(writing)
      /\ \A r \in RowsOf(log_queue) : r \in L!Rows /\ r.id \in L!Ids(log_queue)
      /\ \A r \in RowsOf(rowTx) : r \in L!Rows /\ r.id \in L!Ids(rowTx)
  BY RowFacts DEF LogInv, LogTypes
<1> QED
  BY <1>1, <1>2, <1>3 DEF InPlay

(* The rows of one message or of one event, with the next numbers.         *)
NextRows(rows) ==
  \A i \in DOMAIN rows :
    /\ rows[i].id = rowCount + i
    /\ \/ rows[i].ref = 0
       \/ /\ i > 1 /\ rows[i].ref = rowCount + 1 /\ rows[i].event /\ rows[1].event
          /\ rows[i].ts = rows[1].ts

LEMMA NextAlike ==
  ASSUME LogInv, NEW rows \in Seq(L!Rows), NextRows(rows)
  PROVE  Alike(InPlay \cup RowsOf(rows))
<1>1. /\ \A r \in InPlay : r \in L!Rows /\ r.id \in Nat /\ 1 <= r.id /\ r.id <= rowCount
      /\ rowCount \in Nat
  BY LogKnown
<1>2. \A r \in InPlay : r.ref < r.id /\ r.ref \in Nat
  BY <1>1 DEF LogInv, Alike, L!Rows
<1>3. \A q, r \in InPlay : q.id = r.ref => q.event /\ r.event /\ q.ts = r.ts
  BY DEF LogInv, Alike
<1>4. Len(rows) \in Nat /\ DOMAIN rows = 1 .. Len(rows)
  OBVIOUS
<1>5. ASSUME NEW i \in DOMAIN rows
      PROVE  rows[i].ref < rows[i].id /\ rows[i].id > rowCount /\ rows[i].id = rowCount + i /\ i \in Nat
  BY <1>1, <1>4 DEF NextRows
<1>6. ASSUME NEW i \in DOMAIN rows, NEW j \in DOMAIN rows, rows[j].id = rows[i].ref
      PROVE  rows[j].event /\ rows[i].event /\ rows[j].ts = rows[i].ts
  <2>1. rows[j].id = rowCount + j /\ j \in Nat /\ j >= 1
    BY <1>4 DEF NextRows
  <2>2. rows[i].ref # 0
    BY <1>1, <1>6, <2>1
  <2>3. /\ rows[i].ref = rowCount + 1 /\ rows[i].event /\ rows[1].event
        /\ rows[i].ts = rows[1].ts
    BY <2>2 DEF NextRows
  <2>4. j = 1
    <3>1. rowCount \in Nat /\ rowCount + j = rowCount + 1
      BY <1>1, <1>6, <2>1, <2>3
    <3> QED
      BY <2>1, <3>1
  <2> QED
    BY <2>3, <2>4
<1>7. ASSUME NEW i \in DOMAIN rows, NEW q \in InPlay PROVE q.id # rows[i].ref
  <2>1. rows[i].ref = 0 \/ rows[i].ref = rowCount + 1
    BY DEF NextRows
  <2> QED
    BY <1>1, <2>1
<1>8. ASSUME NEW i \in DOMAIN rows, NEW r \in InPlay PROVE rows[i].id # r.ref
  <2>1. r.ref < r.id /\ r.ref \in Nat /\ r.id \in Nat /\ r.id <= rowCount /\ rowCount \in Nat
    BY <1>1, <1>2
  <2>2. rows[i].id = rowCount + i /\ i \in Nat /\ i >= 1
    BY <1>4, <1>5
  <2> QED
    BY <2>1, <2>2
<1>9. \A r \in RowsOf(rows) : \E i \in DOMAIN rows : r = rows[i]
  BY DEF RowsOf
<1> SUFFICES ASSUME NEW r \in InPlay \cup RowsOf(rows), NEW q \in InPlay \cup RowsOf(rows)
             PROVE  r.ref < r.id /\ (q.id = r.ref => q.event /\ r.event /\ q.ts = r.ts)
  BY DEF Alike
<1>10. CASE r \in InPlay /\ q \in InPlay
  BY <1>10, <1>2, <1>3
<1>11. CASE r \in InPlay /\ q \in RowsOf(rows)
  BY <1>11, <1>2, <1>8, <1>9
<1>12. CASE r \in RowsOf(rows) /\ q \in InPlay
  BY <1>12, <1>5, <1>7, <1>9
<1>13. CASE r \in RowsOf(rows) /\ q \in RowsOf(rows)
  BY <1>13, <1>5, <1>6, <1>9
<1> QED
  BY <1>10, <1>11, <1>12, <1>13

LEMMA Submitted ==
  ASSUME LogInv, NEW rows \in Seq(L!Rows), NextRows(rows), L!MaybeLog(rows),
         UNCHANGED <<log_queue, writing, messages, writer, closing, logClock, purged, log_faults>>
  PROVE  LogInv'
<1> DEFINE sent == L!TrySend(rows)
           n == Len(rows)
           new == L!Ids(rows)
<1>0. /\ n \in Nat /\ DOMAIN rows = 1 .. n /\ rowCount \in Nat /\ rowCount + n <= MaxRows
      /\ rowCount' = rowCount + n /\ rowTx' = rowTx \o sent /\ lost' = lost \cup (new \ L!Ids(sent))
  BY LogKnown DEF L!MaybeLog
<1>1. new = rowCount + 1 .. rowCount + n
  <2>1. \A i \in 1 .. n : rows[i].id = rowCount + i /\ rowCount + i \in rowCount + 1 .. rowCount + n
    <3> SUFFICES ASSUME NEW i \in 1 .. n
                 PROVE  rows[i].id = rowCount + i /\ rowCount + i \in rowCount + 1 .. rowCount + n
      OBVIOUS
    <3>1. rows[i].id = rowCount + i
      BY <1>0 DEF NextRows
    <3> HIDE DEF n
    <3> QED
      BY <1>0, <3>1
  <2>2. ASSUME NEW x \in rowCount + 1 .. rowCount + n PROVE \E i \in 1 .. n : x = rowCount + i
    <3> DEFINE d == x - rowCount
    <3>1. d \in 1 .. n /\ x = rowCount + d
      BY <1>0
    <3> HIDE DEF d
    <3> QED
      BY <3>1
  <2>3. new = {rows[i].id : i \in 1 .. n}
    BY <1>0 DEF L!Ids
  <2> HIDE DEF n, new
  <2>4. \A x \in rowCount + 1 .. rowCount + n : x \in new
    <3> TAKE x \in rowCount + 1 .. rowCount + n
    <3>1. PICK i \in 1 .. n : x = rowCount + i
      BY <2>2
    <3>2. x = rows[i].id
      BY <2>1, <3>1
    <3> QED
      BY <2>3, <3>2
  <2>5. \A x \in new : x \in rowCount + 1 .. rowCount + n
    BY <2>1, <2>3
  <2> QED
    BY <2>4, <2>5, Zenon
<1>2. Ordered(rows)
  BY <1>0 DEF Ordered, NextRows
<1>3. /\ sent \in Seq(L!Rows) /\ Ordered(sent) /\ L!Ids(sent) \subseteq new
      /\ RowsOf(sent) \subseteq RowsOf(rows) /\ Len(rowTx) + Len(sent) <= ChannelCap
  <2> DEFINE room == ChannelCap - Len(rowTx)
             k == IF room < n THEN room ELSE n
  <2>1. room \in Nat /\ Len(rowTx) \in Nat
    BY LogBounds DEF LogInv, LogTypes
  <2>2. k \in Int /\ k <= n /\ k <= room /\ k >= 0 /\ sent = SubSeq(rows, 1, k)
    BY <1>0, <2>1 DEF L!TrySend
  <2>3. (IF 1 <= k THEN k - 1 + 1 ELSE 0) = k
    BY <2>2
  <2>4. Len(rowTx) + k <= ChannelCap
    BY <2>1, <2>2, LogBounds
  <2> HIDE DEF k, sent, room
  <2>5. /\ SubSeq(rows, 1, k) \in Seq(L!Rows) /\ Ordered(SubSeq(rows, 1, k))
        /\ Len(SubSeq(rows, 1, k)) = (IF 1 <= k THEN k - 1 + 1 ELSE 0)
        /\ RowsOf(SubSeq(rows, 1, k)) \subseteq RowsOf(rows)
        /\ L!Ids(SubSeq(rows, 1, k)) \subseteq L!Ids(rows)
    <3>1. 1 \in Nat /\ 1 >= 1
      OBVIOUS
    <3> QED
      BY <1>2, <2>2, <3>1, Cut
  <2> QED
    BY <2>2, <2>3, <2>4, <2>5
<1> HIDE DEF sent, n
<1>4. /\ Before(L!Ids(rowTx), new) /\ Before(L!Ids(messages), new) /\ Before(L!Ids(writing), new)
      /\ Before(L!Ids(log_queue), new)
  BY <1>0, <1>1, LogKnown DEF Before
<1> HIDE DEF new
<1>5. /\ rowTx' \in Seq(L!Rows) /\ Len(rowTx') = Len(rowTx) + Len(sent) /\ Ordered(rowTx')
      /\ L!Ids(rowTx') = L!Ids(rowTx) \cup L!Ids(sent)
      /\ RowsOf(rowTx') = RowsOf(rowTx) \cup RowsOf(sent)
  <2>1. Before(L!Ids(rowTx), L!Ids(sent)) /\ rowTx \in Seq(L!Rows) /\ Ordered(rowTx)
    BY <1>3, <1>4 DEF Before, LogInv, LogTypes, LogOrder
  <2> QED
    BY <1>0, <1>3, <2>1, Joined
<1>6. LogTypes'
  <2>1. new \subseteq 1 .. MaxRows /\ rowCount' \in 0 .. MaxRows
    BY <1>0, <1>1, LogBounds
  <2>2. lost' \subseteq 1 .. MaxRows
    BY <1>0, <2>1 DEF LogInv, LogTypes
  <2> QED
    BY <1>3, <1>5, <2>1, <2>2 DEF LogInv, LogTypes
<1>7. LogOrder'
  <2>1. /\ Before(L!Ids(messages), L!Ids(rowTx')) /\ Before(L!Ids(writing), L!Ids(rowTx'))
        /\ Before(L!Ids(log_queue), L!Ids(rowTx'))
    BY <1>3, <1>4, <1>5 DEF Before, LogInv, LogOrder, Chain
  <2> QED
    BY <1>5, <2>1 DEF LogInv, LogOrder, Chain
<1>8. LogPhase'
  BY DEF LogInv, LogPhase
<1>9. L!EveryRowIsAccountedFor'
  <2>1. 1 .. rowCount' = (1 .. rowCount) \cup new
    BY <1>0, <1>1
  <2>2. 1 .. rowCount = L!Ids(rowTx) \cup L!Ids(log_queue) \cup L!Ids(writing)
                          \cup L!Ids(messages) \cup lost \cup purged
    BY DEF LogInv, L!EveryRowIsAccountedFor
  <2>3. new \subseteq L!Ids(rowTx') \cup lost'
    BY <1>0, <1>5
  <2>4. lost' \subseteq lost \cup new /\ lost \subseteq lost' /\ L!Ids(rowTx') \subseteq L!Ids(rowTx) \cup new
        /\ L!Ids(rowTx) \subseteq L!Ids(rowTx')
    BY <1>0, <1>3, <1>5
  <2>5. 1 .. rowCount' = L!Ids(rowTx') \cup L!Ids(log_queue) \cup L!Ids(writing)
                           \cup L!Ids(messages) \cup lost' \cup purged
    BY <2>1, <2>2, <2>3, <2>4
  <2> QED
    BY <2>5 DEF L!EveryRowIsAccountedFor, L!Ids
<1>10. Alike(InPlay)'
  <2>1. InPlay' \in SUBSET (InPlay \cup RowsOf(rows))
    BY <1>3, <1>5 DEF InPlay
  <2> QED
    BY <2>1, NextAlike, AlikeShrinks DEF Alike
<1> QED
  BY <1>6, <1>7, <1>8, <1>9, <1>10 DEF LogInv

LEMMA AddKeeps ==
  ASSUME LogInv, NEW b \in L!Buffers, L!AddMessage(b, logClock)
  PROVE  LogInv'
<1> DEFINE r == L!LogRow(b, FALSE, rowCount + 1, 0, logClock)
           rows == <<r>>
<1>1. L!MaybeLog(rows) /\ UNCHANGED <<log_queue, writing, messages, writer, closing, logClock,
                                      purged, log_faults>>
  BY DEF L!AddMessage
<1>2. rowCount + 1 <= MaxRows /\ rowCount \in Nat
  BY <1>1, LogKnown DEF L!MaybeLog
<1>3. r \in L!Rows /\ r.id = rowCount + 1 /\ r.ref = 0
  BY <1>2, LogBounds DEF L!Rows, L!LogRow, LogInv, LogTypes
<1> HIDE DEF r
<1>4. rows \in Seq(L!Rows) /\ DOMAIN rows = {1} /\ rows[1] = r
  BY <1>3
<1> HIDE DEF rows
<1>5. NextRows(rows)
  BY <1>3, <1>4 DEF NextRows
<1> QED
  BY <1>1, <1>4, <1>5, Submitted

LEMMA QuitKeeps ==
  ASSUME LogInv, NEW bs \in L!Affected, NEW ts \in 0 .. logClock, L!HandleQuit(bs, ts)
  PROVE  LogInv'
<1> DEFINE rows == L!FanOut(bs, ts)
<1>1. L!MaybeLog(rows) /\ UNCHANGED <<log_queue, writing, messages, writer, closing, logClock,
                                      purged, log_faults>>
  BY DEF L!HandleQuit
<1>2. PICK n \in L!Buffers : bs \in [1 .. n -> L!Buffers]
  BY DEF L!Affected
<1>3. n \in Nat /\ n >= 1
  BY LogBounds DEF L!Buffers
<1>4. rows = [i \in 1 .. n |-> L!LogRow(bs[i], TRUE, rowCount + i,
                                        IF i = 1 THEN 0 ELSE rowCount + 1, ts)]
  BY <1>2 DEF L!FanOut
<1> HIDE DEF rows
<1>5. Len(rows) = n /\ DOMAIN rows = 1 .. n
  BY <1>3, <1>4
<1>6. rowCount + n <= MaxRows /\ rowCount \in Nat
  BY <1>1, <1>5, LogKnown DEF L!MaybeLog
<1>7. ts \in 0 .. MaxClock
  BY LogBounds DEF LogInv, LogTypes
<1>8. ASSUME NEW i \in 1 .. n
      PROVE  /\ rows[i] \in L!Rows /\ rows[i].id = rowCount + i /\ rows[i].ts = ts /\ rows[i].event
             /\ rows[i].ref = IF i = 1 THEN 0 ELSE rowCount + 1
  <2>1. bs[i] \in L!Buffers /\ rowCount + i \in 1 .. MaxRows
        /\ (IF i = 1 THEN 0 ELSE rowCount + 1) \in 0 .. MaxRows
    BY <1>2, <1>3, <1>6, LogBounds
  <2> QED
    BY <1>4, <1>7, <2>1 DEF L!LogRow, L!Rows
<1>9. rows \in Seq(L!Rows)
  <2>1. rows \in [1 .. n -> L!Rows]
    BY <1>4, <1>8
  <2> QED
    BY <1>3, <2>1
<1>10. NextRows(rows)
  <2> SUFFICES ASSUME NEW i \in 1 .. n
               PROVE  /\ rows[i].id = rowCount + i
                      /\ \/ rows[i].ref = 0
                         \/ /\ i > 1 /\ rows[i].ref = rowCount + 1 /\ rows[i].event
                            /\ rows[1].event /\ rows[i].ts = rows[1].ts
    BY <1>5 DEF NextRows
  <2>1. 1 \in 1 .. n /\ (i = 1 \/ i > 1)
    BY <1>3
  <2> QED
    BY <1>8, <2>1
<1> QED
  BY <1>1, <1>9, <1>10, Submitted

LEMMA ReceiveKeeps ==
  ASSUME LogInv, L!Receive
  PROVE  LogInv'
<1> DEFINE r == Head(rowTx)
           s == Append(log_queue, r)
           q == L!CapPendingRows(s)
<1>1. /\ writer = "waits" /\ rowTx # <<>> /\ rowTx' = Tail(rowTx)
      /\ lost' = lost \cup ((L!Ids(log_queue) \cup {r.id}) \ L!Ids(q))
      /\ \/ writing' = q /\ log_queue' = <<>> /\ writer' = "flushes"
         \/ log_queue' = q /\ UNCHANGED <<writing, writer>>
      /\ UNCHANGED <<messages, closing, logClock, rowCount, purged, log_faults>>
  BY DEF L!Receive, L!FlushBlocking
<1>2. /\ rowTx \in Seq(L!Rows) /\ Ordered(rowTx) /\ log_queue \in Seq(L!Rows) /\ Ordered(log_queue)
      /\ writing = <<>> /\ Chain(L!Ids(messages), L!Ids(writing), L!Ids(log_queue), L!Ids(rowTx))
  BY <1>1 DEF LogInv, LogTypes, LogOrder, LogPhase
<1>3. /\ Tail(rowTx) \in Seq(L!Rows) /\ Len(Tail(rowTx)) = Len(rowTx) - 1 /\ Ordered(Tail(rowTx))
      /\ r \in L!Rows /\ r \in RowsOf(rowTx)
      /\ L!Ids(rowTx) = {r.id} \cup L!Ids(Tail(rowTx)) /\ RowsOf(Tail(rowTx)) \subseteq RowsOf(rowTx)
      /\ Before({r.id}, L!Ids(Tail(rowTx)))
  BY <1>1, <1>2, RowTaken
<1>4. s = log_queue \o <<r>>
  BY <1>2, <1>3
<1> HIDE DEF r, s
<1>5. /\ s \in Seq(L!Rows) /\ Ordered(s) /\ L!Ids(s) = L!Ids(log_queue) \cup {r.id}
      /\ RowsOf(s) = RowsOf(log_queue) \cup {r}
  <2>1. Before(L!Ids(log_queue), {r.id})
    BY <1>2, <1>3 DEF Chain, Before
  <2>2. /\ <<r>> \in Seq(L!Rows) /\ Ordered(<<r>>) /\ L!Ids(<<r>>) = {r.id} /\ RowsOf(<<r>>) = {r}
    BY <1>3, OneRow
  <2>3. Before(L!Ids(log_queue), L!Ids(<<r>>))
    BY <2>1, <2>2
  <2>4. /\ log_queue \o <<r>> \in Seq(L!Rows) /\ Ordered(log_queue \o <<r>>)
        /\ L!Ids(log_queue \o <<r>>) = L!Ids(log_queue) \cup L!Ids(<<r>>)
        /\ RowsOf(log_queue \o <<r>>) = RowsOf(log_queue) \cup RowsOf(<<r>>)
    BY <1>2, <2>2, <2>3, Joined
  <2> QED
    BY <1>4, <2>2, <2>4
<1>6. /\ q \in Seq(L!Rows) /\ Ordered(q) /\ Len(q) <= MAX_PENDING_ROWS
      /\ L!Ids(q) \subseteq L!Ids(log_queue) \cup {r.id} /\ RowsOf(q) \subseteq RowsOf(log_queue) \cup {r}
  BY <1>5, Capped
<1> HIDE DEF q
<1>7. /\ Before(L!Ids(messages), L!Ids(q)) /\ Before(L!Ids(messages), L!Ids(Tail(rowTx)))
      /\ Before(L!Ids(q), L!Ids(Tail(rowTx)))
  BY <1>2, <1>3, <1>6 DEF Chain, Before
<1>8. LogTypes'
  <2>1. r.id \in 1 .. MaxRows
    BY <1>3 DEF L!Rows
  <2>2. L!Ids(log_queue) \subseteq 1 .. MaxRows
    BY <1>2, RowFacts
  <2>3. lost' \subseteq 1 .. MaxRows
    BY <1>1, <2>1, <2>2 DEF LogInv, LogTypes
  <2>4. Len(rowTx') <= ChannelCap
    BY <1>1, <1>2, <1>3, LogBounds DEF LogInv, LogTypes
  <2>5. /\ rowTx' \in Seq(L!Rows) /\ log_queue' \in Seq(L!Rows) /\ writing' \in Seq(L!Rows)
        /\ Len(log_queue') <= MAX_PENDING_ROWS /\ Len(writing') <= MAX_PENDING_ROWS
    BY <1>1, <1>2, <1>3, <1>6, NoRows, LogBounds DEF LogInv, LogTypes
  <2> QED
    BY <1>1, <2>3, <2>4, <2>5 DEF LogInv, LogTypes
<1>9. LogOrder'
  BY <1>1, <1>2, <1>3, <1>6, <1>7, NoRows DEF LogInv, LogOrder, Chain, Before
<1>10. LogPhase'
  BY <1>1, <1>2 DEF LogInv, LogPhase
<1>11. L!EveryRowIsAccountedFor'
  <2>1. 1 .. rowCount = L!Ids(rowTx) \cup L!Ids(log_queue) \cup L!Ids(writing)
                          \cup L!Ids(messages) \cup lost \cup purged
    BY DEF LogInv, L!EveryRowIsAccountedFor
  <2>2. L!Ids(log_queue') \cup L!Ids(writing') = L!Ids(q) /\ L!Ids(writing) = {}
    BY <1>1, <1>2, NoRows
  <2>3. 1 .. rowCount' = L!Ids(rowTx') \cup (L!Ids(log_queue') \cup L!Ids(writing'))
                           \cup L!Ids(messages) \cup lost' \cup purged
    BY <1>1, <1>3, <1>6, <2>1, <2>2
  <2> QED
    BY <1>1, <2>3 DEF L!EveryRowIsAccountedFor, L!Ids
<1>12. Alike(InPlay)'
  <2>1. RowsOf(log_queue') \cup RowsOf(writing') = RowsOf(q)
    BY <1>1, <1>2, NoRows
  <2>2. InPlay' \in SUBSET InPlay
    BY <1>1, <1>3, <1>6, <2>1 DEF InPlay
  <2> QED
    BY <2>2, AlikeShrinks DEF Alike, LogInv
<1> QED
  BY <1>8, <1>9, <1>10, <1>11, <1>12 DEF LogInv

LEMMA TickKeeps ==
  ASSUME LogInv, L!FlushTick
  PROVE  LogInv'
<1>1. /\ writer = "waits" /\ writing' = log_queue /\ log_queue' = <<>> /\ writer' = "flushes"
      /\ UNCHANGED <<rowTx, messages, closing, logClock, rowCount, lost, purged, log_faults>>
  BY DEF L!FlushTick, L!FlushBlocking
<1>2. writing = <<>>
  BY <1>1 DEF LogInv, LogPhase
<1>3. LogTypes'
  BY <1>1, NoRows, LogBounds DEF LogInv, LogTypes
<1>4. LogOrder'
  BY <1>1, NoRows DEF LogInv, LogOrder, Chain, Before
<1>5. LogPhase'
  BY <1>1 DEF LogPhase
<1>6. L!EveryRowIsAccountedFor'
  <2>1. 1 .. rowCount = L!Ids(rowTx) \cup L!Ids(log_queue) \cup L!Ids(writing)
                          \cup L!Ids(messages) \cup lost \cup purged
    BY DEF LogInv, L!EveryRowIsAccountedFor
  <2>2. 1 .. rowCount' = L!Ids(rowTx') \cup L!Ids(log_queue') \cup L!Ids(writing')
                           \cup L!Ids(messages') \cup lost' \cup purged'
    BY <1>1, <1>2, <2>1, NoRows
  <2> QED
    BY <2>2 DEF L!EveryRowIsAccountedFor, L!Ids
<1>7. Alike(InPlay)'
  <2>1. InPlay' \in SUBSET InPlay
    BY <1>1, NoRows DEF InPlay
  <2> QED
    BY <2>1, AlikeShrinks DEF Alike, LogInv
<1> QED
  BY <1>3, <1>4, <1>5, <1>6, <1>7 DEF LogInv

LEMMA ShutDownKeeps ==
  ASSUME LogInv, L!ShutDown
  PROVE  LogInv'
<1> DEFINE s == log_queue \o rowTx
           q == L!Drained
<1>1. /\ writer = "waits" /\ rowTx' = <<>>
      /\ lost' = lost \cup ((L!Ids(log_queue) \cup L!Ids(rowTx)) \ L!Ids(q))
      /\ \/ q = <<>> /\ writer' = "stopped" /\ writing' = writing /\ log_queue' = log_queue
         \/ writing' = q /\ log_queue' = <<>> /\ writer' = "last flush"
      /\ UNCHANGED <<messages, closing, logClock, rowCount, purged, log_faults>>
      /\ q = L!CapPendingRows(s)
  BY DEF L!ShutDown, L!FlushBlocking, L!Drained
<1>2. /\ rowTx \in Seq(L!Rows) /\ Ordered(rowTx) /\ log_queue \in Seq(L!Rows) /\ Ordered(log_queue)
      /\ writing = <<>> /\ Chain(L!Ids(messages), L!Ids(writing), L!Ids(log_queue), L!Ids(rowTx))
      /\ Len(log_queue) <= MAX_PENDING_ROWS
  BY <1>1 DEF LogInv, LogTypes, LogOrder, LogPhase
<1>3. /\ s \in Seq(L!Rows) /\ Ordered(s) /\ L!Ids(s) = L!Ids(log_queue) \cup L!Ids(rowTx)
      /\ RowsOf(s) = RowsOf(log_queue) \cup RowsOf(rowTx) /\ Len(s) = Len(log_queue) + Len(rowTx)
  BY <1>2, Joined DEF Chain
<1> HIDE DEF s, q
<1>4. /\ q \in Seq(L!Rows) /\ Ordered(q) /\ Len(q) <= MAX_PENDING_ROWS
      /\ L!Ids(q) \subseteq L!Ids(log_queue) \cup L!Ids(rowTx)
      /\ RowsOf(q) \subseteq RowsOf(log_queue) \cup RowsOf(rowTx)
  BY <1>1, <1>3, Capped
<1>5. q = <<>> => log_queue = <<>>
  <2> SUFFICES ASSUME q = <<>> PROVE Len(log_queue) = 0
    BY <1>2, EmptySeq
  <2>1. Len(log_queue) \in Nat /\ Len(rowTx) \in Nat /\ Len(s) \in Nat
    BY <1>2, <1>3
  <2>2. CASE Len(s) <= MAX_PENDING_ROWS
    <3>1. s = <<>>
      BY <1>1, <2>2 DEF L!CapPendingRows
    <3>2. Len(s) = 0
      BY <3>1
    <3> QED
      BY <1>3, <2>1, <3>2
  <2>3. CASE ~(Len(s) <= MAX_PENDING_ROWS)
    <3> DEFINE a == Len(s) - MAX_PENDING_ROWS + 1
               b == Len(s)
    <3>1. a \in Nat /\ a >= 1 /\ b \in Int /\ b <= Len(s)
      BY <2>1, <2>3, LogBounds
    <3>2. (IF a <= b THEN b - a + 1 ELSE 0) = MAX_PENDING_ROWS
      BY <2>1, <2>3, LogBounds
    <3>3. SubSeq(s, a, b) = <<>>
      BY <1>1, <2>3 DEF L!CapPendingRows
    <3> HIDE DEF a, b
    <3>4. Len(SubSeq(s, a, b)) = (IF a <= b THEN b - a + 1 ELSE 0)
      BY <1>3, <3>1, Cut
    <3>5. MAX_PENDING_ROWS = 0
      BY <3>2, <3>3, <3>4, NoRows
    <3> QED
      BY <1>2, <2>1, <3>5
  <2> QED
    BY <2>2, <2>3
<1>6. /\ log_queue' = <<>> /\ writing' = q /\ writer' \in {"stopped", "last flush"}
      /\ writer' = "stopped" => q = <<>>
  BY <1>1, <1>2, <1>5
<1>7. LogTypes'
  <2>1. L!Ids(log_queue) \subseteq 1 .. MaxRows /\ L!Ids(rowTx) \subseteq 1 .. MaxRows
    BY <1>2, RowFacts
  <2>2. lost' \subseteq 1 .. MaxRows
    BY <1>1, <2>1 DEF LogInv, LogTypes
  <2>3. log_queue' \in Seq(L!Rows) /\ Len(log_queue') <= MAX_PENDING_ROWS
    BY <1>6, NoRows, NoRoom, Zenon
  <2>4. writing' \in Seq(L!Rows) /\ Len(writing') <= MAX_PENDING_ROWS
    BY <1>4, <1>6
  <2>5. rowTx' \in Seq(L!Rows) /\ Len(rowTx') <= ChannelCap
    BY <1>1, NoRows, NoRoom, Zenon
  <2>6. /\ messages' \in Seq(L!Rows) /\ closing' \in BOOLEAN /\ logClock' \in 0 .. MaxClock
        /\ rowCount' \in 0 .. MaxRows /\ log_faults' \in 0 .. MaxFaults
        /\ purged' \subseteq 1 .. MaxRows
    BY <1>1 DEF LogInv, LogTypes
  <2> QED
    BY <2>2, <2>3, <2>4, <2>5, <2>6 DEF LogTypes
<1>8. LogOrder'
  BY <1>1, <1>2, <1>4, <1>6, NoRows DEF LogInv, LogOrder, Chain, Before
<1>9. LogPhase'
  BY <1>6 DEF LogPhase
<1>10. L!EveryRowIsAccountedFor'
  <2>1. 1 .. rowCount = L!Ids(rowTx) \cup L!Ids(log_queue) \cup L!Ids(writing)
                          \cup L!Ids(messages) \cup lost \cup purged
    BY DEF LogInv, L!EveryRowIsAccountedFor
  <2>2. 1 .. rowCount' = L!Ids(rowTx') \cup L!Ids(log_queue') \cup L!Ids(writing')
                           \cup L!Ids(messages) \cup lost' \cup purged
    <3>1. /\ L!Ids(log_queue') = {} /\ L!Ids(rowTx') = {} /\ L!Ids(writing) = {}
          /\ L!Ids(writing') = L!Ids(q)
      BY <1>1, <1>2, <1>6, NoRows, Zenon
    <3>2. rowCount' = rowCount /\ lost' = lost \cup ((L!Ids(log_queue) \cup L!Ids(rowTx)) \ L!Ids(q))
      BY <1>1
    <3>3. L!Ids(q) \subseteq L!Ids(log_queue) \cup L!Ids(rowTx)
      BY <1>4
    <3>4. 1 .. rowCount = L!Ids(rowTx) \cup L!Ids(log_queue) \cup L!Ids(messages) \cup lost \cup purged
      BY <2>1, <3>1
    <3>5. lost' \cup L!Ids(q) = lost \cup L!Ids(rowTx) \cup L!Ids(log_queue)
      BY <3>2, <3>3
    <3>6. 1 .. rowCount = {} \cup {} \cup L!Ids(q) \cup L!Ids(messages) \cup lost' \cup purged
      <4>1. 1 .. rowCount = (lost \cup L!Ids(rowTx) \cup L!Ids(log_queue)) \cup L!Ids(messages) \cup purged
        BY <3>4
      <4>2. 1 .. rowCount = (lost' \cup L!Ids(q)) \cup L!Ids(messages) \cup purged
        BY <3>5, <4>1, Zenon
      <4> QED
        BY <4>2
    <3> QED
      BY <3>1, <3>2, <3>6, Zenon
  <2> QED
    BY <1>1, <2>2 DEF L!EveryRowIsAccountedFor, L!Ids
<1>11. Alike(InPlay)'
  <2>1. InPlay' \in SUBSET InPlay
    BY <1>1, <1>4, <1>6, NoRows DEF InPlay
  <2> QED
    BY <2>1, AlikeShrinks DEF Alike, LogInv
<1> QED
  BY <1>7, <1>8, <1>9, <1>10, <1>11 DEF LogInv

(* A flush has returned: whatever was being written is in the table, in    *)
(* the queue again, or lost.                                               *)
LEMMA Flushing ==
  ASSUME LogInv, writing # <<>>
  PROVE  writer \in {"flushes", "last flush"} /\ log_queue = <<>>
BY DEF LogInv, LogPhase

LEMMA Written ==
  ASSUME LogInv, writing # <<>>, NEW s \in Seq(L!Rows), Ordered(s),
         L!Ids(s) \subseteq L!Ids(writing), RowsOf(s) \subseteq RowsOf(writing),
         messages' = messages \o s, L!Resume(<<>>),
         lost \subseteq lost', lost' \subseteq lost \cup L!Ids(writing),
         L!Ids(writing) \subseteq L!Ids(s) \cup lost',
         log_faults' \in 0 .. MaxFaults, UNCHANGED <<rowTx, closing, logClock, rowCount, purged>>
  PROVE  LogInv'
<1>1. /\ writing' = <<>> /\ log_queue' = <<>> /\ log_queue = <<>> /\ writer' \in {"waits", "stopped"}
  BY Flushing DEF L!Resume
<1>2. /\ messages' \in Seq(L!Rows) /\ Ordered(messages')
      /\ L!Ids(messages') = L!Ids(messages) \cup L!Ids(s)
      /\ RowsOf(messages') = RowsOf(messages) \cup RowsOf(s)
  <2>1. messages \in Seq(L!Rows) /\ Ordered(messages) /\ Before(L!Ids(messages), L!Ids(s))
    BY DEF LogInv, LogTypes, LogOrder, Chain, Before
  <2> QED
    BY <2>1, Joined
<1>3. LogTypes'
  <2>1. L!Ids(writing) \subseteq 1 .. MaxRows
    BY RowFacts DEF LogInv, LogTypes
  <2>2. lost' \subseteq 1 .. MaxRows
    BY <2>1 DEF LogInv, LogTypes
  <2> QED
    BY <1>1, <1>2, <2>2, NoRows, LogBounds DEF LogInv, LogTypes
<1>4. LogOrder'
  <2>1. Before(L!Ids(messages'), L!Ids(rowTx))
    BY <1>2 DEF LogInv, LogOrder, Chain, Before
  <2> QED
    BY <1>1, <1>2, <2>1, NoRows DEF LogInv, LogOrder, Chain, Before
<1>5. LogPhase'
  BY <1>1 DEF LogPhase
<1>6. L!EveryRowIsAccountedFor'
  <2>1. 1 .. rowCount = L!Ids(rowTx) \cup L!Ids(log_queue) \cup L!Ids(writing)
                          \cup L!Ids(messages) \cup lost \cup purged
    BY DEF LogInv, L!EveryRowIsAccountedFor
  <2>2. 1 .. rowCount' = L!Ids(rowTx) \cup L!Ids(log_queue') \cup L!Ids(writing')
                           \cup L!Ids(messages') \cup lost' \cup purged
    BY <1>1, <1>2, <2>1, NoRows
  <2> QED
    BY <2>2 DEF L!EveryRowIsAccountedFor, L!Ids
<1>7. Alike(InPlay)'
  <2>1. InPlay' \in SUBSET InPlay
    BY <1>1, <1>2, NoRows DEF InPlay
  <2> QED
    BY <2>1, AlikeShrinks DEF Alike, LogInv
<1> QED
  BY <1>3, <1>4, <1>5, <1>6, <1>7 DEF LogInv

LEMMA FaultCounted ==
  ASSUME LogInv, log_faults < MaxFaults
  PROVE  log_faults + 1 \in 0 .. MaxFaults
BY LogBounds DEF LogInv, LogTypes

LEMMA CommitKeeps ==
  ASSUME LogInv, L!FlushCommits
  PROVE  LogInv'
<1>1. /\ writing # <<>> /\ messages' = messages \o writing /\ L!Resume(<<>>)
      /\ UNCHANGED <<rowTx, closing, logClock, rowCount, lost, purged, log_faults>>
  BY DEF L!FlushCommits
<1>2. writing \in Seq(L!Rows) /\ Ordered(writing) /\ log_faults' \in 0 .. MaxFaults
  BY <1>1 DEF LogInv, LogTypes, LogOrder
<1> QED
  BY <1>1, <1>2, Written

LEMMA SkipKeeps ==
  ASSUME LogInv, NEW i \in DOMAIN writing, L!FlushSkips(i)
  PROVE  LogInv'
<1> DEFINE s == L!RemoveAt(writing, i)
<1>1. /\ log_faults < MaxFaults /\ log_faults' = log_faults + 1
      /\ messages' = messages \o s /\ lost' = lost \cup {writing[i].id} /\ L!Resume(<<>>)
      /\ UNCHANGED <<rowTx, closing, logClock, rowCount, purged>>
  BY DEF L!FlushSkips
<1>2. writing \in Seq(L!Rows) /\ Ordered(writing) /\ writing # <<>>
  BY DEF LogInv, LogTypes, LogOrder
<1>3. /\ s \in Seq(L!Rows) /\ Ordered(s) /\ L!Ids(writing) = {writing[i].id} \cup L!Ids(s)
      /\ RowsOf(s) \subseteq RowsOf(writing)
  BY <1>2, Skipped
<1>4. log_faults' \in 0 .. MaxFaults
  BY <1>1, FaultCounted
<1> HIDE DEF s
<1>5. /\ lost \subseteq lost' /\ lost' \subseteq lost \cup L!Ids(writing)
      /\ L!Ids(writing) \subseteq L!Ids(s) \cup lost' /\ L!Ids(s) \subseteq L!Ids(writing)
  BY <1>1, <1>3
<1> QED
  BY <1>1, <1>2, <1>3, <1>4, <1>5, Written

LEMMA NoCommitKeeps ==
  ASSUME LogInv, L!FlushCannotCommit
  PROVE  LogInv'
<1>1. /\ writing # <<>> /\ log_faults < MaxFaults /\ log_faults' = log_faults + 1
      /\ L!Resume(<<>>) /\ lost' = lost \cup L!Ids(writing)
      /\ UNCHANGED <<rowTx, messages, closing, logClock, rowCount, purged>>
  BY DEF L!FlushCannotCommit
<1>2. messages' = messages \o <<>>
  BY <1>1 DEF LogInv, LogTypes
<1>3. log_faults' \in 0 .. MaxFaults
  BY <1>1, FaultCounted
<1> DEFINE s == <<>>
<1>4. /\ s \in Seq(L!Rows) /\ Ordered(s) /\ L!Ids(s) = {} /\ RowsOf(s) = {} /\ messages' = messages \o s
  BY <1>2, NoRows
<1> HIDE DEF s
<1>5. /\ L!Ids(s) \subseteq L!Ids(writing) /\ RowsOf(s) \subseteq RowsOf(writing)
      /\ lost \subseteq lost' /\ lost' \subseteq lost \cup L!Ids(writing)
      /\ L!Ids(writing) \subseteq L!Ids(s) \cup lost'
  BY <1>1, <1>4
<1> QED
  BY <1>1, <1>3, <1>4, <1>5, Written

LEMMA NoBeginKeeps ==
  ASSUME LogInv, L!FlushCannotBegin
  PROVE  LogInv'
<1>1. /\ writing # <<>> /\ log_faults < MaxFaults /\ log_faults' = log_faults + 1
      /\ writing' = <<>>
      /\ \/ writer = "flushes" /\ log_queue' = writing /\ writer' = "waits"
         \/ writer # "flushes" /\ log_queue' = <<>> /\ writer' = "stopped"
      /\ lost' = IF writer = "last flush" THEN lost \cup L!Ids(writing) ELSE lost
      /\ UNCHANGED <<rowTx, messages, closing, logClock, rowCount, purged>>
  BY DEF L!FlushCannotBegin, L!Resume
<1>2. writer \in {"flushes", "last flush"} /\ log_queue = <<>>
  BY <1>1, Flushing
<1>3. log_faults' \in 0 .. MaxFaults
  BY <1>1, FaultCounted
<1>4. LogTypes'
  <2>1. L!Ids(writing) \subseteq 1 .. MaxRows
    BY RowFacts DEF LogInv, LogTypes
  <2>2. lost' \subseteq 1 .. MaxRows
    BY <1>1, <2>1 DEF LogInv, LogTypes
  <2>3. /\ log_queue' \in {writing, <<>>} /\ writing' = <<>> /\ rowTx' = rowTx
    BY <1>1
  <2>4. /\ writing \in Seq(L!Rows) /\ Len(writing) <= MAX_PENDING_ROWS
        /\ rowTx \in Seq(L!Rows) /\ Len(rowTx) <= ChannelCap
    BY DEF LogInv, LogTypes
  <2>5. /\ log_queue' \in Seq(L!Rows) /\ Len(log_queue') <= MAX_PENDING_ROWS
        /\ writing' \in Seq(L!Rows) /\ Len(writing') <= MAX_PENDING_ROWS
    <3>1. CASE log_queue' = writing
      BY <2>3, <2>4, <3>1, NoRows, NoRoom, Zenon
    <3>2. CASE log_queue' = <<>>
      BY <2>3, <3>2, NoRows, NoRoom, Zenon
    <3> QED
      BY <2>3, <3>1, <3>2, Zenon
  <2>6. /\ messages' \in Seq(L!Rows) /\ closing' \in BOOLEAN /\ logClock' \in 0 .. MaxClock
        /\ rowCount' \in 0 .. MaxRows /\ purged' \subseteq 1 .. MaxRows
    BY <1>1 DEF LogInv, LogTypes
  <2> QED
    BY <1>3, <2>2, <2>3, <2>4, <2>5, <2>6 DEF LogTypes
<1>5. LogOrder'
  BY <1>1, NoRows DEF LogInv, LogOrder, Chain, Before
<1>6. LogPhase'
  BY <1>1 DEF LogPhase
<1>7. L!EveryRowIsAccountedFor'
  <2>1. 1 .. rowCount = L!Ids(rowTx) \cup L!Ids(log_queue) \cup L!Ids(writing)
                          \cup L!Ids(messages) \cup lost \cup purged
    BY DEF LogInv, L!EveryRowIsAccountedFor
  <2>2. 1 .. rowCount' = L!Ids(rowTx') \cup L!Ids(log_queue') \cup L!Ids(writing')
                           \cup L!Ids(messages') \cup lost' \cup purged'
    BY <1>1, <1>2, <2>1, NoRows
  <2> QED
    BY <2>2 DEF L!EveryRowIsAccountedFor, L!Ids
<1>8. Alike(InPlay)'
  <2>1. InPlay' \in SUBSET InPlay
    BY <1>1, NoRows DEF InPlay
  <2> QED
    BY <2>1, AlikeShrinks DEF Alike, LogInv
<1> QED
  BY <1>4, <1>5, <1>6, <1>7, <1>8 DEF LogInv

(* Retention: what is deleted is counted as purged.                        *)
LEMMA DeleteKeeps ==
  ASSUME LogInv, NEW doomed \in SUBSET RowsOf(messages), L!Delete(doomed), LogPhase',
         closing' \in BOOLEAN, UNCHANGED <<rowTx, log_queue, writing, logClock, rowCount, lost, log_faults>>
  PROVE  LogInv'
<1>1. messages' = L!Without(doomed) /\ purged' = purged \cup {r.id : r \in doomed}
  BY DEF L!Delete
<1>2. /\ messages' \in Seq(L!Rows) /\ Ordered(messages') /\ RowsOf(messages') = RowsOf(messages) \ doomed
  BY <1>1, Spared DEF LogInv, LogTypes, LogOrder
<1>3. /\ L!Ids(messages') = {r.id : r \in RowsOf(messages')}
      /\ L!Ids(messages) = {r.id : r \in RowsOf(messages)}
  BY IdsOfRows
<1>4. /\ L!Ids(messages') \subseteq L!Ids(messages)
      /\ L!Ids(messages) = L!Ids(messages') \cup {r.id : r \in doomed}
  BY <1>2, <1>3
<1>5. LogTypes'
  <2>1. L!Ids(messages) \subseteq 1 .. MaxRows
    BY RowFacts DEF LogInv, LogTypes
  <2>2. purged' \subseteq 1 .. MaxRows
    BY <1>1, <1>4, <2>1 DEF LogInv, LogTypes
  <2> QED
    BY <1>2, <2>2 DEF LogInv, LogTypes
<1>6. LogOrder'
  BY <1>2, <1>4 DEF LogInv, LogOrder, Chain, Before
<1>7. L!EveryRowIsAccountedFor'
  <2>1. 1 .. rowCount = L!Ids(rowTx) \cup L!Ids(log_queue) \cup L!Ids(writing)
                          \cup L!Ids(messages) \cup lost \cup purged
    BY DEF LogInv, L!EveryRowIsAccountedFor
  <2>2. 1 .. rowCount = L!Ids(rowTx) \cup L!Ids(log_queue) \cup L!Ids(writing)
                           \cup L!Ids(messages') \cup lost \cup purged'
    BY <1>1, <1>4, <2>1
  <2> QED
    BY <2>2 DEF L!EveryRowIsAccountedFor, L!Ids
<1>8. Alike(InPlay)'
  <2>1. InPlay' \in SUBSET InPlay
    BY <1>2 DEF InPlay
  <2> QED
    BY <2>1, AlikeShrinks DEF Alike, LogInv
<1> QED
  BY <1>5, <1>6, <1>7, <1>8 DEF LogInv

(* What retention takes: old events, and at a start whatever is too old.   *)
Doomed(rows) ==
  \/ rows = {r \in RowsOf(messages) : L!OldEvent(r)}
  \/ rows = {r \in RowsOf(messages) : L!Old(r, KeepAll) \/ L!OldEvent(r)}
LEMMA Retained ==
  ASSUME LogInv, L!PurgeOldEvents \/ L!Start
  PROVE  /\ \E rows : Doomed(rows) /\ L!Delete(rows)
         /\ LogPhase' /\ closing' \in BOOLEAN
         /\ UNCHANGED <<rowTx, log_queue, writing, logClock, rowCount, lost, log_faults>>
<1>1. L!Range(messages) = RowsOf(messages)
  BY DEF L!Range, RowsOf
<1>2. CASE L!PurgeOldEvents
  <2>1. L!Delete({r \in RowsOf(messages) : L!OldEvent(r)})
    BY <1>1, <1>2 DEF L!PurgeOldEvents
  <2>2. UNCHANGED <<rowTx, log_queue, writing, writer, closing, logClock, rowCount, lost, log_faults>>
    BY <1>2 DEF L!PurgeOldEvents
  <2>3. LogPhase' /\ closing' \in BOOLEAN
    BY <2>2 DEF LogInv, LogPhase, LogTypes
  <2> QED
    BY <2>1, <2>2, <2>3 DEF Doomed
<1>3. CASE L!Start
  <2>1. L!Delete({r \in RowsOf(messages) : L!Old(r, KeepAll) \/ L!OldEvent(r)})
    BY <1>1, <1>3 DEF L!Start
  <2>2. /\ writer = "stopped" /\ writer' = "waits" /\ closing' = FALSE
        /\ UNCHANGED <<rowTx, log_queue, writing, logClock, rowCount, lost, log_faults>>
    BY <1>3 DEF L!Start
  <2>3. LogPhase'
    BY <2>2 DEF LogInv, LogPhase
  <2> QED
    BY <2>1, <2>2, <2>3 DEF Doomed
<1> QED
  BY <1>2, <1>3

LEMMA RetentionKeeps ==
  ASSUME LogInv, L!PurgeOldEvents \/ L!Start
  PROVE  LogInv'
<1>1. PICK rows : Doomed(rows) /\ L!Delete(rows)
  BY Retained
<1>2. rows \in SUBSET RowsOf(messages)
  BY <1>1 DEF Doomed
<1> QED
  BY <1>1, <1>2, Retained, DeleteKeeps

LEMMA CrashKeeps ==
  ASSUME LogInv, L!Crash
  PROVE  LogInv'
<1>1. /\ log_faults < MaxFaults /\ log_faults' = log_faults + 1
      /\ lost' = lost \cup L!Ids(rowTx) \cup L!Ids(log_queue) \cup L!Ids(writing)
      /\ rowTx' = <<>> /\ log_queue' = <<>> /\ writing' = <<>> /\ writer' = "stopped"
      /\ UNCHANGED <<messages, closing, logClock, rowCount, purged>>
  BY DEF L!Crash
<1>2. log_faults' \in 0 .. MaxFaults
  BY <1>1, FaultCounted
<1>3. LogTypes'
  <2>1. /\ L!Ids(writing) \subseteq 1 .. MaxRows /\ L!Ids(rowTx) \subseteq 1 .. MaxRows
        /\ L!Ids(log_queue) \subseteq 1 .. MaxRows
    BY RowFacts DEF LogInv, LogTypes
  <2>2. lost' \subseteq 1 .. MaxRows
    BY <1>1, <2>1 DEF LogInv, LogTypes
  <2> QED
    BY <1>1, <1>2, <2>2, NoRows, LogBounds DEF LogInv, LogTypes
<1>4. LogOrder'
  BY <1>1, NoRows DEF LogInv, LogOrder, Chain, Before
<1>5. LogPhase'
  BY <1>1 DEF LogPhase
<1>6. L!EveryRowIsAccountedFor'
  <2>1. 1 .. rowCount = L!Ids(rowTx) \cup L!Ids(log_queue) \cup L!Ids(writing)
                          \cup L!Ids(messages) \cup lost \cup purged
    BY DEF LogInv, L!EveryRowIsAccountedFor
  <2>2. 1 .. rowCount' = L!Ids(rowTx') \cup L!Ids(log_queue') \cup L!Ids(writing')
                           \cup L!Ids(messages') \cup lost' \cup purged'
    BY <1>1, <2>1, NoRows
  <2> QED
    BY <2>2 DEF L!EveryRowIsAccountedFor, L!Ids
<1>7. Alike(InPlay)'
  <2>1. InPlay' \in SUBSET InPlay
    BY <1>1, NoRows DEF InPlay
  <2> QED
    BY <2>1, AlikeShrinks DEF Alike, LogInv
<1> QED
  BY <1>3, <1>4, <1>5, <1>6, <1>7 DEF LogInv

LEMMA QuietKeeps ==
  ASSUME LogInv, UNCHANGED <<rowTx, log_queue, writing, messages, writer, rowCount, lost, purged,
                             log_faults>>,
         closing' \in BOOLEAN, logClock' \in 0 .. MaxClock
  PROVE  LogInv'
<1>1. LogTypes' /\ LogOrder' /\ LogPhase'
  BY DEF LogInv, LogTypes, LogOrder, LogPhase
<1>2. L!EveryRowIsAccountedFor'
  BY DEF LogInv, L!EveryRowIsAccountedFor, L!Ids
<1>3. Alike(InPlay)'
  <2>1. InPlay' \in SUBSET InPlay
    BY DEF InPlay
  <2> QED
    BY <2>1, AlikeShrinks DEF Alike, LogInv
<1> QED
  BY <1>1, <1>2, <1>3 DEF LogInv

LEMMA LogInit == ASSUME L!Init PROVE LogInv
<1>1. /\ rowTx = <<>> /\ log_queue = <<>> /\ writing = <<>> /\ messages = <<>>
      /\ writer = "waits" /\ closing = FALSE /\ logClock = 0 /\ rowCount = 0
      /\ lost = {} /\ purged = {} /\ log_faults = 0
  BY DEF L!Init
<1>2. LogTypes
  <2>1. 0 \in 0 .. MaxClock /\ 0 \in 0 .. MaxRows /\ 0 \in 0 .. MaxFaults /\ 0 <= ChannelCap
        /\ 0 <= MAX_PENDING_ROWS
    BY LogBounds
  <2> QED
    BY <1>1, <2>1, NoRows DEF LogTypes
<1>3. LogOrder
  BY <1>1, NoRows DEF LogOrder, Chain, Before
<1>4. LogPhase
  BY <1>1 DEF LogPhase
<1>5. L!EveryRowIsAccountedFor
  BY <1>1, NoRows DEF L!EveryRowIsAccountedFor
<1>6. Alike(InPlay)
  BY <1>1, NoRows DEF Alike, InPlay
<1> QED
  BY <1>2, <1>3, <1>4, <1>5, <1>6 DEF LogInv

LEMMA LogNext == ASSUME LogInv, [L!Next]_(L!vars) PROVE LogInv'
<1>1. ASSUME NEW b \in L!Buffers, L!AddMessage(b, logClock) PROVE LogInv'
  BY <1>1, AddKeeps
<1>2. ASSUME NEW bs \in L!Affected, NEW ts \in 0 .. logClock, L!HandleQuit(bs, ts) PROVE LogInv'
  BY <1>2, QuitKeeps
<1>3. CASE L!Receive
  BY <1>3, ReceiveKeeps
<1>4. CASE L!FlushTick
  BY <1>4, TickKeeps
<1>5. CASE L!AskToStop
  <2>1. /\ closing' = TRUE
        /\ UNCHANGED <<rowTx, log_queue, writing, messages, writer, logClock, rowCount, lost, purged,
                       log_faults>>
    BY <1>5 DEF L!AskToStop
  <2>2. logClock' \in 0 .. MaxClock /\ closing' \in BOOLEAN
    BY <2>1 DEF LogInv, LogTypes
  <2> QED
    BY <2>1, <2>2, QuietKeeps
<1>6. CASE L!ShutDown
  BY <1>6, ShutDownKeeps
<1>7. CASE L!Flush
  BY <1>7, CommitKeeps, NoBeginKeeps, NoCommitKeeps, SkipKeeps DEF L!Flush
<1>8. CASE L!PurgeOldEvents \/ L!Start
  BY <1>8, RetentionKeeps
<1>9. CASE L!Crash
  BY <1>9, CrashKeeps
<1>10. CASE L!TimePasses
  <2>1. /\ logClock < MaxClock /\ logClock' = logClock + 1
        /\ UNCHANGED <<rowTx, log_queue, writing, messages, writer, closing, rowCount, lost, purged,
                       log_faults>>
    BY <1>10 DEF L!TimePasses
  <2>2. logClock' \in 0 .. MaxClock /\ closing' \in BOOLEAN
    BY <2>1, LogBounds DEF LogInv, LogTypes
  <2> QED
    BY <2>1, <2>2, QuietKeeps
<1>11. CASE UNCHANGED L!vars
  <2>1. /\ logClock' \in 0 .. MaxClock /\ closing' \in BOOLEAN
        /\ UNCHANGED <<rowTx, log_queue, writing, messages, writer, rowCount, lost, purged, log_faults>>
    BY <1>11 DEF LogInv, LogTypes, L!vars
  <2> QED
    BY <2>1, QuietKeeps
<1> QED
  BY <1>1, <1>2, <1>3, <1>4, <1>5, <1>6, <1>7, <1>8, <1>9, <1>10, <1>11 DEF L!Next

(* A row and the row it refers to have the same age.                       *)
LEMMA CopiesFollow ==
  ASSUME LogInv, NEW rows, Doomed(rows), L!Delete(rows)
  PROVE  L!CopiesGoWithTheirTextStep
<1>1. L!Range(messages) = RowsOf(messages) /\ purged' = purged \cup {r.id : r \in rows}
  BY DEF L!Range, RowsOf, L!Delete
<1> SUFFICES ASSUME NEW r \in RowsOf(messages), r.ref \in purged' \ purged PROVE r.id \in purged'
  BY <1>1 DEF L!CopiesGoWithTheirTextStep
<1>2. PICK q \in rows : q.id = r.ref
  BY <1>1
<1>3. q \in RowsOf(messages)
  BY DEF Doomed
<1>4. q.event /\ r.event /\ q.ts = r.ts
  BY <1>2, <1>3 DEF LogInv, Alike, InPlay
<1>5. L!OldEvent(q) => L!OldEvent(r)
  BY <1>4 DEF L!OldEvent, L!Old
<1>6. L!Old(q, KeepAll) => L!Old(r, KeepAll)
  BY <1>4 DEF L!Old
<1>7. r \in rows
  BY <1>5, <1>6 DEF Doomed
<1> QED
  BY <1>1, <1>7

LEMMA CopiesStep == ASSUME LogInv, L!Next PROVE L!CopiesGoWithTheirTextStep
<1>1. CASE purged' = purged
  BY <1>1 DEF L!CopiesGoWithTheirTextStep
<1>2. CASE L!PurgeOldEvents \/ L!Start
  BY <1>2, Retained, CopiesFollow
<1> QED
  BY <1>1, <1>2 DEF L!Next, L!AddMessage, L!HandleQuit, L!Receive, L!FlushTick, L!AskToStop, L!ShutDown,
     L!Flush, L!FlushCommits, L!FlushSkips, L!FlushCannotBegin, L!FlushCannotCommit, L!Crash, L!TimePasses

LEMMA LogGood == ASSUME LogInv PROVE L!TypeOK /\ L!LogKeepsOrder /\ L!EveryRowIsAccountedFor
<1>1. L!TypeOK
  BY DEF L!TypeOK, LogInv, LogTypes, LogPhase
<1>2. L!LogKeepsOrder
  BY DEF L!LogKeepsOrder, LogInv, LogOrder, Ordered
<1> QED
  BY <1>1, <1>2 DEF LogInv

LEMMA LogRuns ==
  ASSUME [MCNext]_mcVars, part' = "log"
  PROVE  part = "log" /\ [L!Next]_(L!vars)
BY DEF MCNext, mcVars, QueryOnly, LogOnly, CommandsOnly, ShellOnly, ImagesOnly, RegistrationOnly,
       logVars, L!vars

LEMMA LogAlways == MCSpec => [](part = "log" => LogInv)
<1> DEFINE Inv == part = "log" => LogInv
<1>1. MCInit => Inv
  BY LogInit DEF MCInit
<1>2. Inv /\ [MCNext]_mcVars => Inv'
  <2> SUFFICES ASSUME part = "log" => LogInv, [MCNext]_mcVars, part' = "log" PROVE LogInv'
    OBVIOUS
  <2> QED
    BY LogRuns, LogNext
<1> QED
  BY <1>1, <1>2, PTL DEF MCSpec

(* The table has the rows that were submitted, in the order of their       *)
(* submission, but for those whose loss or deletion is accounted for       *)
(* (LogIsComplete): for any buffers, batches, channel, cap, retention and  *)
(* failures of the database, with crashes and restarts.                    *)
THEOREM CompleteLog == MCSpec => []LogIsComplete
<1>1. (part = "log" => LogInv) => LogIsComplete
  BY LogGood DEF LogIsComplete, LogKeepsOrder, EveryRowIsAccountedFor
<1> QED
  BY <1>1, LogAlways, PTL

(* Retention never takes the text of an event and leaves a copy of it      *)
(* (CopiesGoWithTheirText): whatever batches its rows were written in and  *)
(* whichever of them were lost.                                            *)
THEOREM CopiesGo == MCSpec => CopiesGoWithTheirText
<1>1. (part = "log" => LogInv) /\ [MCNext]_mcVars
        => [part = "log" => L!CopiesGoWithTheirTextStep]_mcVars
  <2> SUFFICES ASSUME part = "log" => LogInv, MCNext, part = "log"
               PROVE  L!CopiesGoWithTheirTextStep
    OBVIOUS
  <2>1. L!Next
    BY DEF MCNext
  <2> QED
    BY <2>1, CopiesStep
<1> QED
  BY <1>1, LogAlways, PTL DEF MCSpec, CopiesGoWithTheirText

-----------------------------------------------------------------------------
(* Lists, whatever they hold.                                              *)
Elements(s) == {s[i] : i \in DOMAIN s}
IsList(s) == s \in Seq(Elements(s))

LEMMA ListOf ==
  ASSUME NEW T, NEW s \in Seq(T)
  PROVE  IsList(s) /\ Len(s) \in Nat /\ DOMAIN s = 1..Len(s) /\ (s = <<>> <=> Len(s) = 0)
<1>1. s \in [1..Len(s) -> Elements(s)] /\ Len(s) \in Nat
  BY DEF Elements
<1>2. s \in Seq(Elements(s))
  BY <1>1, SeqDef
<1> QED
  BY <1>1, <1>2, EmptySeq DEF IsList

LEMMA ListAdd ==
  ASSUME NEW s, NEW x, IsList(s)
  PROVE  /\ IsList(Append(s, x)) /\ Len(Append(s, x)) = Len(s) + 1
         /\ DOMAIN Append(s, x) = 1..Len(s) + 1 /\ DOMAIN s = 1..Len(s) /\ Len(s) \in Nat
         /\ Append(s, x)[Len(s) + 1] = x
         /\ \A i \in DOMAIN s : Append(s, x)[i] = s[i]
<1> DEFINE T == Elements(s) \cup {x}
<1>1. s \in Seq(T)
  BY DEF IsList, Elements
<1>2. Append(s, x) \in Seq(T)
  BY <1>1
<1>3. IsList(Append(s, x))
  BY <1>2, ListOf
<1> HIDE DEF T
<1> QED
  BY <1>1, <1>3

LEMMA ListTail ==
  ASSUME NEW s, IsList(s), s # <<>>
  PROVE  /\ IsList(Tail(s)) /\ Len(s) \in Nat \ {0} /\ Len(Tail(s)) = Len(s) - 1
         /\ DOMAIN s = 1..Len(s) /\ DOMAIN Tail(s) = 1..Len(s) - 1
         /\ Head(s) = s[1] /\ \A i \in DOMAIN Tail(s) : Tail(s)[i] = s[i + 1]
<1>1. s \in Seq(Elements(s))
  BY DEF IsList
<1>2. Tail(s) \in Seq(Elements(s))
  BY <1>1
<1>3. IsList(Tail(s))
  BY <1>2, ListOf
<1>4. Len(s) \in Nat \ {0}
  BY <1>1, EmptySeq
<1> QED
  BY <1>1, <1>3, <1>4

LEMMA ListJoin ==
  ASSUME NEW s, NEW t, IsList(s), IsList(t)
  PROVE  /\ IsList(s \o t) /\ Len(s \o t) = Len(s) + Len(t)
         /\ DOMAIN (s \o t) = 1..Len(s) + Len(t) /\ DOMAIN s = 1..Len(s) /\ DOMAIN t = 1..Len(t)
         /\ Len(s) \in Nat /\ Len(t) \in Nat
         /\ \A i \in DOMAIN s : (s \o t)[i] = s[i]
         /\ \A i \in DOMAIN t : (s \o t)[Len(s) + i] = t[i]
<1> DEFINE T == Elements(s) \cup Elements(t)
<1>1. s \in Seq(T) /\ t \in Seq(T)
  BY DEF IsList, Elements
<1>2. s \o t \in Seq(T)
  BY <1>1
<1>3. IsList(s \o t)
  BY <1>2, ListOf
<1> HIDE DEF T
<1> QED
  BY <1>1, <1>3

LEMMA ListCut ==
  ASSUME NEW s, NEW n \in Nat, IsList(s), n <= Len(s)
  PROVE  /\ IsList(SubSeq(s, 1, n)) /\ Len(SubSeq(s, 1, n)) = n /\ DOMAIN SubSeq(s, 1, n) = 1..n
         /\ DOMAIN s = 1..Len(s) /\ Len(s) \in Nat
         /\ \A i \in 1..n : SubSeq(s, 1, n)[i] = s[i]
<1>1. s \in Seq(Elements(s)) /\ Len(s) \in Nat
  BY DEF IsList
<1>2. SubSeq(s, 1, n) \in Seq(Elements(s))
  BY <1>1
<1>3. IsList(SubSeq(s, 1, n))
  BY <1>2, ListOf
<1> QED
  BY <1>1, <1>3

LEMMA ListNone == IsList(<<>>) /\ Len(<<>>) = 0 /\ DOMAIN <<>> = {}
<1>1. <<>> \in Seq({})
  OBVIOUS
<1>2. IsList(<<>>)
  BY <1>1, ListOf
<1> QED
  BY <1>2

LEMMA ListOne ==
  ASSUME NEW x
  PROVE  IsList(<<x>>) /\ Len(<<x>>) = 1 /\ DOMAIN <<x>> = {1} /\ <<x>>[1] = x
<1>1. <<x>> \in Seq({x})
  OBVIOUS
<1>2. IsList(<<x>>)
  BY <1>1, ListOf
<1> QED
  BY <1>2

LEMMA ListParts ==
  ASSUME NEW s, NEW t, IsList(s), IsList(t)
  PROVE  /\ IsList(s \o t)
         /\ \A i \in DOMAIN (s \o t) :
              \/ i \in DOMAIN s /\ (s \o t)[i] = s[i]
              \/ i - Len(s) \in DOMAIN t /\ (s \o t)[i] = t[i - Len(s)]
<1> DEFINE u == s \o t
<1>1. /\ IsList(u) /\ DOMAIN u = 1..Len(s) + Len(t) /\ DOMAIN s = 1..Len(s)
      /\ DOMAIN t = 1..Len(t) /\ Len(s) \in Nat /\ Len(t) \in Nat
  BY ListJoin
<1>2. /\ \A i \in DOMAIN s : u[i] = s[i]
      /\ \A i \in DOMAIN t : u[Len(s) + i] = t[i]
  BY ListJoin
<1> HIDE DEF u
<1>3. \A i \in DOMAIN u :
        i \in DOMAIN s \/ (i - Len(s) \in DOMAIN t /\ i = Len(s) + (i - Len(s)))
  BY <1>1
<1>4. \A i \in DOMAIN u : \/ i \in DOMAIN s /\ u[i] = s[i]
                          \/ i - Len(s) \in DOMAIN t /\ u[i] = t[i - Len(s)]
  BY <1>2, <1>3
<1> QED
  BY <1>1, <1>4 DEF u
-----------------------------------------------------------------------------
(* Commands and pastes.  The depth of an alias is counted up to one more   *)
(* than the limit, and a chain under way always has something to run.      *)
ChainsOf(s) ==
  \A i \in DOMAIN s : /\ s[i] = [parts |-> s[i].parts, depth |-> s[i].depth]
                      /\ s[i].depth \in 0..MAX_ALIAS_DEPTH + 1 /\ s[i].parts # <<>>
CommandTypes ==
  /\ IsList(agenda) /\ IsList(done) /\ IsList(pasteQueue)
  /\ DOMAIN aliases \subseteq {"al", "bl"} /\ activeBuf \in C!Buffers
  /\ Len(pasteQueue) <= MAX_PASTE_LINES
  /\ ChainsOf(agenda)
  /\ source \in [paste : 0..MaxEntries, index : Nat] /\ entries \in 0..MaxEntries

(* What was run, the line that runs and the lines that wait come from      *)
(* places in the order of the pastes and of their texts.                   *)
PastePlaces == [paste : Nat, index : Nat]
NotAfter(x, y) == x.paste < y.paste \/ (x.paste = y.paste /\ x.index <= y.index)
Follows(y) == \A i \in DOMAIN done : done[i].source # C!Typed => NotAfter(done[i].source, y)
CommandOrder ==
  /\ \A i \in DOMAIN done : done[i].source \in PastePlaces /\ done[i].source.paste <= entries
  /\ \A i, j \in DOMAIN done :
       i < j /\ C!Typed \notin {done[i].source, done[j].source}
         => NotAfter(done[i].source, done[j].source)
  /\ source.paste <= entries /\ (source # C!Typed => Follows(source))
QueueOrder ==
  /\ \A k \in DOMAIN pasteQueue :
       /\ pasteQueue[k].source \in PastePlaces /\ pasteQueue[k].source.paste \in 1..entries
       /\ Follows(pasteQueue[k].source)
       /\ source # C!Typed => NotAfter(source, pasteQueue[k].source)
  /\ \A k, l \in DOMAIN pasteQueue :
       k < l => NotAfter(pasteQueue[k].source, pasteQueue[l].source)
CommandInv == CommandTypes /\ CommandOrder /\ QueueOrder

LEMMA CommandsStart == C!Init => CommandInv
<1> SUFFICES ASSUME C!Init PROVE CommandInv
  OBVIOUS
<1>1. IsList(<<>>) /\ Len(<<>>) = 0 /\ DOMAIN <<>> = {}
  BY ListNone
<1>2. agenda = <<>> /\ done = <<>> /\ pasteQueue = <<>> /\ source = C!Typed /\ entries = 0
  BY DEF C!Init
<1>3. DOMAIN aliases \subseteq {"al", "bl"} /\ activeBuf \in C!Buffers
  BY DEF C!Init, C!Buffers
<1>4. C!Typed \in [paste : 0..MaxEntries, index : Nat] /\ 0 \in 0..MaxEntries /\ C!Typed.paste = 0
  BY CommandLineAssumption DEF C!Typed, C!CommandLineAssumption
<1>5. 0 <= MAX_PASTE_LINES
  BY CommandLineAssumption DEF C!CommandLineAssumption
<1>6. CommandTypes
  BY <1>1, <1>2, <1>3, <1>4, <1>5 DEF CommandTypes, ChainsOf
<1>7. CommandOrder /\ QueueOrder
  BY <1>1, <1>2, <1>4 DEF CommandOrder, QueueOrder, Follows
<1> QED
  BY <1>6, <1>7 DEF CommandInv

LEMMA ChainsJoin ==
  ASSUME NEW s, NEW t, IsList(s), IsList(t), ChainsOf(s), ChainsOf(t)
  PROVE  IsList(s \o t) /\ ChainsOf(s \o t)
<1> DEFINE u == s \o t
<1>1. IsList(u)
  BY ListParts
<1>2. \A i \in DOMAIN u : \/ i \in DOMAIN s /\ u[i] = s[i]
                          \/ i - Len(s) \in DOMAIN t /\ u[i] = t[i - Len(s)]
  BY ListParts
<1> HIDE DEF u
<1>3. ChainsOf(u)
  BY <1>2 DEF ChainsOf
<1> QED
  BY <1>1, <1>3 DEF u

LEMMA CommandsLeft ==
  ASSUME CommandTypes, agenda # <<>>
  PROVE  IsList(C!Left) /\ ChainsOf(C!Left) /\ C!Current.depth \in 0..MAX_ALIAS_DEPTH + 1
<1> DEFINE h == Head(agenda)
           rest == Tail(agenda)
           h2 == [h EXCEPT !.parts = Tail(h.parts)]
<1>1. IsList(agenda) /\ ChainsOf(agenda)
  BY DEF CommandTypes
<1>2. /\ IsList(rest) /\ DOMAIN rest = 1..Len(agenda) - 1 /\ DOMAIN agenda = 1..Len(agenda)
      /\ Len(agenda) \in Nat \ {0} /\ h = agenda[1]
      /\ \A i \in DOMAIN rest : rest[i] = agenda[i + 1]
  BY <1>1, ListTail
<1>3. ChainsOf(rest)
  BY <1>1, <1>2 DEF ChainsOf
<1>4. /\ h = [parts |-> h.parts, depth |-> h.depth]
      /\ h.depth \in 0..MAX_ALIAS_DEPTH + 1
  BY <1>1, <1>2 DEF ChainsOf
<1>5. h2 = [parts |-> Tail(h.parts), depth |-> h.depth]
  <2>1. \A r, p : r = [parts |-> r.parts, depth |-> r.depth]
                 => [r EXCEPT !.parts = p] = [parts |-> p, depth |-> r.depth]
    OBVIOUS
  <2> HIDE DEF h
  <2> QED
    BY <1>4, <2>1
<1> DEFINE one == <<h2>>
<1>6. IsList(one) /\ DOMAIN one = {1} /\ one[1] = h2 /\ Len(one) = 1
  BY ListOne
<1>7. ASSUME Tail(h.parts) # <<>> PROVE ChainsOf(one)
  BY <1>4, <1>5, <1>6, <1>7 DEF ChainsOf
<1> HIDE DEF one, h, rest, h2
<1>9. C!Left = IF Tail(h.parts) = <<>> THEN rest ELSE one \o rest
  BY DEF C!Left, one, h, h2, rest
<1>10. IsList(C!Left) /\ ChainsOf(C!Left)
  <2>1. CASE Tail(h.parts) = <<>>
    BY <2>1, <1>2, <1>3, <1>9
  <2>2. CASE Tail(h.parts) # <<>>
    BY <2>2, <1>2, <1>3, <1>6, <1>7, <1>9, ChainsJoin
  <2> QED
    BY <2>1, <2>2
<1>11. C!Current.depth = h.depth
  BY DEF C!Current, h
<1> QED
  BY <1>4, <1>10, <1>11

LEMMA CommandsChain ==
  ASSUME CommandTypes, agenda # <<>>, NEW words, NEW d \in 0..MAX_ALIAS_DEPTH + 1
  PROVE  IsList(C!Chain(words, d) \o C!Left) /\ ChainsOf(C!Chain(words, d) \o C!Left)
<1> DEFINE c == C!Chain(words, d)
           x == [parts |-> C!Split[words], depth |-> d]
<1>1. IsList(C!Left) /\ ChainsOf(C!Left)
  BY CommandsLeft
<1>2. IsList(c) /\ ChainsOf(c)
  <2>1. CASE C!Split[words] = <<>>
    <3>1. c = <<>>
      BY <2>1 DEF C!Chain
    <3>2. IsList(<<>>) /\ DOMAIN <<>> = {}
      BY ListNone
    <3> QED
      BY <3>1, <3>2 DEF ChainsOf
  <2>2. CASE C!Split[words] # <<>>
    <3>1. c = <<x>>
      BY <2>2 DEF C!Chain
    <3>2. IsList(<<x>>) /\ DOMAIN <<x>> = {1} /\ <<x>>[1] = x
      BY ListOne
    <3>3. x.parts # <<>> /\ x.depth = d /\ x = [parts |-> x.parts, depth |-> x.depth]
      BY <2>2
    <3> HIDE DEF x
    <3> QED
      BY <3>1, <3>2, <3>3 DEF ChainsOf
  <2> QED
    BY <2>1, <2>2
<1> HIDE DEF c
<1> QED
  BY <1>1, <1>2, ChainsJoin DEF c

(* A line that runs is put behind those that ran before it.                *)
LEMMA CommandsRan ==
  ASSUME CommandInv, NEW words, C!Ran(words), UNCHANGED <<pasteQueue, source, entries>>
  PROVE  CommandOrder' /\ QueueOrder' /\ IsList(done')
<1> DEFINE x == [words |-> words, buf |-> activeBuf, source |-> source]
           n == Len(done)
<1>1. done' = Append(done, x) /\ x.source = source
  BY DEF C!Ran
<1>2. IsList(done)
  BY DEF CommandInv, CommandTypes
<1> HIDE DEF x
<1>3. /\ IsList(done') /\ DOMAIN done' = 1..n + 1 /\ DOMAIN done = 1..n /\ n \in Nat
      /\ done'[n + 1] = x /\ \A i \in DOMAIN done : done'[i] = done[i]
  BY <1>1, <1>2, ListAdd
<1>4. \A i \in DOMAIN done' : i \in DOMAIN done \/ i = n + 1
  BY <1>3
<1>5. \A i \in DOMAIN done' : \/ i \in DOMAIN done /\ done'[i].source = done[i].source
                              \/ i = n + 1 /\ done'[i].source = source
  BY <1>1, <1>3, <1>4
<1>6. source \in PastePlaces /\ source.paste <= entries
  BY DEF CommandInv, CommandTypes, CommandOrder, PastePlaces
<1>7. NotAfter(source, source)
  BY <1>6 DEF NotAfter, PastePlaces
<1>8. \A i \in DOMAIN done' : done'[i].source \in PastePlaces /\ done'[i].source.paste <= entries'
  BY <1>5, <1>6 DEF CommandInv, CommandOrder
<1>9. Follows(source)' \/ source = C!Typed
  BY <1>5, <1>7 DEF Follows, CommandInv, CommandOrder
<1>10. ASSUME NEW i \in DOMAIN done', NEW j \in DOMAIN done', i < j,
              C!Typed \notin {done'[i].source, done'[j].source}
       PROVE  NotAfter(done'[i].source, done'[j].source)
  <2>1. i \in DOMAIN done
    BY <1>3, <1>4, <1>10
  <2>2. CASE j \in DOMAIN done
    BY <1>3, <1>10, <2>1, <2>2 DEF CommandInv, CommandOrder
  <2>3. CASE j = n + 1
    BY <1>3, <1>1, <1>10, <2>1, <2>3 DEF CommandInv, CommandOrder, Follows
  <2> QED
    BY <1>4, <2>2, <2>3
<1>11. CommandOrder'
  BY <1>8, <1>9, <1>10, <1>6 DEF CommandOrder
<1>12. \A k \in DOMAIN pasteQueue : Follows(pasteQueue[k].source)'
  BY <1>5 DEF Follows, CommandInv, QueueOrder
<1>13. QueueOrder'
  BY <1>12 DEF CommandInv, QueueOrder
<1> QED
  BY <1>3, <1>11, <1>13

(* What leaves the lines and their places alone.                           *)
LEMMA CommandsQuiet ==
  ASSUME CommandInv, UNCHANGED <<pasteQueue, source, done>>, entries' \in Nat, entries <= entries'
  PROVE  CommandOrder' /\ QueueOrder'
<1>1. entries \in Nat /\ source.paste \in Nat
  BY DEF CommandInv, CommandTypes
<1>2. \A i \in DOMAIN done : done[i].source \in PastePlaces /\ done[i].source.paste <= entries'
  BY <1>1 DEF CommandInv, CommandOrder, PastePlaces
<1>3. \A k \in DOMAIN pasteQueue :
        pasteQueue[k].source \in PastePlaces /\ pasteQueue[k].source.paste \in 1..entries'
  BY <1>1 DEF CommandInv, QueueOrder, PastePlaces
<1>4. source.paste <= entries'
  BY <1>1 DEF CommandInv, CommandOrder
<1>5. CommandOrder'
  BY <1>2, <1>4 DEF CommandInv, CommandOrder, Follows
<1>6. QueueOrder'
  BY <1>3 DEF CommandInv, QueueOrder, Follows
<1> QED
  BY <1>5, <1>6

LEMMA CommandsRun ==
  ASSUME CommandInv, C!RunNext
  PROVE  CommandInv'
<1>1. CommandTypes /\ agenda # <<>> /\ UNCHANGED <<pasteQueue, source, entries>>
  BY DEF CommandInv, C!RunNext
<1>2. IsList(C!Left) /\ ChainsOf(C!Left) /\ C!Current.depth \in 0..MAX_ALIAS_DEPTH + 1
  BY <1>1, CommandsLeft
<1>3. entries \in Nat
  BY <1>1 DEF CommandTypes
<1> DEFINE item == C!Current
<1>4. /\ IsList(agenda') /\ ChainsOf(agenda')
      /\ DOMAIN aliases' \subseteq {"al", "bl"} /\ activeBuf' \in C!Buffers
      /\ UNCHANGED done \/ \E words : C!Ran(words)
  <2>1. CASE ~ C!IsCommand(item.words)
    BY <1>1, <1>2, <2>1, Zenon DEF C!RunNext, CommandTypes
  <2>2. CASE C!IsCommand(item.words) /\ item.depth > MAX_ALIAS_DEPTH
    BY <1>1, <1>2, <2>2, Zenon DEF C!RunNext, CommandTypes
  <2>3. CASE C!IsCommand(item.words) /\ ~ (item.depth > MAX_ALIAS_DEPTH)
    <3> DEFINE name == C!AliasOf(item.words[1])
    <3>1. C!RunCommand(item)
      BY <2>3, Zenon DEF C!RunNext
    <3>2. CASE name \in DOMAIN aliases
      <4> DEFINE words == C!ExpandAliasTemplate(aliases[name], Tail(item.words), activeBuf)
                 d == C!OneDeeper(item.depth)
      <4>1. agenda' = C!Chain(words, d) \o C!Left /\ UNCHANGED <<done, aliases, activeBuf>>
        BY <3>1, <3>2, Zenon DEF C!RunCommand
      <4>2. d \in 0..MAX_ALIAS_DEPTH + 1
        BY <1>2, <2>3, CommandLineAssumption DEF C!OneDeeper, C!CommandLineAssumption
      <4> HIDE DEF words, d
      <4>3. IsList(agenda') /\ ChainsOf(agenda')
        BY <1>1, <4>1, <4>2, CommandsChain
      <4> QED
        BY <1>1, <4>1, <4>3 DEF CommandTypes
    <3>3. CASE name \notin DOMAIN aliases
      <4>1. /\ agenda' = C!Left /\ C!RunBuiltin(item.words)
            /\ UNCHANGED done \/ \E words : C!Ran(words)
        BY <3>1, <3>3, Zenon DEF C!RunCommand
      <4> DEFINE w == item.words
      <4> HIDE DEF item
      <4>2. \/ activeBuf' = w[2] /\ w[2] \in C!Buffers /\ UNCHANGED aliases
            \/ /\ C!AliasOf(w[2]) # "none" /\ UNCHANGED activeBuf
               /\ aliases' = [n \in DOMAIN aliases \cup {C!AliasOf(w[2])} |->
                                IF n = C!AliasOf(w[2]) THEN SubSeq(w, 3, Len(w)) ELSE aliases[n]]
            \/ /\ UNCHANGED activeBuf
               /\ aliases' = [n \in DOMAIN aliases \ {C!AliasOf(w[2])} |-> aliases[n]]
            \/ UNCHANGED <<aliases, activeBuf>>
        BY <4>1, Zenon DEF C!RunBuiltin
      <4>3. C!AliasOf(w[2]) \in {"al", "bl", "none"}
        BY DEF C!AliasOf
      <4>4. DOMAIN aliases' \subseteq {"al", "bl"} /\ activeBuf' \in C!Buffers
        BY <1>1, <4>2, <4>3 DEF CommandTypes
      <4> QED
        BY <1>2, <4>1, <4>4
    <3> QED
      BY <3>2, <3>3
  <2> QED
    BY <2>1, <2>2, <2>3
<1>5. CommandOrder' /\ QueueOrder' /\ IsList(done')
  <2>1. CASE UNCHANGED done
    BY <1>1, <1>3, <2>1, CommandsQuiet DEF CommandTypes
  <2>2. CASE \E words : C!Ran(words)
    BY <1>1, <2>2, CommandsRan
  <2> QED
    BY <1>4, <2>1, <2>2
<1>6. CommandTypes'
  BY <1>1, <1>4, <1>5 DEF CommandTypes, ChainsOf
<1> QED
  BY <1>5, <1>6 DEF CommandInv

LEMMA CommandsNewLine ==
  ASSUME NEW words
  PROVE  LET a == <<[parts |-> <<words>>, depth |-> 0]>> IN IsList(a) /\ ChainsOf(a)
<1> DEFINE c == [parts |-> <<words>>, depth |-> 0]
<1>1. IsList(<<c>>) /\ DOMAIN <<c>> = {1} /\ <<c>>[1] = c
  BY ListOne
<1>2. <<words>> # <<>>
  OBVIOUS
<1>3. 0 \in 0..MAX_ALIAS_DEPTH + 1
  BY CommandLineAssumption DEF C!CommandLineAssumption
<1>4. c.parts # <<>> /\ c.depth = 0 /\ c = [parts |-> c.parts, depth |-> c.depth]
  BY <1>2
<1> HIDE DEF c
<1>5. ChainsOf(<<c>>)
  BY <1>1, <1>3, <1>4 DEF ChainsOf
<1> QED
  BY <1>1, <1>5 DEF c

(* A paste: nothing before it has its number.                              *)
LEMMA CommandsPasted ==
  ASSUME NEW text \in Pastes, NEW n \in Nat
  PROVE  LET q == C!OnlyThese(C!Queued(text, n)) IN
         /\ IsList(q) /\ Len(q) <= MAX_PASTE_LINES
         /\ \A k \in DOMAIN q : k \in Nat /\ q[k].source = [paste |-> n, index |-> k + 1]
<1> DEFINE s == C!Queued(text, n)
           m == IF Len(s) > MAX_PASTE_LINES THEN MAX_PASTE_LINES ELSE Len(s)
           q == SubSeq(s, 1, m)
           line(k) == [words |-> text[k + 1], source |-> [paste |-> n, index |-> k + 1]]
<1>1. Len(text) \in Nat /\ Len(text) >= 2 /\ MAX_PASTE_LINES \in Nat
  BY CommandLineAssumption DEF C!CommandLineAssumption
<1>2. s = [k \in 1..Len(text) - 1 |-> line(k)]
  BY DEF C!Queued
<1>3. s \in [1..Len(text) - 1 -> {line(k) : k \in 1..Len(text) - 1}]
  BY <1>2
<1>4. Len(text) - 1 \in Nat
  BY <1>1
<1>5. s \in Seq({line(k) : k \in 1..Len(text) - 1})
  BY <1>3, <1>4, SeqDef
<1>6. IsList(s) /\ Len(s) \in Nat /\ DOMAIN s = 1..Len(s)
  BY <1>5, ListOf
<1>7. \A k \in DOMAIN s : s[k].source = [paste |-> n, index |-> k + 1]
  BY <1>2
<1>8. C!OnlyThese(s) = q
  BY DEF C!OnlyThese, C!Capped
<1> HIDE DEF s
<1>9. m \in Nat /\ m <= Len(s) /\ m <= MAX_PASTE_LINES
  BY <1>1, <1>6
<1> HIDE DEF m
<1>10. IsList(q) /\ Len(q) = m /\ DOMAIN q = 1..m /\ \A k \in 1..m : q[k] = s[k]
  BY <1>6, <1>9, ListCut
<1> HIDE DEF q
<1>11. \A k \in DOMAIN q : k \in Nat /\ k \in DOMAIN s
  BY <1>6, <1>9, <1>10
<1> QED
  BY <1>7, <1>8, <1>9, <1>10, <1>11 DEF s

LEMMA CommandsPaste ==
  ASSUME CommandInv, NEW text \in Pastes, NEW draft \in Drafts, C!HandlePaste(text, draft)
  PROVE  CommandInv'
<1> DEFINE n == entries + 1
           from == [paste |-> n, index |-> 1]
           q == C!OnlyThese(C!Queued(text, n))
<1>1. /\ entries < MaxEntries /\ entries' = n /\ UNCHANGED <<aliases, activeBuf, done>>
      /\ agenda' = <<[parts |-> <<draft \o text[1]>>, depth |-> 0]>> /\ source' = from
      /\ pasteQueue' = q
  BY DEF C!HandlePaste, C!HandleSubmit
<1>2. entries \in Nat /\ n \in 0..MaxEntries /\ n \in Nat /\ entries < n
  BY <1>1, CommandLineAssumption DEF CommandInv, CommandTypes, C!CommandLineAssumption
<1>3. IsList(agenda') /\ ChainsOf(agenda')
  BY <1>1, CommandsNewLine
<1>4. /\ IsList(q) /\ Len(q) <= MAX_PASTE_LINES
      /\ \A k \in DOMAIN q : k \in Nat /\ q[k].source = [paste |-> n, index |-> k + 1]
  BY <1>2, CommandsPasted
<1> HIDE DEF q, n
<1>5. from \in [paste : 0..MaxEntries, index : Nat] /\ from \in PastePlaces /\ from.paste = n /\ from.index = 1
  BY <1>2 DEF PastePlaces
<1>6. CommandTypes'
  BY <1>1, <1>2, <1>3, <1>4, <1>5 DEF CommandInv, CommandTypes, ChainsOf
<1>7. \A i \in DOMAIN done : done[i].source \in PastePlaces /\ done[i].source.paste < n
  BY <1>2 DEF CommandInv, CommandOrder, PastePlaces
<1>8. \A y \in PastePlaces : y.paste = n => Follows(y)'
  BY <1>1, <1>7 DEF Follows, NotAfter
<1>9. CommandOrder'
  <2>1. \A i \in DOMAIN done' : done'[i].source \in PastePlaces /\ done'[i].source.paste <= entries'
    BY <1>1, <1>2, <1>7 DEF PastePlaces
  <2>2. source'.paste <= entries' /\ Follows(source)'
    BY <1>1, <1>2, <1>5, <1>8 DEF Follows
  <2> QED
    BY <1>1, <2>1, <2>2 DEF CommandInv, CommandOrder
<1>10. ASSUME NEW k \in DOMAIN q
       PROVE  /\ q[k].source \in PastePlaces /\ q[k].source.paste = n
              /\ q[k].source.index = k + 1 /\ k \in Nat
  <2>1. k \in Nat /\ k + 1 \in Nat /\ q[k].source = [paste |-> n, index |-> k + 1]
    BY <1>4
  <2> QED
    BY <1>2, <2>1 DEF PastePlaces
<1>11. ASSUME NEW k \in DOMAIN q
       PROVE  /\ q[k].source \in PastePlaces /\ q[k].source.paste \in 1..n
              /\ Follows(q[k].source) /\ NotAfter(from, q[k].source)
  <2>1. q[k].source \in PastePlaces /\ q[k].source.paste = n /\ q[k].source.index = k + 1 /\ k \in Nat
    BY <1>10
  <2>2. n \in 1..n
    BY <1>2
  <2>3. NotAfter(from, q[k].source)
    BY <1>5, <2>1 DEF NotAfter
  <2>4. Follows(q[k].source)
    BY <1>7, <2>1 DEF Follows, NotAfter
  <2> QED
    BY <2>1, <2>2, <2>3, <2>4
<1>12. \A k, l \in DOMAIN q : k < l => NotAfter(q[k].source, q[l].source)
  BY <1>10 DEF NotAfter
<1>13. QueueOrder'
  BY <1>1, <1>11, <1>12 DEF QueueOrder, Follows
<1> QED
  BY <1>6, <1>9, <1>13 DEF CommandInv

LEMMA CommandsDrain ==
  ASSUME CommandInv, C!DrainPasteQueue
  PROVE  CommandInv'
<1> DEFINE x == Head(pasteQueue)
<1>1. /\ pasteQueue # <<>> /\ UNCHANGED <<aliases, activeBuf, done, entries>>
      /\ agenda' = <<[parts |-> <<x.words>>, depth |-> 0]>> /\ source' = x.source
      /\ pasteQueue' = Tail(pasteQueue)
  BY DEF C!DrainPasteQueue, C!HandleSubmit, C!TakeFirst
<1>2. IsList(agenda') /\ ChainsOf(agenda')
  BY <1>1, CommandsNewLine
<1>3. IsList(pasteQueue) /\ Len(pasteQueue) <= MAX_PASTE_LINES
  BY DEF CommandInv, CommandTypes
<1>4. /\ IsList(pasteQueue') /\ Len(pasteQueue) \in Nat \ {0} /\ Len(pasteQueue') = Len(pasteQueue) - 1
      /\ DOMAIN pasteQueue = 1..Len(pasteQueue) /\ DOMAIN pasteQueue' = 1..Len(pasteQueue) - 1
      /\ x = pasteQueue[1]
      /\ \A i \in DOMAIN pasteQueue' : pasteQueue'[i] = pasteQueue[i + 1]
  BY <1>1, <1>3, ListTail
<1> HIDE DEF x
<1>5. Len(pasteQueue') <= MAX_PASTE_LINES
  BY <1>3, <1>4, CommandLineAssumption DEF C!CommandLineAssumption
<1>6. 1 \in DOMAIN pasteQueue /\ \A i \in DOMAIN pasteQueue' : i + 1 \in DOMAIN pasteQueue /\ 1 < i + 1 /\ i \in Nat
  BY <1>4
<1>7. x.source \in PastePlaces /\ x.source.paste \in 1..entries /\ Follows(x.source)
  BY <1>4, <1>6 DEF CommandInv, QueueOrder
<1>8. entries \in 0..MaxEntries /\ x.source \in [paste : 0..MaxEntries, index : Nat]
      /\ x.source.paste <= entries
  BY <1>7, CommandLineAssumption DEF CommandInv, CommandTypes, PastePlaces, C!CommandLineAssumption
<1>9. CommandTypes'
  BY <1>1, <1>2, <1>4, <1>5, <1>8 DEF CommandInv, CommandTypes, ChainsOf
<1>10. CommandOrder'
  BY <1>1, <1>7, <1>8 DEF CommandInv, CommandOrder, Follows
<1>11. \A i \in DOMAIN pasteQueue' :
         /\ pasteQueue'[i].source \in PastePlaces /\ pasteQueue'[i].source.paste \in 1..entries
         /\ Follows(pasteQueue'[i].source) /\ NotAfter(x.source, pasteQueue'[i].source)
  BY <1>4, <1>6 DEF CommandInv, QueueOrder
<1>12. \A k, l \in DOMAIN pasteQueue' :
         k < l => NotAfter(pasteQueue'[k].source, pasteQueue'[l].source)
  <2> SUFFICES ASSUME NEW k \in DOMAIN pasteQueue', NEW l \in DOMAIN pasteQueue', k < l
               PROVE  NotAfter(pasteQueue'[k].source, pasteQueue'[l].source)
    OBVIOUS
  <2>1. k + 1 < l + 1 /\ k + 1 \in DOMAIN pasteQueue /\ l + 1 \in DOMAIN pasteQueue
    BY <1>6
  <2> QED
    BY <1>4, <2>1 DEF CommandInv, QueueOrder
<1>13. QueueOrder'
  BY <1>1, <1>11, <1>12 DEF QueueOrder, Follows
<1> QED
  BY <1>9, <1>10, <1>13 DEF CommandInv

LEMMA CommandsStep ==
  ASSUME CommandInv, [C!Next]_(C!lineVars)
  PROVE  CommandInv'
<1>0. CommandTypes /\ entries \in 0..MaxEntries /\ MaxEntries \in Nat
  BY CommandLineAssumption DEF CommandInv, CommandTypes, C!CommandLineAssumption
<1>1. CASE C!RunNext
  BY <1>1, CommandsRun
<1>2. CASE C!ScriptTakes
  <2>1. /\ agenda # <<>> /\ agenda' = C!Left
        /\ UNCHANGED <<aliases, activeBuf, pasteQueue, source, done, entries>>
    BY <1>2 DEF C!ScriptTakes
  <2>2. IsList(agenda') /\ ChainsOf(agenda')
    BY <1>0, <2>1, CommandsLeft
  <2>3. CommandOrder' /\ QueueOrder'
    BY <1>0, <2>1, CommandsQuiet
  <2>4. CommandTypes'
    BY <1>0, <2>1, <2>2 DEF CommandTypes, ChainsOf
  <2> QED
    BY <2>3, <2>4 DEF CommandInv
<1>3. CASE C!DrainPasteQueue
  BY <1>3, CommandsDrain
<1>4. ASSUME NEW words \in TypedLines, C!Type(words) PROVE CommandInv'
  <2>1. /\ entries < MaxEntries /\ entries' = entries + 1 /\ source' = C!Typed
        /\ agenda' = <<[parts |-> <<words>>, depth |-> 0]>>
        /\ UNCHANGED <<aliases, activeBuf, pasteQueue, done>>
    BY <1>4 DEF C!Type, C!HandleSubmit
  <2>2. IsList(agenda') /\ ChainsOf(agenda')
    BY <2>1, CommandsNewLine
  <2>3. entries' \in 0..MaxEntries /\ entries' \in Nat /\ entries \in Nat /\ entries <= entries'
    BY <1>0, <2>1
  <2>4. source' \in [paste : 0..MaxEntries, index : Nat] /\ source'.paste = 0
    BY <1>0, <2>1 DEF C!Typed
  <2>5. CommandTypes'
    BY <1>0, <2>1, <2>2, <2>3, <2>4 DEF CommandTypes, ChainsOf
  <2>6. \A i \in DOMAIN done : done[i].source \in PastePlaces /\ done[i].source.paste <= entries'
    BY <2>3 DEF CommandInv, CommandOrder, PastePlaces
  <2>7. CommandOrder'
    BY <2>1, <2>3, <2>4, <2>6 DEF CommandInv, CommandOrder
  <2>8. \A k \in DOMAIN pasteQueue :
          pasteQueue[k].source \in PastePlaces /\ pasteQueue[k].source.paste \in 1..entries'
    BY <2>3 DEF CommandInv, QueueOrder, PastePlaces
  <2>9. QueueOrder'
    BY <2>1, <2>8 DEF CommandInv, QueueOrder, Follows
  <2> QED
    BY <2>5, <2>7, <2>9 DEF CommandInv
<1>5. ASSUME NEW b \in C!Buffers, C!SwitchBuffer(b) PROVE CommandInv'
  <2>1. /\ entries < MaxEntries /\ entries' = entries + 1 /\ activeBuf' = b
        /\ UNCHANGED <<aliases, pasteQueue, agenda, source, done>>
    BY <1>5 DEF C!SwitchBuffer
  <2>2. entries' \in 0..MaxEntries /\ entries' \in Nat /\ entries <= entries'
    BY <1>0, <2>1
  <2>3. CommandOrder' /\ QueueOrder'
    BY <2>1, <2>2, CommandsQuiet
  <2>4. CommandTypes'
    BY <1>0, <2>1, <2>2 DEF CommandTypes, ChainsOf
  <2> QED
    BY <2>3, <2>4 DEF CommandInv
<1>6. ASSUME NEW text \in Pastes, NEW draft \in Drafts, C!HandlePaste(text, draft) PROVE CommandInv'
  BY <1>6, CommandsPaste
<1>7. CASE UNCHANGED C!lineVars
  <2>1. UNCHANGED <<aliases, activeBuf, pasteQueue, agenda, source, done, entries>>
    BY <1>7 DEF C!lineVars
  <2> QED
    BY <2>1 DEF CommandInv, CommandTypes, ChainsOf, CommandOrder, QueueOrder, Follows
<1> QED
  BY <1>1, <1>2, <1>3, <1>4, <1>5, <1>6, <1>7 DEF C!Next

LEMMA CommandsGood == CommandInv => C!TypeOK /\ C!PastesInOrder
<1> SUFFICES ASSUME CommandInv PROVE C!TypeOK /\ C!PastesInOrder
  OBVIOUS
<1>1. C!TypeOK
  BY DEF CommandInv, CommandTypes, ChainsOf, C!TypeOK
<1>2. C!PastesInOrder
  BY DEF CommandInv, CommandOrder, NotAfter, C!PastesInOrder
<1> QED
  BY <1>1, <1>2
-----------------------------------------------------------------------------
(* Shells.  Sessions are numbered in the order in which they were opened,  *)
(* and no key was typed for one that is still to come.                     *)
ShellTypes ==
  /\ DOMAIN sessions \subseteq H!Ids
  /\ \A i \in DOMAIN sessions : sessions[i] \in ShellNames /\ i < nextId
  /\ buffers \subseteq ShellNames \cup {H!Header} /\ active \in ChatBuffers \cup buffers
  /\ shellInputActive \in BOOLEAN
  /\ typed \in [H!Ids -> SUBSET (ChatBuffers \cup ShellNames \cup {H!Header})]
  /\ nextId \in 1..(MaxShells + 1) /\ steps \in 0..MaxSteps
  /\ alive \in [tui : SUBSET H!Ids, web : SUBSET Pages]
PageTypes ==
  /\ webSessions \subseteq Pages /\ IsFiniteSet(webSessions)
  /\ Cardinality(webSessions) <= MAX_WEB_SESSIONS
  /\ webActive \in [Pages -> {"chat", "shell", "gone"}]
  /\ version \in [Pages -> 0..MaxOutput] /\ seen \in [Pages -> Nat]
  /\ \A p \in Pages : seen[p] <= version[p]
  /\ pending \in Pages \cup {"none"} /\ recent \in BOOLEAN /\ displaced \subseteq Pages
(* Output of a page is on its way at most once, and there is room for it.  *)
ShellEvents ==
  /\ IsList(shell_queue)
  /\ \A k \in DOMAIN shell_queue : shell_queue[k].kind = "output" =>
       shell_queue[k].id \in Pages /\ version[shell_queue[k].id] < MaxOutput
  /\ \A k, l \in DOMAIN shell_queue :
       /\ shell_queue[k].kind = "output" /\ shell_queue[l].kind = "output"
       /\ shell_queue[k].id = shell_queue[l].id
       => k = l
ShellBuffers ==
  /\ H!SessionsHaveBuffers /\ H!KeysReachTheirShell
  /\ \A i \in H!Ids : i >= nextId => typed[i] = {}
ShellInv == ShellTypes /\ PageTypes /\ ShellEvents /\ ShellBuffers

LEMMA ShellBounds ==
  /\ MaxShells \in Nat /\ MaxSteps \in Nat /\ MaxOutput \in Nat /\ MAX_WEB_SESSIONS \in Nat
  /\ H!Header \notin ShellNames /\ ChatBuffers \cap (ShellNames \cup {H!Header}) = {}
BY ShellAssumption DEF H!ShellAssumption

LEMMA ShellCounts == \A U : H!Cardinality(U) = Cardinality(U)
BY DEF H!Cardinality, Cardinality, H!IsFiniteSet, IsFiniteSet

LEMMA ShellStart == H!Init => ShellInv
<1> SUFFICES ASSUME H!Init PROVE ShellInv
  OBVIOUS
<1>1. /\ sessions = <<>> /\ buffers = {} /\ active \in ChatBuffers /\ shellInputActive = FALSE
      /\ typed = [i \in H!Ids |-> {}] /\ nextId = 1
      /\ webSessions = {} /\ webActive = [p \in Pages |-> "chat"]
      /\ version = [p \in Pages |-> 0] /\ seen = [p \in Pages |-> 0]
      /\ alive = [tui |-> {}, web |-> {}] /\ shell_queue = <<>>
      /\ pending = "none" /\ recent = FALSE /\ displaced = {} /\ steps = 0
  BY DEF H!Init
<1>2. DOMAIN sessions = {}
  BY <1>1
<1>3. 0 \in 0..MaxSteps /\ 1 \in 1..(MaxShells + 1) /\ 0 \in 0..MaxOutput /\ 0 <= MAX_WEB_SESSIONS
  BY ShellBounds
<1>4. ShellTypes
  BY <1>1, <1>2, <1>3 DEF ShellTypes
<1>5. IsFiniteSet({}) /\ Cardinality({}) = 0
  BY FS_EmptySet
<1>6. PageTypes
  <2>1. webSessions \subseteq Pages /\ IsFiniteSet(webSessions) /\ Cardinality(webSessions) = 0
    BY <1>1, <1>5
  <2>2. Cardinality(webSessions) <= MAX_WEB_SESSIONS
    BY <1>3, <2>1
  <2>3. version \in [Pages -> 0..MaxOutput] /\ seen \in [Pages -> Nat]
    BY <1>1, <1>3
  <2>4. \A p \in Pages : seen[p] <= version[p]
    BY <1>1
  <2> QED
    BY <1>1, <2>1, <2>2, <2>3, <2>4 DEF PageTypes
<1>7. IsList(shell_queue) /\ DOMAIN shell_queue = {}
  BY <1>1, ListNone
<1>8. ShellEvents
  BY <1>7 DEF ShellEvents
<1>9. ShellBuffers
  BY <1>1, <1>2 DEF ShellBuffers, H!SessionsHaveBuffers, H!KeysReachTheirShell
<1> QED
  BY <1>4, <1>6, <1>8, <1>9 DEF ShellInv

(* What is reported besides output changes nothing about the output that   *)
(* is on its way.                                                          *)
LEMMA ShellReports ==
  ASSUME ShellEvents, NEW t, IsList(t), \A i \in DOMAIN t : t[i].kind # "output",
         shell_queue' = shell_queue \o t, UNCHANGED version
  PROVE  ShellEvents'
<1> DEFINE u == shell_queue \o t
<1>1. IsList(shell_queue)
  BY DEF ShellEvents
<1>2. /\ IsList(u)
      /\ \A i \in DOMAIN u : \/ i \in DOMAIN shell_queue /\ u[i] = shell_queue[i]
                             \/ i - Len(shell_queue) \in DOMAIN t /\ u[i] = t[i - Len(shell_queue)]
  BY <1>1, ListParts
<1> HIDE DEF u
<1>3. \A i \in DOMAIN u : u[i].kind = "output" => i \in DOMAIN shell_queue /\ u[i] = shell_queue[i]
  BY <1>2
<1>4. shell_queue' = u
  BY DEF u
<1> QED
  BY <1>2, <1>3, <1>4 DEF ShellEvents

LEMMA ShellReport ==
  ASSUME ShellEvents, NEW k, NEW i, k # "output",
         shell_queue' = Append(shell_queue, H!Event(k, i)), UNCHANGED version
  PROVE  ShellEvents'
<1> DEFINE e == H!Event(k, i)
<1>1. IsList(<<e>>) /\ DOMAIN <<e>> = {1} /\ <<e>>[1] = e
  BY ListOne
<1>2. e.kind # "output"
  BY DEF H!Event
<1>3. shell_queue \in Seq(Elements(shell_queue) \cup {e}) /\ e \in Elements(shell_queue) \cup {e}
  BY DEF ShellEvents, IsList, Elements
<1> HIDE DEF e
<1>4. Append(shell_queue, e) = shell_queue \o <<e>>
  BY <1>3, AppendIsConcat
<1>5. shell_queue' = shell_queue \o <<e>>
  BY <1>4 DEF e
<1> QED
  BY <1>1, <1>2, <1>5, ShellReports

(* A buffer goes with its session.                                         *)
LEMMA ShellRemoved ==
  ASSUME ShellTypes, ShellBuffers, NEW b \in ShellNames, NEW ids,
         ids = {i \in DOMAIN sessions : sessions[i] = b}, H!Removed(ids, b),
         UNCHANGED <<typed, nextId>>
  PROVE  /\ DOMAIN sessions' \subseteq H!Ids
         /\ \A i \in DOMAIN sessions' : sessions'[i] \in ShellNames /\ i < nextId
         /\ buffers' \subseteq ShellNames \cup {H!Header} /\ active' \in ChatBuffers \cup buffers'
         /\ ShellBuffers'
<1>1. /\ sessions' = [x \in DOMAIN sessions \ ids |-> sessions[x]]
      /\ buffers' = IF DOMAIN sessions \ ids = {} THEN buffers \ {b, H!Header} ELSE buffers \ {b}
      /\ active' \in buffers' \cup ChatBuffers
  BY DEF H!Removed, H!FallBack
<1>2. DOMAIN sessions' = DOMAIN sessions \ ids /\ \A i \in DOMAIN sessions' : sessions'[i] = sessions[i]
  BY <1>1
<1>3. \A i \in DOMAIN sessions' : sessions'[i] # b
  BY <1>2
<1>4. {sessions'[i] : i \in DOMAIN sessions'} = buffers' \cap ShellNames
  <2>1. {sessions[i] : i \in DOMAIN sessions} = buffers \cap ShellNames
    BY DEF ShellBuffers, H!SessionsHaveBuffers
  <2>2. buffers' \cap ShellNames = (buffers \cap ShellNames) \ {b}
    BY <1>1, ShellBounds
  <2>3. {sessions'[i] : i \in DOMAIN sessions'} = {sessions[i] : i \in DOMAIN sessions} \ {b}
    BY <1>2
  <2> QED
    BY <2>1, <2>2, <2>3
<1>5. DOMAIN sessions' # {} => H!Header \in buffers'
  BY <1>1, <1>2, ShellBounds DEF ShellBuffers, H!SessionsHaveBuffers
<1>6. H!SessionsHaveBuffers'
  BY <1>2, <1>4, <1>5 DEF ShellBuffers, H!SessionsHaveBuffers
<1>7. H!KeysReachTheirShell'
  BY <1>2 DEF ShellBuffers, H!KeysReachTheirShell
<1>8. ShellBuffers'
  BY <1>6, <1>7 DEF ShellBuffers
<1> QED
  BY <1>1, <1>2, <1>8 DEF ShellTypes

LEMMA ShellOpens ==
  ASSUME ShellInv, NEW n \in ShellNames, H!ShellOpen(n)
  PROVE  ShellInv'
<1>1. /\ steps < MaxSteps /\ steps' = steps + 1 /\ nextId <= MaxShells /\ n \notin buffers
      /\ sessions' = [x \in DOMAIN sessions \cup {nextId} |-> IF x = nextId THEN n ELSE sessions[x]]
      /\ nextId' = nextId + 1 /\ buffers' = buffers \cup {n, H!Header} /\ active' = n
      /\ shellInputActive' = TRUE /\ alive' = [alive EXCEPT !.tui = @ \cup {nextId}]
      /\ UNCHANGED <<typed, shell_queue, webSessions, webActive, version, seen, pending, recent, displaced>>
  BY DEF H!ShellOpen, H!Step, H!FreeName, H!WithSession, H!web
<1>2. nextId \in H!Ids /\ nextId' \in 1..(MaxShells + 1) /\ steps' \in 0..MaxSteps /\ nextId \in Nat
      /\ H!Ids \subseteq Nat /\ \A i \in H!Ids : i < nextId => i < nextId'
  BY <1>1, ShellBounds DEF ShellInv, ShellTypes, H!Ids
<1>3. /\ DOMAIN sessions' = DOMAIN sessions \cup {nextId} /\ sessions'[nextId] = n
      /\ \A i \in DOMAIN sessions : i < nextId /\ i # nextId /\ sessions'[i] = sessions[i] /\ i \in H!Ids
  BY <1>1, <1>2 DEF ShellInv, ShellTypes
<1>4. alive' \in [tui : SUBSET H!Ids, web : SUBSET Pages]
  BY <1>1, <1>2 DEF ShellInv, ShellTypes
<1>5. nextId < nextId'
  BY <1>1, <1>2
<1>6. \A i \in DOMAIN sessions' : sessions'[i] \in ShellNames /\ i < nextId'
  BY <1>2, <1>3, <1>5 DEF ShellInv, ShellTypes
<1>7. ShellTypes'
  BY <1>1, <1>2, <1>3, <1>4, <1>6 DEF ShellInv, ShellTypes, H!Ids
<1>8. n \notin {sessions[i] : i \in DOMAIN sessions}
      /\ {sessions[i] : i \in DOMAIN sessions} = buffers \cap ShellNames
  BY <1>1 DEF ShellInv, ShellBuffers, H!SessionsHaveBuffers
<1>9. {sessions'[i] : i \in DOMAIN sessions'} = {sessions[i] : i \in DOMAIN sessions} \cup {n}
  BY <1>3
<1>10. buffers' \cap ShellNames = (buffers \cap ShellNames) \cup {n}
  BY <1>1, ShellBounds
<1>11. \A i, j \in DOMAIN sessions' : sessions'[i] = sessions'[j] => i = j
  BY <1>3, <1>8 DEF ShellInv, ShellBuffers, H!SessionsHaveBuffers
<1>12. H!SessionsHaveBuffers'
  BY <1>1, <1>8, <1>9, <1>10, <1>11 DEF H!SessionsHaveBuffers
<1>13. typed[nextId] = {}
  BY <1>2 DEF ShellInv, ShellBuffers
<1>14. H!KeysReachTheirShell'
  BY <1>1, <1>3, <1>13 DEF ShellInv, ShellBuffers, H!KeysReachTheirShell
<1>15. \A i \in H!Ids : i >= nextId' => i >= nextId
  BY <1>1, <1>2
<1>16. ShellBuffers'
  BY <1>1, <1>12, <1>14, <1>15 DEF ShellInv, ShellBuffers, H!Ids
<1> QED
  BY <1>1, <1>7, <1>16 DEF ShellInv, PageTypes, ShellEvents

LEMMA ShellCloses ==
  ASSUME ShellInv, H!CloseShellBuffer
  PROVE  ShellInv'
<1> DEFINE ids == H!OfActive
           ended == ids \cap alive.tui
           t == [k \in 1..H!Cardinality(ended) |-> H!Event("exited", CHOOSE i \in ended : TRUE)]
<1>1. /\ steps < MaxSteps /\ steps' = steps + 1 /\ active \in ShellNames /\ H!Removed(ids, active)
      /\ alive' = [alive EXCEPT !.tui = @ \ ids] /\ shell_queue' = shell_queue \o t
      /\ shellInputActive' = (shellInputActive /\ DOMAIN sessions' # {})
      /\ UNCHANGED <<typed, nextId, webSessions, webActive, version, seen, pending, recent, displaced>>
  BY DEF H!CloseShellBuffer, H!Step, H!IsShell, H!web
<1>2. ids = {i \in DOMAIN sessions : sessions[i] = active}
  BY DEF H!OfActive
<1>3. /\ DOMAIN sessions' \subseteq H!Ids
      /\ \A i \in DOMAIN sessions' : sessions'[i] \in ShellNames /\ i < nextId
      /\ buffers' \subseteq ShellNames \cup {H!Header} /\ active' \in ChatBuffers \cup buffers'
      /\ ShellBuffers'
  BY <1>1, <1>2, ShellRemoved DEF ShellInv
<1>4. steps' \in 0..MaxSteps
  BY <1>1, ShellBounds DEF ShellInv, ShellTypes
<1>5. alive' \in [tui : SUBSET H!Ids, web : SUBSET Pages] /\ shellInputActive' \in BOOLEAN
  BY <1>1 DEF ShellInv, ShellTypes
<1>6. ShellTypes'
  BY <1>1, <1>3, <1>4, <1>5 DEF ShellInv, ShellTypes, H!Ids
<1>7. H!Cardinality(ended) \in Nat
  <2>1. IsFiniteSet(H!Ids)
    BY ShellBounds, FS_Interval DEF H!Ids
  <2>2. ended \subseteq H!Ids
    BY DEF ShellInv, ShellTypes
  <2>3. Cardinality(ended) \in Nat
    BY <2>1, <2>2, FS_Subset, FS_CardinalityType
  <2> QED
    BY <2>3, ShellCounts
<1> DEFINE e == H!Event("exited", CHOOSE i \in ended : TRUE)
<1>8. e.kind # "output"
  BY DEF H!Event
<1> HIDE DEF e
<1>9. t = [k \in 1..H!Cardinality(ended) |-> e]
  BY DEF e
<1> HIDE DEF ended, t
<1>10. t \in Seq({e}) /\ \A k \in DOMAIN t : t[k] = e
  BY <1>7, <1>9, SeqDef
<1>11. IsList(t)
  BY <1>10, ListOf
<1>12. ShellEvents'
  BY <1>1, <1>8, <1>10, <1>11, ShellReports DEF ShellInv
<1> QED
  BY <1>1, <1>3, <1>6, <1>12 DEF ShellInv, PageTypes

LEMMA ShellKeys ==
  ASSUME ShellInv, H!ForwardKeyToShell
  PROVE  ShellInv'
<1>1. /\ steps < MaxSteps /\ steps' = steps + 1
      /\ typed' = [i \in H!Ids |-> IF i \in H!OfActive THEN typed[i] \cup {active} ELSE typed[i]]
      /\ UNCHANGED <<sessions, buffers, active, shellInputActive, nextId, alive, shell_queue,
                     webSessions, webActive, version, seen, pending, recent, displaced>>
  BY DEF H!ForwardKeyToShell, H!Step, H!Receives, H!web
<1>2. steps' \in 0..MaxSteps
  BY <1>1, ShellBounds DEF ShellInv, ShellTypes
<1>3. active \in ChatBuffers \cup ShellNames \cup {H!Header}
  BY DEF ShellInv, ShellTypes
<1>4. typed' \in [H!Ids -> SUBSET (ChatBuffers \cup ShellNames \cup {H!Header})]
  BY <1>1, <1>3 DEF ShellInv, ShellTypes
<1>5. ShellTypes'
  BY <1>1, <1>2, <1>4 DEF ShellInv, ShellTypes, H!Ids
<1>6. \A i \in H!Ids : i \in H!OfActive => i \in DOMAIN sessions /\ sessions[i] = active
  BY DEF H!OfActive
<1>7. H!KeysReachTheirShell'
  <2> SUFFICES ASSUME NEW i \in DOMAIN sessions PROVE typed'[i] \subseteq {sessions[i]}
    BY <1>1 DEF H!KeysReachTheirShell
  <2>1. i \in H!Ids /\ typed[i] \subseteq {sessions[i]}
    BY DEF ShellInv, ShellTypes, ShellBuffers, H!KeysReachTheirShell
  <2> QED
    BY <1>1, <1>6, <2>1
<1>8. \A i \in H!Ids : i >= nextId => i \notin DOMAIN sessions
  <2> SUFFICES ASSUME NEW i \in DOMAIN sessions, i >= nextId PROVE FALSE
    OBVIOUS
  <2>1. i < nextId /\ i \in Int /\ nextId \in Int
    BY DEF ShellInv, ShellTypes, H!Ids
  <2> QED
    BY <2>1
<1>9. \A i \in H!Ids : i >= nextId => typed'[i] = {}
  BY <1>1, <1>6, <1>8 DEF ShellInv, ShellBuffers
<1>10. ShellBuffers'
  BY <1>1, <1>7, <1>9 DEF ShellInv, ShellBuffers, H!SessionsHaveBuffers, H!Ids
<1> QED
  BY <1>1, <1>5, <1>10 DEF ShellInv, PageTypes, ShellEvents

(* Steps of the terminal that leave the sessions alone.                    *)
LEMMA ShellLooks ==
  ASSUME ShellInv, UNCHANGED <<sessions, typed, nextId, alive, shell_queue,
                               webSessions, webActive, version, seen, pending, recent, displaced>>,
         steps' \in 0..MaxSteps, buffers' \in {buffers, buffers \cup {H!Header}},
         active' \in ChatBuffers \cup buffers', shellInputActive' \in BOOLEAN
  PROVE  ShellInv'
<1>1. ShellTypes'
  BY DEF ShellInv, ShellTypes, H!Ids
<1>2. buffers' \cap ShellNames = buffers \cap ShellNames
  BY ShellBounds
<1>3. ShellBuffers'
  BY <1>2 DEF ShellInv, ShellBuffers, H!SessionsHaveBuffers, H!KeysReachTheirShell, H!Ids
<1> QED
  BY <1>1, <1>3 DEF ShellInv, PageTypes, ShellEvents

(* Steps of the processes and the pages.                                   *)
LEMMA ShellElsewhere ==
  ASSUME ShellInv, UNCHANGED <<sessions, buffers, active, shellInputActive, typed, nextId>>,
         steps' \in 0..MaxSteps, alive' \in [tui : SUBSET H!Ids, web : SUBSET Pages],
         PageTypes', ShellEvents'
  PROVE  ShellInv'
<1>1. ShellTypes'
  BY DEF ShellInv, ShellTypes, H!Ids
<1>2. ShellBuffers'
  BY DEF ShellInv, ShellBuffers, H!SessionsHaveBuffers, H!KeysReachTheirShell, H!Ids
<1> QED
  BY <1>1, <1>2 DEF ShellInv

LEMMA ShellSteps ==
  ASSUME ShellInv
  PROVE  /\ steps \in 0..MaxSteps /\ (H!Step => steps' \in 0..MaxSteps)
         /\ alive \in [tui : SUBSET H!Ids, web : SUBSET Pages]
         /\ PageTypes /\ ShellEvents
<1>1. steps \in 0..MaxSteps /\ alive \in [tui : SUBSET H!Ids, web : SUBSET Pages]
  BY DEF ShellInv, ShellTypes
<1>2. H!Step => steps' \in 0..MaxSteps
  BY <1>1, ShellBounds DEF H!Step
<1> QED
  BY <1>1, <1>2 DEF ShellInv

LEMMA ShellWrites ==
  ASSUME ShellInv, NEW p \in Pages, H!ProcessWrites(p)
  PROVE  ShellInv'
<1> DEFINE e == H!Event("output", p)
           n == Len(shell_queue)
<1>1. /\ version[p] < MaxOutput /\ shell_queue' = Append(shell_queue, e)
      /\ \A k \in 1..Len(shell_queue) : shell_queue[k].kind = "output" => shell_queue[k].id # p
      /\ UNCHANGED <<alive, steps, sessions, buffers, active, shellInputActive, typed, nextId,
                     webSessions, webActive, version, seen, pending, recent, displaced>>
  BY DEF H!ProcessWrites, H!tui, H!web
<1>2. e.kind = "output" /\ e.id = p
  BY DEF H!Event
<1> HIDE DEF e
<1>3. IsList(shell_queue)
  BY DEF ShellInv, ShellEvents
<1>4. /\ IsList(shell_queue') /\ DOMAIN shell_queue' = 1..n + 1 /\ DOMAIN shell_queue = 1..n
      /\ n \in Nat /\ shell_queue'[n + 1] = e
      /\ \A k \in DOMAIN shell_queue : shell_queue'[k] = shell_queue[k]
  BY <1>1, <1>3, ListAdd
<1>5. \A k \in DOMAIN shell_queue' :
        \/ k \in DOMAIN shell_queue /\ shell_queue'[k] = shell_queue[k]
        \/ k = n + 1 /\ shell_queue'[k] = e
  <2>1. \A k \in DOMAIN shell_queue' : k \in DOMAIN shell_queue \/ k = n + 1
    BY <1>4
  <2> QED
    BY <1>4, <2>1
<1>6. \A k \in DOMAIN shell_queue : shell_queue[k].kind = "output" => shell_queue[k].id # p
  BY <1>1, <1>4
<1>7. \A k \in DOMAIN shell_queue' : shell_queue'[k].kind = "output" =>
        shell_queue'[k].id \in Pages /\ version[shell_queue'[k].id] < MaxOutput
  BY <1>1, <1>2, <1>5 DEF ShellInv, ShellEvents
<1>8. \A k, l \in DOMAIN shell_queue' :
        /\ shell_queue'[k].kind = "output" /\ shell_queue'[l].kind = "output"
        /\ shell_queue'[k].id = shell_queue'[l].id
        => k = l
  BY <1>2, <1>5, <1>6 DEF ShellInv, ShellEvents
<1>9. ShellEvents'
  BY <1>1, <1>4, <1>7, <1>8 DEF ShellEvents
<1>10. PageTypes'
  BY <1>1 DEF ShellInv, PageTypes
<1> QED
  BY <1>1, <1>9, <1>10, ShellSteps, ShellElsewhere

LEMMA ShellProcesses ==
  ASSUME ShellInv,
         \/ \E i \in alive.tui : H!ProcessEnds(i)
         \/ \E p \in Pages : H!WebProcessEnds(p)
  PROVE  ShellInv'
<1>1. /\ H!Step /\ UNCHANGED <<sessions, buffers, active, shellInputActive, typed, nextId,
                               webSessions, webActive, version, seen, pending, recent, displaced>>
      /\ \E k, i : k # "output" /\ shell_queue' = Append(shell_queue, H!Event(k, i))
  <2>1. ASSUME NEW i \in alive.tui, H!ProcessEnds(i)
        PROVE  /\ H!Step /\ UNCHANGED <<sessions, buffers, active, shellInputActive, typed, nextId,
                                        webSessions, webActive, version, seen, pending, recent, displaced>>
               /\ shell_queue' = Append(shell_queue, H!Event("exited", i))
    BY <2>1 DEF H!ProcessEnds, H!tui, H!web
  <2>2. ASSUME NEW p \in Pages, H!WebProcessEnds(p)
        PROVE  /\ H!Step /\ UNCHANGED <<sessions, buffers, active, shellInputActive, typed, nextId,
                                        webSessions, webActive, version, seen, pending, recent, displaced>>
               /\ shell_queue' = Append(shell_queue, H!Event("exitedWeb", p))
    BY <2>2 DEF H!WebProcessEnds, H!tui, H!web
  <2>3. "exited" # "output" /\ "exitedWeb" # "output"
    OBVIOUS
  <2> QED
    BY <2>1, <2>2, <2>3
<1>2. alive' \in [tui : SUBSET H!Ids, web : SUBSET Pages]
  <2>1. \/ \E i : alive' = [alive EXCEPT !.tui = @ \ {i}]
        \/ \E p : alive' = [alive EXCEPT !.web = @ \ {p}]
    BY DEF H!ProcessEnds, H!WebProcessEnds
  <2> QED
    BY <2>1, ShellSteps
<1>3. ShellEvents'
  BY <1>1, ShellSteps, ShellReport
<1>4. PageTypes'
  BY <1>1, ShellSteps DEF PageTypes
<1> QED
  BY <1>1, <1>2, <1>3, <1>4, ShellSteps, ShellElsewhere

(* A broadcast shows the page a screen it had or has.                      *)
LEMMA ShellBroadcasts ==
  ASSUME PageTypes, NEW p \in Pages, version' \in [Pages -> 0..MaxOutput],
         \A q \in Pages : version[q] <= version'[q],
         \/ UNCHANGED seen \/ seen' = [seen EXCEPT ![p] = version'[p]]
  PROVE  seen' \in [Pages -> Nat] /\ \A q \in Pages : seen'[q] <= version'[q]
<1>1. /\ seen \in [Pages -> Nat] /\ version \in [Pages -> 0..MaxOutput]
      /\ \A q \in Pages : seen[q] <= version[q]
  BY DEF PageTypes
<1>2. \A q \in Pages : seen[q] \in Nat /\ version[q] \in Nat /\ version'[q] \in Nat
  BY <1>1
<1>3. \A q \in Pages : seen[q] <= version'[q]
  <2> SUFFICES ASSUME NEW q \in Pages PROVE seen[q] <= version'[q]
    OBVIOUS
  <2>1. seen[q] <= version[q] /\ version[q] <= version'[q]
    BY <1>1
  <2> QED
    BY <1>2, <2>1
<1>4. CASE UNCHANGED seen
  BY <1>1, <1>3, <1>4
<1>5. CASE seen' = [seen EXCEPT ![p] = version'[p]]
  <2>1. seen' \in [Pages -> Nat]
    BY <1>1, <1>2, <1>5
  <2> SUFFICES ASSUME NEW q \in Pages PROVE seen'[q] <= version'[q]
    BY <2>1
  <2>2. seen'[q] = IF q = p THEN version'[q] ELSE seen[q]
    BY <1>1, <1>5
  <2> QED
    BY <1>2, <1>3, <2>2
<1> QED
  BY <1>4, <1>5

LEMMA ShellResizes ==
  ASSUME ShellInv, NEW p \in Pages, H!ShellResize(p)
  PROVE  ShellInv'
<1>1. /\ H!Step /\ recent' = TRUE /\ displaced' \subseteq displaced
      /\ \/ UNCHANGED seen \/ seen' = [seen EXCEPT ![p] = version[p]]
      /\ \/ UNCHANGED <<webSessions, alive>>
         \/ /\ p \notin webSessions /\ Cardinality(webSessions) < MAX_WEB_SESSIONS
            /\ webSessions' = webSessions \cup {p} /\ alive' = [alive EXCEPT !.web = @ \cup {p}]
      /\ UNCHANGED <<webActive, version, pending, shell_queue, sessions, buffers, active,
                     shellInputActive, typed, nextId>>
  BY ShellCounts DEF H!ShellResize, H!Broadcast, H!tui
<1>2. PageTypes /\ ShellEvents /\ alive \in [tui : SUBSET H!Ids, web : SUBSET Pages]
  BY ShellSteps
<1>3. alive' \in [tui : SUBSET H!Ids, web : SUBSET Pages]
  BY <1>1, <1>2
<1>4. version' \in [Pages -> 0..MaxOutput] /\ \A q \in Pages : version[q] <= version'[q]
  BY <1>1, <1>2 DEF PageTypes
<1>5. seen' \in [Pages -> Nat] /\ \A q \in Pages : seen'[q] <= version'[q]
  BY <1>1, <1>2, <1>4, ShellBroadcasts
<1>6. /\ webSessions' \subseteq Pages /\ IsFiniteSet(webSessions')
      /\ Cardinality(webSessions') <= MAX_WEB_SESSIONS
  <2>1. webSessions \subseteq Pages /\ IsFiniteSet(webSessions) /\ Cardinality(webSessions) \in Nat
        /\ Cardinality(webSessions) <= MAX_WEB_SESSIONS
    BY <1>2, FS_CardinalityType DEF PageTypes
  <2>2. CASE UNCHANGED webSessions
    BY <2>1, <2>2
  <2>3. CASE /\ p \notin webSessions /\ Cardinality(webSessions) < MAX_WEB_SESSIONS
             /\ webSessions' = webSessions \cup {p}
    <3>1. /\ IsFiniteSet(webSessions \cup {p})
          /\ Cardinality(webSessions \cup {p}) = Cardinality(webSessions) + 1
      BY <2>1, <2>3, FS_AddElement
    <3> QED
      BY <2>1, <2>3, <3>1, ShellBounds
  <2> QED
    BY <1>1, <2>2, <2>3
<1>7. PageTypes'
  BY <1>1, <1>2, <1>4, <1>5, <1>6 DEF PageTypes
<1>8. ShellEvents'
  BY <1>1, <1>2 DEF ShellEvents
<1> QED
  BY <1>1, <1>3, <1>7, <1>8, ShellSteps, ShellElsewhere

LEMMA ShellPageSwitches ==
  ASSUME ShellInv, NEW p \in Pages, NEW s \in {"chat", "shell"}, H!SwitchBuffer(p, s)
  PROVE  ShellInv'
<1>1. /\ H!Step /\ webActive' = [webActive EXCEPT ![p] = s] /\ recent' \in {recent, TRUE}
      /\ displaced' \subseteq displaced
      /\ \/ UNCHANGED seen \/ seen' = [seen EXCEPT ![p] = version[p]]
      /\ UNCHANGED <<webSessions, version, pending, alive, shell_queue, sessions, buffers, active,
                     shellInputActive, typed, nextId>>
  BY DEF H!SwitchBuffer, H!tui
<1>2. PageTypes /\ ShellEvents
  BY ShellSteps
<1>3. version' \in [Pages -> 0..MaxOutput] /\ \A q \in Pages : version[q] <= version'[q]
  BY <1>1, <1>2 DEF PageTypes
<1>4. seen' \in [Pages -> Nat] /\ \A q \in Pages : seen'[q] <= version'[q]
  BY <1>1, <1>2, <1>3, ShellBroadcasts
<1>5. webActive' \in [Pages -> {"chat", "shell", "gone"}] /\ recent' \in BOOLEAN
  BY <1>1, <1>2 DEF PageTypes
<1>6. PageTypes'
  BY <1>1, <1>2, <1>3, <1>4, <1>5 DEF PageTypes
<1>7. ShellEvents'
  BY <1>1, <1>2 DEF ShellEvents
<1> QED
  BY <1>1, <1>6, <1>7, ShellSteps, ShellElsewhere

(* A session of a page goes.                                               *)
LEMMA ShellPageLeft ==
  ASSUME PageTypes, NEW p, webSessions' = webSessions \ {p},
         UNCHANGED <<version, seen, pending, recent, displaced>>,
         webActive' \in [Pages -> {"chat", "shell", "gone"}]
  PROVE  PageTypes'
<1>1. webSessions \subseteq Pages /\ IsFiniteSet(webSessions) /\ Cardinality(webSessions) <= MAX_WEB_SESSIONS
  BY DEF PageTypes
<1>2. IsFiniteSet(webSessions') /\ Cardinality(webSessions') <= Cardinality(webSessions)
      /\ Cardinality(webSessions') \in Nat /\ Cardinality(webSessions) \in Nat
  BY <1>1, FS_Subset, FS_CardinalityType
<1>3. Cardinality(webSessions') <= MAX_WEB_SESSIONS
  BY <1>1, <1>2, ShellBounds
<1> QED
  BY <1>1, <1>2, <1>3 DEF PageTypes

LEMMA ShellPageGoes ==
  ASSUME ShellInv, NEW p \in Pages, H!WebDisconnect(p)
  PROVE  ShellInv'
<1>1. /\ H!Step /\ webActive' = [webActive EXCEPT ![p] = "gone"]
      /\ webSessions' = webSessions \ {p} /\ alive' = [alive EXCEPT !.web = @ \ {p}]
      /\ shell_queue' = IF p \in alive.web THEN Append(shell_queue, H!Event("exitedWeb", p))
                        ELSE shell_queue
      /\ UNCHANGED <<version, seen, pending, recent, displaced, sessions, buffers, active,
                     shellInputActive, typed, nextId>>
  BY DEF H!WebDisconnect, H!tui
<1>2. PageTypes /\ ShellEvents /\ alive \in [tui : SUBSET H!Ids, web : SUBSET Pages]
  BY ShellSteps
<1>3. alive' \in [tui : SUBSET H!Ids, web : SUBSET Pages]
  BY <1>1, <1>2
<1>4. webActive' \in [Pages -> {"chat", "shell", "gone"}]
  BY <1>1, <1>2 DEF PageTypes
<1>5. PageTypes'
  BY <1>1, <1>2, <1>4, ShellPageLeft
<1>6. ShellEvents'
  <2>1. CASE p \in alive.web
    <3>1. shell_queue' = Append(shell_queue, H!Event("exitedWeb", p)) /\ "exitedWeb" # "output"
      BY <1>1, <2>1
    <3> QED
      BY <1>1, <1>2, <3>1, ShellReport
  <2>2. CASE p \notin alive.web
    BY <1>1, <1>2, <2>2 DEF ShellEvents
  <2> QED
    BY <2>1, <2>2
<1> QED
  BY <1>1, <1>3, <1>5, <1>6, ShellSteps, ShellElsewhere

(* The event at the head of the queue is handled.                          *)
LEMMA ShellTaken ==
  ASSUME ShellEvents, shell_queue # <<>>, shell_queue' = Tail(shell_queue),
         \/ UNCHANGED version
         \/ /\ Head(shell_queue).kind = "output"
            /\ \A q \in Pages : q # Head(shell_queue).id => version'[q] = version[q]
  PROVE  /\ ShellEvents'
         /\ Head(shell_queue).kind = "output" =>
              Head(shell_queue).id \in Pages /\ version[Head(shell_queue).id] < MaxOutput
<1> DEFINE e == Head(shell_queue)
<1>1. /\ IsList(shell_queue') /\ Len(shell_queue) \in Nat \ {0}
      /\ DOMAIN shell_queue = 1..Len(shell_queue)
      /\ DOMAIN shell_queue' = 1..Len(shell_queue) - 1
      /\ e = shell_queue[1]
      /\ \A i \in DOMAIN shell_queue' : shell_queue'[i] = shell_queue[i + 1]
  BY ListTail DEF ShellEvents
<1>2. 1 \in DOMAIN shell_queue
      /\ \A i \in DOMAIN shell_queue' : i \in Nat /\ i + 1 \in DOMAIN shell_queue /\ i + 1 # 1
  BY <1>1
<1> HIDE DEF e
<1>3. e.kind = "output" => e.id \in Pages /\ version[e.id] < MaxOutput
  BY <1>1, <1>2 DEF ShellEvents
<1>4. ASSUME NEW i \in DOMAIN shell_queue', shell_queue'[i].kind = "output"
      PROVE  /\ shell_queue'[i].id \in Pages /\ version[shell_queue'[i].id] < MaxOutput
             /\ e.kind = "output" => shell_queue'[i].id # e.id
  BY <1>1, <1>2, <1>4 DEF ShellEvents
<1>5. ASSUME NEW i \in DOMAIN shell_queue', shell_queue'[i].kind = "output"
      PROVE  shell_queue'[i].id \in Pages /\ version'[shell_queue'[i].id] < MaxOutput
  <2>1. CASE UNCHANGED version
    BY <1>4, <1>5, <2>1
  <2>2. CASE e.kind = "output" /\ \A q \in Pages : q # e.id => version'[q] = version[q]
    BY <1>4, <1>5, <2>2
  <2> QED
    BY <2>1, <2>2 DEF e
<1>6. ASSUME NEW k \in DOMAIN shell_queue', NEW l \in DOMAIN shell_queue',
             shell_queue'[k].kind = "output", shell_queue'[l].kind = "output",
             shell_queue'[k].id = shell_queue'[l].id
      PROVE  k = l
  <2>1. k + 1 = l + 1
    BY <1>1, <1>2, <1>6 DEF ShellEvents
  <2> QED
    BY <1>2, <2>1
<1>7. ShellEvents'
  BY <1>1, <1>5, <1>6 DEF ShellEvents
<1> QED
  BY <1>3, <1>7 DEF e

LEMMA ShellHandles ==
  ASSUME ShellInv, H!HandleShellEvent
  PROVE  ShellInv'
<1> DEFINE e == Head(shell_queue)
<1>1. /\ shell_queue # <<>> /\ shell_queue' = Tail(shell_queue) /\ steps' = steps
      /\ \/ e.kind = "exited" /\ H!Exited(e.id)
         \/ e.kind = "output" /\ H!OutputWeb(e.id)
         \/ e.kind = "exitedWeb" /\ H!ExitedWeb(e.id)
  BY DEF H!HandleShellEvent, H!Ended
<1>2. PageTypes /\ ShellEvents /\ steps \in 0..MaxSteps
      /\ alive \in [tui : SUBSET H!Ids, web : SUBSET Pages]
  BY ShellSteps
<1>3. CASE e.kind = "exited" /\ H!Exited(e.id)
  <2> DEFINE i == e.id
  <2>1. UNCHANGED <<typed, nextId, alive, webSessions, webActive, version, seen, pending, recent, displaced>>
    BY <1>3 DEF H!Exited, H!web
  <2>2. ShellEvents' /\ PageTypes'
    BY <1>1, <1>2, <2>1, ShellTaken DEF PageTypes
  <2>3. CASE i \notin DOMAIN sessions
    <3>1. UNCHANGED <<sessions, buffers, active, shellInputActive>>
      BY <1>3, <2>3 DEF H!Exited
    <3> QED
      BY <1>1, <1>2, <2>1, <2>2, <3>1, ShellElsewhere
  <2>4. CASE i \in DOMAIN sessions
    <3>1. /\ H!Removed({i}, sessions[i])
          /\ shellInputActive' = (shellInputActive /\ H!IsShell(active') /\ DOMAIN sessions' # {})
      BY <1>3, <2>4 DEF H!Exited
    <3> HIDE DEF i
    <3>2. sessions[i] \in ShellNames /\ {i} = {j \in DOMAIN sessions : sessions[j] = sessions[i]}
      BY <2>4 DEF ShellInv, ShellTypes, ShellBuffers, H!SessionsHaveBuffers
    <3>3. /\ DOMAIN sessions' \subseteq H!Ids
          /\ \A j \in DOMAIN sessions' : sessions'[j] \in ShellNames /\ j < nextId
          /\ buffers' \subseteq ShellNames \cup {H!Header} /\ active' \in ChatBuffers \cup buffers'
          /\ ShellBuffers'
      <4>1. ShellTypes /\ ShellBuffers /\ UNCHANGED <<typed, nextId>>
        BY <2>1 DEF ShellInv
      <4> DEFINE b == sessions[i]
      <4>2. b \in ShellNames /\ {i} = {j \in DOMAIN sessions : sessions[j] = b} /\ H!Removed({i}, b)
        BY <3>1, <3>2
      <4> HIDE DEF b
      <4> QED
        BY <4>1, <4>2, ShellRemoved
    <3>4. ShellTypes'
      BY <1>1, <1>2, <2>1, <3>1, <3>3 DEF ShellInv, ShellTypes, H!Ids
    <3> QED
      BY <2>2, <3>3, <3>4 DEF ShellInv
  <2> QED
    BY <2>3, <2>4
<1>4. CASE e.kind = "output" /\ H!OutputWeb(e.id)
  <2> DEFINE p == e.id
  <2>1. /\ version' = IF p \in webSessions THEN [version EXCEPT ![p] = @ + 1] ELSE version
        /\ pending' \in {p, pending, "none"} /\ recent' \in {recent, TRUE}
        /\ displaced' \subseteq displaced \cup ({pending} \ {"none"})
        /\ UNCHANGED seen \/ seen' = [seen EXCEPT ![p] = version'[p]]
        /\ UNCHANGED <<webSessions, webActive, alive, sessions, buffers, active, shellInputActive,
                       typed, nextId>>
    <3>1. CASE p \in webSessions
      BY <1>4, <3>1 DEF H!OutputWeb, H!Broadcast, H!Waits, H!Throttled, H!tui
    <3>2. CASE p \notin webSessions
      BY <1>4, <3>2 DEF H!OutputWeb, H!tui
    <3> QED
      BY <3>1, <3>2
  <2>2. version \in [Pages -> 0..MaxOutput] /\ MaxOutput \in Nat
    BY <1>2, ShellBounds DEF PageTypes
  <2>3. \A q \in Pages : q # p => version'[q] = version[q]
    BY <2>1, <2>2
  <2>4. ShellEvents' /\ p \in Pages /\ version[p] < MaxOutput
    BY <1>1, <1>2, <1>4, <2>3, ShellTaken
  <2> HIDE DEF p
  <2>5. version' \in [Pages -> 0..MaxOutput] /\ \A q \in Pages : version[q] <= version'[q]
    <3>1. version[p] + 1 \in 0..MaxOutput /\ version[p] <= version[p] + 1
          /\ \A q \in Pages : version[q] \in Nat /\ version[q] <= version[q]
      BY <2>2, <2>4
    <3> QED
      BY <2>1, <2>2, <2>4, <3>1
  <2>6. seen' \in [Pages -> Nat] /\ \A q \in Pages : seen'[q] <= version'[q]
    BY <1>2, <2>1, <2>4, <2>5, ShellBroadcasts
  <2>7. pending' \in Pages \cup {"none"} /\ recent' \in BOOLEAN /\ displaced' \subseteq Pages
    BY <1>2, <2>1, <2>4 DEF PageTypes
  <2>8. PageTypes'
    BY <1>2, <2>1, <2>5, <2>6, <2>7 DEF PageTypes
  <2> QED
    BY <1>1, <1>2, <2>1, <2>4, <2>8, ShellElsewhere
<1>5. CASE e.kind = "exitedWeb" /\ H!ExitedWeb(e.id)
  <2>1. /\ webSessions' = webSessions \ {e.id}
        /\ UNCHANGED <<webActive, version, seen, pending, recent, displaced, alive, sessions, buffers,
                       active, shellInputActive, typed, nextId>>
    BY <1>5 DEF H!ExitedWeb, H!tui
  <2>2. webActive' \in [Pages -> {"chat", "shell", "gone"}]
    BY <1>2, <2>1 DEF PageTypes
  <2>3. PageTypes'
    BY <1>2, <2>1, <2>2, ShellPageLeft
  <2>4. ShellEvents'
    BY <1>1, <1>2, <2>1, ShellTaken
  <2> QED
    BY <1>1, <1>2, <2>1, <2>3, <2>4, ShellElsewhere
<1> QED
  BY <1>1, <1>3, <1>4, <1>5

LEMMA ShellServes ==
  ASSUME ShellInv, H!ServePending
  PROVE  ShellInv'
<1>1. /\ pending # "none" /\ pending' = "none" /\ recent' \in {recent, TRUE} /\ displaced' \subseteq displaced
      /\ UNCHANGED seen \/ seen' = [seen EXCEPT ![pending] = version[pending]]
      /\ UNCHANGED <<webSessions, webActive, version, alive, shell_queue, steps, sessions, buffers,
                     active, shellInputActive, typed, nextId>>
  <2>1. recent \in BOOLEAN /\ recent' = (recent \/ pending \in webSessions)
    BY DEF H!ServePending, ShellInv, PageTypes
  <2>2. recent' \in {recent, TRUE}
    BY <2>1
  <2> QED
    BY <2>2 DEF H!ServePending, H!tui
<1>2. PageTypes /\ ShellEvents /\ pending \in Pages
  BY <1>1, ShellSteps DEF PageTypes
<1>3. version' \in [Pages -> 0..MaxOutput] /\ \A q \in Pages : version[q] <= version'[q]
  BY <1>1, <1>2 DEF PageTypes
<1>4. seen' \in [Pages -> Nat] /\ \A q \in Pages : seen'[q] <= version'[q]
  BY <1>1, <1>2, <1>3, ShellBroadcasts
<1>5. PageTypes'
  BY <1>1, <1>2, <1>3, <1>4 DEF PageTypes
<1>6. ShellEvents'
  BY <1>1, <1>2 DEF ShellEvents
<1> QED
  BY <1>1, <1>5, <1>6, ShellSteps, ShellElsewhere

LEMMA ShellStep ==
  ASSUME ShellInv, [H!Next]_(H!vars)
  PROVE  ShellInv'
<1>1. ASSUME NEW n \in ShellNames, H!ShellOpen(n) PROVE ShellInv'
  BY <1>1, ShellOpens
<1>2. CASE H!ShellOpenFails
  <2>1. /\ H!Step /\ buffers' = buffers \cup {H!Header}
        /\ UNCHANGED <<sessions, active, shellInputActive, typed, nextId, alive, shell_queue,
                       webSessions, webActive, version, seen, pending, recent, displaced>>
    BY <1>2 DEF H!ShellOpenFails, H!web
  <2>2. active' \in ChatBuffers \cup buffers' /\ shellInputActive' \in BOOLEAN
    BY <2>1 DEF ShellInv, ShellTypes
  <2> QED
    BY <2>1, <2>2, ShellSteps, ShellLooks
<1>3. CASE H!CloseShellBuffer
  BY <1>3, ShellCloses
<1>4. CASE H!ForwardKeyToShell
  BY <1>4, ShellKeys
<1>5. CASE H!LeaveShellInput
  <2>1. /\ shellInputActive' = FALSE
        /\ UNCHANGED <<sessions, buffers, active, typed, nextId, alive, shell_queue, steps,
                       webSessions, webActive, version, seen, pending, recent, displaced>>
    BY <1>5 DEF H!LeaveShellInput, H!web
  <2>2. active' \in ChatBuffers \cup buffers' /\ shellInputActive' \in BOOLEAN
    BY <2>1 DEF ShellInv, ShellTypes
  <2> QED
    BY <2>1, <2>2, ShellSteps, ShellLooks
<1>6. ASSUME NEW b \in buffers \cup ChatBuffers, H!Switch(b) \/ H!SwitchedByOthers(b) PROVE ShellInv'
  <2>1. /\ H!Step /\ active' = b /\ shellInputActive' \in {shellInputActive, H!IsShell(b)}
        /\ UNCHANGED <<sessions, buffers, typed, nextId, alive, shell_queue,
                       webSessions, webActive, version, seen, pending, recent, displaced>>
    BY <1>6 DEF H!Switch, H!SwitchedByOthers, H!web
  <2>2. active' \in ChatBuffers \cup buffers' /\ shellInputActive' \in BOOLEAN
    <3>1. active' \in ChatBuffers \cup buffers'
      BY <2>1
    <3>2. shellInputActive \in BOOLEAN
      BY DEF ShellInv, ShellTypes
    <3>3. H!IsShell(b) \in BOOLEAN
      BY DEF H!IsShell
    <3> QED
      BY <2>1, <3>1, <3>2, <3>3
  <2> QED
    BY <2>1, <2>2, ShellSteps, ShellLooks
<1>7. ASSUME NEW p \in Pages, H!ProcessWrites(p) PROVE ShellInv'
  BY <1>7, ShellWrites
<1>8. ASSUME NEW p \in Pages, H!ShellResize(p) PROVE ShellInv'
  BY <1>8, ShellResizes
<1>9. ASSUME NEW p \in Pages, H!WebProcessEnds(p) PROVE ShellInv'
  BY <1>9, ShellProcesses
<1>10. ASSUME NEW p \in Pages, H!WebDisconnect(p) PROVE ShellInv'
  BY <1>10, ShellPageGoes
<1>11. ASSUME NEW p \in Pages, NEW s \in {"chat", "shell"}, H!SwitchBuffer(p, s) PROVE ShellInv'
  BY <1>11, ShellPageSwitches
<1>12. ASSUME NEW i \in alive.tui, H!ProcessEnds(i) PROVE ShellInv'
  BY <1>12, ShellProcesses
<1>13. CASE H!HandleShellEvent
  BY <1>13, ShellHandles
<1>14. CASE H!Later
  <2>1. /\ recent' = FALSE
        /\ UNCHANGED <<webSessions, webActive, version, seen, pending, displaced, alive, shell_queue, steps,
                       sessions, buffers, active, shellInputActive, typed, nextId>>
    BY <1>14 DEF H!Later, H!tui
  <2>2. PageTypes' /\ ShellEvents'
    BY <2>1, ShellSteps DEF PageTypes, ShellEvents
  <2> QED
    BY <2>1, <2>2, ShellSteps, ShellElsewhere
<1>15. CASE H!ServePending
  BY <1>15, ShellServes
<1>16. CASE UNCHANGED H!vars
  <2>1. UNCHANGED <<sessions, buffers, active, shellInputActive, typed, nextId, alive, shell_queue,
                    steps, webSessions, webActive, version, seen, pending, recent, displaced>>
    BY <1>16 DEF H!vars, H!tui, H!web
  <2>2. PageTypes' /\ ShellEvents'
    BY <2>1, ShellSteps DEF PageTypes, ShellEvents
  <2> QED
    BY <2>1, <2>2, ShellSteps, ShellElsewhere
<1> QED
  BY <1>1, <1>2, <1>3, <1>4, <1>5, <1>6, <1>7, <1>8, <1>9, <1>10, <1>11, <1>12, <1>13, <1>14,
     <1>15, <1>16 DEF H!Next

LEMMA ShellGood == ShellInv => H!TypeOK /\ H!SessionsHaveBuffers /\ H!KeysReachTheirShell
<1> SUFFICES ASSUME ShellInv PROVE H!TypeOK /\ H!SessionsHaveBuffers /\ H!KeysReachTheirShell
  OBVIOUS
<1>1. Cardinality(webSessions) = H!Cardinality(webSessions)
  BY ShellCounts
<1>2. H!TypeOK
  BY <1>1 DEF ShellInv, ShellTypes, PageTypes, H!TypeOK
<1> QED
  BY <1>2 DEF ShellInv, ShellBuffers
-----------------------------------------------------------------------------
(* Pictures.  Every result on its way or still to come is of one call, and *)
(* a user who looks at one picture at a time has at most this one on the   *)
(* terminal.                                                               *)
Previews == [kind : {"hidden", "loading", "ready", "error"}, url : Urls \cup {"none"},
             written : BOOLEAN]
Fetches == [url : Urls, at : I!Stages, data : {"none", "part", "whole"}]
Results == [kind : {"ready", "error"}, url : Urls]
ImageTypes ==
  /\ preview \in Previews /\ images_asked \in Urls \cup {"none"}
  /\ (preview.kind = "hidden" <=> preview.url = "none")
  /\ DOMAIN tasks \subseteq 1..shows
  /\ \A t \in DOMAIN tasks : tasks[t] \in Fetches
  /\ events \in Seq(Results) /\ file \in [Urls -> {"none", "part", "whole"}]
  /\ screen \subseteq Urls
  /\ shows \in 0..MaxShows /\ images_faults \in 0..MaxFaults
ResultsLeft == Len(events) + Cardinality(DOMAIN tasks) <= shows
OnePicture ==
  OneAtATime => IF preview.kind = "ready" THEN screen \subseteq {preview.url} ELSE screen = {}
ImageInv == ImageTypes /\ ResultsLeft /\ I!ShownIsAsked /\ OnePicture

LEMMA ImagesBounds == MaxShows \in Nat /\ MaxFaults \in Nat /\ "none" \notin Urls
BY ImageAssumption DEF I!ImageAssumption

LEMMA ImagesStart == I!Init => ImageInv
<1> SUFFICES ASSUME I!Init PROVE ImageInv
  OBVIOUS
<1>1. /\ preview = [kind |-> "hidden", url |-> "none", written |-> FALSE] /\ images_asked = "none"
      /\ tasks = <<>> /\ events = <<>> /\ file = [u \in Urls |-> "none"] /\ screen = {}
      /\ shows = 0 /\ images_faults = 0
  BY DEF I!Init, I!Hidden
<1>2. DOMAIN tasks = {} /\ Cardinality({}) = 0 /\ Len(events) = 0 /\ events \in Seq(Results)
  BY <1>1, FS_EmptySet
<1>3. ResultsLeft
  BY <1>1, <1>2 DEF ResultsLeft
<1>4. preview \in Previews /\ 0 \in 0..MaxShows /\ 0 \in 0..MaxFaults
  BY <1>1, ImagesBounds DEF Previews
<1>5. ImageTypes
  BY <1>1, <1>2, <1>4 DEF ImageTypes
<1> QED
  BY <1>1, <1>3, <1>5 DEF ImageInv, OnePicture, I!ShownIsAsked

(* The results that are left when a task starts or ends.                   *)
LEMMA ImagesTasks ==
  ASSUME ImageInv
  PROVE  /\ IsFiniteSet(DOMAIN tasks) /\ Cardinality(DOMAIN tasks) \in Nat
         /\ shows \in Nat /\ Len(events) \in Nat
         /\ shows + 1 \notin DOMAIN tasks
         /\ Cardinality(DOMAIN tasks \cup {shows + 1}) = Cardinality(DOMAIN tasks) + 1
         /\ \A t \in DOMAIN tasks :
              Cardinality(DOMAIN tasks \ {t}) = Cardinality(DOMAIN tasks) - 1
<1>1. shows \in Nat /\ DOMAIN tasks \subseteq 1..shows /\ events \in Seq(Results)
  BY ImagesBounds DEF ImageInv, ImageTypes
<1>2. IsFiniteSet(1..shows)
  BY <1>1, FS_Interval
<1>3. IsFiniteSet(DOMAIN tasks)
  BY <1>1, <1>2, FS_Subset
<1>4. Cardinality(DOMAIN tasks) \in Nat
  BY <1>3, FS_CardinalityType
<1>5. shows + 1 \notin DOMAIN tasks
  BY <1>1
<1>6. Cardinality(DOMAIN tasks \cup {shows + 1}) = Cardinality(DOMAIN tasks) + 1
  BY <1>3, <1>5, FS_AddElement
<1>7. ASSUME NEW t \in DOMAIN tasks
      PROVE  Cardinality(DOMAIN tasks \ {t}) = Cardinality(DOMAIN tasks) - 1
  BY <1>3, FS_RemoveElement
<1> QED
  BY <1>1, <1>3, <1>4, <1>5, <1>6, <1>7

LEMMA ImagesShow ==
  ASSUME ImageInv, NEW u \in Urls, I!ShowImagePreview(u)
  PROVE  ImageInv'
<1>1. /\ shows < MaxShows /\ shows' = shows + 1 /\ (OneAtATime => preview.kind = "hidden")
      /\ images_asked' = u /\ UNCHANGED <<events, file, screen, protocol, images_faults>>
  BY DEF I!ShowImagePreview
<1>2. /\ Cardinality(DOMAIN tasks) \in Nat /\ shows \in Nat /\ Len(events) \in Nat
      /\ Cardinality(DOMAIN tasks \cup {shows + 1}) = Cardinality(DOMAIN tasks) + 1
  BY ImagesTasks
<1>3. shows' \in 0..MaxShows /\ 1..shows \subseteq 1..shows' /\ shows + 1 \in 1..shows'
  BY <1>1, <1>2, ImagesBounds
<1>4. CASE preview.kind \in {"loading", "ready"} /\ preview.url = u
  <2>1. UNCHANGED <<preview, tasks>>
    BY <1>4 DEF I!ShowImagePreview
  <2>2. ImageTypes'
    BY <1>1, <1>3, <2>1 DEF ImageInv, ImageTypes
  <2>3. ResultsLeft'
    BY <1>1, <1>2, <2>1 DEF ImageInv, ResultsLeft
  <2>4. I!ShownIsAsked' /\ OnePicture'
    BY <1>1, <1>4, <2>1 DEF ImageInv, OnePicture, I!ShownIsAsked
  <2> QED
    BY <2>2, <2>3, <2>4 DEF ImageInv
<1>5. CASE ~ (preview.kind \in {"loading", "ready"} /\ preview.url = u)
  <2>1. /\ preview' = [kind |-> "loading", url |-> u, written |-> FALSE]
        /\ tasks' = [t \in DOMAIN tasks \cup {shows + 1} |->
               IF t = shows + 1 THEN [url |-> u, at |-> "look", data |-> "none"] ELSE tasks[t]]
    BY <1>5 DEF I!ShowImagePreview, I!Status
  <2>2. DOMAIN tasks' = DOMAIN tasks \cup {shows + 1}
    BY <2>1
  <2>3. \A t \in DOMAIN tasks' : tasks'[t] \in Fetches
    BY <2>1 DEF ImageInv, ImageTypes, Fetches, I!Stages
  <2>4. preview' \in Previews /\ preview'.kind = "loading" /\ preview'.url = u /\ u # "none"
    BY <2>1, ImagesBounds DEF Previews
  <2>5. ImageTypes'
    BY <1>1, <1>3, <2>2, <2>3, <2>4 DEF ImageInv, ImageTypes
  <2>6. ResultsLeft'
    BY <1>1, <1>2, <2>2 DEF ImageInv, ResultsLeft
  <2>7. I!ShownIsAsked' /\ OnePicture'
    BY <1>1, <2>4 DEF ImageInv, OnePicture, I!ShownIsAsked
  <2> QED
    BY <2>5, <2>6, <2>7 DEF ImageInv
<1> QED
  BY <1>4, <1>5

LEMMA ImagesDismiss ==
  ASSUME ImageInv, I!DismissImagePreview
  PROVE  ImageInv'
<1>1. /\ screen' = screen \ I!Cleared(preview)
      /\ preview' = [kind |-> "hidden", url |-> "none", written |-> FALSE] /\ images_asked' = "none"
      /\ UNCHANGED <<tasks, events, file, protocol, shows, images_faults>>
  BY DEF I!DismissImagePreview, I!Hidden
<1>2. preview' \in Previews
  BY <1>1 DEF Previews
<1>3. ImageTypes' /\ ResultsLeft'
  BY <1>1, <1>2 DEF ImageInv, ImageTypes, ResultsLeft
<1>4. ASSUME OneAtATime PROVE screen' = {}
  <2>1. CASE preview.kind # "ready"
    BY <1>1, <1>4, <2>1 DEF ImageInv, OnePicture
  <2>2. CASE preview.kind = "ready"
    <3>1. screen \subseteq {preview.url} /\ preview.url \in Urls
      BY <1>4, <2>2 DEF ImageInv, OnePicture, ImageTypes, Previews
    <3>2. preview.url \in I!Covers(preview.url)
      BY <3>1 DEF I!Covers
    <3>3. screen \subseteq I!Cleared(preview)
      BY <2>2, <3>1, <3>2 DEF I!Cleared, I!CleanupImageGraphics
    <3> QED
      BY <1>1, <3>3
  <2> QED
    BY <2>1, <2>2
<1> QED
  BY <1>1, <1>3, <1>4 DEF ImageInv, OnePicture, I!ShownIsAsked

LEMMA ImagesWrite ==
  ASSUME ImageInv, I!WriteTmuxDirectImage
  PROVE  ImageInv'
<1>1. /\ preview.kind = "ready" /\ preview' = [preview EXCEPT !.written = TRUE]
      /\ screen' = screen \cup {preview.url}
      /\ UNCHANGED <<images_asked, tasks, events, file, protocol, shows, images_faults>>
  BY DEF I!WriteTmuxDirectImage
<1>2. preview \in Previews /\ preview.url # "none"
  BY <1>1 DEF ImageInv, ImageTypes
<1>3. preview' \in Previews /\ preview'.kind = preview.kind /\ preview'.url = preview.url
  BY <1>1, <1>2 DEF Previews
<1>4. preview.url \in Urls
  BY <1>2 DEF Previews
<1>5. ImageTypes' /\ ResultsLeft'
  BY <1>1, <1>3, <1>4 DEF ImageInv, ImageTypes, ResultsLeft
<1> QED
  BY <1>1, <1>3, <1>5 DEF ImageInv, OnePicture, I!ShownIsAsked

LEMMA ImagesResult ==
  ASSUME ImageInv, I!HandlePreviewEvent
  PROVE  ImageInv'
<1> DEFINE e == Head(events)
<1>1. /\ events # <<>> /\ events' = Tail(events)
      /\ preview' = IF preview.kind = "loading" /\ preview.url = e.url
                    THEN [kind |-> e.kind, url |-> e.url, written |-> FALSE] ELSE preview
      /\ UNCHANGED <<images_asked, tasks, file, screen, protocol, shows, images_faults>>
  BY DEF I!HandlePreviewEvent, I!Awaited, I!Status
<1>2. events \in Seq(Results) /\ preview \in Previews
  BY DEF ImageInv, ImageTypes
<1>3. e \in Results /\ events' \in Seq(Results) /\ Len(events') = Len(events) - 1
  BY <1>1, <1>2
<1> HIDE DEF e
<1>4. Len(events) \in Nat /\ Cardinality(DOMAIN tasks) \in Nat /\ shows \in Nat
  BY ImagesTasks
<1>5. ResultsLeft'
  BY <1>1, <1>3, <1>4 DEF ImageInv, ResultsLeft
<1>6. CASE preview.kind = "loading" /\ preview.url = e.url
  <2>1. preview' \in Previews /\ preview'.url = preview.url /\ preview'.kind \in {"ready", "error"}
    BY <1>1, <1>3, <1>6 DEF Results, Previews
  <2>2. ImageTypes'
    BY <1>1, <1>3, <1>6, <2>1 DEF ImageInv, ImageTypes
  <2>3. OnePicture'
    BY <1>1, <1>6, <2>1 DEF ImageInv, OnePicture
  <2> QED
    BY <1>1, <1>5, <2>1, <2>2, <2>3 DEF ImageInv, I!ShownIsAsked
<1>7. CASE ~ (preview.kind = "loading" /\ preview.url = e.url)
  <2>1. UNCHANGED preview
    BY <1>1, <1>7
  <2> QED
    BY <1>1, <1>3, <1>5, <2>1 DEF ImageInv, ImageTypes, OnePicture, I!ShownIsAsked
<1> QED
  BY <1>6, <1>7

(* A task goes on, or ends with a result.                                  *)
LEMMA ImagesTaskGoes ==
  ASSUME ImageInv, NEW t \in DOMAIN tasks, DOMAIN tasks' = DOMAIN tasks, tasks'[t] \in Fetches,
         \A x \in DOMAIN tasks : x # t => tasks'[x] = tasks[x],
         file' \in [Urls -> {"none", "part", "whole"}], images_faults' \in 0..MaxFaults,
         UNCHANGED <<events, preview, images_asked, screen, protocol, shows>>
  PROVE  ImageInv'
<1>1. \A x \in DOMAIN tasks' : tasks'[x] \in Fetches
  BY DEF ImageInv, ImageTypes
<1>2. ImageTypes'
  BY <1>1 DEF ImageInv, ImageTypes
<1> QED
  BY <1>2 DEF ImageInv, ResultsLeft, OnePicture, I!ShownIsAsked

LEMMA ImagesTaskEnds ==
  ASSUME ImageInv, NEW t \in DOMAIN tasks, NEW k \in {"ready", "error"}, I!Ends(t, k),
         file' \in [Urls -> {"none", "part", "whole"}], images_faults' \in 0..MaxFaults,
         UNCHANGED <<preview, images_asked, screen, protocol, shows>>
  PROVE  ImageInv'
<1> DEFINE e == [kind |-> k, url |-> tasks[t].url]
<1>1. tasks' = [x \in DOMAIN tasks \ {t} |-> tasks[x]] /\ events' = Append(events, e)
  BY DEF I!Ends
<1>2. e \in Results /\ events \in Seq(Results)
  BY DEF ImageInv, ImageTypes, Fetches, Results
<1> HIDE DEF e
<1>3. events' \in Seq(Results) /\ Len(events') = Len(events) + 1
  BY <1>1, <1>2
<1>4. DOMAIN tasks' = DOMAIN tasks \ {t} /\ \A x \in DOMAIN tasks' : tasks'[x] = tasks[x]
  BY <1>1
<1>5. ImageTypes'
  BY <1>3, <1>4 DEF ImageInv, ImageTypes
<1>6. /\ Cardinality(DOMAIN tasks') = Cardinality(DOMAIN tasks) - 1
      /\ Cardinality(DOMAIN tasks) \in Nat /\ Len(events) \in Nat /\ shows \in Nat
  BY <1>4, ImagesTasks
<1>7. ResultsLeft'
  BY <1>3, <1>6 DEF ImageInv, ResultsLeft
<1> QED
  BY <1>5, <1>7 DEF ImageInv, OnePicture, I!ShownIsAsked

LEMMA ImagesTask ==
  ASSUME ImageInv, NEW t \in DOMAIN tasks, I!TaskStep(t)
  PROVE  ImageInv'
<1> DEFINE x == tasks[t]
<1>1. /\ x \in Fetches /\ file \in [Urls -> {"none", "part", "whole"}] /\ x.url \in Urls
      /\ images_faults \in 0..MaxFaults /\ MaxFaults \in Nat
  BY ImagesBounds DEF ImageInv, ImageTypes, Fetches
<1>2. CASE I!IsCached(t)
  <2> DEFINE f == file[x.url]
             at == IF f = "none" THEN "get" ELSE "decode"
  <2>1. /\ tasks' = [tasks EXCEPT ![t].at = at, ![t].data = f]
        /\ UNCHANGED <<events, file, images_faults, preview, images_asked, screen, protocol, shows>>
    BY <1>2 DEF I!IsCached, I!Rest
  <2>2. f \in {"none", "part", "whole"} /\ at \in I!Stages
    BY <1>1 DEF I!Stages
  <2> HIDE DEF f, at
  <2>3. /\ DOMAIN tasks' = DOMAIN tasks /\ tasks'[t] = [x EXCEPT !.at = at, !.data = f]
        /\ \A y \in DOMAIN tasks : y # t => tasks'[y] = tasks[y]
    BY <2>1
  <2>4. tasks'[t] \in Fetches
    BY <1>1, <2>2, <2>3 DEF Fetches
  <2> QED
    BY <1>1, <2>1, <2>3, <2>4, ImagesTaskGoes
<1>3. CASE I!FetchImage(t)
  <2>1. /\ tasks' = [tasks EXCEPT ![t].at = "store", ![t].data = "whole"]
        /\ file' = [file EXCEPT ![x.url] = "part"]
        /\ UNCHANGED <<events, images_faults, preview, images_asked, screen, protocol, shows>>
    BY <1>3 DEF I!FetchImage, I!Rest
  <2>2. /\ DOMAIN tasks' = DOMAIN tasks /\ tasks'[t] = [x EXCEPT !.at = "store", !.data = "whole"]
        /\ \A y \in DOMAIN tasks : y # t => tasks'[y] = tasks[y]
    BY <2>1
  <2>3. tasks'[t] \in Fetches /\ file' \in [Urls -> {"none", "part", "whole"}]
    BY <1>1, <2>1, <2>2 DEF Fetches, I!Stages
  <2> QED
    BY <1>1, <2>1, <2>2, <2>3, ImagesTaskGoes
<1>4. CASE I!FetchFails(t)
  <2>1. /\ images_faults < MaxFaults /\ images_faults' = images_faults + 1 /\ I!Ends(t, "error")
        /\ UNCHANGED <<file, preview, images_asked, screen, protocol, shows>>
    BY <1>4 DEF I!FetchFails, I!Rest
  <2>2. images_faults' \in 0..MaxFaults /\ file' \in [Urls -> {"none", "part", "whole"}]
    BY <1>1, <2>1
  <2> QED
    BY <2>1, <2>2, ImagesTaskEnds
<1>5. CASE I!Store(t)
  <2>1. /\ tasks' = [tasks EXCEPT ![t].at = "decode"]
        /\ UNCHANGED <<events, preview, images_asked, screen, protocol, shows>>
        /\ \/ /\ file' = [file EXCEPT ![x.url] =
                         IF @ = "none" THEN @ ELSE IF I!Others(t) = {} THEN "whole" ELSE "part"]
              /\ UNCHANGED images_faults
           \/ /\ images_faults < MaxFaults /\ images_faults' = images_faults + 1
              /\ UNCHANGED file
    BY <1>5 DEF I!Store, I!Rest
  <2>2. /\ DOMAIN tasks' = DOMAIN tasks /\ tasks'[t] = [x EXCEPT !.at = "decode"]
        /\ \A y \in DOMAIN tasks : y # t => tasks'[y] = tasks[y]
    BY <2>1
  <2>3. tasks'[t] \in Fetches
    BY <1>1, <2>2 DEF Fetches, I!Stages
  <2>4. file' \in [Urls -> {"none", "part", "whole"}] /\ images_faults' \in 0..MaxFaults
    BY <1>1, <2>1
  <2> QED
    BY <2>1, <2>2, <2>3, <2>4, ImagesTaskGoes
<1>6. CASE I!DecodeAndEncode(t)
  <2> DEFINE k == IF x.data = "whole" THEN "ready" ELSE "error"
  <2>1. I!Ends(t, k) /\ k \in {"ready", "error"}
        /\ UNCHANGED <<file, images_faults, preview, images_asked, screen, protocol, shows>>
    BY <1>6 DEF I!DecodeAndEncode, I!Rest
  <2> HIDE DEF k
  <2> QED
    BY <1>1, <2>1, ImagesTaskEnds
<1> QED
  BY <1>2, <1>3, <1>4, <1>5, <1>6 DEF I!TaskStep

LEMMA ImagesStep ==
  ASSUME ImageInv, [I!Next]_(I!vars)
  PROVE  ImageInv'
<1>1. ASSUME NEW u \in Urls, I!ShowImagePreview(u) PROVE ImageInv'
  BY <1>1, ImagesShow
<1>2. CASE I!DismissImagePreview
  BY <1>2, ImagesDismiss
<1>3. CASE I!WriteTmuxDirectImage
  BY <1>3, ImagesWrite
<1>4. CASE I!HandlePreviewEvent
  BY <1>4, ImagesResult
<1>5. ASSUME NEW t \in DOMAIN tasks, I!TaskStep(t) PROVE ImageInv'
  BY <1>5, ImagesTask
<1>6. ASSUME NEW us \in (SUBSET Urls) \ {{}}, I!Cleanup(us) PROVE ImageInv'
  <2>1. /\ file' = [u \in Urls |-> IF u \in us THEN "none" ELSE file[u]]
        /\ UNCHANGED <<tasks, events, images_faults, preview, images_asked, screen, protocol, shows>>
    BY <1>6 DEF I!Cleanup, I!Rest
  <2>2. file' \in [Urls -> {"none", "part", "whole"}]
    BY <2>1 DEF ImageInv, ImageTypes
  <2> QED
    BY <2>1, <2>2 DEF ImageInv, ImageTypes, ResultsLeft, OnePicture, I!ShownIsAsked
<1>7. CASE I!Crash
  <2>1. /\ images_faults < MaxFaults /\ images_faults' = images_faults + 1
        /\ preview' = [kind |-> "hidden", url |-> "none", written |-> FALSE]
        /\ images_asked' = "none" /\ tasks' = <<>> /\ events' = <<>> /\ screen' = {}
        /\ UNCHANGED <<file, protocol, shows>>
    BY <1>7 DEF I!Crash, I!Hidden
  <2>2. DOMAIN tasks' = {} /\ Cardinality({}) = 0 /\ Len(events') = 0 /\ events' \in Seq(Results)
    BY <2>1, FS_EmptySet
  <2>3. images_faults' \in 0..MaxFaults /\ preview' \in Previews /\ shows \in Nat
    BY <2>1, ImagesBounds DEF ImageInv, ImageTypes, Previews
  <2>4. ImageTypes'
    BY <2>1, <2>2, <2>3 DEF ImageInv, ImageTypes
  <2>5. ResultsLeft'
    BY <2>1, <2>2, <2>3 DEF ResultsLeft
  <2> QED
    BY <2>1, <2>4, <2>5 DEF ImageInv, OnePicture, I!ShownIsAsked
<1>8. CASE UNCHANGED I!vars
  <2>1. UNCHANGED <<preview, images_asked, tasks, events, file, screen, protocol, shows, images_faults>>
    BY <1>8 DEF I!vars
  <2> QED
    BY <2>1 DEF ImageInv, ImageTypes, ResultsLeft, OnePicture, I!ShownIsAsked
<1> QED
  BY <1>1, <1>2, <1>3, <1>4, <1>5, <1>6, <1>7, <1>8 DEF I!Next

LEMMA ImagesGood == ImageInv => I!TypeOK /\ I!ShownIsAsked /\ I!NothingLeftOnScreen
<1> SUFFICES ASSUME ImageInv PROVE I!TypeOK /\ I!ShownIsAsked /\ I!NothingLeftOnScreen
  OBVIOUS
<1>1. Len(events) \in Nat /\ Cardinality(DOMAIN tasks) \in Nat /\ shows \in Nat
  BY ImagesTasks
<1>2. Len(events) <= MaxShows /\ 1..shows \subseteq 1..MaxShows
  BY <1>1, ImagesBounds DEF ImageInv, ImageTypes, ResultsLeft
<1>3. preview \in Previews /\ DOMAIN tasks \subseteq 1..MaxShows /\ \A t \in DOMAIN tasks : tasks[t] \in Fetches
  BY <1>2 DEF ImageInv, ImageTypes
<1>4. I!TypeOK
  BY <1>2, <1>3 DEF ImageInv, ImageTypes, Previews, Fetches, I!TypeOK, I!Ids
<1> QED
  BY <1>4 DEF ImageInv, OnePicture, I!NothingLeftOnScreen

-----------------------------------------------------------------------------
(* The three parts in a run of MCProgress.                                 *)
LEMMA LaterRuns ==
  ASSUME [MCNext]_mcVars
  PROVE  /\ part' = "commands" => part = "commands" /\ [C!Next]_(C!lineVars)
         /\ part' = "shell" => part = "shell" /\ [H!Next]_(H!vars)
         /\ part' = "images" => part = "images" /\ [I!Next]_(I!vars)
<1>1. ASSUME part' = "commands" PROVE part = "commands" /\ [C!Next]_(C!lineVars)
  BY <1>1 DEF MCNext, mcVars, QueryOnly, LogOnly, CommandsOnly, ShellOnly, ImagesOnly,
     RegistrationOnly, commandsVars, C!lineVars
<1>2. ASSUME part' = "shell" PROVE part = "shell" /\ [H!Next]_(H!vars)
  BY <1>2 DEF MCNext, mcVars, QueryOnly, LogOnly, CommandsOnly, ShellOnly, ImagesOnly,
     RegistrationOnly, shellVars, H!vars, H!tui, H!web
<1>3. ASSUME part' = "images" PROVE part = "images" /\ [I!Next]_(I!vars)
  BY <1>3 DEF MCNext, mcVars, QueryOnly, LogOnly, CommandsOnly, ShellOnly, ImagesOnly,
     RegistrationOnly, imagesVars, I!vars
<1> QED
  BY <1>1, <1>2, <1>3

LaterInv ==
  /\ part = "commands" => CommandInv
  /\ part = "shell" => ShellInv
  /\ part = "images" => ImageInv

LEMMA LaterAlways == MCSpec => []LaterInv
<1>1. MCInit => LaterInv
  BY CommandsStart, ShellStart, ImagesStart DEF MCInit, LaterInv
<1>2. LaterInv /\ [MCNext]_mcVars => LaterInv'
  <2> SUFFICES ASSUME LaterInv, [MCNext]_mcVars PROVE LaterInv'
    OBVIOUS
  <2>1. ASSUME part' = "commands" PROVE CommandInv'
    BY <2>1, LaterRuns, CommandsStep DEF LaterInv
  <2>2. ASSUME part' = "shell" PROVE ShellInv'
    BY <2>2, LaterRuns, ShellStep DEF LaterInv
  <2>3. ASSUME part' = "images" PROVE ImageInv'
    BY <2>3, LaterRuns, ImagesStep DEF LaterInv
  <2> QED
    BY <2>1, <2>2, <2>3 DEF LaterInv
<1> QED
  BY <1>1, <1>2, PTL DEF MCSpec

(* What comes later finds what it was meant for (AnswersFindTheirQuestion):*)
(* pasted lines run in the order of their texts and none after a later     *)
(* paste; each session of a shell has a buffer of its own and is sent only *)
(* keys typed there; the picture shown is the one asked for last, and a    *)
(* user who looks at one at a time finds the terminal clean afterwards.    *)
(* For any aliases, texts, limits, shells, pages and pictures.             *)
THEOREM AnswersAreFound == MCSpec => []AnswersFindTheirQuestion
<1>1. LaterInv => AnswersFindTheirQuestion
  BY CommandsGood, ShellGood, ImagesGood
     DEF LaterInv, AnswersFindTheirQuestion, PastesInOrder, SessionsHaveBuffers,
         KeysReachTheirShell, ShownIsAsked, NothingLeftOnScreen
<1> QED
  BY <1>1, LaterAlways, PTL

=============================================================================
