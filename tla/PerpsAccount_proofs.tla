-------------------------- MODULE PerpsAccount_proofs --------------------------
(***************************************************************************)
(* Proofs about PerpsAccount, for every size of the event queue, number of  *)
(* events, reconnects, orders and attempts: no gap in the events is silent, *)
(* place_order() misses no update, and cancel_orders() reports what the     *)
(* server has decided.                                                      *)
(***************************************************************************)
EXTENDS PerpsAccount, Integers, FiniteSetTheorems, TLAPS

-----------------------------------------------------------------------------
(* The event queue.                                                         *)

\* r is the queue q after a put that may have dropped its oldest item.
IsPut(r, q, item, size) ==
  /\ Len(r) \in Nat /\ Len(r) <= size /\ r # <<>>
  /\ Len(r) \in 1..Len(r) /\ r[Len(r)] = item
  /\ Room(q, size) => /\ Len(r) = Len(q) + 1
                      /\ \A i \in 1..(Len(r) - 1) : i \in 1..Len(q) /\ r[i] = q[i]
  /\ ~Room(q, size) => /\ Len(r) = Len(q)
                       /\ \A i \in 1..(Len(r) - 1) : i + 1 \in 1..Len(q) /\ r[i] = q[i + 1]

\* What Put does, item by item.
LEMMA PutLemma ==
  ASSUME NEW S, NEW q \in Seq(S), NEW item \in S, NEW size \in Nat \ {0}, Len(q) <= size
  PROVE  Put(q, item, size) \in Seq(S) /\ IsPut(Put(q, item, size), q, item, size)
<1> DEFINE r == Put(q, item, size)
<1>1. CASE Room(q, size)
  <2>1. r = Append(q, item)
    BY <1>1 DEF Put
  <2> HIDE DEF r
  <2>2. /\ r \in Seq(S) /\ Len(r) = Len(q) + 1 /\ Len(q) \in Nat
        /\ r[Len(q) + 1] = item /\ \A i \in 1..Len(q) : r[i] = q[i]
    BY <2>1
  <2>3. Len(q) < size
    BY <1>1 DEF Room
  <2>4. r # <<>>
    BY <2>2
  <2>5. IsPut(r, q, item, size)
    BY <1>1, <2>2, <2>3, <2>4 DEF IsPut
  <2> QED BY <2>2, <2>5 DEF r
<1>2. CASE ~Room(q, size)
  <2> DEFINE t == Tail(q)
  <2>1. r = Append(t, item)
    BY <1>2 DEF Put
  <2>2. Len(q) = size /\ Len(q) \in Nat
    BY <1>2 DEF Room
  <2>3. q # <<>>
    BY <2>2
  <2>4. t \in Seq(S) /\ Len(t) = Len(q) - 1 /\ \A i \in 1..(Len(q) - 1) : t[i] = q[i + 1]
    BY <2>3
  <2> HIDE DEF r, t
  <2>5. /\ r \in Seq(S) /\ Len(r) = Len(t) + 1
        /\ r[Len(t) + 1] = item /\ \A i \in 1..Len(t) : r[i] = t[i]
    BY <2>1, <2>4
  <2>6. r # <<>>
    BY <2>5
  <2>7. IsPut(r, q, item, size)
    BY <1>2, <2>2, <2>4, <2>5, <2>6 DEF IsPut
  <2> QED BY <2>5, <2>7 DEF r
<1> QED BY <1>1, <1>2

\* The first item is taken off.
LEMMA TakeLemma ==
  ASSUME NEW S, NEW q \in Seq(S), q # <<>>
  PROVE  /\ Tail(q) \in Seq(S) /\ Len(Tail(q)) = Len(q) - 1 /\ Len(q) \in Nat \ {0}
         /\ Head(q) = q[1] /\ q[1] \in S
         /\ \A i \in 1..(Len(q) - 1) : Tail(q)[i] = q[i + 1]
OBVIOUS

\* Neighbours in a queue of events are neighbours in the stream; a resync (which
\* is larger than every event) stands between two that are not.
Chain(q) ==
  \A i \in 1..(Len(q) - 1) :
    q[i] <= MaxSequence /\ q[i + 1] <= MaxSequence => q[i + 1] = q[i] + 1

\* The next event follows the last one taken, or the consumer knows of a gap.
HeadFollows(q, last, warned) ==
  q # <<>> /\ q[1] <= MaxSequence /\ last # 0 /\ ~warned => q[1] = last + 1

Last(q) == q[Len(q)]

\* A put that follows the last item keeps the chain.
LEMMA ChainPut ==
  ASSUME NEW q \in Seq(0..Resync), NEW r, NEW item \in 1..Resync, NEW size \in Nat \ {0},
         IsPut(r, q, item, size), Chain(q),
         item = Resync \/ q = <<>> \/ Last(q) = Resync \/ item = Last(q) + 1
  PROVE  Chain(r)
<1> SUFFICES ASSUME NEW i \in 1..(Len(r) - 1), r[i] <= MaxSequence, r[i + 1] <= MaxSequence
             PROVE  r[i + 1] = r[i] + 1
  BY DEF Chain
<1>1. Len(r) \in Nat /\ i \in Nat /\ Len(q) \in Nat /\ MaxSequence \in Nat
      /\ Resync = MaxSequence + 1
  BY BoundsAssumption DEF IsPut, Resync
<1>2. CASE i = Len(r) - 1
  <2>1. r[i + 1] = item /\ item # Resync
    BY <1>1, <1>2 DEF IsPut
  <2>2. r[i] = Last(q) /\ Len(q) # 0
    BY <1>1, <1>2 DEF IsPut, Last
  <2>3. q # <<>>
    BY <2>2
  <2>4. Last(q) # Resync
    BY <1>1, <2>2
  <2> QED BY <2>1, <2>2, <2>3, <2>4
<1>3. CASE i # Len(r) - 1
  <2>1. i + 1 \in 1..(Len(r) - 1)
    BY <1>1, <1>3
  <2>2. CASE Room(q, size)
    <3>1. r[i] = q[i] /\ r[i + 1] = q[i + 1] /\ i \in 1..(Len(q) - 1)
      BY <1>1, <2>1, <2>2 DEF IsPut
    <3> QED BY <3>1 DEF Chain
  <2>3. CASE ~Room(q, size)
    <3>1. r[i] = q[i + 1] /\ r[i + 1] = q[(i + 1) + 1] /\ i + 1 \in 1..(Len(q) - 1)
      BY <1>1, <2>1, <2>3 DEF IsPut
    <3> QED BY <3>1 DEF Chain
  <2> QED BY <2>2, <2>3
<1> QED BY <1>2, <1>3

\* A put keeps the head in place, unless it drops it, which is a warning.
LEMMA HeadPut ==
  ASSUME NEW q \in Seq(0..Resync), NEW r, NEW item \in 1..Resync, NEW size \in Nat \ {0},
         IsPut(r, q, item, size), NEW last \in Nat, NEW before \in BOOLEAN, NEW after \in BOOLEAN,
         HeadFollows(q, last, before), before => after, ~Room(q, size) => after,
         item = Resync \/ q # <<>> \/ item = last + 1 \/ last = 0 \/ before
  PROVE  HeadFollows(r, last, after)
<1> SUFFICES ASSUME r[1] <= MaxSequence, last # 0, ~after PROVE r[1] = last + 1
  BY DEF HeadFollows
<1>1. Room(q, size) /\ ~before /\ Len(q) \in Nat /\ Len(r) = Len(q) + 1
  BY DEF IsPut
<1>2. MaxSequence \in Nat /\ Resync = MaxSequence + 1
  BY BoundsAssumption DEF Resync
<1>3. CASE q = <<>>
  <2>1. Len(q) = 0
    BY <1>3
  <2>2. r[1] = item
    BY <1>1, <2>1 DEF IsPut
  <2> QED BY <1>1, <1>2, <1>3, <2>2
<1>4. CASE q # <<>>
  <2>1. Len(q) # 0
    BY <1>4
  <2>2. r[1] = q[1]
    BY <1>1, <2>1 DEF IsPut
  <2> QED BY <1>1, <1>4, <2>2 DEF HeadFollows
<1> QED BY <1>3, <1>4

-----------------------------------------------------------------------------
(* Events: no gap is silent.                                                *)

Warned == noticed \/ dropped # droppedSeen

\* The last item of the queue, or the last one taken, is the event the session
\* compares the next with; without one the consumer knows of the gap.
EndMatches(q) ==
  IF previous # 0
  THEN IF q = <<>> THEN seen = previous ELSE Last(q) = previous
  ELSE IF q = <<>> THEN seen = 0 \/ noticed ELSE Last(q) = Resync

EventTypes ==
  /\ link \in {"down", "handshake", "live"}
  /\ reconnects \in 0..MaxReconnects
  /\ sequence \in 0..MaxSequence /\ previous \in 0..sequence /\ seen \in 0..MaxSequence
  /\ queue \in Seq(0..Resync) /\ Len(queue) <= QueueSize
  /\ dropped \in Nat /\ droppedSeen \in 0..dropped
  /\ ended \in BOOLEAN /\ noticed \in BOOLEAN

GapInv ==
  ~ended => /\ \A i \in 1..Len(queue) : queue[i] # END
            /\ Chain(queue)
            /\ HeadFollows(queue, seen, Warned)
            /\ EndMatches(queue)

EventInv == EventTypes /\ GapInv

\* What _push() adds: one item, or a resync and an event.
LEMMA PushLemma ==
  ASSUME dropped \in Nat
  PROVE  /\ \A a : Push(<<a>>) /\ ~ended =>
              /\ queue' = Put(queue, a, QueueSize)
              /\ dropped' = dropped + Lost(queue, QueueSize)
         /\ \A a, b : Push(<<a, b>>) /\ ~ended =>
              /\ queue' = Put(Put(queue, a, QueueSize), b, QueueSize)
              /\ dropped' = dropped + Lost(queue, QueueSize)
                                    + Lost(Put(queue, a, QueueSize), QueueSize)
         /\ \A a, b : ended /\ (Push(<<a>>) \/ Push(<<a, b>>)) =>
              queue' = queue /\ dropped' = dropped
<1>1. ASSUME NEW a, Push(<<a>>), ~ended
      PROVE  queue' = Put(queue, a, QueueSize) /\ dropped' = dropped + Lost(queue, QueueSize)
  <2>1. <<a>> # <<>> /\ Len(<<a>>) = 1 /\ <<a>>[1] = a
    OBVIOUS
  <2>2. queue' = Put(queue, a, QueueSize) /\ dropped' = dropped + Lost(queue, QueueSize) + 0
    BY <1>1, <2>1 DEF Push
  <2>3. Lost(queue, QueueSize) \in Nat
    BY DEF Lost
  <2> QED BY <2>2, <2>3
<1>2. ASSUME NEW a, NEW b, Push(<<a, b>>), ~ended
      PROVE  /\ queue' = Put(Put(queue, a, QueueSize), b, QueueSize)
             /\ dropped' = dropped + Lost(queue, QueueSize)
                             + Lost(Put(queue, a, QueueSize), QueueSize)
  <2>1. <<a, b>> # <<>> /\ Len(<<a, b>>) = 2 /\ <<a, b>>[1] = a /\ <<a, b>>[2] = b
    OBVIOUS
  <2> QED BY <1>2, <2>1 DEF Push
<1>3. ASSUME NEW a, NEW b, ended, Push(<<a>>) \/ Push(<<a, b>>)
      PROVE  queue' = queue /\ dropped' = dropped
  BY <1>3 DEF Push
<1> QED BY <1>1, <1>2, <1>3

\* The sound queues: no end, no silent gap inside or before the first item.
Sound(q, last, warned) ==
  /\ q \in Seq(0..Resync) /\ Len(q) <= QueueSize
  /\ \A i \in 1..Len(q) : q[i] # END
  /\ Chain(q) /\ HeadFollows(q, last, warned)

\* A put that follows what is queued, or taken, keeps the queue sound.
LEMMA SoundPut ==
  ASSUME NEW q, NEW item \in 1..Resync, NEW last \in Nat,
         NEW before \in BOOLEAN, NEW after \in BOOLEAN,
         Sound(q, last, before), before => after, ~Room(q, QueueSize) => after,
         \/ item = Resync
         \/ q # <<>> /\ (Last(q) = Resync \/ item = Last(q) + 1)
         \/ q = <<>> /\ (item = last + 1 \/ last = 0 \/ before)
  PROVE  /\ Sound(Put(q, item, QueueSize), last, after)
         /\ Put(q, item, QueueSize) # <<>> /\ Last(Put(q, item, QueueSize)) = item
<1> DEFINE r == Put(q, item, QueueSize)
<1>1. /\ q \in Seq(0..Resync) /\ Len(q) <= QueueSize /\ Chain(q)
      /\ HeadFollows(q, last, before) /\ \A i \in 1..Len(q) : q[i] # END
  BY DEF Sound
<1>2. item \in 0..Resync /\ item # END /\ QueueSize \in Nat \ {0}
  BY QueueAssumption, BoundsAssumption DEF Resync, END
<1>3. r \in Seq(0..Resync) /\ IsPut(r, q, item, QueueSize)
  BY <1>1, <1>2, PutLemma
<1> HIDE DEF r
<1>4. Chain(r)
  BY <1>1, <1>2, <1>3, ChainPut
<1>5. HeadFollows(r, last, after)
  BY <1>1, <1>2, <1>3, HeadPut
<1>6. /\ Len(r) \in Nat /\ Len(r) <= QueueSize /\ r # <<>> /\ Last(r) = item
  BY <1>3 DEF IsPut, Last
<1>7. ASSUME NEW i \in 1..Len(r)
      PROVE  r[i] # END
  <2>1. CASE i = Len(r)
    BY <1>2, <1>6, <2>1 DEF Last
  <2>2. CASE i # Len(r)
    <3>1. i \in 1..(Len(r) - 1)
      BY <1>6, <2>2
    <3> QED BY <1>1, <1>3, <3>1 DEF IsPut
  <2> QED BY <2>1, <2>2
<1>8. Sound(r, last, after)
  BY <1>3, <1>4, <1>5, <1>6, <1>7 DEF Sound
<1> QED BY <1>6, <1>8 DEF r

\* The events of a session that has not ended.
LEMMA GapIsSound == EventTypes => (GapInv <=> (~ended => Sound(queue, seen, Warned) /\ EndMatches(queue)))
BY DEF EventTypes, GapInv, Sound

\* An event is read.
LEMMA ReadKeeps ==
  ASSUME EventInv, NEW isUpdate \in BOOLEAN, EventRead(isUpdate)
  PROVE  EventInv'
<1> DEFINE n == sequence + 1
<1>1. /\ sequence' = n /\ previous' = n /\ Push(WithGap(n))
      /\ UNCHANGED <<link, reconnects, ended, seen, noticed, droppedSeen>>
      /\ sequence < MaxSequence
  BY DEF EventRead
<1>2. /\ n \in 1..MaxSequence /\ n \in 1..Resync /\ Resync \in 1..Resync /\ n # Resync
      /\ MaxSequence \in Nat /\ Resync \in Nat /\ previous \in Nat /\ seen \in Nat
      /\ n - 1 = previous => n = previous + 1
  BY <1>1, BoundsAssumption DEF EventInv, EventTypes, Resync
<1>3. dropped \in Nat /\ droppedSeen \in 0..dropped /\ Warned \in BOOLEAN
      /\ \A q, size : Lost(q, size) \in {0, 1} /\ (~Room(q, size) => Lost(q, size) = 1)
  BY DEF EventInv, EventTypes, Lost, Warned
<1> HIDE DEF n
<1>4. CASE ended
  <2>1. queue' = queue /\ dropped' = dropped
    BY <1>1, <1>3, <1>4, PushLemma DEF WithGap
  <2>2. previous' \in 0..sequence' /\ sequence' \in 0..MaxSequence
    BY <1>1, <1>2
  <2> QED BY <1>1, <1>4, <2>1, <2>2 DEF EventInv, EventTypes, GapInv
<1>5. CASE ~ended /\ previous \notin {0, n - 1}
  <2> DEFINE first == Put(queue, Resync, QueueSize)
             half == Warned \/ ~Room(queue, QueueSize)
  <2>1. /\ queue' = Put(first, n, QueueSize)
        /\ dropped' = dropped + Lost(queue, QueueSize) + Lost(first, QueueSize)
    BY <1>1, <1>3, <1>5, PushLemma DEF WithGap
  <2>2. Sound(queue, seen, Warned)
    BY <1>5, GapIsSound DEF EventInv
  <2> HIDE DEF first
  <2>3. /\ dropped' \in Nat /\ droppedSeen \in 0..dropped'
        /\ ~Room(queue, QueueSize) \/ ~Room(first, QueueSize) => dropped' # droppedSeen
        /\ dropped # droppedSeen => dropped' # droppedSeen
    BY <1>3, <2>1
  <2>4. Warned' \in BOOLEAN /\ (half \/ ~Room(first, QueueSize) => Warned') /\ half \in BOOLEAN
    BY <1>1, <2>3 DEF Warned
  <2>5. Sound(first, seen, half) /\ first # <<>> /\ Last(first) = Resync
    BY <1>2, <1>3, <2>2, <2>4, SoundPut DEF first
  <2> HIDE DEF half
  <2>6. Sound(queue', seen, Warned') /\ queue' # <<>> /\ Last(queue') = n
    BY <1>2, <2>1, <2>4, <2>5, SoundPut
  <2>7. EventTypes'
    BY <1>1, <1>2, <2>3, <2>6 DEF EventInv, EventTypes, Sound
  <2>8. EndMatches(queue)'
    BY <1>1, <1>2, <2>6 DEF EndMatches
  <2> QED BY <1>1, <2>6, <2>7, <2>8, GapIsSound DEF EventInv, GapInv, Sound
<1>6. CASE ~ended /\ previous \in {0, n - 1}
  <2>1. queue' = Put(queue, n, QueueSize) /\ dropped' = dropped + Lost(queue, QueueSize)
    BY <1>1, <1>3, <1>6, PushLemma DEF WithGap
  <2>2. Sound(queue, seen, Warned) /\ EndMatches(queue)
    BY <1>6, GapIsSound DEF EventInv
  <2>3. /\ dropped' \in Nat /\ droppedSeen \in 0..dropped'
        /\ ~Room(queue, QueueSize) => dropped' # droppedSeen
        /\ dropped # droppedSeen => dropped' # droppedSeen
    BY <1>3, <2>1
  <2>4. Warned' \in BOOLEAN /\ (Warned \/ ~Room(queue, QueueSize) => Warned')
    BY <1>1, <2>3 DEF Warned
  <2>5. \/ queue # <<>> /\ (Last(queue) = Resync \/ n = Last(queue) + 1)
        \/ queue = <<>> /\ (n = seen + 1 \/ seen = 0 \/ Warned)
    BY <1>2, <1>6, <2>2 DEF EndMatches, Warned
  <2>6. Sound(queue', seen, Warned') /\ queue' # <<>> /\ Last(queue') = n
    BY <1>2, <1>3, <2>1, <2>2, <2>4, <2>5, SoundPut
  <2>7. EventTypes'
    BY <1>1, <1>2, <2>3, <2>6 DEF EventInv, EventTypes, Sound
  <2>8. EndMatches(queue)'
    BY <1>1, <1>2, <2>6 DEF EndMatches
  <2> QED BY <1>1, <2>6, <2>7, <2>8, GapIsSound DEF EventInv, GapInv, Sound
<1> QED BY <1>4, <1>5, <1>6

\* A handshake has succeeded after the first: a resync is queued.
LEMMA ReconnectKeeps ==
  ASSUME EventInv, Reconnected
  PROVE  EventInv'
<1>1. /\ previous' = 0 /\ link' = "live" /\ Push(<<Resync>>) /\ reconnects' \in 0..MaxReconnects
      /\ UNCHANGED <<sequence, ended, seen, noticed, droppedSeen>>
  BY BoundsAssumption DEF Reconnected, EventInv, EventTypes
<1>2. /\ Resync \in 1..Resync /\ MaxSequence \in Nat /\ seen \in Nat /\ 0 \in 0..sequence
  BY BoundsAssumption DEF EventInv, EventTypes, Resync
<1>3. dropped \in Nat /\ droppedSeen \in 0..dropped /\ Warned \in BOOLEAN
      /\ \A q, size : Lost(q, size) \in {0, 1} /\ (~Room(q, size) => Lost(q, size) = 1)
  BY DEF EventInv, EventTypes, Lost, Warned
<1>4. CASE ended
  <2>1. queue' = queue /\ dropped' = dropped
    BY <1>1, <1>3, <1>4, PushLemma
  <2> QED BY <1>1, <1>2, <1>4, <2>1 DEF EventInv, EventTypes, GapInv
<1>5. CASE ~ended
  <2>1. queue' = Put(queue, Resync, QueueSize) /\ dropped' = dropped + Lost(queue, QueueSize)
    BY <1>1, <1>3, <1>5, PushLemma
  <2>2. Sound(queue, seen, Warned)
    BY <1>5, GapIsSound DEF EventInv
  <2>3. /\ dropped' \in Nat /\ droppedSeen \in 0..dropped'
        /\ ~Room(queue, QueueSize) => dropped' # droppedSeen
        /\ dropped # droppedSeen => dropped' # droppedSeen
    BY <1>3, <2>1
  <2>4. Warned' \in BOOLEAN /\ (Warned \/ ~Room(queue, QueueSize) => Warned')
    BY <1>1, <2>3 DEF Warned
  <2>5. Sound(queue', seen, Warned') /\ queue' # <<>> /\ Last(queue') = Resync
    BY <1>2, <1>3, <2>1, <2>2, <2>4, SoundPut
  <2>6. EventTypes'
    BY <1>1, <1>2, <2>3, <2>5 DEF EventInv, EventTypes, Sound
  <2>7. EndMatches(queue)'
    BY <1>1, <2>5 DEF EndMatches, Resync
  <2> QED BY <1>1, <2>5, <2>6, <2>7, GapIsSound DEF EventInv, GapInv, Sound
<1> QED BY <1>4, <1>5

\* The consumer takes an item: an event that follows the last, or comes with a
\* warning; or a resync, which is one.
LEMMA TakeKeeps ==
  ASSUME EventInv, Anext
  PROVE  EventInv'
<1> DEFINE rest == Tail(queue)
           e == queue[1]
<1>1. /\ queue # <<>> /\ queue \in Seq(0..Resync) /\ Len(queue) <= QueueSize
      /\ UNCHANGED <<link, reconnects, sequence, previous, dropped, ended>>
      /\ dropped \in Nat /\ droppedSeen \in 0..dropped /\ previous \in 0..sequence
  BY DEF Anext, EventInv, EventTypes
<1>2. /\ rest \in Seq(0..Resync) /\ Len(rest) = Len(queue) - 1 /\ Len(queue) \in Nat \ {0}
      /\ Head(queue) = e /\ e \in 0..Resync
      /\ \A i \in 1..(Len(queue) - 1) : rest[i] = queue[i + 1]
  BY <1>1, TakeLemma
<1>3. /\ queue' = rest
      /\ seen' = IF e \in 1..MaxSequence THEN e ELSE seen
      /\ noticed' = IF e \in 1..MaxSequence THEN FALSE ELSE noticed \/ e = Resync
      /\ droppedSeen' = IF e \in 1..MaxSequence THEN dropped ELSE droppedSeen
  BY <1>2 DEF Anext
<1>4. MaxSequence \in Nat /\ Resync = MaxSequence + 1
  BY BoundsAssumption DEF Resync
<1> HIDE DEF rest, e
<1>5. EventTypes'
  <2>1. seen' \in 0..MaxSequence /\ noticed' \in BOOLEAN /\ droppedSeen' \in 0..dropped
    <3>1. seen \in 0..MaxSequence /\ noticed \in BOOLEAN
      BY DEF EventInv, EventTypes
    <3>2. e \in 1..MaxSequence => e \in 0..MaxSequence
      BY <1>4
    <3>3. dropped \in 0..dropped
      BY <1>1
    <3> QED BY <1>1, <1>3, <3>1, <3>2, <3>3
  <2>2. Len(rest) <= QueueSize
    BY <1>1, <1>2, QueueAssumption
  <2> QED BY <1>1, <1>2, <1>3, <2>1, <2>2 DEF EventInv, EventTypes
<1>6. ASSUME ~ended
      PROVE  Sound(queue', seen', Warned') /\ EndMatches(queue)'
  <2>1. Sound(queue, seen, Warned) /\ EndMatches(queue)
    BY <1>6, GapIsSound DEF EventInv
  <2>2. e # END /\ e \in 1..Resync
    BY <1>2, <2>1 DEF Sound, e, END
  <2>3. \A i \in 1..Len(rest) : rest[i] # END
    BY <1>2, <2>1 DEF Sound
  <2>4. Chain(rest)
    <3> SUFFICES ASSUME NEW i \in 1..(Len(rest) - 1),
                        rest[i] <= MaxSequence, rest[i + 1] <= MaxSequence
                 PROVE  rest[i + 1] = rest[i] + 1
      BY DEF Chain
    <3>1. rest[i] = queue[i + 1] /\ rest[i + 1] = queue[(i + 1) + 1] /\ i + 1 \in 1..(Len(queue) - 1)
      BY <1>2
    <3> QED BY <2>1, <3>1 DEF Sound, Chain
  <2>5. e # Resync => HeadFollows(rest, e, Warned')
    <3> SUFFICES ASSUME e # Resync, rest # <<>>, rest[1] <= MaxSequence PROVE rest[1] = e + 1
      BY DEF HeadFollows
    <3>1. Len(rest) # 0
      BY <1>2
    <3>2. 1 \in 1..(Len(queue) - 1) /\ rest[1] = queue[1 + 1] /\ e <= MaxSequence
      BY <1>2, <1>4, <2>2, <3>1
    <3> QED BY <2>1, <3>2 DEF Sound, Chain, e
  <2>6. e \in 1..MaxSequence <=> e # Resync
    BY <1>4, <2>2
  <2>7. HeadFollows(rest, seen', Warned')
    <3>1. e = Resync => Warned'
      BY <1>3, <2>6 DEF Warned
    <3> QED BY <1>3, <2>5, <2>6, <3>1 DEF HeadFollows
  <2>8. EndMatches(queue)'
    <3>1. CASE rest = <<>>
      <4>1. Len(rest) = 0
        BY <3>1
      <4>2. Len(queue) = 1
        BY <1>2, <4>1
      <4>3. Last(queue) = e
        BY <4>2 DEF Last, e
      <4>4. /\ previous # 0 => previous = e
            /\ previous = 0 => e = Resync
        BY <1>1, <2>1, <4>3 DEF EndMatches
      <4>5. previous # Resync
        BY <1>1, <1>4 DEF EventInv, EventTypes
      <4>6. previous # 0 => seen' = previous
        BY <1>3, <2>6, <4>4, <4>5
      <4>7. previous = 0 => noticed'
        BY <1>3, <2>6, <4>4
      <4> QED BY <1>1, <1>3, <3>1, <4>6, <4>7 DEF EndMatches
    <3>2. CASE rest # <<>>
      <4>1. Len(rest) # 0
        BY <1>2, <3>2
      <4>2. Len(rest) \in 1..(Len(queue) - 1) /\ Len(rest) + 1 = Len(queue)
        BY <1>2, <4>1
      <4>3. Last(rest) = Last(queue)
        BY <1>2, <4>2 DEF Last
      <4> QED BY <1>1, <1>3, <2>1, <3>2, <4>3 DEF EndMatches
    <3> QED BY <3>1, <3>2
  <2> QED BY <1>2, <1>3, <1>5, <2>3, <2>4, <2>7, <2>8 DEF Sound, EventTypes
<1> QED BY <1>1, <1>5, <1>6, GapIsSound DEF EventInv, GapInv, Sound

\* close(): nothing is promised any more.
LEMMA CloseKeeps ==
  ASSUME EventInv, Close
  PROVE  EventInv'
<1>1. /\ ended' = TRUE /\ link' = "down" /\ queue' = Put(queue, END, QueueSize)
      /\ UNCHANGED <<reconnects, sequence, previous, dropped, seen, noticed, droppedSeen>>
  BY DEF Close
<1>2. END \in 0..Resync /\ QueueSize \in Nat \ {0}
  BY BoundsAssumption, QueueAssumption DEF END, Resync
<1>3. queue \in Seq(0..Resync) /\ Len(queue) <= QueueSize
  BY DEF EventInv, EventTypes
<1>4. queue' \in Seq(0..Resync) /\ Len(queue') <= QueueSize
  BY <1>1, <1>2, <1>3, PutLemma DEF IsPut
<1> QED BY <1>1, <1>4 DEF EventInv, EventTypes, GapInv

\* Every step keeps the events sound.
LEMMA NextEventInv == EventInv /\ [Next]_vars => EventInv'
<1> SUFFICES ASSUME EventInv, [Next]_vars PROVE EventInv'
  OBVIOUS
<1>1. ASSUME UNCHANGED <<queue, dropped, previous, seen, noticed, droppedSeen, ended>>,
             link' \in {"down", "handshake", "live"}, reconnects' = reconnects,
             sequence' \in sequence..MaxSequence
      PROVE  EventInv'
  <2>1. previous' \in 0..sequence' /\ sequence' \in 0..MaxSequence
    BY <1>1, BoundsAssumption DEF EventInv, EventTypes
  <2>2. GapInv' <=> GapInv
    BY <1>1 DEF GapInv, EndMatches, Warned, Chain, HeadFollows, Last
  <2> QED BY <1>1, <2>1, <2>2 DEF EventInv, EventTypes
<1>2. CASE EventMissed
  <2>1. sequence' \in sequence..MaxSequence
    BY <1>2, BoundsAssumption DEF EventMissed, EventInv, EventTypes
  <2> QED BY <1>1, <1>2, <2>1 DEF EventMissed, EventInv, EventTypes
<1>3. sequence \in sequence..MaxSequence /\ link \in {"down", "handshake", "live"}
  BY BoundsAssumption DEF EventInv, EventTypes
<1>4. CASE Redialed \/ ConnectionLost
  BY <1>1, <1>3, <1>4 DEF Redialed, ConnectionLost
<1>5. CASE UNCHANGED eventVars
  BY <1>1, <1>3, <1>5 DEF eventVars
<1>6. CASE \/ PlaceOrder \/ ServerAccepts \/ OrderAnswered \/ OrderUnanswered \/ PlaceReturns
           \/ PlaceTimesOut \/ CancelAttempt \/ CancelAnswered \/ CancelFails \/ CancelStops
  <2>1. UNCHANGED eventVars
    BY <1>6 DEF PlaceOrder, ServerAccepts, OrderAnswered, OrderUnanswered, PlaceReturns,
       PlaceTimesOut, CancelAttempt, CancelAnswered, CancelFails, CancelStops
  <2> QED BY <1>5, <2>1
<1>7. UNCHANGED vars => UNCHANGED eventVars
  BY DEF vars
<1> QED BY <1>2, <1>4, <1>5, <1>6, <1>7, ReadKeeps, ReconnectKeeps, TakeKeeps, CloseKeeps DEF Next

\* The initial state has neither events nor gaps.
LEMMA InitEventInv == Init => EventInv
<1> SUFFICES ASSUME Init PROVE EventInv
  OBVIOUS
<1>1. Len(queue) = 0 /\ queue \in Seq(0..Resync) /\ queue = <<>>
  BY DEF Init
<1>2. 1..Len(queue) = {} /\ 1..(Len(queue) - 1) = {} /\ Len(queue) <= QueueSize
  BY <1>1, QueueAssumption
<1>3. EventTypes
  <2>1. 0 \in 0..MaxReconnects /\ 0 \in 0..MaxSequence /\ 0 \in 0..0 /\ 0 \in Nat
    BY BoundsAssumption
  <2> QED BY <1>1, <1>2, <2>1 DEF Init, EventTypes
<1>4. GapInv
  BY <1>1, <1>2 DEF Init, GapInv, Chain, HeadFollows, EndMatches
<1> QED BY <1>3, <1>4 DEF EventInv

\* Between two events that are not neighbours the consumer takes a resync or
\* finds that dropped_events has grown, unless the session has ended: whatever
\* is lost, skipped or dropped, in the queue or with a connection.
THEOREM GapsAreNoticed == Spec => NoSilentGap
<1>1. ASSUME EventInv, [Next]_vars, seen' # seen, seen # 0, ~ended
      PROVE  seen' = seen + 1 \/ noticed \/ dropped # droppedSeen
  <2>1. Anext
    BY <1>1 DEF Next, vars, eventVars, EventMissed, EventRead, Redialed, Reconnected,
       ConnectionLost, Close, PlaceOrder, ServerAccepts, OrderAnswered, OrderUnanswered,
       PlaceReturns, PlaceTimesOut, CancelAttempt, CancelAnswered, CancelFails, CancelStops
  <2>2. queue # <<>> /\ seen' = Head(queue) /\ Head(queue) \in 1..MaxSequence
    BY <1>1, <2>1 DEF Anext
  <2>3. Head(queue) = queue[1]
    BY <2>2, TakeLemma DEF EventInv, EventTypes
  <2>4. HeadFollows(queue, seen, Warned)
    BY <1>1 DEF EventInv, GapInv
  <2> QED BY <1>1, <2>2, <2>3, <2>4, BoundsAssumption DEF HeadFollows, Warned
<1>2. EventInv /\ [Next]_vars =>
        [seen' # seen /\ seen # 0 /\ ~ended =>
           seen' = seen + 1 \/ noticed \/ dropped # droppedSeen]_vars
  BY <1>1
<1> QED BY <1>2, InitEventInv, NextEventInv, PTL DEF Spec, NoSilentGap

-----------------------------------------------------------------------------
(* place_order(): no update is missed.                                      *)

\* The waiter is there from before the order is sent until its update is
\* handled, and what has been read of the order has settled it.
PlaceInv ==
  /\ placing \in {"idle", "sent", "acked", "placed", "failed", "timed out"}
  /\ waiter \in {"none", "waiting", "matched", "rejected"}
  /\ accepted \in BOOLEAN /\ updated \in BOOLEAN
  /\ updated => accepted
  /\ placing = "idle" => ~accepted /\ waiter = "none"
  /\ placing \in {"sent", "acked"} => waiter # "none"
  /\ updated /\ placing \in {"sent", "acked"} => waiter # "waiting"

\* The invariant holds at first.
LEMMA InitPlaceInv == Init => PlaceInv
BY DEF Init, PlaceInv

\* Every step keeps it.
LEMMA NextPlaceInv == PlaceInv /\ [Next]_vars => PlaceInv'
<1> SUFFICES ASSUME PlaceInv, [Next]_vars PROVE PlaceInv'
  OBVIOUS
<1>1. CASE UNCHANGED placeVars
  BY <1>1 DEF placeVars, PlaceInv
<1>2. CASE \/ UNCHANGED vars \/ EventMissed \/ Redialed \/ Reconnected \/ Anext
           \/ CancelAttempt \/ CancelAnswered \/ CancelFails \/ CancelStops
  <2>1. UNCHANGED placeVars
    BY <1>2 DEF vars, EventMissed, Redialed, Reconnected, Anext, CancelAttempt, CancelAnswered,
       CancelFails, CancelStops
  <2> QED BY <1>1, <2>1
<1>3. ASSUME NEW isUpdate \in BOOLEAN, EventRead(isUpdate)
      PROVE  PlaceInv'
  BY <1>3 DEF EventRead, PlaceInv
<1>4. CASE ConnectionLost \/ Close
  <2>1. RejectPlacing /\ UNCHANGED <<accepted, updated>>
    BY <1>4 DEF ConnectionLost, Close
  <2> QED BY <2>1 DEF RejectPlacing, PlaceInv
<1>5. CASE PlaceOrder
  BY <1>5 DEF PlaceOrder, PlaceInv
<1>6. CASE ServerAccepts
  BY <1>6 DEF ServerAccepts, PlaceInv
<1>7. CASE OrderAnswered
  BY <1>7 DEF OrderAnswered, PlaceInv
<1>8. CASE OrderUnanswered
  BY <1>8 DEF OrderUnanswered, PlaceInv
<1>9. CASE PlaceReturns
  BY <1>9 DEF PlaceReturns, PlaceInv
<1>10. CASE PlaceTimesOut
  BY <1>10 DEF PlaceTimesOut, PlaceInv
<1> QED BY <1>2, <1>3, <1>4, <1>5, <1>6, <1>7, <1>8, <1>9, <1>10 DEF Next

\* place_order() does not time out on an order of which an update has been read,
\* even one that came before the answer to the order.
THEOREM UpdatesAreSeen == Spec => UpdateIsNotMissed
<1>1. ASSUME PlaceInv, [Next]_vars, placing # "timed out", placing' = "timed out"
      PROVE  ~updated
  <2>1. PlaceTimesOut
    BY <1>1 DEF Next, vars, placeVars, EventMissed, EventRead, Redialed, Reconnected,
       ConnectionLost, Close, RejectPlacing, Anext, PlaceOrder, ServerAccepts, OrderAnswered,
       OrderUnanswered, PlaceReturns, CancelAttempt, CancelAnswered, CancelFails, CancelStops
  <2> QED BY <1>1, <2>1 DEF PlaceTimesOut, PlaceInv
<1>2. PlaceInv /\ [Next]_vars => [placing # "timed out" /\ placing' = "timed out" => ~updated]_vars
  BY <1>1
<1> QED BY <1>2, InitPlaceInv, NextPlaceInv, PTL DEF Spec, UpdateIsNotMissed

-----------------------------------------------------------------------------
(* cancel_orders(): what it reports is what the server decided.             *)

\* Of the places of an attempt, each has a position in its answer.
LEMMA PositionLemma ==
  ASSUME remaining \subseteq Orders, NEW i \in remaining
  PROVE  Position(i) \in 1..Cardinality(remaining)
<1> DEFINE upTo == {j \in remaining : j <= i}
<1>1. IsFiniteSet(remaining) /\ Cardinality(remaining) \in Nat
  <2>1. OrderCount \in Nat /\ 1 \in Int
    BY BoundsAssumption
  <2>2. IsFiniteSet(Orders)
    BY <2>1, FS_Interval DEF Orders
  <2> QED BY <2>2, FS_Subset, FS_CardinalityType
<1>2. IsFiniteSet(upTo) /\ Cardinality(upTo) <= Cardinality(remaining)
  BY <1>1, FS_Subset
<1>3. i \in upTo
  BY DEF Orders
<1>4. Cardinality(upTo) \in Nat /\ Cardinality(upTo) # 0
  <2>1. upTo # {}
    BY <1>3
  <2> HIDE DEF upTo
  <2> QED BY <1>2, <2>1, FS_CardinalityType, FS_EmptySet
<1> QED BY <1>1, <1>2, <1>4 DEF Position

\* Until something fails, every result is the server's last decision; a failed
\* attempt leaves the places it asked for in doubt, and no others.
CancelInv ==
  /\ cancelling \in {"idle", "sent", "pause", "returned", "raised", "retryError"}
  /\ remaining \subseteq Orders /\ attempts \in 0..MaxAttempts
  /\ results \in [Orders -> Verdicts \cup {"none"}]
  /\ verdict \in [Orders -> Verdicts \cup {"none"}]
  /\ attempts = 0 => remaining = Orders
  /\ attempts > 0 => \A i \in Orders : results[i] # "none"
  /\ cancelling = "idle" => attempts = 0
  /\ cancelling \in {"idle", "sent", "pause"} => attempts < MaxAttempts
  /\ cancelling \in {"pause", "returned", "retryError"} => attempts > 0
  /\ attempts > 0 /\ cancelling \notin {"raised", "retryError"} =>
       \A i \in Orders : results[i] = verdict[i]
  /\ cancelling = "retryError" => \A i \in Orders \ remaining : results[i] = verdict[i]

\* The invariant holds at first.
LEMMA InitCancelInv == Init => CancelInv
<1>1. 0 \in 0..MaxAttempts /\ 0 < MaxAttempts
  BY BoundsAssumption
<1> QED BY <1>1 DEF Init, CancelInv

\* An attempt that gets no answer: the server may have decided on its places.
LEMMA RejectKeeps ==
  ASSUME CancelInv, RejectCancelling
  PROVE  CancelInv'
<1>1. CASE cancelling # "sent"
  <2>1. UNCHANGED cancelVars
    BY <1>1 DEF RejectCancelling
  <2> QED BY <2>1 DEF cancelVars, CancelInv
<1>2. CASE cancelling = "sent"
  <2>1. PICK acted \in [remaining -> Verdicts] :
          verdict' = [i \in Orders |-> IF i \in remaining THEN acted[i] ELSE verdict[i]]
    BY <1>2 DEF RejectCancelling
  <2>2. /\ cancelling' = AttemptFailed
        /\ remaining' = remaining /\ attempts' = attempts /\ results' = results
    BY <1>2 DEF RejectCancelling
  <2>3. /\ verdict' \in [Orders -> Verdicts \cup {"none"}]
        /\ \A i \in Orders \ remaining : verdict'[i] = verdict[i]
    BY <2>1 DEF CancelInv
  <2>4. attempts \in Nat /\ (attempts > 0 => \A i \in Orders : results[i] = verdict[i])
    BY <1>2 DEF CancelInv
  <2> QED BY <2>2, <2>3, <2>4 DEF CancelInv, AttemptFailed
<1> QED BY <1>1, <1>2

\* The answer to an attempt: each place gets its own result.
LEMMA AnswerKeeps ==
  ASSUME CancelInv, CancelAnswered
  PROVE  CancelInv'
<1>1. PICK answer \in [1..Cardinality(remaining) -> Verdicts] :
        results' = Stored(answer) /\ verdict' = Decided(answer, verdict)
  BY DEF CancelAnswered
<1>2. /\ remaining \subseteq Orders /\ attempts \in Nat /\ MaxAttempts \in Nat
      /\ attempts < MaxAttempts
      /\ results \in [Orders -> Verdicts \cup {"none"}]
      /\ verdict \in [Orders -> Verdicts \cup {"none"}]
  BY BoundsAssumption DEF CancelAnswered, CancelInv
<1>3. \A i \in remaining : answer[Position(i)] \in Verdicts
  BY <1>2, PositionLemma
<1>4. /\ results' = [i \in Orders |-> IF i \in remaining THEN answer[Position(i)] ELSE results[i]]
      /\ verdict' = [i \in Orders |-> IF i \in remaining THEN answer[Position(i)] ELSE verdict[i]]
  BY <1>1 DEF Stored, Decided
<1>5. /\ results' \in [Orders -> Verdicts \cup {"none"}]
      /\ verdict' \in [Orders -> Verdicts \cup {"none"}]
  BY <1>2, <1>3, <1>4
<1>6. \A i \in Orders : results'[i] # "none" /\ results'[i] = verdict'[i]
  <2> SUFFICES ASSUME NEW i \in Orders PROVE results'[i] # "none" /\ results'[i] = verdict'[i]
    OBVIOUS
  <2>1. CASE i \in remaining
    BY <1>3, <1>4, <2>1 DEF Verdicts
  <2>2. CASE i \notin remaining
    <3>1. attempts > 0
      BY <1>2, <2>2 DEF CancelInv
    <3>2. results[i] # "none" /\ results[i] = verdict[i]
      BY <3>1 DEF CancelInv, CancelAnswered
    <3> QED BY <1>4, <2>2, <3>2
  <2> QED BY <2>1, <2>2
<1>7. /\ attempts' = attempts + 1 /\ remaining' = Retryable(results')
      /\ cancelling' = IF remaining' = {} THEN "returned" ELSE "pause"
  BY DEF CancelAnswered
<1>8. /\ remaining' \subseteq remaining /\ (remaining' # {} => attempts' < MaxAttempts)
  BY <1>7 DEF Retryable
<1>9. attempts' \in 0..MaxAttempts /\ attempts' > 0
  BY <1>2, <1>7
<1> QED BY <1>2, <1>5, <1>6, <1>7, <1>8, <1>9 DEF CancelInv

\* Every step keeps the invariant.
LEMMA NextCancelInv == CancelInv /\ [Next]_vars => CancelInv'
<1> SUFFICES ASSUME CancelInv, [Next]_vars PROVE CancelInv'
  OBVIOUS
<1>1. CASE \/ UNCHANGED vars \/ EventMissed \/ (\E isUpdate \in BOOLEAN : EventRead(isUpdate))
           \/ Redialed \/ Reconnected \/ Anext \/ PlaceOrder \/ ServerAccepts \/ OrderAnswered
           \/ OrderUnanswered \/ PlaceReturns \/ PlaceTimesOut
  <2>1. UNCHANGED cancelVars
    BY <1>1 DEF vars, EventMissed, EventRead, Redialed, Reconnected, Anext, PlaceOrder,
       ServerAccepts, OrderAnswered, OrderUnanswered, PlaceReturns, PlaceTimesOut
  <2> QED BY <2>1 DEF cancelVars, CancelInv
<1>2. CASE ConnectionLost \/ Close \/ CancelFails
  BY <1>2, RejectKeeps DEF ConnectionLost, Close, CancelFails
<1>3. CASE CancelAttempt
  BY <1>3 DEF CancelAttempt, AttemptFailed, CancelInv
<1>4. CASE CancelStops
  BY <1>4 DEF CancelStops, CancelInv
<1> QED BY <1>1, <1>2, <1>3, <1>4, AnswerKeeps DEF Next

\* A report has a result for every place, and it is the server's last decision
\* on it, the places the error names as uncertain apart; whatever attempt
\* failed, and however few of the places it had asked for.
THEOREM CancelReportsTruth == Spec => []CancelReportIsTruthful
<1>1. CancelInv => CancelReportIsTruthful
  BY DEF CancelInv, CancelReportIsTruthful
<1> QED BY <1>1, InitCancelInv, NextCancelInv, PTL DEF Spec

\* Every variable has its type.
THEOREM TypeCorrect == Spec => []TypeOK
<1>1. EventInv /\ PlaceInv /\ CancelInv => TypeOK
  <2>1. EventInv => /\ previous \in 0..MaxSequence /\ droppedSeen \in Nat
    BY BoundsAssumption DEF EventInv, EventTypes
  <2> QED BY <2>1 DEF EventInv, EventTypes, PlaceInv, CancelInv, TypeOK
<1> QED BY <1>1, InitEventInv, NextEventInv, InitPlaceInv, NextPlaceInv, InitCancelInv,
        NextCancelInv, PTL DEF Spec

================================================================================
