---------------------- MODULE SubscriptionHandle_proofs ----------------------
(***************************************************************************)
(* Proofs about SubscriptionHandle, for every capacity and every number of  *)
(* events.                                                                  *)
(***************************************************************************)
EXTENDS SubscriptionHandle, Integers, TLAPS

-----------------------------------------------------------------------------
(* The inductive invariant.                                                 *)

\* Where a handle stands: what was delivered precedes what is queued, and an
\* iteration that ended did so on an ended handle with no event left, with
\* the outcome the first _end fixed.
Settled ==
  /\ last <= sent - Buffered(queue)
  /\ outcome # "none" =>
       /\ over
       /\ Buffered(queue) = 0
       /\ outcome = IF endError = "error" THEN "error" ELSE "stop"

IInv ==
  /\ TypeOK
  /\ QueueBounded
  /\ QueueIsNewest
  /\ EveryEventAccounted
  /\ NeverStuckAfterEnd
  /\ Settled

\* The sentinel is the last item or absent, and the other items are events.
LEMMA BufferedLemma ==
  ASSUME TypeOK, QueueIsNewest, EveryEventAccounted
  PROVE  /\ Buffered(queue) \in Nat
         /\ Buffered(queue) <= Len(queue)
         /\ Buffered(queue) <= sent
         /\ EndQueued(queue) \in BOOLEAN
         /\ EndQueued(queue) => Len(queue) = Buffered(queue) + 1 /\ over
         /\ ~EndQueued(queue) => Len(queue) = Buffered(queue)
         /\ \A i \in 1..Buffered(queue) : queue[i] = sent - Buffered(queue) + i
<1>1. queue \in Seq(0..MaxEvents) /\ Len(queue) \in Nat
  BY DEF TypeOK
<1>2. Buffered(queue) \in Nat /\ Buffered(queue) <= Len(queue)
  BY <1>1 DEF Buffered, EndQueued
<1>3. EndQueued(queue) => Len(queue) = Buffered(queue) + 1
  BY <1>1 DEF Buffered, EndQueued
<1>4. ~EndQueued(queue) => Len(queue) = Buffered(queue)
  BY <1>1 DEF Buffered, EndQueued
<1>5. Buffered(queue) <= sent
  BY <1>2 DEF TypeOK, EveryEventAccounted
<1>6. ASSUME NEW i \in 1..Buffered(queue)
      PROVE  queue[i] = sent - Buffered(queue) + i
  <2>1. i \in 1..Len(queue)
    BY <1>1, <1>2
  <2>2. CASE queue[i] = END /\ i = Len(queue)
    <3>1. EndQueued(queue)
      BY <1>1, <2>1, <2>2 DEF EndQueued
    <3> QED BY <1>1, <1>2, <1>3, <2>2, <3>1
  <2> QED BY <2>1, <2>2 DEF QueueIsNewest
<1>7. EndQueued(queue) => over
  <2>1. SUFFICES ASSUME EndQueued(queue) PROVE over
    OBVIOUS
  <2>2. Len(queue) \in 1..Len(queue) /\ queue[Len(queue)] = END
    BY <1>1, <2>1 DEF EndQueued
  <2>3. sent \in Nat /\ sent - Buffered(queue) + Len(queue) # 0
    BY <1>1, <1>2, <1>3, <1>5, <2>1 DEF TypeOK
  <2> QED BY <2>2, <2>3 DEF QueueIsNewest, END
<1> QED BY <1>2, <1>3, <1>4, <1>5, <1>6, <1>7 DEF EndQueued


\* The sentinel decides what of a queue is events.
LEMMA EndQueuedLemma ==
  ASSUME NEW max \in Nat, NEW q \in Seq(0..max), Len(q) > 0
  PROVE  Buffered(q) = IF q[Len(q)] = END THEN Len(q) - 1 ELSE Len(q)
BY DEF Buffered, EndQueued

\* The inductive invariant holds of a new handle.
LEMMA InitIInv == Init => IInv
<1> SUFFICES ASSUME Init PROVE IInv
  OBVIOUS
<1>1. queue = <<>> /\ Len(queue) = 0 /\ queue \in Seq(0..MaxEvents)
  BY DEF Init
<1>2. Buffered(queue) = 0
  BY <1>1 DEF Buffered, EndQueued
<1>3. TypeOK
  <2>1. 0 \in 0..MaxEvents /\ 0 \in Nat
    BY SizeAssumption
  <2> QED BY <1>1, <2>1 DEF Init, TypeOK
<1>4. QueueBounded /\ QueueIsNewest /\ EveryEventAccounted
  BY <1>1, <1>2, SizeAssumption DEF Init, QueueBounded, QueueIsNewest,
     EveryEventAccounted
<1>5. NeverStuckAfterEnd /\ Settled
  BY <1>2 DEF Init, NeverStuckAfterEnd, Settled
<1> QED BY <1>3, <1>4, <1>5 DEF IInv

\* What the invariant says about the numbers of a state.
Counts ==
  /\ Len(queue) \in Nat
  /\ Len(queue) <= QueueSize
  /\ Buffered(queue) \in Nat
  /\ sent \in Nat /\ last \in Nat
  /\ dropped \in Nat /\ delivered \in Nat /\ discarded \in Nat
  /\ sent = delivered + dropped + discarded + Buffered(queue)

\* The counters are numbers that add up, without the queue in sight.
LEMMA CountsLemma == IInv => Counts
<1> SUFFICES ASSUME IInv PROVE Counts
  OBVIOUS
<1>1. Buffered(queue) \in Nat
  BY BufferedLemma DEF IInv
<1> QED BY <1>1, SizeAssumption DEF IInv, Counts, TypeOK, QueueBounded,
     EveryEventAccounted

\* r is q with item put at its end and lost items dropped at its head.
IsPut(S, q, r, lost, item, size) ==
  /\ r \in Seq(S)
  /\ lost \in 0..1
  /\ Len(r) = Len(q) + 1 - lost
  /\ Len(r) \in 1..size
  /\ r[Len(r)] = item
  /\ \A i \in 1..(Len(r) - 1) : r[i] = q[i + lost]

\* What a put does to a queue that keeps its bound.
LEMMA PutLemma ==
  ASSUME NEW S, NEW q \in Seq(S), NEW item \in S, NEW size \in Nat \ {0}, Len(q) <= size
  PROVE  IsPut(S, q, Put(q, item, size), Lost(q, size), item, size)
<1> DEFINE r == Put(q, item, size)
<1>1. CASE Len(q) < size
  <2>1. r = Append(q, item) /\ Lost(q, size) = 0
    BY <1>1 DEF Put, Lost, Room
  <2> HIDE DEF r
  <2>2. r \in Seq(S) /\ Len(r) = Len(q) + 1 /\ Len(q) \in Nat
    BY <2>1
  <2>3. r[Len(r)] = item /\ \A i \in 1..Len(q) : r[i] = q[i]
    BY <2>1
  <2>4. Len(r) \in 1..size /\ Len(r) - 1 = Len(q) /\ Len(r) = Len(q) + 1 - 0
    BY <1>1, <2>2
  <2>5. \A i \in 1..(Len(r) - 1) : r[i] = q[i + 0]
    BY <2>3, <2>4
  <2> QED BY <2>1, <2>2, <2>3, <2>4, <2>5 DEF IsPut, r
<1>2. CASE ~(Len(q) < size)
  <2>1. r = Append(Tail(q), item) /\ Lost(q, size) = 1
    BY <1>2 DEF Put, Lost, Room
  <2>2. Len(q) = size /\ q # <<>> /\ Len(q) \in Nat \ {0}
    BY <1>2
  <2>3. /\ Tail(q) \in Seq(S) /\ Len(Tail(q)) = Len(q) - 1
        /\ \A i \in 1..(Len(q) - 1) : Tail(q)[i] = q[i + 1]
    BY <2>2
  <2> HIDE DEF r
  <2>4. r \in Seq(S) /\ Len(r) = Len(Tail(q)) + 1 /\ r[Len(r)] = item
    BY <2>1, <2>3
  <2>5. \A i \in 1..Len(Tail(q)) : r[i] = Tail(q)[i]
    BY <2>1, <2>3
  <2>6. Len(r) = Len(q) + 1 - 1 /\ Len(r) \in 1..size /\ Len(r) - 1 = Len(Tail(q))
    BY <2>2, <2>3, <2>4
  <2>7. \A i \in 1..(Len(r) - 1) : r[i] = q[i + 1]
    BY <2>2, <2>3, <2>5, <2>6
  <2> QED BY <2>1, <2>4, <2>6, <2>7 DEF IsPut, r
<1> QED BY <1>1, <1>2

\* Putting into the queue of a handle that has not ended, where every item is
\* an event: Lost events leave at the front and the item is appended.
LEMMA PutInQueue ==
  ASSUME IInv, ~over, NEW item \in 0..MaxEvents, NEW q, q = Put(queue, item, QueueSize)
  PROVE  /\ outcome = "none"
         /\ Len(queue) = Buffered(queue)
         /\ Lost(queue, QueueSize) \in 0..1
         /\ q \in Seq(0..MaxEvents)
         /\ Len(q) \in 1..QueueSize
         /\ Len(q) = Buffered(queue) + 1 - Lost(queue, QueueSize)
         /\ Buffered(q) = IF item = END THEN Len(q) - 1 ELSE Len(q)
         /\ q[Len(q)] = item
         /\ \A i \in 1..(Len(q) - 1) : q[i] = sent + 1 - Len(q) + i
<1> DEFINE lost == Lost(queue, QueueSize)
<1>1. Counts
  BY CountsLemma
<1>2. Len(queue) = Buffered(queue)
  BY BufferedLemma DEF IInv
<1>3. outcome = "none"
  BY DEF IInv, Settled
<1>4. /\ queue \in Seq(0..MaxEvents) /\ QueueSize \in Nat \ {0} /\ MaxEvents \in Nat
      /\ Len(queue) <= QueueSize
  BY SizeAssumption DEF IInv, TypeOK, QueueBounded
<1>5. IsPut(0..MaxEvents, queue, q, lost, item, QueueSize)
  BY <1>4, PutLemma
<1> HIDE DEF lost
<1>6. /\ q \in Seq(0..MaxEvents) /\ lost \in 0..1 /\ Len(q) \in 1..QueueSize
      /\ Len(q) = Len(queue) + 1 - lost /\ q[Len(q)] = item
  BY <1>5 DEF IsPut
<1>7. Buffered(q) = IF item = END THEN Len(q) - 1 ELSE Len(q)
  <2>1. Len(q) > 0
    BY <1>6
  <2> QED BY <1>4, <1>6, <2>1, EndQueuedLemma
<1>8. ASSUME NEW i \in 1..(Len(q) - 1)
      PROVE  q[i] = sent + 1 - Len(q) + i
  <2>1. /\ Len(queue) \in Nat /\ Len(q) \in Nat /\ lost \in 0..1 /\ sent \in Nat
        /\ Buffered(queue) \in Nat /\ Len(q) = Buffered(queue) + 1 - lost
    BY <1>1, <1>2, <1>6 DEF Counts
  <2>2. i + lost \in 1..Buffered(queue)
    BY <2>1
  <2>3. queue[i + lost] = sent - Buffered(queue) + (i + lost)
    BY <2>2, BufferedLemma DEF IInv
  <2>4. q[i] = queue[i + lost]
    BY <1>5 DEF IsPut
  <2>5. sent - Buffered(queue) + (i + lost) = sent + 1 - Len(q) + i
    BY <2>1
  <2> QED BY <2>3, <2>4, <2>5
<1> QED BY <1>2, <1>3, <1>6, <1>7, <1>8 DEF lost

\* _push preserves the inductive invariant (handle.py:62-79).
LEMMA PushIInv ==
  ASSUME IInv, Push
  PROVE  IInv'
<1>1. /\ ~over /\ sent < MaxEvents /\ sent' = sent + 1
      /\ queue' = Put(queue, sent + 1, QueueSize)
      /\ dropped' = dropped + Lost(queue, QueueSize)
      /\ UNCHANGED <<over, endError, closing, consumer, outcome, last, delivered,
                     discarded>>
  BY DEF Push
<1>2. Counts
  BY CountsLemma
<1>3. sent + 1 \in 0..MaxEvents /\ sent + 1 # END
  BY <1>1, <1>2, SizeAssumption DEF END, Counts
<1> DEFINE item == sent + 1
<1>4. /\ outcome = "none"
      /\ Lost(queue, QueueSize) \in 0..1
      /\ queue' \in Seq(0..MaxEvents)
      /\ Len(queue') \in 1..QueueSize
      /\ Len(queue') = Buffered(queue) + 1 - Lost(queue, QueueSize)
      /\ Buffered(queue)' = Len(queue')
      /\ queue'[Len(queue')] = sent + 1
      /\ \A i \in 1..(Len(queue') - 1) : queue'[i] = sent + 1 - Len(queue') + i
  <2>1. queue' = Put(queue, item, QueueSize) /\ item \in 0..MaxEvents /\ item # END /\ ~over
    BY <1>1, <1>3
  <2>2. item = sent + 1
    OBVIOUS
  <2> HIDE DEF item
  <2>3. /\ outcome = "none"
        /\ Lost(queue, QueueSize) \in 0..1
        /\ queue' \in Seq(0..MaxEvents)
        /\ Len(queue') \in 1..QueueSize
        /\ Len(queue') = Buffered(queue) + 1 - Lost(queue, QueueSize)
        /\ Buffered(queue') = IF item = END THEN Len(queue') - 1 ELSE Len(queue')
        /\ queue'[Len(queue')] = item
        /\ \A i \in 1..(Len(queue') - 1) : queue'[i] = sent + 1 - Len(queue') + i
    BY <2>1, PutInQueue
  <2> QED BY <2>1, <2>2, <2>3
<1> HIDE DEF item
<1>5. /\ Lost(queue, QueueSize) \in 0..1
      /\ Len(queue') \in Nat /\ Buffered(queue) \in Nat
      /\ Len(queue') = Buffered(queue) + 1 - Lost(queue, QueueSize)
  BY <1>2, <1>4 DEF Counts
<1>6. /\ sent \in Nat /\ last \in Nat
      /\ dropped \in Nat /\ delivered \in Nat /\ discarded \in Nat
      /\ sent = delivered + dropped + discarded + Buffered(queue)
  BY <1>2 DEF Counts
<1>7. TypeOK'
  BY <1>1, <1>2, <1>3, <1>4 DEF IInv, TypeOK, Counts
<1>8. QueueBounded'
  BY <1>4, SizeAssumption DEF QueueBounded
<1>9. QueueIsNewest'
  <2>1. ASSUME NEW i \in 1..Len(queue')
        PROVE  queue'[i] = sent' - Len(queue') + i
    <3>1. sent' = sent + 1
      BY <1>1
    <3>2. CASE i = Len(queue')
      <4>1. queue'[i] = sent + 1
        BY <1>4, <3>2
      <4> QED BY <1>5, <1>6, <3>1, <3>2, <4>1
    <3>3. CASE i # Len(queue')
      <4>1. i \in 1..(Len(queue') - 1)
        BY <1>5, <3>3
      <4>2. queue'[i] = sent + 1 - Len(queue') + i
        BY <1>4, <4>1
      <4> QED BY <1>5, <1>6, <3>1, <4>2
    <3> QED BY <3>2, <3>3
  <2>2. Buffered(queue)' = Len(queue')
    BY <1>4
  <2> QED BY <2>1, <2>2 DEF QueueIsNewest
<1>10. EveryEventAccounted'
  <2>1. sent' = sent + 1 /\ delivered' = delivered /\ discarded' = discarded
    BY <1>1
  <2>2. dropped' = dropped + Lost(queue, QueueSize) /\ Buffered(queue)' = Len(queue')
    BY <1>1, <1>4
  <2>3. Lost(queue, QueueSize) \in {0, 1}
    BY <1>5
  <2>4. sent + 1 = delivered + (dropped + Lost(queue, QueueSize)) + discarded + Len(queue')
    BY <1>5, <1>6, <2>3
  <2> QED BY <2>1, <2>2, <2>4 DEF EveryEventAccounted
<1>11. NeverStuckAfterEnd'
  BY <1>1 DEF NeverStuckAfterEnd
<1>12. Settled'
  <2>1. last <= sent - Buffered(queue)
    BY DEF IInv, Settled
  <2>2. sent' = sent + 1 /\ last' = last /\ outcome' = "none"
    BY <1>1, <1>4
  <2>3. Buffered(queue)' = Len(queue')
    BY <1>4
  <2>4. last' <= sent' - Buffered(queue)'
    BY <1>5, <1>6, <2>1, <2>2, <2>3
  <2> QED BY <2>2, <2>4 DEF Settled
<1> QED BY <1>7, <1>8, <1>9, <1>10, <1>11, <1>12 DEF IInv

\* The first _end preserves the inductive invariant (handle.py:81-103).
LEMMA EndIInv ==
  ASSUME IInv, NEW error \in {"none", "error"}, End(error)
  PROVE  IInv'
<1>1. /\ ~over /\ over' = TRUE /\ endError' = error
      /\ queue' = Put(queue, END, QueueSize)
      /\ dropped' = dropped + Lost(queue, QueueSize)
      /\ UNCHANGED <<closing, consumer, outcome, sent, last, delivered, discarded>>
  BY DEF End
<1>2. Counts
  BY CountsLemma
<1>3. END \in 0..MaxEvents
  BY SizeAssumption DEF END
<1>4. /\ outcome = "none"
      /\ Lost(queue, QueueSize) \in 0..1
      /\ queue' \in Seq(0..MaxEvents)
      /\ Len(queue') \in 1..QueueSize
      /\ Len(queue') = Buffered(queue) + 1 - Lost(queue, QueueSize)
      /\ Buffered(queue)' = Len(queue') - 1
      /\ queue'[Len(queue')] = END
      /\ \A i \in 1..(Len(queue') - 1) : queue'[i] = sent + 1 - Len(queue') + i
  BY <1>1, <1>3, PutInQueue
<1>5. /\ Lost(queue, QueueSize) \in 0..1
      /\ Len(queue') \in Nat /\ Buffered(queue) \in Nat
      /\ Len(queue') = Buffered(queue) + 1 - Lost(queue, QueueSize)
  BY <1>2, <1>4 DEF Counts
<1>6. /\ sent \in Nat /\ last \in Nat
      /\ dropped \in Nat /\ delivered \in Nat /\ discarded \in Nat
      /\ sent = delivered + dropped + discarded + Buffered(queue)
  BY <1>2 DEF Counts
<1>7. TypeOK'
  BY <1>1, <1>2, <1>4 DEF IInv, TypeOK, Counts
<1>8. QueueBounded'
  BY <1>4, SizeAssumption DEF QueueBounded
<1>9. QueueIsNewest'
  <2>1. sent' = sent /\ over' /\ Buffered(queue)' = Len(queue') - 1
    BY <1>1, <1>4
  <2>2. ASSUME NEW i \in 1..Len(queue'), i # Len(queue')
        PROVE  queue'[i] = sent' - (Len(queue') - 1) + i /\ i <= Len(queue') - 1
    <3>1. i \in 1..(Len(queue') - 1)
      BY <1>5, <2>2
    <3>2. queue'[i] = sent + 1 - Len(queue') + i
      BY <1>4, <3>1
    <3> QED BY <1>5, <1>6, <2>1, <3>1, <3>2
  <2> QED BY <1>4, <2>1, <2>2 DEF QueueIsNewest
<1>10. EveryEventAccounted'
  <2>1. sent' = sent /\ delivered' = delivered /\ discarded' = discarded
    BY <1>1
  <2>2. dropped' = dropped + Lost(queue, QueueSize) /\ Buffered(queue)' = Len(queue') - 1
    BY <1>1, <1>4
  <2>3. Lost(queue, QueueSize) \in {0, 1}
    BY <1>5
  <2>4. sent = delivered + (dropped + Lost(queue, QueueSize)) + discarded + (Len(queue') - 1)
    BY <1>5, <1>6, <2>3
  <2> QED BY <2>1, <2>2, <2>4 DEF EveryEventAccounted
<1>11. NeverStuckAfterEnd'
  BY <1>4 DEF NeverStuckAfterEnd
<1>12. Settled'
  <2>1. last <= sent - Buffered(queue)
    BY DEF IInv, Settled
  <2>2. sent' = sent /\ last' = last /\ outcome' = "none"
    BY <1>1, <1>4
  <2>3. Buffered(queue)' = Len(queue') - 1
    BY <1>4
  <2>4. last' <= sent' - Buffered(queue)'
    BY <1>5, <1>6, <2>1, <2>2, <2>3
  <2> QED BY <2>2, <2>4 DEF Settled
<1> QED BY <1>7, <1>8, <1>9, <1>10, <1>11, <1>12 DEF IInv

\* close() preserves the inductive invariant (handle.py:125-132).
LEMMA CloseEndsIInv ==
  ASSUME IInv, CloseEnds
  PROVE  IInv'
<1>1. /\ over' = TRUE /\ closing' = "done" /\ queue' = <<END>>
      /\ discarded' = discarded + Buffered(queue)
      /\ UNCHANGED <<endError, dropped, consumer, outcome, sent, last, delivered>>
  BY DEF CloseEnds
<1>2. Counts
  BY CountsLemma
<1>3. queue' \in Seq(0..MaxEvents) /\ Len(queue') = 1 /\ queue'[1] = END
  BY <1>1, SizeAssumption DEF END
<1>4. Buffered(queue)' = 0
  BY <1>3 DEF Buffered, EndQueued
<1>5. TypeOK'
  BY <1>1, <1>2, <1>3 DEF IInv, TypeOK, Counts
<1>6. QueueBounded' /\ QueueIsNewest' /\ NeverStuckAfterEnd'
  BY <1>1, <1>3, SizeAssumption DEF QueueBounded, QueueIsNewest, NeverStuckAfterEnd
<1>7. EveryEventAccounted'
  BY <1>1, <1>2, <1>4 DEF EveryEventAccounted, Counts
<1>8. Settled'
  BY <1>1, <1>2, <1>4 DEF IInv, Settled, Counts
<1> QED BY <1>5, <1>6, <1>7, <1>8 DEF IInv

\* __anext__ preserves it up to its first await (handle.py:108-112).
LEMMA AnextIInv ==
  ASSUME IInv, Anext
  PROVE  IInv'
<1>1. UNCHANGED <<queue, over, endError, dropped, closing, sent, last, delivered,
                  discarded>>
  BY DEF Anext
<1>2. Buffered(queue)' = Buffered(queue)
  BY <1>1
<1>3. TypeOK'
  BY <1>1 DEF IInv, Anext, Raise, TypeOK
<1>4. QueueBounded' /\ QueueIsNewest' /\ EveryEventAccounted'
  BY <1>1 DEF IInv, QueueBounded, QueueIsNewest, EveryEventAccounted
<1>5. NeverStuckAfterEnd'
  BY <1>1 DEF IInv, Anext, NeverStuckAfterEnd
<1>6. Settled'
  <2>1. CASE over /\ queue = <<>>
    <3>1. Buffered(queue) = 0
      BY <2>1 DEF Buffered, EndQueued
    <3> QED BY <1>1, <1>2, <2>1, <3>1 DEF IInv, Anext, Raise, Settled
  <2>2. CASE ~(over /\ queue = <<>>)
    BY <1>1, <1>2, <2>2 DEF IInv, Anext, Settled
  <2> QED BY <2>1, <2>2
<1> QED BY <1>3, <1>4, <1>5, <1>6 DEF IInv

\* __anext__ preserves it when queue.get() returns (handle.py:113-118).
LEMMA GetIInv ==
  ASSUME IInv, Get
  PROVE  IInv'
<1>1. /\ queue # <<>> /\ queue' = Tail(queue) /\ consumer' = "idle"
      /\ UNCHANGED <<over, endError, dropped, closing, sent, discarded>>
  BY DEF Get
<1>2. Counts
  BY CountsLemma
<1>3. queue \in Seq(0..MaxEvents) /\ QueueSize \in Nat /\ Len(queue) <= QueueSize
  BY SizeAssumption DEF IInv, TypeOK, QueueBounded
<1>4. /\ queue' \in Seq(0..MaxEvents)
      /\ Len(queue) > 0
      /\ Len(queue') = Len(queue) - 1
      /\ Head(queue) = queue[1]
      /\ \A i \in 1..Len(queue') : queue'[i] = queue[i + 1]
  BY <1>1, <1>3
<1>5. QueueBounded' /\ NeverStuckAfterEnd'
  BY <1>1, <1>2, <1>3, <1>4 DEF QueueBounded, NeverStuckAfterEnd, Counts
<1>6. /\ EndQueued(queue) => Len(queue) = Buffered(queue) + 1 /\ over
      /\ ~EndQueued(queue) => Len(queue) = Buffered(queue)
      /\ Buffered(queue) <= sent
  BY BufferedLemma DEF IInv
<1>7. Buffered(queue) # 0 => Head(queue) = sent - Buffered(queue) + 1
  BY <1>2, <1>4, BufferedLemma DEF IInv, Counts
<1>8. CASE Head(queue) = END
  <2>1. Raise /\ UNCHANGED <<last, delivered>>
    BY <1>8 DEF Get
  <2>2. Buffered(queue) = 0
    BY <1>2, <1>6, <1>7, <1>8 DEF END, Counts
  <2>3. Len(queue) = 1 /\ over
    BY <1>2, <1>4, <1>6, <2>2 DEF Counts
  <2>4. queue' = <<>> /\ Len(queue') = 0 /\ Buffered(queue)' = 0
    BY <1>4, <2>3 DEF Buffered, EndQueued
  <2>5. TypeOK'
    BY <1>1, <1>4, <2>1 DEF IInv, TypeOK, Raise
  <2>6. QueueIsNewest'
    BY <2>4 DEF QueueIsNewest
  <2>7. EveryEventAccounted'
    BY <1>1, <2>1, <2>2, <2>4 DEF IInv, EveryEventAccounted
  <2>8. Settled'
    BY <1>1, <1>2, <2>1, <2>3, <2>4, <2>2 DEF IInv, Settled, Raise, Counts
  <2> QED BY <1>5, <2>5, <2>6, <2>7, <2>8 DEF IInv
<1>9. CASE Head(queue) # END
  <2>1. last' = Head(queue) /\ delivered' = delivered + 1 /\ UNCHANGED outcome
    BY <1>9 DEF Get
  <2>2. Buffered(queue) # 0
    <3>1. SUFFICES ASSUME Buffered(queue) = 0 PROVE FALSE
      OBVIOUS
    <3>2. EndQueued(queue) /\ Len(queue) = 1
      BY <1>2, <1>4, <1>6, <3>1 DEF Counts
    <3> QED BY <1>4, <1>9, <3>2 DEF EndQueued
  <2>3. Buffered(queue)' = Buffered(queue) - 1
    <3>1. CASE Len(queue') = 0
      <4>1. Len(queue) = 1
        BY <1>2, <1>4, <3>1 DEF Counts
      <4>3. ~EndQueued(queue)
        BY <1>4, <1>9, <4>1 DEF EndQueued
      <4>2. queue' = <<>>
        BY <1>4, <3>1
      <4> QED BY <1>2, <1>6, <4>1, <4>2, <4>3 DEF Buffered, EndQueued, Counts
    <3>2. CASE Len(queue') > 0
      <4>1. queue'[Len(queue')] = queue[Len(queue)]
        BY <1>2, <1>4, <3>2 DEF Counts
      <4>2. queue' # <<>>
        BY <3>2
      <4>3. EndQueued(queue') <=> EndQueued(queue)
        BY <1>1, <4>1, <4>2 DEF EndQueued
      <4> QED BY <1>2, <1>4, <4>3 DEF Buffered, Counts
    <3> QED BY <1>2, <1>4, <3>1, <3>2 DEF Counts
  <2>4. Head(queue) = sent - Buffered(queue) + 1
    BY <1>7, <2>2
  <2>5. TypeOK'
    <3>1. last' \in 0..MaxEvents /\ delivered' \in Nat
      <4>1. sent \in 0..MaxEvents /\ MaxEvents \in Nat
        BY SizeAssumption DEF IInv, TypeOK
      <4>2. Buffered(queue) \in Nat /\ Buffered(queue) <= sent
        BY <1>2, <1>6 DEF Counts
      <4>3. sent - Buffered(queue) + 1 \in 0..MaxEvents
        BY <2>2, <4>1, <4>2
      <4>4. delivered' \in Nat
        BY <1>2, <2>1 DEF Counts
      <4> QED BY <2>1, <2>4, <4>3, <4>4
    <3> QED BY <1>1, <1>4, <2>1, <3>1 DEF IInv, TypeOK
  <2>6. QueueIsNewest'
    <3>1. ASSUME NEW i \in 1..Len(queue')
          PROVE  \/ queue'[i] = sent' - Buffered(queue)' + i /\ i <= Buffered(queue)'
                 \/ queue'[i] = END /\ i = Len(queue') /\ over'
      <4>1. i \in Nat /\ i + 1 \in 1..Len(queue) /\ queue'[i] = queue[i + 1]
        BY <1>2, <1>4 DEF Counts
      <4>2. CASE queue[i + 1] = END /\ i + 1 = Len(queue) /\ over
        <5>1. over'
          BY <1>1, <4>2
        <5>2. i = Len(queue')
          BY <1>2, <1>4, <4>2 DEF Counts
        <5> QED BY <4>1, <4>2, <5>1, <5>2
      <4>3. CASE queue[i + 1] = sent - Buffered(queue) + (i + 1) /\ i + 1 <= Buffered(queue)
        <5>1. sent' = sent
          BY <1>1
        <5> QED BY <1>2, <2>3, <4>1, <4>3, <5>1 DEF Counts
      <4> QED BY <4>1, <4>2, <4>3 DEF IInv, QueueIsNewest
    <3> QED BY <3>1 DEF QueueIsNewest
  <2>7. EveryEventAccounted'
    BY <1>1, <1>2, <2>1, <2>3, SMTT(30) DEF EveryEventAccounted, Counts
  <2>8. Settled'
    <3>1. last' <= sent' - Buffered(queue)'
      BY <1>1, <1>2, <2>1, <2>3, <2>4 DEF Counts
    <3>2. outcome = "none"
      BY <2>2 DEF IInv, Settled
    <3> QED BY <2>1, <3>1, <3>2 DEF Settled
  <2> QED BY <1>5, <2>5, <2>6, <2>7, <2>8 DEF IInv
<1> QED BY <1>8, <1>9

\* An event taken from the queue is newer than the last one and not too old.
LEMMA DeliversNext ==
  ASSUME IInv, Get, Head(queue) # END
  PROVE  /\ outcome = "none" /\ outcome' = outcome
         /\ last' \in Int
         /\ last < last' /\ last' <= sent
         /\ sent - last' < QueueSize
<1>1. Counts
  BY CountsLemma
<1>2. queue \in Seq(0..MaxEvents) /\ Len(queue) > 0 /\ Head(queue) = queue[1]
  BY DEF Get, IInv, TypeOK
<1>3. /\ EndQueued(queue) => Len(queue) = Buffered(queue) + 1 /\ over
      /\ ~EndQueued(queue) => Len(queue) = Buffered(queue)
      /\ Buffered(queue) <= sent
  BY BufferedLemma DEF IInv
<1>4. Buffered(queue) # 0
  <2>1. SUFFICES ASSUME Buffered(queue) = 0 PROVE FALSE
    OBVIOUS
  <2>2. EndQueued(queue) /\ Len(queue) = 1
    BY <1>1, <1>2, <1>3, <2>1 DEF Counts
  <2> QED BY <1>2, <2>2 DEF EndQueued
<1>5. last' = sent - Buffered(queue) + 1
  <2>1. 1 \in 1..Buffered(queue)
    BY <1>1, <1>4 DEF Counts
  <2>2. queue[1] = sent - Buffered(queue) + 1
    BY <2>1, BufferedLemma DEF IInv
  <2>3. last' = queue[1]
    BY <1>2 DEF Get
  <2> QED BY <2>2, <2>3
<1>6. Buffered(queue) <= QueueSize /\ QueueSize \in Nat
  BY <1>1, <1>3, SizeAssumption DEF Counts
<1>7. last <= sent - Buffered(queue) /\ outcome = "none" /\ outcome' = outcome
  BY <1>4 DEF IInv, Settled, Get
<1>8. Buffered(queue) \in Nat /\ sent \in Nat /\ last \in Nat /\ Buffered(queue) <= sent
  BY <1>1, <1>3 DEF Counts
<1> QED BY <1>4, <1>5, <1>6, <1>7, <1>8

\* Every step preserves the inductive invariant.
LEMMA NextIInv ==
  ASSUME IInv, [Next]_vars
  PROVE  IInv'
<1>1. CASE Push
  BY <1>1, PushIInv
<1>2. ASSUME NEW error \in {"none", "error"}, End(error)
      PROVE  IInv'
  BY <1>2, EndIInv
<1>3. CASE Close
  BY <1>3 DEF Close, IInv, TypeOK, QueueBounded, QueueIsNewest, EveryEventAccounted,
     NeverStuckAfterEnd, Settled
<1>4. CASE CloseEnds
  BY <1>4, CloseEndsIInv
<1>5. CASE Anext
  BY <1>5, AnextIInv
<1>6. CASE Get
  BY <1>6, GetIInv
<1>7. CASE UNCHANGED vars
  BY <1>7 DEF vars, IInv, TypeOK, QueueBounded, QueueIsNewest, EveryEventAccounted,
     NeverStuckAfterEnd, Settled
<1> QED BY <1>1, <1>2, <1>3, <1>4, <1>5, <1>6, <1>7 DEF Next

\* The inductive invariant holds of every reachable state.
THEOREM InvariantHolds == Spec => []IInv
BY InitIInv, NextIInv, PTL DEF Spec

-----------------------------------------------------------------------------
(* What the invariant establishes.                                          *)

\* Every variable has its type, whatever the capacity and the events pushed.
THEOREM TypeCorrect == Spec => []TypeOK
BY InvariantHolds, PTL DEF IInv

\* put_nowait never raises QueueFull out of _push, _end or close()
\* (handle.py:62-103): the queue is within its capacity.
THEOREM CapacityRespected == Spec => []QueueBounded
BY InvariantHolds, PTL DEF IInv

\* Dropping the oldest keeps exactly the newest events, in order, and never
\* the wrong side of the sentinel (handle.py:62-103).
THEOREM NewestKept == Spec => []QueueIsNewest
BY InvariantHolds, PTL DEF IInv

\* AsyncSubscriptionHandle.dropped counts the losses exactly (handle.py:53).
THEOREM LossesCounted == Spec => []EveryEventAccounted
BY InvariantHolds, PTL DEF IInv

\* An ended handle never leaves its consumer waiting on an empty queue
\* (handle.py:108-118).
THEOREM NeverStuck == Spec => []NeverStuckAfterEnd
BY InvariantHolds, PTL DEF IInv

\* The end of the iteration is final: neither _end nor close() changes the
\* outcome, and no event follows it (handle.py:81-118).
THEOREM OutcomeFinal == Spec => OutcomeIsFinal
<1>1. ASSUME IInv, [Next]_vars
      PROVE  [outcome # "none" => outcome' = outcome /\ last' = last]_vars
  <2>1. SUFFICES ASSUME outcome # "none", Next
                 PROVE  outcome' = outcome /\ last' = last
    BY <1>1
  <2>2. /\ over /\ Buffered(queue) = 0
        /\ outcome = IF endError = "error" THEN "error" ELSE "stop"
    BY <1>1, <2>1 DEF IInv, Settled
  <2>3. CASE Push \/ (\E error \in {"none", "error"} : End(error))
    BY <2>2, <2>3 DEF Push, End
  <2>4. CASE Close \/ CloseEnds
    BY <2>4 DEF Close, CloseEnds
  <2>5. CASE Anext
    BY <2>2, <2>5 DEF Anext, Raise
  <2>6. CASE Get
    <3>1. Head(queue) = END
      <4>1. queue # <<>> /\ queue \in Seq(0..MaxEvents)
        BY <1>1, <2>6 DEF Get, IInv, TypeOK
      <4>2. EndQueued(queue) /\ Len(queue) = 1
        BY <2>2, <4>1 DEF Buffered, EndQueued
      <4> QED BY <4>1, <4>2 DEF EndQueued
    <3> QED BY <2>2, <2>6, <3>1 DEF Get, Raise
  <2> QED BY <2>1, <2>3, <2>4, <2>5, <2>6 DEF Next
<1> QED BY <1>1, InvariantHolds, PTL DEF Spec, OutcomeIsFinal

\* The handle implements EventStream: a consumer receives events in order,
\* each at most once, and never one that QueueSize newer ones have overtaken
\* (handle.py:36-41).
THEOREM PromiseKept == Spec => KeepsPromise
<1>1. Init => Promise!StreamInit
  BY DEF Init, Promise!StreamInit
<1>2. ASSUME IInv, [Next]_vars
      PROVE  [Promise!StreamNext]_(Promise!streamVars)
  <2> USE DEF Promise!StreamNext, Promise!streamVars
  <2>1. CASE Push
    <3>1. outcome = "none"
      BY <1>2, <2>1 DEF Push, IInv, Settled
    <3>2. sent' = sent + 1 /\ UNCHANGED <<last, outcome>>
      BY <2>1 DEF Push
    <3> QED BY <3>1, <3>2 DEF Promise!Accept
  <2>2. ASSUME NEW error \in {"none", "error"}, End(error)
        PROVE  UNCHANGED Promise!streamVars
    BY <2>2 DEF End
  <2>3. CASE Close \/ CloseEnds
    BY <2>3 DEF Close, CloseEnds
  <2>4. CASE Anext
    <3>1. UNCHANGED <<sent, last>>
      BY <2>4 DEF Anext
    <3>2. outcome' = outcome \/ (outcome = "none" /\ outcome' \in {"stop", "error"})
      BY <1>2, <2>4 DEF Anext, Raise, IInv, Settled, TypeOK
    <3> QED BY <3>1, <3>2 DEF Promise!Finish
  <2>5. CASE Get
    <3>1. UNCHANGED sent
      BY <2>5 DEF Get
    <3>2. CASE Head(queue) = END
      <4>1. UNCHANGED last
        BY <2>5, <3>2 DEF Get
      <4>2. outcome' = outcome \/ (outcome = "none" /\ outcome' \in {"stop", "error"})
        BY <1>2, <2>5, <3>2 DEF Get, Raise, IInv, Settled, TypeOK, END
      <4> QED BY <3>1, <4>1, <4>2 DEF Promise!Finish
    <3>3. CASE Head(queue) # END
      BY <1>2, <2>5, <3>1, <3>3, DeliversNext DEF Promise!Deliver
    <3> QED BY <3>2, <3>3
  <2>6. CASE UNCHANGED vars
    BY <2>6 DEF vars
  <2> QED BY <1>2, <2>1, <2>2, <2>3, <2>4, <2>5, <2>6 DEF Next
<1> QED BY <1>1, <1>2, InvariantHolds, PTL DEF Spec, KeepsPromise, Promise!StreamSpec


=============================================================================
