-------------------------- MODULE MergedHandle_proofs --------------------------
(***************************************************************************)
(* Proofs about MergedHandle, for any children, capacities and events.      *)
(***************************************************************************)
EXTENDS MergedHandle, Integers, FiniteSetTheorems, TLAPS

-----------------------------------------------------------------------------
(* The two operations on a queue.                                           *)

\* r is q with item put at its end and lost items dropped at its head.
IsPut(S, q, r, lost, item, size) ==
  /\ r \in Seq(S)
  /\ lost \in 0..1
  /\ Len(r) = Len(q) + 1 - lost
  /\ Len(r) \in 1..size
  /\ r[Len(r)] = item
  /\ \A i \in 1..(Len(r) - 1) : r[i] = q[i + lost]

\* put_nowait that drops the oldest item when there is no room.
LEMMA PutLemma ==
  ASSUME NEW S, NEW q \in Seq(S), NEW item \in S, NEW size \in Nat \ {0}, Len(q) <= size
  PROVE  IsPut(S, q, Put(q, item, size), Lost(q, size), item, size)
<1> SUFFICES IsPut(S, q, Put(q, item, size), Lost(q, size), item, size)
  OBVIOUS
<1> USE DEF IsPut
<1> DEFINE r == Put(q, item, size)
<1>1. CASE Len(q) < size
  <2>1. r = Append(q, item) /\ Lost(q, size) = 0
    BY <1>1 DEF Put, Lost, Room
  <2> HIDE DEF r
  <2>2. /\ r \in Seq(S) /\ Len(r) = Len(q) + 1 /\ r[Len(r)] = item
        /\ \A i \in 1..Len(q) : r[i] = q[i]
    BY <2>1
  <2>3. Len(r) \in 1..size /\ \A i \in 1..(Len(r) - 1) : r[i] = q[i + 0]
    BY <1>1, <2>2
  <2>4. /\ Lost(q, size) \in 0..1 /\ Len(r) = Len(q) + 1 - Lost(q, size)
        /\ \A i \in 1..(Len(r) - 1) : r[i] = q[i + Lost(q, size)]
    BY <2>1, <2>2, <2>3
  <2> QED BY <2>2, <2>3, <2>4 DEF r
<1>2. CASE ~(Len(q) < size)
  <2>1. r = Append(Tail(q), item) /\ Lost(q, size) = 1
    BY <1>2 DEF Put, Lost, Room
  <2>2. Len(q) = size /\ q # <<>>
    BY <1>2
  <2>3. /\ Tail(q) \in Seq(S) /\ Len(Tail(q)) = Len(q) - 1
        /\ \A i \in 1..(Len(q) - 1) : Tail(q)[i] = q[i + 1]
    BY <2>2
  <2> HIDE DEF r
  <2>4. /\ r \in Seq(S) /\ Len(r) = Len(q) /\ r[Len(r)] = item
        /\ \A i \in 1..(Len(q) - 1) : r[i] = q[i + 1]
    BY <2>1, <2>2, <2>3
  <2>5. /\ Len(r) \in 1..size /\ Lost(q, size) \in 0..1 /\ Len(r) = Len(q) + 1 - Lost(q, size)
        /\ \A i \in 1..(Len(r) - 1) : r[i] = q[i + Lost(q, size)]
    BY <2>1, <2>2, <2>4
  <2> QED BY <2>4, <2>5 DEF r
<1> QED BY <1>1, <1>2

\* An item of a queue is one of the items it may hold.
LEMMA ElementOf ==
  ASSUME NEW S, NEW q \in Seq(S), NEW k \in 1..Len(q)
  PROVE  q[k] \in S
OBVIOUS

\* get_nowait.
LEMMA TailLemma ==
  ASSUME NEW S, NEW q \in Seq(S), q # <<>>
  PROVE  /\ Tail(q) \in Seq(S) /\ Len(Tail(q)) = Len(q) - 1 /\ Len(q) \in Nat \ {0}
         /\ Head(q) = q[1] /\ q[1] \in S
         /\ \A i \in 1..(Len(q) - 1) : Tail(q)[i] = q[i + 1]
OBVIOUS

-----------------------------------------------------------------------------
(* The invariant.                                                           *)

Running == {c \in Children : pump[c] = "running"}

TypeInv == TypeOK /\ childQueue \in [Children -> Seq(0..MaxEvents)]

\* A child whose sentinel is queued, or whose pump has left, has ended, unless
\* close() has.
ChildInv ==
  /\ \A c \in Children : childEnd[c] = "none" =>
       \A i \in 1..Len(childQueue[c]) : childQueue[c][i] # END
  /\ \A c \in Children : pump[c] = "done" => childEnd[c] # "none" \/ closing # "none"
  /\ closing = "none" /\ firstError = NoChild =>
       \A c \in Children : pump[c] = "done" => childEnd[c] = "stop"
  /\ firstError # NoChild => closing # "none"
  /\ closed => closing = "done" /\ open = 0
  /\ outcome = "stop" => open = 0

\* After close() nothing but the sentinel is queued.
LossInv ==
  /\ MergedCounts
  /\ closed => \A i \in 1..Len(queue) : queue[i] = MergedEnd

IInv == TypeInv /\ EndsWhenPumpsAreGone /\ ChildInv /\ ErrorNotMasked /\ LossInv

\* How many pumps run.
LEMMA RunningLemma ==
  ASSUME ChildrenAssumption, open = Cardinality(Running)
  PROVE  /\ IsFiniteSet(Running) /\ open \in Nat /\ open <= Cardinality(Children)
         /\ open = 0 <=> Running = {}
         /\ Cardinality(Children) \in Nat
<1>1. IsFiniteSet(Running) /\ Cardinality(Running) <= Cardinality(Children)
  BY FS_Subset, ChildrenAssumption DEF Running
<1>2. open \in Nat /\ Cardinality(Children) \in Nat
  BY <1>1, FS_CardinalityType, ChildrenAssumption
<1>3. open = 0 <=> Running = {}
  BY <1>1, FS_EmptySet
<1> QED BY <1>1, <1>2, <1>3

\* The invariant holds of a new handle.
LEMMA InitIInv == Init => IInv
<1> SUFFICES ASSUME Init PROVE IInv
  OBVIOUS
<1> USE SizesAssumption, ChildrenAssumption DEF Init
<1>1. Running = Children /\ open = Cardinality(Children) /\ open \in Nat
  BY FS_CardinalityType DEF Running
<1>2. open # 0
  BY <1>1, FS_EmptySet
<1>3. childClosed \in [Children -> BOOLEAN] /\ closed \in BOOLEAN
  BY Zenon
<1>4. TypeInv
  BY <1>1, <1>3 DEF TypeInv, TypeOK
<1>5. EndsWhenPumpsAreGone
  <2>1. Len(queue) = 0 /\ 1..Len(queue) = {}
    OBVIOUS
  <2> QED BY <1>1, <1>2, <2>1 DEF EndsWhenPumpsAreGone, Running
<1>6. ChildInv /\ ErrorNotMasked
  BY DEF ChildInv, ErrorNotMasked
<1>7. LossInv
  BY DEF LossInv, MergedCounts, Waiting
<1> QED BY <1>4, <1>5, <1>6, <1>7 DEF IInv

\* The sentinel is no event.
LEMMA EndIsNoEvent ==
  ASSUME NEW c, NEW e \in 1..MaxEvents
  PROVE  <<c, e>> # MergedEnd
BY SizesAssumption DEF MergedEnd, END

\* A pump that leaves, the last one with the sentinel.
LEMMA Leaves ==
  ASSUME TypeInv, EndsWhenPumpsAreGone, NEW c \in Children, pump[c] = "running", PumpLeaves(c)
  PROVE  /\ pump' \in [Children -> {"running", "done"}]
         /\ open' \in 0..Cardinality(Children) /\ open' = Cardinality(Running)'
         /\ queue' \in Seq(Items) /\ Len(queue') <= QueueSize
         /\ dropped' \in Nat
         /\ \A i \in 1..Len(queue') : queue'[i] = MergedEnd => open' = 0 /\ i = Len(queue')
         /\ open' = 0 => queue' # <<>>
         /\ \A d \in Children : pump'[d] = "done" <=> d = c \/ pump[d] = "done"
         /\ open # 0 /\ open' = open - 1
         /\ lag = dropped + Waiting => lag = dropped' + Waiting'
<1> USE SizesAssumption, ChildrenAssumption
<1>1. open = Cardinality(Running)
  BY DEF EndsWhenPumpsAreGone, Running
<1>2. c \in Running /\ pump' = [pump EXCEPT ![c] = "done"] /\ open' = open - 1
  BY DEF PumpLeaves, Running
<1>3. pump \in [Children -> {"running", "done"}]
  BY DEF TypeInv, TypeOK
<1>4. Running' = Running \ {c}
  BY <1>2, <1>3 DEF Running
<1>5. /\ IsFiniteSet(Running) /\ open \in Nat /\ open <= Cardinality(Children) /\ open # 0
      /\ Cardinality(Children) \in Nat
  BY <1>1, <1>2, RunningLemma
<1>6. Cardinality(Running \ {c}) = Cardinality(Running) - 1
  BY <1>2, <1>5, FS_RemoveElement
<1>7. open' \in 0..Cardinality(Children) /\ open' = Cardinality(Running)'
  BY <1>1, <1>2, <1>4, <1>5, <1>6
<1>8. queue \in Seq(Items) /\ Len(queue) <= QueueSize /\ dropped \in Nat
      /\ QueueSize \in Nat \ {0} /\ MergedEnd \in Items
  BY DEF TypeInv, TypeOK, Items
<1>9. \A i \in 1..Len(queue) : queue[i] # MergedEnd
  BY <1>5 DEF EndsWhenPumpsAreGone
<1>10. CASE open = 1
  <2>1. queue' = Put(queue, MergedEnd, QueueSize) /\ dropped' = dropped + Lost(queue, QueueSize)
    BY <1>10 DEF PumpLeaves
  <2>2. IsPut(Items, queue, queue', Lost(queue, QueueSize), MergedEnd, QueueSize)
    BY <1>8, <2>1, PutLemma
  <2>3. ASSUME NEW i \in 1..(Len(queue') - 1) PROVE queue'[i] # MergedEnd
    <3>1. i + Lost(queue, QueueSize) \in 1..Len(queue)
      BY <1>8, <2>2 DEF IsPut
    <3> QED BY <1>9, <2>2, <3>1 DEF IsPut
  <2>4. open' = 0
    BY <1>2, <1>10
  <2>5. /\ queue' \in Seq(Items) /\ Len(queue') <= QueueSize /\ queue' # <<>>
        /\ dropped' \in Nat
    BY <1>8, <2>1, <2>2 DEF IsPut
  <2>6. \A i \in 1..Len(queue') : queue'[i] = MergedEnd => open' = 0 /\ i = Len(queue')
    <3>1. Len(queue') \in Nat
      BY <2>5
    <3> QED BY <2>3, <2>4, <3>1
  <2>7. ASSUME lag = dropped + Waiting PROVE lag = dropped' + Waiting'
    <3>1. Waiting = Len(queue)
      BY <1>8, <1>9 DEF Waiting
    <3>2. Waiting' = Len(queue') - 1
      BY <2>2, <2>5 DEF Waiting, IsPut
    <3>3. Len(queue') = Len(queue) + 1 - Lost(queue, QueueSize) /\ Lost(queue, QueueSize) \in 0..1
      BY <2>2 DEF IsPut
    <3> QED BY <1>8, <2>1, <2>7, <3>1, <3>2, <3>3
  <2> QED BY <1>2, <1>3, <1>5, <1>7, <2>4, <2>5, <2>6, <2>7
<1>11. CASE open # 1
  BY <1>2, <1>3, <1>5, <1>7, <1>8, <1>9, <1>11 DEF PumpLeaves, Waiting
<1> QED BY <1>10, <1>11

\* A pump moves an event.
LEMMA MovesIInv ==
  ASSUME IInv, NEW c \in Children, PumpMoves(c)
  PROVE  IInv'
<1> USE SizesAssumption, ChildrenAssumption
<1>1. /\ childQueue[c] \in Seq(0..MaxEvents) /\ childQueue[c] # <<>> /\ Head(childQueue[c]) # END
      /\ pump[c] = "running" /\ Len(childQueue[c]) <= ChildSize
  BY DEF PumpMoves, IInv, TypeInv, TypeOK
<1> DEFINE q == childQueue[c]
           e == Head(q)
<1>2. /\ Tail(q) \in Seq(0..MaxEvents) /\ Len(Tail(q)) = Len(q) - 1 /\ Len(q) \in Nat \ {0}
      /\ e \in 0..MaxEvents /\ e # 0
      /\ \A i \in 1..(Len(q) - 1) : Tail(q)[i] = q[i + 1]
  <2> HIDE DEF q
  <2> QED BY <1>1, TailLemma DEF END, q
<1>3. open = Cardinality(Running)
  BY DEF IInv, EndsWhenPumpsAreGone, Running
<1>4. open # 0 /\ open \in Nat
  BY <1>1, <1>3, RunningLemma DEF Running
<1>5. queue \in Seq(Items) /\ Len(queue) <= QueueSize /\ dropped \in Nat /\ lag \in Nat
  BY DEF IInv, TypeInv, TypeOK
<1>6. e \in 1..MaxEvents /\ <<c, e>> \in Items /\ <<c, e>> # MergedEnd
  BY <1>2, EndIsNoEvent DEF Items
<1>7. /\ queue' = Put(queue, <<c, e>>, QueueSize)
      /\ dropped' = dropped + Lost(queue, QueueSize) /\ lag' = lag + 1
      /\ childQueue' = [childQueue EXCEPT ![c] = Tail(q)]
      /\ UNCHANGED <<childEnd, childClosed, sent, pump, open, firstError, closing,
                     closed, consumer, outcome, last, childDropped>>
      /\ moved' = [moved EXCEPT ![c] = @ + 1]
  BY DEF PumpMoves
<1> HIDE DEF e, q
<1>8. IsPut(Items, queue, queue', Lost(queue, QueueSize), <<c, e>>, QueueSize)
  BY <1>5, <1>6, <1>7, PutLemma
<1>9. childClosed' \in [Children -> BOOLEAN] /\ closed' \in BOOLEAN
  BY <1>7, Zenon DEF IInv, TypeInv, TypeOK
<1>10. childQueue' \in [Children -> Seq(0..MaxEvents)]
  BY <1>2, <1>7 DEF IInv, TypeInv
<1>11. \A d \in Children : childQueue'[d] \in Seq(0..MaxEvents) /\ Len(childQueue'[d]) <= ChildSize
  <2> SUFFICES ASSUME NEW d \in Children
               PROVE  childQueue'[d] \in Seq(0..MaxEvents) /\ Len(childQueue'[d]) <= ChildSize
    OBVIOUS
  <2>1. childQueue'[d] = IF d = c THEN Tail(q) ELSE childQueue[d]
    BY <1>7 DEF IInv, TypeInv
  <2>2. Len(q) <= ChildSize
    BY <1>1 DEF q
  <2>3. Len(childQueue[d]) <= ChildSize /\ childQueue[d] \in Seq(0..MaxEvents)
    BY DEF IInv, TypeInv, TypeOK
  <2>4. CASE d = c
    BY <1>2, <2>1, <2>2, <2>4
  <2>5. CASE d # c
    BY <2>1, <2>3, <2>5
  <2> QED BY <2>4, <2>5
<1>12. TypeInv'
  <2>1. queue' \in Seq(Items) /\ Len(queue') <= QueueSize /\ dropped' \in Nat /\ lag' \in Nat
    BY <1>5, <1>7, <1>8 DEF IsPut
  <2>2. moved' \in [Children -> Nat]
    <3>1. moved \in [Children -> Nat]
      BY DEF IInv, TypeInv, TypeOK
    <3> QED BY <1>7, <3>1
  <2> QED BY <1>7, <1>9, <1>10, <1>11, <2>1, <2>2 DEF IInv, TypeInv, TypeOK
<1>13. \A i \in 1..Len(queue) : queue[i] # MergedEnd
  BY <1>4 DEF IInv, EndsWhenPumpsAreGone
<1>14. ASSUME NEW i \in 1..Len(queue') PROVE queue'[i] # MergedEnd
  <2>1. CASE i = Len(queue')
    BY <1>6, <1>8, <2>1 DEF IsPut
  <2>2. CASE i # Len(queue')
    <3>1. i + Lost(queue, QueueSize) \in 1..Len(queue) /\ i \in 1..(Len(queue') - 1)
      BY <1>5, <1>8, <2>2 DEF IsPut
    <3> QED BY <1>8, <1>13, <3>1 DEF IsPut
  <2> QED BY <2>1, <2>2
<1>15. EndsWhenPumpsAreGone'
  BY <1>4, <1>7, <1>14 DEF IInv, EndsWhenPumpsAreGone
<1>16. ASSUME NEW d \in Children, childEnd[d] = "none", NEW i \in 1..Len(childQueue'[d])
       PROVE  childQueue'[d][i] # END
  <2>1. \A j \in 1..Len(childQueue[d]) : childQueue[d][j] # END
    BY <1>16 DEF IInv, ChildInv
  <2>2. CASE d = c
    <3>1. childQueue'[d] = Tail(q)
      BY <1>7, <2>2 DEF IInv, TypeInv
    <3> QED BY <1>2, <1>16, <2>1, <2>2, <3>1 DEF q
  <2>3. CASE d # c
    BY <1>7, <1>16, <2>1, <2>3 DEF IInv, TypeInv
  <2> QED BY <2>2, <2>3
<1>17. ChildInv'
  BY <1>7, <1>16 DEF IInv, ChildInv
<1>18. ErrorNotMasked'
  BY <1>7 DEF IInv, ErrorNotMasked
<1>19. LossInv'
  <2>1. closed' = FALSE /\ ~closed /\ lag = dropped + Waiting
    BY <1>4, <1>7 DEF IInv, ChildInv, LossInv, MergedCounts, TypeInv, TypeOK
  <2>2. Waiting = Len(queue)
    BY <1>5, <1>13 DEF Waiting
  <2>3. Waiting' = Len(queue')
    BY <1>6, <1>8 DEF Waiting, IsPut
  <2>4. Len(queue') = Len(queue) + 1 - Lost(queue, QueueSize) /\ Lost(queue, QueueSize) \in 0..1
    BY <1>8 DEF IsPut
  <2>5. lag' = dropped' + Waiting'
    <3>1. Len(queue) \in Nat /\ dropped \in Nat
      BY <1>5
    <3>2. lag' = lag + 1 /\ dropped' = dropped + Lost(queue, QueueSize)
      BY <1>7
    <3> QED BY <2>1, <2>2, <2>3, <2>4, <3>1, <3>2
  <2> QED BY <2>1, <2>5 DEF LossInv, MergedCounts
<1> QED BY <1>12, <1>15, <1>17, <1>18, <1>19 DEF IInv

\* What PumpEnds and PumpCancelled have in common: TypeInv apart from the queue
\* of the child, EndsWhenPumpsAreGone and LossInv.
LEMMA LeavesIInv ==
  ASSUME IInv, NEW c \in Children, pump[c] = "running", PumpLeaves(c),
         UNCHANGED <<childEnd, childClosed, sent, closed, consumer, outcome, last, lag, moved, childDropped>>,
         childQueue' \in [Children -> Seq(0..MaxEvents)],
         \A d \in Children : Len(childQueue'[d]) <= ChildSize,
         firstError' \in Children \cup {NoChild},
         closing' \in {"none", "children", "pumps", "done"}
  PROVE  /\ TypeInv' /\ EndsWhenPumpsAreGone' /\ LossInv' /\ ~closed' /\ outcome' # "stop"
         /\ \A d \in Children : pump'[d] = "done" => d = c \/ pump[d] = "done"
<1> USE SizesAssumption, ChildrenAssumption DEF IInv
<1>1. /\ pump' \in [Children -> {"running", "done"}]
      /\ open' \in 0..Cardinality(Children) /\ open' = Cardinality(Running)'
      /\ queue' \in Seq(Items) /\ Len(queue') <= QueueSize
      /\ dropped' \in Nat
      /\ \A i \in 1..Len(queue') : queue'[i] = MergedEnd => open' = 0 /\ i = Len(queue')
      /\ open' = 0 => queue' # <<>>
      /\ \A d \in Children : pump'[d] = "done" <=> d = c \/ pump[d] = "done"
      /\ open # 0
      /\ lag = dropped + Waiting => lag = dropped' + Waiting'
  BY Leaves
<1>2. childClosed' \in [Children -> BOOLEAN] /\ closed' \in BOOLEAN
  BY Zenon DEF TypeInv, TypeOK
<1>3. TypeInv'
  BY <1>1, <1>2 DEF TypeInv, TypeOK
<1>4. EndsWhenPumpsAreGone'
  BY <1>1 DEF EndsWhenPumpsAreGone, Running
<1>5. ~closed /\ outcome # "stop"
  BY <1>1 DEF ChildInv
<1>6. LossInv'
  BY <1>1, <1>5 DEF LossInv, MergedCounts
<1> QED BY <1>1, <1>3, <1>4, <1>5, <1>6

\* Each child holds what it held, its first item apart.
Shortened ==
  \A d \in Children : \E k \in 0..1 : \A i \in 1..Len(childQueue'[d]) :
    i + k \in 1..Len(childQueue[d]) /\ childQueue'[d][i] = childQueue[d][i + k]

\* The first item of a child's queue is taken off.
LEMMA ChildTail ==
  ASSUME TypeInv, NEW c \in Children, childQueue[c] # <<>>,
         childQueue' = [childQueue EXCEPT ![c] = Tail(@)]
  PROVE  /\ childQueue' \in [Children -> Seq(0..MaxEvents)]
         /\ \A d \in Children : Len(childQueue'[d]) <= ChildSize
         /\ Head(childQueue[c]) = childQueue[c][1] /\ 1 \in 1..Len(childQueue[c])
         /\ \A d \in Children : \A i \in 1..Len(childQueue'[d]) :
              \E j \in 1..Len(childQueue[d]) : childQueue'[d][i] = childQueue[d][j]
         /\ Shortened
<1> USE SizesAssumption
<1> DEFINE q == childQueue[c]
<1>1. q \in Seq(0..MaxEvents) /\ Len(q) <= ChildSize /\ q # <<>>
  BY DEF TypeInv, TypeOK
<1>2. \A d \in Children : childQueue'[d] = IF d = c THEN Tail(q) ELSE childQueue[d]
  BY DEF TypeInv
<1>3. childQueue' = [childQueue EXCEPT ![c] = Tail(q)]
  OBVIOUS
<1>4. \A d \in Children : Len(childQueue[d]) <= ChildSize /\ childQueue[d] \in Seq(0..MaxEvents)
  BY DEF TypeInv, TypeOK
<1>5. /\ Tail(q) \in Seq(0..MaxEvents) /\ Len(Tail(q)) = Len(q) - 1 /\ Len(q) \in Nat \ {0}
      /\ Head(q) = q[1]
      /\ \A i \in 1..(Len(q) - 1) : Tail(q)[i] = q[i + 1]
  <2> HIDE DEF q
  <2> QED BY <1>1, TailLemma
<1>6. childQueue' \in [Children -> Seq(0..MaxEvents)]
  BY <1>3, <1>5 DEF TypeInv
<1>7. ASSUME NEW d \in Children
      PROVE  /\ Len(childQueue'[d]) <= ChildSize
             /\ \A i \in 1..Len(childQueue'[d]) :
                  \E j \in 1..Len(childQueue[d]) : childQueue'[d][i] = childQueue[d][j]
             /\ \E k \in 0..1 : \A i \in 1..Len(childQueue'[d]) :
                  i + k \in 1..Len(childQueue[d]) /\ childQueue'[d][i] = childQueue[d][i + k]
  <2>1. CASE d = c
    <3>1. childQueue'[d] = Tail(q) /\ childQueue[d] = q
      BY <1>2, <2>1
    <3> HIDE DEF q
    <3>2. Len(childQueue'[d]) <= ChildSize
      BY <1>1, <1>5, <3>1
    <3>3. ASSUME NEW i \in 1..Len(childQueue'[d])
          PROVE  i + 1 \in 1..Len(childQueue[d]) /\ childQueue'[d][i] = childQueue[d][i + 1]
      BY <1>5, <3>1, <3>3
    <3> QED BY <3>2, <3>3
  <2>2. CASE d # c
    <3>1. childQueue'[d] = childQueue[d] /\ Len(childQueue[d]) \in Nat
      BY <1>2, <1>4, <2>2
    <3>2. \A i \in 1..Len(childQueue'[d]) :
            i + 0 \in 1..Len(childQueue[d]) /\ childQueue'[d][i] = childQueue[d][i + 0]
      <4> SUFFICES ASSUME NEW i \in 1..Len(childQueue'[d])
                   PROVE  i + 0 \in 1..Len(childQueue[d]) /\ childQueue'[d][i] = childQueue[d][i + 0]
        OBVIOUS
      <4>1. i + 0 = i /\ i \in 1..Len(childQueue[d])
        BY <3>1
      <4> QED BY <3>1, <4>1
    <3>3. \E k \in 0..1 : \A i \in 1..Len(childQueue'[d]) :
            i + k \in 1..Len(childQueue[d]) /\ childQueue'[d][i] = childQueue[d][i + k]
      <4>1. 0 \in 0..1
        OBVIOUS
      <4> QED BY <3>2, <4>1, Zenon
    <3>4. \A i \in 1..Len(childQueue'[d]) :
            \E j \in 1..Len(childQueue[d]) : childQueue'[d][i] = childQueue[d][j]
      BY <3>2, Zenon
    <3> QED BY <1>4, <3>1, <3>3, <3>4
  <2> QED BY <2>1, <2>2
<1>8. Head(childQueue[c]) = childQueue[c][1] /\ 1 \in 1..Len(childQueue[c])
  <2> HIDE DEF q
  <2>1. Head(q) = q[1] /\ 1 \in 1..Len(q)
    BY <1>5
  <2> QED BY <2>1 DEF q
<1>9. Shortened
  BY <1>7, Zenon DEF Shortened
<1> QED BY <1>6, <1>7, <1>8, <1>9, Zenon

\* A child's iteration has ended: its pump leaves.
LEMMA EndsIInv ==
  ASSUME IInv, NEW c \in Children, PumpEnds(c)
  PROVE  IInv'
<1> USE DEF IInv
<1>1. /\ childQueue' \in [Children -> Seq(0..MaxEvents)]
      /\ \A d \in Children : Len(childQueue'[d]) <= ChildSize
      /\ Head(childQueue[c]) = childQueue[c][1] /\ 1 \in 1..Len(childQueue[c])
      /\ \A d \in Children : \A i \in 1..Len(childQueue'[d]) :
           \E j \in 1..Len(childQueue[d]) : childQueue'[d][i] = childQueue[d][j]
  BY ChildTail DEF PumpEnds
<1>2. childEnd[c] # "none"
  BY <1>1 DEF PumpEnds, ChildInv
<1>3. firstError' \in Children \cup {NoChild}
      /\ closing' \in {"none", "children", "pumps", "done"}
  BY DEF PumpEnds, TypeInv, TypeOK
<1>4. /\ TypeInv' /\ EndsWhenPumpsAreGone' /\ LossInv' /\ ~closed' /\ outcome' # "stop"
      /\ \A d \in Children : pump'[d] = "done" => d = c \/ pump[d] = "done"
  BY <1>1, <1>3, LeavesIInv DEF PumpEnds
<1>5. childEnd' = childEnd /\ childEnd[c] \in {"stop", "error"}
  BY <1>2 DEF PumpEnds, TypeInv, TypeOK
<1>6. ChildInv'
  <2>1. \A d \in Children : childEnd'[d] = "none" =>
          \A i \in 1..Len(childQueue'[d]) : childQueue'[d][i] # END
    BY <1>1, <1>5 DEF ChildInv
  <2>2. \A d \in Children : pump'[d] = "done" => childEnd'[d] # "none" \/ closing' # "none"
    BY <1>2, <1>4, <1>5 DEF PumpEnds, ChildInv
  <2>3. closing' = "none" /\ firstError' = NoChild =>
          \A d \in Children : pump'[d] = "done" => childEnd'[d] = "stop"
    BY <1>4, <1>5, ChildrenAssumption DEF PumpEnds, ChildInv
  <2>4. firstError' # NoChild => closing' # "none"
    BY DEF PumpEnds, ChildInv
  <2> QED BY <1>4, <2>1, <2>2, <2>3, <2>4 DEF ChildInv
<1>7. ErrorNotMasked'
  BY <1>4 DEF ErrorNotMasked
<1> QED BY <1>4, <1>6, <1>7

\* close() cancels a pump.
LEMMA CancelledIInv ==
  ASSUME IInv, NEW c \in Children, PumpCancelled(c)
  PROVE  IInv'
<1> USE DEF IInv
<1>1. /\ TypeInv' /\ EndsWhenPumpsAreGone' /\ LossInv' /\ ~closed' /\ outcome' # "stop"
      /\ \A d \in Children : pump'[d] = "done" => d = c \/ pump[d] = "done"
  BY LeavesIInv DEF PumpCancelled, TypeInv, TypeOK
<1>2. ChildInv'
  BY <1>1 DEF PumpCancelled, ChildInv
<1>3. ErrorNotMasked'
  BY <1>1 DEF ErrorNotMasked
<1> QED BY <1>1, <1>2, <1>3

\* Every pump has left when the last one has.
LEMMA NoneRuns ==
  ASSUME EndsWhenPumpsAreGone, TypeInv
  PROVE  open = 0 <=> \A c \in Children : pump[c] = "done"
<1>1. open = Cardinality(Running)
  BY DEF EndsWhenPumpsAreGone, Running
<1>2. open = 0 <=> Running = {}
  BY <1>1, RunningLemma, ChildrenAssumption
<1>3. \A c \in Children : pump[c] \in {"running", "done"}
  BY DEF TypeInv, TypeOK
<1> QED BY <1>2, <1>3 DEF Running

\* What a put drops.
LEMMA LostLemma == ASSUME NEW q, NEW size PROVE Lost(q, size) \in 0..1
BY DEF Lost

\* A child buffers an event, or its end.
LEMMA ChildPut ==
  ASSUME TypeInv, NEW c \in Children, NEW item \in 0..MaxEvents,
         childQueue' = [childQueue EXCEPT ![c] = Put(@, item, ChildSize)]
  PROVE  /\ childQueue' \in [Children -> Seq(0..MaxEvents)]
         /\ \A d \in Children : Len(childQueue'[d]) <= ChildSize
         /\ \A d \in Children : d # c => childQueue'[d] = childQueue[d]
         /\ \A i \in 1..Len(childQueue'[c]) :
              childQueue'[c][i] = item \/ \E j \in 1..Len(childQueue[c]) :
                                          childQueue'[c][i] = childQueue[c][j]
<1> USE SizesAssumption
<1> DEFINE q == childQueue[c]
           r == Put(q, item, ChildSize)
<1>1. q \in Seq(0..MaxEvents) /\ Len(q) <= ChildSize
  BY DEF TypeInv, TypeOK
<1>2. childQueue' = [childQueue EXCEPT ![c] = r]
  OBVIOUS
<1>3. childQueue'[c] = r /\ \A d \in Children : d # c => childQueue'[d] = childQueue[d]
  BY <1>2 DEF TypeInv
<1> HIDE DEF q
<1>4. IsPut(0..MaxEvents, q, r, Lost(q, ChildSize), item, ChildSize)
  BY <1>1, PutLemma
<1> HIDE DEF r
<1>5. r \in Seq(0..MaxEvents) /\ Len(r) <= ChildSize
  BY <1>4 DEF IsPut
<1>6. childQueue' \in [Children -> Seq(0..MaxEvents)]
  BY <1>2, <1>5 DEF TypeInv
<1>7. \A d \in Children : Len(childQueue[d]) <= ChildSize
  BY DEF TypeInv, TypeOK
<1>8. \A d \in Children : Len(childQueue'[d]) <= ChildSize
  BY <1>3, <1>5, <1>7
<1>9. ASSUME NEW i \in 1..Len(r), i # Len(r)
      PROVE  \E j \in 1..Len(q) : r[i] = q[j]
  <2>1. i + Lost(q, ChildSize) \in 1..Len(q) /\ i \in 1..(Len(r) - 1)
    <3>1. /\ Len(q) \in Nat /\ Lost(q, ChildSize) \in 0..1 /\ Len(r) \in Nat
          /\ Len(r) = Len(q) + 1 - Lost(q, ChildSize)
      BY <1>1, <1>4, <1>5 DEF IsPut
    <3> QED BY <1>9, <3>1
  <2> QED BY <1>4, <2>1 DEF IsPut
<1>10. r[Len(r)] = item
  BY <1>4 DEF IsPut
<1> QED BY <1>3, <1>6, <1>8, <1>9, <1>10 DEF q

\* A manager pushes an event to a child.
LEMMA PushIInv ==
  ASSUME IInv, NEW c \in Children, PushChild(c)
  PROVE  IInv'
<1> USE SizesAssumption DEF IInv
<1>1. /\ sent[c] + 1 \in 0..MaxEvents /\ sent[c] + 1 # END
      /\ sent' \in [Children -> 0..MaxEvents]
  BY DEF PushChild, TypeInv, TypeOK, END
<1> DEFINE item == sent[c] + 1
<1>2. /\ childQueue' = [childQueue EXCEPT ![c] = Put(@, item, ChildSize)]
      /\ item \in 0..MaxEvents /\ item # END /\ TypeInv
  BY <1>1 DEF PushChild
<1>3. /\ childQueue' \in [Children -> Seq(0..MaxEvents)]
      /\ \A d \in Children : Len(childQueue'[d]) <= ChildSize
      /\ \A d \in Children : d # c => childQueue'[d] = childQueue[d]
      /\ \A i \in 1..Len(childQueue'[c]) :
           childQueue'[c][i] = item \/ \E j \in 1..Len(childQueue[c]) :
                                         childQueue'[c][i] = childQueue[c][j]
  <2> HIDE DEF item, IInv
  <2> QED BY <1>2, ChildPut
<1> HIDE DEF item
<1>4. /\ UNCHANGED <<childEnd, childClosed, pump, queue, open, firstError, closing,
                  closed, consumer, outcome, last, dropped, lag, moved>>
      /\ childDropped' \in [Children -> Nat]
  <2>1. childDropped' = [childDropped EXCEPT ![c] = @ + Lost(childQueue[c], ChildSize)]
    BY DEF PushChild
  <2>2. childDropped \in [Children -> Nat] /\ Lost(childQueue[c], ChildSize) \in 0..1
    BY LostLemma DEF TypeInv, TypeOK
  <2> QED BY <2>1, <2>2 DEF PushChild
<1>5. childClosed' \in [Children -> BOOLEAN] /\ closed' \in BOOLEAN
  BY <1>4, Zenon DEF TypeInv, TypeOK
<1>6. TypeInv'
  BY <1>1, <1>3, <1>4, <1>5 DEF TypeInv, TypeOK
<1>7. ASSUME NEW d \in Children, childEnd'[d] = "none", NEW i \in 1..Len(childQueue'[d])
      PROVE  childQueue'[d][i] # END
  <2>1. childEnd[d] = "none"
    BY <1>4, <1>7
  <2>2. \A j \in 1..Len(childQueue[d]) : childQueue[d][j] # END
    BY <2>1 DEF ChildInv
  <2>3. CASE d # c
    <3>1. childQueue'[d] = childQueue[d]
      BY <1>3, <2>3
    <3> QED BY <1>7, <2>2, <3>1
  <2>4. CASE d = c
    <3>1. childQueue'[c][i] = item \/ \E j \in 1..Len(childQueue[c]) :
                                         childQueue'[c][i] = childQueue[c][j]
      BY <1>3, <1>7, <2>4
    <3> QED BY <1>2, <2>2, <2>4, <3>1
  <2> QED BY <2>3, <2>4
<1>8. ChildInv'
  BY <1>4, <1>7 DEF ChildInv
<1>9. EndsWhenPumpsAreGone' /\ ErrorNotMasked' /\ LossInv'
  BY <1>4 DEF EndsWhenPumpsAreGone, ErrorNotMasked, LossInv, MergedCounts, Waiting
<1> QED BY <1>6, <1>8, <1>9

\* A manager ends a child.
LEMMA EndChildIInv ==
  ASSUME IInv, NEW c \in Children, NEW how \in {"stop", "error"}, EndChild(c, how)
  PROVE  IInv'
<1> USE SizesAssumption DEF IInv
<1>1. childEnd[c] = "none" /\ childEnd' = [childEnd EXCEPT ![c] = how]
      /\ childEnd \in [Children -> {"none", "stop", "error"}]
  BY DEF EndChild, TypeInv, TypeOK
<1>2. childQueue' = [childQueue EXCEPT ![c] = Put(@, END, ChildSize)] /\ END \in 0..MaxEvents
  BY DEF EndChild, END
<1>3. /\ childQueue' \in [Children -> Seq(0..MaxEvents)]
      /\ \A d \in Children : Len(childQueue'[d]) <= ChildSize
      /\ \A d \in Children : d # c => childQueue'[d] = childQueue[d]
  BY <1>2, ChildPut
<1>4. /\ UNCHANGED <<childClosed, sent, pump, queue, open, firstError, closing, closed,
                  consumer, outcome, last, dropped, lag, moved>>
      /\ childDropped' \in [Children -> Nat]
  <2>1. childDropped' = [childDropped EXCEPT ![c] = @ + Lost(childQueue[c], ChildSize)]
    BY DEF EndChild
  <2>2. childDropped \in [Children -> Nat] /\ Lost(childQueue[c], ChildSize) \in 0..1
    BY LostLemma DEF TypeInv, TypeOK
  <2> QED BY <2>1, <2>2 DEF EndChild
<1>5. childClosed' \in [Children -> BOOLEAN] /\ closed' \in BOOLEAN
  BY <1>4, Zenon DEF TypeInv, TypeOK
<1>6. childEnd' \in [Children -> {"none", "stop", "error"}]
  BY <1>1
<1>7. TypeInv'
  BY <1>3, <1>4, <1>5, <1>6 DEF TypeInv, TypeOK
<1>8. ChildInv'
  BY <1>1, <1>3, <1>4 DEF ChildInv
<1>9. EndsWhenPumpsAreGone' /\ LossInv'
  BY <1>4 DEF EndsWhenPumpsAreGone, LossInv, MergedCounts, Waiting
<1>10. ErrorNotMasked'
  BY <1>1, <1>4 DEF ErrorNotMasked
<1> QED BY <1>7, <1>8, <1>9, <1>10

\* close() closes a child.
LEMMA ClosesIInv ==
  ASSUME IInv, NEW c \in Children, ChildCloses(c)
  PROVE  IInv'
<1> USE SizesAssumption DEF IInv
<1>1. /\ childClosed' = [childClosed EXCEPT ![c] = TRUE]
      /\ childQueue' = [childQueue EXCEPT ![c] = <<END>>]
      /\ childEnd' = [childEnd EXCEPT ![c] = IF @ = "none" THEN "stop" ELSE @]
      /\ closing = "children"
      /\ UNCHANGED <<sent, pump, queue, open, firstError, closing, closed, consumer,
                     outcome, last, dropped, lag, moved, childDropped>>
  BY DEF ChildCloses
<1>2. childClosed' \in [Children -> BOOLEAN] /\ closed' \in BOOLEAN
  BY <1>1, Zenon DEF TypeInv, TypeOK
<1>3. <<END>> \in Seq(0..MaxEvents) /\ Len(<<END>>) = 1
  BY DEF END
<1>4. childEnd \in [Children -> {"none", "stop", "error"}]
  BY DEF TypeInv, TypeOK
<1>5. childEnd' \in [Children -> {"none", "stop", "error"}] /\ childEnd'[c] # "none"
      /\ \A d \in Children : d # c => childEnd'[d] = childEnd[d]
  BY <1>1, <1>4
<1>6. /\ childQueue' \in [Children -> Seq(0..MaxEvents)]
      /\ \A d \in Children : d # c => childQueue'[d] = childQueue[d]
      /\ childQueue'[c] = <<END>>
  BY <1>1, <1>3 DEF TypeInv
<1>7. \A d \in Children : Len(childQueue'[d]) <= ChildSize
  <2>1. Len(childQueue'[c]) = 1 /\ 1 <= ChildSize
    BY <1>3, <1>6
  <2>2. \A d \in Children : d # c => Len(childQueue'[d]) <= ChildSize
    BY <1>6 DEF TypeInv, TypeOK
  <2> QED BY <2>1, <2>2
<1>8. TypeInv'
  BY <1>1, <1>2, <1>5, <1>6, <1>7 DEF TypeInv, TypeOK
<1>9. ChildInv'
  BY <1>1, <1>5, <1>6 DEF ChildInv
<1>10. EndsWhenPumpsAreGone' /\ LossInv' /\ ErrorNotMasked'
  BY <1>1 DEF EndsWhenPumpsAreGone, LossInv, MergedCounts, Waiting, ErrorNotMasked
<1> QED BY <1>8, <1>9, <1>10

\* close() begins, and goes on to cancel the pumps.
LEMMA CloseIInv ==
  ASSUME IInv, Close \/ CancelPumps
  PROVE  IInv'
<1> USE DEF IInv
<1>1. /\ closing' \in {"children", "pumps"} /\ closing \in {"none", "children"}
      /\ UNCHANGED <<childQueue, childEnd, childClosed, sent, pump, queue, open,
                     firstError, closed, consumer, outcome, last, dropped, lag, moved, childDropped>>
  BY DEF Close, CancelPumps
<1>2. childClosed' \in [Children -> BOOLEAN] /\ closed' \in BOOLEAN
  BY <1>1, Zenon DEF TypeInv, TypeOK
<1>3. TypeInv'
  BY <1>1, <1>2 DEF TypeInv, TypeOK
<1>4. ChildInv' /\ ErrorNotMasked'
  BY <1>1 DEF ChildInv, ErrorNotMasked
<1>5. EndsWhenPumpsAreGone' /\ LossInv'
  BY <1>1 DEF EndsWhenPumpsAreGone, LossInv, MergedCounts, Waiting
<1> QED BY <1>3, <1>4, <1>5

\* close() ends: only the sentinel stays.
LEMMA CloseEndsIInv ==
  ASSUME IInv, CloseEnds
  PROVE  IInv'
<1> USE SizesAssumption DEF IInv
<1>1. /\ closing' = "done" /\ closed' = TRUE /\ queue' = <<MergedEnd>>
      /\ closing = "pumps" /\ \A c \in Children : pump[c] = "done"
      /\ UNCHANGED <<childQueue, childEnd, childClosed, sent, pump, open, firstError,
                     consumer, outcome, last, dropped, lag, moved, childDropped>>
  BY DEF CloseEnds
<1>2. open = 0
  BY <1>1, NoneRuns
<1>3. queue' \in Seq(Items) /\ Len(queue') = 1 /\ queue'[1] = MergedEnd /\ queue' # <<>>
  BY <1>1 DEF Items
<1>4. childClosed' \in [Children -> BOOLEAN] /\ closed' \in BOOLEAN
  BY <1>1, Zenon DEF TypeInv, TypeOK
<1>5. TypeInv'
  BY <1>1, <1>3, <1>4 DEF TypeInv, TypeOK
<1>6. ChildInv' /\ ErrorNotMasked'
  BY <1>1, <1>2 DEF ChildInv, ErrorNotMasked
<1>7. \A i \in 1..Len(queue') : i = 1
  BY <1>3
<1>8. EndsWhenPumpsAreGone'
  BY <1>1, <1>2, <1>3, <1>7 DEF EndsWhenPumpsAreGone
<1>9. LossInv'
  BY <1>1, <1>3, <1>7 DEF LossInv, MergedCounts
<1> QED BY <1>5, <1>6, <1>8, <1>9

\* An iteration that ends does so with the first error, if there is one.
LEMMA Raises ==
  ASSUME IInv, open = 0, Raise, UNCHANGED <<childEnd, closing>>
  PROVE  outcome' \in {"stop", "error"} /\ ErrorNotMasked'
<1>1. \A c \in Children : pump[c] = "done"
  BY NoneRuns DEF IInv
<1> QED BY <1>1 DEF Raise, ErrorNotMasked, IInv, ChildInv

\* The consumer asks.
LEMMA AnextIInv ==
  ASSUME IInv, Anext
  PROVE  IInv'
<1> USE DEF IInv
<1>1. UNCHANGED <<childQueue, childEnd, childClosed, sent, pump, queue, open,
                  firstError, closing, closed, last, dropped, lag, moved, childDropped>>
  BY DEF Anext
<1>2. childClosed' \in [Children -> BOOLEAN] /\ closed' \in BOOLEAN
  BY <1>1, Zenon DEF TypeInv, TypeOK
<1>3. /\ consumer' \in {"idle", "awaiting"} /\ outcome' \in {"none", "stop", "error"}
      /\ ErrorNotMasked' /\ (outcome' = "stop" => open = 0)
      /\ (open = 0 => queue # <<>> \/ consumer' = "idle")
  <2>1. CASE closed \/ (open = 0 /\ queue = <<>>)
    <3>1. open = 0 /\ Raise /\ consumer' = consumer /\ consumer = "idle"
      BY <2>1 DEF Anext, ChildInv
    <3> QED BY <1>1, <3>1, Raises
  <2>2. CASE ~(closed \/ (open = 0 /\ queue = <<>>))
    BY <1>1, <2>2 DEF Anext, TypeInv, TypeOK, ErrorNotMasked, ChildInv
  <2> QED BY <2>1, <2>2
<1>4. TypeInv'
  BY <1>1, <1>2, <1>3 DEF TypeInv, TypeOK
<1>5. ChildInv' /\ EndsWhenPumpsAreGone' /\ LossInv'
  BY <1>1, <1>3 DEF ChildInv, EndsWhenPumpsAreGone, LossInv, MergedCounts, Waiting
<1> QED BY <1>3, <1>4, <1>5

\* The consumer gets an item: an event, or the end.
LEMMA GetIInv ==
  ASSUME IInv, Get
  PROVE  IInv'
<1> USE SizesAssumption DEF IInv
<1>1. /\ queue # <<>> /\ queue' = Tail(queue) /\ consumer' = "idle"
      /\ UNCHANGED <<childQueue, childEnd, childClosed, sent, pump, open, firstError,
                     closing, closed, dropped, moved, childDropped>>
  BY DEF Get
<1>2. queue \in Seq(Items) /\ Len(queue) <= QueueSize /\ lag \in Nat /\ dropped \in Nat
      /\ last \in [Children -> 0..MaxEvents]
  BY DEF TypeInv, TypeOK
<1>3. /\ Tail(queue) \in Seq(Items) /\ Len(Tail(queue)) = Len(queue) - 1
      /\ Len(queue) \in Nat \ {0} /\ Head(queue) = queue[1] /\ queue[1] \in Items
      /\ \A i \in 1..(Len(queue) - 1) : Tail(queue)[i] = queue[i + 1]
  BY <1>1, <1>2, TailLemma
<1>4. childClosed' \in [Children -> BOOLEAN] /\ closed' \in BOOLEAN
  BY <1>1, Zenon DEF TypeInv, TypeOK
<1>5. \A i \in 1..Len(queue) : queue[i] = MergedEnd => open = 0 /\ i = Len(queue)
  BY DEF EndsWhenPumpsAreGone
<1>6. Len(queue') = Len(queue) - 1 /\ Len(queue) \in Nat \ {0}
  BY <1>1, <1>3
<1>7. ASSUME NEW i \in 1..Len(queue') PROVE i + 1 \in 1..Len(queue) /\ queue'[i] = queue[i + 1]
  BY <1>1, <1>3
<1>8. EndsWhenPumpsAreGone'
  <2>1. ASSUME NEW i \in 1..Len(queue'), queue'[i] = MergedEnd
        PROVE  open' = 0 /\ i = Len(queue')
    <3>1. i + 1 = Len(queue) /\ open = 0
      BY <1>5, <1>7, <2>1
    <3>2. open' = open
      BY <1>1
    <3> QED BY <1>6, <2>1, <3>1, <3>2
  <2> QED BY <1>1, <2>1 DEF EndsWhenPumpsAreGone
<1>9. CASE queue[1] = MergedEnd
  <2>1. open = 0 /\ Len(queue) = 1
    <3>1. 1 \in 1..Len(queue)
      BY <1>6
    <3> QED BY <1>5, <1>9, <3>1
  <2>2. Raise /\ last' = last /\ lag' = lag
    BY <1>3, <1>9 DEF Get
  <2>3. outcome' \in {"stop", "error"} /\ ErrorNotMasked'
    BY <1>1, <2>1, <2>2, Raises
  <2>4. TypeInv'
    BY <1>1, <1>2, <1>3, <1>4, <2>2, <2>3 DEF TypeInv, TypeOK
  <2>5. ChildInv'
    BY <1>1, <2>1 DEF ChildInv
  <2>6. Len(queue') = 0 /\ queue' = <<>>
    BY <1>1, <1>3, <2>1
  <2>7. Waiting = 0 /\ Waiting' = 0
    BY <1>1, <1>9, <2>1, <2>6 DEF Waiting
  <2>8. LossInv'
    BY <1>1, <2>2, <2>6, <2>7 DEF LossInv, MergedCounts
  <2> QED BY <1>8, <2>3, <2>4, <2>5, <2>8
<1>10. CASE queue[1] # MergedEnd
  <2>1. PICK c \in Children, e \in 1..MaxEvents : queue[1] = <<c, e>>
    BY <1>3, <1>10 DEF Items
  <2>2. last' = [last EXCEPT ![c] = e] /\ lag' = lag - 1 /\ outcome' = outcome
    BY <1>3, <1>10, <2>1 DEF Get
  <2>3. ~closed /\ lag = dropped + Waiting
    BY <1>3, <1>10 DEF LossInv, MergedCounts
  <2>4. Waiting \in 1..Len(queue) /\ Waiting' = Waiting - 1
    <3>1. CASE Len(queue) = 1
      <4>1. queue' = <<>> /\ Len(queue') = 0
        BY <1>1, <1>3, <3>1
      <4> QED BY <1>1, <1>10, <3>1, <4>1 DEF Waiting
    <3>2. CASE Len(queue) # 1
      <4>1. Len(queue') = Len(queue) - 1 /\ queue' # <<>> /\ queue'[Len(queue')] = queue[Len(queue)]
        <5>1. Len(queue') \in 1..Len(queue')
          BY <1>6, <3>2
        <5>2. queue'[Len(queue')] = queue[Len(queue') + 1] /\ Len(queue') + 1 = Len(queue)
          BY <1>7, <1>6, <5>1
        <5>3. queue' # <<>>
          BY <5>1
        <5> QED BY <1>6, <5>2, <5>3
      <4> QED BY <1>1, <1>3, <3>2, <4>1 DEF Waiting
    <3> QED BY <3>1, <3>2
  <2>5. lag' \in Nat /\ lag' = dropped' + Waiting'
    BY <1>1, <1>2, <1>3, <2>2, <2>3, <2>4
  <2>6. last' \in [Children -> 0..MaxEvents]
    BY <1>2, <2>2
  <2>7. TypeInv'
    <3>1. queue' \in Seq(Items) /\ Len(queue') <= QueueSize
      BY <1>1, <1>2, <1>3
    <3> QED BY <1>1, <1>4, <2>2, <2>5, <2>6, <3>1 DEF TypeInv, TypeOK
  <2>8. ChildInv' /\ ErrorNotMasked'
    BY <1>1, <2>2 DEF ChildInv, ErrorNotMasked
  <2>9. LossInv'
    BY <1>1, <2>3, <2>5 DEF LossInv, MergedCounts
  <2> QED BY <1>8, <2>7, <2>8, <2>9
<1> QED BY <1>9, <1>10

\* Every step keeps the invariant.
LEMMA NextIInv == IInv /\ [Next]_vars => IInv'
<1> SUFFICES ASSUME IInv, [Next]_vars PROVE IInv'
  OBVIOUS
<1>1. CASE UNCHANGED vars
  BY <1>1 DEF vars, IInv, TypeInv, TypeOK, EndsWhenPumpsAreGone, ChildInv, ErrorNotMasked,
              LossInv, MergedCounts, Waiting
<1>2. CASE Next
  BY <1>2, PushIInv, EndChildIInv, MovesIInv, EndsIInv, ClosesIInv, CancelledIInv, CloseIInv,
     CloseEndsIInv, AnextIInv, GetIInv DEF Next
<1> QED BY <1>1, <1>2

LEMMA Inductive == Spec => []IInv
BY InitIInv, NextIInv, PTL DEF Spec

-----------------------------------------------------------------------------
(* The losses of a child.                                                   *)

\* What a child accepted has been moved by the pump, dropped, or waits before
\* the sentinel, until close() discards it.
CountsOf(c) ==
  /\ \A i \in 1..Len(childQueue[c]) : childQueue[c][i] = END => i = Len(childQueue[c])
  /\ ~childClosed[c] => sent[c] = moved[c] + childDropped[c] + Buffered(childQueue[c])

ChildLossInv == \A c \in Children : CountsOf(c)

\* A step that concerns one child leaves the counts of the others alone.
LEMMA OthersCount ==
  ASSUME ChildLossInv, NEW c \in Children, CountsOf(c)',
         \A d \in Children : d # c =>
           /\ childQueue'[d] = childQueue[d] /\ childClosed'[d] = childClosed[d]
           /\ sent'[d] = sent[d] /\ moved'[d] = moved[d] /\ childDropped'[d] = childDropped[d]
  PROVE  ChildLossInv'
<1> SUFFICES ASSUME NEW d \in Children, d # c PROVE CountsOf(d)'
  BY DEF ChildLossInv
<1>1. CountsOf(d)
  BY DEF ChildLossInv
<1> QED BY <1>1 DEF CountsOf

\* How many events wait in a queue an item has been put to.
LEMMA BufferedPut ==
  ASSUME NEW q \in Seq(0..MaxEvents), NEW item \in 0..MaxEvents, Len(q) <= ChildSize,
         \A i \in 1..Len(q) : q[i] # END
  PROVE  LET r == Put(q, item, ChildSize) IN
         /\ Buffered(q) = Len(q) /\ Len(q) \in Nat /\ Lost(q, ChildSize) \in 0..1
         /\ \A i \in 1..Len(r) : r[i] = END => i = Len(r)
         /\ Buffered(r) = Len(q) - Lost(q, ChildSize) + (IF item = END THEN 0 ELSE 1)
<1> USE SizesAssumption
<1> DEFINE r == Put(q, item, ChildSize)
           lost == Lost(q, ChildSize)
<1>1. Buffered(q) = Len(q) /\ Len(q) \in Nat
  BY DEF Buffered, EndQueued
<1>2. IsPut(0..MaxEvents, q, r, lost, item, ChildSize)
  BY PutLemma
<1> HIDE DEF r, lost
<1>3. /\ r \in Seq(0..MaxEvents) /\ lost \in 0..1 /\ Len(r) = Len(q) + 1 - lost
      /\ Len(r) \in 1..ChildSize /\ r[Len(r)] = item
      /\ \A i \in 1..(Len(r) - 1) : r[i] = q[i + lost]
  BY <1>2 DEF IsPut
<1>4. ASSUME NEW i \in 1..Len(r), i # Len(r) PROVE r[i] # END
  <2>1. i \in 1..(Len(r) - 1) /\ i + lost \in 1..Len(q)
    BY <1>1, <1>3, <1>4
  <2> QED BY <1>3, <2>1
<1>5. r # <<>>
  BY <1>3
<1>6. Buffered(r) = IF item = END THEN Len(r) - 1 ELSE Len(r)
  BY <1>3, <1>5 DEF Buffered, EndQueued
<1>7. Buffered(r) = Len(q) - lost + (IF item = END THEN 0 ELSE 1)
  BY <1>1, <1>3, <1>6
<1> QED BY <1>1, <1>3, <1>4, <1>7 DEF r, lost

\* How many events wait in a queue whose first item has been taken.
LEMMA BufferedTail ==
  ASSUME NEW q \in Seq(0..MaxEvents), q # <<>>,
         \A i \in 1..Len(q) : q[i] = END => i = Len(q)
  PROVE  /\ Buffered(q) = Buffered(Tail(q)) + (IF Head(q) = END THEN 0 ELSE 1)
         /\ Buffered(Tail(q)) \in Nat
         /\ \A i \in 1..Len(Tail(q)) : Tail(q)[i] = END => i = Len(Tail(q))
<1> DEFINE r == Tail(q)
<1>1. /\ r \in Seq(0..MaxEvents) /\ Len(r) = Len(q) - 1 /\ Len(q) \in Nat \ {0}
      /\ Head(q) = q[1] /\ \A i \in 1..(Len(q) - 1) : r[i] = q[i + 1]
  BY TailLemma
<1> HIDE DEF r
<1>2. ASSUME NEW i \in 1..Len(r), r[i] = END PROVE i = Len(r)
  <2>1. i + 1 \in 1..Len(q) /\ q[i + 1] = END
    BY <1>1, <1>2
  <2>2. i + 1 = Len(q)
    BY <2>1
  <2> QED BY <1>1, <2>2
<1>3. Buffered(q) = Buffered(r) + (IF Head(q) = END THEN 0 ELSE 1) /\ Buffered(r) \in Nat
  <2>1. CASE Len(q) = 1
    <3>1. r = <<>> /\ Len(r) = 0
      BY <1>1, <2>1
    <3>2. Buffered(r) = 0
      BY <3>1 DEF Buffered, EndQueued
    <3>3. Buffered(q) = IF q[1] = END THEN 0 ELSE 1
      BY <2>1 DEF Buffered, EndQueued
    <3> QED BY <1>1, <3>2, <3>3
  <2>2. CASE Len(q) # 1
    <3>1. Len(r) \in Nat \ {0} /\ r # <<>> /\ 1 \in 1..Len(q) /\ Len(r) \in 1..(Len(q) - 1)
      BY <1>1, <2>2
    <3>2. q[1] # END
      BY <2>2, <3>1
    <3>3. r[Len(r)] = q[Len(q)]
      BY <1>1, <3>1
    <3>4. EndQueued(r) = EndQueued(q)
      BY <3>1, <3>3 DEF EndQueued
    <3> QED BY <1>1, <3>1, <3>2, <3>4 DEF Buffered
  <2> QED BY <2>1, <2>2
<1> QED BY <1>2, <1>3 DEF r

\* A manager pushes an event to a child or ends it.
LEMMA ManagerCounts ==
  ASSUME IInv, ChildLossInv, NEW c \in Children,
         PushChild(c) \/ \E how \in {"stop", "error"} : EndChild(c, how)
  PROVE  ChildLossInv'
<1> USE SizesAssumption
<1> DEFINE q == childQueue[c]
<1>1. PICK item \in 0..MaxEvents :
        /\ childQueue' = [childQueue EXCEPT ![c] = Put(q, item, ChildSize)]
        /\ sent' = [sent EXCEPT ![c] = @ + (IF item = END THEN 0 ELSE 1)]
  <2>1. CASE PushChild(c)
    <3>1. sent[c] + 1 \in 0..MaxEvents /\ sent[c] + 1 # END
      BY <2>1 DEF PushChild, IInv, TypeInv, TypeOK, END
    <3> QED BY <2>1, <3>1 DEF PushChild
  <2>2. CASE \E how \in {"stop", "error"} : EndChild(c, how)
    <3>1. END \in 0..MaxEvents /\ sent = [sent EXCEPT ![c] = @ + 0]
      BY DEF END, IInv, TypeInv, TypeOK
    <3> QED BY <2>2, <3>1 DEF EndChild
  <2> QED BY <2>1, <2>2
<1>2. /\ childEnd[c] = "none" /\ UNCHANGED <<childClosed, moved>>
      /\ childDropped' = [childDropped EXCEPT ![c] = @ + Lost(q, ChildSize)]
  BY DEF PushChild, EndChild
<1>3. /\ q \in Seq(0..MaxEvents) /\ Len(q) <= ChildSize /\ \A i \in 1..Len(q) : q[i] # END
      /\ sent[c] \in Nat /\ moved[c] \in Nat /\ childDropped[c] \in Nat
  BY <1>2 DEF IInv, TypeInv, TypeOK, ChildInv
<1>4. /\ childQueue'[c] = Put(q, item, ChildSize)
      /\ sent'[c] = sent[c] + (IF item = END THEN 0 ELSE 1)
      /\ childDropped'[c] = childDropped[c] + Lost(q, ChildSize)
      /\ \A d \in Children : d # c =>
           childQueue'[d] = childQueue[d] /\ sent'[d] = sent[d] /\ childDropped'[d] = childDropped[d]
  BY <1>1, <1>2 DEF IInv, TypeInv, TypeOK
<1>5. ~childClosed[c] => sent[c] = moved[c] + childDropped[c] + Buffered(q)
  BY DEF ChildLossInv, CountsOf
<1> HIDE DEF q
<1>6. /\ Buffered(q) = Len(q) /\ Len(q) \in Nat /\ Lost(q, ChildSize) \in 0..1
      /\ \A i \in 1..Len(childQueue'[c]) : childQueue'[c][i] = END => i = Len(childQueue'[c])
      /\ Buffered(childQueue'[c]) = Len(q) - Lost(q, ChildSize) + (IF item = END THEN 0 ELSE 1)
  BY <1>3, <1>4, BufferedPut
<1>7. ~childClosed'[c] =>
        sent'[c] = moved'[c] + childDropped'[c] + Buffered(childQueue'[c])
  BY <1>2, <1>3, <1>4, <1>5, <1>6
<1> QED BY <1>2, <1>4, <1>6, <1>7, OthersCount DEF CountsOf

\* The pump of a child takes an event, or the end.
LEMMA PumpCounts ==
  ASSUME IInv, ChildLossInv, NEW c \in Children, PumpMoves(c) \/ PumpEnds(c)
  PROVE  ChildLossInv'
<1> DEFINE q == childQueue[c]
<1>1. /\ q # <<>> /\ childQueue' = [childQueue EXCEPT ![c] = Tail(q)]
      /\ moved' = [moved EXCEPT ![c] = @ + (IF Head(q) = END THEN 0 ELSE 1)]
      /\ UNCHANGED <<childClosed, sent, childDropped>>
  <2>1. moved = [moved EXCEPT ![c] = @ + 0]
    BY DEF IInv, TypeInv, TypeOK
  <2> QED BY <2>1 DEF PumpMoves, PumpEnds
<1>2. /\ q \in Seq(0..MaxEvents)
      /\ sent[c] \in Nat /\ moved[c] \in Nat /\ childDropped[c] \in Nat
      /\ \A i \in 1..Len(q) : q[i] = END => i = Len(q)
      /\ ~childClosed[c] => sent[c] = moved[c] + childDropped[c] + Buffered(q)
  BY DEF IInv, TypeInv, TypeOK, ChildLossInv, CountsOf
<1>3. /\ childQueue'[c] = Tail(q)
      /\ moved'[c] = moved[c] + (IF Head(q) = END THEN 0 ELSE 1)
      /\ \A d \in Children : d # c => childQueue'[d] = childQueue[d] /\ moved'[d] = moved[d]
  BY <1>1 DEF IInv, TypeInv, TypeOK
<1> HIDE DEF q
<1>4. /\ Buffered(q) = Buffered(Tail(q)) + (IF Head(q) = END THEN 0 ELSE 1)
      /\ Buffered(Tail(q)) \in Nat
      /\ \A i \in 1..Len(Tail(q)) : Tail(q)[i] = END => i = Len(Tail(q))
  BY <1>1, <1>2, BufferedTail
<1>5. ASSUME ~childClosed'[c]
      PROVE  sent'[c] = moved'[c] + childDropped'[c] + Buffered(childQueue'[c])
  <2> DEFINE step == IF Head(q) = END THEN 0 ELSE 1
  <2>1. step \in 0..1
    OBVIOUS
  <2>2. moved'[c] = moved[c] + step /\ Buffered(q) = Buffered(Tail(q)) + step
    BY <1>3, <1>4
  <2> HIDE DEF step
  <2>3. sent[c] = moved[c] + childDropped[c] + Buffered(q)
    BY <1>1, <1>2, <1>5
  <2>4. Buffered(childQueue'[c]) = Buffered(Tail(q))
    BY <1>3
  <2>5. sent'[c] = sent[c] /\ childDropped'[c] = childDropped[c]
    BY <1>1
  <2> QED BY <1>2, <1>4, <2>1, <2>2, <2>3, <2>4, <2>5
<1> QED BY <1>1, <1>3, <1>4, <1>5, OthersCount DEF CountsOf

LEMMA NextCounts == IInv /\ ChildLossInv /\ [Next]_vars => ChildLossInv'
<1> SUFFICES ASSUME IInv, ChildLossInv, [Next]_vars PROVE ChildLossInv'
  OBVIOUS
<1>1. ASSUME NEW c \in Children, ChildCloses(c) PROVE ChildLossInv'
  <2>1. /\ childQueue' = [childQueue EXCEPT ![c] = <<END>>]
        /\ childClosed' = [childClosed EXCEPT ![c] = TRUE]
        /\ UNCHANGED <<sent, moved, childDropped>>
    BY <1>1 DEF ChildCloses
  <2>2. /\ childQueue'[c] = <<END>> /\ childClosed'[c]
        /\ \A d \in Children : d # c => childQueue'[d] = childQueue[d]
                                        /\ childClosed'[d] = childClosed[d]
    BY <2>1 DEF IInv, TypeInv, TypeOK
  <2>3. \A i \in 1..Len(<<END>>) : i = Len(<<END>>)
    OBVIOUS
  <2> QED BY <2>1, <2>2, <2>3, OthersCount DEF CountsOf
<1>2. CASE UNCHANGED <<childQueue, childClosed, sent, moved, childDropped>>
  BY <1>2 DEF ChildLossInv, CountsOf
<1>3. ASSUME NEW c \in Children, PumpCancelled(c) PROVE ChildLossInv'
  BY <1>2, <1>3 DEF PumpCancelled
<1>4. CASE Close \/ CancelPumps \/ CloseEnds \/ Anext \/ Get \/ UNCHANGED vars
  BY <1>2, <1>4 DEF Close, CancelPumps, CloseEnds, Anext, Get, vars
<1> QED BY <1>1, <1>3, <1>4, ManagerCounts, PumpCounts DEF Next

-----------------------------------------------------------------------------
(* The end of the iteration.                                                *)

\* An iteration that has ended has nothing left to deliver, and nobody is left
\* to change its outcome.
OutcomeInv ==
  outcome # "none" =>
    /\ open = 0
    /\ outcome = IF firstError # NoChild THEN "error" ELSE "stop"
    /\ \A i \in 1..Len(queue) : queue[i] = MergedEnd

\* OutcomeIsFinal, of one step.
Final == outcome # "none" => UNCHANGED <<outcome, firstError, last>>

LEMMA NextOutcome == IInv /\ OutcomeInv /\ [Next]_vars => OutcomeInv' /\ Final
<1> SUFFICES ASSUME IInv, OutcomeInv, [Next]_vars PROVE OutcomeInv' /\ Final
  OBVIOUS
<1>1. CASE UNCHANGED <<outcome, firstError, last, open, queue>>
  BY <1>1 DEF OutcomeInv, Final
<1>2. ASSUME NEW c \in Children, PumpMoves(c) \/ PumpEnds(c) \/ PumpCancelled(c)
      PROVE  OutcomeInv' /\ Final
  <2>1. pump[c] = "running" /\ outcome' = outcome
    BY <1>2 DEF PumpMoves, PumpEnds, PumpCancelled
  <2>2. open # 0
    BY <2>1, NoneRuns DEF IInv
  <2> QED BY <2>1, <2>2 DEF OutcomeInv, Final
<1>3. CASE CloseEnds
  <2>1. queue' = <<MergedEnd>> /\ UNCHANGED <<outcome, firstError, last, open>>
    BY <1>3 DEF CloseEnds
  <2>2. \A i \in 1..Len(<<MergedEnd>>) : <<MergedEnd>>[i] = MergedEnd
    OBVIOUS
  <2> QED BY <2>1, <2>2 DEF OutcomeInv, Final
<1>4. CASE Anext
  <2>1. UNCHANGED <<firstError, last, open, queue>>
    BY <1>4 DEF Anext
  <2>2. CASE closed \/ (open = 0 /\ queue = <<>>)
    <3>1. open = 0 /\ Raise /\ \A i \in 1..Len(queue) : queue[i] = MergedEnd
      BY <1>4, <2>2 DEF Anext, IInv, ChildInv, LossInv
    <3> QED BY <2>1, <3>1 DEF Raise, OutcomeInv, Final
  <2>3. CASE ~(closed \/ (open = 0 /\ queue = <<>>))
    BY <1>1, <1>4, <2>1, <2>3 DEF Anext
  <2> QED BY <2>2, <2>3
<1>5. CASE Get
  <2>1. /\ queue # <<>> /\ queue' = Tail(queue) /\ UNCHANGED <<firstError, open>>
        /\ queue \in Seq(Items)
    BY <1>5 DEF Get, IInv, TypeInv, TypeOK
  <2>2. /\ Len(queue) \in Nat \ {0} /\ Head(queue) = queue[1] /\ 1 \in 1..Len(queue)
        /\ Len(queue') = Len(queue) - 1
    BY <2>1, TailLemma
  <2>3. CASE queue[1] = MergedEnd
    <3>1. open = 0 /\ Len(queue) = 1
      BY <2>2, <2>3 DEF IInv, EndsWhenPumpsAreGone
    <3>2. Raise /\ last' = last
      BY <1>5, <2>2, <2>3 DEF Get
    <3>3. 1..Len(queue') = {}
      BY <2>2, <3>1
    <3> QED BY <2>1, <3>1, <3>2, <3>3 DEF Raise, OutcomeInv, Final
  <2>4. CASE queue[1] # MergedEnd
    <3>1. outcome = "none"
      BY <2>2, <2>4 DEF OutcomeInv
    <3>2. outcome' = outcome
      BY <1>5, <2>2, <2>4 DEF Get
    <3> QED BY <3>1, <3>2 DEF OutcomeInv, Final
  <2> QED BY <2>3, <2>4
<1>6. ASSUME NEW c \in Children,
             PushChild(c) \/ ChildCloses(c) \/ \E how \in {"stop", "error"} : EndChild(c, how)
      PROVE  OutcomeInv' /\ Final
  BY <1>1, <1>6 DEF PushChild, ChildCloses, EndChild
<1>7. CASE Close \/ CancelPumps \/ UNCHANGED vars
  BY <1>1, <1>7 DEF Close, CancelPumps, vars
<1> QED BY <1>2, <1>3, <1>4, <1>5, <1>6, <1>7 DEF Next

-----------------------------------------------------------------------------
(* The order of the events of a child.                                      *)

Event(item) == item # MergedEnd

\* A child's events wait in their order: those the consumer has received before
\* those in the merged queue, and these before those the child still holds.
QueueOrder ==
  /\ \A i, j \in 1..Len(queue) :
       i < j /\ Event(queue[j]) /\ queue[i][1] = queue[j][1] => queue[i][2] < queue[j][2]
  /\ \A i \in 1..Len(queue) : Event(queue[i]) =>
       last[queue[i][1]] < queue[i][2] /\ queue[i][2] <= sent[queue[i][1]]
  /\ \A c \in Children : last[c] <= sent[c]

HeldOrder ==
  \A c \in Children : \A i \in 1..Len(childQueue[c]) : childQueue[c][i] # END =>
    /\ childQueue[c][i] <= sent[c] /\ last[c] < childQueue[c][i]
    /\ \A j \in 1..Len(queue) :
         Event(queue[j]) /\ queue[j][1] = c => queue[j][2] < childQueue[c][i]
    /\ \A j \in 1..Len(childQueue[c]) :
         i < j /\ childQueue[c][j] # END => childQueue[c][i] < childQueue[c][j]

OrderInv == QueueOrder /\ HeldOrder

\* An event in the merged queue is a child and a number.
LEMMA EventParts ==
  ASSUME TypeInv, NEW i \in 1..Len(queue), Event(queue[i])
  PROVE  /\ queue[i][1] \in Children /\ queue[i][2] \in 1..MaxEvents
         /\ queue[i] = <<queue[i][1], queue[i][2]>>
<1>1. queue[i] \in Items
  BY DEF TypeInv, TypeOK
<1>2. PICK c \in Children, e \in 1..MaxEvents : queue[i] = <<c, e>>
  BY <1>1 DEF Items, Event
<1> QED BY <1>2

\* A sentinel that is put at the end changes no order.
LEMMA SentinelOrder ==
  ASSUME TypeInv, OrderInv, NEW lost, UNCHANGED <<last, sent>>,
         IsPut(Items, queue, queue', lost, MergedEnd, QueueSize)
  PROVE  /\ QueueOrder'
         /\ \A i \in 1..Len(queue') : Event(queue'[i]) =>
              \E j \in 1..Len(queue) : queue'[i] = queue[j]
<1>1. Len(queue) \in Nat /\ lost \in 0..1 /\ Len(queue') = Len(queue) + 1 - lost
  BY DEF IsPut, TypeInv, TypeOK
<1>2. ASSUME NEW i \in 1..Len(queue'), i # Len(queue')
      PROVE  i + lost \in 1..Len(queue) /\ queue'[i] = queue[i + lost]
  <2>1. i + lost \in 1..Len(queue) /\ i \in 1..(Len(queue') - 1)
    BY <1>1, <1>2
  <2> QED BY <2>1 DEF IsPut
<1>3. queue'[Len(queue')] = MergedEnd
  BY DEF IsPut
<1>4. ASSUME NEW i \in 1..Len(queue'), NEW j \in 1..Len(queue'),
             i < j, Event(queue'[j]), queue'[i][1] = queue'[j][1]
      PROVE  queue'[i][2] < queue'[j][2]
  <2>1. j # Len(queue') /\ i # Len(queue')
    BY <1>1, <1>3, <1>4 DEF Event
  <2>2. /\ i + lost \in 1..Len(queue) /\ queue'[i] = queue[i + lost]
        /\ j + lost \in 1..Len(queue) /\ queue'[j] = queue[j + lost]
    BY <1>2, <2>1
  <2>3. i + lost < j + lost
    BY <1>1, <1>4
  <2> QED BY <1>4, <2>2, <2>3 DEF OrderInv, QueueOrder
<1>5. ASSUME NEW i \in 1..Len(queue'), Event(queue'[i])
      PROVE  last'[queue'[i][1]] < queue'[i][2] /\ queue'[i][2] <= sent'[queue'[i][1]]
  <2>1. i # Len(queue')
    BY <1>3, <1>5 DEF Event
  <2> QED BY <1>2, <1>5, <2>1 DEF OrderInv, QueueOrder
<1>6. ASSUME NEW i \in 1..Len(queue'), Event(queue'[i])
      PROVE  \E j \in 1..Len(queue) : queue'[i] = queue[j]
  <2>1. i # Len(queue')
    BY <1>3, <1>6 DEF Event
  <2> QED BY <1>2, <2>1
<1> QED BY <1>4, <1>5, <1>6 DEF OrderInv, QueueOrder

\* Queues that lose items keep their order.
LEMMA HeldKept ==
  ASSUME TypeInv, HeldOrder, UNCHANGED <<last, sent>>, Shortened,
         childQueue' \in [Children -> Seq(0..MaxEvents)],
         \A i \in 1..Len(queue') : Event(queue'[i]) =>
           \E j \in 1..Len(queue) : queue'[i] = queue[j]
  PROVE  HeldOrder'
<1> SUFFICES ASSUME NEW d \in Children, NEW i \in 1..Len(childQueue'[d]),
                    childQueue'[d][i] # END
             PROVE  /\ childQueue'[d][i] <= sent'[d] /\ last'[d] < childQueue'[d][i]
                    /\ \A j \in 1..Len(queue') :
                         Event(queue'[j]) /\ queue'[j][1] = d => queue'[j][2] < childQueue'[d][i]
                    /\ \A j \in 1..Len(childQueue'[d]) :
                         i < j /\ childQueue'[d][j] # END => childQueue'[d][i] < childQueue'[d][j]
  BY DEF HeldOrder
<1>1. PICK k \in 0..1 : \A j \in 1..Len(childQueue'[d]) :
        j + k \in 1..Len(childQueue[d]) /\ childQueue'[d][j] = childQueue[d][j + k]
  BY DEF Shortened
<1>2. /\ childQueue[d][i + k] <= sent[d] /\ last[d] < childQueue[d][i + k]
      /\ \A j \in 1..Len(queue) :
           Event(queue[j]) /\ queue[j][1] = d => queue[j][2] < childQueue[d][i + k]
      /\ \A j \in 1..Len(childQueue[d]) :
           i + k < j /\ childQueue[d][j] # END => childQueue[d][i + k] < childQueue[d][j]
  BY <1>1 DEF HeldOrder
<1>3. ASSUME NEW j \in 1..Len(childQueue'[d]), i < j, childQueue'[d][j] # END
      PROVE  childQueue'[d][i] < childQueue'[d][j]
  <2>1. i + k < j + k
    BY <1>3
  <2> QED BY <1>1, <1>2, <1>3, <2>1
<1>4. ASSUME NEW j \in 1..Len(queue'), Event(queue'[j]), queue'[j][1] = d
      PROVE  queue'[j][2] < childQueue'[d][i]
  BY <1>1, <1>2, <1>4
<1> QED BY <1>1, <1>2, <1>3, <1>4

\* A pump that leaves, with or without the last item of its child.
LEMMA LeavesOrder ==
  ASSUME IInv, OrderInv, NEW c \in Children, pump[c] = "running", PumpLeaves(c),
         UNCHANGED <<last, sent>>, Shortened,
         childQueue' \in [Children -> Seq(0..MaxEvents)]
  PROVE  OrderInv'
<1> USE SizesAssumption
<1>1. TypeInv /\ queue \in Seq(Items) /\ Len(queue) <= QueueSize /\ MergedEnd \in Items
  BY DEF IInv, TypeInv, TypeOK, Items
<1>2. CASE open = 1
  <2>1. queue' = Put(queue, MergedEnd, QueueSize)
    BY <1>2 DEF PumpLeaves
  <2>2. IsPut(Items, queue, queue', Lost(queue, QueueSize), MergedEnd, QueueSize)
    BY <1>1, <2>1, PutLemma
  <2>3. /\ QueueOrder'
        /\ \A i \in 1..Len(queue') : Event(queue'[i]) =>
             \E j \in 1..Len(queue) : queue'[i] = queue[j]
    BY <1>1, <2>2, SentinelOrder
  <2> QED BY <1>1, <2>3, HeldKept DEF OrderInv
<1>3. CASE open # 1
  <2>1. queue' = queue
    BY <1>3 DEF PumpLeaves
  <2>2. QueueOrder'
    BY <2>1 DEF OrderInv, QueueOrder
  <2> QED BY <1>1, <2>1, <2>2, HeldKept DEF OrderInv
<1> QED BY <1>2, <1>3

\* A child buffers its next event, or its end.
LEMMA HeldPut ==
  ASSUME TypeInv, OrderInv, NEW c \in Children, NEW item \in 0..MaxEvents,
         childQueue' = [childQueue EXCEPT ![c] = Put(@, item, ChildSize)],
         UNCHANGED <<queue, last>>,
         sent' \in [Children -> 0..MaxEvents],
         \A d \in Children : sent[d] <= sent'[d],
         item # END => item = sent[c] + 1 /\ item = sent'[c]
  PROVE  OrderInv'
<1> USE SizesAssumption
<1> DEFINE q == childQueue[c]
           r == Put(q, item, ChildSize)
           lost == Lost(q, ChildSize)
<1>1. /\ q \in Seq(0..MaxEvents) /\ Len(q) <= ChildSize
      /\ sent \in [Children -> 0..MaxEvents] /\ last \in [Children -> 0..MaxEvents]
  BY DEF TypeInv, TypeOK
<1>2. childQueue' = [childQueue EXCEPT ![c] = r]
  OBVIOUS
<1>3. childQueue'[c] = r /\ \A d \in Children : d # c => childQueue'[d] = childQueue[d]
  BY <1>2 DEF TypeInv
<1> HIDE DEF q
<1>4. IsPut(0..MaxEvents, q, r, lost, item, ChildSize)
  BY <1>1, PutLemma
<1> HIDE DEF r, lost
<1>5. /\ Len(q) \in Nat /\ lost \in 0..1 /\ Len(r) \in Nat /\ Len(r) = Len(q) + 1 - lost
      /\ r \in Seq(0..MaxEvents) /\ r[Len(r)] = item
  <2>1. Len(q) \in Nat
    BY <1>1
  <2>2. /\ lost \in 0..1 /\ Len(r) = Len(q) + 1 - lost
        /\ r \in Seq(0..MaxEvents) /\ r[Len(r)] = item
    BY <1>4 DEF IsPut
  <2>3. Len(r) \in Nat
    BY <2>2
  <2> QED BY <2>1, <2>2, <2>3
<1>6. ASSUME NEW i \in 1..Len(r), i # Len(r)
      PROVE  i + lost \in 1..Len(q) /\ r[i] = q[i + lost]
  <2>1. i + lost \in 1..Len(q) /\ i \in 1..(Len(r) - 1)
    <3>1. Len(q) \in Nat /\ lost \in 0..1 /\ Len(r) \in Nat /\ Len(r) = Len(q) + 1 - lost
      BY <1>5
    <3> HIDE DEF q
    <3> QED BY <1>6, <3>1
  <2> QED BY <1>4, <2>1 DEF IsPut
<1>7. ASSUME NEW i \in 1..Len(queue), Event(queue[i])
      PROVE  queue[i][1] \in Children /\ queue[i][2] \in 1..MaxEvents
  BY <1>7, EventParts
<1>8. QueueOrder'
  <2>1. ASSUME NEW i \in 1..Len(queue), Event(queue[i])
        PROVE  last[queue[i][1]] < queue[i][2] /\ queue[i][2] <= sent'[queue[i][1]]
    <3>1. /\ last[queue[i][1]] < queue[i][2] /\ queue[i][2] <= sent[queue[i][1]]
          /\ queue[i][1] \in Children /\ queue[i][2] \in 1..MaxEvents
      BY <1>7, <2>1 DEF OrderInv, QueueOrder
    <3> QED BY <1>1, <3>1
  <2>2. ASSUME NEW d \in Children PROVE last[d] <= sent'[d]
    <3>1. last[d] <= sent[d] /\ sent[d] <= sent'[d]
      BY DEF OrderInv, QueueOrder
    <3> QED BY <1>1, <3>1
  <2>3. \A i, j \in 1..Len(queue) :
          i < j /\ Event(queue[j]) /\ queue[i][1] = queue[j][1] => queue[i][2] < queue[j][2]
    BY DEF OrderInv, QueueOrder
  <2> QED BY <2>1, <2>2, <2>3 DEF QueueOrder
<1>9. ASSUME NEW d \in Children, NEW i \in 1..Len(childQueue'[d]), childQueue'[d][i] # END
      PROVE  /\ childQueue'[d][i] <= sent'[d] /\ last[d] < childQueue'[d][i]
             /\ \A j \in 1..Len(queue) :
                  Event(queue[j]) /\ queue[j][1] = d => queue[j][2] < childQueue'[d][i]
             /\ \A j \in 1..Len(childQueue'[d]) :
                  i < j /\ childQueue'[d][j] # END => childQueue'[d][i] < childQueue'[d][j]
  <2>1. CASE d # c
    <3>1. childQueue'[d] = childQueue[d] /\ childQueue[d] \in Seq(0..MaxEvents)
      BY <1>3, <2>1 DEF TypeInv, TypeOK
    <3>2. childQueue[d][i] \in 0..MaxEvents
      BY <1>9, <3>1
    <3>3. /\ childQueue[d][i] <= sent[d] /\ last[d] < childQueue[d][i]
          /\ \A j \in 1..Len(queue) :
               Event(queue[j]) /\ queue[j][1] = d => queue[j][2] < childQueue[d][i]
          /\ \A j \in 1..Len(childQueue[d]) :
               i < j /\ childQueue[d][j] # END => childQueue[d][i] < childQueue[d][j]
      BY <1>9, <3>1 DEF OrderInv, HeldOrder
    <3>4. childQueue[d][i] <= sent'[d]
      BY <1>1, <3>2, <3>3
    <3> QED BY <3>1, <3>3, <3>4
  <2>2. CASE d = c /\ i = Len(r)
    <3>1. childQueue'[d][i] = item /\ item # END /\ item = sent[c] + 1 /\ item = sent'[c]
      BY <1>3, <1>5, <1>9, <2>2
    <3>2. last[c] <= sent[c]
      BY DEF OrderInv, QueueOrder
    <3>3. ASSUME NEW j \in 1..Len(queue), Event(queue[j]), queue[j][1] = c
          PROVE  queue[j][2] < item
      <4>1. queue[j][2] <= sent[c] /\ queue[j][2] \in 1..MaxEvents
        BY <1>7, <3>3 DEF OrderInv, QueueOrder
      <4> QED BY <1>1, <3>1, <4>1
    <3>4. childQueue'[d][i] <= sent'[d] /\ last[d] < childQueue'[d][i]
      BY <1>1, <2>2, <3>1, <3>2
    <3>5. \A j \in 1..Len(childQueue'[d]) : ~(i < j)
      BY <1>3, <1>5, <2>2
    <3> QED BY <2>2, <3>1, <3>3, <3>4, <3>5
  <2>3. CASE d = c /\ i # Len(r)
    <3>1. /\ i + lost \in 1..Len(q) /\ r[i] = q[i + lost] /\ childQueue'[d][i] = r[i]
          /\ i \in 1..Len(r)
      BY <1>3, <1>6, <1>9, <2>3
    <3>2. q[i + lost] \in 0..MaxEvents /\ q[i + lost] # END
      <4>1. q \in Seq(0..MaxEvents) /\ i + lost \in 1..Len(q)
        BY <1>1, <3>1
      <4>2. q[i + lost] \in 0..MaxEvents
        BY <4>1, ElementOf
      <4>3. q[i + lost] = childQueue'[d][i]
        BY <3>1
      <4> QED BY <1>9, <4>2, <4>3
    <3>3. /\ q[i + lost] <= sent[c] /\ last[c] < q[i + lost]
          /\ \A j \in 1..Len(queue) :
               Event(queue[j]) /\ queue[j][1] = c => queue[j][2] < q[i + lost]
          /\ \A j \in 1..Len(q) : i + lost < j /\ q[j] # END => q[i + lost] < q[j]
      BY <3>1, <3>2 DEF OrderInv, HeldOrder, q
    <3>4. q[i + lost] <= sent'[c]
      BY <1>1, <3>2, <3>3
    <3>5. ASSUME NEW j \in 1..Len(r), i < j, r[j] # END
          PROVE  r[i] < r[j]
      <4>1. CASE j = Len(r)
        <5>1. r[j] = item /\ item # END
          BY <1>5, <3>5, <4>1
        <5>2. r[j] = sent[c] + 1 /\ sent[c] \in 0..MaxEvents
          BY <1>1, <5>1
        <5> QED BY <3>1, <3>2, <3>3, <5>2
      <4>2. CASE j # Len(r)
        <5>1. j + lost \in 1..Len(q) /\ r[j] = q[j + lost]
          BY <1>6, <4>2
        <5>2. i + lost < j + lost
          BY <1>5, <3>5
        <5> QED BY <3>1, <3>3, <3>5, <5>1, <5>2
      <4> QED BY <4>1, <4>2
    <3> QED BY <1>3, <2>3, <3>1, <3>3, <3>4, <3>5
  <2> QED BY <1>3, <1>9, <2>1, <2>2, <2>3
<1>10. HeldOrder'
  BY <1>9 DEF HeldOrder
<1> QED BY <1>8, <1>10 DEF OrderInv

\* A pump moves its child's first event to the end of the merged queue.
LEMMA MovesOrder ==
  ASSUME IInv, OrderInv, NEW c \in Children, PumpMoves(c)
  PROVE  OrderInv'
<1> USE SizesAssumption
<1> DEFINE e == Head(childQueue[c])
           lost == Lost(queue, QueueSize)
<1>1. TypeInv /\ queue \in Seq(Items) /\ Len(queue) <= QueueSize
      /\ sent \in [Children -> 0..MaxEvents] /\ last \in [Children -> 0..MaxEvents]
  BY DEF IInv, TypeInv, TypeOK
<1>2. /\ childQueue[c] # <<>> /\ e # END
      /\ childQueue' = [childQueue EXCEPT ![c] = Tail(@)]
      /\ queue' = Put(queue, <<c, e>>, QueueSize)
      /\ UNCHANGED <<last, sent>>
  BY DEF PumpMoves
<1>3. /\ childQueue' \in [Children -> Seq(0..MaxEvents)]
      /\ e = childQueue[c][1] /\ 1 \in 1..Len(childQueue[c])
      /\ Shortened
  BY <1>1, <1>2, ChildTail
<1>4. e \in 1..MaxEvents
  <2>1. childQueue[c] \in Seq(0..MaxEvents)
    BY <1>1 DEF TypeInv
  <2>2. e \in 0..MaxEvents
    BY <1>3, <2>1
  <2> QED BY <1>2, <2>2 DEF END
<1>5. /\ e <= sent[c] /\ last[c] < e
      /\ \A j \in 1..Len(queue) : Event(queue[j]) /\ queue[j][1] = c => queue[j][2] < e
      /\ \A j \in 1..Len(childQueue[c]) : 1 < j /\ childQueue[c][j] # END => e < childQueue[c][j]
  BY <1>2, <1>3 DEF OrderInv, HeldOrder
<1>6. childQueue'[c] = Tail(childQueue[c]) /\ childQueue[c] \in Seq(0..MaxEvents)
  BY <1>1, <1>2 DEF TypeInv
<1>7. ASSUME NEW i \in 1..Len(childQueue'[c])
      PROVE  i + 1 \in 1..Len(childQueue[c]) /\ childQueue'[c][i] = childQueue[c][i + 1]
             /\ 1 < i + 1
  <2> DEFINE q == childQueue[c]
  <2>1. q \in Seq(0..MaxEvents) /\ q # <<>>
    BY <1>2, <1>6
  <2>2. childQueue'[c] = Tail(q)
    BY <1>6
  <2> HIDE DEF q
  <2>3. /\ Len(Tail(q)) = Len(q) - 1 /\ Len(q) \in Nat \ {0}
        /\ \A j \in 1..(Len(q) - 1) : Tail(q)[j] = q[j + 1]
    BY <2>1, TailLemma
  <2>4. i + 1 \in 1..Len(q) /\ childQueue'[c][i] = q[i + 1] /\ 1 < i + 1
    BY <1>7, <2>2, <2>3
  <2> QED BY <2>4 DEF q
<1> HIDE DEF e
<1>8. <<c, e>> \in Items /\ <<c, e>> # MergedEnd
  BY <1>4, EndIsNoEvent DEF Items
<1>9. IsPut(Items, queue, queue', lost, <<c, e>>, QueueSize)
  BY <1>1, <1>2, <1>8, PutLemma
<1> HIDE DEF lost
<1>10. /\ Len(queue) \in Nat /\ lost \in 0..1 /\ Len(queue') = Len(queue) + 1 - lost
       /\ queue'[Len(queue')] = <<c, e>> /\ Len(queue') \in Nat
  BY <1>1, <1>9 DEF IsPut
<1>11. ASSUME NEW i \in 1..Len(queue'), i # Len(queue')
       PROVE  i + lost \in 1..Len(queue) /\ queue'[i] = queue[i + lost]
  <2>1. i + lost \in 1..Len(queue) /\ i \in 1..(Len(queue') - 1)
    BY <1>10, <1>11
  <2> QED BY <1>9, <2>1 DEF IsPut
<1>12. \A i \in 1..Len(queue) : Event(queue[i])
  <2>1. open # 0
    BY NoneRuns DEF IInv, PumpMoves
  <2> QED BY <2>1 DEF IInv, EndsWhenPumpsAreGone, Event
<1>13. QueueOrder'
  <2>1. ASSUME NEW i \in 1..Len(queue'), NEW j \in 1..Len(queue'),
               i < j, queue'[i][1] = queue'[j][1]
        PROVE  queue'[i][2] < queue'[j][2]
    <3>1. i + lost \in 1..Len(queue) /\ queue'[i] = queue[i + lost] /\ Event(queue[i + lost])
      <4>1. i # Len(queue')
        BY <1>10, <2>1
      <4> QED BY <1>11, <1>12, <4>1
    <3>2. CASE j = Len(queue')
      BY <1>5, <1>10, <2>1, <3>1, <3>2
    <3>3. CASE j # Len(queue')
      <4>1. j + lost \in 1..Len(queue) /\ queue'[j] = queue[j + lost] /\ Event(queue[j + lost])
        BY <1>11, <1>12, <3>3
      <4>2. i + lost < j + lost
        BY <1>10, <2>1
      <4> QED BY <2>1, <3>1, <4>1, <4>2 DEF OrderInv, QueueOrder
    <3> QED BY <3>2, <3>3
  <2>2. ASSUME NEW i \in 1..Len(queue')
        PROVE  last[queue'[i][1]] < queue'[i][2] /\ queue'[i][2] <= sent[queue'[i][1]]
    <3>1. CASE i = Len(queue')
      BY <1>5, <1>10, <3>1
    <3>2. CASE i # Len(queue')
      BY <1>11, <1>12, <3>2 DEF OrderInv, QueueOrder
    <3> QED BY <3>1, <3>2
  <2>3. \A d \in Children : last[d] <= sent[d]
    BY DEF OrderInv, QueueOrder
  <2> QED BY <1>2, <2>1, <2>2, <2>3 DEF QueueOrder
<1>14. ASSUME NEW d \in Children, NEW i \in 1..Len(childQueue'[d]), childQueue'[d][i] # END
       PROVE  /\ childQueue'[d][i] <= sent[d] /\ last[d] < childQueue'[d][i]
              /\ \A j \in 1..Len(queue') :
                   queue'[j][1] = d => queue'[j][2] < childQueue'[d][i]
              /\ \A j \in 1..Len(childQueue'[d]) :
                   i < j /\ childQueue'[d][j] # END => childQueue'[d][i] < childQueue'[d][j]
  <2>1. PICK k \in 0..1 : \A j \in 1..Len(childQueue'[d]) :
          j + k \in 1..Len(childQueue[d]) /\ childQueue'[d][j] = childQueue[d][j + k]
    BY <1>3 DEF Shortened
  <2>2. /\ childQueue[d][i + k] <= sent[d] /\ last[d] < childQueue[d][i + k]
        /\ \A j \in 1..Len(queue) :
             Event(queue[j]) /\ queue[j][1] = d => queue[j][2] < childQueue[d][i + k]
        /\ \A j \in 1..Len(childQueue[d]) :
             i + k < j /\ childQueue[d][j] # END => childQueue[d][i + k] < childQueue[d][j]
    BY <1>14, <2>1 DEF OrderInv, HeldOrder
  <2>3. ASSUME NEW j \in 1..Len(childQueue'[d]), i < j, childQueue'[d][j] # END
        PROVE  childQueue'[d][i] < childQueue'[d][j]
    <3>1. i + k < j + k
      BY <2>3
    <3> QED BY <2>1, <2>2, <2>3, <3>1
  <2>4. ASSUME NEW j \in 1..Len(queue'), queue'[j][1] = d
        PROVE  queue'[j][2] < childQueue'[d][i]
    <3>1. CASE j = Len(queue')
      <4>1. d = c /\ queue'[j][2] = e
        BY <1>10, <2>4, <3>1
      <4> QED BY <1>5, <1>7, <1>14, <4>1
    <3>2. CASE j # Len(queue')
      BY <1>11, <1>12, <2>1, <2>2, <2>4, <3>2
    <3> QED BY <3>1, <3>2
  <2> QED BY <2>1, <2>2, <2>3, <2>4
<1>15. HeldOrder'
  BY <1>2, <1>14 DEF HeldOrder
<1> QED BY <1>13, <1>15 DEF OrderInv

\* The consumer takes the first item of the merged queue.
LEMMA GetOrder ==
  ASSUME IInv, OrderInv, Get
  PROVE  OrderInv' /\ \A c \in Children : last'[c] >= last[c]
<1> USE SizesAssumption
<1>1. /\ TypeInv /\ queue \in Seq(Items) /\ last \in [Children -> 0..MaxEvents]
      /\ sent \in [Children -> 0..MaxEvents]
  BY DEF IInv, TypeInv, TypeOK
<1>2. queue # <<>> /\ queue' = Tail(queue) /\ UNCHANGED <<childQueue, sent>>
  BY DEF Get
<1>3. /\ Len(Tail(queue)) = Len(queue) - 1 /\ Len(queue) \in Nat \ {0}
      /\ Head(queue) = queue[1]
      /\ \A i \in 1..(Len(queue) - 1) : Tail(queue)[i] = queue[i + 1]
  BY <1>1, <1>2, TailLemma
<1>4. ASSUME NEW i \in 1..Len(queue')
      PROVE  i + 1 \in 1..Len(queue) /\ queue'[i] = queue[i + 1] /\ 1 < i + 1
  BY <1>2, <1>3
<1>5. 1 \in 1..Len(queue)
  BY <1>3
<1>6. ASSUME NEW i \in 1..Len(queue'), NEW j \in 1..Len(queue'),
             i < j, Event(queue'[j]), queue'[i][1] = queue'[j][1]
      PROVE  queue'[i][2] < queue'[j][2]
  <2>1. i + 1 < j + 1
    BY <1>6
  <2> QED BY <1>4, <1>6, <2>1 DEF OrderInv, QueueOrder
<1>7. CASE queue[1] = MergedEnd
  <2>1. last' = last
    BY <1>3, <1>7 DEF Get
  <2>2. QueueOrder'
    BY <1>2, <1>4, <1>6, <2>1 DEF OrderInv, QueueOrder
  <2>3. HeldOrder'
    BY <1>2, <1>4, <2>1 DEF OrderInv, HeldOrder
  <2>4. \A c \in Children : last'[c] >= last[c]
    BY <1>1, <2>1
  <2> QED BY <2>2, <2>3, <2>4 DEF OrderInv
<1>8. CASE queue[1] # MergedEnd
  <2> DEFINE c == queue[1][1]
             e == queue[1][2]
  <2>1. c \in Children /\ e \in 1..MaxEvents /\ Event(queue[1])
    BY <1>1, <1>5, <1>8, EventParts DEF Event
  <2>2. last' = [last EXCEPT ![c] = e]
    BY <1>3, <1>8 DEF Get
  <2>3. last[c] < e /\ e <= sent[c]
    BY <1>5, <2>1 DEF OrderInv, QueueOrder
  <2>4. \A i \in 1..Len(queue') : Event(queue'[i]) /\ queue'[i][1] = c => e < queue'[i][2]
    BY <1>4, <1>5 DEF OrderInv, QueueOrder
  <2>5. \A i \in 1..Len(childQueue[c]) : childQueue[c][i] # END => e < childQueue[c][i]
    BY <1>5, <2>1 DEF OrderInv, HeldOrder
  <2> HIDE DEF c, e
  <2>6. /\ last'[c] = e /\ \A d \in Children : d # c => last'[d] = last[d]
    BY <1>1, <2>1, <2>2
  <2>7. ASSUME NEW i \in 1..Len(queue'), Event(queue'[i])
        PROVE  last'[queue'[i][1]] < queue'[i][2] /\ queue'[i][2] <= sent[queue'[i][1]]
    <3>1. /\ queue'[i][1] \in Children
          /\ last[queue'[i][1]] < queue'[i][2] /\ queue'[i][2] <= sent[queue'[i][1]]
      BY <1>1, <1>4, <2>7, EventParts DEF OrderInv, QueueOrder
    <3> QED BY <2>4, <2>6, <2>7, <3>1
  <2>8. \A d \in Children : last'[d] <= sent[d]
    BY <2>3, <2>6 DEF OrderInv, QueueOrder
  <2>9. QueueOrder'
    BY <1>2, <1>6, <2>7, <2>8 DEF QueueOrder
  <2>10. ASSUME NEW d \in Children, NEW i \in 1..Len(childQueue[d]), childQueue[d][i] # END
         PROVE  last'[d] < childQueue[d][i]
    <3>1. last[d] < childQueue[d][i]
      BY <2>10 DEF OrderInv, HeldOrder
    <3> QED BY <2>5, <2>6, <2>10, <3>1
  <2>11. HeldOrder'
    BY <1>2, <1>4, <2>10 DEF OrderInv, HeldOrder
  <2>12. ASSUME NEW d \in Children PROVE last'[d] >= last[d]
    <3>1. last[d] \in Nat /\ e \in Nat
      BY <1>1, <2>1
    <3> QED BY <2>3, <2>6, <3>1
  <2> QED BY <2>9, <2>11, <2>12 DEF OrderInv
<1> QED BY <1>7, <1>8

\* A pump that leaves, at the end of its child or because it is cancelled.
LEMMA LeaverOrder ==
  ASSUME IInv, OrderInv, NEW c \in Children, PumpEnds(c) \/ PumpCancelled(c)
  PROVE  OrderInv'
<1>1. TypeInv
  BY DEF IInv
<1>2. CASE PumpEnds(c)
  <2>1. childQueue' \in [Children -> Seq(0..MaxEvents)] /\ Shortened
    BY <1>1, <1>2, ChildTail DEF PumpEnds
  <2> QED BY <1>2, <2>1, LeavesOrder DEF PumpEnds
<1>3. CASE PumpCancelled(c)
  <2>1. childQueue' = childQueue /\ childQueue \in [Children -> Seq(0..MaxEvents)]
    BY <1>1, <1>3 DEF PumpCancelled, TypeInv
  <2>2. ASSUME NEW d \in Children, NEW i \in 1..Len(childQueue'[d])
        PROVE  i + 0 \in 1..Len(childQueue[d]) /\ childQueue'[d][i] = childQueue[d][i + 0]
    <3>1. i + 0 = i
      OBVIOUS
    <3> QED BY <2>1, <3>1
  <2>3. 0 \in 0..1
    OBVIOUS
  <2>4. Shortened
    BY <2>2, <2>3, Zenon DEF Shortened
  <2> QED BY <1>3, <2>1, <2>4, LeavesOrder DEF PumpCancelled
<1> QED BY <1>2, <1>3

\* close() leaves sentinels only.
LEMMA ClosesOrder ==
  ASSUME IInv, OrderInv, NEW c \in Children, ChildCloses(c)
  PROVE  OrderInv'
<1>1. /\ childQueue' = [childQueue EXCEPT ![c] = <<END>>]
      /\ UNCHANGED <<sent, last, queue>>
  BY DEF ChildCloses
<1>2. /\ childQueue'[c] = <<END>>
      /\ \A d \in Children : d # c => childQueue'[d] = childQueue[d]
  BY <1>1 DEF IInv, TypeInv
<1>3. \A i \in 1..Len(childQueue'[c]) : childQueue'[c][i] = END
  BY <1>2
<1>4. HeldOrder'
  BY <1>1, <1>2, <1>3 DEF OrderInv, HeldOrder
<1>5. QueueOrder'
  BY <1>1 DEF OrderInv, QueueOrder
<1> QED BY <1>4, <1>5 DEF OrderInv

LEMMA CloseEndsOrder ==
  ASSUME OrderInv, CloseEnds
  PROVE  OrderInv'
<1>1. queue' = <<MergedEnd>> /\ UNCHANGED <<childQueue, sent, last>>
  BY DEF CloseEnds
<1>2. \A i \in 1..Len(queue') : ~Event(queue'[i])
  BY <1>1 DEF Event
<1> QED BY <1>1, <1>2 DEF OrderInv, QueueOrder, HeldOrder

\* Every step keeps the order, and so no child's last event goes back.
LEMMA NextOrder ==
  ASSUME IInv, OrderInv, [Next]_vars
  PROVE  OrderInv' /\ \A c \in Children : last'[c] >= last[c]
<1>1. /\ TypeInv /\ last \in [Children -> 0..MaxEvents] /\ sent \in [Children -> 0..MaxEvents]
  BY DEF IInv, TypeInv, TypeOK
<1>2. last' = last => \A c \in Children : last'[c] >= last[c]
  <2>1. \A c \in Children : last[c] \in Nat
    BY <1>1
  <2> QED BY <2>1
<1>3. ASSUME NEW c \in Children, PushChild(c)
      PROVE  OrderInv' /\ last' = last
  <2>1. sent[c] + 1 \in 0..MaxEvents /\ sent' = [sent EXCEPT ![c] = sent[c] + 1]
    BY <1>1, <1>3, SizesAssumption DEF PushChild
  <2>2. sent' \in [Children -> 0..MaxEvents] /\ sent'[c] = sent[c] + 1
    BY <1>1, <2>1
  <2>3. \A d \in Children : sent[d] <= sent'[d]
    BY <1>1, <2>1
  <2>4. /\ childQueue' = [childQueue EXCEPT ![c] = Put(@, sent[c] + 1, ChildSize)]
        /\ UNCHANGED <<queue, last>>
    BY <1>3 DEF PushChild
  <2> QED BY <1>1, <2>1, <2>2, <2>3, <2>4, HeldPut
<1>4. ASSUME NEW c \in Children, NEW how \in {"stop", "error"}, EndChild(c, how)
      PROVE  OrderInv' /\ last' = last
  <2>1. /\ childQueue' = [childQueue EXCEPT ![c] = Put(@, END, ChildSize)]
        /\ UNCHANGED <<queue, last, sent>>
    BY <1>4 DEF EndChild
  <2>2. END \in 0..MaxEvents
    BY SizesAssumption DEF END
  <2>3. \A d \in Children : sent[d] <= sent'[d]
    BY <1>1, <2>1
  <2> QED BY <1>1, <2>1, <2>2, <2>3, HeldPut
<1>5. CASE UNCHANGED <<childQueue, sent, queue, last>>
  BY <1>2, <1>5 DEF OrderInv, QueueOrder, HeldOrder
<1>6. CASE Close \/ CancelPumps \/ Anext \/ UNCHANGED vars
  BY <1>5, <1>6 DEF Close, CancelPumps, Anext, vars
<1>7. ASSUME NEW c \in Children,
             PumpMoves(c) \/ PumpEnds(c) \/ ChildCloses(c) \/ PumpCancelled(c)
      PROVE  OrderInv' /\ last' = last
  <2>1. last' = last
    BY <1>7 DEF PumpMoves, PumpEnds, ChildCloses, PumpCancelled
  <2> QED BY <1>7, <2>1, MovesOrder, LeaverOrder, ClosesOrder
<1>8. CASE CloseEnds
  BY <1>2, <1>8, CloseEndsOrder DEF CloseEnds
<1>9. CASE Get
  BY <1>9, GetOrder
<1> QED BY <1>2, <1>3, <1>4, <1>6, <1>7, <1>8, <1>9 DEF Next

-----------------------------------------------------------------------------
(* Theorems.                                                                *)

\* The state of the merged handle is well typed, and neither queue exceeds its
\* bound: put_nowait never raises QueueFull.
THEOREM TypeCorrect == Spec => []TypeOK
<1>1. IInv => TypeOK
  BY DEF IInv, TypeInv
<1> QED BY <1>1, Inductive, PTL

\* The merged iteration ends exactly when all pumps have left, and its
\* consumer does not wait in vain.
THEOREM EndsWithPumps == Spec => []EndsWhenPumpsAreGone
<1>1. IInv => EndsWhenPumpsAreGone
  BY DEF IInv
<1> QED BY <1>1, Inductive, PTL

\* A merged iteration that nobody closed and that stops cleanly hides no
\* failure of a child.
THEOREM NoErrorMasked == Spec => []ErrorNotMasked
<1>1. IInv => ErrorNotMasked
  BY DEF IInv
<1> QED BY <1>1, Inductive, PTL

\* Every event a child accepted is delivered, waits in one of the two queues or
\* is counted as dropped by the handle that lost it, until close() discards it.
THEOREM LossesCounted == Spec => []DroppedCountsLosses
<1>1. Init => ChildLossInv
  BY DEF Init, ChildLossInv, CountsOf, Buffered, EndQueued
<1>2. IInv /\ ChildLossInv => DroppedCountsLosses
  BY DEF IInv, LossInv, ChildLossInv, CountsOf, DroppedCountsLosses, ChildCounts
<1> QED BY <1>1, <1>2, NextCounts, Inductive, PTL DEF Spec

\* The merged iteration ends once: no error, event or other outcome comes after.
THEOREM OutcomeFinal == Spec => OutcomeIsFinal
<1>1. Init => OutcomeInv
  BY DEF Init, OutcomeInv
<1>2. Spec => [](IInv /\ OutcomeInv)
  BY <1>1, NextOutcome, Inductive, PTL DEF Spec
<1>3. IInv /\ OutcomeInv /\ [Next]_vars => [Final]_vars
  BY NextOutcome
<1>4. Spec => [][Final]_vars
  BY <1>2, <1>3, PTL DEF Spec
<1> QED BY <1>4 DEF OutcomeIsFinal, Final

\* The events of one child reach the consumer in their order.
THEOREM OrderKept == Spec => ChildOrderKept
<1>1. Init => OrderInv
  BY DEF Init, OrderInv, QueueOrder, HeldOrder
<1>2. IInv /\ OrderInv /\ [Next]_vars => OrderInv' /\ \A c \in Children : last'[c] >= last[c]
  BY NextOrder
<1>3. (\A c \in Children : last'[c] >= last[c]) => [\A c \in Children : last'[c] >= last[c]]_vars
  OBVIOUS
<1>4. Spec => [](IInv /\ OrderInv)
  BY <1>1, <1>2, Inductive, PTL DEF Spec
<1>5. Spec => [][\A c \in Children : last'[c] >= last[c]]_vars
  BY <1>2, <1>3, <1>4, PTL DEF Spec
<1> QED BY <1>5 DEF ChildOrderKept

================================================================================
