------------------------- MODULE SubscriptionHandle -------------------------
(***************************************************************************)
(* AsyncSubscriptionHandle (_internal/streams/handle.py): the bounded queue *)
(* between a stream manager, which pushes events and ends the stream, and   *)
(* one consumer that iterates and may close the handle at any time.         *)
(***************************************************************************)
EXTENDS DropOldestQueue

CONSTANTS
  QueueSize,   \* capacity of the queue
  MaxEvents    \* bound on the events a behaviour pushes

ASSUME SizeAssumption == QueueSize \in Nat \ {0} /\ MaxEvents \in Nat

VARIABLES
  queue,
  over,       \* self._ended
  endError,   \* self._end_error: none, or error
  dropped,    \* self._dropped
  closing,    \* self._closing: none, running (on_close is awaited), done
  consumer,   \* idle, or awaiting queue.get()
  outcome,    \* what the last __anext__ that ended the iteration raised
  sent,       \* events accepted so far: the next one is sent + 1
  last,       \* the event delivered last
  delivered,  \* how many events were delivered
  discarded   \* how many events an explicit close threw away

vars == <<queue, over, endError, dropped, closing, consumer, outcome, sent, last,
          delivered, discarded>>

\* Every variable has its type.
TypeOK ==
  /\ queue \in Seq(0..MaxEvents)
  /\ over \in BOOLEAN
  /\ endError \in {"none", "error"}
  /\ dropped \in Nat
  /\ closing \in {"none", "running", "done"}
  /\ consumer \in {"idle", "awaiting"}
  /\ outcome \in {"none", "stop", "error"}
  /\ sent \in 0..MaxEvents
  /\ last \in 0..MaxEvents
  /\ delivered \in Nat
  /\ discarded \in Nat

Init ==
  /\ queue = <<>>
  /\ over = FALSE
  /\ endError = "none"
  /\ dropped = 0
  /\ closing = "none"
  /\ consumer = "idle"
  /\ outcome = "none"
  /\ sent = 0
  /\ last = 0
  /\ delivered = 0
  /\ discarded = 0

\* Mutant: _push does not look at _ended.
PushAlways ==
  /\ sent < MaxEvents
  /\ sent' = sent + 1
  /\ queue' = Put(queue, sent + 1, QueueSize)
  /\ dropped' = dropped + Lost(queue, QueueSize)
  /\ UNCHANGED <<over, endError, closing, consumer, outcome, last, delivered,
                 discarded>>

\* _push: an event for an ended handle is ignored.
Push ==
  /\ ~over
  /\ sent < MaxEvents
  /\ sent' = sent + 1
  /\ queue' = Put(queue, sent + 1, QueueSize)
  /\ dropped' = dropped + Lost(queue, QueueSize)
  /\ UNCHANGED <<over, endError, closing, consumer, outcome, last, delivered,
                 discarded>>

\* Mutants: a later _end replaces the outcome; room for the sentinel is free.
EndAgain(error) ==
  /\ over' = TRUE
  /\ endError' = error
  /\ queue' = Put(queue, END, QueueSize)
  /\ dropped' = dropped + Lost(queue, QueueSize)
  /\ UNCHANGED <<closing, consumer, outcome, sent, last, delivered, discarded>>

EndUncounted(error) ==
  /\ ~over
  /\ over' = TRUE
  /\ endError' = error
  /\ queue' = Put(queue, END, QueueSize)
  /\ UNCHANGED <<dropped, closing, consumer, outcome, sent, last, delivered, discarded>>

\* _end(error) without discard_pending: what is buffered is still delivered.
\* Only the first call counts.
End(error) ==
  /\ ~over
  /\ over' = TRUE
  /\ endError' = error
  /\ queue' = Put(queue, END, QueueSize)
  /\ dropped' = dropped + Lost(queue, QueueSize)
  /\ UNCHANGED <<closing, consumer, outcome, sent, last, delivered, discarded>>

\* close() creates one task; concurrent and later calls share it.
Close ==
  /\ closing = "none"
  /\ closing' = "running"
  /\ UNCHANGED <<queue, over, endError, dropped, consumer, outcome, sent, last,
                 delivered, discarded>>

\* Mutant: the sentinel is not queued again for a stream that had ended.
CloseLosesSentinel ==
  /\ closing = "running"
  /\ closing' = "done"
  /\ over' = TRUE
  /\ queue' = IF over THEN <<>> ELSE <<END>>
  /\ discarded' = discarded + Buffered(queue)
  /\ UNCHANGED <<endError, dropped, consumer, outcome, sent, last, delivered>>

\* on_close returned: _end(discard_pending=True) empties the queue and leaves
\* the sentinel, whether or not the stream had ended before.
CloseEnds ==
  /\ closing = "running"
  /\ closing' = "done"
  /\ over' = TRUE
  /\ queue' = <<END>>
  /\ discarded' = discarded + Buffered(queue)
  /\ UNCHANGED <<endError, dropped, consumer, outcome, sent, last, delivered>>

Raise == outcome' = IF endError = "error" THEN "error" ELSE "stop"

\* Mutant: __anext__ waits for an item even when none can come.
AnextWaits ==
  /\ consumer = "idle"
  /\ consumer' = "awaiting"
  /\ UNCHANGED <<queue, over, endError, dropped, closing, outcome, sent, last,
                 delivered, discarded>>

\* __anext__ up to its first await.
Anext ==
  /\ consumer = "idle"
  /\ \/ /\ over /\ queue = <<>>
        /\ Raise
        /\ UNCHANGED consumer
     \/ /\ ~(over /\ queue = <<>>)
        /\ consumer' = "awaiting"
        /\ UNCHANGED outcome
  /\ UNCHANGED <<queue, over, endError, dropped, closing, sent, last, delivered,
                 discarded>>

\* queue.get() returns.
Get ==
  /\ consumer = "awaiting"
  /\ queue # <<>>
  /\ queue' = Tail(queue)
  /\ consumer' = "idle"
  /\ \/ /\ Head(queue) = END
        /\ Raise
        /\ UNCHANGED <<last, delivered>>
     \/ /\ Head(queue) # END
        /\ last' = Head(queue)
        /\ delivered' = delivered + 1
        /\ UNCHANGED outcome
  /\ UNCHANGED <<over, endError, dropped, closing, sent, discarded>>

Next ==
  \/ Push
  \/ \E error \in {"none", "error"} : End(error)
  \/ Close
  \/ CloseEnds
  \/ Anext
  \/ Get

\* A consumer that iterates goes on iterating, and on_close returns.
Fairness == WF_vars(Anext) /\ WF_vars(Get) /\ WF_vars(CloseEnds)

Spec == Init /\ [][Next]_vars
FairSpec == Spec /\ Fairness

-----------------------------------------------------------------------------
(* Properties.                                                              *)

\* The queue never exceeds its bound: put_nowait cannot raise QueueFull out
\* of _end or close(), which would leave the handle without its sentinel.
QueueBounded == Len(queue) <= QueueSize

\* The queue holds the newest events, without a gap, and the sentinel only
\* as its last item: neither pushing nor ending ever evicts the sentinel or
\* lets an event follow it.
QueueIsNewest ==
  \A i \in 1..Len(queue) :
    \/ queue[i] = sent - Buffered(queue) + i /\ i <= Buffered(queue)
    \/ queue[i] = END /\ i = Len(queue) /\ over

\* Every accepted event is delivered, counted in dropped, discarded by an
\* explicit close or still queued: dropped counts the losses exactly.
EveryEventAccounted == sent = delivered + dropped + discarded + Buffered(queue)

\* An ended handle can always be told to be: the sentinel is queued, or the
\* consumer took it and is not waiting for another item.
NeverStuckAfterEnd == over => queue # <<>> \/ consumer = "idle"

\* Once the iteration has ended it stays so, with the same outcome and no
\* event after it, even when close() queues a second sentinel.
OutcomeIsFinal == [][outcome # "none" => outcome' = outcome /\ last' = last]_vars

\* A consumer that keeps iterating learns that the stream has ended.
EndIsObserved == over ~> outcome # "none"

\* The handle implements the promise of EventStream.
Promise == INSTANCE EventStream WITH Size <- QueueSize
KeepsPromise == Promise!StreamSpec

=============================================================================
