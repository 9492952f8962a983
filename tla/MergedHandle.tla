---------------------------- MODULE MergedHandle ----------------------------
(***************************************************************************)
(* MergedSubscriptionHandle (_internal/streams/merged_handle.py): one pump  *)
(* task per child handle moves its events into a shared bounded queue.  The *)
(* stream managers end children, with or without an error, while the pumps, *)
(* the consumer and close() run.  A child is an AsyncSubscriptionHandle     *)
(* whose only consumer is its pump.                                         *)
(***************************************************************************)
EXTENDS DropOldestQueue, FiniteSets

CONSTANTS
  Children,
  ChildSize,   \* capacity of a child's queue
  QueueSize,   \* capacity of the merged queue
  MaxEvents    \* bound on the events pushed to each child

NoChild == "no child"

ASSUME ChildrenAssumption ==
  IsFiniteSet(Children) /\ Children # {} /\ NoChild \notin Children
ASSUME SizesAssumption == {ChildSize, QueueSize} \subseteq Nat \ {0} /\ MaxEvents \in Nat

VARIABLES
  childQueue,  \* queue of each child
  childEnd,    \* how each child ended: none (it has not), stop, error
  childClosed, \* the child's close() is complete
  sent,        \* events each child accepted
  pump,        \* the pump of each child: running or done
  queue,       \* the merged queue: items are <<child, event>>
  open,        \* self._open
  firstError,  \* self._first_error: the child it came from, or NoChild
  closing,     \* self._closing: none, children (gather), pumps, done
  closed,      \* self._closed
  consumer,    \* idle or awaiting queue.get()
  outcome,     \* what ended the iteration: none, stop or error
  last,        \* the last event of each child that the consumer received
  dropped,     \* self._dropped
  lag,         \* events the pumps moved and the consumer did not receive
  moved,       \* events of each child that its pump moved
  childDropped \* dropped of each child

vars == <<childQueue, childEnd, childClosed, sent, pump, queue, open, firstError,
          closing, closed, consumer, outcome, last, dropped, lag, moved, childDropped>>

MergedEnd == <<NoChild, END>>   \* the sentinel of the merged queue
Items == {MergedEnd} \cup (Children \X (1..MaxEvents))

\* Every variable has its type, and no queue exceeds its bound.
TypeOK ==
  /\ \A c \in Children : /\ childQueue[c] \in Seq(0..MaxEvents)
                         /\ Len(childQueue[c]) <= ChildSize
  /\ childEnd \in [Children -> {"none", "stop", "error"}]
  /\ childClosed \in [Children -> BOOLEAN]
  /\ sent \in [Children -> 0..MaxEvents]
  /\ pump \in [Children -> {"running", "done"}]
  /\ queue \in Seq(Items) /\ Len(queue) <= QueueSize
  /\ open \in 0..Cardinality(Children)
  /\ firstError \in Children \cup {NoChild}
  /\ closing \in {"none", "children", "pumps", "done"}
  /\ closed \in BOOLEAN
  /\ consumer \in {"idle", "awaiting"}
  /\ outcome \in {"none", "stop", "error"}
  /\ last \in [Children -> 0..MaxEvents]
  /\ dropped \in Nat /\ lag \in Nat
  /\ moved \in [Children -> Nat] /\ childDropped \in [Children -> Nat]

Init ==
  /\ childQueue = [c \in Children |-> <<>>]
  /\ childEnd = [c \in Children |-> "none"]
  /\ childClosed = [c \in Children |-> FALSE]
  /\ sent = [c \in Children |-> 0]
  /\ pump = [c \in Children |-> "running"]
  /\ queue = <<>>
  /\ open = Cardinality(Children)
  /\ firstError = NoChild
  /\ closing = "none"
  /\ closed = FALSE
  /\ consumer = "idle"
  /\ outcome = "none"
  /\ last = [c \in Children |-> 0]
  /\ dropped = 0
  /\ lag = 0
  /\ moved = [c \in Children |-> 0]
  /\ childDropped = [c \in Children |-> 0]

-----------------------------------------------------------------------------
(* The managers' side of a child.                                           *)

PushChild(c) ==
  /\ childEnd[c] = "none"
  /\ sent[c] < MaxEvents
  /\ sent' = [sent EXCEPT ![c] = @ + 1]
  /\ childQueue' = [childQueue EXCEPT ![c] = Put(@, sent[c] + 1, ChildSize)]
  /\ childDropped' = [childDropped EXCEPT ![c] = @ + Lost(childQueue[c], ChildSize)]
  /\ UNCHANGED <<childEnd, childClosed, pump, queue, open, firstError, closing,
                 closed, consumer, outcome, last, dropped, lag, moved>>

\* Mutant: room for the sentinel of a child is free.
EndChildUncounted(c, how) ==
  /\ childEnd[c] = "none"
  /\ childEnd' = [childEnd EXCEPT ![c] = how]
  /\ childQueue' = [childQueue EXCEPT ![c] = Put(@, END, ChildSize)]
  /\ UNCHANGED <<childClosed, sent, pump, queue, open, firstError, closing, closed,
                 consumer, outcome, last, dropped, lag, moved, childDropped>>

EndChild(c, how) ==
  /\ childEnd[c] = "none"
  /\ childEnd' = [childEnd EXCEPT ![c] = how]
  /\ childQueue' = [childQueue EXCEPT ![c] = Put(@, END, ChildSize)]
  /\ childDropped' = [childDropped EXCEPT ![c] = @ + Lost(childQueue[c], ChildSize)]
  /\ UNCHANGED <<childClosed, sent, pump, queue, open, firstError, closing, closed,
                 consumer, outcome, last, dropped, lag, moved>>

-----------------------------------------------------------------------------
(* The pumps.                                                               *)

\* The pump gets an event and puts it, all before its next await.
PumpMoves(c) ==
  /\ pump[c] = "running" /\ closing # "pumps"
  /\ childQueue[c] # <<>>
  /\ Head(childQueue[c]) # END
  /\ childQueue' = [childQueue EXCEPT ![c] = Tail(@)]
  /\ queue' = Put(queue, <<c, Head(childQueue[c])>>, QueueSize)
  /\ dropped' = dropped + Lost(queue, QueueSize)
  /\ lag' = lag + 1
  /\ moved' = [moved EXCEPT ![c] = @ + 1]
  /\ UNCHANGED <<childEnd, childClosed, sent, pump, open, firstError, closing,
                 closed, consumer, outcome, last, childDropped>>

\* Mutant: every pump ends the queue.
PumpLeavesEarly(c) ==
  /\ pump' = [pump EXCEPT ![c] = "done"]
  /\ open' = open - 1
  /\ queue' = Put(queue, MergedEnd, QueueSize)
  /\ dropped' = dropped + Lost(queue, QueueSize)

\* The finally clause of _pump: the last pump to leave ends the merged queue.
PumpLeaves(c) ==
  /\ pump' = [pump EXCEPT ![c] = "done"]
  /\ open' = open - 1
  /\ IF open = 1
     THEN /\ queue' = Put(queue, MergedEnd, QueueSize)
          /\ dropped' = dropped + Lost(queue, QueueSize)
     ELSE UNCHANGED <<queue, dropped>>

\* Mutants: only the last pump's error is kept; an error waits for the siblings.
PumpEndsMasking(c) ==
  /\ pump[c] = "running" /\ closing # "pumps"
  /\ childQueue[c] # <<>>
  /\ Head(childQueue[c]) = END
  /\ childQueue' = [childQueue EXCEPT ![c] = Tail(@)]
  /\ PumpLeaves(c)
  /\ firstError' = IF childEnd[c] = "error" /\ open = 1 THEN c ELSE firstError
  /\ UNCHANGED <<childEnd, childClosed, sent, closing, closed, consumer, outcome,
                 last, lag, moved, childDropped>>

PumpEndsQuietly(c) ==
  /\ pump[c] = "running" /\ closing # "pumps"
  /\ childQueue[c] # <<>>
  /\ Head(childQueue[c]) = END
  /\ childQueue' = [childQueue EXCEPT ![c] = Tail(@)]
  /\ PumpLeaves(c)
  /\ firstError' = IF childEnd[c] = "error" /\ firstError = NoChild
                   THEN c ELSE firstError
  /\ UNCHANGED <<childEnd, childClosed, sent, closing, closed, consumer, outcome,
                 last, lag, moved, childDropped>>

\* The child's iteration ends.  The first error is kept and closes the merged
\* handle at once.
PumpEnds(c) ==
  /\ pump[c] = "running" /\ closing # "pumps"
  /\ childQueue[c] # <<>>
  /\ Head(childQueue[c]) = END
  /\ childQueue' = [childQueue EXCEPT ![c] = Tail(@)]
  /\ PumpLeaves(c)
  /\ IF childEnd[c] = "error" /\ firstError = NoChild
     THEN /\ firstError' = c
          /\ closing' = IF closing = "none" THEN "children" ELSE closing
     ELSE UNCHANGED <<firstError, closing>>
  /\ UNCHANGED <<childEnd, childClosed, sent, closed, consumer, outcome, last, lag,
                 moved, childDropped>>

-----------------------------------------------------------------------------
(* close() and the _do_close() task it shares with a failed pump.           *)

\* Mutant: close() marks the handle closed before it awaits its children.
CloseFlagsFirst ==
  /\ closing = "none"
  /\ closing' = "children"
  /\ closed' = TRUE
  /\ UNCHANGED <<childQueue, childEnd, childClosed, sent, pump, queue, open,
                 firstError, consumer, outcome, last, dropped, lag, moved,
                 childDropped>>

Close ==
  /\ closing = "none"
  /\ closing' = "children"
  /\ UNCHANGED <<childQueue, childEnd, childClosed, sent, pump, queue, open,
                 firstError, closed, consumer, outcome, last, dropped, lag, moved,
                 childDropped>>

\* A child's own close() discards what it buffers and ends it.
ChildCloses(c) ==
  /\ closing = "children"
  /\ ~childClosed[c]
  /\ childClosed' = [childClosed EXCEPT ![c] = TRUE]
  /\ childQueue' = [childQueue EXCEPT ![c] = <<END>>]
  /\ childEnd' = [childEnd EXCEPT ![c] = IF @ = "none" THEN "stop" ELSE @]
  /\ UNCHANGED <<sent, pump, queue, open, firstError, closing, closed, consumer,
                 outcome, last, dropped, lag, moved, childDropped>>

\* gather() is done: the pumps still running are cancelled.
CancelPumps ==
  /\ closing = "children"
  /\ \A c \in Children : childClosed[c]
  /\ closing' = "pumps"
  /\ UNCHANGED <<childQueue, childEnd, childClosed, sent, pump, queue, open,
                 firstError, closed, consumer, outcome, last, dropped, lag, moved,
                 childDropped>>

PumpCancelled(c) ==
  /\ closing = "pumps"
  /\ pump[c] = "running"
  /\ PumpLeaves(c)
  /\ UNCHANGED <<childQueue, childEnd, childClosed, sent, firstError, closing,
                 closed, consumer, outcome, last, lag, moved, childDropped>>

\* Every pump has left: drop what the merged queue holds and end it.
CloseEnds ==
  /\ closing = "pumps"
  /\ \A c \in Children : pump[c] = "done"
  /\ closing' = "done"
  /\ closed' = TRUE
  /\ queue' = <<MergedEnd>>
  /\ UNCHANGED <<childQueue, childEnd, childClosed, sent, pump, open, firstError,
                 consumer, outcome, last, dropped, lag, moved, childDropped>>

-----------------------------------------------------------------------------
(* The consumer.                                                            *)

Raise == outcome' = IF firstError # NoChild THEN "error" ELSE "stop"

Anext ==
  /\ consumer = "idle"
  /\ IF closed \/ (open = 0 /\ queue = <<>>)
     THEN Raise /\ UNCHANGED consumer
     ELSE consumer' = "awaiting" /\ UNCHANGED outcome
  /\ UNCHANGED <<childQueue, childEnd, childClosed, sent, pump, queue, open,
                 firstError, closing, closed, last, dropped, lag, moved,
                 childDropped>>

Get ==
  /\ consumer = "awaiting"
  /\ queue # <<>>
  /\ queue' = Tail(queue)
  /\ consumer' = "idle"
  /\ IF Head(queue) = MergedEnd
     THEN Raise /\ UNCHANGED <<last, lag>>
     ELSE /\ last' = [last EXCEPT ![Head(queue)[1]] = Head(queue)[2]]
          /\ lag' = lag - 1
          /\ UNCHANGED outcome
  /\ UNCHANGED <<childQueue, childEnd, childClosed, sent, pump, open, firstError,
                 closing, closed, dropped, moved, childDropped>>

Next ==
  \/ \E c \in Children : \/ PushChild(c)
                         \/ \E how \in {"stop", "error"} : EndChild(c, how)
                         \/ PumpMoves(c)
                         \/ PumpEnds(c)
                         \/ ChildCloses(c)
                         \/ PumpCancelled(c)
  \/ Close
  \/ CancelPumps
  \/ CloseEnds
  \/ Anext
  \/ Get

\* Pumps, the tasks of close() and a consumer that keeps iterating all run;
\* the managers and the user who closes the handle owe nothing.
Fairness ==
  /\ \A c \in Children : WF_vars(PumpMoves(c) \/ PumpEnds(c) \/ PumpCancelled(c))
  /\ \A c \in Children : WF_vars(ChildCloses(c))
  /\ WF_vars(CancelPumps)
  /\ WF_vars(CloseEnds)
  /\ WF_vars(Anext)
  /\ WF_vars(Get)

Spec == Init /\ [][Next]_vars
FairSpec == Spec /\ Fairness

-----------------------------------------------------------------------------
(* Properties.                                                              *)

\* The merged queue ends exactly once per reason: the sentinel is queued when
\* and only when every pump has left, as its last item, and a consumer that
\* waits will find it.
EndsWhenPumpsAreGone ==
  /\ open = Cardinality({c \in Children : pump[c] = "running"})
  /\ \A i \in 1..Len(queue) : queue[i] = MergedEnd => open = 0 /\ i = Len(queue)
  /\ open = 0 => queue # <<>> \/ consumer = "idle"

\* Events that wait in the merged queue, its sentinel apart.
Waiting == IF queue # <<>> /\ queue[Len(queue)] = MergedEnd THEN Len(queue) - 1
                                                           ELSE Len(queue)

\* Until close() empties a queue, its handle's dropped counts every event that
\* is gone from it and was not passed on, those that made room for the sentinel
\* included: no event is lost between the two queues without a trace.
MergedCounts == ~closed => lag = dropped + Waiting
ChildCounts ==
  \A c \in Children : ~childClosed[c] =>
    sent[c] = moved[c] + childDropped[c] + Buffered(childQueue[c])
DroppedCountsLosses == MergedCounts /\ ChildCounts

\* Unless someone closed the handle, an iteration that stops cleanly means
\* that no child failed.
ErrorNotMasked ==
  outcome = "stop" /\ closing = "none" => \A c \in Children : childEnd[c] = "stop"

\* Once the iteration has ended it stays so, with the same outcome, the same
\* error if there is one, and no event after it, although the pumps of other
\* children, close() and a second sentinel may have been on their way.
OutcomeIsFinal == [][outcome # "none" => UNCHANGED <<outcome, firstError, last>>]_vars

\* The events of one child reach the consumer in order, whatever the pumps
\* interleave and both queues drop.
ChildOrderKept == [][\A c \in Children : last'[c] >= last[c]]_vars

\* A failed child ends the whole iteration, however many events its siblings
\* still have; the failure a pump saw first is raised and closes the siblings.
FailureSurfaces ==
  /\ (\E c \in Children : childEnd[c] = "error") ~> outcome # "none"
  /\ firstError # NoChild ~> outcome = "error" /\ \A c \in Children : childClosed[c]

=============================================================================
