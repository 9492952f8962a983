---------------------------- MODULE PerpsAccount ----------------------------
(***************************************************************************)
(* What a PerpsSession (_internal/perps_session.py) does with one working   *)
(* or lost connection: the account events of one sequenced channel and the  *)
(* queue they are read from, place_order() which waits for the first update *)
(* of its order, and cancel_orders() with its retries.  Connections come    *)
(* and go as PerpsSession.tla describes; here a connection is down, open    *)
(* but not acknowledged (handshake), or live.                               *)
(*                                                                          *)
(* An event is its sequence number; a resync is one number above them all.  *)
(***************************************************************************)
EXTENDS DropOldestQueue, FiniteSets

CONSTANTS
  QueueSize,     \* _QUEUE_SIZE
  MaxSequence,   \* events the server emits
  MaxReconnects, \* handshakes that succeed after the first
  OrderCount,    \* places in the list of orders to cancel
  MaxAttempts    \* PerpsCancelRetryOptions.max_attempts

ASSUME QueueAssumption == QueueSize \in Nat \ {0}
ASSUME BoundsAssumption ==
  /\ MaxSequence \in Nat /\ MaxReconnects \in Nat
  /\ OrderCount \in Nat \ {0} /\ MaxAttempts \in Nat \ {0}

Orders == 1..OrderCount

VARIABLES
  link,       \* the connection: down, handshake or live
  reconnects,
  sequence,   \* the last sequence number the server has used
  previous,   \* self._sequences[channel], 0 when there is none
  queue, dropped, ended,
  seen,       \* the last event the consumer took, 0 before the first
  noticed,    \* it has since taken a resync
  droppedSeen,\* dropped_events when it last took something
  placing,    \* place_order(): idle, sent, acked, placed, failed or timed out
  waiter,     \* its event waiter: none, waiting, matched, rejected
  accepted,   \* the server has accepted the order
  updated,    \* an update of the order has been read
  cancelling, \* cancel_orders(): idle, sent, pause, returned, raised, retryError
  remaining,  \* its local "pending": places still to be cancelled
  attempts,
  results,    \* final_results
  verdict     \* the server's last decision on each place

eventVars == <<link, reconnects, sequence, previous, queue, dropped, ended,
               seen, noticed, droppedSeen>>
placeVars == <<placing, waiter, accepted, updated>>
cancelVars == <<cancelling, remaining, attempts, results, verdict>>
vars == <<eventVars, placeVars, cancelVars>>

Resync == MaxSequence + 1
Verdicts == {"cancelled", "in_flight", "refused"}

TypeOK ==
  /\ link \in {"down", "handshake", "live"}
  /\ reconnects \in 0..MaxReconnects
  /\ sequence \in 0..MaxSequence
  /\ previous \in 0..MaxSequence
  /\ queue \in Seq(0..Resync) /\ Len(queue) <= QueueSize
  /\ dropped \in Nat /\ droppedSeen \in Nat
  /\ ended \in BOOLEAN /\ noticed \in BOOLEAN
  /\ seen \in 0..MaxSequence
  /\ placing \in {"idle", "sent", "acked", "placed", "failed", "timed out"}
  /\ waiter \in {"none", "waiting", "matched", "rejected"}
  /\ accepted \in BOOLEAN /\ updated \in BOOLEAN
  /\ cancelling \in {"idle", "sent", "pause", "returned", "raised", "retryError"}
  /\ remaining \subseteq Orders
  /\ attempts \in 0..MaxAttempts
  /\ results \in [Orders -> Verdicts \cup {"none"}]
  /\ verdict \in [Orders -> Verdicts \cup {"none"}]

Init ==
  /\ link = "live"
  /\ reconnects = 0
  /\ sequence = 0
  /\ previous = 0
  /\ queue = <<>>
  /\ dropped = 0
  /\ ended = FALSE
  /\ seen = 0
  /\ noticed = FALSE
  /\ droppedSeen = 0
  /\ placing = "idle"
  /\ waiter = "none"
  /\ accepted = FALSE
  /\ updated = FALSE
  /\ cancelling = "idle"
  /\ remaining = Orders
  /\ attempts = 0
  /\ results = [i \in Orders |-> "none"]
  /\ verdict = [i \in Orders |-> "none"]

-----------------------------------------------------------------------------
(* Events.                                                                  *)

\* _push(): nothing after the end; a full queue loses its oldest item.
Push(items) ==
  IF ended \/ items = <<>>
  THEN UNCHANGED <<queue, dropped>>
  ELSE LET first == Put(queue, items[1], QueueSize)
           more == Len(items) = 2
       IN
       /\ queue' = IF more THEN Put(first, items[2], QueueSize) ELSE first
       /\ dropped' = dropped + Lost(queue, QueueSize)
                             + (IF more THEN Lost(first, QueueSize) ELSE 0)

\* Mutant: a gap is noticed only when there is room to say so.
WithGapUnlessFull(n) ==
  IF previous \notin {0, n - 1} /\ Len(queue) + 1 < QueueSize
  THEN <<Resync, n>> ELSE <<n>>

\* _push_sequence_gap_if_needed().
WithGap(n) == IF previous \notin {0, n - 1} THEN <<Resync, n>> ELSE <<n>>

\* The server emits its next event.  It is read only on a connection that is
\* subscribed; it is lost when there is none, when the server skips it, and
\* when it does not parse.
EventMissed ==
  /\ sequence < MaxSequence
  /\ sequence' = sequence + 1
  /\ UNCHANGED <<link, reconnects, previous, queue, dropped, ended, seen, noticed,
                 droppedSeen, placeVars, cancelVars>>

\* _on_message(): waiters look at the event before it is queued.
EventRead(isUpdate) ==
  /\ sequence < MaxSequence
  /\ link # "down"
  /\ isUpdate => accepted
  /\ sequence' = sequence + 1
  /\ previous' = sequence + 1
  /\ Push(WithGap(sequence + 1))
  /\ updated' = (updated \/ isUpdate)
  /\ waiter' = IF isUpdate /\ waiter = "waiting" THEN "matched" ELSE waiter
  /\ UNCHANGED <<link, reconnects, ended, seen, noticed, droppedSeen, placing,
                 accepted, cancelVars>>

Redialed ==
  /\ link = "down"
  /\ ~ended
  /\ link' = "handshake"
  /\ UNCHANGED <<reconnects, sequence, previous, queue, dropped, ended, seen,
                 noticed, droppedSeen, placeVars, cancelVars>>

\* The end of _connect(emit_resync=True); a loss reported late makes a live
\* connection go through it as well.
Reconnected ==
  /\ link # "down"
  /\ reconnects < MaxReconnects
  /\ reconnects' = reconnects + 1
  /\ link' = "live"
  /\ previous' = 0
  /\ Push(<<Resync>>)
  /\ UNCHANGED <<sequence, ended, seen, noticed, droppedSeen, placeVars, cancelVars>>

\* place_order() before its answer fails with its request; after it, it waits
\* for an update no more.
RejectPlacing ==
  /\ placing' = IF placing = "sent" THEN "failed" ELSE placing
  /\ waiter' = IF waiter = "waiting" THEN "rejected" ELSE waiter

\* An attempt that fails raises at once if it was the first, and otherwise
\* reports what is known and what is not.
AttemptFailed == IF attempts = 0 THEN "raised" ELSE "retryError"

\* Requests that a loss or a close leaves without an answer: the server may
\* have acted on the places of the attempt.
RejectCancelling ==
  IF cancelling # "sent" THEN UNCHANGED cancelVars
  ELSE /\ cancelling' = AttemptFailed
       /\ \E acted \in [remaining -> Verdicts] :
            verdict' = [i \in Orders |-> IF i \in remaining THEN acted[i] ELSE verdict[i]]
       /\ UNCHANGED <<remaining, attempts, results>>

ConnectionLost ==
  /\ link # "down"
  /\ link' = "down"
  /\ RejectPlacing
  /\ RejectCancelling
  /\ UNCHANGED <<reconnects, sequence, previous, queue, dropped, ended, seen,
                 noticed, droppedSeen, accepted, updated>>

\* close(): _end() makes room for the sentinel without counting what it evicts.
Close ==
  /\ ~ended
  /\ ended' = TRUE
  /\ link' = "down"
  /\ queue' = Put(queue, END, QueueSize)
  /\ RejectPlacing
  /\ RejectCancelling
  /\ UNCHANGED <<reconnects, sequence, previous, dropped, seen, noticed,
                 droppedSeen, accepted, updated>>

\* __anext__(): an event, a resync or the end.
Anext ==
  /\ queue # <<>>
  /\ queue' = Tail(queue)
  /\ seen' = IF Head(queue) \in 1..MaxSequence THEN Head(queue) ELSE seen
  /\ noticed' = IF Head(queue) \in 1..MaxSequence THEN FALSE
                ELSE noticed \/ Head(queue) = Resync
  /\ droppedSeen' = IF Head(queue) \in 1..MaxSequence THEN dropped ELSE droppedSeen
  /\ UNCHANGED <<link, reconnects, sequence, previous, dropped, ended, placeVars,
                 cancelVars>>

-----------------------------------------------------------------------------
(* place_order(): the waiter is there before the order is sent.             *)

\* Mutant: the waiter is created when the order has been accepted.
PlaceUnwatched ==
  /\ placing = "idle"
  /\ link = "live"
  /\ placing' = "sent"
  /\ UNCHANGED <<waiter, accepted, updated, eventVars, cancelVars>>

PlaceOrder ==
  /\ placing = "idle"
  /\ link = "live"
  /\ placing' = "sent"
  /\ waiter' = "waiting"
  /\ UNCHANGED <<accepted, updated, eventVars, cancelVars>>

\* The server takes the order: its answer and the order's updates travel on
\* their own, and the answer may be a refusal.
ServerAccepts ==
  /\ placing = "sent"
  /\ ~accepted
  /\ accepted' = TRUE
  /\ UNCHANGED <<placing, waiter, updated, eventVars, cancelVars>>

OrderAnswered ==
  /\ placing = "sent"
  /\ placing' = IF accepted THEN "acked" ELSE "failed"
  /\ waiter' = IF accepted THEN waiter ELSE "none"
  /\ UNCHANGED <<accepted, updated, eventVars, cancelVars>>

\* The answer does not come in time.
OrderUnanswered ==
  /\ placing = "sent"
  /\ placing' = "failed"
  /\ waiter' = "none"
  /\ UNCHANGED <<accepted, updated, eventVars, cancelVars>>

PlaceReturns ==
  /\ placing = "acked"
  /\ waiter \in {"matched", "rejected"}
  /\ placing' = IF waiter = "matched" THEN "placed" ELSE "failed"
  /\ waiter' = "none"
  /\ UNCHANGED <<accepted, updated, eventVars, cancelVars>>

PlaceTimesOut ==
  /\ placing = "acked"
  /\ waiter \notin {"matched", "rejected"}
  /\ placing' = "timed out"
  /\ waiter' = "none"
  /\ UNCHANGED <<accepted, updated, eventVars, cancelVars>>

-----------------------------------------------------------------------------
(* cancel_orders() (_cancel_orders_with_retry).                             *)

CancelAttempt ==
  /\ cancelling \in {"idle", "pause"}
  /\ remaining # {}
  /\ cancelling' = IF link # "down" THEN "sent" ELSE AttemptFailed
  /\ UNCHANGED <<remaining, attempts, results, verdict, eventVars, placeVars>>

\* The places of an attempt are asked for, and answered, in ascending order.
Position(i) == Cardinality({j \in remaining : j <= i})

\* The server's answer, place by place.
Decided(answer, old) ==
  [i \in Orders |-> IF i \in remaining THEN answer[Position(i)] ELSE old[i]]

\* Mutant: results are stored by their position in the answer.
StoredByPosition(answer) ==
  [i \in Orders |-> IF i <= Cardinality(remaining) THEN answer[i] ELSE results[i]]

\* One result for each place of the attempt, in its order.
Stored(answer) == Decided(answer, results)

\* Orders in flight are tried again unless the attempts are used up.
Retryable(stored) ==
  {i \in remaining : stored[i] = "in_flight" /\ attempts + 1 < MaxAttempts}

CancelAnswered ==
  /\ cancelling = "sent"
  /\ \E answer \in [1..Cardinality(remaining) -> Verdicts] :
       /\ results' = Stored(answer)
       /\ verdict' = Decided(answer, verdict)
  /\ remaining' = Retryable(results')
  /\ attempts' = attempts + 1
  /\ cancelling' = IF remaining' = {} THEN "returned" ELSE "pause"
  /\ UNCHANGED <<eventVars, placeVars>>

\* No answer in time, a refusal of the whole request, or an answer that does
\* not fit the attempt.
CancelFails ==
  /\ cancelling = "sent"
  /\ RejectCancelling
  /\ UNCHANGED <<eventVars, placeVars>>

\* The deadline does not leave time for the next attempt.
CancelStops ==
  /\ cancelling = "pause"
  /\ cancelling' = "returned"
  /\ UNCHANGED <<remaining, attempts, results, verdict, eventVars, placeVars>>

-----------------------------------------------------------------------------

Next ==
  \/ EventMissed
  \/ \E isUpdate \in BOOLEAN : EventRead(isUpdate)
  \/ Redialed
  \/ Reconnected
  \/ ConnectionLost
  \/ Close
  \/ Anext
  \/ PlaceOrder
  \/ ServerAccepts
  \/ OrderAnswered
  \/ OrderUnanswered
  \/ PlaceReturns
  \/ PlaceTimesOut
  \/ CancelAttempt
  \/ CancelAnswered
  \/ CancelFails
  \/ CancelStops

Spec == Init /\ [][Next]_vars

-----------------------------------------------------------------------------
(* Properties.                                                              *)

\* No gap is silent: between two events that are not neighbours, the consumer
\* of a session that has not ended takes a resync or finds that dropped_events
\* has grown.
NoSilentGap ==
  [][ seen' # seen /\ seen # 0 /\ ~ended =>
        seen' = seen + 1 \/ noticed \/ dropped # droppedSeen ]_vars

\* place_order() does not time out on an order whose update has been read,
\* however early that came.
UpdateIsNotMissed ==
  [][ placing # "timed out" /\ placing' = "timed out" => ~updated ]_vars

\* What cancel_orders() reports for a place is the server's last decision on
\* it, the places PerpsCancelRetryError names as uncertain apart; every place
\* has a result.
CancelReportIsTruthful ==
  cancelling \in {"returned", "retryError"} =>
    \A i \in Orders :
      /\ results[i] # "none"
      /\ \/ results[i] = verdict[i]
         \/ cancelling = "retryError" /\ i \in remaining

=============================================================================
