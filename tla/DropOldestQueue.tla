--------------------------- MODULE DropOldestQueue ---------------------------
(***************************************************************************)
(* The bounded buffer of both stream handles: an asyncio.Queue that makes   *)
(* room by dropping its oldest item, and the sentinel that ends it          *)
(* (handle.py _push and _end, merged_handle.py _put_or_drop and             *)
(* _enqueue_end).  An event is a positive number, its place in the stream.  *)
(***************************************************************************)
EXTENDS Naturals, Sequences

END == 0

Room(q, size) == Len(q) < size

\* Mutants: the newest item is dropped; the newest jumps the queue.
PutDropsNewest(q, item, size) == IF Room(q, size) THEN Append(q, item) ELSE q
PutInPlace(q, item, size) ==
  IF Room(q, size) THEN Append(q, item) ELSE <<item>> \o Tail(q)

\* put_nowait; when the queue is full, get_nowait first.
Put(q, item, size) == Append(IF Room(q, size) THEN q ELSE Tail(q), item)

\* What a put adds to the dropped counter.
Lost(q, size) == IF Room(q, size) THEN 0 ELSE 1

EndQueued(q) == q # <<>> /\ q[Len(q)] = END

\* Events, the sentinel apart, that wait in the queue.
Buffered(q) == IF EndQueued(q) THEN Len(q) - 1 ELSE Len(q)

=============================================================================
