------------------------- MODULE RealtimeSession_proofs -------------------------
(***************************************************************************)
(* Proofs about RealtimeSession, for any keys, listeners, losses and        *)
(* failures.                                                                *)
(***************************************************************************)
EXTENDS RealtimeSession, TLAPS

-----------------------------------------------------------------------------
(* The invariant: handles.                                                  *)

\* A handle listens to keys it wants, an active one to all of them, and a state
\* that is kept anywhere belongs to a listener that has come.
HandleInv ==
  /\ \A k \in Keys : \A l \in listeners[k] : l \in active /\ k \in Wants[l]
  /\ HandlesAreWhole
  /\ \A l \in active : phase[l] \in {"waiting", "live"}
  /\ \A k \in Keys, l \in Listeners : phase[l] = "new" =>
       /\ creator[k] # l
       /\ <<k, l>> \notin batch.states
       /\ \A i \in 1..Len(ops) : <<k, l>> \notin ops[i].states

\* A handle the user has been given had all its keys accepted.
AcceptedInv ==
  /\ \A k \in Keys : ready[k] = TRUE => accepted[k] = TRUE
  /\ \A l \in active : phase[l] = "live" => awaits[l] = {}
  /\ \A l \in active : \A k \in Wants[l] \ awaits[l] : accepted[k] = TRUE

-----------------------------------------------------------------------------
(* The invariant: the worker and the connection.                            *)

\* What the worker may take for granted where it is.
ControlInv ==
  /\ lost # "none" => authenticated = FALSE /\ conn # "open"
  /\ pc \in {"recovering", "retrying", "opening"} =>
       conn # "open" /\ authenticated = FALSE /\ lost = "none"
  /\ pc = "resumed" => lost = "none"
  /\ pc = "authorizing" => authenticated = FALSE
  /\ pc \in {"changing", "pause"} /\ lost = "none" => authenticated = TRUE
  /\ conn = "open" /\ authenticated = FALSE => pc \in {"authorizing", "done"}
  /\ pc = "authorizing" /\ lost = "none" /\ ~closed => conn = "open"
  /\ authenticated = TRUE /\ ~closed => conn = "open"

\* A connection that is not authorized has nothing queued, accepted or streamed;
\* a request is under way only where the worker awaits its answer.
RestInv ==
  /\ authenticated = FALSE =>
       ops = <<>> /\ served = {} /\ \A k \in Keys : ready[k] = FALSE
  /\ conn # "open" => served = {}
  /\ IF pc = "changing" THEN batch \in Operations ELSE batch = NoBatch
  /\ pc \notin {"authorizing", "changing"} => reply = NoReply

CloseInv ==
  /\ closing \in {"worker", "done"} => pc = "done"
  /\ CloseIsComplete

-----------------------------------------------------------------------------
(* The invariant: what is under way for a key.                              *)

Names(o, k) == \E l \in Listeners : <<k, l>> \in o.states
Asks(o, x) == o.op = "subscribe" /\ x \in o.states
Drops(o, k) == o.op = "unsubscribe" /\ Names(o, k)

\* The operations that the server has not answered: b is under way, q is queued.
Places(q) == 0..Len(q)
Item(b, q, i) == IF i = 0 THEN b ELSE q[i]

\* What holds of key k, whose state l has created (or nobody), when R are ready
\* and S are streamed.
Track(k, l, R, S, b, q) ==
  \* A ready key is streamed, and nothing is under way for it.
  /\ k \in R => l # NoListener /\ k \in S /\ \A i \in Places(q) : ~Names(Item(b, q, i), k)
  \* A key that waits for its acceptance is asked for.
  /\ l # NoListener /\ k \notin R => \E i \in Places(q) : Asks(Item(b, q, i), <<k, l>>)
  \* Nothing about the key comes after that.
  /\ l # NoListener =>
       \A i, j \in Places(q) : i < j /\ Asks(Item(b, q, i), <<k, l>>) => ~Names(Item(b, q, j), k)
  \* The last word about a key that is gone is to drop it.
  /\ l = NoListener /\ (k \in S \/ \E i \in Places(q) : Names(Item(b, q, i), k)) =>
       \E i \in Places(q) : /\ Drops(Item(b, q, i), k)
                            /\ \A j \in Places(q) : i < j => ~Names(Item(b, q, j), k)
  \* A key is dropped before it is asked for again.
  /\ \A i \in Places(q) :
       i > 0 /\ q[i].op = "subscribe" /\ Names(q[i], k) /\ (k \in S \/ Names(b, k)) =>
         \E j \in Places(q) : j < i /\ Drops(Item(b, q, j), k)

Ready == {k \in Keys : ready[k] = TRUE}
Streaming == authenticated = TRUE /\ conn = "open"

QueueInv == Streaming /\ pc # "done" =>
  \A k \in Keys : Track(k, creator[k], Ready, served, batch, ops)

\* What the answer to the request under way says of the keys streamed.
FlightInv == Streaming /\ pc = "changing" =>
  \A k \in Keys : Names(batch, k) =>
    IF batch.op = "subscribe"
    THEN /\ reply = NoReply => k \notin served
         /\ reply.kind = "ok" => (k \in served <=> k \notin reply.rejected)
    ELSE reply.kind = "ok" /\ reply.rejected = {} => k \notin served

\* What is left of it while close() runs.
ReadyInv == Streaming => \A k \in Ready : creator[k] # NoListener /\ k \in served

IInv == /\ TypeOK
        /\ HandleInv
        /\ AcceptedInv
        /\ ControlInv
        /\ RestInv
        /\ CloseInv
        /\ QueueInv
        /\ FlightInv
        /\ ReadyInv

-----------------------------------------------------------------------------
(* The queue of operations.                                                 *)

\* q2 is q with these states queued for op, coalesced with the last operation
\* or in one of their own.
IsEnqueued(q, q2, op, states) ==
  /\ q2 \in Seq(Operations)
  /\ Len(q2) \in {Len(q), Len(q) + 1} /\ Len(q2) > 0
  /\ \A i \in 1..Len(q) : q2[i].op = q[i].op /\ (i < Len(q2) => q2[i] = q[i])
  /\ q2[Len(q2)].op = op
  /\ \A x : x \in q2[Len(q2)].states <=>
              x \in states \/ (Len(q2) = Len(q) /\ x \in q[Len(q)].states)

LEMMA OperationsLemma ==
  ASSUME NEW q \in Seq(Operations)
  PROVE  /\ Len(q) \in Nat
         /\ \A i \in 1..Len(q) : /\ q[i] \in Operations
                                 /\ q[i].op \in {"subscribe", "unsubscribe"}
                                 /\ q[i].states \subseteq States
<1>1. \A o \in Operations : o.op \in {"subscribe", "unsubscribe"} /\ o.states \subseteq States
  BY DEF Operations
<1> QED BY <1>1

LEMMA EnqueueLemma ==
  ASSUME ops \in Seq(Operations), NEW op \in {"subscribe", "unsubscribe"},
         NEW states \in SUBSET States, Enqueue(op, states)
  PROVE  /\ ops' \in Seq(Operations)
         /\ IF states = {} THEN ops' = ops ELSE IsEnqueued(ops, ops', op, states)
<1>1. CASE states = {}
  BY <1>1 DEF Enqueue, queueVars
<1>2. CASE states # {} /\ ops # <<>> /\ Last(ops).op = op
  <2> DEFINE n == Len(ops)
  <2>1. n \in Nat /\ n > 0 /\ n \in 1..n /\ ops[n] \in Operations
    BY <1>2, OperationsLemma
  <2> DEFINE r == [ops[n] EXCEPT !.states = @ \cup states]
  <2>2. ops' = [ops EXCEPT ![n] = r]
    BY <1>2 DEF Enqueue
  <2>3. r \in Operations /\ r.op = op /\ r.states = ops[n].states \cup states
    BY <1>2, <2>1 DEF Operations, Last
  <2> HIDE DEF r
  <2>4. ops' \in Seq(Operations) /\ Len(ops') = n /\ ops'[n] = r
        /\ \A i \in 1..n : i # n => ops'[i] = ops[i]
    BY <2>1, <2>2, <2>3
  <2>5. \A i \in 1..n : ops'[i].op = ops[i].op
    BY <1>2, <2>3, <2>4 DEF Last
  <2> QED BY <1>2, <2>1, <2>3, <2>4, <2>5 DEF IsEnqueued, Enqueue
<1>3. CASE states # {} /\ ~(ops # <<>> /\ Last(ops).op = op)
  <2> DEFINE r == [op |-> op, states |-> states]
  <2>1. ops' = Append(ops, r) /\ r \in Operations /\ r.op = op /\ r.states = states
    BY <1>3 DEF Enqueue, Operations
  <2> HIDE DEF r
  <2>2. /\ ops' \in Seq(Operations) /\ Len(ops) \in Nat /\ Len(ops') = Len(ops) + 1
        /\ ops'[Len(ops')] = r /\ \A i \in 1..Len(ops) : ops'[i] = ops[i]
    BY <2>1
  <2> QED BY <1>3, <2>1, <2>2 DEF IsEnqueued, Enqueue
<1> QED BY <1>1, <1>2, <1>3

-----------------------------------------------------------------------------
(* What is under way for one key, when operations come and go.              *)

\* Nothing about the key is queued.
LEMMA OthersQueued ==
  ASSUME NEW k, NEW l, NEW R, NEW S, NEW R2, NEW b, NEW q \in Seq(Operations), NEW q2,
         NEW op, NEW states, Track(k, l, R, S, b, q), IsEnqueued(q, q2, op, states),
         \A m \in Listeners : <<k, m>> \notin states, k \in R <=> k \in R2,
         l \in Listeners \cup {NoListener}
  PROVE  Track(k, l, R2, S, b, q2)
<1> USE OperationsLemma DEF IsEnqueued
<1>1. Len(q) \in Nat /\ Len(q2) \in Nat /\ Places(q) \subseteq Places(q2)
  BY DEF Places
<1>2. ASSUME NEW i \in Places(q)
      PROVE  /\ Item(b, q2, i).op = Item(b, q, i).op
             /\ \A m \in Listeners :
                  <<k, m>> \in Item(b, q2, i).states <=> <<k, m>> \in Item(b, q, i).states
  <2>1. CASE i = 0
    BY <2>1 DEF Item
  <2>2. CASE i # 0 /\ i < Len(q2)
    BY <1>1, <1>2, <2>2 DEF Item, Places
  <2>3. CASE i # 0 /\ ~(i < Len(q2))
    <3>1. i = Len(q) /\ i = Len(q2) /\ i \in 1..Len(q)
      BY <1>1, <1>2, <2>3 DEF Places
    <3> QED BY <3>1 DEF Item
  <2> QED BY <2>1, <2>2, <2>3
<1>3. ASSUME NEW i \in Places(q2), i \notin Places(q)
      PROVE  \A m \in Listeners : <<k, m>> \notin Item(b, q2, i).states
  <2>1. i = Len(q2) /\ Len(q2) # Len(q) /\ i # 0
    BY <1>1, <1>3 DEF Places
  <2> QED BY <2>1 DEF Item
<1>4. \A i \in Places(q) : /\ Names(Item(b, q2, i), k) <=> Names(Item(b, q, i), k)
                           /\ Drops(Item(b, q2, i), k) <=> Drops(Item(b, q, i), k)
                           /\ l # NoListener =>
                                (Asks(Item(b, q2, i), <<k, l>>) <=> Asks(Item(b, q, i), <<k, l>>))
  BY <1>2 DEF Names, Drops, Asks
<1>5. \A i \in Places(q2) : ~(i \in Places(q)) =>
        /\ ~Names(Item(b, q2, i), k)
        /\ l # NoListener => ~Asks(Item(b, q2, i), <<k, l>>)
  BY <1>3 DEF Names, Asks
<1>6. k \in R2 => l # NoListener /\ k \in S /\ \A i \in Places(q2) : ~Names(Item(b, q2, i), k)
  BY <1>4, <1>5 DEF Track
<1>7. l # NoListener /\ k \notin R2 => \E i \in Places(q2) : Asks(Item(b, q2, i), <<k, l>>)
  BY <1>1, <1>4 DEF Track
<1>8. l # NoListener =>
       \A i, j \in Places(q2) : i < j /\ Asks(Item(b, q2, i), <<k, l>>) => ~Names(Item(b, q2, j), k)
  BY <1>4, <1>5 DEF Track
<1>9. l = NoListener /\ (k \in S \/ \E i \in Places(q2) : Names(Item(b, q2, i), k)) =>
       \E i \in Places(q2) : /\ Drops(Item(b, q2, i), k)
                             /\ \A j \in Places(q2) : i < j => ~Names(Item(b, q2, j), k)
  BY <1>1, <1>4, <1>5 DEF Track
<1>10. \A i \in Places(q2) :
         i > 0 /\ q2[i].op = "subscribe" /\ Names(q2[i], k) /\ (k \in S \/ Names(b, k)) =>
           \E j \in Places(q2) : j < i /\ Drops(Item(b, q2, j), k)
  <2> SUFFICES ASSUME NEW i \in Places(q2), i > 0, q2[i].op = "subscribe", Names(q2[i], k),
                      k \in S \/ Names(b, k)
               PROVE  \E j \in Places(q2) : j < i /\ Drops(Item(b, q2, j), k)
    OBVIOUS
  <2>1. Item(b, q2, i) = q2[i] /\ Item(b, q, i) = q[i]
    BY DEF Item
  <2>2. i \in Places(q) /\ Names(q[i], k) /\ q[i].op = "subscribe"
    BY <1>2, <1>4, <1>5, <2>1
  <2>3. \E j \in Places(q) : j < i /\ Drops(Item(b, q, j), k)
    BY <2>2 DEF Track
  <2> QED BY <1>1, <1>4, <2>3
<1> HIDE DEF IsEnqueued
<1> QED BY <1>6, <1>7, <1>8, <1>9, <1>10 DEF Track

\* A key that goes is dropped last of all.
LEMMA DropQueued ==
  ASSUME NEW k, NEW l, NEW R, NEW S, NEW R2, NEW b, NEW q \in Seq(Operations), NEW q2,
         NEW states, Track(k, l, R, S, b, q), IsEnqueued(q, q2, "unsubscribe", states),
         NEW m \in Listeners, <<k, m>> \in states, k \notin R2
  PROVE  Track(k, NoListener, R2, S, b, q2)
<1> USE OperationsLemma DEF IsEnqueued
<1>1. Len(q) \in Nat /\ Len(q2) \in Nat /\ Len(q2) \in Places(q2) /\ Places(q) \subseteq Places(q2)
  BY DEF Places
<1>2. Drops(Item(b, q2, Len(q2)), k)
  <2>1. Item(b, q2, Len(q2)) = q2[Len(q2)]
    BY <1>1 DEF Item
  <2> QED BY <2>1 DEF Drops, Names
<1>3. \A j \in Places(q2) : ~(Len(q2) < j)
  BY <1>1 DEF Places
<1>4. \A i \in Places(q2) :
        i > 0 /\ q2[i].op = "subscribe" /\ Names(q2[i], k) /\ (k \in S \/ Names(b, k)) =>
          \E j \in Places(q2) : j < i /\ Drops(Item(b, q2, j), k)
  <2> SUFFICES ASSUME NEW i \in Places(q2), i > 0, q2[i].op = "subscribe", Names(q2[i], k),
                      k \in S \/ Names(b, k)
               PROVE  \E j \in Places(q2) : j < i /\ Drops(Item(b, q2, j), k)
    OBVIOUS
  <2>1. i \in 1..Len(q) /\ i < Len(q2) /\ q2[i] = q[i] /\ i \in Places(q)
    BY <1>1 DEF Places
  <2>2. PICK j \in Places(q) : j < i /\ Drops(Item(b, q, j), k)
    BY <2>1 DEF Track
  <2>3. Item(b, q2, j) = Item(b, q, j)
    BY <1>1, <2>1, <2>2 DEF Item, Places
  <2> QED BY <1>1, <2>2, <2>3
<1> HIDE DEF IsEnqueued
<1> QED BY <1>1, <1>2, <1>3, <1>4 DEF Track

\* A new key is asked for last of all, after it has been dropped.
LEMMA AskQueued ==
  ASSUME NEW k, NEW l \in Listeners, NEW R, NEW S, NEW b, NEW q \in Seq(Operations), NEW q2,
         NEW states, Track(k, NoListener, R, S, b, q), IsEnqueued(q, q2, "subscribe", states),
         <<k, l>> \in states, k \notin R, <<k, l>> \notin b.states,
         \A i \in 1..Len(q) : <<k, l>> \notin q[i].states
  PROVE  Track(k, l, R, S, b, q2)
<1> USE OperationsLemma DEF IsEnqueued
<1>1. Len(q) \in Nat /\ Len(q2) \in Nat /\ Len(q2) \in Places(q2) /\ Places(q) \subseteq Places(q2)
  BY DEF Places
<1>2. Asks(Item(b, q2, Len(q2)), <<k, l>>)
  <2>1. Item(b, q2, Len(q2)) = q2[Len(q2)]
    BY <1>1 DEF Item
  <2> QED BY <2>1 DEF Asks
<1>3. \A i \in Places(q2) : i < Len(q2) => i \in Places(q) /\ Item(b, q2, i) = Item(b, q, i)
  BY <1>1 DEF Item, Places
<1>4. \A i, j \in Places(q2) : i < j /\ Asks(Item(b, q2, i), <<k, l>>) => ~Names(Item(b, q2, j), k)
  <2>1. ASSUME NEW i \in Places(q2), i < Len(q2) PROVE ~Asks(Item(b, q2, i), <<k, l>>)
    <3>1. i \in Places(q) /\ Item(b, q2, i) = Item(b, q, i)
      BY <1>3, <2>1
    <3>2. i = 0 \/ i \in 1..Len(q)
      BY <1>1, <3>1 DEF Places
    <3>3. <<k, l>> \notin Item(b, q, i).states
      BY <3>2 DEF Item
    <3> QED BY <3>1, <3>3 DEF Asks
  <2>2. \A i, j \in Places(q2) : i < j => i < Len(q2)
    BY <1>1 DEF Places
  <2> QED BY <2>1, <2>2
<1>5. ASSUME k \in S \/ \E i \in Places(q) : Names(Item(b, q, i), k)
      PROVE  \E j \in Places(q) : j < Len(q2) /\ Drops(Item(b, q, j), k)
  <2>1. PICK j \in Places(q) : Drops(Item(b, q, j), k)
    BY <1>5 DEF Track
  <2>2. j # Len(q2)
    <3>1. CASE j = Len(q2)
      <4>1. j \in 1..Len(q) /\ Item(b, q, j) = q[j] /\ q[j].op = "subscribe"
        BY <1>1, <2>1, <3>1 DEF Places, Item
      <4> QED BY <2>1, <4>1 DEF Drops
    <3> QED BY <3>1
  <2>3. j < Len(q2)
    BY <1>1, <2>1, <2>2 DEF Places
  <2> QED BY <2>1, <2>3
<1>6. \A i \in Places(q2) :
        i > 0 /\ q2[i].op = "subscribe" /\ Names(q2[i], k) /\ (k \in S \/ Names(b, k)) =>
          \E j \in Places(q2) : j < i /\ Drops(Item(b, q2, j), k)
  <2> SUFFICES ASSUME NEW i \in Places(q2), i > 0, q2[i].op = "subscribe", Names(q2[i], k),
                      k \in S \/ Names(b, k)
               PROVE  \E j \in Places(q2) : j < i /\ Drops(Item(b, q2, j), k)
    OBVIOUS
  <2>1. CASE i = Len(q2)
    <3>1. 0 \in Places(q) /\ Item(b, q, 0) = b
      BY <1>1 DEF Places, Item
    <3>2. PICK j \in Places(q) : j < Len(q2) /\ Drops(Item(b, q, j), k)
      BY <1>5, <3>1
    <3> QED BY <1>1, <1>3, <2>1, <3>2
  <2>2. CASE i # Len(q2)
    <3>1. i \in Places(q) /\ q2[i] = q[i] /\ i < Len(q2)
      BY <1>1, <2>2 DEF Places
    <3>2. PICK j \in Places(q) : j < i /\ Drops(Item(b, q, j), k)
      BY <3>1 DEF Track
    <3>3. j < Len(q2) /\ j \in Places(q2)
      BY <1>1, <3>1, <3>2 DEF Places
    <3> QED BY <1>3, <3>2, <3>3
  <2> QED BY <2>1, <2>2
<1> HIDE DEF IsEnqueued
<1> QED BY <1>1, <1>2, <1>4, <1>6, NoListenerAssumption DEF Track

\* The first queued operation is sent, or nothing of it is left to send: of a
\* subscribe the states that are the session's own.
LEMMA FirstSent ==
  ASSUME NEW k, NEW l \in Listeners \cup {NoListener}, NEW R, NEW S,
         NEW q \in Seq(Operations), q # <<>>, NEW b, NEW b2,
         Track(k, l, R, S, b, q), ~Names(b, k),
         b2.op = q[1].op \/ ~Names(b2, k),
         \A m \in Listeners : <<k, m>> \in b2.states <=>
           <<k, m>> \in q[1].states /\ (q[1].op = "subscribe" => m = l)
  PROVE  /\ Track(k, l, R, S, b2, Tail(q))
         /\ Asks(b2, <<k, l>>) /\ l # NoListener => k \notin S
<1> DEFINE t == Tail(q)
<1>1. /\ Len(q) \in Nat /\ Len(t) \in Nat /\ Len(t) = Len(q) - 1
      /\ \A i \in 1..Len(t) : t[i] = q[i + 1]
      /\ q[1].op \in {"subscribe", "unsubscribe"}
  BY OperationsLemma
<1> HIDE DEF t
<1>2. 1 \in Places(q) /\ Item(b, q, 1) = q[1] /\ Item(b, q, 0) = b /\ 0 \in Places(q)
      /\ Item(b2, t, 0) = b2 /\ 0 \in Places(t)
  BY <1>1 DEF Places, Item
<1>3. ASSUME NEW i \in Places(t), i # 0
      PROVE  i + 1 \in Places(q) /\ Item(b2, t, i) = Item(b, q, i + 1) /\ i + 1 > 1
             /\ t[i] = q[i + 1]
  BY <1>1, <1>3 DEF Places, Item
<1>4. ASSUME NEW j \in Places(q), j > 1
      PROVE  j - 1 \in Places(t) /\ j - 1 # 0 /\ Item(b2, t, j - 1) = Item(b, q, j)
  BY <1>1, <1>4 DEF Places, Item
<1>5. Names(b2, k) => Names(q[1], k)
  BY DEF Names
<1>6. l # NoListener => (Asks(b2, <<k, l>>) <=> Asks(q[1], <<k, l>>))
  BY DEF Asks, Names
<1>7. q[1].op = "unsubscribe" =>
        (Drops(b2, k) <=> Drops(q[1], k)) /\ (Names(b2, k) <=> Names(q[1], k))
  BY DEF Drops, Names
<1>8. q[1].op = "subscribe" /\ Names(b2, k) => l # NoListener /\ Asks(q[1], <<k, l>>)
  BY NoListenerAssumption DEF Names, Asks
<1>9. k \in R => l # NoListener /\ k \in S /\ \A i \in Places(t) : ~Names(Item(b2, t, i), k)
  <2> SUFFICES ASSUME k \in R
               PROVE  l # NoListener /\ k \in S /\ \A i \in Places(t) : ~Names(Item(b2, t, i), k)
    OBVIOUS
  <2>1. l # NoListener /\ k \in S /\ \A i \in Places(q) : ~Names(Item(b, q, i), k)
    BY DEF Track
  <2>2. ~Names(b2, k)
    BY <1>2, <1>5, <2>1
  <2> QED BY <1>2, <1>3, <2>1, <2>2
<1>10. l # NoListener /\ k \notin R => \E i \in Places(t) : Asks(Item(b2, t, i), <<k, l>>)
  <2> SUFFICES ASSUME l # NoListener, k \notin R
               PROVE  \E i \in Places(t) : Asks(Item(b2, t, i), <<k, l>>)
    OBVIOUS
  <2>1. PICK i \in Places(q) : Asks(Item(b, q, i), <<k, l>>)
    BY DEF Track
  <2>2. i # 0
    BY <1>2, <2>1 DEF Asks, Names
  <2>3. CASE i = 1
    BY <1>2, <1>6, <2>1, <2>3
  <2>4. CASE i > 1
    BY <1>4, <2>1, <2>4
  <2>5. i = 1 \/ i > 1
    BY <1>1, <2>2 DEF Places
  <2> QED BY <2>3, <2>4, <2>5
<1>11. l # NoListener =>
       \A i, j \in Places(t) : i < j /\ Asks(Item(b2, t, i), <<k, l>>) => ~Names(Item(b2, t, j), k)
  <2> SUFFICES ASSUME l # NoListener, NEW i \in Places(t), NEW j \in Places(t), i < j,
                      Asks(Item(b2, t, i), <<k, l>>)
               PROVE  ~Names(Item(b2, t, j), k)
    OBVIOUS
  <2>1. i \in Nat /\ j \in Nat /\ j # 0 /\ i + 1 \in Places(q) /\ i + 1 < j + 1
    BY <1>1 DEF Places
  <2>2. Asks(Item(b, q, i + 1), <<k, l>>)
    <3>1. CASE i = 0
      BY <1>2, <1>6, <3>1
    <3>2. CASE i # 0
      BY <1>3, <3>2
    <3> QED BY <3>1, <3>2
  <2>3. j + 1 \in Places(q) /\ Item(b2, t, j) = Item(b, q, j + 1)
    BY <1>3, <2>1
  <2> QED BY <2>1, <2>2, <2>3 DEF Track
<1>12. l = NoListener /\ (k \in S \/ \E i \in Places(t) : Names(Item(b2, t, i), k)) =>
       \E i \in Places(t) : /\ Drops(Item(b2, t, i), k)
                            /\ \A j \in Places(t) : i < j => ~Names(Item(b2, t, j), k)
  <2> SUFFICES ASSUME l = NoListener, k \in S \/ \E i \in Places(t) : Names(Item(b2, t, i), k)
               PROVE  \E i \in Places(t) : /\ Drops(Item(b2, t, i), k)
                            /\ \A j \in Places(t) : i < j => ~Names(Item(b2, t, j), k)
    OBVIOUS
  <2>1. k \in S \/ \E i \in Places(q) : Names(Item(b, q, i), k)
    <3>1. ASSUME NEW i \in Places(t), Names(Item(b2, t, i), k)
          PROVE  \E j \in Places(q) : Names(Item(b, q, j), k)
      <4>1. CASE i = 0
        BY <1>2, <1>5, <3>1, <4>1
      <4>2. CASE i # 0
        BY <1>3, <3>1, <4>2
      <4> QED BY <4>1, <4>2
    <3> QED BY <3>1
  <2>2. PICK i \in Places(q) : /\ Drops(Item(b, q, i), k)
                               /\ \A j \in Places(q) : i < j => ~Names(Item(b, q, j), k)
    BY <2>1 DEF Track
  <2>3. i # 0
    BY <1>2, <2>2 DEF Drops
  <2>4. CASE i = 1
    <3>1. Drops(b2, k)
      BY <1>2, <1>7, <2>2, <2>4 DEF Drops
    <3>2. \A j \in Places(t) : 0 < j => ~Names(Item(b2, t, j), k)
      BY <1>3, <2>2, <2>4
    <3> QED BY <1>2, <3>1, <3>2
  <2>5. CASE i > 1
    <3>1. i - 1 \in Places(t) /\ Drops(Item(b2, t, i - 1), k)
      BY <1>4, <2>2, <2>5
    <3>2. ASSUME NEW j \in Places(t), i - 1 < j PROVE ~Names(Item(b2, t, j), k)
      <4>1. j # 0 /\ i < j + 1
        BY <1>1, <2>5, <3>2 DEF Places
      <4> QED BY <1>3, <2>2, <4>1
    <3> QED BY <3>1, <3>2
  <2> QED BY <1>1, <2>3, <2>4, <2>5 DEF Places
<1>13. \A i \in Places(t) :
        i > 0 /\ t[i].op = "subscribe" /\ Names(t[i], k) /\ (k \in S \/ Names(b2, k)) =>
          \E j \in Places(t) : j < i /\ Drops(Item(b2, t, j), k)
  <2> SUFFICES ASSUME NEW i \in Places(t), i > 0, t[i].op = "subscribe", Names(t[i], k),
                      k \in S \/ Names(b2, k)
               PROVE  \E j \in Places(t) : j < i /\ Drops(Item(b2, t, j), k)
    OBVIOUS
  <2>1. /\ i \in Nat /\ i + 1 \in Places(q) /\ i + 1 > 0 /\ t[i] = q[i + 1]
        /\ Item(b, q, i + 1) = q[i + 1] /\ i + 1 > 1
    BY <1>1, <1>3 DEF Places, Item
  <2>2. CASE k \in S
    <3>1. PICK j \in Places(q) : j < i + 1 /\ Drops(Item(b, q, j), k)
      BY <2>1, <2>2 DEF Track
    <3>2. j # 0
      BY <1>2, <3>1 DEF Drops
    <3>3. CASE j = 1
      BY <1>2, <1>7, <3>1, <3>3 DEF Drops
    <3>4. CASE j > 1
      <4>1. j - 1 \in Places(t) /\ Drops(Item(b2, t, j - 1), k)
        BY <1>4, <3>1, <3>4
      <4>2. j - 1 < i
        BY <1>1, <2>1, <3>1, <3>4 DEF Places
      <4> QED BY <4>1, <4>2
    <3> QED BY <1>1, <3>2, <3>3, <3>4 DEF Places
  <2>3. CASE Names(b2, k)
    <3>1. CASE q[1].op = "unsubscribe"
      BY <1>2, <1>7, <2>3, <3>1 DEF Drops
    <3>2. CASE q[1].op = "subscribe"
      <4>1. l # NoListener /\ Asks(Item(b, q, 1), <<k, l>>)
        BY <1>2, <1>8, <2>3, <3>2
      <4>2. ~Names(Item(b, q, i + 1), k)
        BY <1>2, <2>1, <4>1 DEF Track
      <4> QED BY <2>1, <4>2
    <3> QED BY <1>1, <3>1, <3>2
  <2> QED BY <2>2, <2>3
<1>14. ASSUME Asks(b2, <<k, l>>), l # NoListener PROVE k \notin S
  <2>1. Names(q[1], k) /\ q[1].op = "subscribe"
    BY <1>6, <1>14 DEF Asks, Names
  <2>2. \A j \in Places(q) : j < 1 => j = 0
    BY <1>1 DEF Places
  <2>3. ~Drops(Item(b, q, 0), k)
    BY <1>2 DEF Drops
  <2> QED BY <1>2, <2>1, <2>2, <2>3 DEF Track
<1> QED BY <1>9, <1>10, <1>11, <1>12, <1>13, <1>14 DEF Track, t

\* The answer to a request is read: the key is taken to be accepted or gone
\* (RS and l2), or is not the request's concern.
LEMMA AnswerRead ==
  ASSUME NEW k, NEW l \in Listeners \cup {NoListener}, NEW l2, NEW R, NEW R2, NEW S,
         NEW q \in Seq(Operations), NEW b, NEW b2, Track(k, l, R, S, b, q), ~Names(b2, k),
         \/ /\ b.op = "subscribe"
            /\ \/ l2 = l /\ (k \in R2 <=> k \in R) /\ ~(l # NoListener /\ <<k, l>> \in b.states)
               \/ l2 = l /\ l # NoListener /\ <<k, l>> \in b.states /\ k \in R2 /\ k \in S
               \/ l2 = NoListener /\ l # NoListener /\ <<k, l>> \in b.states /\ k \notin R2 /\ k \notin S
         \/ /\ b.op = "unsubscribe" /\ l2 = l /\ (k \in R2 <=> k \in R)
            /\ Names(b, k) => k \notin S
  PROVE  Track(k, l2, R2, S, b2, q)
<1>1. Len(q) \in Nat /\ 0 \in Places(q) /\ Item(b, q, 0) = b /\ Item(b2, q, 0) = b2
  BY OperationsLemma DEF Places, Item
<1>2. \A i \in Places(q) : i # 0 => i > 0 /\ Item(b2, q, i) = Item(b, q, i) /\ Item(b, q, i) = q[i]
  BY <1>1 DEF Places, Item
<1>3. l # NoListener /\ Asks(b, <<k, l>>) => \A i \in Places(q) : i # 0 => ~Names(Item(b, q, i), k)
  BY <1>1, <1>2 DEF Track
<1>4. k \in R2 => l2 # NoListener /\ k \in S /\ \A i \in Places(q) : ~Names(Item(b2, q, i), k)
  <2>1. CASE k \in R /\ l2 = l
    <3>1. l # NoListener /\ k \in S /\ \A i \in Places(q) : ~Names(Item(b, q, i), k)
      BY <2>1 DEF Track
    <3> QED BY <1>1, <1>2, <2>1, <3>1
  <2>2. CASE Asks(b, <<k, l>>) /\ l # NoListener /\ k \in S /\ l2 = l
    BY <1>1, <1>2, <1>3, <2>2
  <2> QED BY <2>1, <2>2 DEF Asks
<1>5. l2 # NoListener /\ k \notin R2 => \E i \in Places(q) : Asks(Item(b2, q, i), <<k, l2>>)
  <2> SUFFICES ASSUME l2 # NoListener, k \notin R2
               PROVE  \E i \in Places(q) : Asks(Item(b2, q, i), <<k, l2>>)
    OBVIOUS
  <2>1. l2 = l /\ k \notin R /\ ~Asks(b, <<k, l>>)
    BY DEF Asks
  <2>2. PICK i \in Places(q) : Asks(Item(b, q, i), <<k, l>>)
    BY <2>1 DEF Track
  <2> QED BY <1>1, <1>2, <2>1, <2>2
<1>6. l2 # NoListener =>
       \A i, j \in Places(q) : i < j /\ Asks(Item(b2, q, i), <<k, l2>>) => ~Names(Item(b2, q, j), k)
  <2> SUFFICES ASSUME l2 # NoListener, NEW i \in Places(q), NEW j \in Places(q), i < j,
                      Asks(Item(b2, q, i), <<k, l2>>)
               PROVE  ~Names(Item(b2, q, j), k)
    OBVIOUS
  <2>1. l2 = l
    OBVIOUS
  <2>2. i # 0
    BY <1>1, <2>1 DEF Asks, Names
  <2>3. j # 0
    BY <1>1 DEF Places
  <2> QED BY <1>2, <2>1, <2>2, <2>3 DEF Track
<1>7. l2 = NoListener /\ (k \in S \/ \E i \in Places(q) : Names(Item(b2, q, i), k)) =>
       \E i \in Places(q) : /\ Drops(Item(b2, q, i), k)
                            /\ \A j \in Places(q) : i < j => ~Names(Item(b2, q, j), k)
  <2> SUFFICES ASSUME l2 = NoListener, k \in S \/ \E i \in Places(q) : Names(Item(b2, q, i), k)
               PROVE  \E i \in Places(q) : /\ Drops(Item(b2, q, i), k)
                            /\ \A j \in Places(q) : i < j => ~Names(Item(b2, q, j), k)
    OBVIOUS
  <2>1. l = NoListener
    <3>1. SUFFICES ASSUME l # NoListener PROVE FALSE
      OBVIOUS
    <3>2. Asks(b, <<k, l>>) /\ k \notin S
      BY <3>1 DEF Asks
    <3> QED BY <1>1, <1>2, <1>3, <3>1, <3>2
  <2>2. k \in S \/ \E i \in Places(q) : Names(Item(b, q, i), k)
    BY <1>1, <1>2
  <2>3. PICK i \in Places(q) : /\ Drops(Item(b, q, i), k)
                               /\ \A j \in Places(q) : i < j => ~Names(Item(b, q, j), k)
    BY <2>1, <2>2 DEF Track
  <2>4. i # 0
    <3>1. SUFFICES ASSUME i = 0 PROVE FALSE
      OBVIOUS
    <3>2. k \notin S
      BY <1>1, <2>1, <2>3, <3>1 DEF Drops
    <3> QED BY <1>1, <1>2, <2>3, <3>1, <3>2
  <2>5. \A j \in Places(q) : i < j => j # 0
    BY <1>1 DEF Places
  <2> QED BY <1>2, <2>3, <2>4, <2>5
<1>8. \A i \in Places(q) :
        i > 0 /\ q[i].op = "subscribe" /\ Names(q[i], k) /\ (k \in S \/ Names(b2, k)) =>
          \E j \in Places(q) : j < i /\ Drops(Item(b2, q, j), k)
  <2> SUFFICES ASSUME NEW i \in Places(q), i > 0, q[i].op = "subscribe", Names(q[i], k), k \in S
               PROVE  \E j \in Places(q) : j < i /\ Drops(Item(b2, q, j), k)
    OBVIOUS
  <2>1. PICK j \in Places(q) : j < i /\ Drops(Item(b, q, j), k)
    BY DEF Track
  <2>2. j # 0
    BY <1>1, <2>1 DEF Drops
  <2> QED BY <1>2, <2>1, <2>2
<1> QED BY <1>4, <1>5, <1>6, <1>7, <1>8 DEF Track

\* The server applies a part of the request under way.
LEMMA PartApplied ==
  ASSUME NEW k, NEW l, NEW R, NEW S, NEW S2, NEW b, NEW q \in Seq(Operations),
         Track(k, l, R, S, b, q), k \in S2 => k \in S \/ Names(b, k),
         k \in S /\ ~Names(b, k) => k \in S2
  PROVE  Track(k, l, R, S2, b, q)
<1>1. 0 \in Places(q) /\ Item(b, q, 0) = b
  BY OperationsLemma DEF Places, Item
<1> QED BY <1>1 DEF Track

-----------------------------------------------------------------------------
(* What the steps do to each part of the state.                             *)

KeyTypeOK ==
  /\ creator \in [Keys -> Listeners \cup {NoListener}]
  /\ listeners \in [Keys -> SUBSET Listeners]
  /\ \A k \in Keys : creator[k] = NoListener <=> listeners[k] = {}
  /\ active \subseteq Listeners
  /\ raised \subseteq Listeners
  /\ idle \in BOOLEAN

\* Handles leave.
LEMMA LeaveLemma ==
  ASSUME TypeOK, NEW leaving \in SUBSET Listeners, Leave(leaving)
  PROVE  /\ KeyTypeOK'
         /\ \A k \in Keys : /\ k \in Abandoned(leaving) => creator'[k] = NoListener
                            /\ k \notin Abandoned(leaving) => creator'[k] = creator[k]
                            /\ listeners'[k] = listeners[k] \ leaving
         /\ active' = active \ leaving
<1>1. /\ creator \in [Keys -> Listeners \cup {NoListener}]
      /\ listeners \in [Keys -> SUBSET Listeners]
      /\ \A k \in Keys : creator[k] = NoListener <=> listeners[k] = {}
      /\ active \subseteq Listeners /\ raised \subseteq Listeners
  BY DEF TypeOK
<1>2. /\ creator' = [k \in Keys |-> IF k \in Abandoned(leaving) THEN NoListener ELSE creator[k]]
      /\ listeners' = [k \in Keys |-> listeners[k] \ leaving]
      /\ active' = active \ leaving
      /\ raised' = RaisedBy(Abandoned(leaving))
      /\ idle' = TimerAfter(Abandoned(leaving))
  BY DEF Leave
<1>3. idle' \in BOOLEAN
  BY <1>2, Zenon DEF TimerAfter
<1>4. raised' \subseteq Listeners
  BY <1>1, <1>2 DEF RaisedBy
<1>5. \A k \in Keys : creator'[k] = NoListener <=> listeners'[k] = {}
  BY <1>1, <1>2 DEF Abandoned, Known
<1>6. /\ creator' \in [Keys -> Listeners \cup {NoListener}]
      /\ listeners' \in [Keys -> SUBSET Listeners]
  BY <1>1, <1>2
<1> QED BY <1>1, <1>2, <1>3, <1>4, <1>5, <1>6 DEF KeyTypeOK

\* Acceptances are settled.
LEMMA SettleLemma ==
  ASSUME TypeOK, NEW kept, NEW gone, Settle(kept, gone)
  PROVE  /\ ready' \in [Keys -> BOOLEAN] /\ accepted' \in [Keys -> BOOLEAN]
         /\ \A k \in Keys :
              /\ ready'[k] = TRUE <=> (ready[k] = TRUE \/ k \in kept) /\ k \notin gone
              /\ accepted'[k] = TRUE <=> (accepted[k] = TRUE \/ k \in kept) /\ k \notin gone
<1>1. /\ ready' = [k \in Keys |-> (ready[k] \/ k \in kept) /\ k \notin gone]
      /\ accepted' = [k \in Keys |-> (accepted[k] \/ k \in kept) /\ k \notin gone]
  BY DEF Settle
<1>2. ready \in [Keys -> BOOLEAN] /\ accepted \in [Keys -> BOOLEAN]
  BY DEF TypeOK
<1>3. ready' \in [Keys -> BOOLEAN] /\ accepted' \in [Keys -> BOOLEAN]
  BY <1>1, Zenon
<1>4. \A k \in Keys :
        /\ ready'[k] = TRUE <=> (ready[k] = TRUE \/ k \in kept) /\ k \notin gone
        /\ accepted'[k] = TRUE <=> (accepted[k] = TRUE \/ k \in kept) /\ k \notin gone
  BY <1>1, <1>2
<1> QED BY <1>3, <1>4

\* Who listens to a key, and who waits for it, is a handle.
LEMMA WhoLeaves ==
  ASSUME TypeOK
  PROVE  /\ \A keys \in SUBSET Keys : Fanout(keys) \in SUBSET Listeners
         /\ Known \in SUBSET Keys /\ NeverAccepted \in SUBSET Keys
         /\ \A states : CurrentKeys(states) \in SUBSET Keys /\ CurrentKeys(states) \subseteq Known
         /\ \A leaving : Abandoned(leaving) \in SUBSET Keys /\ Abandoned(leaving) \subseteq Known
         /\ \A keys \in SUBSET Known : StatesOf(keys) \in SUBSET States
BY DEF TypeOK, Fanout, Known, NeverAccepted, CurrentKeys, Abandoned, StatesOf, States

\* The keys of the session and its handles change only so.
LEMMA KeySteps ==
  ASSUME TypeOK, [Next]_vars
  PROVE  \/ UNCHANGED <<creator, listeners, active, raised>> /\ idle' \in {idle, FALSE}
         \/ \E l \in Listeners : Subscribe(l)
         \/ \E leaving \in SUBSET Listeners : Leave(leaving)
<1>1. CASE UNCHANGED vars
  BY <1>1 DEF vars, keyVars
<1>2. CASE LoopHead
  <2>1. UNCHANGED keyVars \/ Leave(Fanout(Known))
    BY <1>2 DEF LoopHead, RejectAll, Recover
  <2> QED BY <2>1, WhoLeaves DEF keyVars
<1>3. CASE WorkerWakes \/ RecoverEnds \/ Opened \/ Authorized \/ RequestFails \/ PauseEnds
           \/ ServerAnswers \/ ConnectionLost \/ IdleFires \/ ShutdownBegins
  BY <1>3 DEF WorkerWakes, RecoverEnds, WorkerGoes, Opened, Authorized, RequestFails, PauseEnds,
              ServerAnswers, ConnectionLost, IdleFires, ShutdownBegins, keyVars
<1>4. CASE OpenFails
  BY <1>4, WhoLeaves DEF OpenFails
<1>5. CASE AuthorizationRejected
  BY <1>5, WhoLeaves DEF AuthorizationRejected, RejectAll, keyVars
<1>6. CASE Changed
  <2> DEFINE rejected == CurrentKeys(batch.states) \cap reply.rejected
  <2>1. UNCHANGED keyVars \/ Leave(Fanout(rejected))
    BY <1>6 DEF Changed, Subscribed
  <2>2. rejected \in SUBSET Keys
    BY WhoLeaves
  <2> HIDE DEF rejected
  <2> QED BY <2>1, <2>2, WhoLeaves DEF keyVars
<1>7. CASE ChangeRefused
  <2>1. UNCHANGED keyVars \/ Leave(Fanout(CurrentKeys(batch.states)))
    BY <1>7 DEF ChangeRefused, Refused
  <2> QED BY <2>1, WhoLeaves DEF keyVars
<1>8. ASSUME NEW l \in Listeners, User(l)
      PROVE  UNCHANGED keyVars \/ Subscribe(l) \/ Leave({l})
  BY <1>8 DEF User, SubscribeReturns, SubscribeFails, SubscribeGivesUp, CloseHandle, Release,
              ReleaseAll
<1>9. CASE ManagerCloses
  BY <1>9 DEF ManagerCloses, ReleaseAll, TypeOK
<1>10. CASE ShutdownEnds
  BY <1>10, WhoLeaves DEF ShutdownEnds
<1> QED BY <1>1, <1>2, <1>3, <1>4, <1>5, <1>6, <1>7, <1>8, <1>9, <1>10 DEF Next, Worker, keyVars

\* subscribe() creates the states of keys nobody had, and listens to all.
LEMMA SubscribeLemma ==
  ASSUME TypeOK, NEW l \in Listeners, Subscribe(l)
  PROVE  /\ KeyTypeOK'
         /\ Wants[l] \subseteq Keys /\ Wants[l] # {}
         /\ \A k \in Keys : /\ k \in Wants[l] \ Known => creator'[k] = l
                            /\ k \notin Wants[l] \ Known => creator'[k] = creator[k]
                            /\ k \in Wants[l] => listeners'[k] = listeners[k] \cup {l}
                            /\ k \notin Wants[l] => listeners'[k] = listeners[k]
         /\ active' = active \cup {l}
         /\ (Wants[l] \ Known) \X {l} \in SUBSET States
<1>1. Wants[l] \subseteq Keys /\ Wants[l] # {} /\ l # NoListener
  BY WantsAssumption, NoListenerAssumption
<1>2. /\ creator' = [k \in Keys |-> IF k \in Wants[l] \ Known THEN l ELSE creator[k]]
      /\ listeners' = [k \in Keys |-> IF k \in Wants[l] THEN listeners[k] \cup {l} ELSE listeners[k]]
      /\ active' = active \cup {l} /\ raised' = raised /\ idle' = FALSE
  BY DEF Subscribe, TimerOnAdd
<1>3. \A k \in Keys : creator'[k] = NoListener <=> listeners'[k] = {}
  BY <1>1, <1>2 DEF TypeOK, Known
<1> QED BY <1>1, <1>2, <1>3 DEF TypeOK, KeyTypeOK, States

LEMMA NextKeyType == TypeOK /\ [Next]_vars => KeyTypeOK'
<1> SUFFICES ASSUME TypeOK, [Next]_vars PROVE KeyTypeOK'
  OBVIOUS
<1>1. CASE UNCHANGED <<creator, listeners, active, raised>> /\ idle' \in {idle, FALSE}
  BY <1>1 DEF TypeOK, KeyTypeOK
<1> QED BY <1>1, KeySteps, LeaveLemma, SubscribeLemma

\* Acceptances change only so.
LEMMA StateSteps ==
  ASSUME TypeOK, [Next]_vars
  PROVE  \/ UNCHANGED stateVars
         \/ \E kept \in SUBSET Known, gone \in SUBSET Keys : Settle(kept, gone)
         \/ /\ ready' = [k \in Keys |-> FALSE]
            /\ \/ accepted' = accepted
               \/ accepted' = [k \in Keys |->
                                 accepted[k] /\ k \notin Abandoned(Fanout(NeverAccepted))]
<1>1. CASE UNCHANGED vars
  BY <1>1 DEF vars, stateVars
<1>2. CASE LoopHead
  <2>1. UNCHANGED stateVars \/ Settle({}, Known)
        \/ (accepted' = accepted /\ ready' = [k \in Keys |-> FALSE])
    BY <1>2 DEF LoopHead, RejectAll, Recover, Reset
  <2> QED BY <2>1, WhoLeaves
<1>3. CASE WorkerWakes \/ RecoverEnds \/ Opened \/ Authorized \/ PauseEnds
           \/ ServerAnswers \/ IdleFires \/ ShutdownBegins
  BY <1>3 DEF WorkerWakes, RecoverEnds, WorkerGoes, Opened, Authorized, PauseEnds,
              ServerAnswers, IdleFires, ShutdownBegins, stateVars
<1>4. CASE ConnectionLost \/ RequestFails
  BY <1>4 DEF ConnectionLost, RequestFails, Recover, Reset, stateVars
<1>5. CASE OpenFails
  BY <1>5 DEF OpenFails, Recover, Reset
<1>6. CASE AuthorizationRejected
  <2>1. Settle({}, Known) \/ (accepted' = accepted /\ ready' = [k \in Keys |-> FALSE])
    BY <1>6 DEF AuthorizationRejected, RejectAll, Recover, Reset
  <2> QED BY <2>1, WhoLeaves
<1>7. CASE Changed
  <2> DEFINE rejected == CurrentKeys(batch.states) \cap reply.rejected
             gone == Abandoned(Fanout(rejected))
             kept == CurrentKeys(batch.states) \ gone
  <2>1. UNCHANGED stateVars \/ (accepted' = accepted /\ ready' = [k \in Keys |-> FALSE])
        \/ Settle(kept, gone)
    BY <1>7 DEF Changed, Subscribed, Recover, Reset
  <2>2. kept \in SUBSET Known /\ gone \in SUBSET Keys
    BY WhoLeaves
  <2> HIDE DEF kept, gone
  <2> QED BY <2>1, <2>2
<1>8. CASE ChangeRefused
  <2>1. Settle({}, Abandoned(Fanout(CurrentKeys(batch.states))))
        \/ (accepted' = accepted /\ ready' = [k \in Keys |-> FALSE])
    BY <1>8 DEF ChangeRefused, Refused, Recover, Reset
  <2> QED BY <2>1, WhoLeaves
<1>9. ASSUME NEW l \in Listeners, User(l) PROVE UNCHANGED stateVars \/ Settle({}, Abandoned({l}))
  BY <1>9 DEF User, Subscribe, SubscribeReturns, SubscribeFails, SubscribeGivesUp, CloseHandle,
              Release, ReleaseAll, stateVars
<1>10. CASE ManagerCloses
  BY <1>10, WhoLeaves DEF ManagerCloses, ReleaseAll
<1>11. CASE ShutdownEnds
  BY <1>11, WhoLeaves DEF ShutdownEnds
<1> QED BY <1>1, <1>2, <1>3, <1>4, <1>5, <1>6, <1>7, <1>8, <1>9, <1>10, <1>11, WhoLeaves
        DEF Next, Worker

LEMMA NextStateType ==
  TypeOK /\ [Next]_vars => ready' \in [Keys -> BOOLEAN] /\ accepted' \in [Keys -> BOOLEAN]
<1> SUFFICES ASSUME TypeOK, [Next]_vars
             PROVE  ready' \in [Keys -> BOOLEAN] /\ accepted' \in [Keys -> BOOLEAN]
  OBVIOUS
<1>1. CASE UNCHANGED stateVars
  BY <1>1 DEF TypeOK, stateVars
<1>2. ASSUME ready' = [k \in Keys |-> FALSE],
             \/ accepted' = accepted
             \/ accepted' = [k \in Keys |-> accepted[k] /\ k \notin Abandoned(Fanout(NeverAccepted))]
      PROVE  ready' \in [Keys -> BOOLEAN] /\ accepted' \in [Keys -> BOOLEAN]
  <2>1. ready' \in [Keys -> BOOLEAN]
    BY <1>2, Zenon
  <2>2. accepted \in [Keys -> BOOLEAN]
    BY DEF TypeOK
  <2>3. accepted' \in [Keys -> BOOLEAN]
    BY <1>2, <2>2, Zenon
  <2> QED BY <2>1, <2>3
<1> QED BY <1>1, <1>2, StateSteps, SettleLemma

\* The queue of operations changes only so.
LEMMA QueueSteps ==
  ASSUME TypeOK, [Next]_vars
  PROVE  \/ UNCHANGED ops /\ wake' \in {wake, TRUE, FALSE}
         \/ ops' = <<>> /\ wake' \in {wake, TRUE}
         \/ ops # <<>> /\ ops' = Tail(ops) /\ wake' = wake
         \/ \E op \in {"subscribe", "unsubscribe"}, keys \in SUBSET Known :
              Enqueue(op, StatesOf(keys))
         \/ \E l \in Listeners :
              Subscribe(l) /\ Enqueue("subscribe", (Wants[l] \ Known) \X {l})
<1>1. CASE UNCHANGED vars
  BY <1>1 DEF vars, queueVars
<1>2. CASE LoopHead
  BY <1>2 DEF LoopHead, RejectAll, Recover, Reset, queueVars
<1>3. CASE WorkerWakes \/ RecoverEnds \/ Opened
           \/ ServerAnswers \/ IdleFires \/ ShutdownBegins \/ ShutdownEnds
  BY <1>3 DEF WorkerWakes, RecoverEnds, WorkerGoes, Opened, ShutdownEnds,
              ServerAnswers, IdleFires, ShutdownBegins, queueVars
<1>4. CASE ConnectionLost \/ RequestFails \/ OpenFails \/ AuthorizationRejected \/ PauseEnds
  BY <1>4 DEF ConnectionLost, RequestFails, OpenFails, AuthorizationRejected, PauseEnds,
              RejectAll, Recover, Reset, queueVars
<1>5. CASE Authorized
  BY <1>5, WhoLeaves DEF Authorized, queueVars
<1>6. ASSUME NEW keys \in SUBSET Known, QueueUnsubscribe(keys)
      PROVE  \/ UNCHANGED queueVars
             \/ Enqueue("unsubscribe", StatesOf(keys))
  BY <1>6 DEF QueueUnsubscribe
<1>7. CASE Changed
  <2>1. CASE Subscribed
    <3> DEFINE gone == Abandoned(Fanout(CurrentKeys(batch.states) \cap reply.rejected))
    <3>1. PICK first : QueueUnsubscribe(gone \ first)
      BY <2>1 DEF Subscribed
    <3>2. gone \ first \in SUBSET Known
      BY WhoLeaves
    <3> HIDE DEF gone
    <3> QED BY <1>6, <3>1, <3>2 DEF queueVars
  <2> QED BY <1>7, <2>1 DEF Changed, Recover, Reset, queueVars
<1>8. CASE ChangeRefused
  <2>1. CASE Refused(CurrentKeys(batch.states))
    <3> DEFINE gone == Abandoned(Fanout(CurrentKeys(batch.states)))
    <3>1. QueueUnsubscribe(gone) /\ gone \in SUBSET Known
      BY <2>1, WhoLeaves DEF Refused
    <3> HIDE DEF gone
    <3> QED BY <1>6, <3>1 DEF queueVars
  <2> QED BY <1>8, <2>1 DEF ChangeRefused, Recover, Reset, queueVars
<1>9. ASSUME NEW l \in Listeners, Subscribe(l)
      PROVE  \/ UNCHANGED ops /\ wake' = TRUE
             \/ Enqueue("subscribe", (Wants[l] \ Known) \X {l})
  BY <1>9 DEF Subscribe
<1>10. ASSUME NEW l \in Listeners, SubscribeReturns(l) PROVE UNCHANGED queueVars
  BY <1>10 DEF SubscribeReturns
<1>11. ASSUME NEW leaving, ReleaseAll(leaving)
       PROVE  \/ UNCHANGED queueVars
              \/ \E keys \in SUBSET Known : Enqueue("unsubscribe", StatesOf(keys))
  <2>1. QueueUnsubscribe(Abandoned(leaving)) /\ Abandoned(leaving) \in SUBSET Known
    BY <1>11, WhoLeaves DEF ReleaseAll
  <2> QED BY <1>6, <2>1
<1>12. ASSUME NEW l \in Listeners, SubscribeFails(l) \/ SubscribeGivesUp(l) \/ CloseHandle(l)
       PROVE  UNCHANGED queueVars \/ ReleaseAll({l})
  BY <1>12 DEF SubscribeFails, SubscribeGivesUp, CloseHandle, Release
<1>13. CASE ManagerCloses
  BY <1>11, <1>13 DEF ManagerCloses, queueVars
<1> QED BY <1>1, <1>2, <1>3, <1>4, <1>5, <1>7, <1>8, <1>9, <1>10, <1>11, <1>12, <1>13
        DEF Next, Worker, User, queueVars

LEMMA NextQueueType == TypeOK /\ [Next]_vars => ops' \in Seq(Operations) /\ wake' \in BOOLEAN
<1> SUFFICES ASSUME TypeOK, [Next]_vars PROVE ops' \in Seq(Operations) /\ wake' \in BOOLEAN
  OBVIOUS
<1>1. ops \in Seq(Operations) /\ wake \in BOOLEAN
  BY DEF TypeOK
<1>2. ASSUME NEW op \in {"subscribe", "unsubscribe"}, NEW states \in SUBSET States,
             Enqueue(op, states)
      PROVE  ops' \in Seq(Operations) /\ wake' \in BOOLEAN
  <2>1. wake' \in {wake, TRUE}
    BY <1>2, Zenon DEF Enqueue, queueVars
  <2> QED BY <1>1, <1>2, <2>1, EnqueueLemma
<1>3. \A q \in Seq(Operations) : q # <<>> => Tail(q) \in Seq(Operations)
  OBVIOUS
<1>4. CASE UNCHANGED ops /\ wake' \in {wake, TRUE, FALSE}
  BY <1>1, <1>4
<1>5. CASE ops' = <<>> /\ wake' \in {wake, TRUE}
  <2>1. <<>> \in Seq(Operations)
    OBVIOUS
  <2>2. wake' \in BOOLEAN
    BY <1>1, <1>5
  <2> QED BY <1>5, <2>1, <2>2
<1>6. CASE ops # <<>> /\ ops' = Tail(ops) /\ wake' = wake
  BY <1>1, <1>3, <1>6
<1>7. \A keys \in SUBSET Known : StatesOf(keys) \in SUBSET States
  BY WhoLeaves
<1>8. \A l \in Listeners : Subscribe(l) => (Wants[l] \ Known) \X {l} \in SUBSET States
  BY SubscribeLemma
<1> QED BY <1>2, <1>4, <1>5, <1>6, <1>7, <1>8, QueueSteps

LEMMA NextUserType ==
  TypeOK /\ [Next]_vars =>
    /\ phase' \in [Listeners -> {"new", "waiting", "live", "failed", "closed"}]
    /\ awaits' \in [Listeners -> SUBSET Keys]
<1> SUFFICES ASSUME TypeOK, [Next]_vars
             PROVE  /\ phase' \in [Listeners -> {"new", "waiting", "live", "failed", "closed"}]
                    /\ awaits' \in [Listeners -> SUBSET Keys]
  OBVIOUS
<1>1. UNCHANGED userVars \/ Changed \/ ManagerCloses \/ \E l \in Listeners : User(l)
  BY DEF Next, vars, Worker, LoopHead, WorkerWakes, RecoverEnds, WorkerGoes, Opened, OpenFails,
         Authorized, AuthorizationRejected, RequestFails, PauseEnds, ChangeRefused, ServerAnswers,
         ConnectionLost, IdleFires, ShutdownBegins, ShutdownEnds
<1>2. phase' = phase \/ ManagerCloses \/ \E l \in Listeners : User(l)
  BY <1>1 DEF userVars, Changed
<1>3. awaits' = awaits \/ Changed \/ \E l \in Listeners : User(l)
  BY <1>1 DEF userVars, ManagerCloses
<1>4. ASSUME NEW l \in Listeners, User(l)
      PROVE  /\ phase' \in [Listeners -> {"new", "waiting", "live", "failed", "closed"}]
             /\ awaits' \in [Listeners -> SUBSET Keys]
  <2>1. \E x \in {"waiting", "live", "failed", "closed"} : phase' = [phase EXCEPT ![l] = x]
    BY <1>4 DEF User, Subscribe, SubscribeReturns, SubscribeFails, SubscribeGivesUp, CloseHandle,
                Release
  <2>2. \E x \in SUBSET Keys : awaits' = awaits \/ awaits' = [awaits EXCEPT ![l] = x]
    <3>1. {k \in Wants[l] : ~ready[k]} \in SUBSET Keys
      BY WantsAssumption
    <3> QED BY <1>4, <3>1 DEF User, Subscribe, SubscribeReturns, SubscribeFails, SubscribeGivesUp,
               CloseHandle, Release
  <2> QED BY <2>1, <2>2 DEF TypeOK
<1>5. CASE ManagerCloses
  BY <1>5 DEF ManagerCloses, TypeOK
<1>6. ASSUME Changed PROVE awaits' \in [Listeners -> SUBSET Keys]
  <2>1. awaits' = awaits \/ \E kept : awaits' = [l \in Listeners |-> awaits[l] \ kept]
    BY <1>6 DEF Changed, Subscribed
  <2> QED BY <2>1 DEF TypeOK
<1>7. phase' \in [Listeners -> {"new", "waiting", "live", "failed", "closed"}]
  BY <1>2, <1>4, <1>5 DEF TypeOK
<1> QED BY <1>3, <1>4, <1>6, <1>7 DEF TypeOK

\* What is left of the queue's first operation is an operation.
LEMMA BatchType ==
  ASSUME TypeOK, ops # <<>>, Batch(Head(ops)) # {}
  PROVE  [op |-> Head(ops).op, states |-> Batch(Head(ops))] \in Operations
<1>1. Head(ops) = ops[1] /\ 1 \in 1..Len(ops) /\ ops \in Seq(Operations)
  BY DEF TypeOK
<1>2. Head(ops).op \in {"subscribe", "unsubscribe"} /\ Head(ops).states \subseteq States
  BY <1>1, OperationsLemma
<1>3. Batch(Head(ops)) \in SUBSET States
  BY <1>2, WhoLeaves DEF Batch
<1> QED BY <1>2, <1>3 DEF Operations

LEMMA NextRequestType ==
  TypeOK /\ [Next]_vars =>
    /\ batch' \in Operations \cup {NoBatch}
    /\ reply' \in [kind : {"none", "ok", "error"}, rejected : SUBSET Keys]
<1> SUFFICES ASSUME TypeOK, [Next]_vars
             PROVE  /\ batch' \in Operations \cup {NoBatch}
                    /\ reply' \in [kind : {"none", "ok", "error"}, rejected : SUBSET Keys]
  OBVIOUS
<1>1. \/ batch' \in {batch, NoBatch}
      \/ PauseEnds
  BY DEF Next, vars, Worker, User, LoopHead, WorkerWakes, RecoverEnds, WorkerGoes, Opened,
         OpenFails, Authorized, AuthorizationRejected, RequestFails, Changed, ChangeRefused,
         ServerAnswers, ConnectionLost, IdleFires, ShutdownBegins, ShutdownEnds, Subscribe,
         SubscribeReturns, SubscribeFails, SubscribeGivesUp, CloseHandle, Release, ManagerCloses,
         Recover, Forget, requestVars
<1>2. \/ reply' \in {reply, NoReply}
      \/ ServerAnswers
  BY DEF Next, vars, Worker, User, LoopHead, WorkerWakes, RecoverEnds, WorkerGoes, Opened,
         OpenFails, Authorized, AuthorizationRejected, RequestFails, Changed, ChangeRefused,
         PauseEnds, ConnectionLost, IdleFires, ShutdownBegins, ShutdownEnds, Subscribe,
         SubscribeReturns, SubscribeFails, SubscribeGivesUp, CloseHandle, Release, ManagerCloses,
         Recover, Forget, requestVars
<1>3. ASSUME PauseEnds PROVE batch' \in Operations \cup {NoBatch}
  BY <1>3, BatchType DEF PauseEnds, TypeOK
<1>4. ASSUME ServerAnswers
      PROVE  reply' \in [kind : {"none", "ok", "error"}, rejected : SUBSET Keys]
  <2>1. Asked \subseteq Keys
    <3>1. batch.states \subseteq States
      BY DEF TypeOK, Operations, NoBatch
    <3> QED BY <3>1 DEF Asked, States
  <2>2. \E kind \in {"ok", "error"}, rejected \in SUBSET Keys :
          reply' = [kind |-> kind, rejected |-> rejected]
    BY <1>4, <2>1 DEF ServerAnswers
  <2> QED BY <2>2
<1>5. NoReply \in [kind : {"none", "ok", "error"}, rejected : SUBSET Keys]
  BY DEF NoReply
<1> QED BY <1>1, <1>2, <1>3, <1>4, <1>5 DEF TypeOK

LEMMA NextWorkerType ==
  TypeOK /\ [Next]_vars =>
    /\ pc' \in {"top", "resumed", "wait", "recovering", "retrying", "opening", "authorizing",
                "pause", "changing", "done"}
    /\ authenticated' \in BOOLEAN
    /\ lost' \in {"none", "transient", "terminal"}
    /\ closing' \in {"none", "started", "worker", "done"}
    /\ conn' \in {"none", "open", "dead"}
    /\ served' \subseteq Keys
    /\ losses' \in 0..MaxLosses
    /\ failures' \in 0..MaxFailures
<1> SUFFICES ASSUME TypeOK, [Next]_vars
             PROVE  /\ pc' \in {"top", "resumed", "wait", "recovering", "retrying", "opening",
                                "authorizing", "pause", "changing", "done"}
                    /\ authenticated' \in BOOLEAN
                    /\ lost' \in {"none", "transient", "terminal"}
                    /\ closing' \in {"none", "started", "worker", "done"}
                    /\ conn' \in {"none", "open", "dead"}
                    /\ served' \subseteq Keys
                    /\ losses' \in 0..MaxLosses
                    /\ failures' \in 0..MaxFailures
  OBVIOUS
<1> USE DEF vars, Next, Worker, User, LoopHead, WorkerWakes, RecoverEnds, WorkerGoes, Opened,
         OpenFails, Authorized, AuthorizationRejected, RequestFails, Changed, ChangeRefused,
         PauseEnds, ServerAnswers, ConnectionLost, IdleFires, ShutdownBegins, ShutdownEnds,
         Subscribe, SubscribeReturns, SubscribeFails, SubscribeGivesUp, CloseHandle, Release,
         ManagerCloses, Recover
<1>1. pc' \in {"top", "resumed", "wait", "recovering", "retrying", "opening", "authorizing",
               "pause", "changing", "done"}
  BY DEF TypeOK
<1>2. authenticated' \in {authenticated, TRUE, FALSE}
  BY DEF Reset, linkVars
<1>3. lost' \in {lost, "none", "transient", "terminal"}
  BY DEF linkVars
<1>4. closing' \in {closing, "started", "worker", "done"}
  BY DEF StartClose
<1>5. conn' \in {conn, "none", "open", "dead"}
  BY DEF connVars
<1>6. served' \subseteq Keys
  <2>1. served \subseteq Keys
    BY DEF TypeOK
  <2>2. ASSUME ServerAnswers PROVE served' \subseteq Keys
    <3>1. Asked \subseteq Keys
      <4>1. batch.states \subseteq States
        BY DEF TypeOK, Operations, NoBatch
      <4> QED BY <4>1 DEF Asked, States
    <3> HIDE DEF Next
    <3>2. PICK applied \in SUBSET Asked :
            served' = IF batch.op = "subscribe" THEN served \cup applied ELSE served \ applied
      BY <2>2
    <3> QED BY <2>1, <3>1, <3>2
  <2> HIDE DEF ServerAnswers
  <2>3. ServerAnswers \/ served' \in {served, {}}
    BY DEF connVars
  <2> QED BY <2>1, <2>2, <2>3
<1>7. losses' = losses \/ (losses < MaxLosses /\ losses' = losses + 1)
  BY DEF budgetVars
<1>8. failures' = failures \/ Fail
  BY DEF budgetVars
<1> HIDE DEF Next
<1>9. losses' \in 0..MaxLosses
  BY <1>7, BoundsAssumption DEF TypeOK
<1>10. failures' \in 0..MaxFailures
  BY <1>8, BoundsAssumption DEF TypeOK, Fail
<1>11. closing' \in {"none", "started", "worker", "done"} /\ authenticated' \in BOOLEAN
       /\ lost' \in {"none", "transient", "terminal"} /\ conn' \in {"none", "open", "dead"}
  BY <1>2, <1>3, <1>4, <1>5 DEF TypeOK
<1> QED BY <1>1, <1>6, <1>9, <1>10, <1>11

LEMMA NextType == TypeOK /\ [Next]_vars => TypeOK'
<1> SUFFICES ASSUME TypeOK, [Next]_vars PROVE TypeOK'
  OBVIOUS
<1> QED BY NextKeyType, NextStateType, NextQueueType, NextUserType, NextRequestType, NextWorkerType,
           Zenon DEF TypeOK, KeyTypeOK

-----------------------------------------------------------------------------
(* The worker and the connection.                                           *)

LEMMA NextControl ==
  ASSUME TypeOK, ControlInv, [Next]_vars
  PROVE  ControlInv'
<1> USE DEF ControlInv, closed, linkVars, connVars
<1>1. CASE UNCHANGED vars
  BY <1>1 DEF vars
<1>2. CASE LoopHead
  <2>1. CASE UNCHANGED <<linkVars, conn, closing>> /\ pc' \in {"done", "wait"}
             /\ pc \in {"top", "resumed"}
    BY <2>1
  <2>2. CASE UNCHANGED <<linkVars, conn>> /\ pc' = "done" /\ pc = "top" /\ StartClose
    BY <2>2 DEF StartClose
  <2>3. CASE Recover("recovering") /\ closing' = closing
    BY <2>3 DEF Recover, Reset
  <2>4. CASE UNCHANGED <<linkVars, conn, closing>> /\ pc' = "opening" /\ authenticated = FALSE
             /\ pc \in {"top", "resumed"} /\ lost = "none"
    BY <2>4 DEF TypeOK
  <2>5. CASE UNCHANGED <<linkVars, conn, closing>> /\ pc' = "pause" /\ authenticated = TRUE
    BY <2>5
  <2>6. authenticated \in BOOLEAN
    BY DEF TypeOK
  <2> QED BY <1>2, <2>1, <2>2, <2>3, <2>4, <2>5, <2>6 DEF LoopHead
<1>3. CASE WorkerWakes \/ RecoverEnds
  BY <1>3 DEF WorkerWakes, RecoverEnds, WorkerGoes
<1>4. CASE Opened
  BY <1>4 DEF Opened
<1>5. CASE OpenFails
  BY <1>5 DEF OpenFails, Recover, Reset
<1>6. CASE Authorized
  BY <1>6 DEF Authorized
<1>7. CASE AuthorizationRejected
  BY <1>7 DEF AuthorizationRejected, Recover, Reset, StartClose
<1>8. CASE RequestFails
  BY <1>8 DEF RequestFails, Recover, Reset
<1>9. CASE PauseEnds
  <2>1. CASE pc' = "changing" /\ lost = "none"
    BY <1>9, <2>1 DEF PauseEnds
  <2>2. CASE pc' = "top"
    <3>1. authenticated = FALSE => lost # "none"
      BY <1>9 DEF PauseEnds, TypeOK
    <3> QED BY <1>9, <2>2, <3>1 DEF PauseEnds
  <2> QED BY <1>9, <2>1, <2>2 DEF PauseEnds
<1>10. CASE Changed
  BY <1>10 DEF Changed, Recover, Reset, TypeOK
<1>11. CASE ChangeRefused
  BY <1>11 DEF ChangeRefused, Recover, Reset, TypeOK
<1>12. CASE ServerAnswers
  BY <1>12 DEF ServerAnswers
<1>13. CASE ConnectionLost
  BY <1>13 DEF ConnectionLost, Reset, AtAwait
<1>14. ASSUME NEW l \in Listeners, User(l) PROVE ControlInv'
  BY <1>14 DEF User, Subscribe, SubscribeReturns, SubscribeFails, SubscribeGivesUp, CloseHandle,
               Release
<1>15. CASE ManagerCloses \/ IdleFires
  BY <1>15 DEF ManagerCloses, IdleFires, StartClose
<1>16. CASE ShutdownBegins \/ ShutdownEnds
  BY <1>16 DEF ShutdownBegins, ShutdownEnds
<1> QED BY <1>1, <1>2, <1>3, <1>4, <1>5, <1>6, <1>7, <1>8, <1>9, <1>10, <1>11, <1>12, <1>13, <1>14,
           <1>15, <1>16
        DEF Next, Worker

LEMMA NextRest ==
  ASSUME TypeOK, ControlInv, RestInv, [Next]_vars
  PROVE  RestInv'
<1> USE DEF ControlInv, RestInv, Forget, linkVars, connVars, queueVars, stateVars, requestVars
<1>1. CASE UNCHANGED vars
  BY <1>1 DEF vars
<1>2. ASSUME NEW gone \in SUBSET Keys, Settle({}, gone),
             \A k \in Keys : ready[k] = FALSE
      PROVE  \A k \in Keys : ready'[k] = FALSE
  <2>1. \A k \in Keys : ready'[k] # TRUE
    BY <1>2, SettleLemma
  <2>2. ready' \in [Keys -> BOOLEAN]
    BY <1>2, SettleLemma
  <2> QED BY <2>1, <2>2
<1>3. CASE LoopHead
  <2>1. RejectAll =>
          /\ UNCHANGED queueVars
          /\ (\A k \in Keys : ready[k] = FALSE) => \A k \in Keys : ready'[k] = FALSE
    BY <1>2, WhoLeaves DEF RejectAll
  <2> QED BY <1>3, <2>1 DEF LoopHead, Recover, Reset
<1>4. CASE WorkerWakes \/ RecoverEnds
  BY <1>4 DEF WorkerWakes, RecoverEnds, WorkerGoes
<1>5. CASE Opened
  BY <1>5 DEF Opened
<1>6. CASE OpenFails
  BY <1>6 DEF OpenFails, Recover, Reset
<1>7. CASE Authorized
  BY <1>7 DEF Authorized
<1>8. CASE AuthorizationRejected
  <2>1. RejectAll =>
          /\ UNCHANGED queueVars
          /\ (\A k \in Keys : ready[k] = FALSE) => \A k \in Keys : ready'[k] = FALSE
    BY <1>2, WhoLeaves DEF RejectAll
  <2> QED BY <1>8, <2>1 DEF AuthorizationRejected, Recover, Reset
<1>9. CASE RequestFails
  BY <1>9 DEF RequestFails, Recover, Reset
<1>10. CASE PauseEnds
  <2>1. authenticated = TRUE \/ UNCHANGED ops
    BY <1>10 DEF PauseEnds
  <2>2. IF pc' = "changing" THEN batch' \in Operations ELSE batch' = NoBatch
    BY <1>10, BatchType DEF PauseEnds
  <2> QED BY <1>10, <2>1, <2>2 DEF PauseEnds
<1>11. CASE Changed
  <2>1. CASE lost = "none" /\ pc' = "top" /\ Forget /\ UNCHANGED <<linkVars, connVars>>
    <3>1. authenticated' = TRUE
      BY <1>11, <2>1 DEF Changed
    <3> QED BY <2>1, <3>1
  <2>2. CASE Recover("retrying")
    BY <2>2 DEF Recover, Reset
  <2>3. CASE pc' = "top" /\ Forget /\ UNCHANGED <<stateVars, queueVars, linkVars, connVars>>
    BY <2>3
  <2> QED BY <1>11, <2>1, <2>2, <2>3 DEF Changed
<1>12. CASE ChangeRefused
  <2>1. Refused(CurrentKeys(batch.states)) =>
          /\ authenticated = FALSE => UNCHANGED queueVars
          /\ (\A k \in Keys : ready[k] = FALSE) => \A k \in Keys : ready'[k] = FALSE
    BY <1>2, WhoLeaves DEF Refused, QueueUnsubscribe
  <2> QED BY <1>12, <2>1 DEF ChangeRefused, Recover, Reset
<1>13. CASE ServerAnswers
  <2>1. pc = "authorizing" => Asked = {}
    BY DEF Asked, NoBatch
  <2>2. authenticated = FALSE => pc = "authorizing"
    BY <1>13 DEF ServerAnswers
  <2> QED BY <1>13, <2>1, <2>2 DEF ServerAnswers
<1>14. CASE ConnectionLost
  BY <1>14 DEF ConnectionLost, Reset
<1>15. ASSUME NEW leaving \in SUBSET Listeners, ReleaseAll(leaving)
       PROVE  /\ authenticated = FALSE => UNCHANGED queueVars
              /\ (\A k \in Keys : ready[k] = FALSE) => \A k \in Keys : ready'[k] = FALSE
  BY <1>2, <1>15, WhoLeaves DEF ReleaseAll, QueueUnsubscribe
<1>16. ASSUME NEW l \in Listeners, User(l) PROVE RestInv'
  <2>1. CASE Subscribe(l)
    BY <1>16, <2>1 DEF Subscribe
  <2>2. CASE SubscribeReturns(l)
    BY <1>16, <2>2 DEF SubscribeReturns
  <2>3. ASSUME NEW after, Release(l, after) PROVE RestInv'
    <3>1. CASE ReleaseAll({l})
      BY <1>15, <2>3, <3>1 DEF Release
    <3>2. CASE UNCHANGED <<keyVars, stateVars, queueVars>>
      BY <2>3, <3>2 DEF Release
    <3> QED BY <2>3, <3>1, <3>2 DEF Release
  <2> QED BY <1>16, <2>1, <2>2, <2>3 DEF User, SubscribeFails, SubscribeGivesUp, CloseHandle
<1>17. CASE ManagerCloses
  <2>1. ReleaseAll(active) /\ active \in SUBSET Listeners
    BY <1>17 DEF ManagerCloses, TypeOK
  <2> QED BY <1>15, <1>17, <2>1 DEF ManagerCloses
<1>18. CASE IdleFires \/ ShutdownBegins
  BY <1>18 DEF IdleFires, ShutdownBegins
<1>19. CASE ShutdownEnds
  <2>1. (\A k \in Keys : ready[k] = FALSE) => \A k \in Keys : ready'[k] = FALSE
    BY <1>2, <1>19, WhoLeaves DEF ShutdownEnds
  <2> QED BY <1>19, <2>1 DEF ShutdownEnds
<1> QED BY <1>1, <1>3, <1>4, <1>5, <1>6, <1>7, <1>8, <1>9, <1>10, <1>11, <1>12, <1>13, <1>14,
           <1>16, <1>17, <1>18, <1>19
        DEF Next, Worker

-----------------------------------------------------------------------------
(* Handles.                                                                 *)

\* A handle that has come does not come again.
LEMMA PhaseSteps ==
  ASSUME TypeOK, [Next]_vars
  PROVE  /\ \A l \in Listeners : phase'[l] = "new" => phase[l] = "new"
         /\ \A l \in Listeners : Subscribe(l) => phase[l] = "new" /\ phase'[l] = "waiting"
         /\ \A l \in Listeners : phase'[l] = phase[l] \/ l \notin active'
                                 \/ Subscribe(l) \/ SubscribeReturns(l)
<1>1. phase \in [Listeners -> {"new", "waiting", "live", "failed", "closed"}]
  BY DEF TypeOK
<1>2. CASE UNCHANGED phase
  BY <1>1, <1>2 DEF Subscribe
<1>3. ASSUME NEW l \in Listeners, Subscribe(l) \/ SubscribeReturns(l)
      PROVE  /\ \A m \in Listeners : m # l => phase'[m] = phase[m]
             /\ phase[l] \in {"new", "waiting"}
             /\ phase'[l] \in {"waiting", "live"}
             /\ \A m \in Listeners :
                  Subscribe(m) => m = l /\ phase[l] = "new" /\ phase'[l] = "waiting"
  BY <1>1, <1>3 DEF Subscribe, SubscribeReturns
<1>4. ASSUME NEW l \in Listeners, SubscribeFails(l) \/ SubscribeGivesUp(l) \/ CloseHandle(l)
      PROVE  /\ \A m \in Listeners : m # l => phase'[m] = phase[m]
             /\ phase'[l] \in {"failed", "closed"} /\ phase[l] # "new"
             /\ l \notin active'
             /\ \A m \in Listeners : ~Subscribe(m)
  <2>1. PICK after \in {"failed", "closed"} : Release(l, after)
    BY <1>4 DEF SubscribeFails, SubscribeGivesUp, CloseHandle
  <2>2. phase' = [phase EXCEPT ![l] = after]
    BY <2>1 DEF Release
  <2>3. l \notin active'
    BY <2>1, LeaveLemma DEF Release, ReleaseAll, keyVars
  <2>4. phase[l] # "new"
    BY <1>4 DEF SubscribeFails, SubscribeGivesUp, CloseHandle
  <2>5. ASSUME NEW m \in Listeners, Subscribe(m) PROVE FALSE
    BY <1>1, <2>2, <2>4, <2>5 DEF Subscribe
  <2> QED BY <1>1, <2>2, <2>3, <2>4, <2>5
<1>5. CASE ManagerCloses
  <2>1. phase' = [l \in Listeners |-> IF phase[l] = "live" THEN "closed" ELSE phase[l]]
    BY <1>5 DEF ManagerCloses
  <2>2. active' = {}
    BY <1>5, LeaveLemma DEF ManagerCloses, ReleaseAll, TypeOK
  <2>3. ASSUME NEW m \in Listeners, Subscribe(m) PROVE FALSE
    BY <1>1, <2>1, <2>3 DEF Subscribe
  <2> QED BY <1>1, <2>1, <2>2, <2>3
<1>6. UNCHANGED phase \/ ManagerCloses \/ \E l \in Listeners : User(l)
  BY DEF Next, vars, userVars, Worker, LoopHead, WorkerWakes, RecoverEnds, WorkerGoes, Opened,
         OpenFails, Authorized, AuthorizationRejected, RequestFails, PauseEnds, Changed,
         ChangeRefused, ServerAnswers, ConnectionLost, IdleFires, ShutdownBegins, ShutdownEnds
<1> QED BY <1>2, <1>3, <1>4, <1>5, <1>6 DEF User

LEMMA NextHandle ==
  ASSUME TypeOK, HandleInv, [Next]_vars
  PROVE  HandleInv'
<1>1. \A k \in Keys : listeners[k] \subseteq Listeners
  BY DEF TypeOK
<1>2. active \subseteq Listeners
  BY DEF TypeOK
<1>3. /\ \A k \in Keys : \A l \in listeners'[k] : l \in active' /\ k \in Wants[l]
      /\ HandlesAreWhole'
      /\ \A l \in active' : l \in active \/ Subscribe(l)
  <2>1. CASE UNCHANGED <<creator, listeners, active, raised>>
    BY <2>1 DEF HandleInv, HandlesAreWhole
  <2>2. ASSUME NEW l \in Listeners, Subscribe(l)
        PROVE  /\ \A k \in Keys : \A m \in listeners'[k] : m \in active' /\ k \in Wants[m]
               /\ HandlesAreWhole'
               /\ \A m \in active' : m \in active \/ Subscribe(m)
    <3>1. \A m \in active : Wants[m] \subseteq Keys
      BY <1>2, WantsAssumption
    <3>2. \A k \in Keys : \A m \in listeners'[k] : m \in active' /\ k \in Wants[m]
      BY <2>2, SubscribeLemma DEF HandleInv
    <3>3. HandlesAreWhole'
      BY <2>2, <3>1, SubscribeLemma DEF HandleInv, HandlesAreWhole
    <3>4. \A m \in active' : m \in active \/ Subscribe(m)
      BY <2>2, SubscribeLemma
    <3> QED BY <3>2, <3>3, <3>4
  <2>3. ASSUME NEW leaving \in SUBSET Listeners, Leave(leaving)
        PROVE  /\ \A k \in Keys : \A m \in listeners'[k] : m \in active' /\ k \in Wants[m]
               /\ HandlesAreWhole'
               /\ active' \subseteq active
    <3>1. \A l \in active : Wants[l] \subseteq Keys
      BY <1>2, WantsAssumption
    <3> QED BY <2>3, <3>1, LeaveLemma DEF HandleInv, HandlesAreWhole
  <2> QED BY <2>1, <2>2, <2>3, KeySteps
<1>4. \A l \in active' : phase'[l] \in {"waiting", "live"}
  <2> SUFFICES ASSUME NEW l \in active' PROVE phase'[l] \in {"waiting", "live"}
    OBVIOUS
  <2>1. l \in Listeners
    BY <1>2, <1>3, NextKeyType DEF KeyTypeOK
  <2>2. CASE Subscribe(l)
    BY <2>1, <2>2, PhaseSteps
  <2>3. CASE SubscribeReturns(l)
    BY <2>1, <2>3 DEF SubscribeReturns, TypeOK
  <2>4. CASE phase'[l] = phase[l] /\ l \in active
    BY <2>4 DEF HandleInv
  <2> QED BY <1>3, <2>1, <2>2, <2>3, <2>4, PhaseSteps
<1>5. ASSUME NEW k \in Keys, NEW l \in Listeners, phase'[l] = "new"
      PROVE  creator'[k] # l
  <2>1. creator[k] # l /\ ~Subscribe(l) /\ l # NoListener
    BY <1>5, PhaseSteps, NoListenerAssumption DEF HandleInv
  <2>2. ASSUME NEW m \in Listeners, Subscribe(m) PROVE creator'[k] # l
    BY <2>1, <2>2, SubscribeLemma
  <2> QED BY <2>1, <2>2, KeySteps, LeaveLemma
<1>6. ASSUME NEW k \in Keys, NEW l \in Listeners, phase'[l] = "new", NEW keys \in SUBSET Known
      PROVE  <<k, l>> \notin StatesOf(keys)
  BY <1>6, PhaseSteps DEF HandleInv, StatesOf
<1>7. ops # <<>> => Head(ops) = ops[1] /\ 1 \in 1..Len(ops) /\ Len(ops) \in Nat
                    /\ Len(Tail(ops)) = Len(ops) - 1
                    /\ \A i \in 1..Len(Tail(ops)) : Tail(ops)[i] = ops[i + 1]
  BY DEF TypeOK
<1>8. ASSUME NEW k \in Keys, NEW l \in Listeners, phase'[l] = "new"
      PROVE  <<k, l>> \notin batch'.states
  <2>1. phase[l] = "new" /\ <<k, l>> \notin batch.states /\ <<k, l>> \notin NoBatch.states
    BY <1>8, PhaseSteps DEF HandleInv, NoBatch
  <2>2. CASE batch' \in {batch, NoBatch}
    BY <2>1, <2>2
  <2>3. CASE PauseEnds /\ ops # <<>> /\ batch' = [op |-> Head(ops).op, states |-> Batch(Head(ops))]
    <3>1. <<k, l>> \notin Head(ops).states
      BY <1>7, <2>1, <2>3 DEF HandleInv
    <3>2. <<k, l>> \notin StatesOf(CurrentKeys(Head(ops).states))
      BY <1>6, <1>8, WhoLeaves
    <3> QED BY <2>3, <3>1, <3>2 DEF Batch
  <2>4. batch' \in {batch, NoBatch} \/ PauseEnds
    BY DEF Next, vars, Worker, User, LoopHead, WorkerWakes, RecoverEnds, WorkerGoes, Opened,
         OpenFails, Authorized, AuthorizationRejected, RequestFails, Changed, ChangeRefused,
         ServerAnswers, ConnectionLost, IdleFires, ShutdownBegins, ShutdownEnds, Subscribe,
         SubscribeReturns, SubscribeFails, SubscribeGivesUp, CloseHandle, Release, ManagerCloses,
         Recover, Forget, requestVars
  <2>5. PauseEnds => batch' = batch
                     \/ (ops # <<>> /\ batch' = [op |-> Head(ops).op, states |-> Batch(Head(ops))])
    BY DEF PauseEnds
  <2> QED BY <2>2, <2>3, <2>4, <2>5
<1>9. ASSUME NEW k \in Keys, NEW l \in Listeners, phase'[l] = "new"
      PROVE  \A i \in 1..Len(ops') : <<k, l>> \notin ops'[i].states
  <2>1. phase[l] = "new" /\ \A i \in 1..Len(ops) : <<k, l>> \notin ops[i].states
    BY <1>9, PhaseSteps DEF HandleInv
  <2>2. ASSUME NEW op \in {"subscribe", "unsubscribe"}, NEW states \in SUBSET States,
               Enqueue(op, states), <<k, l>> \notin states
        PROVE  \A i \in 1..Len(ops') : <<k, l>> \notin ops'[i].states
    <3>1. CASE states = {}
      BY <2>1, <2>2, <3>1, EnqueueLemma DEF TypeOK
    <3>2. CASE states # {}
      <4>1. ops \in Seq(Operations) /\ Len(ops) \in Nat /\ IsEnqueued(ops, ops', op, states)
        BY <2>2, <3>2, EnqueueLemma DEF TypeOK
      <4>2. <<k, l>> \notin ops'[Len(ops')].states
        <5>1. Len(ops') = Len(ops) => Len(ops) \in 1..Len(ops)
          BY <4>1 DEF IsEnqueued
        <5> QED BY <2>1, <2>2, <4>1, <5>1 DEF IsEnqueued
      <4>3. ASSUME NEW i \in 1..Len(ops'), i # Len(ops') PROVE <<k, l>> \notin ops'[i].states
        <5>1. i \in 1..Len(ops) /\ i < Len(ops')
          BY <4>1, <4>3 DEF IsEnqueued
        <5>2. ops'[i] = ops[i]
          BY <4>1, <5>1 DEF IsEnqueued
        <5> QED BY <2>1, <5>1, <5>2
      <4> QED BY <4>2, <4>3
    <3> QED BY <3>1, <3>2
  <2>3. ASSUME NEW op \in {"subscribe", "unsubscribe"}, NEW keys \in SUBSET Known,
               Enqueue(op, StatesOf(keys))
        PROVE  \A i \in 1..Len(ops') : <<k, l>> \notin ops'[i].states
    <3>1. StatesOf(keys) \in SUBSET States /\ <<k, l>> \notin StatesOf(keys)
      BY <1>6, <1>9, WhoLeaves
    <3> QED BY <2>2, <2>3, <3>1
  <2>4. ASSUME NEW m \in Listeners, Subscribe(m), Enqueue("subscribe", (Wants[m] \ Known) \X {m})
        PROVE  \A i \in 1..Len(ops') : <<k, l>> \notin ops'[i].states
    <3>1. m # l
      BY <1>9, <2>4, PhaseSteps
    <3>2. (Wants[m] \ Known) \X {m} \in SUBSET States /\ <<k, l>> \notin (Wants[m] \ Known) \X {m}
      BY <2>4, <3>1, SubscribeLemma
    <3> QED BY <2>2, <2>4, <3>2
  <2>5. CASE UNCHANGED ops
    BY <2>1, <2>5
  <2>6. CASE ops' = <<>>
    BY <2>6
  <2>7. CASE ops # <<>> /\ ops' = Tail(ops)
    <3>1. \A i \in 1..Len(Tail(ops)) : i + 1 \in 1..Len(ops)
      BY <1>7, <2>7
    <3> QED BY <1>7, <2>1, <2>7, <3>1
  <2> QED BY <2>3, <2>4, <2>5, <2>6, <2>7, QueueSteps
<1> HIDE DEF HandleInv
<1> QED BY <1>3, <1>4, <1>5, <1>8, <1>9 DEF HandleInv

\* The keys that go when these handles leave are wanted by no other.
LEMMA LeaveKeeps ==
  ASSUME TypeOK, HandleInv, AcceptedInv, NEW leaving \in SUBSET Listeners, Leave(leaving),
         NEW kept, NEW gone \in SUBSET Abandoned(leaving), Settle(kept, gone)
  PROVE  /\ \A k \in Keys : ready'[k] = TRUE => accepted'[k] = TRUE
         /\ \A l \in active' : \A k \in Wants[l] : accepted[k] = TRUE => accepted'[k] = TRUE
<1>1. \A k \in Keys : ready'[k] = TRUE => accepted'[k] = TRUE
  BY SettleLemma DEF AcceptedInv
<1>2. ASSUME NEW l \in active', NEW k \in Wants[l], accepted[k] = TRUE
      PROVE  accepted'[k] = TRUE
  <2>1. l \in active /\ l \notin leaving /\ l \in Listeners
    BY LeaveLemma DEF TypeOK
  <2>2. k \in Keys /\ l \in listeners[k]
    BY <2>1, WantsAssumption DEF HandleInv, HandlesAreWhole
  <2>3. k \notin gone
    BY <2>1, <2>2 DEF Abandoned
  <2> QED BY <1>2, <2>2, <2>3, SettleLemma
<1> QED BY <1>1, <1>2

\* All the keys go with all their listeners.
LEMMA AllLeave ==
  ASSUME TypeOK
  PROVE  Abandoned(Fanout(Known)) = Known
BY DEF Abandoned, Fanout, Known, TypeOK

\* An acceptance lasts while a handle wants it.
LEMMA AcceptedKept ==
  ASSUME TypeOK, HandleInv, AcceptedInv, [Next]_vars
  PROVE  /\ \A k \in Keys : ready'[k] = TRUE => accepted'[k] = TRUE
         /\ \A l \in active' : \A k \in Wants[l] : accepted[k] = TRUE => accepted'[k] = TRUE
<1> DEFINE Goal == /\ \A k \in Keys : ready'[k] = TRUE => accepted'[k] = TRUE
                   /\ \A l \in active' : \A k \in Wants[l] :
                        accepted[k] = TRUE => accepted'[k] = TRUE
<1>1. CASE UNCHANGED stateVars
  BY <1>1 DEF stateVars, AcceptedInv
<1>2. ASSUME ready' = [k \in Keys |-> FALSE], accepted' = accepted PROVE Goal
  BY <1>2
<1>3. CASE OpenFails
  <2> DEFINE leaving == Fanout(NeverAccepted)
  <2>1. Leave(leaving) /\ leaving \in SUBSET Listeners
    BY <1>3, WhoLeaves DEF OpenFails
  <2>2. ready' = [k \in Keys |-> FALSE]
        /\ accepted' = [k \in Keys |-> accepted[k] /\ k \notin Abandoned(leaving)]
    BY <1>3 DEF OpenFails, Recover, Reset
  <2> HIDE DEF leaving
  <2>3. ASSUME NEW l \in active', NEW k \in Wants[l], accepted[k] = TRUE
        PROVE  accepted'[k] = TRUE
    <3>1. l \in active /\ l \notin leaving /\ l \in Listeners
      BY <2>1, LeaveLemma DEF TypeOK
    <3>2. k \in Keys /\ l \in listeners[k]
      BY <3>1, WantsAssumption DEF HandleInv, HandlesAreWhole
    <3>3. k \notin Abandoned(leaving)
      BY <3>1, <3>2 DEF Abandoned
    <3> QED BY <2>2, <2>3, <3>2, <3>3
  <2> QED BY <2>2, <2>3
<1>4. ASSUME RejectAll PROVE Goal
  BY <1>4, WhoLeaves, AllLeave, LeaveKeeps DEF RejectAll
<1>5. ASSUME Subscribed PROVE Goal
  <2> DEFINE rejected == CurrentKeys(batch.states) \cap reply.rejected
             gone == Abandoned(Fanout(rejected))
             kept == CurrentKeys(batch.states) \ gone
  <2>1. Leave(Fanout(rejected)) /\ Settle(kept, gone)
    BY <1>5 DEF Subscribed
  <2>2. rejected \in SUBSET Keys
    BY WhoLeaves
  <2> HIDE DEF rejected, kept
  <2> QED BY <2>1, <2>2, WhoLeaves, LeaveKeeps
<1>6. ASSUME Refused(CurrentKeys(batch.states)) PROVE Goal
  BY <1>6, WhoLeaves, LeaveKeeps DEF Refused
<1>7. ASSUME NEW leaving \in SUBSET Listeners, ReleaseAll(leaving) PROVE Goal
  BY <1>7, LeaveKeeps DEF ReleaseAll
<1>8. CASE ShutdownEnds
  BY <1>8, WhoLeaves, AllLeave, LeaveKeeps DEF ShutdownEnds
<1>9. \/ UNCHANGED stateVars
      \/ ready' = [k \in Keys |-> FALSE] /\ accepted' = accepted
      \/ OpenFails \/ RejectAll \/ Subscribed \/ Refused(CurrentKeys(batch.states))
      \/ \E leaving \in SUBSET Listeners : ReleaseAll(leaving)
      \/ ShutdownEnds
  <2>1. active \in SUBSET Listeners
    BY DEF TypeOK
  <2>2. ASSUME NEW l \in Listeners, User(l) PROVE UNCHANGED stateVars \/ ReleaseAll({l})
    BY <2>2 DEF User, Subscribe, SubscribeReturns, SubscribeFails, SubscribeGivesUp, CloseHandle,
                Release
  <2>3. LoopHead => \/ UNCHANGED stateVars \/ RejectAll
                    \/ ready' = [k \in Keys |-> FALSE] /\ accepted' = accepted
    BY DEF LoopHead, Recover, Reset
  <2>4. Worker => \/ UNCHANGED stateVars \/ RejectAll \/ Subscribed \/ OpenFails
                  \/ Refused(CurrentKeys(batch.states))
                  \/ ready' = [k \in Keys |-> FALSE] /\ accepted' = accepted
    BY DEF Worker, WorkerWakes, RecoverEnds, WorkerGoes, Opened, Authorized,
           AuthorizationRejected, RequestFails, PauseEnds, Changed, ChangeRefused, Recover, Reset,
           stateVars
  <2>5. ConnectionLost => \/ UNCHANGED stateVars
                          \/ ready' = [k \in Keys |-> FALSE] /\ accepted' = accepted
    BY DEF ConnectionLost, Reset, stateVars
  <2>6. ManagerCloses => ReleaseAll(active)
    BY DEF ManagerCloses
  <2>7. ServerAnswers \/ IdleFires \/ ShutdownBegins \/ UNCHANGED vars => UNCHANGED stateVars
    BY DEF ServerAnswers, IdleFires, ShutdownBegins, vars, stateVars
  <2> QED BY <2>1, <2>2, <2>3, <2>4, <2>5, <2>6, <2>7 DEF Next
<1> QED BY <1>1, <1>2, <1>3, <1>4, <1>5, <1>6, <1>7, <1>8, <1>9

\* A handle that the user has been given keeps its acceptances.
LEMMA NextAccepted ==
  ASSUME TypeOK, HandleInv, AcceptedInv, [Next]_vars
  PROVE  AcceptedInv'
<1>1. active \subseteq Listeners /\ awaits \in [Listeners -> SUBSET Keys]
  BY DEF TypeOK
<1>2. ASSUME NEW l \in active', l \in Listeners
      PROVE  \/ l \in active /\ awaits'[l] \subseteq awaits[l]
                /\ \A k \in Wants[l] : k \in awaits[l] \ awaits'[l] => accepted'[k] = TRUE
             \/ Subscribe(l)
  <2>1. l \in active \/ Subscribe(l)
    <3>1. ASSUME NEW m \in Listeners, Subscribe(m) PROVE l \in active \/ l = m
      BY <1>2, <3>1, SubscribeLemma
    <3>2. ASSUME NEW leaving \in SUBSET Listeners, Leave(leaving) PROVE l \in active
      BY <1>2, <3>2, LeaveLemma
    <3> QED BY <1>2, <3>1, <3>2, KeySteps
  <2>2. CASE UNCHANGED awaits
    BY <2>1, <2>2
  <2>3. CASE Changed /\ ~UNCHANGED awaits
    <3> DEFINE gone == Abandoned(Fanout(CurrentKeys(batch.states) \cap reply.rejected))
               kept == CurrentKeys(batch.states) \ gone
    <3>1. Settle(kept, gone) /\ awaits' = [m \in Listeners |-> awaits[m] \ kept]
      BY <2>3 DEF Changed, Subscribed
    <3>2. \A k \in Keys : k \in kept => accepted'[k] = TRUE
      BY <3>1, SettleLemma
    <3>3. ~Subscribe(l)
      BY <2>3 DEF Changed, Subscribe, TypeOK
    <3> HIDE DEF kept
    <3> QED BY <1>1, <1>2, <2>1, <3>1, <3>2, <3>3, WantsAssumption
  <2>4. ASSUME NEW m \in Listeners, User(m), m # l
        PROVE  awaits'[l] = awaits[l]
    BY <1>1, <1>2, <2>4 DEF User, Subscribe, SubscribeReturns, SubscribeFails, SubscribeGivesUp,
                            CloseHandle, Release
  <2>5. User(l) => Subscribe(l) \/ UNCHANGED awaits
    <3>1. ASSUME NEW after, Release(l, after) PROVE FALSE
      BY <1>2, <3>1, LeaveLemma DEF Release, ReleaseAll, keyVars
    <3> QED BY <3>1 DEF User, SubscribeReturns, SubscribeFails, SubscribeGivesUp, CloseHandle
  <2>6. UNCHANGED awaits \/ Changed \/ \E m \in Listeners : User(m)
    BY DEF Next, vars, userVars, Worker, LoopHead, WorkerWakes, RecoverEnds, WorkerGoes, Opened,
           OpenFails, Authorized, AuthorizationRejected, RequestFails, PauseEnds,
           ChangeRefused, ServerAnswers, ConnectionLost, ManagerCloses, IdleFires, ShutdownBegins,
           ShutdownEnds
  <2> QED BY <2>1, <2>2, <2>3, <2>4, <2>5, <2>6
<1>3. active' \subseteq Listeners
  BY NextKeyType DEF KeyTypeOK
<1>4. ASSUME NEW l \in active', phase'[l] = "live" PROVE awaits'[l] = {}
  <2>1. CASE SubscribeReturns(l)
    BY <2>1 DEF SubscribeReturns
  <2>2. ~Subscribe(l)
    BY <1>3, <1>4, PhaseSteps
  <2>3. CASE phase'[l] = phase[l]
    BY <1>2, <1>3, <1>4, <2>2, <2>3 DEF AcceptedInv
  <2> QED BY <1>3, <1>4, <2>1, <2>2, <2>3, PhaseSteps
<1>5. ASSUME NEW l \in active', NEW k \in Wants[l], k \notin awaits'[l] PROVE accepted'[k] = TRUE
  <2>1. CASE Subscribe(l)
    <3>1. k \in Keys /\ accepted' = accepted /\ ready[k] = TRUE
      BY <1>1, <1>3, <1>5, <2>1, WantsAssumption DEF Subscribe, stateVars, TypeOK
    <3> QED BY <3>1 DEF AcceptedInv
  <2>2. CASE ~Subscribe(l)
    <3>1. l \in active /\ (k \notin awaits[l] \/ accepted'[k] = TRUE)
      BY <1>2, <1>3, <1>5, <2>2
    <3> QED BY <1>5, <3>1, AcceptedKept DEF AcceptedInv
  <2> QED BY <2>1, <2>2
<1> QED BY <1>4, <1>5, AcceptedKept DEF AcceptedInv

-----------------------------------------------------------------------------
(* Closing.                                                                 *)

\* close() ends the worker first and takes the rest with it.
LEMMA NextClose ==
  ASSUME TypeOK, HandleInv, ControlInv, CloseInv, [Next]_vars
  PROVE  CloseInv'
<1> USE DEF CloseInv, CloseIsComplete, closed
<1>1. CASE ShutdownEnds
  <2>1. Leave(Fanout(Known)) /\ conn' = "none" /\ pc' = "done"
    BY <1>1 DEF ShutdownEnds
  <2>2. Known' = {}
    BY <2>1, AllLeave, WhoLeaves, LeaveLemma DEF Known
  <2>3. active' = {}
    <3>1. ASSUME NEW l \in active PROVE l \in Fanout(Known)
      <4>1. l \in Listeners
        BY DEF TypeOK
      <4>2. PICK k \in Wants[l] : k \in Keys
        BY <4>1, WantsAssumption
      <4>3. l \in listeners[k] /\ k \in Known
        BY <4>2 DEF HandleInv, HandlesAreWhole, Known, TypeOK
      <4> QED BY <4>3 DEF Fanout
    <3> QED BY <2>1, <3>1, LeaveLemma, WhoLeaves
  <2> QED BY <2>1, <2>2, <2>3
<1>2. CASE ShutdownBegins
  BY <1>2 DEF ShutdownBegins
<1>3. closing' = closing \/ (closing' = "started") \/ ShutdownBegins \/ ShutdownEnds
  BY DEF Next, vars, Worker, User, LoopHead, WorkerWakes, RecoverEnds, WorkerGoes, Opened, OpenFails,
         Authorized, AuthorizationRejected, RequestFails, PauseEnds, Changed, ChangeRefused,
         ServerAnswers, ConnectionLost, ManagerCloses, IdleFires, Subscribe, SubscribeReturns,
         SubscribeFails, SubscribeGivesUp, CloseHandle, Release, StartClose, Recover
<1>4. ASSUME closing \in {"worker", "done"}, ~ShutdownEnds, ~ShutdownBegins
      PROVE  UNCHANGED <<pc, closing>> /\ (conn = "none" => UNCHANGED conn)
             /\ \A l \in Listeners : ~Subscribe(l)
  BY <1>4 DEF Next, vars, Worker, User, LoopHead, WorkerWakes, RecoverEnds, WorkerGoes, Opened,
         OpenFails, Authorized, AuthorizationRejected, RequestFails, PauseEnds, Changed,
         ChangeRefused, ServerAnswers, ConnectionLost, ManagerCloses, IdleFires, Subscribe,
         SubscribeReturns, SubscribeFails, SubscribeGivesUp, CloseHandle, Release, StartClose,
         connVars
<1>5. ASSUME closing = "done", ~ShutdownEnds, ~ShutdownBegins PROVE Known' = {} /\ active' = {}
  <2>1. Known = {} /\ active = {}
    BY <1>5
  <2> QED BY <1>4, <1>5, <2>1, KeySteps, LeaveLemma DEF Known
<1> QED BY <1>1, <1>2, <1>3, <1>4, <1>5

-----------------------------------------------------------------------------
(* The queue of operations, step by step.                                   *)

\* Of these keys, those dropped are queued to be unsubscribed.
LEMMA Dropped ==
  ASSUME TypeOK, authenticated = TRUE, NEW dropped \in SUBSET Known, QueueUnsubscribe(dropped),
         NEW k \in Keys, NEW l \in {creator[k], NoListener}, NEW R, NEW R2, NEW S, NEW b,
         Track(k, l, R, S, b, ops),
         k \in dropped => k \notin R2, k \notin dropped => (k \in R <=> k \in R2)
  PROVE  Track(k, IF k \in dropped THEN NoListener ELSE l, R2, S, b, ops')
<1> DEFINE states == StatesOf(dropped)
<1>1. ops \in Seq(Operations) /\ creator[k] \in Listeners \cup {NoListener}
      /\ states \in SUBSET States /\ Enqueue("unsubscribe", states)
  BY WhoLeaves DEF TypeOK, QueueUnsubscribe
<1>2. k \in dropped => creator[k] \in Listeners /\ <<k, creator[k]>> \in states
  BY <1>1 DEF Known, StatesOf
<1>3. k \notin dropped => \A m \in Listeners : <<k, m>> \notin states
  BY DEF StatesOf
<1> HIDE DEF states
<1>4. CASE states = {}
  <2>1. ops' = ops /\ k \notin dropped
    BY <1>1, <1>2, <1>4, EnqueueLemma
  <2>2. k \in R <=> k \in R2
    BY <2>1
  <2> QED BY <2>1, <2>2 DEF Track
<1>5. CASE states # {}
  <2>1. IsEnqueued(ops, ops', "unsubscribe", states)
    BY <1>1, <1>5, EnqueueLemma
  <2>2. CASE k \in dropped
    BY <1>1, <1>2, <2>1, <2>2, DropQueued
  <2>3. CASE k \notin dropped
    BY <1>1, <1>3, <2>1, <2>3, OthersQueued
  <2> QED BY <2>2, <2>3
<1> QED BY <1>4, <1>5

\* The queue when handles leave.
LEMMA ReleaseTrack ==
  ASSUME TypeOK, authenticated = TRUE, NEW leaving \in SUBSET Listeners, Leave(leaving),
         Settle({}, Abandoned(leaving)), QueueUnsubscribe(Abandoned(leaving)),
         NEW k \in Keys, Track(k, creator[k], Ready, served, batch, ops)
  PROVE  Track(k, creator'[k], Ready', served, batch, ops')
<1> DEFINE gone == Abandoned(leaving)
<1>1. gone \in SUBSET Known
  BY WhoLeaves
<1>2. creator'[k] = IF k \in gone THEN NoListener ELSE creator[k]
  BY LeaveLemma
<1>3. k \in Ready' <=> k \in Ready /\ k \notin gone
  <2>1. ready'[k] = TRUE <=> ready[k] = TRUE /\ k \notin gone
    <3> DEFINE none == {}
    <3>1. Settle(none, gone) /\ k \notin none
      OBVIOUS
    <3> HIDE DEF gone, none
    <3> QED BY <3>1, SettleLemma
  <2> QED BY <2>1 DEF Ready
<1> HIDE DEF gone
<1>4. Track(k, IF k \in gone THEN NoListener ELSE creator[k], Ready', served, batch, ops')
  BY <1>1, <1>3, Dropped DEF gone
<1> QED BY <1>2, <1>4

\* The queue when a subscribe is answered.
LEMMA SubscribedTrack ==
  ASSUME TypeOK, authenticated = TRUE, Subscribed, batch.op = "subscribe", reply.kind = "ok",
         NEW k \in Keys, Track(k, creator[k], Ready, served, batch, ops),
         Names(batch, k) => (k \in served <=> k \notin reply.rejected)
  PROVE  Track(k, creator'[k], Ready', served, NoBatch, ops')
<1> DEFINE current == CurrentKeys(batch.states)
           rejected == current \cap reply.rejected
           gone == Abandoned(Fanout(rejected))
           kept == current \ gone
           l2 == IF k \in rejected THEN NoListener ELSE creator[k]
           R2 == (Ready \cup current) \ rejected
<1>1. PICK first \in SUBSET rejected : QueueUnsubscribe(gone \ first)
  BY DEF Subscribed, FirstRejected
<1>2. Leave(Fanout(rejected)) /\ Settle(kept, gone) /\ Fanout(rejected) \in SUBSET Listeners
  BY WhoLeaves DEF Subscribed
<1>3. rejected \subseteq gone /\ gone \in SUBSET Known
  BY WhoLeaves DEF Abandoned, Fanout
<1>4. creator[k] \in Listeners \cup {NoListener} /\ ops \in Seq(Operations)
      /\ (k \in current <=> creator[k] # NoListener /\ <<k, creator[k]>> \in batch.states)
  BY DEF TypeOK, CurrentKeys, Known
<1>5. k \in current => Names(batch, k) /\ (k \in served <=> k \notin rejected)
  BY <1>4 DEF Names
<1>6. creator'[k] = IF k \in gone THEN NoListener ELSE creator[k]
  BY <1>2, LeaveLemma
<1>7. k \in Ready' <=> (k \in Ready \/ k \in kept) /\ k \notin gone
  <2>1. ready'[k] = TRUE <=> (ready[k] = TRUE \/ k \in kept) /\ k \notin gone
    <3> HIDE DEF kept, gone
    <3> QED BY <1>2, SettleLemma
  <2> QED BY <2>1 DEF Ready
<1>8. ~Names(NoBatch, k)
  BY DEF Names, NoBatch
<1>9. rejected \subseteq current
  OBVIOUS
<1>10. k \in kept <=> k \in current /\ k \notin gone
  OBVIOUS
<1> HIDE DEF current, rejected, gone, kept
<1>11. Track(k, l2, R2, served, NoBatch, ops)
  <2>1. CASE k \notin current
    BY <1>4, <1>8, <1>9, <2>1, AnswerRead
  <2>2. CASE k \in rejected
    <3>1. l2 = NoListener /\ k \notin R2 /\ k \notin served /\ creator[k] # NoListener
          /\ <<k, creator[k]>> \in batch.states
      BY <1>4, <1>5, <1>9, <2>2
    <3> HIDE DEF l2, R2
    <3> QED BY <1>4, <1>8, <3>1, AnswerRead
  <2>3. CASE k \in current /\ k \notin rejected
    <3>1. l2 = creator[k] /\ k \in R2 /\ k \in served /\ creator[k] # NoListener
          /\ <<k, creator[k]>> \in batch.states
      BY <1>4, <1>5, <2>3
    <3> HIDE DEF l2, R2
    <3> QED BY <1>4, <1>8, <3>1, AnswerRead
  <2> QED BY <2>1, <2>2, <2>3
<1>12. Track(k, IF k \in gone \ first THEN NoListener ELSE l2, Ready', served, NoBatch, ops')
  <2>1. k \in gone \ first => k \notin Ready'
    BY <1>7
  <2>2. k \notin gone \ first => (k \in R2 <=> k \in Ready')
    BY <1>3, <1>7, <1>9, <1>10
  <2>3. l2 \in {creator[k], NoListener}
    OBVIOUS
  <2>4. gone \ first \in SUBSET Known
    BY <1>3
  <2> HIDE DEF l2, R2
  <2> QED BY <1>1, <1>11, <2>1, <2>2, <2>3, <2>4, Dropped
<1>13. creator'[k] = IF k \in gone \ first THEN NoListener ELSE l2
  BY <1>3, <1>6
<1> QED BY <1>12, <1>13

\* The queue when a subscribe is refused.
LEMMA RefusedTrack ==
  ASSUME TypeOK, authenticated = TRUE, Refused(CurrentKeys(batch.states)), batch.op = "subscribe",
         NEW k \in Keys, Track(k, creator[k], Ready, served, batch, ops)
  PROVE  Track(k, creator'[k], Ready', served, NoBatch, ops')
<1> DEFINE current == CurrentKeys(batch.states)
           leaving == Fanout(current)
           gone == Abandoned(leaving)
<1>1. Leave(leaving) /\ Settle({}, gone) /\ QueueUnsubscribe(gone) /\ leaving \in SUBSET Listeners
  BY WhoLeaves DEF Refused
<1>2. current \subseteq gone
  BY WhoLeaves DEF Abandoned, Fanout
<1>3. creator'[k] = IF k \in gone THEN NoListener ELSE creator[k]
  BY <1>1, LeaveLemma
<1>4. creator[k] \in Listeners \cup {NoListener}
      /\ (k \in current <=> creator[k] # NoListener /\ <<k, creator[k]>> \in batch.states)
  BY DEF TypeOK, CurrentKeys, Known
<1>5. ~Names(NoBatch, k)
  BY DEF Names, NoBatch
<1>6. Track(k, creator'[k], Ready', served, batch, ops')
  BY <1>1, ReleaseTrack
<1>7. ops' \in Seq(Operations)
  <2>1. StatesOf(gone) \in SUBSET States
    BY WhoLeaves
  <2> HIDE DEF gone
  <2> QED BY <1>1, <2>1, EnqueueLemma DEF QueueUnsubscribe, TypeOK
<1> HIDE DEF current, leaving, gone
<1>8. creator'[k] \in Listeners \cup {NoListener}
      /\ ~(creator'[k] # NoListener /\ <<k, creator'[k]>> \in batch.states)
  BY <1>2, <1>3, <1>4
<1> QED BY <1>5, <1>6, <1>7, <1>8, AnswerRead

\* A key for which nothing has been asked.
LEMMA NothingAsked ==
  ASSUME NEW k, NEW R, NEW S, k \notin R, k \notin S
  PROVE  Track(k, NoListener, R, S, NoBatch, <<>>)
BY DEF Track, Places, Item, Names, NoBatch

\* The queue when states are queued to be subscribed: new keys, or all after
\* the authorization.
LEMMA AskedTrack ==
  ASSUME TypeOK, NEW states \in SUBSET States, Enqueue("subscribe", states), NEW k \in Keys,
         NEW l \in Listeners \cup {NoListener}, NEW l2 \in Listeners \cup {NoListener},
         NEW R, NEW S, NEW b, Track(k, l, R, S, b, ops),
         \/ /\ l2 = l
            /\ \A m \in Listeners : <<k, m>> \notin states
         \/ /\ l = NoListener /\ l2 # NoListener /\ <<k, l2>> \in states
            /\ <<k, l2>> \notin b.states
            /\ \A i \in 1..Len(ops) : <<k, l2>> \notin ops[i].states
  PROVE  Track(k, l2, R, S, b, ops')
<1>1. ops \in Seq(Operations)
  BY DEF TypeOK
<1>2. CASE states = {}
  <2>1. ops' = ops /\ l2 = l
    BY <1>1, <1>2, EnqueueLemma
  <2> QED BY <2>1
<1>3. CASE states # {}
  <2>1. IsEnqueued(ops, ops', "subscribe", states)
    BY <1>1, <1>3, EnqueueLemma
  <2>2. CASE l2 = l /\ \A m \in Listeners : <<k, m>> \notin states
    BY <1>1, <2>1, <2>2, OthersQueued
  <2>3. CASE /\ l = NoListener /\ l2 # NoListener /\ <<k, l2>> \in states
             /\ <<k, l2>> \notin b.states
             /\ \A i \in 1..Len(ops) : <<k, l2>> \notin ops[i].states
    <3>1. k \notin R /\ l2 \in Listeners
      BY <2>3 DEF Track
    <3> QED BY <1>1, <2>1, <2>3, <3>1, AskQueued
  <2> QED BY <2>2, <2>3
<1> QED BY <1>2, <1>3

\* The states of the batch that is sent, for one key.
LEMMA SentTrack ==
  ASSUME TypeOK, RestInv, pc = "pause", PauseEnds, ops # <<>>, lost = "none", NEW k \in Keys,
         Track(k, creator[k], Ready, served, batch, ops)
  PROVE  /\ Track(k, creator[k], Ready, served, batch', ops')
         /\ Asks(batch', <<k, creator[k]>>) /\ creator[k] # NoListener => k \notin served
<1>1. /\ ops \in Seq(Operations) /\ Head(ops) = ops[1] /\ 1 \in 1..Len(ops)
      /\ creator[k] \in Listeners \cup {NoListener}
  BY DEF TypeOK
<1>2. batch = NoBatch /\ ~Names(batch, k)
  <2>1. batch = NoBatch
    BY DEF RestInv
  <2>2. ~Names(NoBatch, k)
    BY DEF Names, NoBatch
  <2> QED BY <2>1, <2>2
<1>3. ops' = Tail(ops) /\ \/ Batch(ops[1]) = {} /\ batch' = NoBatch
                          \/ batch' = [op |-> ops[1].op, states |-> Batch(ops[1])]
  BY <1>1, <1>2 DEF PauseEnds
<1>4. batch'.states = Batch(ops[1]) /\ (batch'.op = ops[1].op \/ ~Names(batch', k))
  <2>1. ~Names(NoBatch, k) /\ NoBatch.states = {}
    BY DEF NoBatch, Names
  <2>2. CASE Batch(ops[1]) = {} /\ batch' = NoBatch
    BY <2>1, <2>2
  <2>3. CASE batch' = [op |-> ops[1].op, states |-> Batch(ops[1])]
    BY <2>3
  <2> QED BY <1>3, <2>2, <2>3
<1>5. ops[1].op \in {"subscribe", "unsubscribe"}
  BY <1>1, OperationsLemma
<1>6. \A m \in Listeners : <<k, m>> \in Batch(ops[1]) <=>
        <<k, m>> \in ops[1].states /\ (ops[1].op = "subscribe" => m = creator[k])
  <2>1. CASE ops[1].op = "unsubscribe"
    BY <2>1 DEF Batch
  <2>2. CASE ops[1].op = "subscribe"
    <3>1. ASSUME NEW m \in Listeners
          PROVE  <<k, m>> \in StatesOf(CurrentKeys(ops[1].states)) <=>
                   <<k, m>> \in ops[1].states /\ m = creator[k]
      BY NoListenerAssumption DEF StatesOf, CurrentKeys, Known
    <3> QED BY <2>2, <3>1 DEF Batch
  <2> QED BY <1>5, <2>1, <2>2
<1>7. \A m \in Listeners : <<k, m>> \in batch'.states <=>
        <<k, m>> \in ops[1].states /\ (ops[1].op = "subscribe" => m = creator[k])
  BY <1>4, <1>6
<1> DEFINE sent == batch'
<1>8. sent.op = ops[1].op \/ ~Names(sent, k)
  BY <1>4 DEF Names
<1> HIDE DEF sent
<1>9. /\ Track(k, creator[k], Ready, served, sent, Tail(ops))
      /\ Asks(sent, <<k, creator[k]>>) /\ creator[k] # NoListener => k \notin served
  BY <1>1, <1>2, <1>7, <1>8, FirstSent DEF sent
<1> QED BY <1>3, <1>9 DEF sent

\* Where the connection stays what it was.
LEMMA StreamingLasts ==
  ASSUME TypeOK, ControlInv, RestInv, [Next]_vars, Streaming'
  PROVE  Streaming \/ (Authorized /\ lost = "none")
<1>1. conn = "open" \/ (pc = "opening" /\ UNCHANGED linkVars)
  BY DEF Next, vars, Worker, User, LoopHead, WorkerWakes, RecoverEnds, WorkerGoes, Opened, OpenFails,
         Authorized, AuthorizationRejected, RequestFails, PauseEnds, Changed, ChangeRefused,
         ServerAnswers, ConnectionLost, ManagerCloses, IdleFires, Subscribe, SubscribeReturns,
         SubscribeFails, SubscribeGivesUp, CloseHandle, Release, Recover, ShutdownBegins,
         ShutdownEnds, connVars, Streaming
<1>2. authenticated = TRUE \/ (Authorized /\ lost = "none")
  BY DEF Next, vars, Worker, User, LoopHead, WorkerWakes, RecoverEnds, WorkerGoes, Opened, OpenFails,
         Authorized, AuthorizationRejected, RequestFails, PauseEnds, Changed, ChangeRefused,
         ServerAnswers, ConnectionLost, ManagerCloses, IdleFires, Subscribe, SubscribeReturns,
         SubscribeFails, SubscribeGivesUp, CloseHandle, Release, Recover, Reset, ShutdownBegins,
         ShutdownEnds, linkVars, Streaming
<1>3. pc = "opening" => authenticated = FALSE
  BY DEF ControlInv
<1>4. Authorized => pc = "authorizing"
  BY DEF Authorized
<1> QED BY <1>1, <1>2, <1>3, <1>4, Zenon DEF Streaming, linkVars

\* The answer says what became of each key.
LEMMA NextFlight ==
  ASSUME TypeOK, ControlInv, RestInv, QueueInv, FlightInv, [Next]_vars
  PROVE  FlightInv'
<1> SUFFICES ASSUME Streaming', pc' = "changing" PROVE FlightInv'
  BY DEF FlightInv
<1>1. Streaming
  BY StreamingLasts DEF Authorized
<1>2. CASE ServerAnswers
  <2>1. pc = "changing" /\ batch' = batch /\ reply = NoReply
    BY <1>1, <1>2 DEF ServerAnswers, ControlInv, Streaming
  <2>2. PICK applied \in SUBSET Asked :
          /\ served' = IF batch.op = "subscribe" THEN served \cup applied ELSE served \ applied
          /\ \/ applied = Asked /\ reply' = [kind |-> "ok", rejected |-> {}]
             \/ applied # Asked /\ reply' = [kind |-> "ok", rejected |-> Asked \ applied]
             \/ reply' = [kind |-> "error", rejected |-> {}]
    BY <1>2 DEF ServerAnswers
  <2>3. ASSUME NEW k \in Keys, Names(batch, k)
        PROVE  /\ k \in Asked
               /\ batch.op = "subscribe" => k \notin served
    <3>1. k \in Asked
      BY <2>3 DEF Names, Asked
    <3> QED BY <1>1, <2>1, <2>3, <3>1 DEF FlightInv
  <2>4. reply'.kind \in {"ok", "error"} /\ reply' # NoReply
    BY <2>2 DEF NoReply
  <2>5. ASSUME NEW k \in Keys, Names(batch, k), batch.op = "subscribe", reply'.kind = "ok"
        PROVE  k \in served' <=> k \notin reply'.rejected
    BY <2>2, <2>3, <2>5
  <2>6. ASSUME NEW k \in Keys, Names(batch, k), batch.op # "subscribe", reply'.kind = "ok",
               reply'.rejected = {}
        PROVE  k \notin served'
    BY <2>2, <2>3, <2>6
  <2> QED BY <2>1, <2>4, <2>5, <2>6 DEF FlightInv, Names
<1>3. CASE PauseEnds
  <2>1. /\ pc = "pause" /\ ops # <<>> /\ lost = "none" /\ reply' = reply /\ served' = served
        /\ creator' = creator /\ batch' = [op |-> Head(ops).op, states |-> Batch(Head(ops))]
    BY <1>3 DEF PauseEnds, connVars, keyVars
  <2>2. reply' = NoReply /\ NoReply.kind # "ok"
    BY <2>1 DEF RestInv, NoReply
  <2>3. ASSUME NEW k \in Keys, Names(batch', k), batch'.op = "subscribe"
        PROVE  k \notin served
    <3>1. Track(k, creator[k], Ready, served, batch, ops)
      BY <1>1, <2>1 DEF QueueInv
    <3>2. Asks(batch', <<k, creator[k]>>) /\ creator[k] # NoListener
      <4>1. batch'.states = StatesOf(CurrentKeys(Head(ops).states))
        BY <2>1, <2>3 DEF Batch
      <4>2. creator[k] # NoListener /\ <<k, creator[k]>> \in batch'.states
        BY <2>3, <4>1 DEF Names, StatesOf, CurrentKeys, Known
      <4> QED BY <2>3, <4>2 DEF Asks
    <3> QED BY <1>3, <2>1, <3>1, <3>2, SentTrack
  <2> HIDE DEF NoReply
  <2>4. \A k \in Keys : Names(batch', k) => (batch'.op = "subscribe" => k \notin served')
    BY <2>1, <2>3
  <2> QED BY <2>2, <2>4 DEF FlightInv, Names
<1>4. CASE ~ServerAnswers /\ ~PauseEnds
  <2>1. pc = "changing" /\ UNCHANGED requestVars /\ UNCHANGED served
    BY <1>4 DEF Next, vars, Worker, User, LoopHead, WorkerWakes, RecoverEnds, WorkerGoes, Opened,
         OpenFails, Authorized, AuthorizationRejected, RequestFails, Changed, ChangeRefused,
         ConnectionLost, ManagerCloses, IdleFires, Subscribe, SubscribeReturns,
         SubscribeFails, SubscribeGivesUp, CloseHandle, Release, Recover, ShutdownBegins,
         ShutdownEnds, connVars, Streaming
  <2> QED BY <1>1, <2>1 DEF FlightInv, requestVars, Names
<1> QED BY <1>2, <1>3, <1>4

\* After the authorization every key is asked for.
LEMMA AuthorizedTrack ==
  ASSUME TypeOK, ControlInv, RestInv, Authorized, lost = "none", NEW k \in Keys
  PROVE  Track(k, creator'[k], Ready', served', batch', ops')
<1>1. /\ authenticated = FALSE /\ pc = "authorizing" /\ ops = <<>> /\ served = {}
      /\ Ready = {}
  BY DEF Authorized, ControlInv, RestInv, Ready
<1>2. /\ creator' = creator /\ ready' = ready /\ served' = served /\ batch' = NoBatch
      /\ Enqueue("subscribe", StatesOf(Known))
  BY DEF Authorized, keyVars, stateVars, connVars, Forget
<1>3. Ready' = Ready
  BY <1>2 DEF Ready
<1>4. Track(k, NoListener, Ready, served, NoBatch, ops)
  BY <1>1, NothingAsked
<1>5. creator[k] \in Listeners \cup {NoListener} /\ StatesOf(Known) \in SUBSET States
  BY WhoLeaves DEF TypeOK
<1>6. \A i \in 1..Len(ops) : FALSE
  BY <1>1
<1>7. CASE creator[k] = NoListener
  <2>1. \A m \in Listeners : <<k, m>> \notin StatesOf(Known)
    BY <1>7 DEF StatesOf, Known
  <2>2. Track(k, creator[k], Ready, served, NoBatch, ops')
    BY <1>2, <1>4, <1>5, <1>7, <2>1, AskedTrack
  <2> QED BY <1>2, <1>3, <2>2
<1>8. CASE creator[k] # NoListener
  <2>1. <<k, creator[k]>> \in StatesOf(Known) /\ <<k, creator[k]>> \notin NoBatch.states
    BY <1>8 DEF StatesOf, Known, NoBatch
  <2>2. Track(k, creator[k], Ready, served, NoBatch, ops')
    BY <1>2, <1>4, <1>5, <1>6, <1>8, <2>1, AskedTrack
  <2> QED BY <1>2, <1>3, <2>2
<1> QED BY <1>7, <1>8

\* subscribe() asks for the keys that are new.
LEMMA SubscribeTrack ==
  ASSUME TypeOK, HandleInv, authenticated = TRUE, NEW l \in Listeners, Subscribe(l), NEW k \in Keys,
         Track(k, creator[k], Ready, served, batch, ops)
  PROVE  Track(k, creator'[k], Ready', served', batch', ops')
<1> DEFINE new == Wants[l] \ Known
           states == new \X {l}
<1>1. /\ ready' = ready /\ served' = served /\ batch' = batch /\ phase[l] = "new"
      /\ IF new # {} THEN Enqueue("subscribe", states) ELSE ops' = ops
  BY DEF Subscribe, stateVars, connVars, requestVars
<1>2. Ready' = Ready
  BY <1>1 DEF Ready
<1>3. /\ k \in new => creator'[k] = l /\ creator[k] = NoListener
      /\ k \notin new => creator'[k] = creator[k]
      /\ creator[k] \in Listeners \cup {NoListener} /\ creator'[k] \in Listeners \cup {NoListener}
      /\ states \in SUBSET States /\ l # NoListener
  BY SubscribeLemma, NoListenerAssumption DEF Known, KeyTypeOK, TypeOK
<1>4. <<k, l>> \notin batch.states /\ \A i \in 1..Len(ops) : <<k, l>> \notin ops[i].states
  BY <1>1 DEF HandleInv
<1>5. k \in new => <<k, l>> \in states
  OBVIOUS
<1>6. k \notin new => \A m \in Listeners : <<k, m>> \notin states
  OBVIOUS
<1> HIDE DEF new, states
<1>7. Track(k, creator'[k], Ready, served, batch, ops')
  <2>1. CASE k \in new
    BY <1>1, <1>3, <1>4, <1>5, <2>1, AskedTrack
  <2>2. CASE k \notin new /\ new # {}
    BY <1>1, <1>3, <1>6, <2>2, AskedTrack
  <2>3. CASE k \notin new /\ new = {}
    BY <1>1, <1>3, <2>3
  <2> QED BY <2>1, <2>2, <2>3
<1> QED BY <1>1, <1>2, <1>7

\* The queue follows every step.
LEMMA NextQueue ==
  ASSUME TypeOK, HandleInv, ControlInv, RestInv, QueueInv, FlightInv, [Next]_vars
  PROVE  QueueInv'
<1> SUFFICES ASSUME Streaming', pc' # "done", NEW k \in Keys
             PROVE  Track(k, creator'[k], Ready', served', batch', ops')
  BY DEF QueueInv
<1> DEFINE Goal == Track(k, creator'[k], Ready', served', batch', ops')
<1>1. pc # "done"
  BY DEF Next, vars, Worker, User, LoopHead, WorkerWakes, RecoverEnds, WorkerGoes, Opened,
         OpenFails, Authorized, AuthorizationRejected, RequestFails, PauseEnds, Changed, ChangeRefused,
         ServerAnswers, ConnectionLost, ManagerCloses, IdleFires, Subscribe, SubscribeReturns,
         SubscribeFails, SubscribeGivesUp, CloseHandle, Release, ShutdownBegins, ShutdownEnds
<1>2. CASE Authorized /\ lost = "none"
  BY <1>2, AuthorizedTrack
<1>3. CASE Streaming
  <2>1. /\ Track(k, creator[k], Ready, served, batch, ops)
        /\ authenticated = TRUE /\ conn = "open" /\ lost = "none" /\ pc # "opening"
        /\ pc # "authorizing"
        /\ authenticated' = TRUE /\ conn' = "open"
    BY <1>1, <1>3 DEF QueueInv, Streaming, ControlInv
  <2>2. ASSUME UNCHANGED <<creator, ready, served, batch, ops>> PROVE Goal
    <3>1. Ready' = Ready
      BY <2>2 DEF Ready
    <3> QED BY <2>1, <2>2, <3>1
  <2>3. CASE LoopHead
    <3>1. UNCHANGED <<creator, ready, served, batch, ops>>
      BY <2>1, <2>3 DEF LoopHead, Recover, keyVars, stateVars, connVars, requestVars, queueVars
    <3> QED BY <2>2, <3>1
  <2>4. CASE WorkerWakes \/ RecoverEnds \/ IdleFires \/ UNCHANGED vars
             \/ \E l \in Listeners : SubscribeReturns(l)
    <3>1. UNCHANGED <<creator, ready, served, batch, ops>>
      BY <2>4 DEF WorkerWakes, RecoverEnds, WorkerGoes, IdleFires, SubscribeReturns, vars, keyVars,
                  stateVars, connVars, requestVars, queueVars
    <3> QED BY <2>2, <3>1
  <2>5. CASE Opened \/ OpenFails \/ Authorized \/ AuthorizationRejected \/ RequestFails
             \/ ConnectionLost \/ ShutdownBegins \/ ShutdownEnds
    BY <2>1, <2>5 DEF Opened, OpenFails, Authorized, AuthorizationRejected, RequestFails, Recover,
                      ConnectionLost, ShutdownBegins, ShutdownEnds
  <2>6. CASE PauseEnds
    <3>1. UNCHANGED <<creator, ready, served>>
      BY <2>6 DEF PauseEnds, keyVars, stateVars, connVars
    <3>2. Ready' = Ready
      BY <3>1 DEF Ready
    <3>3. CASE ops # <<>>
      BY <2>1, <2>6, <3>1, <3>2, <3>3, SentTrack DEF PauseEnds
    <3>4. CASE ops = <<>>
      BY <2>2, <2>6, <3>1, <3>4 DEF PauseEnds
    <3> QED BY <3>3, <3>4
  <2>7. CASE Changed
    <3>1. pc = "changing" /\ reply.kind = "ok" /\ pc' = "top" /\ batch' = NoBatch /\ served' = served
      BY <2>1, <2>7 DEF Changed, Recover, Forget, connVars
    <3>2. CASE batch.op = "unsubscribe"
      <4>1. reply.rejected = {} /\ UNCHANGED <<creator, ready, ops>>
        BY <2>1, <2>7, <3>2 DEF Changed, Recover, keyVars, stateVars, queueVars
      <4>2. Names(batch, k) => k \notin served
        BY <1>3, <3>1, <3>2, <4>1 DEF FlightInv
      <4>3. ~Names(NoBatch, k) /\ Ready' = Ready /\ ops \in Seq(Operations)
            /\ creator[k] \in Listeners \cup {NoListener}
        BY <4>1 DEF Names, NoBatch, Ready, TypeOK
      <4>4. Track(k, creator[k], Ready, served, NoBatch, ops)
        BY <2>1, <3>2, <4>2, <4>3, AnswerRead
      <4> QED BY <3>1, <4>1, <4>3, <4>4
    <3>3. CASE batch.op = "subscribe"
      <4>1. Subscribed
        BY <2>1, <2>7, <3>3 DEF Changed, Recover
      <4>2. Names(batch, k) => (k \in served <=> k \notin reply.rejected)
        BY <1>3, <3>1, <3>3 DEF FlightInv
      <4> QED BY <2>1, <3>1, <3>3, <4>1, <4>2, SubscribedTrack
    <3> QED BY <2>1, <2>7, <3>2, <3>3 DEF Changed
  <2>8. CASE ChangeRefused
    <3>1. /\ batch.op = "subscribe" /\ Refused(CurrentKeys(batch.states))
          /\ batch' = NoBatch /\ served' = served
      BY <2>1, <2>8 DEF ChangeRefused, Recover, Forget, connVars
    <3> QED BY <2>1, <3>1, RefusedTrack
  <2>9. CASE ServerAnswers
    <3>1. /\ UNCHANGED <<creator, ready, ops, batch>>
          /\ \E applied \in SUBSET Asked :
               served' = IF batch.op = "subscribe" THEN served \cup applied ELSE served \ applied
      BY <2>9 DEF ServerAnswers, keyVars, stateVars, queueVars
    <3>2. k \in Asked => Names(batch, k)
      <4>1. batch.states \subseteq States
        BY DEF TypeOK, Operations, NoBatch
      <4> QED BY <4>1 DEF Asked, Names, States
    <3>3. Ready' = Ready /\ ops \in Seq(Operations)
      BY <3>1 DEF Ready, TypeOK
    <3>4. /\ k \in served' => k \in served \/ Names(batch, k)
          /\ k \in served /\ ~Names(batch, k) => k \in served'
      BY <3>1, <3>2
    <3>5. Track(k, creator[k], Ready, served', batch, ops)
      BY <2>1, <3>3, <3>4, PartApplied
    <3> QED BY <3>1, <3>3, <3>5
  <2>10. ASSUME NEW l \in Listeners, Subscribe(l) PROVE Goal
    BY <2>1, <2>10, SubscribeTrack
  <2>11. ASSUME NEW leaving \in SUBSET Listeners, ReleaseAll(leaving),
                UNCHANGED <<requestVars, connVars>>
         PROVE  Goal
    <3>1. Leave(leaving) /\ Settle({}, Abandoned(leaving)) /\ QueueUnsubscribe(Abandoned(leaving))
          /\ UNCHANGED <<batch, served>>
      BY <2>11 DEF ReleaseAll, requestVars, connVars
    <3>2. Track(k, creator'[k], Ready', served, batch, ops')
      BY <2>1, <3>1, ReleaseTrack
    <3> QED BY <3>1, <3>2
  <2>12. ASSUME NEW l \in Listeners, NEW after, Release(l, after) PROVE Goal
    <3>1. CASE ReleaseAll({l})
      BY <2>11, <2>12, <3>1 DEF Release
    <3>2. CASE UNCHANGED <<keyVars, stateVars, queueVars>>
      BY <2>2, <2>12, <3>2 DEF Release, keyVars, stateVars, queueVars, requestVars, connVars
    <3> QED BY <2>12, <3>1, <3>2 DEF Release
  <2>13. CASE ManagerCloses
    <3>1. ReleaseAll(active) /\ active \in SUBSET Listeners /\ UNCHANGED <<requestVars, connVars>>
      BY <2>13 DEF ManagerCloses, TypeOK
    <3> QED BY <2>11, <3>1
  <2>14. ASSUME NEW l \in Listeners, User(l) PROVE Goal
    BY <2>4, <2>10, <2>12, <2>14 DEF User, SubscribeFails, SubscribeGivesUp, CloseHandle
  <2> QED BY <2>3, <2>4, <2>5, <2>6, <2>7, <2>8, <2>9, <2>13, <2>14 DEF Next, Worker
<1> QED BY <1>2, <1>3, StreamingLasts

\* A ready key is streamed, also while close() runs.
LEMMA NextReady ==
  ASSUME TypeOK, ControlInv, RestInv, ReadyInv, QueueInv', [Next]_vars
  PROVE  ReadyInv'
<1> SUFFICES ASSUME Streaming', NEW k \in Ready' PROVE creator'[k] # NoListener /\ k \in served'
  BY DEF ReadyInv
<1> DEFINE Goal == creator'[k] # NoListener /\ k \in served'
<1>1. k \in Keys /\ ready'[k] = TRUE
  BY DEF Ready
<1>2. CASE pc' # "done"
  BY <1>1, <1>2 DEF QueueInv, Track
<1>3. CASE pc' = "done"
  <2>1. Streaming
    BY <1>3, StreamingLasts DEF Authorized
  <2>2. /\ authenticated = TRUE /\ conn = "open" /\ lost = "none" /\ pc # "authorizing"
        /\ conn' = "open"
    BY <2>1 DEF Streaming, ControlInv
  <2>3. ready[k] = TRUE => creator[k] # NoListener /\ k \in served
    BY <1>1, <2>1 DEF ReadyInv, Ready
  <2>4. ASSUME UNCHANGED <<creator, ready, served>> PROVE Goal
    BY <1>1, <2>3, <2>4
  <2>5. ASSUME NEW leaving \in SUBSET Listeners, ReleaseAll(leaving), UNCHANGED served PROVE Goal
    <3> DEFINE none == {}
               gone == Abandoned(leaving)
    <3>1. Leave(leaving) /\ Settle(none, gone) /\ k \notin none
      BY <2>5 DEF ReleaseAll
    <3> HIDE DEF none
    <3>2. ready[k] = TRUE /\ k \notin gone
      <4> HIDE DEF gone
      <4> QED BY <1>1, <3>1, SettleLemma
    <3>3. creator'[k] = creator[k]
      BY <1>1, <3>1, <3>2, LeaveLemma
    <3> QED BY <2>3, <2>5, <3>2, <3>3
  <2>6. ASSUME NEW l \in Listeners, Subscribe(l) PROVE Goal
    <3>1. ready' = ready /\ served' = served
      BY <2>6 DEF Subscribe, stateVars, connVars
    <3>2. creator[k] # NoListener => creator'[k] # NoListener
      BY <1>1, <2>6, SubscribeLemma, NoListenerAssumption
    <3> QED BY <1>1, <2>3, <3>1, <3>2
  <2>7. ASSUME NEW l \in Listeners, NEW after, Release(l, after) PROVE Goal
    <3>1. CASE ReleaseAll({l})
      BY <2>5, <2>7, <3>1 DEF Release, connVars
    <3>2. CASE UNCHANGED <<keyVars, stateVars, queueVars>>
      BY <2>4, <2>7, <3>2 DEF Release, keyVars, stateVars, connVars
    <3> QED BY <2>7, <3>1, <3>2 DEF Release
  <2>8. CASE ManagerCloses
    <3>1. ReleaseAll(active) /\ active \in SUBSET Listeners /\ UNCHANGED served
      BY <2>8 DEF ManagerCloses, connVars, TypeOK
    <3> QED BY <2>5, <3>1
  <2>9. ASSUME NEW l \in Listeners, User(l) PROVE Goal
    <3>1. SubscribeReturns(l) => UNCHANGED <<creator, ready, served>>
      BY DEF SubscribeReturns, keyVars, stateVars, connVars
    <3> QED BY <2>4, <2>6, <2>7, <2>9, <3>1 DEF User, SubscribeFails, SubscribeGivesUp, CloseHandle
  <2>10. CASE LoopHead
    <3>1. UNCHANGED <<creator, ready, served>>
      BY <1>3, <2>2, <2>10 DEF LoopHead, keyVars, stateVars, connVars
    <3> QED BY <2>4, <3>1
  <2>11. CASE UNCHANGED vars \/ IdleFires \/ ShutdownBegins
    <3>1. UNCHANGED <<creator, ready, served>>
      BY <2>11 DEF vars, IdleFires, ShutdownBegins, keyVars, stateVars, connVars
    <3> QED BY <2>4, <3>1
  <2>12. ~Worker /\ ~ServerAnswers /\ ~ConnectionLost /\ ~ShutdownEnds
    BY <1>3, <2>2 DEF Worker, WorkerWakes, RecoverEnds, WorkerGoes, Opened, OpenFails, Authorized,
       AuthorizationRejected, RequestFails, PauseEnds, Changed, ChangeRefused, Recover,
       ServerAnswers, ConnectionLost, ShutdownEnds
  <2> QED BY <2>8, <2>9, <2>10, <2>11, <2>12 DEF Next
<1> QED BY <1>2, <1>3

LEMMA InitInv == Init => IInv
<1> SUFFICES ASSUME Init PROVE IInv
  OBVIOUS
<1> USE DEF Init
<1>1. TypeOK
  <2>1. <<>> \in Seq(Operations)
    OBVIOUS
  <2>2. /\ ready \in [Keys -> BOOLEAN] /\ accepted \in [Keys -> BOOLEAN]
        /\ creator \in [Keys -> Listeners \cup {NoListener}]
        /\ listeners \in [Keys -> SUBSET Listeners]
        /\ \A k \in Keys : creator[k] = NoListener <=> listeners[k] = {}
    OBVIOUS
  <2>3. /\ phase \in [Listeners -> {"new", "waiting", "live", "failed", "closed"}]
        /\ awaits \in [Listeners -> SUBSET Keys]
    OBVIOUS
  <2>4. losses \in 0..MaxLosses /\ failures \in 0..MaxFailures
    BY BoundsAssumption
  <2>5. reply \in [kind : {"none", "ok", "error"}, rejected : SUBSET Keys]
    BY DEF NoReply
  <2> QED BY <2>1, <2>2, <2>3, <2>4, <2>5 DEF TypeOK
<1>2. HandleInv
  BY NoListenerAssumption DEF HandleInv, HandlesAreWhole, NoBatch
<1>3. AcceptedInv
  BY DEF AcceptedInv
<1>4. ControlInv /\ CloseInv
  BY DEF ControlInv, CloseInv, CloseIsComplete, closed
<1>5. RestInv
  BY DEF RestInv
<1>6. QueueInv /\ FlightInv /\ ReadyInv
  BY DEF QueueInv, FlightInv, ReadyInv, Streaming
<1> QED BY <1>1, <1>2, <1>3, <1>4, <1>5, <1>6 DEF IInv

\* The invariant is inductive.
THEOREM Inductive == Spec => []IInv
<1>1. Init => IInv
  BY InitInv
<1>2. IInv /\ [Next]_vars => IInv'
  <2> SUFFICES ASSUME IInv, [Next]_vars PROVE IInv'
    OBVIOUS
  <2>1. TypeOK /\ HandleInv /\ AcceptedInv /\ ControlInv /\ RestInv /\ CloseInv /\ QueueInv
        /\ FlightInv /\ ReadyInv
    BY DEF IInv
  <2>2. TypeOK' /\ HandleInv' /\ AcceptedInv' /\ ControlInv' /\ RestInv' /\ CloseInv'
    BY <2>1, NextType, NextHandle, NextAccepted, NextControl, NextRest, NextClose
  <2>3. QueueInv' /\ FlightInv'
    BY <2>1, NextQueue, NextFlight
  <2>4. ReadyInv'
    BY <2>1, <2>3, NextReady
  <2> QED BY <2>2, <2>3, <2>4 DEF IInv
<1> QED BY <1>1, <1>2, PTL DEF Spec

-----------------------------------------------------------------------------
(* The theorems.                                                            *)

\* Type correctness: every variable keeps its type, and a key is known for as
\* long as somebody listens to it.
THEOREM TypeCorrect == Spec => []TypeOK
<1>1. IInv => TypeOK
  BY DEF IInv
<1> QED BY <1>1, Inductive, PTL

\* No rejection, release or failure takes a part of an active handle's keys.
THEOREM HandlesWhole == Spec => []HandlesAreWhole
<1>1. IInv => HandlesAreWhole
  BY DEF IInv, HandleInv
<1> QED BY <1>1, Inductive, PTL

\* When close() is over no key, no handle, no worker and no connection is left.
THEOREM CloseComplete == Spec => []CloseIsComplete
<1>1. IInv => CloseIsComplete
  BY DEF IInv, CloseInv
<1> QED BY <1>1, Inductive, PTL

\* A key whose acceptance is set is streamed while the connection lasts: no
\* answer is taken for a later subscription of the same key.
THEOREM AcceptedServed == Spec => []AcceptedIsServed
<1>1. IInv => AcceptedIsServed
  <2> SUFFICES ASSUME IInv, NEW k \in Keys, ready[k], authenticated, conn = "open"
               PROVE  k \in Known /\ k \in served
    BY DEF AcceptedIsServed
  <2>1. ready \in [Keys -> BOOLEAN] /\ authenticated \in BOOLEAN
    BY DEF IInv, TypeOK
  <2>2. ready[k] = TRUE /\ authenticated = TRUE
    BY <2>1
  <2> QED BY <2>2 DEF IInv, ReadyInv, Streaming, Ready, Known
<1> QED BY <1>1, Inductive, PTL

\* A worker that has sent all it had to is followed by the server: it streams
\* the keys that have listeners and no other.
THEOREM ServerFollows == Spec => []ServerFollowsKeys
<1>1. IInv => ServerFollowsKeys
  <2> SUFFICES ASSUME IInv, pc = "wait", authenticated, ops = <<>>, ~closed
               PROVE  served = Known
    BY DEF ServerFollowsKeys
  <2>1. authenticated = TRUE /\ served \subseteq Keys
    BY DEF IInv, TypeOK
  <2>2. Streaming
    BY <2>1 DEF IInv, ControlInv, Streaming
  <2>3. batch = NoBatch
    BY DEF IInv, RestInv
  <2>4. /\ Places(ops) = {0}
        /\ \A k : ~Names(Item(batch, ops, 0), k)
        /\ \A x : ~Asks(Item(batch, ops, 0), x)
    BY <2>3 DEF Places, Item, Names, Asks, NoBatch
  <2>5. ASSUME NEW k \in Keys PROVE k \in served <=> creator[k] # NoListener
    <3>1. Track(k, creator[k], Ready, served, batch, ops)
      BY <2>2 DEF IInv, QueueInv
    <3>2. creator[k] # NoListener => k \in served
      BY <2>4, <3>1 DEF Track
    <3>3. creator[k] = NoListener => k \notin served
      BY <2>4, <3>1 DEF Track, Drops
    <3> QED BY <3>2, <3>3
  <2> QED BY <2>1, <2>5 DEF Known
<1> QED BY <1>1, Inductive, PTL

\* A reconnect that fails ends no handle that a user has been given.
THEOREM LiveSurvive == Spec => LiveHandlesSurviveReconnects
<1>1. IInv /\ [Next]_vars =>
        [pc = "opening" /\ pc' = "retrying"
           => \A l \in active : phase[l] = "live" => l \in active']_vars
  <2> SUFFICES ASSUME IInv, [Next]_vars, pc = "opening", pc' = "retrying",
                      NEW l \in active, phase[l] = "live"
               PROVE  l \in active'
    OBVIOUS
  <2>1. OpenFails
    BY DEF Next, vars, Worker, User, LoopHead, WorkerWakes, RecoverEnds, WorkerGoes, Opened,
         Authorized, AuthorizationRejected, RequestFails, PauseEnds, Changed, ChangeRefused,
         ServerAnswers, ConnectionLost, ManagerCloses, IdleFires, Subscribe, SubscribeReturns,
         SubscribeFails, SubscribeGivesUp, CloseHandle, Release, ShutdownBegins, ShutdownEnds
  <2>2. TypeOK /\ Leave(Fanout(NeverAccepted)) /\ Fanout(NeverAccepted) \in SUBSET Listeners
    BY <2>1, WhoLeaves DEF IInv, OpenFails
  <2>3. ASSUME NEW k \in NeverAccepted PROVE l \notin listeners[k]
    <3>1. k \in Keys /\ accepted[k] # TRUE
      BY <2>3 DEF NeverAccepted, Known
    <3> QED BY <3>1 DEF IInv, HandleInv, AcceptedInv
  <2>4. l \notin Fanout(NeverAccepted)
    BY <2>3 DEF Fanout
  <2> QED BY <2>2, <2>4, LeaveLemma
<1> QED BY <1>1, Inductive, PTL DEF Spec, LiveHandlesSurviveReconnects

=============================================================================
