--------------------------- MODULE RealtimeSession ---------------------------
(***************************************************************************)
(* One PriceSession (_internal/streams/realtime/session.py) with its        *)
(* PriceConnection (socket.py) and the handles RealtimeStreamManager        *)
(* (manager.py) attaches to it.  Listeners share keys; one worker task      *)
(* opens and authorizes the connection and sends one operation at a time.   *)
(*                                                                          *)
(* Between two awaits a task runs without interruption.  The head of the    *)
(* worker's loop is an action of its own, LoopHead, and no other step comes *)
(* between it and the step that leads there.  Prices, snapshots and time    *)
(* are left out; the server is external.                                    *)
(***************************************************************************)
EXTENDS Naturals, SequencesExt

CONSTANTS
  Keys,          \* price filters
  Listeners,     \* handles users may ask for, each of them once
  NoListener,
  Wants,         \* the keys of each listener
  MaxLosses,     \* connections the server or the network may close
  MaxFailures    \* handshakes, authorizations and operations that may fail

ASSUME NoListenerAssumption == NoListener \notin Listeners
ASSUME WantsAssumption == Wants \in [Listeners -> (SUBSET Keys) \ {{}}]
ASSUME BoundsAssumption == MaxLosses \in Nat /\ MaxFailures \in Nat

VARIABLES
  creator,    \* self._keys: the listener whose add() created the _KeyState of a key
  listeners,  \* state.listeners
  ready,      \* state.ready is set
  accepted,   \* state.accepted
  phase,      \* what the user of each handle sees
  active,     \* handles that are neither ended nor released
  awaits,     \* acceptances that each subscribe() still awaits
  raised,     \* subscribes one of whose acceptances failed
  ops,        \* self._ops
  wake,       \* self._wake is set
  pc,         \* what the worker awaits
  batch,      \* the operation under way and its key states
  reply,      \* the answer to the request under way
  authenticated, lost, idle, closing,
  conn,       \* none, open, or dead (loss reported)
  served,     \* keys the server streams on the current connection
  losses, failures

keyVars == <<creator, listeners, active, raised, idle>>
stateVars == <<ready, accepted>>
userVars == <<phase, awaits>>
queueVars == <<ops, wake>>
requestVars == <<batch, reply>>
linkVars == <<authenticated, lost>>
connVars == <<conn, served>>
budgetVars == <<losses, failures>>
vars == <<keyVars, stateVars, userVars, queueVars, pc, requestVars, linkVars, closing,
          connVars, budgetVars>>

States == Keys \X Listeners
Operations == [op : {"subscribe", "unsubscribe"}, states : SUBSET States]
NoBatch == [op |-> "none", states |-> {}]
NoReply == [kind |-> "none", rejected |-> {}]

\* Every variable has its type, and a key that is known has a listener.
TypeOK ==
  /\ creator \in [Keys -> Listeners \cup {NoListener}]
  /\ listeners \in [Keys -> SUBSET Listeners]
  /\ \A k \in Keys : creator[k] = NoListener <=> listeners[k] = {}
  /\ ready \in [Keys -> BOOLEAN]
  /\ accepted \in [Keys -> BOOLEAN]
  /\ phase \in [Listeners -> {"new", "waiting", "live", "failed", "closed"}]
  /\ active \subseteq Listeners
  /\ awaits \in [Listeners -> SUBSET Keys]
  /\ raised \subseteq Listeners
  /\ ops \in Seq(Operations)
  /\ wake \in BOOLEAN
  /\ pc \in {"top", "resumed", "wait", "recovering", "retrying", "opening", "authorizing",
             "pause", "changing", "done"}
  /\ batch \in Operations \cup {NoBatch}
  /\ reply \in [kind : {"none", "ok", "error"}, rejected : SUBSET Keys]
  /\ authenticated \in BOOLEAN
  /\ lost \in {"none", "transient", "terminal"}
  /\ idle \in BOOLEAN
  /\ closing \in {"none", "started", "worker", "done"}
  /\ conn \in {"none", "open", "dead"}
  /\ served \subseteq Keys
  /\ losses \in 0..MaxLosses
  /\ failures \in 0..MaxFailures

\* The worker that does not exist yet is one that waits.
Init ==
  /\ creator = [k \in Keys |-> NoListener]
  /\ listeners = [k \in Keys |-> {}]
  /\ ready = [k \in Keys |-> FALSE]
  /\ accepted = [k \in Keys |-> FALSE]
  /\ phase = [l \in Listeners |-> "new"]
  /\ active = {}
  /\ awaits = [l \in Listeners |-> {}]
  /\ raised = {}
  /\ ops = <<>>
  /\ wake = FALSE
  /\ pc = "wait"
  /\ batch = NoBatch
  /\ reply = NoReply
  /\ authenticated = FALSE
  /\ lost = "none"
  /\ idle = FALSE
  /\ closing = "none"
  /\ conn = "none"
  /\ served = {}
  /\ losses = 0
  /\ failures = 0

-----------------------------------------------------------------------------
(* Keys, listeners and the queue of operations.                             *)

closed == closing # "none"

\* The worker has reached an await, so others may run.
AtAwait == pc \notin {"top", "resumed"}

Known == {k \in Keys : creator[k] # NoListener}
StatesOf(keys) == {<<k, creator[k]>> : k \in keys}

\* The keys of those states that still are the session's own.
CurrentKeys(states) == {k \in Known : <<k, creator[k]>> \in states}

\* _enqueue: adjacent operations of one kind are coalesced.
Enqueue(op, states) ==
  IF states = {}
  THEN UNCHANGED queueVars
  ELSE /\ ops' = IF ops # <<>> /\ Last(ops).op = op
                 THEN [ops EXCEPT ![Len(ops)].states = @ \cup states]
                 ELSE Append(ops, [op |-> op, states |-> states])
       /\ wake' = TRUE

\* Mutant: the first listener that leaves takes the key with it.
AbandonedByAny(leaving) == {k \in Known : listeners[k] \cap leaving # {}}

\* Keys that go when these listeners leave.
Abandoned(leaving) == {k \in Known : listeners[k] \subseteq leaving}

\* The listeners that a rejection of these keys ends.
Fanout(keys) == UNION {listeners[k] : k \in keys}

\* Mutant: a key goes without failing its acceptance.
RaisedByNone(gone) == raised

\* Subscribes whose acceptance fails with these keys.
RaisedBy(gone) == raised \cup {l \in Listeners : awaits[l] \cap gone # {}}

\* Mutant: the last key goes without starting the timer.
TimerUnset(gone) == idle

\* _schedule_idle: the timer runs once the last key is gone.
TimerAfter(gone) == idle \/ (Known \subseteq gone /\ ~closed)

\* add() cancels the timer.
TimerOnAdd == FALSE

\* These handles are released: a key without listeners is deleted, a pending
\* acceptance of it fails, and the idle timer starts with the last key.
Leave(leaving) ==
  LET gone == Abandoned(leaving) IN
  /\ creator' = [k \in Keys |-> IF k \in gone THEN NoListener ELSE creator[k]]
  /\ listeners' = [k \in Keys |-> listeners[k] \ leaving]
  /\ active' = active \ leaving
  /\ raised' = RaisedBy(gone)
  /\ idle' = TimerAfter(gone)

\* What becomes of the states: those kept are accepted, those gone forgotten.
Settle(kept, gone) ==
  /\ ready' = [k \in Keys |-> (ready[k] \/ k \in kept) /\ k \notin gone]
  /\ accepted' = [k \in Keys |-> (accepted[k] \/ k \in kept) /\ k \notin gone]

\* Without a connection there is nothing to unsubscribe from.
QueueUnsubscribe(keys) ==
  IF authenticated THEN Enqueue("unsubscribe", StatesOf(keys)) ELSE UNCHANGED queueVars

\* release() of each of these handles.
ReleaseAll(leaving) ==
  /\ Leave(leaving)
  /\ Settle({}, Abandoned(leaving))
  /\ QueueUnsubscribe(Abandoned(leaving))

\* _reject(every state, unsubscribe=False).
RejectAll ==
  /\ Leave(Fanout(Known))
  /\ Settle({}, Known)
  /\ UNCHANGED queueVars

StartClose == closing' = IF closed THEN closing ELSE "started"

\* _reset: acceptances start over.
Reset ==
  /\ authenticated' = FALSE
  /\ ops' = <<>>
  /\ ready' = [k \in Keys |-> FALSE]

\* _recover: forget the loss, close the connection and back off.
Recover(then) ==
  /\ Reset
  /\ lost' = "none"
  /\ conn' = "none"
  /\ served' = {}
  /\ pc' = then
  /\ batch' = NoBatch
  /\ reply' = NoReply

Forget == batch' = NoBatch /\ reply' = NoReply

-----------------------------------------------------------------------------
(* The manager's side: subscribe(), the close of a handle and close().      *)

\* add() of every key: new keys are queued at once if there is a connection.
Subscribe(l) ==
  LET new == Wants[l] \ Known IN
  /\ AtAwait
  /\ phase[l] = "new"
  /\ ~closed
  /\ phase' = [phase EXCEPT ![l] = "waiting"]
  /\ active' = active \cup {l}
  /\ creator' = [k \in Keys |-> IF k \in new THEN l ELSE creator[k]]
  /\ listeners' = [k \in Keys |-> IF k \in Wants[l] THEN listeners[k] \cup {l}
                                                     ELSE listeners[k]]
  /\ awaits' = [awaits EXCEPT ![l] = {k \in Wants[l] : ~ready[k]}]
  /\ idle' = TimerOnAdd
  /\ IF authenticated /\ new # {} THEN Enqueue("subscribe", new \X {l})
                                  ELSE wake' = TRUE /\ UNCHANGED ops
  /\ UNCHANGED <<stateVars, raised, pc, requestVars, linkVars, closing, connVars,
                 budgetVars>>

SubscribeReturns(l) ==
  /\ AtAwait
  /\ phase[l] = "waiting"
  /\ awaits[l] = {}
  /\ l \notin raised
  /\ phase' = [phase EXCEPT ![l] = "live"]
  /\ UNCHANGED <<keyVars, stateVars, awaits, queueVars, pc, requestVars, linkVars, closing,
                 connVars, budgetVars>>

Release(l, after) ==
  /\ AtAwait
  /\ phase' = [phase EXCEPT ![l] = after]
  /\ awaits' = [awaits EXCEPT ![l] = {}]
  /\ IF l \in active THEN ReleaseAll({l})
                     ELSE UNCHANGED <<keyVars, stateVars, queueVars>>
  /\ UNCHANGED <<pc, requestVars, linkVars, closing, connVars, budgetVars>>

\* An acceptance failed: every key the subscribe() has registered is released.
SubscribeFails(l) ==
  /\ phase[l] = "waiting"
  /\ l \in raised
  /\ Release(l, "failed")

\* The acceptance timeout, or the user, gives up.
SubscribeGivesUp(l) ==
  /\ phase[l] = "waiting"
  /\ awaits[l] # {}
  /\ Release(l, "failed")

CloseHandle(l) ==
  /\ phase[l] = "live"
  /\ Release(l, "closed")

\* The manager closes: its handles, then the session.
ManagerCloses ==
  /\ AtAwait
  /\ ~closed
  /\ ReleaseAll(active)
  /\ phase' = [l \in Listeners |-> IF phase[l] = "live" THEN "closed" ELSE phase[l]]
  /\ StartClose
  /\ UNCHANGED <<awaits, pc, requestVars, linkVars, connVars, budgetVars>>

IdleFires ==
  /\ AtAwait
  /\ idle
  /\ ~closed
  /\ StartClose
  /\ UNCHANGED <<keyVars, stateVars, userVars, queueVars, pc, requestVars, linkVars,
                 connVars, budgetVars>>

\* Mutant: the worker is left to notice that the session is closed.
ShutdownForgetsWorker ==
  /\ AtAwait
  /\ closing = "started"
  /\ closing' = "worker"
  /\ idle' = FALSE
  /\ UNCHANGED <<creator, listeners, active, raised, stateVars, userVars, queueVars, pc,
                 requestVars, linkVars, connVars, budgetVars>>

\* _shutdown up to `await worker`: the worker is cancelled wherever it is.
ShutdownBegins ==
  /\ AtAwait
  /\ closing = "started"
  /\ closing' = "worker"
  /\ idle' = FALSE
  /\ pc' = "done"
  /\ Forget
  /\ UNCHANGED <<creator, listeners, active, raised, stateVars, userVars, queueVars,
                 linkVars, connVars, budgetVars>>

\* The rest of _shutdown.
ShutdownEnds ==
  /\ AtAwait
  /\ closing = "worker"
  /\ closing' = "done"
  /\ Leave(Fanout(Known))
  /\ Settle({}, Known)
  /\ ops' = <<>>
  /\ conn' = "none"
  /\ served' = {}
  /\ UNCHANGED <<userVars, wake, pc, requestVars, linkVars, budgetVars>>

-----------------------------------------------------------------------------
(* The server and the network.                                              *)

Fail == failures < MaxFailures /\ failures' = failures + 1

Asked == {state[1] : state \in batch.states}

\* The server applies any part of an operation.  Its answers name the items
\* it refused, or refuse the request whatever part of it took effect.
ServerAnswers ==
  /\ pc \in {"authorizing", "changing"}
  /\ conn = "open"
  /\ reply = NoReply
  /\ \E applied \in SUBSET Asked :
       /\ served' = IF batch.op = "subscribe" THEN served \cup applied ELSE served \ applied
       /\ \/ /\ applied = Asked
             /\ reply' = [kind |-> "ok", rejected |-> {}]
             /\ UNCHANGED failures
          \/ /\ applied # Asked
             /\ reply' = [kind |-> "ok", rejected |-> Asked \ applied]
             /\ Fail
          \/ /\ reply' = [kind |-> "error", rejected |-> {}]
             /\ Fail
  /\ UNCHANGED <<keyVars, stateVars, userVars, queueVars, pc, batch, linkVars, closing, conn,
                 losses>>

\* _disconnected: a loss is reported, unless the session is closed.
ConnectionLost ==
  /\ AtAwait
  /\ conn = "open"
  /\ losses < MaxLosses
  /\ losses' = losses + 1
  /\ conn' = "dead"
  /\ served' = {}
  /\ IF closed
     THEN UNCHANGED <<ready, queueVars, linkVars>>
     ELSE /\ lost' \in {"transient", "terminal"}
          /\ Reset
          /\ wake' = TRUE
  /\ UNCHANGED <<keyVars, accepted, userVars, pc, requestVars, closing, failures>>

-----------------------------------------------------------------------------
(* The worker.                                                              *)

\* The head of the loop.  After a recovery at the head and after the
\* authorization the worker goes on without looking at `closed`.
LoopHead ==
  /\ pc \in {"top", "resumed"}
  /\ \/ /\ pc = "top" /\ closed
        /\ pc' = "done"
        /\ UNCHANGED <<keyVars, stateVars, queueVars, requestVars, linkVars, closing, connVars>>
     \/ /\ pc = "top" /\ ~closed /\ lost = "terminal"
        /\ RejectAll
        /\ StartClose
        /\ pc' = "done"
        /\ UNCHANGED <<requestVars, linkVars, connVars>>
     \/ /\ pc = "top" /\ ~closed /\ lost = "transient"
        /\ Recover("recovering")
        /\ UNCHANGED <<keyVars, accepted, wake, closing>>
     \/ /\ pc = "resumed" \/ (~closed /\ lost = "none")
        /\ \/ /\ Known = {} \/ authenticated
              /\ ops = <<>>
              /\ wake' = FALSE
              /\ pc' = "wait"
           \/ /\ Known # {} \/ ops # <<>>
              /\ ~authenticated
              /\ pc' = "opening"
              /\ UNCHANGED wake
           \/ /\ authenticated /\ ops # <<>>
              /\ pc' = "pause"
              /\ UNCHANGED wake
        /\ UNCHANGED <<keyVars, stateVars, ops, requestVars, linkVars, closing, connVars>>
  /\ UNCHANGED <<userVars, budgetVars>>

WorkerGoes(from, to) ==
  /\ pc = from
  /\ pc' = to
  /\ UNCHANGED <<keyVars, stateVars, userVars, queueVars, requestVars, linkVars, closing,
                 connVars, budgetVars>>

WorkerWakes == wake /\ WorkerGoes("wait", "top")

RecoverEnds == WorkerGoes("recovering", "resumed") \/ WorkerGoes("retrying", "top")

Opened ==
  /\ pc = "opening"
  /\ conn' = "open"
  /\ pc' = "authorizing"
  /\ UNCHANGED <<keyVars, stateVars, userVars, queueVars, requestVars, linkVars, closing,
                 served, budgetVars>>

\* Mutant: a failed handshake rejects every key.
AcceptedOrNot == Known

\* Keys that no connection ever accepted.
NeverAccepted == {k \in Known : ~accepted[k]}

\* Keys that were accepted wait for the next connection.
OpenFails ==
  LET leaving == Fanout(NeverAccepted) IN
  /\ pc = "opening"
  /\ Fail
  /\ Leave(leaving)
  /\ accepted' = [k \in Keys |-> accepted[k] /\ k \notin Abandoned(leaving)]
  /\ Recover("retrying")
  /\ UNCHANGED <<userVars, wake, closing, losses>>

\* Every key that is known by now is subscribed.
Authorized ==
  /\ pc = "authorizing"
  /\ reply.kind = "ok"
  /\ IF lost = "none"
     THEN /\ authenticated' = TRUE
          /\ Enqueue("subscribe", StatesOf(Known))
          /\ pc' = "resumed"
     ELSE /\ pc' = "top"
          /\ UNCHANGED <<authenticated, queueVars>>
  /\ Forget
  /\ UNCHANGED <<keyVars, stateVars, userVars, lost, closing, connVars, budgetVars>>

\* A rejection closes the session, unless the authorization is unavailable.
AuthorizationRejected ==
  /\ pc = "authorizing"
  /\ reply.kind = "error"
  /\ \/ /\ RejectAll
        /\ StartClose
        /\ pc' = "done"
        /\ Forget
        /\ UNCHANGED <<linkVars, connVars>>
     \/ /\ Recover("retrying")
        /\ UNCHANGED <<keyVars, accepted, wake, closing>>
  /\ UNCHANGED <<userVars, budgetVars>>

\* A timeout or a failed send recovers at once; a reported loss is for the
\* head of the loop.
RequestFails ==
  /\ pc \in {"authorizing", "changing"}
  /\ reply = NoReply
  /\ \/ /\ lost = "none"
        /\ Fail \/ (conn = "dead" /\ UNCHANGED failures)
        /\ Recover("retrying")
        /\ UNCHANGED <<keyVars, accepted, wake, closing>>
     \/ /\ lost # "none"
        /\ pc' = "top"
        /\ Forget
        /\ UNCHANGED <<keyVars, stateVars, queueVars, linkVars, closing, connVars, failures>>
  /\ UNCHANGED <<userVars, losses>>

\* A subscribe leaves out the states that are gone.
Batch(operation) ==
  IF operation.op = "unsubscribe" THEN operation.states
                                  ELSE StatesOf(CurrentKeys(operation.states))

PauseEnds ==
  /\ pc = "pause"
  /\ IF lost # "none" \/ ops = <<>>
     THEN /\ pc' = "top"
          /\ UNCHANGED <<ops, batch>>
     ELSE /\ ops' = Tail(ops)
          /\ LET states == Batch(Head(ops)) IN
               IF states = {}
               THEN pc' = "top" /\ UNCHANGED batch
               ELSE pc' = "changing" /\ batch' = [op |-> Head(ops).op, states |-> states]
  /\ UNCHANGED <<keyVars, stateVars, userVars, wake, reply, linkVars, closing, connVars,
                 budgetVars>>

\* Mutant: an acknowledgement settles its keys whatever became of their states.
SubscribedBlindly ==
  LET kept == Asked \ reply.rejected IN
  /\ Settle(kept, {})
  /\ awaits' = [l \in Listeners |-> awaits[l] \ kept]
  /\ UNCHANGED <<keyVars, queueVars>>

\* Of these rejected keys, in some order, those whose listeners an earlier
\* rejection has not ended: the others were released, and so unsubscribed.
FirstRejected(rejected) ==
  {first \in SUBSET rejected :
     /\ rejected \ first \subseteq Abandoned(Fanout(first))
     /\ \E order \in SetToSeqs(first) : \A i \in DOMAIN order :
          order[i] \notin Abandoned(Fanout({order[j] : j \in 1..(i - 1)}))}

\* The answer to a subscribe.  A rejected key ends its listeners, which
\* abandon their other keys; what the session still has is accepted.
Subscribed ==
  LET current == CurrentKeys(batch.states)
      rejected == current \cap reply.rejected
      gone == Abandoned(Fanout(rejected))
      kept == current \ gone
  IN
  /\ Leave(Fanout(rejected))
  /\ Settle(kept, gone)
  /\ awaits' = [l \in Listeners |-> awaits[l] \ kept]
  /\ \E first \in FirstRejected(rejected) : QueueUnsubscribe(gone \ first)

\* An answer to subscribe or unsubscribe.
Changed ==
  /\ pc = "changing"
  /\ reply.kind = "ok"
  /\ \/ /\ lost # "none" \/ (batch.op = "unsubscribe" /\ reply.rejected = {})
        /\ pc' = "top"
        /\ Forget
        /\ UNCHANGED <<keyVars, stateVars, awaits, queueVars, linkVars, connVars>>
     \/ /\ lost = "none" /\ batch.op = "unsubscribe" /\ reply.rejected # {}
        /\ Recover("retrying")
        /\ UNCHANGED <<keyVars, accepted, awaits, wake>>
     \/ /\ lost = "none" /\ batch.op = "subscribe"
        /\ Subscribed
        /\ pc' = "top"
        /\ Forget
        /\ UNCHANGED <<linkVars, connVars>>
  /\ UNCHANGED <<phase, closing, budgetVars>>

\* Mutant: a refused subscribe is taken to have had no effect.
RefusedInFull(current) ==
  /\ Leave(Fanout(current))
  /\ Settle({}, Abandoned(Fanout(current)))
  /\ QueueUnsubscribe(Abandoned(Fanout(current)) \ current)

\* Mutant: the refused keys go, and their listeners keep the others.
RefusedKeysOnly(current) ==
  /\ creator' = [k \in Keys |-> IF k \in current THEN NoListener ELSE creator[k]]
  /\ listeners' = [k \in Keys |-> IF k \in current THEN {} ELSE listeners[k]]
  /\ raised' = RaisedBy(current)
  /\ idle' = TimerAfter(current)
  /\ Settle({}, current)
  /\ QueueUnsubscribe(current)
  /\ UNCHANGED active

\* _reject(batch): part of what was refused may be streamed all the same.
Refused(current) ==
  /\ Leave(Fanout(current))
  /\ Settle({}, Abandoned(Fanout(current)))
  /\ QueueUnsubscribe(Abandoned(Fanout(current)))

ChangeRefused ==
  /\ pc = "changing"
  /\ reply.kind = "error"
  /\ \/ /\ batch.op = "subscribe"
        /\ Refused(CurrentKeys(batch.states))
        /\ pc' = "top"
        /\ Forget
        /\ UNCHANGED <<linkVars, connVars>>
     \/ /\ batch.op = "unsubscribe"
        /\ Recover("retrying")
        /\ UNCHANGED <<keyVars, accepted, wake>>
  /\ UNCHANGED <<userVars, closing, budgetVars>>

-----------------------------------------------------------------------------

Worker ==
  \/ WorkerWakes \/ RecoverEnds \/ Opened \/ OpenFails
  \/ Authorized \/ AuthorizationRejected \/ RequestFails
  \/ PauseEnds \/ Changed \/ ChangeRefused

User(l) ==
  \/ Subscribe(l) \/ SubscribeReturns(l) \/ SubscribeFails(l)
  \/ SubscribeGivesUp(l) \/ CloseHandle(l)

Next ==
  \/ LoopHead \/ Worker
  \/ ServerAnswers \/ ConnectionLost
  \/ \E l \in Listeners : User(l)
  \/ ManagerCloses \/ IdleFires \/ ShutdownBegins \/ ShutdownEnds

\* Tasks that are ready run, timers fire, and the server answers in the end.
\* Users, losses and failures are free.
Fairness ==
  /\ WF_vars(LoopHead)
  /\ WF_vars(WorkerWakes) /\ WF_vars(RecoverEnds) /\ WF_vars(Opened)
  /\ WF_vars(Authorized) /\ WF_vars(AuthorizationRejected)
  /\ WF_vars(RequestFails /\ (lost # "none" \/ conn = "dead"))
  /\ WF_vars(PauseEnds) /\ WF_vars(Changed) /\ WF_vars(ChangeRefused)
  /\ WF_vars(ServerAnswers)
  /\ WF_vars(IdleFires) /\ WF_vars(ShutdownBegins) /\ WF_vars(ShutdownEnds)
  /\ \A l \in Listeners : WF_vars(SubscribeReturns(l)) /\ WF_vars(SubscribeFails(l))

Spec == Init /\ [][Next]_vars
FairSpec == Spec /\ Fairness

-----------------------------------------------------------------------------
(* Properties.                                                              *)

\* A worker with nothing left to send has told the server everything: it
\* streams the keys that have listeners and no other, whatever was added,
\* removed, added again, refused or half applied on the way.
ServerFollowsKeys ==
  (pc = "wait" /\ authenticated /\ ops = <<>> /\ ~closed) => served = Known

\* While the connection lasts, a key whose acceptance is set is streamed: no
\* acknowledgement is taken for a later subscription of the same key.
AcceptedIsServed ==
  \A k \in Keys : (ready[k] /\ authenticated /\ conn = "open") => (k \in Known /\ k \in served)

\* A handle that is neither ended nor released is attached to each of its
\* keys, so no rejection leaves it with a part of what it asked for.
HandlesAreWhole ==
  \A l \in active : \A k \in Wants[l] : l \in listeners[k]

\* Once close() is over nothing is left: no key, no handle that waits for
\* events, no worker, no connection.
CloseIsComplete ==
  closing = "done" => Known = {} /\ active = {} /\ pc = "done" /\ conn = "none"

\* A reconnect that fails ends the subscribes that still wait, and no handle
\* that a user has already been given.
LiveHandlesSurviveReconnects ==
  [][pc = "opening" /\ pc' = "retrying"
       => \A l \in active : phase[l] = "live" => l \in active']_vars

\* Every subscribe() ends, with its keys accepted or with an error, without
\* recourse to its own timeout.
SubscribesEnd ==
  \A l \in Listeners : (phase[l] = "waiting") ~> (phase[l] # "waiting")

\* A session that nobody uses any more closes, unless somebody comes back.
UnusedSessionsClose ==
  (Known = {} /\ \E l \in Listeners : phase[l] # "new") ~> (Known # {} \/ closing = "done")

=============================================================================
