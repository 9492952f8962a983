---------------------------- MODULE StreamManager ----------------------------
(***************************************************************************)
(* The stream managers (_internal/streams/clob/market.py and user.py; the   *)
(* RTDS and perps managers follow market.py step for step): many            *)
(* subscriptions multiplexed onto one websocket, with the registry, the     *)
(* ReconnectScheduler and the connection they own.                          *)
(*                                                                          *)
(* subscribe(), a handle's close() and the scheduler's _reconnect() run     *)
(* under one FIFO lock (self._send_lock); the manager's close() does not.   *)
(* The connection has two callers: the task that holds the lock, and the    *)
(* manager's close().  A frame reaches the server when it is sent: a frame  *)
(* lost in flight is lost with its socket.                                  *)
(***************************************************************************)
EXTENDS WsConnection, Sequences

CONSTANTS
  Handles,         \* subscriptions users may make
  Topics,          \* token ids, markets or channels
  Wants,           \* topics each subscription asks for
  Authenticated,   \* the managers considered: TRUE user.py, FALSE market.py
  Hazards,         \* events subscribe() does not survive, to be explored
  MaxLosses,       \* sockets the peer or the network may close
  MaxFailures      \* dials and credential lookups that may fail

ASSUME CallersAssumption == Callers = {"holder", "closer"}
ASSUME WantsAssumption == Wants \in [Handles -> SUBSET Topics \ {{}}]
ASSUME AuthenticatedAssumption == Authenticated \subseteq BOOLEAN
ASSUME HazardsAssumption == Hazards \subseteq {"redial", "credentials", "late"}
ASSUME BoundsAssumption == MaxLosses \in Nat /\ MaxFailures \in Nat

VARIABLES
  auth,      \* the manager resolves credentials before its initial frame
  lock,      \* holder of _send_lock
  waiting,   \* tasks awaiting _send_lock, in order
  phase,     \* what the user of each handle sees
  ended,     \* handles whose iteration is over (handle._ended)
  registry,  \* handles in the SubscriptionRegistry
  snapshot,  \* subscribe()'s local "after"
  resolving, \* the lock holder awaits resolve_credentials()
  timer,     \* the scheduler's _timer slot is taken
  closed,    \* manager._closed, and the scheduler's _stopped set with it
  closer,    \* progress of the manager's close()
  served,    \* topics the server streams on the current socket
  losses, failures

mgrVars == <<auth, lock, waiting, phase, ended, registry, snapshot, resolving,
             timer, closed, closer, served, losses, failures>>
vars == <<connVars, mgrVars>>

NoTask == [op |-> "none"]
Reconnect == [op |-> "reconnect"]
SubscribeTask(h) == [op |-> "subscribe", handle |-> h]
CloseTask(h) == [op |-> "close", handle |-> h]
Tasks == {Reconnect} \cup {SubscribeTask(h) : h \in Handles}
                     \cup {CloseTask(h) : h \in Handles}

MgrTypeOK ==
  /\ auth \in BOOLEAN
  /\ lock \in Tasks \cup {NoTask}
  /\ waiting \in Seq(Tasks)
  /\ phase \in [Handles -> {"new", "subscribing", "live", "failed",
                            "closing", "closed"}]
  /\ ended \subseteq Handles
  /\ registry \subseteq Handles
  /\ snapshot \subseteq Topics
  /\ resolving \in BOOLEAN
  /\ timer \in BOOLEAN
  /\ closed \in BOOLEAN
  /\ closer \in {"idle", "stopping", "waiting", "done"}
  /\ served \subseteq Topics
  /\ losses \in 0..MaxLosses
  /\ failures \in 0..MaxFailures

\* Every variable has its type: a task holds the lock or waits for it, the
\* registry and the handles are those of the manager.
TypeOK == ConnTypeOK /\ MgrTypeOK

Init ==
  /\ ConnInit
  /\ auth \in Authenticated
  /\ lock = NoTask
  /\ waiting = <<>>
  /\ phase = [h \in Handles |-> "new"]
  /\ ended = {}
  /\ registry = {}
  /\ snapshot = {}
  /\ resolving = FALSE
  /\ timer = FALSE
  /\ closed = FALSE
  /\ closer = "idle"
  /\ served = {}
  /\ losses = 0
  /\ failures = 0

\* Mutant: the diff unsubscribes from topics other subscriptions still need.
RemovedAll(before, after) == before

\* diff_state_frames(): the topics to subscribe to and to unsubscribe from.
Added(before, after) == after \ before
Removed(before, after) == before \ after

\* registry.server_state(): the topics all subscriptions of a registry need.
Derived(handles) == UNION {Wants[h] : h \in handles}

ShouldReconnect == ~closed /\ registry # {}

\* scheduler.schedule(): one timer at most, none for a stopped scheduler.
Schedule == timer' = (timer \/ ShouldReconnect)

LockFree == lock = NoTask /\ waiting = <<>>
Release == lock' = NoTask /\ snapshot' = {} /\ resolving' = FALSE

Enqueue(task) == waiting' = Append(waiting, task) /\ UNCHANGED lock

-----------------------------------------------------------------------------
(* subscribe().  The checks precede the lock; the rest runs under it.       *)

\* Under the lock: register, then connect.  On an open socket only the topics
\* that are new to the registry are sent.
RunSubscribe(h) ==
  LET before == Derived(registry)
      after == Derived(registry \cup {h})
  IN
  /\ registry' = registry \cup {h}
  /\ \/ /\ IsOpen
        /\ served' = served \cup Added(before, after)
        /\ phase' = [phase EXCEPT ![h] = "live"]
        /\ Release
        /\ UNCHANGED connVars
     \/ /\ ConnectStale("holder") \/ ConnectDial("holder")
        /\ lock' = SubscribeTask(h)
        /\ snapshot' = after
        /\ phase' = [phase EXCEPT ![h] = "subscribing"]
        /\ UNCHANGED <<served, resolving>>
  /\ UNCHANGED <<auth, ended, timer, closed, closer, losses, failures>>

Subscribe(h) ==
  /\ phase[h] = "new"
  /\ ~closed
  /\ \/ /\ LockFree
        /\ RunSubscribe(h)
        /\ UNCHANGED waiting
     \/ /\ ~LockFree
        /\ Enqueue(SubscribeTask(h))
        /\ phase' = [phase EXCEPT ![h] = "subscribing"]
        /\ UNCHANGED <<connVars, auth, ended, registry, snapshot, resolving,
                       timer, closed, closer, served, losses, failures>>

\* A fresh socket: the pending reconnect is obsolete and the whole state is
\* sent, after the credentials were looked up when the stream needs them.
SubscribeDialed(s) ==
  /\ lock.op = "subscribe"
  /\ call["holder"] = "dial"
  /\ DialOk(s, {})
  /\ timer' = FALSE
  /\ \/ /\ auth
        /\ resolving' = TRUE
        /\ served' = {}
        /\ UNCHANGED <<lock, snapshot, phase>>
     \/ /\ ~auth
        /\ served' = snapshot
        /\ phase' = [phase EXCEPT ![lock.handle] = "live"]
        /\ Release
  /\ UNCHANGED <<auth, waiting, ended, registry, closed, closer, losses, failures>>

\* The rollback of a failed subscribe() removes and ends its own handle.
Rollback(h) ==
  /\ registry' = registry \ {h}
  /\ ended' = ended \cup {h}
  /\ phase' = [phase EXCEPT ![h] = "failed"]

Fail == failures < MaxFailures /\ failures' = failures + 1

\* A failure that strikes subscribe() while other streams are registered is
\* explored only when the configuration asks for it.
Explored(failure) == registry \subseteq {lock.handle} \/ failure \in Hazards

\* The dial failed, so there is no socket for the rollback to close.
SubscribeDialFails ==
  /\ lock.op = "subscribe"
  /\ call["holder"] = "dial"
  /\ dial = "redial" => Explored("redial")
  /\ Fail
  /\ DialFail
  /\ Rollback(lock.handle)
  /\ Release
  /\ UNCHANGED <<auth, waiting, timer, closed, closer, served, losses>>

SubscribeResolved ==
  /\ lock.op = "subscribe"
  /\ resolving
  /\ served' = IF IsOpen THEN snapshot ELSE served
  /\ phase' = [phase EXCEPT ![lock.handle] = "live"]
  /\ Release
  /\ UNCHANGED <<connVars, auth, waiting, ended, registry, timer, closed, closer,
                 losses, failures>>

\* The rollback closes the socket when no stream is left on it.
SubscribeUnresolved ==
  /\ lock.op = "subscribe"
  /\ resolving
  /\ Explored("credentials")
  /\ Fail
  /\ Rollback(lock.handle)
  /\ IF registry' = {} /\ IsOpen
     THEN /\ timer' = FALSE
          /\ CloseCall("holder")
          /\ resolving' = FALSE
          /\ UNCHANGED <<lock, snapshot>>
     ELSE Release /\ UNCHANGED <<connVars, timer>>
  /\ UNCHANGED <<auth, waiting, closed, closer, served, losses>>

-----------------------------------------------------------------------------
(* A handle's close(), concurrent calls of which share one task.            *)

\* _on_handle_close under the lock: the last handle takes the socket with it,
\* another unsubscribes from the topics nobody needs any more.
RunClose(h) ==
  LET before == Derived(registry)
      after == Derived(registry \ {h})
      terminal == /\ phase' = [phase EXCEPT ![h] = "closed"]
                  /\ ended' = ended \cup {h}
                  /\ Release
  IN
  /\ registry' = registry \ {h}
  /\ \/ /\ h \notin registry
        /\ terminal
        /\ UNCHANGED <<connVars, timer, served>>
     \/ /\ registry = {h}
        /\ timer' = FALSE
        /\ CloseCall("holder")
        /\ lock' = CloseTask(h)
        /\ phase' = [phase EXCEPT ![h] = "closing"]
        /\ UNCHANGED <<ended, served, snapshot, resolving>>
     \/ /\ h \in registry /\ registry # {h}
        /\ served' = IF IsOpen THEN served \ Removed(before, after) ELSE served
        /\ terminal
        /\ UNCHANGED <<connVars, timer>>
  /\ UNCHANGED <<auth, closed, closer, losses, failures>>

CloseHandle(h) ==
  /\ phase[h] = "live"
  /\ \/ /\ LockFree
        /\ RunClose(h)
        /\ UNCHANGED waiting
     \/ /\ ~LockFree
        /\ Enqueue(CloseTask(h))
        /\ phase' = [phase EXCEPT ![h] = "closing"]
        /\ UNCHANGED <<connVars, auth, ended, registry, snapshot, resolving,
                       timer, closed, closer, served, losses, failures>>

-----------------------------------------------------------------------------
(* The scheduler's timer and _reconnect().                                  *)

RunReconnect ==
  /\ \/ /\ ~ShouldReconnect \/ IsOpen
        /\ Release
        /\ UNCHANGED connVars
     \/ /\ ShouldReconnect
        /\ ConnectStale("holder") \/ ConnectDial("holder")
        /\ lock' = Reconnect
        /\ UNCHANGED <<snapshot, resolving>>
  /\ UNCHANGED <<auth, phase, ended, registry, closed, closer, served, losses,
                 failures>>

TimerFires ==
  /\ timer
  /\ timer' = FALSE
  /\ \/ /\ ~ShouldReconnect
        /\ UNCHANGED <<connVars, auth, lock, waiting, phase, ended, registry, snapshot,
                       resolving, closed, closer, served, losses, failures>>
     \/ /\ ShouldReconnect /\ LockFree
        /\ RunReconnect
        /\ UNCHANGED waiting
     \/ /\ ShouldReconnect /\ ~LockFree
        /\ Enqueue(Reconnect)
        /\ UNCHANGED <<connVars, auth, phase, ended, registry, snapshot, resolving,
                       closed, closer, served, losses, failures>>

\* Mutant: close() racing past the guard before the dial goes unnoticed.
ReconnectDialedUnchecked(s) ==
  /\ lock = Reconnect
  /\ call["holder"] = "dial"
  /\ DialOk(s, {})
  /\ \/ /\ auth
        /\ served' = {}
        /\ resolving' = TRUE
        /\ UNCHANGED <<lock, snapshot>>
     \/ /\ ~auth
        /\ served' = Derived(registry)
        /\ Release
  /\ UNCHANGED <<auth, waiting, phase, ended, registry, timer, closed, closer,
                 losses, failures>>

\* The socket is open again: replay the registry, unless close() raced past.
ReconnectDialed(s) ==
  /\ lock = Reconnect
  /\ call["holder"] = "dial"
  /\ DialOk(s, IF closed THEN {"holder"} ELSE {})
  /\ \/ /\ closed
        /\ served' = {}
        /\ UNCHANGED <<lock, snapshot, resolving>>
     \/ /\ ~closed /\ auth
        /\ served' = {}
        /\ resolving' = TRUE
        /\ UNCHANGED <<lock, snapshot>>
     \/ /\ ~closed /\ ~auth
        /\ served' = Derived(registry)
        /\ Release
  /\ UNCHANGED <<auth, waiting, phase, ended, registry, timer, closed, closer,
                 losses, failures>>

\* Mutant: a failed dial is the last one.
ReconnectGivesUp ==
  /\ lock = Reconnect
  /\ call["holder"] = "dial"
  /\ Fail
  /\ DialFail
  /\ Release
  /\ UNCHANGED <<auth, waiting, phase, ended, registry, timer, closed, closer, served,
                 losses>>

ReconnectDialFails ==
  /\ lock = Reconnect
  /\ call["holder"] = "dial"
  /\ Fail
  /\ DialFail
  /\ Schedule
  /\ Release
  /\ UNCHANGED <<auth, waiting, phase, ended, registry, closed, closer, served,
                 losses>>

ReconnectResolved ==
  /\ lock = Reconnect
  /\ resolving
  /\ served' = IF IsOpen THEN Derived(registry) ELSE served
  /\ Release
  /\ UNCHANGED <<connVars, auth, waiting, phase, ended, registry, timer, closed,
                 closer, losses, failures>>

\* Mutant: try again on the socket that never sent its initial frame.
ReconnectKeepsSocket ==
  /\ lock = Reconnect
  /\ resolving
  /\ Fail
  /\ Schedule
  /\ Release
  /\ UNCHANGED <<connVars, auth, waiting, phase, ended, registry, closed, closer,
                 served, losses>>

\* Without credentials the fresh socket is useless: close it and try again.
ReconnectUnresolved ==
  /\ lock = Reconnect
  /\ resolving
  /\ Fail
  /\ CloseCall("holder")
  /\ resolving' = FALSE
  /\ UNCHANGED <<auth, lock, waiting, phase, ended, registry, snapshot, timer, closed,
                 closer, served, losses>>

-----------------------------------------------------------------------------
(* The lock passes to the task that has waited longest.                     *)

Acquire ==
  /\ lock = NoTask
  /\ waiting # <<>>
  /\ waiting' = Tail(waiting)
  /\ LET task == Head(waiting) IN
     \/ task.op = "subscribe" /\ RunSubscribe(task.handle)
     \/ task.op = "close" /\ RunClose(task.handle)
     \/ task.op = "reconnect" /\ RunReconnect /\ UNCHANGED timer

-----------------------------------------------------------------------------
(* The manager's close(): stop the scheduler, end every handle, close the   *)
(* connection.  Only a running timer makes the first step await.            *)

\* Mutant: the registry is cleared before its handles are ended.
ForgetAll ==
  /\ registry' = {}
  /\ CloseCall("closer")
  /\ closer' = "waiting"
  /\ UNCHANGED ended

EndAll ==
  /\ ended' = ended \cup registry
  /\ registry' = {}
  /\ CloseCall("closer")
  /\ closer' = "waiting"

\* A subscribe() that has checked _closed but not begun to dial: it awaits the
\* lock, or the shutdown of a stale socket.
SubscribeUnderWay ==
  \/ \E i \in DOMAIN waiting : waiting[i].op = "subscribe"
  \/ lock.op = "subscribe" /\ call["holder"] = "stale"

ManagerClose ==
  /\ ~closed
  /\ SubscribeUnderWay => "late" \in Hazards
  /\ closed' = TRUE
  /\ timer' = FALSE
  /\ IF timer
     THEN closer' = "stopping" /\ UNCHANGED <<connVars, ended, registry>>
     ELSE EndAll
  /\ UNCHANGED <<auth, lock, waiting, phase, snapshot, resolving, served, losses,
                 failures>>

ManagerEndsHandles ==
  /\ closer = "stopping"
  /\ EndAll
  /\ UNCHANGED <<auth, lock, waiting, phase, snapshot, resolving, timer, closed,
                 served, losses, failures>>

\* The connection's shutdown ends and each task awaiting it goes on.
CloseReturns ==
  /\ ShutdownDone
  /\ closer' = IF call["closer"] = "close" THEN "done" ELSE closer
  /\ \/ /\ call["holder"] # "close"
        /\ UNCHANGED <<lock, phase, ended, snapshot, resolving, timer>>
     \/ /\ call["holder"] = "close"
        /\ Release
        /\ \/ /\ lock.op = "subscribe"
              /\ UNCHANGED <<phase, ended, timer>>
           \/ /\ lock.op = "close"
              /\ phase' = [phase EXCEPT ![lock.handle] = "closed"]
              /\ ended' = ended \cup {lock.handle}
              /\ UNCHANGED timer
           \/ /\ lock.op = "reconnect"
              /\ Schedule
              /\ UNCHANGED <<phase, ended>>
  /\ UNCHANGED <<auth, waiting, registry, closed, served, losses, failures>>

\* _on_socket_connection_lost.
ConnectionLost(s) ==
  /\ ReaderReportsLoss(s)
  /\ Schedule
  /\ UNCHANGED <<auth, lock, waiting, phase, ended, registry, snapshot, resolving,
                 closed, closer, served, losses, failures>>

-----------------------------------------------------------------------------
Lose(s) ==
  /\ losses < MaxLosses
  /\ losses' = losses + 1
  /\ LoseSocket(s)
  /\ UNCHANGED <<auth, lock, waiting, phase, ended, registry, snapshot, resolving,
                 timer, closed, closer, served, failures>>

\* Steps of the connection that the manager does not see.
ConnectionStep ==
  /\ \/ ShutdownClaim
     \/ \E s \in Sockets : SocketClosed(s) \/ ReaderClaims(s) \/ ReaderLeaves(s)
  /\ UNCHANGED mgrVars

UserStep ==
  \/ \E h \in Handles : Subscribe(h) \/ CloseHandle(h)
  \/ ManagerClose

DialStep ==
  \/ \E s \in Sockets : SubscribeDialed(s) \/ ReconnectDialed(s)
  \/ SubscribeDialFails
  \/ ReconnectDialFails

CredentialsStep ==
  \/ SubscribeResolved \/ SubscribeUnresolved
  \/ ReconnectResolved \/ ReconnectUnresolved

TaskStep ==
  \/ DialStep
  \/ CredentialsStep
  \/ TimerFires
  \/ Acquire
  \/ ManagerEndsHandles
  \/ CloseReturns
  \/ \E s \in Sockets : ConnectionLost(s)
  \/ ConnectionStep

Next ==
  \/ UserStep
  \/ TaskStep
  \/ \E s \in Sockets : Lose(s)

\* The event loop runs every task that can run, and a socket that is closing
\* is closed within the close timeout.  Users and the network owe nothing.
Fairness ==
  /\ WF_vars(DialStep)
  /\ WF_vars(CredentialsStep)
  /\ WF_vars(TimerFires)
  /\ WF_vars(Acquire)
  /\ WF_vars(ManagerEndsHandles)
  /\ WF_vars(CloseReturns)
  /\ WF_vars(ShutdownClaim /\ UNCHANGED mgrVars)
  /\ \A s \in Sockets : /\ WF_vars(ConnectionLost(s))
                        /\ WF_vars(SocketClosed(s) /\ UNCHANGED mgrVars)
                        /\ WF_vars(ReaderClaims(s) /\ UNCHANGED mgrVars)
                        /\ WF_vars(sock[s] = "closed" /\ ReaderLeaves(s)
                                     /\ UNCHANGED mgrVars)

Spec == Init /\ [][Next]_vars
FairSpec == Spec /\ Fairness

-----------------------------------------------------------------------------
(* Properties.                                                              *)

\* No socket is leaked: the only open websocket is the connection's own, so
\* every other one has been claimed and is being closed.
OnlyCurrentIsOpen == \A s \in Sockets : sock[s] = "open" => s = current

\* When no task is between two sends, the server streams exactly what the
\* live subscriptions need: none is missed, none is left over, whatever mix
\* of initial frames, incremental frames and reconnects led here.
ServerMatchesRegistry ==
  lock = NoTask /\ IsOpen /\ ~closed => served = Derived(registry)

\* A socket, a pending timer, a task on its way to the connection or a
\* finalizer about to report a loss: something that leads to a socket.
Recovering ==
  \/ current # NoSocket
  \/ timer
  \/ lock # NoTask
  \/ waiting # <<>>
  \/ \E s \in Sockets : reader[s] = "finalizing"

\* Registered streams never wait for a socket nobody is going to open:
\* on_connection_lost is suppressed on several paths, and each of them must
\* hand the duty to reconnect to someone else.
NoStrandedStream == ~closed /\ registry # {} => Recovering

\* A handle the user holds receives events or has ended; none is forgotten
\* outside the registry, where its consumer would wait for ever.  A closed
\* one is out of the registry.
HandlesAccountedFor ==
  /\ registry \cap ended = {}
  /\ \A h \in Handles :
       /\ phase[h] = "live" => h \in registry \cup ended
       /\ phase[h] \in {"closed", "failed"} => h \notin registry /\ h \in ended

\* Once close() returned and no task is under way there is no open socket.
CloseReleasesSocket ==
  closer = "done" /\ LockFree => \A s \in Sockets : sock[s] # "open"

\* Streams that stay registered end up on an open socket with their topics.
EventuallyServed ==
  <>[](closed \/ registry = {} \/ (IsOpen /\ Derived(registry) \subseteq served))

\* A task holds the lock or stands in line for it.
HasTask(task) == lock = task \/ \E i \in 1..Len(waiting) : waiting[i] = task

\* A call that has not returned has a task.
TaskInv ==
  \A h \in Handles : /\ phase[h] = "subscribing" => HasTask(SubscribeTask(h))
                     /\ phase[h] = "closing" => HasTask(CloseTask(h))

\* Whatever a task awaits is under way and nothing it waits for waits for it: a
\* call has its place in the line for the lock; the holder of the lock awaits
\* credentials, a dial or a shutdown; close() awaits a shutdown; and a shutdown
\* past its claim awaits a socket that is closing and a reader that is about to
\* leave.  A dial, a lookup, a closing socket and such a reader end by
\* themselves, and a shutdown before its claim awaits a dial at most.
NobodyWaitsInVain ==
  /\ TaskInv
  /\ lock # NoTask => resolving \/ dial # "idle" \/ shutdown # "idle"
  /\ closer = "waiting" => shutdown # "idle"
  /\ shutdown = "drain" =>
       /\ draining # NoSocket => sock[draining] = "closing"
       /\ drainReader # NoSocket =>
            \/ reader[drainReader] = "finalizing" /\ sock[drainReader] = "closed"
            \/ /\ reader[drainReader] = "reading" /\ drainReader # current
               /\ sock[drainReader] \in {"closing", "closed"}

\* Every call returns: tasks that await the lock, a dial, a shutdown or each
\* other never wait in a circle.
CallsReturn ==
  /\ \A h \in Handles : /\ phase[h] = "subscribing" ~> phase[h] # "subscribing"
                        /\ phase[h] = "closing" ~> phase[h] = "closed"
  /\ closed ~> closer = "done"

=============================================================================
