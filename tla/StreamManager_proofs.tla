------------------------ MODULE StreamManager_proofs ------------------------
(***************************************************************************)
(* Proofs about StreamManager, for every set of handles, topics and sockets *)
(* and every number of failures.                                            *)
(***************************************************************************)
EXTENDS StreamManager, TLAPS

-----------------------------------------------------------------------------
(* The types of the connection, whoever drives it.                          *)

\* The steps of the connection keep its types (connection.py:69-277).
LEMMA ConnTypeStep ==
  ASSUME ConnTypeOK
  PROVE  /\ \A c \in Callers : ConnectStale(c) \/ ConnectDial(c) \/ CloseCall(c)
                                 => ConnTypeOK'
         /\ \A s \in Sockets : \A closers \in SUBSET Callers :
              DialOk(s, closers) => ConnTypeOK'
         /\ DialFail \/ ShutdownClaim \/ ShutdownDone => ConnTypeOK'
         /\ UNCHANGED connVars => ConnTypeOK'
<1>1. \A c \in Callers : ConnectStale(c) \/ ConnectDial(c) \/ CloseCall(c)
                           => ConnTypeOK'
  BY DEF ConnTypeOK, ConnectStale, ConnectDial, CloseCall, StartShutdown, MaybeSocket
<1>2. ASSUME NEW s \in Sockets, NEW closers \in SUBSET Callers, DialOk(s, closers)
      PROVE  ConnTypeOK'
  BY <1>2 DEF ConnTypeOK, DialOk, StartShutdown, MaybeSocket
<1>3. DialFail => ConnTypeOK'
  BY DEF ConnTypeOK, DialFail, MaybeSocket
<1>4. ShutdownClaim => ConnTypeOK'
  BY DEF ConnTypeOK, ShutdownClaim, MaybeSocket
<1>5. ShutdownDone => ConnTypeOK'
  BY DEF ConnTypeOK, ShutdownDone, MaybeSocket
<1>6. UNCHANGED connVars => ConnTypeOK'
  BY DEF ConnTypeOK, connVars, MaybeSocket
<1> QED BY <1>1, <1>2, <1>3, <1>4, <1>5, <1>6

\* So do the steps of a socket and its reader (connection.py:155-221).
LEMMA SocketTypeStep ==
  ASSUME ConnTypeOK, NEW s \in Sockets,
         LoseSocket(s) \/ SocketClosed(s) \/ ReaderClaims(s) \/ ReaderEnds(s)
  PROVE  ConnTypeOK'
BY DEF ConnTypeOK, LoseSocket, SocketClosed, ReaderClaims, ReaderEnds, MaybeSocket

-----------------------------------------------------------------------------
(* Types.                                                                   *)

\* A task of a handle is the handle's.
LEMMA TaskShape ==
  ASSUME NEW task \in Tasks \cup {NoTask}
  PROVE  /\ task.op \in {"none", "reconnect", "subscribe", "close"}
         /\ task.op = "none" <=> task = NoTask
         /\ task.op = "reconnect" <=> task = Reconnect
         /\ task.op = "subscribe" => /\ task.handle \in Handles
                                     /\ task = SubscribeTask(task.handle)
         /\ task.op = "close" => /\ task.handle \in Handles
                                 /\ task = CloseTask(task.handle)
BY DEF Tasks, NoTask, Reconnect, SubscribeTask, CloseTask

\* What the subscriptions of some handles need is topics.
LEMMA DerivedTopics ==
  ASSUME NEW hs \in SUBSET Handles
  PROVE  Derived(hs) \in SUBSET Topics
BY WantsAssumption DEF Derived

\* The initial state is well typed.
LEMMA InitType == Init => TypeOK
<1> SUFFICES ASSUME Init PROVE TypeOK
  OBVIOUS
<1>1. ConnTypeOK
  BY DEF Init, ConnInit, ConnTypeOK, MaybeSocket
<1>2. MgrTypeOK
  <2>1. auth \in BOOLEAN /\ lock \in Tasks \cup {NoTask} /\ waiting \in Seq(Tasks)
    BY AuthenticatedAssumption DEF Init
  <2>2. /\ phase \in [Handles -> {"new", "subscribing", "live", "failed",
                                 "closing", "closed"}]
        /\ ended \subseteq Handles /\ registry \subseteq Handles
        /\ snapshot \subseteq Topics /\ served \subseteq Topics
    BY DEF Init
  <2>3. /\ resolving \in BOOLEAN /\ timer \in BOOLEAN /\ closed \in BOOLEAN
        /\ closer \in {"idle", "stopping", "waiting", "done"}
    BY DEF Init
  <2>4. losses \in 0..MaxLosses /\ failures \in 0..MaxFailures
    BY BoundsAssumption DEF Init
  <2> QED BY <2>1, <2>2, <2>3, <2>4 DEF MgrTypeOK
<1> QED BY <1>1, <1>2 DEF TypeOK

\* subscribe() up to its first await under the lock keeps the types.
LEMMA RunSubscribeType ==
  ASSUME TypeOK, NEW h \in Handles, RunSubscribe(h)
  PROVE  /\ ConnTypeOK'
         /\ lock' \in Tasks \cup {NoTask}
         /\ phase' \in [Handles -> {"new", "subscribing", "live", "failed",
                                    "closing", "closed"}]
         /\ registry' \subseteq Handles
         /\ snapshot' \subseteq Topics
         /\ served' \subseteq Topics
         /\ resolving' \in BOOLEAN
         /\ UNCHANGED <<auth, ended, timer, closed, closer, losses, failures>>
<1>1. /\ registry \subseteq Handles /\ registry' \subseteq Handles
      /\ registry' = registry \cup {h}
  BY DEF RunSubscribe, TypeOK, MgrTypeOK
<1>2. Derived(registry) \subseteq Topics /\ Derived(registry \cup {h}) \subseteq Topics
  BY <1>1, DerivedTopics
<1>3. ConnTypeOK'
  BY ConnTypeStep, CallersAssumption DEF RunSubscribe, TypeOK
<1>4. lock' \in Tasks \cup {NoTask} /\ resolving' \in BOOLEAN
  BY DEF RunSubscribe, Release, Tasks, TypeOK, MgrTypeOK
<1>5. snapshot' \subseteq Topics /\ served' \subseteq Topics
  BY <1>2 DEF RunSubscribe, Release, Added, TypeOK, MgrTypeOK
<1>6. phase' \in [Handles -> {"new", "subscribing", "live", "failed",
                              "closing", "closed"}]
  BY DEF RunSubscribe, TypeOK, MgrTypeOK
<1> QED BY <1>1, <1>3, <1>4, <1>5, <1>6 DEF RunSubscribe

\* A handle's close() up to its first await under the lock keeps the types.
LEMMA RunCloseType ==
  ASSUME TypeOK, NEW h \in Handles, RunClose(h)
  PROVE  /\ ConnTypeOK'
         /\ lock' \in Tasks \cup {NoTask}
         /\ phase' \in [Handles -> {"new", "subscribing", "live", "failed",
                                    "closing", "closed"}]
         /\ registry' \subseteq Handles
         /\ ended' \subseteq Handles
         /\ snapshot' \subseteq Topics
         /\ served' \subseteq Topics
         /\ resolving' \in BOOLEAN
         /\ timer' \in BOOLEAN
         /\ UNCHANGED <<auth, closed, closer, losses, failures>>
<1>1. ConnTypeOK'
  BY ConnTypeStep, CallersAssumption DEF RunClose, TypeOK
<1>2. lock' \in Tasks \cup {NoTask} /\ resolving' \in BOOLEAN /\ timer' \in BOOLEAN
  BY DEF RunClose, Release, Tasks, TypeOK, MgrTypeOK
<1>3. /\ registry' \subseteq Handles /\ ended' \subseteq Handles
      /\ snapshot' \subseteq Topics /\ served' \subseteq Topics
  BY DEF RunClose, Release, Removed, TypeOK, MgrTypeOK
<1>4. phase' \in [Handles -> {"new", "subscribing", "live", "failed",
                              "closing", "closed"}]
  BY DEF RunClose, TypeOK, MgrTypeOK
<1> QED BY <1>1, <1>2, <1>3, <1>4 DEF RunClose

\* _reconnect() up to its first await under the lock keeps the types.
LEMMA RunReconnectType ==
  ASSUME TypeOK, RunReconnect
  PROVE  /\ ConnTypeOK'
         /\ lock' \in Tasks \cup {NoTask}
         /\ snapshot' \subseteq Topics
         /\ resolving' \in BOOLEAN
         /\ UNCHANGED <<auth, phase, ended, registry, closed, closer, served, losses,
                        failures>>
<1>1. ConnTypeOK'
  BY ConnTypeStep, CallersAssumption DEF RunReconnect, TypeOK
<1>2. lock' \in Tasks \cup {NoTask} /\ resolving' \in BOOLEAN /\ snapshot' \subseteq Topics
  BY DEF RunReconnect, Release, Tasks, TypeOK, MgrTypeOK
<1> QED BY <1>1, <1>2 DEF RunReconnect

\* What users do keeps the types.
LEMMA UserType == TypeOK /\ UserStep => TypeOK'
<1> SUFFICES ASSUME TypeOK, UserStep PROVE TypeOK'
  OBVIOUS
<1>1. ASSUME NEW h \in Handles, Subscribe(h) PROVE TypeOK'
  <2>1. CASE LockFree /\ RunSubscribe(h) /\ UNCHANGED waiting
    BY <2>1, RunSubscribeType DEF TypeOK, MgrTypeOK
  <2>2. CASE /\ Enqueue(SubscribeTask(h))
             /\ phase' = [phase EXCEPT ![h] = "subscribing"]
             /\ UNCHANGED <<connVars, auth, ended, registry, snapshot, resolving,
                            timer, closed, closer, served, losses, failures>>
    <3>1. waiting' \in Seq(Tasks)
      BY <2>2 DEF Enqueue, Tasks, TypeOK, MgrTypeOK
    <3>2. ConnTypeOK'
      BY <2>2, ConnTypeStep DEF TypeOK
    <3> QED BY <2>2, <3>1, <3>2 DEF Enqueue, TypeOK, MgrTypeOK
  <2> QED BY <1>1, <2>1, <2>2 DEF Subscribe
<1>2. ASSUME NEW h \in Handles, CloseHandle(h) PROVE TypeOK'
  <2>1. CASE LockFree /\ RunClose(h) /\ UNCHANGED waiting
    BY <2>1, RunCloseType DEF TypeOK, MgrTypeOK
  <2>2. CASE /\ Enqueue(CloseTask(h))
             /\ phase' = [phase EXCEPT ![h] = "closing"]
             /\ UNCHANGED <<connVars, auth, ended, registry, snapshot, resolving,
                            timer, closed, closer, served, losses, failures>>
    <3>1. waiting' \in Seq(Tasks)
      BY <2>2 DEF Enqueue, Tasks, TypeOK, MgrTypeOK
    <3>2. ConnTypeOK'
      BY <2>2, ConnTypeStep DEF TypeOK
    <3> QED BY <2>2, <3>1, <3>2 DEF Enqueue, TypeOK, MgrTypeOK
  <2> QED BY <1>2, <2>1, <2>2 DEF CloseHandle
<1>3. ASSUME ManagerClose PROVE TypeOK'
  <2>1. ConnTypeOK'
    BY <1>3, ConnTypeStep, CallersAssumption DEF ManagerClose, EndAll, TypeOK
  <2> QED BY <1>3, <2>1 DEF ManagerClose, EndAll, TypeOK, MgrTypeOK
<1> QED BY <1>1, <1>2, <1>3 DEF UserStep

\* The steps of a dial that ended keep the types.
LEMMA DialType == TypeOK /\ DialStep => TypeOK'
<1> SUFFICES ASSUME TypeOK, DialStep PROVE TypeOK'
  OBVIOUS
<1> USE CallersAssumption
<1>d. Derived(registry) \subseteq Topics
  BY DerivedTopics DEF TypeOK, MgrTypeOK
<1>1. ASSUME NEW s \in Sockets, SubscribeDialed(s) PROVE TypeOK'
  <2>1. ConnTypeOK'
    BY <1>1, ConnTypeStep DEF SubscribeDialed, TypeOK
  <2> QED BY <1>1, <2>1 DEF SubscribeDialed, Release, TypeOK, MgrTypeOK
<1>2. ASSUME NEW s \in Sockets, ReconnectDialed(s) PROVE TypeOK'
  <2>1. ConnTypeOK'
    BY <1>2, ConnTypeStep DEF ReconnectDialed, TypeOK
  <2> QED BY <1>2, <1>d, <2>1 DEF ReconnectDialed, Release, TypeOK, MgrTypeOK
<1>3. ASSUME SubscribeDialFails PROVE TypeOK'
  <2>1. ConnTypeOK'
    BY <1>3, ConnTypeStep DEF SubscribeDialFails, TypeOK
  <2>2. lock.handle \in Handles
    BY <1>3, TaskShape DEF SubscribeDialFails, TypeOK, MgrTypeOK
  <2>3. failures' \in 0..MaxFailures
    BY <1>3, BoundsAssumption DEF SubscribeDialFails, Fail, TypeOK, MgrTypeOK
  <2> QED BY <1>3, <2>1, <2>2, <2>3 DEF SubscribeDialFails, Rollback, Release, TypeOK, MgrTypeOK
<1>4. ASSUME ReconnectDialFails PROVE TypeOK'
  <2>1. ConnTypeOK'
    BY <1>4, ConnTypeStep DEF ReconnectDialFails, TypeOK
  <2>2. failures' \in 0..MaxFailures
    BY <1>4, BoundsAssumption DEF ReconnectDialFails, Fail, TypeOK, MgrTypeOK
  <2>3. timer' \in BOOLEAN
    BY <1>4 DEF ReconnectDialFails, Schedule, TypeOK, MgrTypeOK
  <2> QED BY <1>4, <2>1, <2>2, <2>3 DEF ReconnectDialFails, Release, TypeOK, MgrTypeOK
<1> QED BY <1>1, <1>2, <1>3, <1>4 DEF DialStep

\* The steps of a credential lookup that ended keep the types.
LEMMA CredentialsType == TypeOK /\ CredentialsStep => TypeOK'
<1> SUFFICES ASSUME TypeOK, CredentialsStep PROVE TypeOK'
  OBVIOUS
<1> USE CallersAssumption
<1>d. Derived(registry) \subseteq Topics
  BY DerivedTopics DEF TypeOK, MgrTypeOK
<1>1. ASSUME SubscribeResolved PROVE TypeOK'
  <2>1. ConnTypeOK'
    BY <1>1, ConnTypeStep DEF SubscribeResolved, TypeOK
  <2> QED BY <1>1, <2>1 DEF SubscribeResolved, Release, TypeOK, MgrTypeOK
<1>2. ASSUME SubscribeUnresolved PROVE TypeOK'
  <2>1. ConnTypeOK'
    BY <1>2, ConnTypeStep DEF SubscribeUnresolved, TypeOK
  <2>2. lock.handle \in Handles
    BY <1>2, TaskShape DEF SubscribeUnresolved, TypeOK, MgrTypeOK
  <2>3. failures' \in 0..MaxFailures
    BY <1>2, BoundsAssumption DEF SubscribeUnresolved, Fail, TypeOK, MgrTypeOK
  <2>4. timer' \in BOOLEAN /\ resolving' \in BOOLEAN /\ lock' \in Tasks \cup {NoTask}
        /\ snapshot' \subseteq Topics
    BY <1>2 DEF SubscribeUnresolved, Release, TypeOK, MgrTypeOK
  <2> QED BY <1>2, <2>1, <2>2, <2>3, <2>4 DEF SubscribeUnresolved, Rollback, TypeOK, MgrTypeOK
<1>3. ASSUME ReconnectResolved PROVE TypeOK'
  <2>1. ConnTypeOK'
    BY <1>3, ConnTypeStep DEF ReconnectResolved, TypeOK
  <2> QED BY <1>3, <1>d, <2>1 DEF ReconnectResolved, Release, TypeOK, MgrTypeOK
<1>4. ASSUME ReconnectUnresolved PROVE TypeOK'
  <2>1. ConnTypeOK'
    BY <1>4, ConnTypeStep DEF ReconnectUnresolved, TypeOK
  <2>2. failures' \in 0..MaxFailures
    BY <1>4, BoundsAssumption DEF ReconnectUnresolved, Fail, TypeOK, MgrTypeOK
  <2> QED BY <1>4, <2>1, <2>2 DEF ReconnectUnresolved, TypeOK, MgrTypeOK
<1> QED BY <1>1, <1>2, <1>3, <1>4 DEF CredentialsStep

\* Every step of the manager's tasks keeps the types.
LEMMA TaskType == TypeOK /\ TaskStep => TypeOK'
<1> SUFFICES ASSUME TypeOK, TaskStep PROVE TypeOK'
  OBVIOUS
<1> USE CallersAssumption
<1>1. ASSUME TimerFires PROVE TypeOK'
  <2>1. CASE UNCHANGED <<connVars, auth, lock, waiting, phase, ended, registry, snapshot,
                         resolving, closed, closer, served, losses, failures>>
    <3>1. ConnTypeOK'
      BY <2>1, ConnTypeStep DEF TypeOK
    <3> QED BY <1>1, <2>1, <3>1 DEF TimerFires, TypeOK, MgrTypeOK
  <2>2. CASE RunReconnect /\ UNCHANGED waiting
    BY <1>1, <2>2, RunReconnectType DEF TimerFires, TypeOK, MgrTypeOK
  <2>3. CASE /\ Enqueue(Reconnect)
             /\ UNCHANGED <<connVars, auth, phase, ended, registry, snapshot, resolving,
                            closed, closer, served, losses, failures>>
    <3>1. ConnTypeOK'
      BY <2>3, ConnTypeStep DEF TypeOK
    <3>2. waiting' \in Seq(Tasks)
      BY <2>3 DEF Enqueue, Tasks, TypeOK, MgrTypeOK
    <3> QED BY <1>1, <2>3, <3>1, <3>2 DEF TimerFires, Enqueue, TypeOK, MgrTypeOK
  <2> QED BY <1>1, <2>1, <2>2, <2>3 DEF TimerFires
<1>2. ASSUME Acquire PROVE TypeOK'
  <2>1. waiting' \in Seq(Tasks) /\ Head(waiting) \in Tasks
    BY <1>2 DEF Acquire, TypeOK, MgrTypeOK
  <2>2. Head(waiting).op \in {"subscribe", "close"} => Head(waiting).handle \in Handles
    BY <2>1, TaskShape
  <2>3. CASE Head(waiting).op = "subscribe" /\ RunSubscribe(Head(waiting).handle)
    BY <2>1, <2>2, <2>3, RunSubscribeType DEF TypeOK, MgrTypeOK
  <2>4. CASE Head(waiting).op = "close" /\ RunClose(Head(waiting).handle)
    BY <2>1, <2>2, <2>4, RunCloseType DEF TypeOK, MgrTypeOK
  <2>5. CASE RunReconnect /\ UNCHANGED timer
    BY <2>1, <2>5, RunReconnectType DEF TypeOK, MgrTypeOK
  <2> QED BY <1>2, <2>3, <2>4, <2>5 DEF Acquire
<1>3. ASSUME ManagerEndsHandles PROVE TypeOK'
  <2>1. ConnTypeOK'
    BY <1>3, ConnTypeStep DEF ManagerEndsHandles, EndAll, TypeOK
  <2> QED BY <1>3, <2>1 DEF ManagerEndsHandles, EndAll, TypeOK, MgrTypeOK
<1>4. ASSUME CloseReturns PROVE TypeOK'
  <2>1. ConnTypeOK'
    BY <1>4, ConnTypeStep DEF CloseReturns, TypeOK
  <2>2. lock.op = "close" => lock.handle \in Handles
    BY TaskShape DEF TypeOK, MgrTypeOK
  <2>3. /\ closer' \in {"idle", "stopping", "waiting", "done"}
        /\ timer' \in BOOLEAN /\ resolving' \in BOOLEAN
        /\ lock' \in Tasks \cup {NoTask} /\ snapshot' \subseteq Topics
    BY <1>4 DEF CloseReturns, Schedule, Release, TypeOK, MgrTypeOK
  <2>4. ended' \subseteq Handles
    BY <1>4, <2>2 DEF CloseReturns, TypeOK, MgrTypeOK
  <2>5. phase' \in [Handles -> {"new", "subscribing", "live", "failed",
                                "closing", "closed"}]
    BY <1>4 DEF CloseReturns, TypeOK, MgrTypeOK
  <2> QED BY <1>4, <2>1, <2>3, <2>4, <2>5 DEF CloseReturns, TypeOK, MgrTypeOK
<1>5. ASSUME NEW s \in Sockets, ConnectionLost(s) PROVE TypeOK'
  <2>1. ConnTypeOK'
    BY <1>5, SocketTypeStep DEF ConnectionLost, ReaderReportsLoss, TypeOK
  <2>2. timer' \in BOOLEAN
    BY <1>5 DEF ConnectionLost, Schedule, TypeOK, MgrTypeOK
  <2> QED BY <1>5, <2>1, <2>2 DEF ConnectionLost, TypeOK, MgrTypeOK
<1>6. ASSUME ConnectionStep PROVE TypeOK'
  <2>1. ConnTypeOK'
    <3>1. CASE ShutdownClaim
      BY <3>1, ConnTypeStep DEF TypeOK
    <3>2. ASSUME NEW s \in Sockets, SocketClosed(s) \/ ReaderClaims(s) \/ ReaderEnds(s)
          PROVE  ConnTypeOK'
      BY <3>2, SocketTypeStep DEF TypeOK
    <3> QED BY <1>6, <3>1, <3>2 DEF ConnectionStep, ReaderLeaves
  <2> QED BY <1>6, <2>1 DEF ConnectionStep, mgrVars, TypeOK, MgrTypeOK
<1> QED BY <1>1, <1>2, <1>3, <1>4, <1>5, <1>6, DialType, CredentialsType DEF TaskStep

\* Every step keeps the types.
LEMMA NextType == TypeOK /\ [Next]_vars => TypeOK'
<1> SUFFICES ASSUME TypeOK, [Next]_vars PROVE TypeOK'
  OBVIOUS
<1>1. ASSUME NEW s \in Sockets, Lose(s) PROVE TypeOK'
  <2>1. ConnTypeOK'
    BY <1>1, SocketTypeStep DEF Lose, TypeOK
  <2>2. losses' \in 0..MaxLosses
    BY <1>1, BoundsAssumption DEF Lose, TypeOK, MgrTypeOK
  <2> QED BY <1>1, <2>1, <2>2 DEF Lose, TypeOK, MgrTypeOK
<1>2. ASSUME UNCHANGED vars PROVE TypeOK'
  <2>1. ConnTypeOK'
    BY <1>2, ConnTypeStep DEF vars, TypeOK
  <2> QED BY <1>2, <2>1 DEF vars, mgrVars, TypeOK, MgrTypeOK
<1> QED BY <1>1, <1>2, UserType, TaskType DEF Next

\* Every variable has its type, whatever the handles, topics and sockets.
THEOREM TypeCorrect == Spec => []TypeOK
BY InitType, NextType, PTL DEF Spec

-----------------------------------------------------------------------------
(* No socket leaks.                                                         *)

\* Who calls the connection: the closer only closes, a dial belongs to the
\* holder, and neither a dial nor the shutdown connect() awaits goes on while
\* a socket is open.
DialInv ==
  /\ call["closer"] \in {"idle", "close"}
  /\ dial # "idle" <=> call["holder"] = "dial"
  /\ call["holder"] \in {"dial", "stale"} => ~IsOpen
  /\ OnlyCurrentIsOpen

\* Nobody is on the connection while the lock is free.
HolderInv ==
  /\ lock = NoTask => ~resolving
  /\ lock = NoTask \/ resolving => call["holder"] = "idle"

\* The steps of the connection keep DialInv (connection.py:69-277).
LEMMA ConnDial ==
  ASSUME ConnTypeOK, DialInv
  PROVE  /\ /\ ConnectStale("holder") \/ ConnectDial("holder") \/ CloseCall("holder")
            /\ call["holder"] = "idle"
            => DialInv'
         /\ CloseCall("closer") => DialInv' /\ call'["holder"] = call["holder"]
         /\ DialFail => DialInv' /\ (dial # "idle" => call'["holder"] = "idle")
         /\ ShutdownClaim => DialInv' /\ call'["holder"] = call["holder"]
         /\ ShutdownDone => /\ DialInv'
                            /\ call["holder"] \in {"idle", "close"} => call'["holder"] = "idle"
         /\ UNCHANGED connVars => DialInv' /\ call'["holder"] = call["holder"]
<1> USE CallersAssumption
<1>1. ASSUME ConnectStale("holder"), call["holder"] = "idle" PROVE DialInv'
  BY <1>1 DEF ConnectStale, DialInv, OnlyCurrentIsOpen, IsOpen, ConnTypeOK
<1>2. ASSUME ConnectDial("holder"), call["holder"] = "idle" PROVE DialInv'
  BY <1>2 DEF ConnectDial, DialInv, OnlyCurrentIsOpen, IsOpen, ConnTypeOK
<1>3. ASSUME CloseCall("holder"), call["holder"] = "idle" PROVE DialInv'
  BY <1>3 DEF CloseCall, DialInv, OnlyCurrentIsOpen, IsOpen, ConnTypeOK
<1>4. ASSUME CloseCall("closer") PROVE DialInv' /\ call'["holder"] = call["holder"]
  BY <1>4 DEF CloseCall, DialInv, OnlyCurrentIsOpen, IsOpen, ConnTypeOK
<1>5. ASSUME DialFail PROVE DialInv' /\ (dial # "idle" => call'["holder"] = "idle")
  BY <1>5 DEF DialFail, DialInv, OnlyCurrentIsOpen, IsOpen, ConnTypeOK
<1>6. ASSUME ShutdownClaim PROVE DialInv' /\ call'["holder"] = call["holder"]
  BY <1>6 DEF ShutdownClaim, DialInv, OnlyCurrentIsOpen, IsOpen, ConnTypeOK
<1>7. ASSUME ShutdownDone
      PROVE  DialInv' /\ (call["holder"] \in {"idle", "close"} => call'["holder"] = "idle")
  BY <1>7 DEF ShutdownDone, DialInv, OnlyCurrentIsOpen, IsOpen, ConnTypeOK
<1>8. ASSUME UNCHANGED connVars PROVE DialInv' /\ call'["holder"] = call["holder"]
  BY <1>8 DEF connVars, DialInv, OnlyCurrentIsOpen, IsOpen
<1> QED BY <1>1, <1>2, <1>3, <1>4, <1>5, <1>6, <1>7, <1>8

\* So does a dial that succeeds: it replaces no open socket.
LEMMA DialOkDial ==
  ASSUME ConnTypeOK, DialInv, NEW s \in Sockets, NEW closers \in SUBSET {"holder"},
         DialOk(s, closers), call["holder"] = "dial"
  PROVE  /\ DialInv'
         /\ call'["holder"] = IF closers = {} THEN "idle" ELSE "close"
<1> USE CallersAssumption
<1>1. call'["holder"] = (IF closers = {} THEN "idle" ELSE "close")
  BY DEF DialOk, ConnTypeOK
<1>2. call'["closer"] = call["closer"] /\ dial' = "idle"
  BY DEF DialOk, DialInv, ConnTypeOK
<1>3. \A r \in Sockets : sock[r] # "open"
  BY NoSocketAssumption DEF DialInv, OnlyCurrentIsOpen, IsOpen
<1>4. OnlyCurrentIsOpen'
  BY <1>3 DEF DialOk, OnlyCurrentIsOpen, ConnTypeOK
<1> QED BY <1>1, <1>2, <1>4 DEF DialInv

\* So do the steps of a socket and its reader.
LEMMA SocketDial ==
  ASSUME ConnTypeOK, DialInv, NEW s \in Sockets,
         LoseSocket(s) \/ SocketClosed(s) \/ ReaderClaims(s) \/ ReaderEnds(s)
  PROVE  DialInv' /\ call' = call
<1>1. UNCHANGED <<call, dial>> /\ (IsOpen' => IsOpen)
  BY NoSocketAssumption
  DEF LoseSocket, SocketClosed, ReaderClaims, ReaderEnds, IsOpen, ConnTypeOK, MaybeSocket
<1>2. OnlyCurrentIsOpen'
  BY DEF LoseSocket, SocketClosed, ReaderClaims, ReaderEnds, DialInv, OnlyCurrentIsOpen,
         ConnTypeOK
<1> QED BY <1>1, <1>2 DEF DialInv

ConnInv == DialInv /\ HolderInv

\* What a holder does first under the lock keeps both.
LEMMA RunConn ==
  ASSUME TypeOK, ConnInv, lock = NoTask,
         \/ \E h \in Handles : RunSubscribe(h) \/ RunClose(h)
         \/ RunReconnect
  PROVE  ConnInv'
<1> USE DEF TypeOK
<1>0. call["holder"] = "idle" /\ ~resolving
  BY DEF ConnInv, HolderInv
<1>1. ASSUME NEW h \in Handles, RunSubscribe(h) PROVE ConnInv'
  <2>1. DialInv' /\ (UNCHANGED connVars => call'["holder"] = "idle")
    BY <1>0, <1>1, ConnDial DEF RunSubscribe, ConnInv
  <2>2. HolderInv'
    BY <1>0, <1>1, <2>1 DEF RunSubscribe, Release, HolderInv, SubscribeTask, NoTask
  <2> QED BY <2>1, <2>2 DEF ConnInv
<1>2. ASSUME NEW h \in Handles, RunClose(h) PROVE ConnInv'
  <2>1. DialInv' /\ (UNCHANGED connVars => call'["holder"] = "idle")
    BY <1>0, <1>2, ConnDial DEF RunClose, ConnInv
  <2>2. HolderInv'
    BY <1>0, <1>2, <2>1 DEF RunClose, Release, HolderInv, CloseTask, NoTask
  <2> QED BY <2>1, <2>2 DEF ConnInv
<1>3. ASSUME RunReconnect PROVE ConnInv'
  <2>1. DialInv' /\ (UNCHANGED connVars => call'["holder"] = "idle")
    BY <1>0, <1>3, ConnDial DEF RunReconnect, ConnInv
  <2>2. HolderInv'
    BY <1>0, <1>3, <2>1 DEF RunReconnect, Release, HolderInv, Reconnect, NoTask
  <2> QED BY <2>1, <2>2 DEF ConnInv
<1> QED BY <1>1, <1>2, <1>3

\* Steps that leave the lock and the holder's call alone keep HolderInv.
LEMMA SameHolder ==
  ASSUME HolderInv, UNCHANGED <<lock, resolving>>, call'["holder"] = call["holder"]
  PROVE  HolderInv'
BY DEF HolderInv

\* What users do keeps both.
LEMMA UserConn == TypeOK /\ ConnInv /\ UserStep => ConnInv'
<1> SUFFICES ASSUME TypeOK, ConnInv, UserStep PROVE ConnInv'
  OBVIOUS
<1> USE DEF TypeOK
<1>1. ASSUME NEW h \in Handles, Subscribe(h) PROVE ConnInv'
  <2>1. CASE LockFree /\ RunSubscribe(h)
    BY <2>1, RunConn DEF LockFree
  <2>2. CASE UNCHANGED <<connVars, lock, resolving>>
    BY <2>2, ConnDial, SameHolder DEF ConnInv
  <2> QED BY <1>1, <2>1, <2>2 DEF Subscribe, Enqueue
<1>2. ASSUME NEW h \in Handles, CloseHandle(h) PROVE ConnInv'
  <2>1. CASE LockFree /\ RunClose(h)
    BY <2>1, RunConn DEF LockFree
  <2>2. CASE UNCHANGED <<connVars, lock, resolving>>
    BY <2>2, ConnDial, SameHolder DEF ConnInv
  <2> QED BY <1>2, <2>1, <2>2 DEF CloseHandle, Enqueue
<1>3. ASSUME ManagerClose PROVE ConnInv'
  <2>1. DialInv' /\ call'["holder"] = call["holder"]
    BY <1>3, ConnDial DEF ManagerClose, EndAll, ConnInv
  <2>2. HolderInv'
    BY <1>3, <2>1, SameHolder DEF ManagerClose, ConnInv
  <2> QED BY <2>1, <2>2 DEF ConnInv
<1> QED BY <1>1, <1>2, <1>3 DEF UserStep

\* The end of a dial or of a credential lookup keeps both.
LEMMA AwaitedConn == TypeOK /\ ConnInv /\ (DialStep \/ CredentialsStep) => ConnInv'
<1> SUFFICES ASSUME TypeOK, ConnInv, DialStep \/ CredentialsStep PROVE ConnInv'
  OBVIOUS
<1> USE DEF TypeOK
<1>1. ASSUME NEW s \in Sockets, SubscribeDialed(s) PROVE ConnInv'
  <2>1. DialInv' /\ call'["holder"] = "idle"
    BY <1>1, DialOkDial DEF SubscribeDialed, ConnInv
  <2> QED BY <1>1, <2>1 DEF SubscribeDialed, Release, ConnInv, HolderInv, NoTask
<1>2. ASSUME NEW s \in Sockets, ReconnectDialed(s) PROVE ConnInv'
  <2>1. /\ DialInv'
        /\ call'["holder"] = IF closed THEN "close" ELSE "idle"
    <3>1. CASE closed
      BY <1>2, <3>1, DialOkDial DEF ReconnectDialed, ConnInv
    <3>2. CASE ~closed
      BY <1>2, <3>2, DialOkDial DEF ReconnectDialed, ConnInv
    <3> QED BY <3>1, <3>2
  <2>2. closed => lock' # NoTask /\ ~resolving'
    BY <1>2 DEF ReconnectDialed, ConnInv, HolderInv, Reconnect, NoTask
  <2>3. ~closed /\ lock' = NoTask => ~resolving'
    BY <1>2 DEF ReconnectDialed, Release, Reconnect, NoTask
  <2> QED BY <2>1, <2>2, <2>3 DEF ConnInv, HolderInv
<1>3. ASSUME SubscribeDialFails \/ ReconnectDialFails PROVE ConnInv'
  <2>1. DialInv' /\ call'["holder"] = "idle"
    BY <1>3, ConnDial DEF SubscribeDialFails, ReconnectDialFails, DialFail, ConnInv
  <2> QED BY <1>3, <2>1 DEF SubscribeDialFails, ReconnectDialFails, Release, ConnInv, HolderInv
<1>4. ASSUME SubscribeResolved \/ ReconnectResolved PROVE ConnInv'
  <2>1. DialInv' /\ call'["holder"] = "idle"
    BY <1>4, ConnDial DEF SubscribeResolved, ReconnectResolved, ConnInv, HolderInv
  <2> QED BY <1>4, <2>1 DEF SubscribeResolved, ReconnectResolved, Release, ConnInv, HolderInv
<1>5. ASSUME SubscribeUnresolved PROVE ConnInv'
  <2>1. DialInv' /\ (UNCHANGED connVars => call'["holder"] = "idle")
    BY <1>5, ConnDial DEF SubscribeUnresolved, ConnInv, HolderInv
  <2>2. HolderInv'
    BY <1>5, <2>1 DEF SubscribeUnresolved, Release, HolderInv, NoTask
  <2> QED BY <2>1, <2>2 DEF ConnInv
<1>6. ASSUME ReconnectUnresolved PROVE ConnInv'
  <2>1. DialInv'
    BY <1>6, ConnDial DEF ReconnectUnresolved, ConnInv, HolderInv
  <2>2. HolderInv'
    BY <1>6 DEF ReconnectUnresolved, HolderInv, Reconnect, NoTask
  <2> QED BY <2>1, <2>2 DEF ConnInv
<1> QED BY <1>1, <1>2, <1>3, <1>4, <1>5, <1>6 DEF DialStep, CredentialsStep

\* Every step keeps both.
LEMMA NextConn == TypeOK /\ ConnInv /\ [Next]_vars => ConnInv'
<1> SUFFICES ASSUME TypeOK, ConnInv, [Next]_vars PROVE ConnInv'
  OBVIOUS
<1> USE DEF TypeOK
<1>1. ASSUME TimerFires PROVE ConnInv'
  <2>1. CASE LockFree /\ RunReconnect
    BY <2>1, RunConn DEF LockFree
  <2>2. CASE UNCHANGED <<connVars, lock, resolving>>
    BY <2>2, ConnDial, SameHolder DEF ConnInv
  <2> QED BY <1>1, <2>1, <2>2 DEF TimerFires, Enqueue
<1>2. ASSUME Acquire PROVE ConnInv'
  <2>1. Head(waiting) \in Tasks
    BY <1>2 DEF Acquire, MgrTypeOK
  <2>2. Head(waiting).op \in {"subscribe", "close"} => Head(waiting).handle \in Handles
    BY <2>1, TaskShape
  <2> QED BY <1>2, <2>2, RunConn DEF Acquire
<1>3. ASSUME ManagerEndsHandles PROVE ConnInv'
  <2>1. DialInv' /\ call'["holder"] = call["holder"]
    BY <1>3, ConnDial DEF ManagerEndsHandles, EndAll, ConnInv
  <2> QED BY <1>3, <2>1, SameHolder DEF ManagerEndsHandles, ConnInv
<1>4. ASSUME CloseReturns PROVE ConnInv'
  <2>1. DialInv' /\ (call["holder"] \in {"idle", "close"} => call'["holder"] = "idle")
    BY <1>4, ConnDial DEF CloseReturns, ConnInv
  <2>2. HolderInv'
    BY <1>4, <2>1 DEF CloseReturns, Release, ConnInv, HolderInv
  <2> QED BY <2>1, <2>2 DEF ConnInv
<1>5. ASSUME NEW s \in Sockets, ConnectionLost(s) \/ Lose(s) PROVE ConnInv'
  <2>1. DialInv' /\ call' = call
    BY <1>5, SocketDial DEF ConnectionLost, ReaderReportsLoss, Lose, ConnInv
  <2> QED BY <1>5, <2>1, SameHolder DEF ConnectionLost, Lose, ConnInv
<1>6. ASSUME ConnectionStep PROVE ConnInv'
  <2>1. CASE ShutdownClaim
    BY <1>6, <2>1, ConnDial, SameHolder DEF ConnectionStep, mgrVars, ConnInv
  <2>2. ASSUME NEW s \in Sockets, SocketClosed(s) \/ ReaderClaims(s) \/ ReaderEnds(s)
        PROVE  DialInv' /\ call' = call
    BY <2>2, SocketDial DEF ConnInv
  <2> QED BY <1>6, <2>1, <2>2, SameHolder DEF ConnectionStep, ReaderLeaves, mgrVars, ConnInv
<1>7. ASSUME UNCHANGED vars PROVE ConnInv'
  BY <1>7, ConnDial, SameHolder DEF vars, mgrVars, ConnInv
<1> QED BY <1>1, <1>2, <1>3, <1>4, <1>5, <1>6, <1>7, UserConn, AwaitedConn DEF Next, TaskStep

\* The connection is idle at first.
LEMMA InitConn == Init => ConnInv
BY NoSocketAssumption, CallersAssumption
DEF Init, ConnInit, ConnInv, DialInv, HolderInv, OnlyCurrentIsOpen, IsOpen

\* What the rest of the proofs rests on.
LEMMA Basics == Spec => [](TypeOK /\ ConnInv)
<1>1. Init => TypeOK /\ ConnInv
  BY InitType, InitConn
<1>2. TypeOK /\ ConnInv /\ [Next]_vars => (TypeOK /\ ConnInv)'
  BY NextType, NextConn
<1> QED BY <1>1, <1>2, PTL DEF Spec

\* Whatever claims race (connection.py:147-153), no open socket is forgotten.
THEOREM NoSocketLeaks == Spec => []OnlyCurrentIsOpen
<1>1. TypeOK /\ ConnInv => OnlyCurrentIsOpen
  BY DEF ConnInv, DialInv
<1> QED BY <1>1, Basics, PTL

-----------------------------------------------------------------------------
(* Every handle is accounted for.                                           *)

OfHandle(task) == task.op \in {"subscribe", "close"}

\* A handle nobody has subscribed is unknown.
NewInv == \A h \in Handles : phase[h] = "new" => h \notin registry \cup ended

\* What the holder of the lock has done to its handle so far.
LockInv ==
  /\ lock.op = "subscribe" => /\ phase[lock.handle] \in {"subscribing", "failed"}
                              /\ lock.handle \in registry \cup ended
  /\ lock.op = "close" => /\ phase[lock.handle] = "closing"
                          /\ lock.handle \notin registry

\* A handle has at most one task, and one that waits has done nothing yet.
WaitsInv ==
  \A i \in 1..Len(waiting) : OfHandle(waiting[i]) =>
    /\ waiting[i].op = "subscribe" => /\ phase[waiting[i].handle] = "subscribing"
                                      /\ waiting[i].handle \notin registry \cup ended
    /\ waiting[i].op = "close" => phase[waiting[i].handle] = "closing"
    /\ OfHandle(lock) => lock.handle # waiting[i].handle
    /\ \A j \in 1..Len(waiting) :
         OfHandle(waiting[j]) /\ waiting[j].handle = waiting[i].handle => i = j

LifeInv == HandlesAccountedFor /\ NewInv /\ LockInv /\ WaitsInv

\* No handle is known at first.
LEMMA InitLife == Init => LifeInv
BY DEF Init, LifeInv, HandlesAccountedFor, NewInv, LockInv, WaitsInv, NoTask

\* subscribe() under the lock registers a handle nobody knows.
LEMMA RunSubscribeLife ==
  ASSUME TypeOK, HandlesAccountedFor, NewInv, NEW h \in Handles, RunSubscribe(h),
         h \notin registry \cup ended
  PROVE  /\ HandlesAccountedFor' /\ NewInv' /\ LockInv'
         /\ \A g \in Handles \ {h} : phase'[g] = phase[g]
         /\ registry' \cup ended' = registry \cup ended \cup {h}
         /\ lock' \in {NoTask, SubscribeTask(h)}
<1>1. /\ registry' = registry \cup {h} /\ ended' = ended
      /\ lock' \in {NoTask, SubscribeTask(h)}
      /\ \A g \in Handles \ {h} : phase'[g] = phase[g]
      /\ phase'[h] \in {"subscribing", "live"}
      /\ lock' = SubscribeTask(h) => phase'[h] = "subscribing"
  BY DEF RunSubscribe, Release, TypeOK, MgrTypeOK, NoTask, SubscribeTask
<1>2. HandlesAccountedFor' /\ NewInv'
  BY <1>1 DEF HandlesAccountedFor, NewInv
<1>3. LockInv'
  BY <1>1 DEF LockInv, NoTask, SubscribeTask
<1> QED BY <1>1, <1>2, <1>3

\* A handle's close() under the lock removes it, and ends it unless it goes on
\* to close the connection.
LEMMA RunCloseLife ==
  ASSUME TypeOK, HandlesAccountedFor, NewInv, NEW h \in Handles, RunClose(h)
  PROVE  /\ HandlesAccountedFor' /\ NewInv' /\ LockInv'
         /\ \A g \in Handles \ {h} : phase'[g] = phase[g]
         /\ registry' \cup ended' \subseteq registry \cup ended \cup {h}
         /\ lock' \in {NoTask, CloseTask(h)}
<1>1. /\ registry' = registry \ {h} /\ ended' \subseteq ended \cup {h} /\ ended \subseteq ended'
      /\ lock' \in {NoTask, CloseTask(h)}
      /\ \A g \in Handles \ {h} : phase'[g] = phase[g]
      /\ phase'[h] \in {"closing", "closed"}
      /\ phase'[h] = "closed" => h \in ended'
      /\ lock' = CloseTask(h) => phase'[h] = "closing"
  BY DEF RunClose, Release, TypeOK, MgrTypeOK, NoTask, CloseTask
<1>2. HandlesAccountedFor' /\ NewInv'
  BY <1>1 DEF HandlesAccountedFor, NewInv
<1>3. LockInv'
  BY <1>1 DEF LockInv, NoTask, CloseTask
<1> QED BY <1>1, <1>2, <1>3

\* A step of handle h, which waits for nothing, does not concern the others.
LEMMA WaitsKept ==
  ASSUME TypeOK, WaitsInv, NEW h \in Handles,
         \A i \in 1..Len(waiting) : OfHandle(waiting[i]) => waiting[i].handle # h,
         UNCHANGED waiting,
         \A g \in Handles \ {h} : phase'[g] = phase[g],
         registry' \cup ended' \subseteq registry \cup ended \cup {h},
         OfHandle(lock') => lock'.handle = h \/ lock' = lock
  PROVE  WaitsInv'
<1>1. \A i \in 1..Len(waiting) : OfHandle(waiting[i]) => waiting[i].handle \in Handles \ {h}
  BY TaskShape DEF TypeOK, MgrTypeOK, OfHandle
<1> QED BY <1>1 DEF WaitsInv, OfHandle

\* A task queues up: a reconnect, or the only task of a handle.
LEMMA WaitsAppended ==
  ASSUME TypeOK, WaitsInv, NEW task \in Tasks,
         Enqueue(task), UNCHANGED <<registry, ended>>,
         OfHandle(task) =>
           /\ OfHandle(lock) => lock.handle # task.handle
           /\ \A i \in 1..Len(waiting) : OfHandle(waiting[i]) => waiting[i].handle # task.handle
           /\ task.op = "subscribe" => /\ phase'[task.handle] = "subscribing"
                                       /\ task.handle \notin registry \cup ended
           /\ task.op = "close" => phase'[task.handle] = "closing"
           /\ \A g \in Handles \ {task.handle} : phase'[g] = phase[g],
         ~OfHandle(task) => UNCHANGED phase
  PROVE  WaitsInv'
<1>1. /\ Len(waiting) \in Nat /\ Len(waiting') = Len(waiting) + 1
      /\ \A i \in 1..Len(waiting) : waiting'[i] = waiting[i] /\ waiting[i] \in Tasks
      /\ waiting'[Len(waiting) + 1] = task
  BY DEF Enqueue, TypeOK, MgrTypeOK
<1>2. \A i \in 1..Len(waiting) : OfHandle(waiting[i]) => waiting[i].handle \in Handles
  BY <1>1, TaskShape DEF OfHandle
<1>3. lock' = lock
  BY DEF Enqueue
<1> QED BY <1>1, <1>2, <1>3 DEF WaitsInv, OfHandle

\* The first of the waiting tasks gets the lock.
LEMMA WaitsTaken ==
  ASSUME TypeOK, WaitsInv, waiting # <<>>, waiting' = Tail(waiting),
         OfHandle(Head(waiting)) =>
           LET h == Head(waiting).handle IN
             /\ OfHandle(lock') => lock'.handle = h
             /\ registry' \cup ended' \subseteq registry \cup ended \cup {h}
             /\ \A g \in Handles \ {h} : phase'[g] = phase[g],
         ~OfHandle(Head(waiting)) => /\ ~OfHandle(lock')
                                     /\ UNCHANGED <<phase, registry, ended>>
  PROVE  WaitsInv'
<1>1. /\ Len(waiting) \in Nat \ {0} /\ Len(waiting') = Len(waiting) - 1
      /\ Head(waiting) = waiting[1]
      /\ \A i \in 1..Len(waiting) : waiting[i] \in Tasks
      /\ \A i \in 1..Len(waiting') : waiting'[i] = waiting[i + 1]
  BY DEF TypeOK, MgrTypeOK
<1>2. \A i \in 1..Len(waiting) : OfHandle(waiting[i]) => waiting[i].handle \in Handles
  BY <1>1, TaskShape DEF OfHandle
<1>3. \A i \in 1..Len(waiting') : i + 1 \in 1..Len(waiting) /\ i + 1 # 1
  BY <1>1
<1>4. CASE OfHandle(waiting[1])
  <2>1. \A i \in 1..Len(waiting') :
          OfHandle(waiting[i + 1]) => waiting[i + 1].handle # waiting[1].handle
    BY <1>1, <1>3, <1>4 DEF WaitsInv
  <2>2. ASSUME NEW i \in 1..Len(waiting'), OfHandle(waiting'[i])
        PROVE  /\ waiting'[i].op = "subscribe" =>
                    /\ phase'[waiting'[i].handle] = "subscribing"
                    /\ waiting'[i].handle \notin registry' \cup ended'
               /\ waiting'[i].op = "close" => phase'[waiting'[i].handle] = "closing"
               /\ OfHandle(lock') => lock'.handle # waiting'[i].handle
    BY <1>1, <1>2, <1>3, <1>4, <2>1, <2>2 DEF WaitsInv
  <2>3. ASSUME NEW i \in 1..Len(waiting'), OfHandle(waiting'[i]),
               NEW j \in 1..Len(waiting'), OfHandle(waiting'[j]),
               waiting'[j].handle = waiting'[i].handle
        PROVE  i = j
    BY <1>1, <1>3, <2>3 DEF WaitsInv
  <2> QED BY <2>2, <2>3 DEF WaitsInv, OfHandle
<1>5. CASE ~OfHandle(waiting[1])
  BY <1>1, <1>3, <1>5 DEF WaitsInv, OfHandle
<1> QED BY <1>4, <1>5

\* Steps that concern no handle.
LEMMA LifeKept ==
  ASSUME LifeInv, UNCHANGED <<phase, registry, ended, waiting>>,
         OfHandle(lock') => lock' = lock
  PROVE  LifeInv'
BY DEF LifeInv, HandlesAccountedFor, NewInv, LockInv, WaitsInv, OfHandle

\* The holder of the lock is the only task of its handle.
LEMMA HolderAlone ==
  ASSUME LifeInv, OfHandle(lock)
  PROVE  \A i \in 1..Len(waiting) : OfHandle(waiting[i]) => waiting[i].handle # lock.handle
BY DEF LifeInv, WaitsInv

\* What users do keeps every handle accounted for.
LEMMA UserLife == TypeOK /\ LifeInv /\ UserStep => LifeInv'
<1> SUFFICES ASSUME TypeOK, LifeInv, UserStep PROVE LifeInv'
  OBVIOUS
<1> USE DEF LifeInv
<1>1. ASSUME NEW h \in Handles, Subscribe(h) PROVE LifeInv'
  <2>1. h \notin registry \cup ended
    BY <1>1 DEF Subscribe, NewInv
  <2>2. CASE LockFree /\ RunSubscribe(h) /\ UNCHANGED waiting
    <3>1. WaitsInv'
      BY <2>2 DEF LockFree, WaitsInv
    <3> QED BY <2>1, <2>2, <3>1, RunSubscribeLife
  <2>3. CASE /\ Enqueue(SubscribeTask(h))
             /\ phase' = [phase EXCEPT ![h] = "subscribing"]
             /\ UNCHANGED <<registry, ended>>
    <3>1. /\ \A g \in Handles \ {h} : phase'[g] = phase[g]
          /\ phase'[h] = "subscribing"
      BY <2>3 DEF TypeOK, MgrTypeOK
    <3>2. HandlesAccountedFor' /\ NewInv'
      BY <2>1, <2>3, <3>1 DEF HandlesAccountedFor, NewInv
    <3>3. LockInv' /\ (OfHandle(lock) => lock.handle # h)
      BY <1>1, <2>3, <3>1, TaskShape
      DEF Subscribe, LockInv, Enqueue, OfHandle, TypeOK, MgrTypeOK
    <3>4. \A i \in 1..Len(waiting) : OfHandle(waiting[i]) => waiting[i].handle # h
      BY <1>1 DEF Subscribe, WaitsInv, OfHandle
    <3>5. WaitsInv'
      BY <2>1, <2>3, <3>1, <3>3, <3>4, WaitsAppended DEF Tasks, SubscribeTask, OfHandle
    <3> QED BY <3>2, <3>3, <3>5
  <2> QED BY <1>1, <2>2, <2>3 DEF Subscribe
<1>2. ASSUME NEW h \in Handles, CloseHandle(h) PROVE LifeInv'
  <2>2. CASE LockFree /\ RunClose(h) /\ UNCHANGED waiting
    <3>1. WaitsInv'
      BY <2>2 DEF LockFree, WaitsInv
    <3> QED BY <2>2, <3>1, RunCloseLife
  <2>3. CASE /\ Enqueue(CloseTask(h))
             /\ phase' = [phase EXCEPT ![h] = "closing"]
             /\ UNCHANGED <<registry, ended>>
    <3>1. /\ \A g \in Handles \ {h} : phase'[g] = phase[g]
          /\ phase'[h] = "closing"
      BY <2>3 DEF TypeOK, MgrTypeOK
    <3>2. HandlesAccountedFor' /\ NewInv'
      BY <2>3, <3>1 DEF HandlesAccountedFor, NewInv
    <3>3. LockInv' /\ (OfHandle(lock) => lock.handle # h)
      BY <1>2, <2>3, <3>1, TaskShape
      DEF CloseHandle, LockInv, Enqueue, OfHandle, TypeOK, MgrTypeOK
    <3>4. \A i \in 1..Len(waiting) : OfHandle(waiting[i]) => waiting[i].handle # h
      BY <1>2 DEF CloseHandle, WaitsInv, OfHandle
    <3>5. WaitsInv'
      BY <2>3, <3>1, <3>3, <3>4, WaitsAppended DEF Tasks, CloseTask, OfHandle
    <3> QED BY <3>2, <3>3, <3>5
  <2> QED BY <1>2, <2>2, <2>3 DEF CloseHandle
<1>3. ASSUME ManagerClose PROVE LifeInv'
  <2>1. registry' \cup ended' = registry \cup ended /\ ended \subseteq ended'
        /\ registry' \subseteq registry /\ registry' \cap ended' = {}
    BY <1>3 DEF ManagerClose, EndAll, HandlesAccountedFor
  <2> QED BY <1>3, <2>1
          DEF ManagerClose, HandlesAccountedFor, NewInv, LockInv, WaitsInv, OfHandle
<1> QED BY <1>1, <1>2, <1>3 DEF UserStep

\* So does the end of a dial or of a credential lookup.
LEMMA AwaitedLife == TypeOK /\ LifeInv /\ (DialStep \/ CredentialsStep) => LifeInv'
<1> SUFFICES ASSUME TypeOK, LifeInv, DialStep \/ CredentialsStep PROVE LifeInv'
  OBVIOUS
<1>1. ASSUME \/ \E s \in Sockets : ReconnectDialed(s)
             \/ ReconnectDialFails \/ ReconnectResolved \/ ReconnectUnresolved
      PROVE  LifeInv'
  BY <1>1, LifeKept
  DEF ReconnectDialed, ReconnectDialFails, ReconnectResolved, ReconnectUnresolved, Release,
      OfHandle, NoTask
<1>2. ASSUME lock.op = "subscribe",
             UNCHANGED <<registry, ended, waiting>>,
             \/ UNCHANGED <<phase, lock>>
             \/ phase' = [phase EXCEPT ![lock.handle] = "live"] /\ lock' = NoTask
      PROVE  LifeInv'
  <2>1. CASE UNCHANGED <<phase, lock>>
    BY <1>2, <2>1, LifeKept
  <2>2. CASE phase' = [phase EXCEPT ![lock.handle] = "live"] /\ lock' = NoTask
    <3>1. lock.handle \in Handles
      BY <1>2, TaskShape DEF TypeOK, MgrTypeOK
    <3>2. /\ \A g \in Handles \ {lock.handle} : phase'[g] = phase[g]
          /\ phase'[lock.handle] = "live"
      BY <2>2, <3>1 DEF TypeOK, MgrTypeOK
    <3>3. HandlesAccountedFor' /\ NewInv' /\ LockInv'
      BY <1>2, <2>2, <3>1, <3>2 DEF LifeInv, HandlesAccountedFor, NewInv, LockInv, NoTask
    <3>4. WaitsInv'
      BY <1>2, <2>2, <3>1, <3>2, WaitsKept, HolderAlone DEF LifeInv, OfHandle, NoTask
    <3> QED BY <3>3, <3>4 DEF LifeInv
  <2> QED BY <1>2, <2>1, <2>2
<1>3. ASSUME \/ \E s \in Sockets : SubscribeDialed(s)
             \/ SubscribeResolved
      PROVE  LifeInv'
  BY <1>2, <1>3 DEF SubscribeDialed, SubscribeResolved, Release
<1>4. ASSUME SubscribeDialFails \/ SubscribeUnresolved PROVE LifeInv'
  <2>1. /\ lock.op = "subscribe" /\ lock.handle \in Handles
        /\ Rollback(lock.handle) /\ UNCHANGED waiting
        /\ lock' \in {lock, NoTask}
    BY <1>4, TaskShape
    DEF SubscribeDialFails, SubscribeUnresolved, Release, TypeOK, MgrTypeOK
  <2>2. /\ \A g \in Handles \ {lock.handle} : phase'[g] = phase[g]
        /\ phase'[lock.handle] = "failed"
        /\ registry' = registry \ {lock.handle} /\ ended' = ended \cup {lock.handle}
    BY <2>1 DEF Rollback, TypeOK, MgrTypeOK
  <2>3. HandlesAccountedFor' /\ NewInv' /\ LockInv'
    BY <2>1, <2>2 DEF LifeInv, HandlesAccountedFor, NewInv, LockInv, NoTask
  <2>4. WaitsInv'
    BY <2>1, <2>2, WaitsKept, HolderAlone DEF LifeInv, OfHandle, NoTask
  <2> QED BY <2>3, <2>4 DEF LifeInv
<1> QED BY <1>1, <1>3, <1>4 DEF DialStep, CredentialsStep

\* So does every other step.
LEMMA NextLife == TypeOK /\ LifeInv /\ [Next]_vars => LifeInv'
<1> SUFFICES ASSUME TypeOK, LifeInv, [Next]_vars PROVE LifeInv'
  OBVIOUS
<1>1. ASSUME TimerFires PROVE LifeInv'
  <2>1. CASE UNCHANGED <<lock, waiting, phase, ended, registry>>
    BY <2>1, LifeKept
  <2>2. CASE LockFree /\ RunReconnect /\ UNCHANGED waiting
    BY <2>2, LifeKept DEF RunReconnect, Release, OfHandle, NoTask, Reconnect
  <2>3. CASE Enqueue(Reconnect) /\ UNCHANGED <<phase, ended, registry>>
    <3>1. WaitsInv'
      BY <2>3, WaitsAppended DEF LifeInv, Tasks, Reconnect, OfHandle
    <3> QED BY <2>3, <3>1
            DEF LifeInv, Enqueue, HandlesAccountedFor, NewInv, LockInv
  <2> QED BY <1>1, <2>1, <2>2, <2>3 DEF TimerFires
<1>2. ASSUME Acquire PROVE LifeInv'
  <2>1. waiting # <<>> /\ waiting' = Tail(waiting) /\ Head(waiting) \in Tasks
        /\ Head(waiting) = waiting[1] /\ 1 \in 1..Len(waiting)
    BY <1>2 DEF Acquire, TypeOK, MgrTypeOK
  <2>2. OfHandle(Head(waiting)) => Head(waiting).handle \in Handles
    BY <2>1, TaskShape DEF OfHandle
  <2>3. CASE Head(waiting).op = "subscribe" /\ RunSubscribe(Head(waiting).handle)
    <3>1. Head(waiting).handle \notin registry \cup ended
      BY <2>1, <2>3 DEF LifeInv, WaitsInv, OfHandle
    <3>2. /\ HandlesAccountedFor' /\ NewInv' /\ LockInv'
          /\ \A g \in Handles \ {Head(waiting).handle} : phase'[g] = phase[g]
          /\ registry' \cup ended' = registry \cup ended \cup {Head(waiting).handle}
          /\ lock' \in {NoTask, SubscribeTask(Head(waiting).handle)}
      BY <2>2, <2>3, <3>1, RunSubscribeLife DEF LifeInv, OfHandle
    <3>3. WaitsInv'
      BY <2>1, <2>3, <3>2, WaitsTaken DEF LifeInv, OfHandle, NoTask, SubscribeTask
    <3> QED BY <3>2, <3>3 DEF LifeInv
  <2>4. CASE Head(waiting).op = "close" /\ RunClose(Head(waiting).handle)
    <3>2. /\ HandlesAccountedFor' /\ NewInv' /\ LockInv'
          /\ \A g \in Handles \ {Head(waiting).handle} : phase'[g] = phase[g]
          /\ registry' \cup ended' \subseteq registry \cup ended \cup {Head(waiting).handle}
          /\ lock' \in {NoTask, CloseTask(Head(waiting).handle)}
      BY <2>2, <2>4, RunCloseLife DEF LifeInv, OfHandle
    <3>3. WaitsInv'
      BY <2>1, <2>4, <3>2, WaitsTaken DEF LifeInv, OfHandle, NoTask, CloseTask
    <3> QED BY <3>2, <3>3 DEF LifeInv
  <2>5. CASE Head(waiting).op = "reconnect" /\ RunReconnect
    <3>1. /\ UNCHANGED <<phase, ended, registry>>
          /\ lock' \in {NoTask, Reconnect}
      BY <2>5 DEF RunReconnect, Release
    <3>2. WaitsInv'
      BY <2>1, <2>5, <3>1, WaitsTaken DEF LifeInv, OfHandle, NoTask, Reconnect
    <3> QED BY <3>1, <3>2
            DEF LifeInv, HandlesAccountedFor, NewInv, LockInv, NoTask, Reconnect
  <2> QED BY <1>2, <2>3, <2>4, <2>5 DEF Acquire
<1>3. ASSUME ManagerEndsHandles PROVE LifeInv'
  <2>1. registry' \cup ended' = registry \cup ended /\ ended \subseteq ended'
        /\ registry' \subseteq registry /\ registry' \cap ended' = {}
    BY <1>3 DEF ManagerEndsHandles, EndAll, LifeInv, HandlesAccountedFor
  <2> QED BY <1>3, <2>1 DEF ManagerEndsHandles, LifeInv, HandlesAccountedFor, NewInv, LockInv,
                            WaitsInv, OfHandle
<1>4. ASSUME CloseReturns PROVE LifeInv'
  <2>1. CASE UNCHANGED <<phase, ended>>
    BY <1>4, <2>1, LifeKept DEF CloseReturns, Release, OfHandle, NoTask
  <2>2. CASE /\ lock.op = "close" /\ lock' = NoTask
             /\ phase' = [phase EXCEPT ![lock.handle] = "closed"]
             /\ ended' = ended \cup {lock.handle}
             /\ UNCHANGED <<registry, waiting>>
    <3>1. lock.handle \in Handles
      BY <2>2, TaskShape DEF TypeOK, MgrTypeOK
    <3>2. /\ \A g \in Handles \ {lock.handle} : phase'[g] = phase[g]
          /\ phase'[lock.handle] = "closed"
      BY <2>2, <3>1 DEF TypeOK, MgrTypeOK
    <3>3. HandlesAccountedFor' /\ NewInv' /\ LockInv'
      BY <2>2, <3>1, <3>2 DEF LifeInv, HandlesAccountedFor, NewInv, LockInv, NoTask
    <3>4. WaitsInv'
      BY <2>2, <3>1, <3>2, WaitsKept, HolderAlone DEF LifeInv, OfHandle, NoTask
    <3> QED BY <3>3, <3>4 DEF LifeInv
  <2> QED BY <1>4, <2>1, <2>2 DEF CloseReturns, Release
<1>5. ASSUME \/ \E s \in Sockets : ConnectionLost(s) \/ Lose(s)
             \/ ConnectionStep
             \/ UNCHANGED vars
      PROVE  LifeInv'
  BY <1>5, LifeKept DEF ConnectionLost, Lose, ConnectionStep, vars, mgrVars
<1> QED BY <1>1, <1>2, <1>3, <1>4, <1>5, UserLife, AwaitedLife DEF Next, TaskStep

\* Subscribing, closing, losing and ending in any order leave no handle whose
\* consumer would wait for ever (registry.py:44-73, handle.py:120-132).
THEOREM NoHandleForgotten == Spec => []HandlesAccountedFor
<1>1. TypeOK /\ LifeInv /\ [Next]_vars => LifeInv'
  BY NextLife
<1>2. LifeInv => HandlesAccountedFor
  BY DEF LifeInv
<1> QED BY <1>1, <1>2, InitLife, TypeCorrect, PTL DEF Spec

-----------------------------------------------------------------------------
(* Who shuts the connection down.                                           *)

\* The manager's close() and its call of the connection go together, and while
\* the manager is open only the holder of the lock shuts the connection down,
\* so that a shutdown past its claim leaves no socket.
ShutInv ==
  /\ closed <=> closer # "idle"
  /\ call["closer"] = "close" <=> closer = "waiting"
  /\ ~closed /\ shutdown # "idle" => call["holder"] \in {"stale", "close"}
  /\ ~closed /\ shutdown = "drain" => current = NoSocket

\* It holds at first.
LEMMA InitShut == Init => ShutInv
BY CallersAssumption DEF Init, ConnInit, ShutInv

\* Steps that do not call or shut down the connection keep it.
LEMMA ShutKept ==
  ASSUME ShutInv, UNCHANGED <<call, shutdown, closed, closer>>,
         current' \in {current, NoSocket}
  PROVE  ShutInv'
BY DEF ShutInv

\* What a holder does first under the lock keeps it.
LEMMA RunShut ==
  ASSUME TypeOK, ConnInv, ShutInv, lock = NoTask,
         \/ \E h \in Handles : RunSubscribe(h) \/ RunClose(h)
         \/ RunReconnect
  PROVE  ShutInv'
<1> USE CallersAssumption DEF TypeOK
<1>0. call["holder"] = "idle" /\ UNCHANGED <<closed, closer>>
  BY DEF ConnInv, HolderInv, RunSubscribe, RunClose, RunReconnect
<1>1. CASE ConnectStale("holder")
  BY <1>0, <1>1 DEF ConnectStale, StartShutdown, ShutInv, ConnTypeOK
<1>2. CASE ConnectDial("holder")
  BY <1>0, <1>2 DEF ConnectDial, ShutInv, ConnTypeOK
<1>3. CASE CloseCall("holder")
  BY <1>0, <1>3 DEF CloseCall, StartShutdown, ShutInv, ConnTypeOK
<1>4. CASE UNCHANGED connVars
  BY <1>0, <1>4, ShutKept DEF connVars
<1> QED BY <1>1, <1>2, <1>3, <1>4 DEF RunSubscribe, RunClose, RunReconnect

\* A dial that succeeds keeps it.
LEMMA DialOkShut ==
  ASSUME TypeOK, ConnInv, ShutInv, NEW s \in Sockets, NEW closers \in SUBSET {"holder"},
         DialOk(s, closers), call["holder"] = "dial", closers = {} \/ closed,
         UNCHANGED <<closed, closer>>
  PROVE  ShutInv'
<1> USE CallersAssumption DEF TypeOK
<1>1. call'["closer"] = call["closer"]
  BY DEF DialOk, ConnInv, DialInv, ConnTypeOK
<1>2. ~closed => UNCHANGED shutdown /\ shutdown = "idle"
  BY DEF DialOk, ShutInv, ConnTypeOK
<1> QED BY <1>1, <1>2 DEF ShutInv

\* Every step keeps it.
LEMMA NextShut == TypeOK /\ ConnInv /\ ShutInv /\ [Next]_vars => ShutInv'
<1> SUFFICES ASSUME TypeOK, ConnInv, ShutInv, [Next]_vars PROVE ShutInv'
  OBVIOUS
<1> USE CallersAssumption DEF TypeOK
<1>1. ASSUME NEW h \in Handles, Subscribe(h) \/ CloseHandle(h) PROVE ShutInv'
  <2>1. CASE LockFree /\ (RunSubscribe(h) \/ RunClose(h))
    BY <2>1, RunShut DEF LockFree
  <2>2. CASE UNCHANGED <<connVars, closed, closer>>
    BY <2>2, ShutKept DEF connVars
  <2> QED BY <1>1, <2>1, <2>2 DEF Subscribe, CloseHandle
<1>2. ASSUME ManagerClose \/ ManagerEndsHandles PROVE ShutInv'
  BY <1>2 DEF ManagerClose, ManagerEndsHandles, EndAll, CloseCall, StartShutdown, ShutInv,
              connVars, ConnTypeOK
<1>3. ASSUME NEW s \in Sockets, SubscribeDialed(s) \/ ReconnectDialed(s) PROVE ShutInv'
  BY <1>3, DialOkShut DEF SubscribeDialed, ReconnectDialed
<1>4. ASSUME SubscribeDialFails \/ ReconnectDialFails PROVE ShutInv'
  BY <1>4 DEF SubscribeDialFails, ReconnectDialFails, DialFail, ConnInv, DialInv, ShutInv,
              ConnTypeOK
<1>5. ASSUME SubscribeUnresolved \/ ReconnectUnresolved PROVE ShutInv'
  <2>1. call["holder"] = "idle"
    BY <1>5 DEF SubscribeUnresolved, ReconnectUnresolved, ConnInv, HolderInv
  <2>2. CASE CloseCall("holder") /\ UNCHANGED <<closed, closer>>
    BY <2>1, <2>2 DEF CloseCall, StartShutdown, ShutInv, ConnTypeOK
  <2>3. CASE UNCHANGED <<connVars, closed, closer>>
    BY <2>3, ShutKept DEF connVars
  <2> QED BY <1>5, <2>2, <2>3 DEF SubscribeUnresolved, ReconnectUnresolved
<1>6. ASSUME SubscribeResolved \/ ReconnectResolved PROVE ShutInv'
  BY <1>6, ShutKept DEF SubscribeResolved, ReconnectResolved, connVars
<1>7. ASSUME TimerFires PROVE ShutInv'
  <2>1. CASE LockFree /\ RunReconnect
    BY <2>1, RunShut DEF LockFree
  <2>2. CASE UNCHANGED <<connVars, closed, closer>>
    BY <2>2, ShutKept DEF connVars
  <2> QED BY <1>7, <2>1, <2>2 DEF TimerFires
<1>8. ASSUME Acquire PROVE ShutInv'
  <2>1. Head(waiting) \in Tasks
    BY <1>8 DEF Acquire, MgrTypeOK
  <2>2. Head(waiting).op \in {"subscribe", "close"} => Head(waiting).handle \in Handles
    BY <2>1, TaskShape
  <2> QED BY <1>8, <2>2, RunShut DEF Acquire
<1>9. ASSUME CloseReturns PROVE ShutInv'
  BY <1>9 DEF CloseReturns, ShutdownDone, ShutInv, ConnTypeOK
<1>10. ASSUME \/ \E s \in Sockets : ConnectionLost(s) \/ Lose(s)
              \/ \E s \in Sockets : (SocketClosed(s) \/ ReaderClaims(s) \/ ReaderEnds(s))
                                      /\ UNCHANGED mgrVars
       PROVE  ShutInv'
  BY <1>10, ShutKept DEF ConnectionLost, ReaderReportsLoss, Lose, LoseSocket, SocketClosed,
                         ReaderClaims, ReaderEnds, mgrVars
<1>11. ASSUME ShutdownClaim, UNCHANGED mgrVars PROVE ShutInv'
  BY <1>11 DEF ShutdownClaim, ShutInv, mgrVars
<1>12. ASSUME UNCHANGED vars PROVE ShutInv'
  BY <1>12, ShutKept DEF vars, mgrVars, connVars
<1> QED BY <1>1, <1>2, <1>3, <1>4, <1>5, <1>6, <1>7, <1>8, <1>9, <1>10, <1>11, <1>12
        DEF Next, UserStep, TaskStep, DialStep, CredentialsStep, ConnectionStep, ReaderLeaves

\* The connection is claimed by nobody at first and after any step.
LEMMA Shutdowns == Spec => [](TypeOK /\ ConnInv /\ ShutInv)
<1>1. Init => TypeOK /\ ConnInv /\ ShutInv
  BY InitType, InitConn, InitShut
<1>2. TypeOK /\ ConnInv /\ ShutInv /\ [Next]_vars => (TypeOK /\ ConnInv /\ ShutInv)'
  BY NextType, NextConn, NextShut
<1> QED BY <1>1, <1>2, PTL DEF Spec

-----------------------------------------------------------------------------
(* The server streams what the registry needs.                              *)

\* What the lock holder will send: the local copy subscribe() took is still
\* the registry's state when it is sent, and a holder that closes the socket
\* leaves no stream behind.
FrameInv ==
  /\ ~closed /\ lock.op = "subscribe" /\ call["holder"] # "close" => snapshot = Derived(registry)
  /\ ~closed /\ lock.op # "reconnect" /\ call["holder"] = "close" => registry = {}
  /\ lock.op = "close" => call["holder"] = "close"

\* A credential lookup that fails a subscribe() leaves the server without the
\* frame other streams rely on.
SyncInv == FrameInv /\ ("credentials" \notin Hazards => ServerMatchesRegistry)

\* Nothing is registered and nothing is open at first.
LEMMA InitSync == Init => SyncInv
BY CallersAssumption
DEF Init, ConnInit, SyncInv, FrameInv, ServerMatchesRegistry, IsOpen, NoTask

\* The incremental frames take the server from one registry to the next.
LEMMA Increments ==
  ASSUME NEW handles, NEW h
  PROVE  /\ Derived(handles) \cup Added(Derived(handles), Derived(handles \cup {h}))
              = Derived(handles \cup {h})
         /\ Derived(handles) \ Removed(Derived(handles), Derived(handles \ {h}))
              = Derived(handles \ {h})
<1>1. Derived(handles) \subseteq Derived(handles \cup {h})
  BY DEF Derived
<1>2. Derived(handles \ {h}) \subseteq Derived(handles)
  BY DEF Derived
<1> QED BY <1>1, <1>2 DEF Added, Removed

\* Steps that touch neither the lock, the registry nor what is served, and
\* open no socket, keep it.
LEMMA SyncKept ==
  ASSUME SyncInv, UNCHANGED <<lock, registry, snapshot, closed, served>>,
         call'["holder"] = call["holder"], IsOpen' => IsOpen
  PROVE  SyncInv'
BY DEF SyncInv, FrameInv, ServerMatchesRegistry

\* What a holder does first under the lock keeps it.
LEMMA RunSync ==
  ASSUME TypeOK, ConnInv, SyncInv, lock = NoTask,
         \/ \E h \in Handles : RunSubscribe(h) \/ RunClose(h)
         \/ RunReconnect
  PROVE  SyncInv'
<1> USE CallersAssumption DEF TypeOK
<1>0. call["holder"] = "idle"
  BY DEF ConnInv, HolderInv
<1>1. UNCHANGED connVars => call'["holder"] = "idle" /\ IsOpen' = IsOpen
  BY <1>0 DEF connVars, IsOpen
<1>2. ConnectStale("holder") \/ ConnectDial("holder") => call'["holder"] \in {"stale", "dial"}
  BY DEF ConnectStale, ConnectDial, ConnTypeOK
<1>3. CloseCall("holder") => call'["holder"] = "close"
  BY DEF CloseCall, ConnTypeOK
<1>4. ASSUME NEW h \in Handles, RunSubscribe(h) PROVE SyncInv'
  <2>0. registry' = registry \cup {h} /\ UNCHANGED closed
    BY <1>4 DEF RunSubscribe
  <2>1. CASE /\ ConnectStale("holder") \/ ConnectDial("holder")
             /\ lock' = SubscribeTask(h)
             /\ snapshot' = Derived(registry \cup {h})
    BY <1>2, <2>0, <2>1 DEF SyncInv, FrameInv, ServerMatchesRegistry, NoTask, SubscribeTask
  <2>2. CASE /\ IsOpen /\ UNCHANGED connVars /\ lock' = NoTask
             /\ served' = served \cup Added(Derived(registry), Derived(registry \cup {h}))
    <3>1. ~closed /\ "credentials" \notin Hazards => served' = Derived(registry')
      BY <2>0, <2>2, Increments DEF SyncInv, ServerMatchesRegistry
    <3> QED BY <1>1, <2>0, <2>2, <3>1 DEF SyncInv, FrameInv, ServerMatchesRegistry, NoTask
  <2> QED BY <1>4, <2>1, <2>2 DEF RunSubscribe, Release
<1>5. ASSUME NEW h \in Handles, RunClose(h) PROVE SyncInv'
  <2>1. CASE h \notin registry /\ Release /\ UNCHANGED <<connVars, served>>
    BY <1>1, <1>5, <2>1
    DEF RunClose, Release, SyncInv, FrameInv, ServerMatchesRegistry, NoTask
  <2>2. CASE registry = {h} /\ CloseCall("holder") /\ lock' = CloseTask(h)
    BY <1>3, <1>5, <2>2
    DEF RunClose, SyncInv, FrameInv, ServerMatchesRegistry, NoTask, CloseTask
  <2>3. CASE /\ served' = IF IsOpen
                          THEN served \ Removed(Derived(registry), Derived(registry \ {h}))
                          ELSE served
             /\ lock' = NoTask /\ UNCHANGED connVars
    <3>1. ~closed /\ IsOpen /\ "credentials" \notin Hazards => served' = Derived(registry \ {h})
      BY <2>3, Increments DEF SyncInv, ServerMatchesRegistry
    <3> QED BY <1>1, <1>5, <2>3, <3>1
            DEF RunClose, SyncInv, FrameInv, ServerMatchesRegistry, NoTask
  <2> QED BY <1>5, <2>1, <2>2, <2>3 DEF RunClose, Release
<1>6. ASSUME RunReconnect PROVE SyncInv'
  BY <1>1, <1>6
  DEF RunReconnect, Release, SyncInv, FrameInv, ServerMatchesRegistry, NoTask, Reconnect
<1> QED BY <1>4, <1>5, <1>6

\* The end of a dial or of a credential lookup keeps it.
LEMMA AwaitedSync ==
  ASSUME TypeOK, ConnInv, SyncInv, DialStep \/ CredentialsStep
  PROVE  SyncInv'
<1> USE CallersAssumption DEF TypeOK
<1>1. ASSUME NEW s \in Sockets, SubscribeDialed(s) PROVE SyncInv'
  <2>1. call'["holder"] = "idle"
    BY <1>1, DialOkDial DEF SubscribeDialed, ConnInv
  <2> QED BY <1>1, <2>1
          DEF SubscribeDialed, Release, SyncInv, FrameInv, ServerMatchesRegistry, NoTask
<1>2. ASSUME NEW s \in Sockets, ReconnectDialed(s) PROVE SyncInv'
  <2>1. /\ UNCHANGED <<registry, closed>>
        /\ lock' = Reconnect \/ (lock' = NoTask /\ served' = Derived(registry))
        /\ ~closed => call'["holder"] = "idle"
    BY <1>2, DialOkDial DEF ReconnectDialed, Release, ConnInv
  <2>2. served' = Derived(registry) => served' = Derived(registry')
    BY <2>1
  <2> QED BY <2>1, <2>2 DEF SyncInv, FrameInv, ServerMatchesRegistry, NoTask, Reconnect
<1>3. ASSUME SubscribeDialFails \/ ReconnectDialFails PROVE SyncInv'
  <2>1. call'["holder"] = "idle" /\ ~IsOpen'
    BY <1>3
    DEF SubscribeDialFails, ReconnectDialFails, DialFail, ConnInv, DialInv, IsOpen, ConnTypeOK
  <2> QED BY <1>3, <2>1
          DEF SubscribeDialFails, ReconnectDialFails, Release, SyncInv, FrameInv,
              ServerMatchesRegistry, NoTask
<1>4. ASSUME SubscribeResolved \/ ReconnectResolved PROVE SyncInv'
  <2>1. call["holder"] = "idle" /\ call'["holder"] = "idle" /\ IsOpen' = IsOpen
    BY <1>4 DEF SubscribeResolved, ReconnectResolved, ConnInv, HolderInv, connVars, IsOpen
  <2> QED BY <1>4, <2>1
          DEF SubscribeResolved, ReconnectResolved, Release, SyncInv, FrameInv,
              ServerMatchesRegistry, NoTask
<1>5. ASSUME SubscribeUnresolved PROVE SyncInv'
  <2>1. "credentials" \notin Hazards => registry' = {}
    BY <1>5 DEF SubscribeUnresolved, Explored, Rollback
  <2>2. CASE registry' = {} /\ IsOpen
    <3>1. call'["holder"] = "close"
      BY <1>5, <2>2 DEF SubscribeUnresolved, CloseCall, ConnTypeOK
    <3> QED BY <1>5, <2>2, <3>1
            DEF SubscribeUnresolved, SyncInv, FrameInv, ServerMatchesRegistry, NoTask
  <2>3. CASE ~(registry' = {} /\ IsOpen)
    <3>1. lock' = NoTask /\ UNCHANGED <<connVars, closed>>
      BY <1>5, <2>3 DEF SubscribeUnresolved, Release
    <3>2. call'["holder"] = "idle"
      BY <1>5, <3>1 DEF SubscribeUnresolved, ConnInv, HolderInv, connVars
    <3>3. "credentials" \notin Hazards => ~IsOpen'
      BY <2>1, <2>3, <3>1 DEF connVars, IsOpen
    <3> QED BY <3>1, <3>2, <3>3 DEF SyncInv, FrameInv, ServerMatchesRegistry, NoTask
  <2> QED BY <2>2, <2>3
<1>6. ASSUME ReconnectUnresolved PROVE SyncInv'
  BY <1>6
  DEF ReconnectUnresolved, SyncInv, FrameInv, ServerMatchesRegistry, NoTask, Reconnect
<1> QED BY <1>1, <1>2, <1>3, <1>4, <1>5, <1>6 DEF DialStep, CredentialsStep

\* Every step keeps it.
LEMMA NextSync ==
  ASSUME TypeOK, ConnInv, ShutInv, SyncInv, [Next]_vars
  PROVE  SyncInv'
<1> USE CallersAssumption DEF TypeOK
<1>0. UNCHANGED connVars => call'["holder"] = call["holder"] /\ IsOpen' = IsOpen
  BY DEF connVars, IsOpen
<1>1. ASSUME NEW h \in Handles, Subscribe(h) \/ CloseHandle(h) PROVE SyncInv'
  <2>1. CASE LockFree /\ (RunSubscribe(h) \/ RunClose(h))
    BY <2>1, RunSync DEF LockFree
  <2>2. CASE UNCHANGED <<connVars, lock, registry, snapshot, closed, served>>
    BY <1>0, <2>2, SyncKept
  <2> QED BY <1>1, <2>1, <2>2 DEF Subscribe, CloseHandle, Enqueue
<1>2. ASSUME ManagerClose \/ ManagerEndsHandles PROVE SyncInv'
  <2>1. closed' /\ UNCHANGED lock
    BY <1>2 DEF ManagerClose, ManagerEndsHandles, ShutInv
  <2>2. call'["holder"] = call["holder"]
    BY <1>0, <1>2 DEF ManagerClose, ManagerEndsHandles, EndAll, CloseCall, ConnTypeOK
  <2> QED BY <2>1, <2>2 DEF SyncInv, FrameInv, ServerMatchesRegistry
<1>3. ASSUME TimerFires PROVE SyncInv'
  <2>1. CASE LockFree /\ RunReconnect
    BY <2>1, RunSync DEF LockFree
  <2>2. CASE UNCHANGED <<connVars, lock, registry, snapshot, closed, served>>
    BY <1>0, <2>2, SyncKept
  <2> QED BY <1>3, <2>1, <2>2 DEF TimerFires, Enqueue
<1>4. ASSUME Acquire PROVE SyncInv'
  <2>1. Head(waiting) \in Tasks
    BY <1>4 DEF Acquire, MgrTypeOK
  <2>2. Head(waiting).op \in {"subscribe", "close"} => Head(waiting).handle \in Handles
    BY <2>1, TaskShape
  <2> QED BY <1>4, <2>2, RunSync DEF Acquire
<1>5. ASSUME CloseReturns PROVE SyncInv'
  <2>1. IsOpen' = IsOpen /\ (~closed => ~IsOpen)
    BY <1>5 DEF CloseReturns, ShutdownDone, ShutInv, IsOpen
  <2>2. CASE call["holder"] # "close"
    <3>1. call'["holder"] # "close"
      BY <1>5, <2>2 DEF CloseReturns, ShutdownDone, ConnTypeOK
    <3> QED BY <1>5, <2>1, <2>2, <3>1
            DEF CloseReturns, SyncInv, FrameInv, ServerMatchesRegistry
  <2>3. CASE lock' = NoTask
    <3>1. call["holder"] = "close" => call'["holder"] = "idle"
      BY <1>5 DEF CloseReturns, ShutdownDone, ConnTypeOK
    <3> QED BY <1>5, <2>1, <2>2, <2>3, <3>1
            DEF CloseReturns, SyncInv, FrameInv, ServerMatchesRegistry, NoTask
  <2> QED BY <1>5, <2>2, <2>3 DEF CloseReturns, Release
<1>6. ASSUME NEW s \in Sockets,
             \/ ConnectionLost(s) \/ Lose(s)
             \/ (SocketClosed(s) \/ ReaderClaims(s) \/ ReaderEnds(s)) /\ UNCHANGED mgrVars
      PROVE  SyncInv'
  <2>1. UNCHANGED <<call, lock, registry, snapshot, closed, served>>
    BY <1>6 DEF ConnectionLost, ReaderReportsLoss, Lose, LoseSocket, SocketClosed,
                ReaderClaims, ReaderEnds, mgrVars
  <2>2. IsOpen' => IsOpen
    BY <1>6, NoSocketAssumption
    DEF ConnectionLost, ReaderReportsLoss, Lose, LoseSocket, SocketClosed, ReaderClaims,
        ReaderEnds, IsOpen, ConnTypeOK, MaybeSocket
  <2> QED BY <2>1, <2>2, SyncKept
<1>7. ASSUME ShutdownClaim, UNCHANGED mgrVars PROVE SyncInv'
  <2>1. ~IsOpen' /\ call' = call
    BY <1>7 DEF ShutdownClaim, IsOpen
  <2> QED BY <1>7, <2>1, SyncKept DEF mgrVars
<1>8. ASSUME UNCHANGED vars PROVE SyncInv'
  BY <1>0, <1>8, SyncKept DEF vars, mgrVars
<1> QED BY <1>1, <1>2, <1>3, <1>4, <1>5, <1>6, <1>7, <1>8, AwaitedSync
        DEF Next, UserStep, TaskStep, ConnectionStep, ReaderLeaves

\* Whatever mix of initial frames, incremental frames and reconnects led to
\* an idle open socket, the server streams what the registry needs
\* (market.py:102-107, 147-160, 206-209); a failed credential lookup of a
\* subscribe() on other streams' socket is the exception, and the run
\* credential_failure shows it.
THEOREM ServerKnows ==
  ASSUME "credentials" \notin Hazards
  PROVE  Spec => []ServerMatchesRegistry
<1>1. TypeOK /\ ConnInv /\ ShutInv /\ SyncInv /\ [Next]_vars => SyncInv'
  BY NextSync
<1>2. SyncInv => ServerMatchesRegistry
  BY DEF SyncInv
<1> QED BY <1>1, <1>2, InitSync, Shutdowns, PTL DEF Spec

-----------------------------------------------------------------------------
(* No stream is stranded.                                                   *)

\* The streams that rely on somebody else's duty to reconnect: a subscribe()
\* that connects works for its own handle until it has a socket.
Relying == IF lock.op = "subscribe" /\ call["holder"] \in {"dial", "stale"}
           THEN registry \ {lock.handle} ELSE registry

\* Who has that duty: whoever may report the loss of the current socket, the
\* timer, a finalizer, a queued or running _reconnect(), or a subscribe() that
\* replaces a stale socket.
OnDuty ==
  \/ current # NoSocket
  \/ timer
  \/ \E s \in Sockets : reader[s] = "finalizing"
  \/ \E i \in 1..Len(waiting) : waiting[i] = Reconnect
  \/ lock = Reconnect /\ call["holder"] # "idle"
  \/ lock.op = "subscribe" /\ (call["holder"] = "stale" \/ dial = "redial")

DutyInv == ~closed /\ Relying # {} => OnDuty

\* Nobody relies on anything at first.
LEMMA InitDuty == Init => DutyInv
BY DEF Init, DutyInv, Relying, NoTask

\* A duty stays where it is when the connection and the lock do.
LEMMA DutyKept ==
  ASSUME DutyInv, UNCHANGED <<current, reader, dial, call, lock, timer, waiting, closed>>,
         registry' \subseteq registry
  PROVE  DutyInv'
BY DEF DutyInv, Relying, OnDuty

\* What a holder does first under the lock passes the duty on or keeps it; a
\* _reconnect() takes it over.
LEMMA RunDuty ==
  ASSUME TypeOK, ConnInv, DutyInv, lock = NoTask,
         \/ /\ \E h \in Handles : RunSubscribe(h) \/ RunClose(h)
            /\ \/ UNCHANGED timer \/ registry' = {}
            /\ \A i \in 1..Len(waiting) :
                 waiting[i] = Reconnect => \E j \in 1..Len(waiting') : waiting'[j] = Reconnect
         \/ RunReconnect
  PROVE  DutyInv'
<1> USE CallersAssumption DEF TypeOK
<1>0. Relying = registry /\ UNCHANGED closed
  BY DEF Relying, NoTask, RunSubscribe, RunClose, RunReconnect
<1>1. ConnectStale("holder") \/ ConnectDial("holder")
        => call'["holder"] \in {"stale", "dial"} /\ UNCHANGED <<current, reader>>
  BY DEF ConnectStale, ConnectDial, ConnTypeOK
<1>2. ASSUME NEW h \in Handles, RunSubscribe(h),
             \A i \in 1..Len(waiting) :
               waiting[i] = Reconnect => \E j \in 1..Len(waiting') : waiting'[j] = Reconnect
      PROVE  DutyInv'
  <2>1. CASE IsOpen /\ UNCHANGED connVars
    BY <2>1 DEF IsOpen, connVars, DutyInv, OnDuty
  <2>2. CASE (ConnectStale("holder") \/ ConnectDial("holder")) /\ lock' = SubscribeTask(h)
    <3>1. Relying' \subseteq registry
      BY <1>1, <1>2, <2>2 DEF RunSubscribe, Relying, SubscribeTask
    <3>2. ~closed /\ registry # {} => OnDuty'
      BY <1>0, <1>1, <1>2, <2>2 DEF RunSubscribe, DutyInv, OnDuty, NoTask, Reconnect
    <3> QED BY <1>0, <3>1, <3>2 DEF DutyInv
  <2> QED BY <1>2, <2>1, <2>2 DEF RunSubscribe
<1>3. ASSUME NEW h \in Handles, RunClose(h), UNCHANGED timer \/ registry' = {},
             \A i \in 1..Len(waiting) :
               waiting[i] = Reconnect => \E j \in 1..Len(waiting') : waiting'[j] = Reconnect
      PROVE  DutyInv'
  <2>1. CASE registry' = {}
    BY <2>1 DEF DutyInv, Relying
  <2>2. CASE registry' # {}
    <3>1. lock' = NoTask /\ UNCHANGED <<connVars, timer>> /\ registry' \subseteq registry
      BY <1>3, <2>2 DEF RunClose, Release
    <3> QED BY <1>0, <1>3, <3>1 DEF DutyInv, OnDuty, Relying, NoTask, Reconnect, connVars
  <2> QED BY <2>1, <2>2
<1>4. ASSUME RunReconnect PROVE DutyInv'
  <2>1. CASE ~ShouldReconnect \/ IsOpen
    <3>1. closed \/ registry = {} \/ (current # NoSocket /\ UNCHANGED current)
      BY <1>4, <2>1 DEF RunReconnect, ShouldReconnect, IsOpen, ConnectStale, ConnectDial,
                        connVars
    <3>2. Relying' \subseteq registry
      BY <1>4 DEF RunReconnect, Relying
    <3> QED BY <1>0, <3>1, <3>2 DEF DutyInv, OnDuty
  <2>2. CASE /\ ConnectStale("holder") \/ ConnectDial("holder")
             /\ lock' = Reconnect
    BY <1>1, <2>2 DEF DutyInv, OnDuty
  <2> QED BY <1>4, <2>1, <2>2 DEF RunReconnect
<1> QED BY <1>2, <1>3, <1>4

\* Only subscribe() and _reconnect() connect.
LEMMA Connecting ==
  ASSUME TypeOK, ConnInv, FrameInv
  PROVE  /\ lock.op = "reconnect" <=> lock = Reconnect
         /\ call["holder"] \in {"dial", "stale"} => lock.op = "subscribe" \/ lock = Reconnect
         /\ ~closed /\ call["holder"] = "close" => registry = {} \/ lock = Reconnect
<1>1. lock.op = "reconnect" <=> lock = Reconnect
  BY TaskShape DEF TypeOK, MgrTypeOK, NoTask, Reconnect
<1>2. lock = NoTask \/ lock = Reconnect \/ lock.op \in {"subscribe", "close"}
  BY TaskShape DEF TypeOK, MgrTypeOK
<1> QED BY <1>1, <1>2 DEF ConnInv, HolderInv, FrameInv

\* Every step keeps the duty, unless the redial of a subscribe() fails for
\* streams it has taken the duty from.
LEMMA NextDuty ==
  ASSUME TypeOK, ConnInv, ShutInv, FrameInv, DutyInv, [Next]_vars, "redial" \notin Hazards
  PROVE  DutyInv'
<1> USE CallersAssumption DEF TypeOK
<1>1. ASSUME NEW h \in Handles, Subscribe(h) \/ CloseHandle(h) PROVE DutyInv'
  <2>1. CASE LockFree /\ UNCHANGED waiting /\ RunSubscribe(h)
    BY <2>1, RunDuty DEF LockFree, RunSubscribe
  <2>2. CASE LockFree /\ UNCHANGED waiting /\ RunClose(h)
    BY <2>2, RunDuty DEF LockFree, RunClose
  <2>3. ASSUME NEW task \in Tasks, Enqueue(task), UNCHANGED <<connVars, timer, closed, registry>>
        PROVE  DutyInv'
    <3>1. \A i \in 1..Len(waiting) : i \in 1..Len(waiting') /\ waiting'[i] = waiting[i]
      BY <2>3 DEF Enqueue, MgrTypeOK
    <3> QED BY <2>3, <3>1 DEF Enqueue, DutyInv, OnDuty, Relying, connVars
  <2>4. SubscribeTask(h) \in Tasks /\ CloseTask(h) \in Tasks
    BY DEF Tasks
  <2> QED BY <1>1, <2>1, <2>2, <2>3, <2>4 DEF Subscribe, CloseHandle
<1>2. ASSUME ManagerClose \/ ManagerEndsHandles PROVE DutyInv'
  <2>1. closed'
    BY <1>2 DEF ManagerClose, ManagerEndsHandles, ShutInv
  <2> QED BY <2>1 DEF DutyInv
<1>3. ASSUME NEW s \in Sockets, SubscribeDialed(s) \/ ReconnectDialed(s) PROVE DutyInv'
  <2>1. current' # NoSocket
    BY <1>3, NoSocketAssumption DEF SubscribeDialed, ReconnectDialed, DialOk
  <2> QED BY <2>1 DEF DutyInv, OnDuty
<1>4. ASSUME SubscribeDialFails PROVE DutyInv'
  <2>1. /\ registry' = registry \ {lock.handle} /\ Relying = registry' /\ lock' = NoTask
        /\ UNCHANGED <<closed, current, reader, timer, waiting>>
    BY <1>4 DEF SubscribeDialFails, DialFail, Rollback, Release, Relying
  <2>2. Relying' = registry'
    BY <2>1 DEF Relying, NoTask
  <2>3. registry' # {} => dial # "redial"
    BY <1>4, <2>1 DEF SubscribeDialFails, Explored
  <2> QED BY <1>4, <2>1, <2>2, <2>3
          DEF SubscribeDialFails, DutyInv, OnDuty, NoTask, Reconnect
<1>5. ASSUME ReconnectDialFails PROVE DutyInv'
  <2>1. ~closed /\ registry # {} => timer'
    BY <1>5 DEF ReconnectDialFails, Schedule, ShouldReconnect, MgrTypeOK
  <2>2. Relying' \subseteq registry /\ UNCHANGED closed
    BY <1>5 DEF ReconnectDialFails, Relying
  <2> QED BY <2>1, <2>2 DEF DutyInv, OnDuty
<1>6. ASSUME SubscribeResolved \/ ReconnectResolved PROVE DutyInv'
  <2>1. call["holder"] = "idle" /\ dial = "idle"
    BY <1>6 DEF SubscribeResolved, ReconnectResolved, ConnInv, HolderInv, DialInv, ConnTypeOK
  <2> QED BY <1>6, <2>1 DEF SubscribeResolved, ReconnectResolved, Release, DutyInv, OnDuty,
                            Relying, connVars, NoTask, Reconnect
<1>7. ASSUME SubscribeUnresolved PROVE DutyInv'
  <2>1. call["holder"] = "idle" /\ dial = "idle"
    BY <1>7 DEF SubscribeUnresolved, ConnInv, HolderInv, DialInv, ConnTypeOK
  <2>2. CASE registry' = {}
    BY <2>2 DEF DutyInv, Relying
  <2>3. CASE registry' # {}
    <3>1. /\ lock' = NoTask /\ registry' \subseteq registry
          /\ UNCHANGED <<connVars, timer, waiting, closed>>
      BY <1>7, <2>3 DEF SubscribeUnresolved, Release, Rollback
    <3> QED BY <1>7, <2>1, <3>1
            DEF SubscribeUnresolved, DutyInv, OnDuty, Relying, connVars, NoTask, Reconnect
  <2> QED BY <2>2, <2>3
<1>8. ASSUME ReconnectUnresolved PROVE DutyInv'
  <2>1. lock' = Reconnect /\ call'["holder"] = "close"
    BY <1>8 DEF ReconnectUnresolved, CloseCall, ConnTypeOK
  <2> QED BY <2>1 DEF DutyInv, OnDuty
<1>9. ASSUME TimerFires PROVE DutyInv'
  <2>1. CASE ~ShouldReconnect /\ UNCHANGED <<closed, registry, lock, call>>
    BY <2>1 DEF ShouldReconnect, DutyInv, Relying
  <2>2. CASE LockFree /\ RunReconnect
    BY <2>2, RunDuty DEF LockFree
  <2>3. CASE Enqueue(Reconnect)
    <3>1. waiting'[Len(waiting')] = Reconnect /\ Len(waiting') \in 1..Len(waiting')
      BY <2>3 DEF Enqueue, MgrTypeOK, Tasks
    <3> QED BY <3>1 DEF DutyInv, OnDuty
  <2> QED BY <1>9, <2>1, <2>2, <2>3 DEF TimerFires, connVars
<1>10. ASSUME Acquire PROVE DutyInv'
  <2>1. /\ Head(waiting) \in Tasks /\ Head(waiting) = waiting[1]
        /\ \A i \in 1..Len(waiting) :
             i # 1 => i - 1 \in 1..Len(waiting') /\ waiting'[i - 1] = waiting[i]
    BY <1>10 DEF Acquire, MgrTypeOK
  <2>2. Head(waiting).op \in {"subscribe", "close"} =>
          /\ Head(waiting).handle \in Handles
          /\ \A i \in 1..Len(waiting) :
               waiting[i] = Reconnect => \E j \in 1..Len(waiting') : waiting'[j] = Reconnect
    BY <2>1, TaskShape DEF Reconnect
  <2>3. CASE Head(waiting).op = "subscribe" /\ RunSubscribe(Head(waiting).handle)
    BY <1>10, <2>2, <2>3, RunDuty DEF Acquire, RunSubscribe
  <2>4. CASE Head(waiting).op = "close" /\ RunClose(Head(waiting).handle)
    BY <1>10, <2>2, <2>4, RunDuty DEF Acquire, RunClose
  <2>5. CASE RunReconnect
    BY <1>10, <2>5, RunDuty DEF Acquire
  <2> QED BY <1>10, <2>3, <2>4, <2>5 DEF Acquire
<1>11. ASSUME CloseReturns PROVE DutyInv'
  <2>1. UNCHANGED <<current, reader, registry, closed, waiting>> /\ (timer => timer')
    BY <1>11 DEF CloseReturns, ShutdownDone, Schedule, MgrTypeOK
  <2>2. CASE call["holder"] = "close"
    <3>1. ~closed /\ registry # {} => timer'
      BY <1>11, <2>2, Connecting
      DEF CloseReturns, Schedule, ShouldReconnect, MgrTypeOK, Reconnect
    <3>2. Relying' \subseteq registry
      BY <2>1 DEF Relying
    <3> QED BY <2>1, <3>1, <3>2 DEF DutyInv, OnDuty
  <2>3. CASE call["holder"] = "stale"
    <3>1. dial = "idle"
      BY <2>3 DEF ConnInv, DialInv, ConnTypeOK
    <3>2. call'["holder"] = "dial" /\ dial' = "redial" /\ lock' = lock
      BY <1>11, <2>3, <3>1 DEF CloseReturns, ShutdownDone, ConnTypeOK
    <3> QED BY <2>3, <3>2, Connecting DEF DutyInv, OnDuty
  <2>4. CASE call["holder"] \in {"idle", "dial"}
    <3>1. /\ call'["holder"] = call["holder"] /\ lock' = lock
          /\ dial = "redial" => dial' = "redial"
      BY <1>11, <2>4 DEF CloseReturns, ShutdownDone, ConnTypeOK
    <3> QED BY <2>1, <3>1 DEF DutyInv, OnDuty, Relying
  <2> QED BY <2>2, <2>3, <2>4 DEF ConnTypeOK
<1>12. ASSUME NEW s \in Sockets, ConnectionLost(s) PROVE DutyInv'
  <2>1. ~closed /\ registry # {} => timer'
    BY <1>12 DEF ConnectionLost, Schedule, ShouldReconnect, MgrTypeOK
  <2>2. Relying' \subseteq registry /\ UNCHANGED closed
    BY <1>12 DEF ConnectionLost, Relying
  <2> QED BY <2>1, <2>2 DEF DutyInv, OnDuty
<1>13. ASSUME ShutdownClaim, UNCHANGED mgrVars PROVE DutyInv'
  <2>1. ~closed => call["holder"] \in {"stale", "close"}
    BY <1>13 DEF ShutdownClaim, ShutInv
  <2>2. call' = call /\ UNCHANGED <<lock, registry, closed>>
    BY <1>13 DEF ShutdownClaim, mgrVars
  <2> QED BY <2>1, <2>2, Connecting DEF DutyInv, OnDuty, Relying
<1>14. ASSUME NEW s \in Sockets, ReaderClaims(s), UNCHANGED mgrVars PROVE DutyInv'
  <2>1. reader'[s] = "finalizing"
    BY <1>14 DEF ReaderClaims, ConnTypeOK
  <2> QED BY <2>1 DEF DutyInv, OnDuty
<1>15. ASSUME NEW s \in Sockets, ReaderLeaves(s), UNCHANGED mgrVars PROVE DutyInv'
  <2>1. \A r \in Sockets : reader[r] = "finalizing" => reader'[r] = "finalizing"
    BY <1>15 DEF ReaderLeaves, ReaderEnds, ConnTypeOK
  <2> QED BY <1>15, <2>1 DEF ReaderLeaves, ReaderEnds, mgrVars, DutyInv, OnDuty, Relying
<1>16. ASSUME \/ \E s \in Sockets : Lose(s) \/ (SocketClosed(s) /\ UNCHANGED mgrVars)
              \/ UNCHANGED vars
       PROVE  DutyInv'
  BY <1>16, DutyKept DEF Lose, LoseSocket, SocketClosed, vars, connVars, mgrVars
<1> QED BY <1>1, <1>2, <1>3, <1>4, <1>5, <1>6, <1>7, <1>8, <1>9, <1>10, <1>11, <1>12, <1>13,
           <1>14, <1>15, <1>16
        DEF Next, UserStep, TaskStep, DialStep, CredentialsStep, ConnectionStep

\* on_connection_lost is suppressed on several paths (connection.py:196-224),
\* and each hands the duty to reconnect to someone, so registered streams are
\* never without a socket nobody is going to open; a failed redial of a
\* subscribe() is the exception, and the run redial_failure shows it.
THEOREM StreamsNotStranded ==
  ASSUME "redial" \notin Hazards
  PROVE  Spec => []NoStrandedStream
<1>1. /\ Init => SyncInv /\ DutyInv
      /\ TypeOK /\ ConnInv /\ ShutInv /\ SyncInv /\ DutyInv /\ [Next]_vars
           => (SyncInv /\ DutyInv)'
  BY InitSync, InitDuty, NextSync, NextDuty DEF SyncInv
<1>2. TypeOK /\ DutyInv => NoStrandedStream
  <2> SUFFICES ASSUME TypeOK, DutyInv, ~closed, registry # {} PROVE Recovering
    BY DEF NoStrandedStream
  <2>1. CASE Relying # {}
    <3>1. \A i \in 1..Len(waiting) : waiting # <<>>
      BY DEF TypeOK, MgrTypeOK
    <3> QED BY <2>1, <3>1 DEF DutyInv, OnDuty, Recovering, Reconnect, NoTask
  <2>2. CASE Relying = {}
    BY <2>2 DEF Relying, Recovering, NoTask
  <2> QED BY <2>1, <2>2
<1> QED BY <1>1, <1>2, Shutdowns, PTL DEF Spec

-----------------------------------------------------------------------------
(* close() leaves no open socket.                                           *)

\* A closed manager has no subscribe() that is yet to connect; one that dials
\* already is awaited by the shutdown of close(); and after close() only a
\* _reconnect() may still open a socket, which it closes at once.
CloseInv ==
  /\ closed => ~SubscribeUnderWay
  /\ shutdown = "drain" => dial = "idle" /\ current = NoSocket
  /\ closer = "waiting" /\ lock.op = "subscribe" /\ dial # "idle" => shutdown = "begin"
  /\ closer = "done" =>
       /\ dial # "idle" => lock = Reconnect
       /\ IsOpen => lock = Reconnect /\ call["holder"] = "close" /\ shutdown = "begin"

\* It holds at first.
LEMMA InitClose == Init => CloseInv
BY DEF Init, ConnInit, CloseInv

\* Steps that keep the calls, the lock and the shutdown, and open nothing.
LEMMA CloseKept ==
  ASSUME CloseInv, UNCHANGED <<call, lock, waiting, shutdown, dial, closed, closer>>,
         current' \in {current, NoSocket}, IsOpen' => IsOpen
  PROVE  CloseInv'
BY DEF CloseInv, SubscribeUnderWay

\* While the lock is free a closed manager starts no dial, and an open one has
\* no shutdown under way.
LEMMA FreeLock ==
  ASSUME TypeOK, ConnInv, ShutInv, CloseInv, lock = NoTask
  PROVE  /\ dial = "idle" /\ call["holder"] = "idle"
         /\ ~closed => shutdown = "idle" /\ closer = "idle"
         /\ closer = "done" => ~IsOpen
BY DEF TypeOK, ConnTypeOK, ConnInv, DialInv, HolderInv, ShutInv, CloseInv, NoTask, Reconnect

\* What a holder does first under the lock keeps it.
LEMMA RunClosing ==
  ASSUME TypeOK, ConnInv, ShutInv, CloseInv, lock = NoTask,
         \A i \in DOMAIN waiting' : closed => waiting'[i].op # "subscribe",
         \/ ~closed /\ \E h \in Handles : RunSubscribe(h)
         \/ \E h \in Handles : RunClose(h)
         \/ RunReconnect
  PROVE  CloseInv'
<1> USE CallersAssumption DEF TypeOK
<1>0. UNCHANGED <<closed, closer>>
  BY DEF RunSubscribe, RunClose, RunReconnect
<1>1. CASE ~closed
  <2>1. shutdown' # "drain"
    BY <1>1, FreeLock DEF RunSubscribe, RunClose, RunReconnect, ConnectStale, ConnectDial,
                          CloseCall, StartShutdown, connVars
  <2> QED BY <1>0, <1>1, <2>1, FreeLock DEF CloseInv
<1>2. CASE closed
  <2>1. CASE UNCHANGED connVars
    <3>1. lock' \in {NoTask, Reconnect} \cup {CloseTask(h) : h \in Handles}
      BY <1>2 DEF RunClose, RunReconnect, Release
    <3> QED BY <1>0, <2>1, <3>1, FreeLock
            DEF connVars, IsOpen, CloseInv, SubscribeUnderWay, NoTask, Reconnect, CloseTask
  <2>2. CASE CloseCall("holder") /\ \E h \in Handles : lock' = CloseTask(h)
    BY <1>0, <2>2, FreeLock
    DEF CloseCall, StartShutdown, IsOpen, CloseInv, SubscribeUnderWay, CloseTask
  <2> QED BY <1>2, <2>1, <2>2 DEF RunClose, RunReconnect, ShouldReconnect
<1> QED BY <1>1, <1>2

\* A closer that finds no subscribe() yet to connect keeps it.
LEMMA EndAllClose ==
  ASSUME TypeOK, ConnInv, ShutInv, CloseInv, EndAll, UNCHANGED <<lock, waiting>>,
         ~SubscribeUnderWay
  PROVE  CloseInv'
<1> USE CallersAssumption DEF TypeOK
<1>1. /\ UNCHANGED <<dial, current>> /\ closer' = "waiting"
      /\ call'["holder"] = call["holder"]
      /\ shutdown' = IF shutdown = "idle" THEN "begin" ELSE shutdown
  BY DEF EndAll, CloseCall, StartShutdown, ConnTypeOK
<1>2. shutdown' \in {"begin", "drain"}
  BY <1>1 DEF ConnTypeOK
<1> QED BY <1>1, <1>2 DEF CloseInv, SubscribeUnderWay

\* Every step keeps it, unless close() comes before a subscribe() dials.
LEMMA NextClose ==
  ASSUME TypeOK, ConnInv, ShutInv, FrameInv, CloseInv, [Next]_vars, "late" \notin Hazards
  PROVE  CloseInv'
<1> USE CallersAssumption DEF TypeOK
<1>0. UNCHANGED connVars => UNCHANGED <<call, shutdown, dial, current>> /\ IsOpen' = IsOpen
  BY DEF connVars, IsOpen
<1>1. ASSUME NEW h \in Handles, Subscribe(h) \/ CloseHandle(h) PROVE CloseInv'
  <2>1. CASE LockFree /\ UNCHANGED waiting /\ (RunSubscribe(h) \/ RunClose(h))
    BY <1>1, <2>1, RunClosing DEF LockFree, Subscribe, CloseHandle, CloseInv, SubscribeUnderWay
  <2>2. ASSUME NEW task \in Tasks, Enqueue(task), closed => task.op # "subscribe",
               UNCHANGED <<connVars, closed, closer>>
        PROVE  CloseInv'
    <3>1. \A i \in DOMAIN waiting' : waiting'[i] = task \/ \E j \in DOMAIN waiting :
                                                             waiting'[i] = waiting[j]
      BY <2>2 DEF Enqueue, MgrTypeOK
    <3> QED BY <1>0, <2>2, <3>1 DEF Enqueue, CloseInv, SubscribeUnderWay
  <2>3. SubscribeTask(h) \in Tasks /\ CloseTask(h) \in Tasks /\ CloseTask(h).op # "subscribe"
    BY DEF Tasks, CloseTask
  <2> QED BY <1>1, <2>1, <2>2, <2>3 DEF Subscribe, CloseHandle
<1>2. ASSUME ManagerClose PROVE CloseInv'
  <2>1. ~SubscribeUnderWay /\ UNCHANGED <<lock, waiting>>
    BY <1>2 DEF ManagerClose
  <2>2. CASE EndAll
    BY <2>1, <2>2, EndAllClose
  <2>3. CASE closer' = "stopping" /\ UNCHANGED connVars
    BY <1>0, <2>1, <2>3 DEF CloseInv, SubscribeUnderWay
  <2> QED BY <1>2, <2>2, <2>3 DEF ManagerClose
<1>3. ASSUME ManagerEndsHandles PROVE CloseInv'
  <2>1. ~SubscribeUnderWay
    BY <1>3 DEF ManagerEndsHandles, ShutInv, CloseInv
  <2> QED BY <1>3, <2>1, EndAllClose DEF ManagerEndsHandles
<1>4. ASSUME NEW s \in Sockets, SubscribeDialed(s) PROVE CloseInv'
  <2>1. call'["holder"] = "idle" /\ dial # "idle" /\ dial' = "idle"
    BY <1>4, DialOkDial DEF SubscribeDialed, ConnInv, DialOk
  <2>2. shutdown' # "drain" /\ closer # "done"
    BY <1>4, <2>1 DEF SubscribeDialed, DialOk, CloseInv, Reconnect
  <2> QED BY <1>4, <2>1, <2>2 DEF SubscribeDialed, CloseInv, SubscribeUnderWay
<1>5. ASSUME NEW s \in Sockets, ReconnectDialed(s) PROVE CloseInv'
  <2>1. dial # "idle" /\ dial' = "idle" /\ shutdown # "drain"
    BY <1>5 DEF ReconnectDialed, DialOk, CloseInv
  <2>2. CASE closed
    <3>1. call'["holder"] = "close" /\ shutdown' = "begin"
      BY <1>5, <2>1, <2>2 DEF ReconnectDialed, DialOk, StartShutdown, ConnTypeOK
    <3> QED BY <1>5, <2>1, <2>2, <3>1 DEF ReconnectDialed, CloseInv, SubscribeUnderWay
  <2>3. CASE ~closed
    <3>1. shutdown' = shutdown
      BY <1>5, <2>3 DEF ReconnectDialed, DialOk
    <3> QED BY <1>5, <2>1, <2>3, <3>1 DEF ReconnectDialed, CloseInv, ShutInv
  <2> QED BY <2>2, <2>3
<1>6. ASSUME SubscribeDialFails \/ ReconnectDialFails PROVE CloseInv'
  <2>1. /\ dial' = "idle" /\ ~IsOpen' /\ lock' = NoTask
        /\ UNCHANGED <<waiting, shutdown, current, closed, closer>>
    BY <1>6 DEF SubscribeDialFails, ReconnectDialFails, DialFail, Release, ConnInv, DialInv,
                IsOpen
  <2> QED BY <2>1 DEF CloseInv, SubscribeUnderWay, NoTask
<1>7. ASSUME CredentialsStep PROVE CloseInv'
  <2>1. call["holder"] = "idle" /\ dial = "idle" /\ dial' = "idle" /\ (closer = "done" => ~IsOpen)
    BY <1>7 DEF CredentialsStep, SubscribeResolved, SubscribeUnresolved, ReconnectResolved,
                ReconnectUnresolved, ConnInv, HolderInv, DialInv, connVars, CloseCall, CloseInv,
                ConnTypeOK
  <2>2. /\ UNCHANGED <<waiting, current, sock, closed, closer>> /\ lock' \in {lock, NoTask}
        /\ call'["holder"] \in {"idle", "close"}
        /\ shutdown' = "drain" => shutdown = "drain"
    BY <1>7, <2>1
    DEF CredentialsStep, SubscribeResolved, SubscribeUnresolved, ReconnectResolved,
        ReconnectUnresolved, connVars, CloseCall, StartShutdown, Release, ConnTypeOK
  <2> QED BY <2>1, <2>2 DEF CloseInv, SubscribeUnderWay, IsOpen
<1>8. ASSUME TimerFires PROVE CloseInv'
  <2>1. CASE LockFree /\ RunReconnect /\ UNCHANGED waiting
    BY <2>1, RunClosing DEF LockFree, CloseInv, SubscribeUnderWay
  <2>2. CASE UNCHANGED <<connVars, lock, waiting, closed, closer>>
    BY <1>0, <2>2, CloseKept
  <2>3. CASE Enqueue(Reconnect) /\ UNCHANGED <<connVars, closed, closer>>
    <3>1. \A i \in DOMAIN waiting' : waiting'[i] = Reconnect \/ \E j \in DOMAIN waiting :
                                                                  waiting'[i] = waiting[j]
      BY <2>3 DEF Enqueue, MgrTypeOK
    <3> QED BY <1>0, <2>3, <3>1 DEF Enqueue, CloseInv, SubscribeUnderWay, Reconnect
  <2> QED BY <1>8, <2>1, <2>2, <2>3 DEF TimerFires
<1>9. ASSUME Acquire PROVE CloseInv'
  <2>1. /\ Head(waiting) \in Tasks /\ Head(waiting) = waiting[1] /\ 1 \in DOMAIN waiting
        /\ \A i \in DOMAIN waiting' : \E j \in DOMAIN waiting : waiting'[i] = waiting[j]
    BY <1>9 DEF Acquire, MgrTypeOK
  <2>2. Head(waiting).op \in {"subscribe", "close"} => Head(waiting).handle \in Handles
    BY <2>1, TaskShape
  <2>3. closed => \A i \in DOMAIN waiting : waiting[i].op # "subscribe"
    BY DEF CloseInv, SubscribeUnderWay
  <2> QED BY <1>9, <2>1, <2>2, <2>3, RunClosing DEF Acquire
<1>10. ASSUME CloseReturns PROVE CloseInv'
  <2>1. /\ shutdown = "drain" /\ shutdown' = "idle" /\ dial = "idle" /\ ~IsOpen'
        /\ UNCHANGED <<waiting, closed>>
    BY <1>10 DEF CloseReturns, ShutdownDone, CloseInv, IsOpen
  <2>2. call'["holder"] # "stale"
    BY <1>10 DEF CloseReturns, ShutdownDone, ConnTypeOK
  <2>3. closer' # "waiting"
    BY <1>10 DEF CloseReturns, ShutInv
  <2>4. closed /\ dial' # "idle" => lock' = Reconnect
    <3>1. dial' # "idle" => call["holder"] = "stale"
      BY <1>10, <2>1 DEF CloseReturns, ShutdownDone, ConnInv, DialInv
    <3> QED BY <1>10, <3>1, Connecting DEF CloseReturns, CloseInv, SubscribeUnderWay
  <2>5. closer' = "done" => closed
    BY <1>10 DEF CloseReturns, ShutInv
  <2> QED BY <2>1, <2>2, <2>3, <2>4, <2>5 DEF CloseInv, SubscribeUnderWay
<1>11. ASSUME NEW s \in Sockets,
              \/ ConnectionLost(s) \/ Lose(s)
              \/ (SocketClosed(s) \/ ReaderClaims(s) \/ ReaderEnds(s)) /\ UNCHANGED mgrVars
       PROVE  CloseInv'
  <2>1. UNCHANGED <<call, lock, waiting, shutdown, dial, closed, closer>>
        /\ current' \in {current, NoSocket}
    BY <1>11 DEF ConnectionLost, ReaderReportsLoss, Lose, LoseSocket, SocketClosed,
                 ReaderClaims, ReaderEnds, mgrVars
  <2>2. IsOpen' => IsOpen
    BY <1>11, NoSocketAssumption
    DEF ConnectionLost, ReaderReportsLoss, Lose, LoseSocket, SocketClosed, ReaderClaims,
        ReaderEnds, IsOpen, ConnTypeOK, MaybeSocket
  <2> QED BY <2>1, <2>2, CloseKept
<1>12. ASSUME ShutdownClaim, UNCHANGED mgrVars PROVE CloseInv'
  BY <1>12 DEF ShutdownClaim, mgrVars, IsOpen, CloseInv, SubscribeUnderWay
<1>13. ASSUME UNCHANGED vars PROVE CloseInv'
  BY <1>0, <1>13, CloseKept DEF vars, mgrVars
<1> QED BY <1>1, <1>2, <1>3, <1>4, <1>5, <1>6, <1>7, <1>8, <1>9, <1>10, <1>11, <1>12, <1>13
        DEF Next, UserStep, TaskStep, DialStep, ConnectionStep, ReaderLeaves

\* Once close() returned and no task is under way no socket is open, a
\* _reconnect() that was dialing included (market.py:120-126, 200-203); a
\* subscribe() that had yet to dial is the exception, and the run
\* late_subscribe shows it.
THEOREM CloseIsComplete ==
  ASSUME "late" \notin Hazards
  PROVE  Spec => []CloseReleasesSocket
<1>1. /\ Init => SyncInv /\ CloseInv
      /\ TypeOK /\ ConnInv /\ ShutInv /\ SyncInv /\ CloseInv /\ [Next]_vars
           => (SyncInv /\ CloseInv)'
  BY InitSync, InitClose, NextSync, NextClose DEF SyncInv
<1>2. TypeOK /\ ConnInv /\ CloseInv => CloseReleasesSocket
  BY NoSocketAssumption
  DEF ConnInv, DialInv, OnlyCurrentIsOpen, IsOpen, CloseInv, CloseReleasesSocket, LockFree,
      NoTask, Reconnect
<1> QED BY <1>1, <1>2, Shutdowns, PTL DEF Spec

-----------------------------------------------------------------------------
(* Nobody waits in vain.                                                    *)

\* A reader runs as long as its socket is in use: it reads the current socket,
\* finalizes one that is closed, or is on its way out.
ReaderInv ==
  /\ \A s \in Sockets : /\ sock[s] = "free" => reader[s] = "none"
                        /\ sock[s] = "open" => reader[s] = "reading"
                        /\ reader[s] = "finalizing" => sock[s] = "closed" /\ current # s
  /\ current # NoSocket => /\ reader[current] = "reading" /\ sock[current] # "free"
                           /\ readerTask = current
  /\ readerTask # NoSocket /\ readerTask # current => reader[readerTask] = "finalizing"

\* What a shutdown awaits past its claim: a socket that is closing, and a reader
\* whose socket is no longer the connection's.
DrainInv ==
  /\ draining # NoSocket => shutdown = "drain" /\ sock[draining] = "closing"
  /\ drainReader # NoSocket => /\ shutdown = "drain" /\ drainReader # current
                               /\ reader[drainReader] # "none"
                               /\ sock[drainReader] \in {"closing", "closed"}

\* Who awaits a shutdown awaits one that is there.
CallInv == \A c \in Callers : call[c] \in {"stale", "close"} => shutdown # "idle"

GroundInv == OnlyCurrentIsOpen /\ ReaderInv /\ DrainInv /\ CallInv

\* It holds at first.
LEMMA InitGround == Init => GroundInv
BY NoSocketAssumption
DEF Init, ConnInit, GroundInv, OnlyCurrentIsOpen, ReaderInv, DrainInv, CallInv

\* The calls of the connection keep it (connection.py:69-151).
LEMMA CallGround ==
  ASSUME ConnTypeOK, GroundInv, NEW c \in Callers,
         ConnectStale(c) \/ ConnectDial(c) \/ CloseCall(c) \/ DialFail \/ UNCHANGED connVars
  PROVE  GroundInv'
<1>1. UNCHANGED <<sock, current, reader, readerTask, draining, drainReader>>
  BY DEF ConnectStale, ConnectDial, CloseCall, DialFail, connVars
<1>2. shutdown' = shutdown \/ (shutdown = "idle" /\ shutdown' = "begin")
  BY DEF ConnectStale, ConnectDial, CloseCall, DialFail, StartShutdown, connVars
<1>3. OnlyCurrentIsOpen' /\ ReaderInv' /\ DrainInv'
  BY <1>1, <1>2 DEF GroundInv, OnlyCurrentIsOpen, ReaderInv, DrainInv
<1>4. CallInv'
  BY DEF ConnectStale, ConnectDial, CloseCall, DialFail, StartShutdown, connVars, GroundInv,
         CallInv, ConnTypeOK
<1> QED BY <1>3, <1>4 DEF GroundInv

\* A dial that succeeds brings a socket of its own, with its reader.
LEMMA DialGround ==
  ASSUME ConnTypeOK, GroundInv, OnlyCurrentIsOpen', NEW s \in Sockets,
         NEW closers \in SUBSET Callers, DialOk(s, closers)
  PROVE  GroundInv'
<1>1. /\ sock[s] = "free" /\ reader[s] = "none" /\ s # NoSocket
      /\ s # draining /\ s # drainReader
  BY NoSocketAssumption DEF DialOk, GroundInv, ReaderInv, DrainInv
<1>2. /\ sock' = [sock EXCEPT ![s] = "open"] /\ reader' = [reader EXCEPT ![s] = "reading"]
      /\ current' = s /\ readerTask' = s /\ UNCHANGED <<draining, drainReader>>
  BY DEF DialOk
<1>3. shutdown # "idle" => shutdown' = shutdown
  BY DEF DialOk, StartShutdown
<1>4. ReaderInv'
  BY <1>1, <1>2 DEF GroundInv, ReaderInv, ConnTypeOK
<1>5. DrainInv'
  BY <1>1, <1>2, <1>3 DEF GroundInv, DrainInv, ConnTypeOK, MaybeSocket
<1>6. CallInv'
  BY DEF DialOk, StartShutdown, GroundInv, CallInv, ConnTypeOK
<1> QED BY <1>4, <1>5, <1>6 DEF GroundInv

\* The claim takes the socket and its reader, and the end of the shutdown lets
\* everybody go (connection.py:247-277).
LEMMA ShutdownGround ==
  ASSUME ConnTypeOK, GroundInv, ShutdownClaim \/ ShutdownDone
  PROVE  GroundInv'
<1>1. CASE ShutdownClaim
  <2>1. /\ shutdown = "begin" /\ shutdown' = "drain"
        /\ draining = NoSocket /\ drainReader = NoSocket
        /\ draining' = IF current # NoSocket /\ sock[current] # "closed"
                       THEN current ELSE NoSocket
        /\ drainReader' = readerTask /\ readerTask' = NoSocket /\ current' = NoSocket
        /\ sock' = [s \in Sockets |-> IF s = current /\ sock[s] = "open"
                                      THEN "closing" ELSE sock[s]]
        /\ UNCHANGED <<reader, call>>
    BY <1>1 DEF ShutdownClaim, GroundInv, DrainInv
  <2>2. OnlyCurrentIsOpen' /\ CallInv'
    BY <2>1 DEF GroundInv, OnlyCurrentIsOpen, CallInv
  <2>3. ReaderInv'
    BY <2>1, NoSocketAssumption DEF GroundInv, ReaderInv, ConnTypeOK, MaybeSocket
  <2>4. draining' # NoSocket => sock'[draining'] = "closing"
    BY <2>1 DEF GroundInv, ReaderInv, ConnTypeOK, MaybeSocket
  <2>5. ASSUME drainReader' # NoSocket
        PROVE  reader[drainReader'] # "none" /\ sock'[drainReader'] \in {"closing", "closed"}
    <3>1. readerTask \in Sockets
      BY <2>1, <2>5 DEF ConnTypeOK, MaybeSocket
    <3>2. CASE readerTask = current
      BY <2>1, <3>1, <3>2, NoSocketAssumption DEF GroundInv, ReaderInv, ConnTypeOK
    <3>3. CASE readerTask # current
      BY <2>1, <3>1, <3>3, NoSocketAssumption DEF GroundInv, ReaderInv, ConnTypeOK
    <3> QED BY <3>2, <3>3
  <2> QED BY <2>1, <2>2, <2>3, <2>4, <2>5 DEF GroundInv, DrainInv
<1>2. CASE ShutdownDone
  <2>1. UNCHANGED <<sock, current, reader, readerTask, draining, drainReader>>
        /\ draining = NoSocket /\ drainReader = NoSocket
    BY <1>2 DEF ShutdownDone
  <2>2. OnlyCurrentIsOpen' /\ ReaderInv' /\ DrainInv'
    BY <2>1 DEF GroundInv, OnlyCurrentIsOpen, ReaderInv, DrainInv
  <2>3. CallInv'
    BY <1>2 DEF ShutdownDone, CallInv, ConnTypeOK
  <2> QED BY <2>2, <2>3 DEF GroundInv
<1> QED BY <1>1, <1>2

\* A socket that ends, and its reader (connection.py:155-191).
LEMMA SocketGround ==
  ASSUME ConnTypeOK, GroundInv, NEW s \in Sockets,
         LoseSocket(s) \/ SocketClosed(s) \/ ReaderClaims(s) \/ ReaderReportsLoss(s)
           \/ ReaderLeaves(s)
  PROVE  GroundInv'
<1> USE NoSocketAssumption
<1>1. OnlyCurrentIsOpen' /\ CallInv'
  BY DEF LoseSocket, SocketClosed, ReaderClaims, ReaderReportsLoss, ReaderLeaves, ReaderEnds,
         GroundInv, OnlyCurrentIsOpen, CallInv, ConnTypeOK
<1>2. CASE LoseSocket(s)
  BY <1>1, <1>2 DEF LoseSocket, GroundInv, ReaderInv, DrainInv, ConnTypeOK, MaybeSocket
<1>3. CASE SocketClosed(s)
  BY <1>1, <1>3 DEF SocketClosed, GroundInv, ReaderInv, DrainInv, ConnTypeOK, MaybeSocket
<1>4. CASE ReaderClaims(s)
  BY <1>1, <1>4 DEF ReaderClaims, GroundInv, ReaderInv, DrainInv, ConnTypeOK, MaybeSocket
<1>5. CASE ReaderReportsLoss(s) \/ ReaderLeaves(s)
  <2>1. ReaderEnds(s) /\ current # s /\ sock[s] # "open"
    BY <1>5 DEF ReaderReportsLoss, ReaderLeaves, GroundInv, OnlyCurrentIsOpen, ReaderInv
  <2>2. ReaderInv'
    BY <2>1 DEF ReaderEnds, GroundInv, ReaderInv, ConnTypeOK, MaybeSocket
  <2>3. DrainInv'
    BY <2>1 DEF ReaderEnds, GroundInv, DrainInv, ConnTypeOK, MaybeSocket
  <2> QED BY <1>1, <2>2, <2>3 DEF GroundInv
<1> QED BY <1>2, <1>3, <1>4, <1>5

\* Every step keeps it.
LEMMA NextGround ==
  TypeOK /\ ConnInv /\ ConnInv' /\ GroundInv /\ [Next]_vars => GroundInv'
<1> SUFFICES ASSUME TypeOK, ConnInv, ConnInv', GroundInv, [Next]_vars PROVE GroundInv'
  OBVIOUS
<1> USE CallersAssumption DEF TypeOK
<1>1. ASSUME \/ \E c \in Callers : ConnectStale(c) \/ ConnectDial(c) \/ CloseCall(c)
             \/ DialFail \/ UNCHANGED connVars
      PROVE  GroundInv'
  BY <1>1, CallGround
<1>2. ASSUME NEW s \in Sockets, SubscribeDialed(s) \/ ReconnectDialed(s) PROVE GroundInv'
  BY <1>2, DialGround DEF SubscribeDialed, ReconnectDialed, ConnInv, DialInv
<1>3. ASSUME UserStep PROVE GroundInv'
  BY <1>1, <1>3 DEF UserStep, Subscribe, CloseHandle, RunSubscribe, RunClose, ManagerClose, EndAll
<1>4. ASSUME SubscribeDialFails \/ ReconnectDialFails \/ CredentialsStep PROVE GroundInv'
  BY <1>1, <1>4 DEF SubscribeDialFails, ReconnectDialFails, CredentialsStep, SubscribeResolved,
     SubscribeUnresolved, ReconnectResolved, ReconnectUnresolved
<1>5. ASSUME TimerFires \/ Acquire \/ ManagerEndsHandles PROVE GroundInv'
  BY <1>1, <1>5 DEF TimerFires, Acquire, ManagerEndsHandles, RunSubscribe, RunClose,
     RunReconnect, EndAll
<1>6. ASSUME CloseReturns \/ ShutdownClaim PROVE GroundInv'
  BY <1>6, ShutdownGround DEF CloseReturns
<1>7. ASSUME NEW s \in Sockets,
             \/ ConnectionLost(s) \/ Lose(s)
             \/ SocketClosed(s) \/ ReaderClaims(s) \/ ReaderLeaves(s)
      PROVE  GroundInv'
  BY <1>7, SocketGround DEF ConnectionLost, Lose
<1>8. UNCHANGED vars => UNCHANGED connVars
  BY DEF vars
<1> QED BY <1>1, <1>2, <1>3, <1>4, <1>5, <1>6, <1>7, <1>8 DEF Next, TaskStep, DialStep,
        ConnectionStep

-----------------------------------------------------------------------------
(* Who waits for the lock, and what its holder waits for.                   *)

\* The holder awaits credentials or its connection; a subscribe() that closes
\* the connection has been rolled back.
BusyInv ==
  /\ lock # NoTask => resolving \/ call["holder"] # "idle"
  /\ lock.op = "subscribe" /\ call["holder"] = "close" => phase[lock.handle] = "failed"

\* Steps that concern the task of one handle at most leave the others theirs.
LEMMA TasksKept ==
  ASSUME TaskInv, NEW h \in Handles,
         \A g \in Handles \ {h} : phase'[g] = phase[g],
         \A g \in Handles \ {h} : \A task \in {SubscribeTask(g), CloseTask(g)} :
           HasTask(task) => HasTask(task)',
         phase'[h] = "subscribing" => HasTask(SubscribeTask(h))',
         phase'[h] = "closing" => HasTask(CloseTask(h))'
  PROVE  TaskInv'
BY DEF TaskInv

\* The tasks of other handles are neither free locks nor a reconnect.
LEMMA OtherTasks ==
  ASSUME NEW h, NEW g, g # h, NEW task \in {SubscribeTask(g), CloseTask(g)}
  PROVE  task \notin {NoTask, Reconnect, SubscribeTask(h), CloseTask(h)} /\ OfHandle(task)
BY DEF SubscribeTask, CloseTask, NoTask, Reconnect, OfHandle

\* A task that queues up stands in line behind the others.
LEMMA TaskAppended ==
  ASSUME TypeOK, NEW task \in Tasks, Enqueue(task)
  PROVE  HasTask(task)' /\ \A other : HasTask(other) => HasTask(other)'
<1>1. /\ Len(waiting) \in Nat /\ Len(waiting') = Len(waiting) + 1 /\ lock' = lock
      /\ \A i \in 1..Len(waiting) : waiting'[i] = waiting[i] /\ i \in 1..Len(waiting')
      /\ waiting'[Len(waiting')] = task /\ Len(waiting') \in 1..Len(waiting')
  BY DEF Enqueue, TypeOK, MgrTypeOK
<1> QED BY <1>1 DEF HasTask

\* Only the first in line leaves it.
LEMMA TaskTaken ==
  ASSUME TypeOK, lock = NoTask, waiting # <<>>, waiting' = Tail(waiting)
  PROVE  \A other : other \notin {NoTask, Head(waiting)} /\ HasTask(other) => HasTask(other)'
<1>1. /\ Len(waiting) \in Nat \ {0} /\ Len(waiting') = Len(waiting) - 1
      /\ Head(waiting) = waiting[1]
      /\ \A i \in 1..Len(waiting') : waiting'[i] = waiting[i + 1]
  BY DEF TypeOK, MgrTypeOK
<1>2. \A i \in 1..Len(waiting) : i # 1 => i - 1 \in 1..Len(waiting') /\ waiting'[i - 1] = waiting[i]
  BY <1>1
<1> QED BY <1>1, <1>2 DEF HasTask

\* What a call does first under the lock: it is over, or it holds the lock.
LEMMA RunTask ==
  ASSUME TypeOK, ConnInv, lock = NoTask
  PROVE  /\ \A h \in Handles : RunSubscribe(h) =>
              /\ BusyInv' /\ \A g \in Handles \ {h} : phase'[g] = phase[g]
              /\ \/ phase'[h] = "live"
                 \/ phase'[h] = "subscribing" /\ lock' = SubscribeTask(h)
         /\ \A h \in Handles : RunClose(h) =>
              /\ BusyInv' /\ \A g \in Handles \ {h} : phase'[g] = phase[g]
              /\ \/ phase'[h] = "closed"
                 \/ phase'[h] = "closing" /\ lock' = CloseTask(h)
         /\ RunReconnect => BusyInv' /\ phase' = phase
<1> USE CallersAssumption DEF TypeOK
<1>1. ASSUME NEW h \in Handles, RunSubscribe(h)
      PROVE  /\ BusyInv' /\ \A g \in Handles \ {h} : phase'[g] = phase[g]
             /\ \/ phase'[h] = "live"
                \/ phase'[h] = "subscribing" /\ lock' = SubscribeTask(h)
  <2>1. \/ lock' = NoTask
        \/ lock' = SubscribeTask(h) /\ call'["holder"] \in {"stale", "dial"}
    BY <1>1 DEF RunSubscribe, Release, ConnectStale, ConnectDial, ConnTypeOK
  <2>2. BusyInv'
    BY <2>1 DEF BusyInv, NoTask, SubscribeTask
  <2>3. /\ \A g \in Handles \ {h} : phase'[g] = phase[g]
        /\ \/ phase'[h] = "live"
           \/ phase'[h] = "subscribing" /\ lock' = SubscribeTask(h)
    BY <1>1 DEF RunSubscribe, MgrTypeOK
  <2> QED BY <2>2, <2>3
<1>2. ASSUME NEW h \in Handles, RunClose(h)
      PROVE  /\ BusyInv' /\ \A g \in Handles \ {h} : phase'[g] = phase[g]
             /\ \/ phase'[h] = "closed"
                \/ phase'[h] = "closing" /\ lock' = CloseTask(h)
  <2>1. lock' = NoTask \/ (lock' = CloseTask(h) /\ call'["holder"] = "close")
    BY <1>2 DEF RunClose, Release, CloseCall, ConnTypeOK
  <2>2. BusyInv'
    BY <2>1 DEF BusyInv, NoTask, CloseTask
  <2>3. /\ \A g \in Handles \ {h} : phase'[g] = phase[g]
        /\ \/ phase'[h] = "closed"
           \/ phase'[h] = "closing" /\ lock' = CloseTask(h)
    BY <1>2 DEF RunClose, MgrTypeOK
  <2> QED BY <2>2, <2>3
<1>3. ASSUME RunReconnect PROVE BusyInv' /\ phase' = phase
  <2>1. lock' = NoTask \/ (lock' = Reconnect /\ call'["holder"] \in {"stale", "dial"})
    BY <1>3 DEF RunReconnect, Release, ConnectStale, ConnectDial, ConnTypeOK
  <2> QED BY <1>3, <2>1 DEF RunReconnect, BusyInv, NoTask, Reconnect
<1> QED BY <1>1, <1>2, <1>3

\* Calls and tasks are as they were.
LEMMA TasksUnchanged ==
  ASSUME TaskInv, phase' = phase,
         \A h \in Handles : \A task \in {SubscribeTask(h), CloseTask(h)} :
           HasTask(task) => HasTask(task)'
  PROVE  TaskInv'
BY DEF TaskInv

\* The holder and its connection are as they were.
LEMMA BusyKept ==
  ASSUME BusyInv, UNCHANGED <<lock, resolving>>, call'["holder"] = call["holder"],
         OfHandle(lock) => phase'[lock.handle] = phase[lock.handle]
  PROVE  BusyInv'
BY DEF BusyInv, OfHandle

CallsInv == TaskInv /\ BusyInv

\* Nobody has called at first.
LEMMA InitCalls == Init => CallsInv
BY DEF Init, CallsInv, TaskInv, BusyInv, NoTask

\* A call that runs or queues up.
LEMMA UserCalls == TypeOK /\ ConnInv /\ LifeInv /\ CallsInv /\ UserStep => CallsInv'
<1> SUFFICES ASSUME TypeOK, ConnInv, LifeInv, CallsInv, UserStep PROVE CallsInv'
  OBVIOUS
<1> USE CallersAssumption
<1>1. ASSUME NEW h \in Handles, LockFree,
             \A g \in Handles \ {h} : phase'[g] = phase[g], BusyInv',
             \/ phase'[h] \in {"live", "closed"}
             \/ phase'[h] = "subscribing" /\ lock' = SubscribeTask(h)
             \/ phase'[h] = "closing" /\ lock' = CloseTask(h)
      PROVE  CallsInv'
  <2>1. \A g \in Handles : ~HasTask(SubscribeTask(g)) /\ ~HasTask(CloseTask(g))
    BY <1>1 DEF LockFree, HasTask, NoTask, SubscribeTask, CloseTask
  <2>2. /\ phase'[h] = "subscribing" => HasTask(SubscribeTask(h))'
        /\ phase'[h] = "closing" => HasTask(CloseTask(h))'
    BY <1>1 DEF HasTask
  <2> QED BY <1>1, <2>1, <2>2, TasksKept DEF CallsInv
<1>2. ASSUME NEW h \in Handles, NEW task \in {SubscribeTask(h), CloseTask(h)}, Enqueue(task),
             UNCHANGED <<connVars, resolving>>,
             phase' = [phase EXCEPT ![h] = IF task = SubscribeTask(h) THEN "subscribing" ELSE "closing"],
             phase[h] \notin {"subscribing", "closing", "failed"}
      PROVE  CallsInv'
  <2>1. /\ \A g \in Handles \ {h} : phase'[g] = phase[g]
        /\ phase'[h] = IF task = SubscribeTask(h) THEN "subscribing" ELSE "closing"
    BY <1>2 DEF TypeOK, MgrTypeOK
  <2>2. task \in Tasks /\ HasTask(task)' /\ \A other : HasTask(other) => HasTask(other)'
    BY <1>2, TaskAppended DEF Tasks
  <2>3. TaskInv'
    <3>1. /\ phase'[h] = "subscribing" => task = SubscribeTask(h)
          /\ phase'[h] = "closing" => task = CloseTask(h)
      BY <1>2, <2>1
    <3> QED BY <2>1, <2>2, <3>1, TasksKept DEF CallsInv
  <2>4. OfHandle(lock) => lock.handle \in Handles \ {h}
    BY <1>2, TaskShape DEF LifeInv, LockInv, OfHandle, TypeOK, MgrTypeOK
  <2>5. BusyInv'
    BY <1>2, <2>1, <2>4, BusyKept DEF CallsInv, Enqueue, connVars
  <2> QED BY <2>3, <2>5 DEF CallsInv
<1>3. ASSUME NEW h \in Handles, Subscribe(h) PROVE CallsInv'
  <2>1. CASE LockFree /\ RunSubscribe(h)
    BY <1>1, <2>1, RunTask DEF LockFree
  <2>2. CASE ~LockFree
    BY <1>2, <1>3, <2>2 DEF Subscribe
  <2> QED BY <1>3, <2>1, <2>2 DEF Subscribe
<1>4. ASSUME NEW h \in Handles, CloseHandle(h) PROVE CallsInv'
  <2>1. CASE LockFree /\ RunClose(h)
    BY <1>1, <2>1, RunTask DEF LockFree
  <2>2. CASE ~LockFree
    <3>1. CloseTask(h) # SubscribeTask(h)
      BY DEF SubscribeTask, CloseTask
    <3> QED BY <1>2, <1>4, <2>2, <3>1 DEF CloseHandle
  <2> QED BY <1>4, <2>1, <2>2 DEF CloseHandle
<1>5. ASSUME ManagerClose PROVE CallsInv'
  <2>1. UNCHANGED <<phase, lock, waiting, resolving>> /\ call'["holder"] = call["holder"]
    BY <1>5, ConnDial DEF ManagerClose, EndAll, ConnInv, TypeOK
  <2> QED BY <2>1, TasksUnchanged, BusyKept DEF CallsInv, HasTask
<1> QED BY <1>3, <1>4, <1>5 DEF UserStep

\* The end of what the holder awaits.
LEMMA AwaitedCalls ==
  TypeOK /\ ConnInv /\ LifeInv /\ CallsInv /\ (DialStep \/ CredentialsStep) => CallsInv'
<1> SUFFICES ASSUME TypeOK, ConnInv, LifeInv, CallsInv, DialStep \/ CredentialsStep
             PROVE  CallsInv'
  OBVIOUS
<1> USE CallersAssumption DEF TypeOK
\* It gives the lock back, or goes on to something else.
<1>1. ASSUME lock.op = "subscribe", UNCHANGED waiting, lock' \in {lock, NoTask},
             \/ phase' = phase /\ lock' = lock
             \/ phase' = [phase EXCEPT ![lock.handle] = "live"]
             \/ phase' = [phase EXCEPT ![lock.handle] = "failed"]
      PROVE  TaskInv'
  <2>1. lock.handle \in Handles /\ lock = SubscribeTask(lock.handle)
    BY <1>1, TaskShape DEF MgrTypeOK
  <2>2. CASE phase' = phase /\ lock' = lock
    BY <1>1, <2>2, TasksUnchanged DEF CallsInv, HasTask
  <2>3. CASE \/ phase' = [phase EXCEPT ![lock.handle] = "live"]
             \/ phase' = [phase EXCEPT ![lock.handle] = "failed"]
    <3>1. /\ \A g \in Handles \ {lock.handle} : phase'[g] = phase[g]
          /\ phase'[lock.handle] \in {"live", "failed"}
      BY <2>1, <2>3 DEF MgrTypeOK
    <3>2. \A g \in Handles \ {lock.handle} : \A task \in {SubscribeTask(g), CloseTask(g)} :
            HasTask(task) => HasTask(task)'
      BY <1>1, <2>1, OtherTasks DEF HasTask
    <3> QED BY <2>1, <3>1, <3>2, TasksKept DEF CallsInv
  <2> QED BY <1>1, <2>2, <2>3
<1>2. ASSUME lock = Reconnect, UNCHANGED <<phase, waiting>>
      PROVE  TaskInv'
  BY <1>2, TasksUnchanged DEF CallsInv, HasTask, SubscribeTask, CloseTask, Reconnect
<1>3. ASSUME lock' = NoTask PROVE BusyInv'
  BY <1>3 DEF BusyInv, NoTask
<1>4. ASSUME NEW s \in Sockets, SubscribeDialed(s) PROVE CallsInv'
  <2>1. TaskInv'
    BY <1>1, <1>4 DEF SubscribeDialed, Release
  <2>2. call'["holder"] = "idle"
    BY <1>4, DialOkDial DEF SubscribeDialed, ConnInv
  <2>3. BusyInv'
    BY <1>3, <1>4, <2>2 DEF SubscribeDialed, Release, BusyInv
  <2> QED BY <2>1, <2>3 DEF CallsInv
<1>5. ASSUME NEW s \in Sockets, ReconnectDialed(s) PROVE CallsInv'
  <2>1. TaskInv'
    BY <1>2, <1>5 DEF ReconnectDialed
  <2>2. closed => call'["holder"] = "close"
    BY <1>5, DialOkDial DEF ReconnectDialed, ConnInv
  <2>3. BusyInv'
    BY <1>3, <1>5, <2>2 DEF ReconnectDialed, Release, BusyInv, Reconnect
  <2> QED BY <2>1, <2>3 DEF CallsInv
<1>6. ASSUME SubscribeDialFails \/ SubscribeResolved PROVE CallsInv'
  <2>1. TaskInv' /\ lock' = NoTask
    BY <1>1, <1>6 DEF SubscribeDialFails, SubscribeResolved, Rollback, Release
  <2> QED BY <1>3, <2>1 DEF CallsInv
<1>7. ASSUME SubscribeUnresolved PROVE CallsInv'
  <2>1. TaskInv'
    BY <1>1, <1>7 DEF SubscribeUnresolved, Rollback, Release
  <2>2. phase'[lock.handle] = "failed"
    BY <1>7, TaskShape DEF SubscribeUnresolved, Rollback, MgrTypeOK
  <2>3. lock' = NoTask \/ (lock' = lock /\ call'["holder"] = "close")
    BY <1>7 DEF SubscribeUnresolved, Release, CloseCall, ConnTypeOK
  <2>4. BusyInv'
    BY <1>3, <2>2, <2>3 DEF BusyInv
  <2> QED BY <2>1, <2>4 DEF CallsInv
<1>8. ASSUME ReconnectDialFails \/ ReconnectResolved \/ ReconnectUnresolved PROVE CallsInv'
  <2>1. TaskInv'
    BY <1>2, <1>8 DEF ReconnectDialFails, ReconnectResolved, ReconnectUnresolved
  <2>2. \/ lock' = NoTask
        \/ lock' = Reconnect /\ call'["holder"] = "close"
    BY <1>8 DEF ReconnectDialFails, ReconnectResolved, ReconnectUnresolved, Release, CloseCall,
       ConnTypeOK
  <2>3. BusyInv'
    BY <1>3, <2>2 DEF BusyInv, Reconnect
  <2> QED BY <2>1, <2>3 DEF CallsInv
<1> QED BY <1>4, <1>5, <1>6, <1>7, <1>8 DEF DialStep, CredentialsStep

\* Every step.
LEMMA NextCalls == TypeOK /\ ConnInv /\ LifeInv /\ CallsInv /\ [Next]_vars => CallsInv'
<1> SUFFICES ASSUME TypeOK, ConnInv, LifeInv, CallsInv, [Next]_vars PROVE CallsInv'
  OBVIOUS
<1> USE CallersAssumption
<1>1. ASSUME UNCHANGED <<phase, lock, waiting, resolving>>, call'["holder"] = call["holder"]
      PROVE  CallsInv'
  BY <1>1, TasksUnchanged, BusyKept DEF CallsInv, HasTask
<1>2. ASSUME TimerFires PROVE CallsInv'
  <2>1. CASE UNCHANGED <<connVars, phase, lock, waiting, resolving>>
    BY <1>1, <2>1 DEF connVars
  <2>2. CASE LockFree /\ RunReconnect
    <3>1. BusyInv' /\ phase' = phase
      BY <2>2, RunTask DEF LockFree
    <3>2. \A h \in Handles : ~HasTask(SubscribeTask(h)) /\ ~HasTask(CloseTask(h))
      BY <2>2 DEF LockFree, HasTask, NoTask, SubscribeTask, CloseTask
    <3> QED BY <3>1, <3>2, TasksUnchanged DEF CallsInv
  <2>3. CASE Enqueue(Reconnect) /\ UNCHANGED <<connVars, phase, resolving>>
    <3>1. \A other : HasTask(other) => HasTask(other)'
      BY <2>3, TaskAppended DEF Tasks
    <3>2. TaskInv'
      BY <2>3, <3>1, TasksUnchanged DEF CallsInv
    <3>3. BusyInv'
      BY <2>3, BusyKept DEF CallsInv, Enqueue, connVars
    <3> QED BY <3>2, <3>3 DEF CallsInv
  <2> QED BY <1>2, <2>1, <2>2, <2>3 DEF TimerFires
<1>3. ASSUME Acquire PROVE CallsInv'
  <2> DEFINE first == Head(waiting)
  <2>1. /\ lock = NoTask /\ waiting # <<>> /\ waiting' = Tail(waiting) /\ first \in Tasks
        /\ \/ first.op = "subscribe" /\ RunSubscribe(first.handle)
           \/ first.op = "close" /\ RunClose(first.handle)
           \/ first.op = "reconnect" /\ RunReconnect
    BY <1>3 DEF Acquire, TypeOK, MgrTypeOK
  <2> HIDE DEF first
  <2>2. \A other : other \notin {NoTask, first} /\ HasTask(other) => HasTask(other)'
    BY <2>1, TaskTaken DEF first
  <2>3. ASSUME NEW h \in Handles, first \in {SubscribeTask(h), CloseTask(h)}, BusyInv',
               \A g \in Handles \ {h} : phase'[g] = phase[g],
               \/ phase'[h] \in {"live", "closed"}
               \/ phase'[h] = "subscribing" /\ lock' = SubscribeTask(h)
               \/ phase'[h] = "closing" /\ lock' = CloseTask(h)
        PROVE  CallsInv'
    <3>1. \A g \in Handles \ {h} : \A task \in {SubscribeTask(g), CloseTask(g)} :
            HasTask(task) => HasTask(task)'
      BY <2>2, <2>3, OtherTasks
    <3>2. /\ phase'[h] = "subscribing" => HasTask(SubscribeTask(h))'
          /\ phase'[h] = "closing" => HasTask(CloseTask(h))'
      BY <2>3 DEF HasTask
    <3>3. TaskInv'
      BY <2>3, <3>1, <3>2, TasksKept DEF CallsInv
    <3> QED BY <2>3, <3>3 DEF CallsInv
  <2>4. CASE first.op = "subscribe" /\ RunSubscribe(first.handle)
    <3>1. first.handle \in Handles /\ first = SubscribeTask(first.handle)
      BY <2>1, <2>4, TaskShape
    <3> QED BY <2>1, <2>3, <2>4, <3>1, RunTask
  <2>5. CASE first.op = "close" /\ RunClose(first.handle)
    <3>1. first.handle \in Handles /\ first = CloseTask(first.handle)
      BY <2>1, <2>5, TaskShape
    <3> QED BY <2>1, <2>3, <2>5, <3>1, RunTask
  <2>6. CASE first.op = "reconnect" /\ RunReconnect
    <3>1. BusyInv' /\ phase' = phase /\ first = Reconnect
      BY <2>1, <2>6, RunTask, TaskShape
    <3>2. \A h \in Handles : \A task \in {SubscribeTask(h), CloseTask(h)} :
            HasTask(task) => HasTask(task)'
      BY <2>2, <3>1 DEF NoTask, Reconnect, SubscribeTask, CloseTask
    <3>3. TaskInv'
      BY <3>1, <3>2, TasksUnchanged DEF CallsInv
    <3> QED BY <3>1, <3>3 DEF CallsInv
  <2> QED BY <2>1, <2>4, <2>5, <2>6
<1>4. ASSUME ManagerEndsHandles PROVE CallsInv'
  <2>1. call'["holder"] = call["holder"]
    BY <1>4, ConnDial DEF ManagerEndsHandles, EndAll, ConnInv, TypeOK
  <2> QED BY <1>1, <1>4, <2>1 DEF ManagerEndsHandles
<1>5. ASSUME CloseReturns PROVE CallsInv'
  <2>1. CASE call["holder"] # "close"
    <3>1. UNCHANGED <<lock, waiting, phase, resolving>>
      BY <1>5, <2>1 DEF CloseReturns, Release
    <3>2. call'["holder"] = IF call["holder"] = "stale" THEN "dial" ELSE call["holder"]
      BY <1>5, <2>1 DEF CloseReturns, ShutdownDone, TypeOK, ConnTypeOK
    <3>3. BusyInv'
      BY <3>1, <3>2 DEF CallsInv, BusyInv
    <3>4. TaskInv'
      BY <3>1, TasksUnchanged DEF CallsInv, HasTask
    <3> QED BY <3>3, <3>4 DEF CallsInv
  <2>2. CASE call["holder"] = "close"
    <3>1. lock' = NoTask /\ waiting' = waiting
          /\ \/ lock.op = "subscribe" /\ phase' = phase
             \/ lock.op = "close" /\ phase' = [phase EXCEPT ![lock.handle] = "closed"]
             \/ lock.op = "reconnect" /\ phase' = phase
      BY <1>5, <2>2 DEF CloseReturns, Release
    <3>2. BusyInv'
      BY <3>1 DEF BusyInv, NoTask
    <3>3. CASE lock.op = "reconnect"
      <4>1. lock = Reconnect /\ phase' = phase
        BY <3>1, <3>3, TaskShape DEF TypeOK, MgrTypeOK
      <4>2. TaskInv'
        BY <3>1, <4>1, TasksUnchanged
        DEF CallsInv, HasTask, Reconnect, SubscribeTask, CloseTask
      <4> QED BY <3>2, <4>2 DEF CallsInv
    <3>4. CASE OfHandle(lock)
      <4>1. lock.handle \in Handles
            /\ lock \in {SubscribeTask(lock.handle), CloseTask(lock.handle)}
        BY <3>4, TaskShape DEF OfHandle, TypeOK, MgrTypeOK
      <4>2. phase'[lock.handle] \in {"failed", "closed"}
            /\ \A g \in Handles \ {lock.handle} : phase'[g] = phase[g]
        BY <2>2, <3>1, <3>4, <4>1 DEF CallsInv, BusyInv, OfHandle, TypeOK, MgrTypeOK
      <4>3. \A g \in Handles \ {lock.handle} : \A task \in {SubscribeTask(g), CloseTask(g)} :
              HasTask(task) => HasTask(task)'
        BY <3>1, <4>1, OtherTasks DEF HasTask
      <4>4. TaskInv'
        BY <4>1, <4>2, <4>3, TasksKept DEF CallsInv
      <4> QED BY <3>2, <4>4 DEF CallsInv
    <3> QED BY <3>1, <3>3, <3>4 DEF OfHandle
  <2> QED BY <2>1, <2>2
<1>6. ASSUME NEW s \in Sockets, ConnectionLost(s) \/ Lose(s) PROVE CallsInv'
  BY <1>1, <1>6 DEF ConnectionLost, ReaderReportsLoss, ReaderEnds, Lose, LoseSocket
<1>7. ASSUME ConnectionStep \/ UNCHANGED vars PROVE CallsInv'
  BY <1>1, <1>7 DEF ConnectionStep, ShutdownClaim, SocketClosed, ReaderClaims, ReaderLeaves,
     ReaderEnds, mgrVars, connVars, vars
<1> QED BY <1>2, <1>3, <1>4, <1>5, <1>6, <1>7, UserCalls, AwaitedCalls DEF Next, TaskStep

\* Subscribes, closes, reconnects and close() never wait in a circle, nor for
\* something that is over (connection.py:69-151, 247-277, market.py:56-129).
THEOREM WaitsEnd == Spec => []NobodyWaitsInVain
<1>1. Init => LifeInv /\ GroundInv /\ CallsInv
  BY InitLife, InitGround, InitCalls
<1>2. /\ TypeOK /\ ConnInv /\ ConnInv' /\ LifeInv /\ GroundInv /\ CallsInv /\ [Next]_vars
           => (LifeInv /\ GroundInv /\ CallsInv)'
  BY NextLife, NextGround, NextCalls
<1>3. TypeOK /\ ConnInv /\ ShutInv /\ GroundInv /\ CallsInv => NobodyWaitsInVain
  <2> SUFFICES ASSUME TypeOK, ConnInv, ShutInv, GroundInv, CallsInv PROVE NobodyWaitsInVain
    OBVIOUS
  <2>1. lock # NoTask => resolving \/ dial # "idle" \/ shutdown # "idle"
    BY CallersAssumption
    DEF CallsInv, BusyInv, GroundInv, CallInv, ConnInv, DialInv, TypeOK, ConnTypeOK
  <2>2. closer = "waiting" => shutdown # "idle"
    BY CallersAssumption DEF ShutInv, GroundInv, CallInv
  <2>3. draining # NoSocket => sock[draining] = "closing"
    BY DEF GroundInv, DrainInv
  <2>4. ASSUME drainReader # NoSocket
        PROVE  \/ reader[drainReader] = "finalizing" /\ sock[drainReader] = "closed"
               \/ /\ reader[drainReader] = "reading" /\ drainReader # current
                  /\ sock[drainReader] \in {"closing", "closed"}
    <3>1. drainReader \in Sockets
      BY <2>4 DEF TypeOK, ConnTypeOK, MaybeSocket
    <3> QED BY <2>4, <3>1 DEF GroundInv, DrainInv, ReaderInv, TypeOK, ConnTypeOK
  <2> QED BY <2>1, <2>2, <2>3, <2>4 DEF NobodyWaitsInVain, CallsInv
<1> QED BY <1>1, <1>2, <1>3, Shutdowns, PTL DEF Spec
=============================================================================
