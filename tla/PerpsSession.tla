---------------------------- MODULE PerpsSession ----------------------------
(***************************************************************************)
(* PerpsSession (_internal/perps_session.py): commands and their responses  *)
(* multiplexed over one reconnecting websocket.  Every connection is        *)
(* authenticated and subscribed by two requests of its own before the       *)
(* session counts as connected.                                             *)
(*                                                                          *)
(* A request belongs to an owner: a user's command, or a connector, the     *)
(* task that runs _connect() for open() or for a reconnect and has one      *)
(* request under way at most.  Sessions are opened without builder receipts *)
(* (include_builder_fills), so there is no third, best-effort subscription. *)
(***************************************************************************)
EXTENDS WsConnection

CONSTANTS
  Connectors,  \* task slots that run _connect()
  Opener,      \* the slot open() runs in
  Closer,      \* the task that runs close()
  Commands,    \* requests users may make, once each
  MaxId,       \* request identifiers there are
  MaxLosses    \* sockets the peer or the network may close

ASSUME CallersAssumption == Callers = Connectors \cup {Closer}
ASSUME OpenerAssumption == Opener \in Connectors /\ Closer \notin Connectors
ASSUME CommandsAssumption == Commands \cap Connectors = {}
ASSUME BoundsAssumption == MaxId \in Nat /\ MaxLosses \in Nat

VARIABLES
  ready,       \* open(): new, opening, open (it returned) or failed
  closing,     \* close(): no, begun (_closed is set), socket (awaits it), done
  timer,       \* the scheduler's _timer slot is taken
  task,        \* progress of each connector
  req,         \* progress of each owner's request
  id,          \* identifier of each owner's request
  nextId,      \* self._next_request_id
  wire,        \* frames the server has not answered, or answers not read yet
  answered,    \* commands a response to whose frame was read
  subscribed,  \* sockets whose subscription the server has accepted
  losses

sessionVars == <<ready, closing, timer, task, req, id, nextId, wire, answered,
                 subscribed, losses>>
vars == <<connVars, sessionVars>>

Owners == Connectors \cup Commands
Frames == [id : 1..MaxId, sock : Sockets, from : Owners]

TypeOK ==
  /\ ConnTypeOK
  /\ ready \in {"new", "opening", "open", "failed"}
  /\ closing \in {"no", "begun", "socket", "done"}
  /\ timer \in BOOLEAN
  /\ task \in [Connectors -> {"idle", "connect", "connected", "auth",
                              "subscribe", "failed"}]
  /\ req \in [Owners -> {"idle", "sending", "doomed", "waiting", "ok", "error"}]
  /\ id \in [Owners -> 0..MaxId]
  /\ nextId \in 1..(MaxId + 1)
  /\ wire \subseteq Frames
  /\ answered \subseteq Commands
  /\ subscribed \subseteq Sockets
  /\ losses \in 0..MaxLosses

Init ==
  /\ ConnInit
  /\ ready = "new"
  /\ closing = "no"
  /\ timer = FALSE
  /\ task = [k \in Connectors |-> "idle"]
  /\ req = [o \in Owners |-> "idle"]
  /\ id = [o \in Owners |-> 0]
  /\ nextId = 1
  /\ wire = {}
  /\ answered = {}
  /\ subscribed = {}
  /\ losses = 0

\* self._pending: the owners whose future can still be resolved.
Pending == {o \in Owners : req[o] \in {"sending", "waiting"}}

\* _reject_pending(): a request that is still being sent learns it afterwards.
Rejected(reqs) == [o \in Owners |-> CASE reqs[o] = "waiting" -> "error"
                                      [] reqs[o] = "sending" -> "doomed"
                                      [] OTHER -> reqs[o]]

\* _send_request pops its entry when it returns or raises.
PopSettled ==
  id' = [o \in Owners |-> IF req'[o] \in {"sending", "doomed", "waiting"}
                          THEN id[o] ELSE 0]

\* scheduler.schedule(): one timer at most, none for a closed session.
Schedule == timer' = (timer \/ closing = "no")

\* Mutant: a request does not look whether the session is closed.
StartAnyway(o) ==
  /\ req' = [req EXCEPT ![o] = "sending"]
  /\ id' = [id EXCEPT ![o] = nextId]
  /\ nextId' = nextId + 1

\* Mutant: a free identifier is used again.
StartReusing(o) ==
  IF closing = "no"
  THEN /\ req' = [req EXCEPT ![o] = "sending"]
       /\ id' = [id EXCEPT ![o] =
            CHOOSE n \in 1..MaxId : \A p \in Pending : id[p] # n]
       /\ nextId' = nextId + 1
  ELSE /\ req' = [req EXCEPT ![o] = "error"]
       /\ UNCHANGED <<id, nextId>>

\* _send_request() up to its first await: a closed session takes none.
StartRequest(o) ==
  IF closing = "no"
  THEN /\ req' = [req EXCEPT ![o] = "sending"]
       /\ id' = [id EXCEPT ![o] = nextId]
       /\ nextId' = nextId + 1
  ELSE /\ req' = [req EXCEPT ![o] = "error"]
       /\ UNCHANGED <<id, nextId>>

-----------------------------------------------------------------------------
(* _connect(), in open() and in the scheduler's _reconnect().               *)

BeginConnect(k) ==
  \/ /\ IsOpen
     /\ task' = [task EXCEPT ![k] = "connected"]
     /\ UNCHANGED connVars
  \/ /\ ConnectStale(k) \/ ConnectDial(k)
     /\ task' = [task EXCEPT ![k] = "connect"]

Open ==
  /\ ready = "new"
  /\ ready' = "opening"
  /\ BeginConnect(Opener)
  /\ UNCHANGED <<closing, timer, req, id, nextId, wire, answered, subscribed, losses>>

\* The timer clears its slot before it awaits _reconnect().
TimerFires(k) ==
  /\ timer
  /\ task[k] = "idle"
  /\ nextId < MaxId
  /\ timer' = FALSE
  /\ BeginConnect(k)
  /\ UNCHANGED <<ready, closing, req, id, nextId, wire, answered, subscribed, losses>>

DialSucceeds(s) ==
  /\ DialOk(s, {})
  /\ task' = [k \in Connectors |-> IF call[k] = "dial" THEN "connected" ELSE task[k]]
  /\ UNCHANGED <<ready, closing, timer, req, id, nextId, wire, answered,
                 subscribed, losses>>

DialFails ==
  /\ DialFail
  /\ task' = [k \in Connectors |-> IF call[k] = "dial" THEN "failed" ELSE task[k]]
  /\ UNCHANGED <<ready, closing, timer, req, id, nextId, wire, answered,
                 subscribed, losses>>

Authenticate(k) ==
  /\ task[k] = "connected"
  /\ nextId <= MaxId
  /\ task' = [task EXCEPT ![k] = "auth"]
  /\ StartRequest(k)
  /\ UNCHANGED <<connVars, ready, closing, timer, wire, answered, subscribed, losses>>

SubscribeChannels(k) ==
  /\ task[k] = "auth"
  /\ req[k] = "ok"
  /\ nextId <= MaxId
  /\ task' = [task EXCEPT ![k] = "subscribe"]
  /\ StartRequest(k)
  /\ UNCHANGED <<connVars, ready, closing, timer, wire, answered, subscribed, losses>>

Opening(k) == k = Opener /\ ready = "opening"

Connected(k) ==
  /\ task[k] = "subscribe"
  /\ req[k] = "ok"
  /\ task' = [task EXCEPT ![k] = "idle"]
  /\ req' = [req EXCEPT ![k] = "idle"]
  /\ PopSettled
  /\ ready' = IF Opening(k) THEN "open" ELSE ready
  /\ UNCHANGED <<connVars, closing, timer, nextId, wire, answered, subscribed, losses>>

HasFailed(k) ==
  \/ task[k] = "failed"
  \/ task[k] \in {"auth", "subscribe"} /\ req[k] = "error"

\* Mutant: the failure of an attempt is only logged.
ReconnectGivesUp(k) ==
  /\ HasFailed(k)
  /\ ~Opening(k)
  /\ task' = [task EXCEPT ![k] = "idle"]
  /\ req' = [req EXCEPT ![k] = "idle"]
  /\ PopSettled
  /\ UNCHANGED <<connVars, ready, closing, timer, nextId, wire, answered,
                 subscribed, losses>>

\* _reconnect() catches the error and schedules the next attempt.
ReconnectFails(k) ==
  /\ HasFailed(k)
  /\ ~Opening(k)
  /\ task' = [task EXCEPT ![k] = "idle"]
  /\ req' = [req EXCEPT ![k] = "idle"]
  /\ PopSettled
  /\ Schedule
  /\ UNCHANGED <<connVars, ready, closing, nextId, wire, answered, subscribed, losses>>

-----------------------------------------------------------------------------
(* close().                                                                 *)

\* The requests are rejected and the connection's close() is called, without
\* an await in between.
RejectAndClose(reqs) ==
  /\ closing' = "socket"
  /\ req' = Rejected(reqs)
  /\ PopSettled
  /\ CloseCall(Closer)

\* _closed is set; scheduler.aclose() awaits a timer that is running.
BeginClose(reqs) ==
  /\ closing = "no"
  /\ timer' = FALSE
  /\ IF timer
     THEN closing' = "begun" /\ req' = reqs /\ PopSettled /\ UNCHANGED connVars
     ELSE RejectAndClose(reqs)

Close ==
  /\ ready # "new"
  /\ BeginClose(req)
  /\ UNCHANGED <<ready, task, nextId, wire, answered, subscribed, losses>>

\* open() raises: open_perps_session() closes the session, which may already
\* be closed.
OpenFails(k) ==
  /\ HasFailed(k)
  /\ Opening(k)
  /\ ready' = "failed"
  /\ task' = [task EXCEPT ![k] = "idle"]
  /\ \/ BeginClose([req EXCEPT ![k] = "idle"])
     \/ /\ closing # "no"
        /\ req' = [req EXCEPT ![k] = "idle"]
        /\ PopSettled
        /\ UNCHANGED <<connVars, closing, timer>>
  /\ UNCHANGED <<nextId, wire, answered, subscribed, losses>>

TimerCancelled ==
  /\ closing = "begun"
  /\ RejectAndClose(req)
  /\ UNCHANGED <<ready, timer, task, nextId, wire, answered, subscribed, losses>>

CloseReturns ==
  /\ closing = "socket"
  /\ call[Closer] = "idle"
  /\ closing' = "done"
  /\ UNCHANGED <<connVars, ready, timer, task, req, id, nextId, wire, answered,
                 subscribed, losses>>

-----------------------------------------------------------------------------
(* Requests and responses.                                                  *)

Command(c) ==
  /\ ready = "open"
  /\ req[c] = "idle"
  /\ nextId <= MaxId
  /\ StartRequest(c)
  /\ UNCHANGED <<connVars, ready, closing, timer, task, wire, answered,
                 subscribed, losses>>

\* The send lock is free: connection.send() writes the frame or returns False.
\* A request rejected in the meantime is written all the same.
Send(o) ==
  /\ req[o] \in {"sending", "doomed"}
  /\ req' = [req EXCEPT ![o] = IF IsOpen /\ @ = "sending" THEN "waiting" ELSE "error"]
  /\ wire' = IF IsOpen THEN wire \cup {[id |-> id[o], sock |-> current, from |-> o]}
                       ELSE wire
  /\ PopSettled
  /\ UNCHANGED <<connVars, ready, closing, timer, task, nextId, answered,
                 subscribed, losses>>

\* _handle_response(): the server's answer settles the request that has its
\* identifier; it is ok, or a rejection or something unreadable.
Response(m, verdict) ==
  /\ m \in wire
  /\ current = m.sock
  /\ reader[m.sock] = "reading"
  /\ wire' = wire \ {m}
  /\ answered' = answered \cup ({m.from} \cap Commands)
  /\ req' = [o \in Owners |-> IF o \in Pending /\ id[o] = m.id THEN verdict
                                                              ELSE req[o]]
  /\ PopSettled
  /\ subscribed' = IF verdict = "ok" /\ m.from \in Connectors
                                     /\ task[m.from] = "subscribe"
                                     /\ id[m.from] = m.id
                   THEN subscribed \cup {m.sock} ELSE subscribed
  /\ UNCHANGED <<connVars, ready, closing, timer, task, nextId, losses>>

TimesOut(o) ==
  /\ req[o] = "waiting"
  /\ req' = [req EXCEPT ![o] = "error"]
  /\ PopSettled
  /\ UNCHANGED <<connVars, ready, closing, timer, task, nextId, wire,
                 answered, subscribed, losses>>

-----------------------------------------------------------------------------
(* The connection.                                                          *)

Lose(s) ==
  /\ losses < MaxLosses
  /\ losses' = losses + 1
  /\ LoseSocket(s)
  /\ UNCHANGED <<ready, closing, timer, task, req, id, nextId, wire, answered,
                 subscribed>>

\* A socket that is no longer the current one is not read any more.
Forget(s) ==
  /\ wire' = {m \in wire : m.sock # s}
  /\ subscribed' = subscribed \ {s}

Claim ==
  /\ ShutdownClaim
  /\ Forget(current)
  /\ UNCHANGED <<ready, closing, timer, task, req, id, nextId, answered, losses>>

ReaderStops(s) ==
  /\ ReaderClaims(s)
  /\ Forget(s)
  /\ UNCHANGED <<ready, closing, timer, task, req, id, nextId, answered, losses>>

\* _on_socket_connection_lost(), whichever connection is current by now.
ConnectionLost(s) ==
  /\ ReaderReportsLoss(s)
  /\ req' = Rejected(req)
  /\ PopSettled
  /\ Schedule
  /\ UNCHANGED <<ready, closing, task, nextId, wire, answered, subscribed, losses>>

Internal ==
  \/ ShutdownDone
  \/ \E s \in Sockets : SocketClosed(s) \/ ReaderLeaves(s)

ConnectionStep == Internal /\ UNCHANGED sessionVars

-----------------------------------------------------------------------------

Next ==
  \/ Open
  \/ Close
  \/ TimerCancelled
  \/ CloseReturns
  \/ \E k \in Connectors :
       \/ TimerFires(k)
       \/ Authenticate(k)
       \/ SubscribeChannels(k)
       \/ Connected(k)
       \/ ReconnectFails(k)
       \/ OpenFails(k)
  \/ \E c \in Commands : Command(c)
  \/ \E o \in Owners : Send(o) \/ TimesOut(o)
  \/ \E m \in wire, verdict \in {"ok", "error"} : Response(m, verdict)
  \/ \E s \in Sockets : DialSucceeds(s) \/ Lose(s) \/ ReaderStops(s) \/ ConnectionLost(s)
  \/ DialFails
  \/ Claim
  \/ ConnectionStep

Spec == Init /\ [][Next]_vars

\* asyncio runs every task that is not waiting, dials and closing handshakes
\* have time-outs, and so has every request; the peer, the users and the
\* server's answers are not fair.
Fairness ==
  /\ WF_vars(DialFails \/ \E s \in Sockets : DialSucceeds(s))
  /\ WF_vars(TimerCancelled)
  /\ WF_vars(CloseReturns)
  /\ WF_vars(Claim)
  /\ WF_vars(ShutdownDone /\ UNCHANGED sessionVars)
  /\ \A s \in Sockets :
       /\ WF_vars(SocketClosed(s) /\ UNCHANGED sessionVars)
       /\ WF_vars(ReaderStops(s))
       /\ WF_vars(ConnectionLost(s))
       /\ WF_vars(ReaderLeaves(s) /\ UNCHANGED sessionVars)
  /\ \A o \in Owners : WF_vars(Send(o)) /\ WF_vars(TimesOut(o))
  /\ \A k \in Connectors :
       /\ WF_vars(TimerFires(k))
       /\ WF_vars(Authenticate(k))
       /\ WF_vars(SubscribeChannels(k))
       /\ WF_vars(Connected(k))
       /\ WF_vars(ReconnectFails(k))
       /\ WF_vars(OpenFails(k))

FairSpec == Spec /\ Fairness

-----------------------------------------------------------------------------
(* Properties.                                                              *)

\* An open session is never stranded: it reads a socket on which the server
\* has accepted its subscription, or an attempt to get one is scheduled, under
\* way, or due to the report of a reader that is about to end.
NeverStranded ==
  ready = "open" /\ closing = "no" =>
    \/ current \in subscribed
    \/ timer
    \/ \E k \in Connectors : task[k] # "idle"
    \/ \E s \in Sockets : reader[s] = "finalizing"

\* Once close() has rejected the pending requests none is waiting, and none is
\* registered afterwards, whatever reconnects and commands are under way.
NothingPendingAfterClose == closing \in {"socket", "done"} => Pending = {}

\* close(): "Close the session and release its connection."
CloseReleasesConnection ==
  closing = "done" => \A s \in Sockets : sock[s] # "open"

\* Every command is settled once, by the answer to this very command or by an
\* error, and it is settled in the end: _send_request implements RequestTable.
CommandStatus ==
  [c \in Commands |-> CASE req[c] = "idle" -> "new"
                         [] req[c] \in {"sending", "doomed", "waiting"} -> "open"
                         [] req[c] = "ok" -> "answered"
                         [] req[c] = "error" -> "failed"]

Table == INSTANCE RequestTable WITH Requests <- Commands, status <- CommandStatus

CommandsSettle == Table!Spec

=============================================================================
