-------------------------- MODULE PerpsSession_proofs --------------------------
(***************************************************************************)
(* Proofs about PerpsSession, for every set of sockets, connectors and      *)
(* commands: no request is pending once close() has rejected them, a lost   *)
(* subscription is not stranded, and what a command returns is the answer   *)
(* to this very command.                                                    *)
(***************************************************************************)
EXTENDS PerpsSession, TLAPS

-----------------------------------------------------------------------------
(* The types of the connection, whoever drives it.                          *)

\* The steps of the connection keep its types (connection.py:69-277).
LEMMA ConnTypeStep ==
  ASSUME ConnTypeOK
  PROVE  /\ \A c \in Callers : ConnectStale(c) \/ ConnectDial(c) \/ CloseCall(c)
                                 => ConnTypeOK'
         /\ \A s \in Sockets : \A closers \in SUBSET Callers :
              DialOk(s, closers) => ConnTypeOK'
         /\ DialFail \/ ShutdownClaim \/ ShutdownDone => ConnTypeOK'
         /\ UNCHANGED connVars => ConnTypeOK'
<1>1. \A c \in Callers : ConnectStale(c) \/ ConnectDial(c) \/ CloseCall(c)
                           => ConnTypeOK'
  BY DEF ConnTypeOK, ConnectStale, ConnectDial, CloseCall, StartShutdown, MaybeSocket
<1>2. ASSUME NEW s \in Sockets, NEW closers \in SUBSET Callers, DialOk(s, closers)
      PROVE  ConnTypeOK'
  BY <1>2 DEF ConnTypeOK, DialOk, StartShutdown, MaybeSocket
<1>3. DialFail => ConnTypeOK'
  BY DEF ConnTypeOK, DialFail, MaybeSocket
<1>4. ShutdownClaim => ConnTypeOK'
  BY DEF ConnTypeOK, ShutdownClaim, MaybeSocket
<1>5. ShutdownDone => ConnTypeOK'
  BY DEF ConnTypeOK, ShutdownDone, MaybeSocket
<1>6. UNCHANGED connVars => ConnTypeOK'
  BY DEF ConnTypeOK, connVars, MaybeSocket
<1> QED BY <1>1, <1>2, <1>3, <1>4, <1>5, <1>6

\* So do the steps of a socket and its reader (connection.py:155-221).
LEMMA SocketTypeStep ==
  ASSUME ConnTypeOK, NEW s \in Sockets,
         LoseSocket(s) \/ SocketClosed(s) \/ ReaderClaims(s) \/ ReaderEnds(s)
  PROVE  ConnTypeOK'
BY DEF ConnTypeOK, LoseSocket, SocketClosed, ReaderClaims, ReaderEnds, MaybeSocket

-----------------------------------------------------------------------------
(* Requests and their answers.                                              *)

Live == {"sending", "doomed", "waiting"}

ReqTypeOK ==
  /\ req \in [Owners -> {"idle", "sending", "doomed", "waiting", "ok", "error"}]
  /\ id \in [Owners -> 0..MaxId]
  /\ nextId \in 1..(MaxId + 1)
  /\ wire \subseteq Frames
  /\ answered \subseteq Commands

\* Identifiers are not used again: two requests under way have different ones,
\* and a frame on the wire that has the identifier of one is its own.
IdsAreOwn ==
  /\ \A o \in Owners : req[o] \in Live => id[o] \in 1..MaxId /\ id[o] < nextId
  /\ \A o, p \in Owners : req[o] \in Live /\ req[p] \in Live /\ id[o] = id[p] => o = p
  /\ \A m \in wire : m.id < nextId
  /\ \A m \in wire, o \in Owners : req[o] \in Live /\ id[o] = m.id => m.from = o

ReqInv == ReqTypeOK /\ IdsAreOwn /\ NothingPendingAfterClose

RestTypeOK ==
  /\ ready \in {"new", "opening", "open", "failed"}
  /\ closing \in {"no", "begun", "socket", "done"}
  /\ task \in [Connectors -> {"idle", "connect", "connected", "auth",
                              "subscribe", "failed"}]
  /\ subscribed \subseteq Sockets
  /\ losses \in 0..MaxLosses

IInv == ConnTypeOK /\ RestTypeOK /\ timer \in BOOLEAN /\ ReqInv

\* close() awaits the connection, or has returned, or is about to.
Shut == {"socket", "done"}

-----------------------------------------------------------------------------
(* The requests.                                                            *)

\* A step that starts no request and writes no frame; it may settle some.
Settling ==
  /\ req' \in [Owners -> {"idle", "sending", "doomed", "waiting", "ok", "error"}]
  /\ \A o \in Owners : req'[o] \in Live => req[o] \in Live
  /\ \A o \in Owners : req'[o] \in {"sending", "waiting"} => req[o] \in {"sending", "waiting"}
  /\ PopSettled
  /\ nextId' = nextId
  /\ wire' \subseteq wire
  /\ answered' \subseteq Commands

LEMMA SettlingInv ==
  ASSUME ReqInv, Settling,
         closing' \in Shut => closing \in Shut \/ \A o \in Owners : req'[o] \notin {"sending", "waiting"}
  PROVE  ReqInv'
<1> USE DEF ReqInv, Settling, Live
<1>1. \A o \in Owners : req'[o] \in Live => id'[o] = id[o]
  BY DEF PopSettled
<1>2. id' \in [Owners -> 0..MaxId]
  BY BoundsAssumption DEF PopSettled, ReqTypeOK
<1>3. ReqTypeOK'
  BY <1>2 DEF ReqTypeOK
<1>4. IdsAreOwn'
  BY <1>1 DEF IdsAreOwn
<1>5. NothingPendingAfterClose'
  BY DEF NothingPendingAfterClose, Pending, Shut
<1> QED BY <1>3, <1>4, <1>5

\* Nothing happens to the requests, and frames may be forgotten.
LEMMA SameReqInv ==
  ASSUME ReqInv, UNCHANGED <<req, id, nextId, answered>>, wire' \subseteq wire,
         closing' \in Shut => closing \in Shut
  PROVE  ReqInv'
BY DEF ReqInv, ReqTypeOK, IdsAreOwn, NothingPendingAfterClose, Pending, Shut, Live

\* A request that starts takes an identifier of its own.
LEMMA StartRequestInv ==
  ASSUME ReqInv, NEW o \in Owners, StartRequest(o), nextId <= MaxId,
         UNCHANGED <<closing, wire, answered>>
  PROVE  ReqInv'
<1> USE BoundsAssumption DEF ReqInv
<1>1. CASE closing = "no"
  <2>1. /\ req' = [req EXCEPT ![o] = "sending"]
        /\ id' = [id EXCEPT ![o] = nextId]
        /\ nextId' = nextId + 1
    BY <1>1 DEF StartRequest
  <2>2. ReqTypeOK'
    BY <2>1 DEF ReqTypeOK
  <2>3. IdsAreOwn'
    <3>1. req'[o] = "sending" /\ id'[o] = nextId
      BY <2>1 DEF ReqTypeOK
    <3>2. \A p \in Owners : p # o => req'[p] = req[p] /\ id'[p] = id[p]
      BY <2>1 DEF ReqTypeOK
    <3>3. nextId \in Nat /\ nextId \in 1..MaxId /\ nextId' = nextId + 1
      BY <2>1 DEF ReqTypeOK
    <3>4. \A p \in Owners : id[p] \in Nat
      BY DEF ReqTypeOK
    <3>5. \A m \in wire : m.id \in Nat
      BY DEF ReqTypeOK, Frames
    <3>6. \A p \in Owners : req'[p] \in Live => id'[p] \in 1..MaxId /\ id'[p] < nextId'
      BY <3>1, <3>2, <3>3, <3>4 DEF IdsAreOwn
    <3>7. \A p, q \in Owners : req'[p] \in Live /\ req'[q] \in Live /\ id'[p] = id'[q] => p = q
      BY <3>1, <3>2, <3>3, <3>4 DEF IdsAreOwn
    <3>8. \A m \in wire' : m.id < nextId'
      BY <3>3, <3>5 DEF IdsAreOwn
    <3>9. \A m \in wire', p \in Owners : req'[p] \in Live /\ id'[p] = m.id => m.from = p
      BY <3>1, <3>2, <3>3, <3>5 DEF IdsAreOwn
    <3> QED BY <3>6, <3>7, <3>8, <3>9 DEF IdsAreOwn
  <2>4. NothingPendingAfterClose'
    BY <1>1 DEF NothingPendingAfterClose
  <2> QED BY <2>2, <2>3, <2>4
<1>2. CASE closing # "no"
  <2>1. req' = [req EXCEPT ![o] = "error"] /\ UNCHANGED <<id, nextId>>
    BY <1>2 DEF StartRequest
  <2> QED BY <2>1 DEF ReqTypeOK, IdsAreOwn, NothingPendingAfterClose, Pending, Live
<1> QED BY <1>1, <1>2

\* The frame that is written has the identifier of its own request.
LEMMA SendInv ==
  ASSUME ReqInv, ConnTypeOK, NEW o \in Owners, Send(o)
  PROVE  ReqInv'
<1> USE BoundsAssumption DEF ReqInv, Live
<1>1. req[o] \in Live
  BY DEF Send
<1>2. \A p \in Owners : req'[p] = IF p # o THEN req[p]
                                  ELSE IF IsOpen /\ req[o] = "sending" THEN "waiting" ELSE "error"
  BY DEF Send, ReqTypeOK
<1>3. \A p \in Owners : req'[p] \in Live => id'[p] = id[p] /\ req[p] \in Live
  BY <1>1, <1>2 DEF Send, PopSettled
<1>4. \A m \in wire' : m \in wire \/ (m \in Frames /\ m.id = id[o] /\ m.from = o)
  <2>1. CASE IsOpen
    <3>1. [id |-> id[o], sock |-> current, from |-> o] \in Frames
      BY <1>1, <2>1 DEF Frames, IsOpen, ConnTypeOK, MaybeSocket, IdsAreOwn
    <3> QED BY <2>1, <3>1 DEF Send
  <2>2. CASE ~IsOpen
    BY <2>2 DEF Send
  <2> QED BY <2>1, <2>2
<1>5. nextId' = nextId /\ UNCHANGED <<closing, answered>>
  BY DEF Send
<1>6. ReqTypeOK'
  <2>1. req' \in [Owners -> {"idle", "sending", "doomed", "waiting", "ok", "error"}]
    BY DEF Send, ReqTypeOK
  <2>2. id' \in [Owners -> 0..MaxId]
    BY DEF Send, PopSettled, ReqTypeOK
  <2>3. wire' \subseteq Frames
    BY <1>4 DEF ReqTypeOK
  <2> QED BY <1>5, <2>1, <2>2, <2>3 DEF ReqTypeOK
<1>7. IdsAreOwn'
  <2>1. \A p \in Owners : req'[p] \in Live => id'[p] \in 1..MaxId /\ id'[p] < nextId'
    BY <1>3, <1>5 DEF IdsAreOwn
  <2>2. \A p, q \in Owners : req'[p] \in Live /\ req'[q] \in Live /\ id'[p] = id'[q] => p = q
    BY <1>3 DEF IdsAreOwn
  <2>3. \A m \in wire' : m.id < nextId'
    BY <1>1, <1>4, <1>5 DEF IdsAreOwn
  <2>4. \A m \in wire', p \in Owners : req'[p] \in Live /\ id'[p] = m.id => m.from = p
    BY <1>1, <1>3, <1>4 DEF IdsAreOwn
  <2> QED BY <2>1, <2>2, <2>3, <2>4 DEF IdsAreOwn
<1>8. NothingPendingAfterClose'
  <2>1. \A p \in Owners : req'[p] \in {"sending", "waiting"} => req[p] \in {"sending", "waiting"}
    BY <1>2 DEF Send
  <2> QED BY <1>5, <2>1 DEF NothingPendingAfterClose, Pending
<1> QED BY <1>6, <1>7, <1>8

\* What _reject_pending() leaves: nothing that waits for an answer.
LEMMA RejectedAll ==
  ASSUME NEW reqs \in [Owners -> {"idle", "sending", "doomed", "waiting", "ok", "error"}]
  PROVE  /\ Rejected(reqs) \in [Owners -> {"idle", "sending", "doomed", "waiting", "ok", "error"}]
         /\ \A o \in Owners : Rejected(reqs)[o] \notin {"sending", "waiting"}
         /\ \A o \in Owners : Rejected(reqs)[o] \in Live => reqs[o] \in Live
BY DEF Rejected, Live

\* close(), whether it rejects the requests at once or after the timer: reqs is
\* what the caller has made of them.
LEMMA BeginCloseSettles ==
  ASSUME ReqInv, UNCHANGED <<nextId, wire, answered>>,
         NEW reqs \in [Owners -> {"idle", "sending", "doomed", "waiting", "ok", "error"}],
         \A o \in Owners : reqs[o] = req[o] \/ reqs[o] \notin Live,
         BeginClose(reqs) \/ RejectAndClose(reqs)
  PROVE  /\ Settling
         /\ closing' \in Shut => \A o \in Owners : req'[o] \notin {"sending", "waiting"}
<1> USE RejectedAll DEF ReqInv, ReqTypeOK, Settling
<1>1. CASE RejectAndClose(reqs)
  <2>1. req' = Rejected(reqs) /\ PopSettled
    BY <1>1 DEF RejectAndClose
  <2> QED BY <2>1 DEF Live
<1>2. CASE closing' = "begun" /\ req' = reqs /\ PopSettled
  BY <1>2 DEF Shut, Live
<1> QED BY <1>1, <1>2 DEF BeginClose

LEMMA ConnectorSettles ==
  ASSUME ReqInv, NEW k \in Connectors, Connected(k) \/ ReconnectFails(k)
  PROVE  Settling /\ closing' = closing
BY DEF ReqInv, ReqTypeOK, Settling, Connected, ReconnectFails, Owners, Live

LEMMA OpenFailsSettles ==
  ASSUME ReqInv, NEW k \in Connectors, OpenFails(k)
  PROVE  /\ Settling
         /\ closing' \in Shut =>
              closing \in Shut \/ \A o \in Owners : req'[o] \notin {"sending", "waiting"}
<1> DEFINE reqs == [req EXCEPT ![k] = "idle"]
<1>1. /\ reqs \in [Owners -> {"idle", "sending", "doomed", "waiting", "ok", "error"}]
      /\ \A o \in Owners : reqs[o] = req[o] \/ reqs[o] \notin Live
  BY DEF ReqInv, ReqTypeOK, Live
<1>2. UNCHANGED <<nextId, wire, answered>>
  BY DEF OpenFails
<1>3. CASE BeginClose(reqs)
  <2> HIDE DEF reqs
  <2> QED BY <1>1, <1>2, <1>3, BeginCloseSettles
<1>4. CASE req' = reqs /\ PopSettled /\ UNCHANGED closing
  <2>1. Settling
    <3> HIDE DEF reqs
    <3> QED BY <1>1, <1>2, <1>4 DEF ReqInv, ReqTypeOK, Settling, Live
  <2> QED BY <1>4, <2>1
<1> QED BY <1>3, <1>4 DEF OpenFails

LEMMA ResponseSettles ==
  ASSUME ReqInv, NEW m \in wire, NEW verdict \in {"ok", "error"}, Response(m, verdict)
  PROVE  Settling /\ closing' = closing
<1>1. req' = [o \in Owners |-> IF o \in Pending /\ id[o] = m.id THEN verdict ELSE req[o]]
      /\ PopSettled /\ nextId' = nextId /\ wire' = wire \ {m} /\ closing' = closing
      /\ answered' = answered \cup ({m.from} \cap Commands)
  BY DEF Response
<1> QED BY <1>1 DEF ReqInv, ReqTypeOK, Settling, Live

LEMMA TimesOutSettles ==
  ASSUME ReqInv, NEW o \in Owners, TimesOut(o)
  PROVE  Settling /\ closing' = closing
BY DEF ReqInv, ReqTypeOK, Settling, TimesOut, Live

LEMMA ConnectionLostSettles ==
  ASSUME ReqInv, NEW s \in Sockets, ConnectionLost(s)
  PROVE  Settling /\ closing' = closing
<1>1. req' = Rejected(req) /\ PopSettled /\ UNCHANGED <<closing, nextId, wire, answered>>
  BY DEF ConnectionLost
<1> QED BY <1>1, RejectedAll DEF ReqInv, ReqTypeOK, Settling, Live

-----------------------------------------------------------------------------
(* The invariant.                                                           *)

\* Steps of a connector, of close() and of the dial that leave the requests be.
Quiet ==
  \/ Open
  \/ CloseReturns
  \/ \E k \in Connectors : TimerFires(k)
  \/ \E s \in Sockets : DialSucceeds(s) \/ Lose(s) \/ ReaderStops(s)
  \/ DialFails
  \/ Claim
  \/ ConnectionStep

LEMMA QuietReq == ReqInv /\ Quiet => ReqInv'
<1> SUFFICES ASSUME ReqInv, Quiet PROVE ReqInv'
  OBVIOUS
<1>1. UNCHANGED <<req, id, nextId, answered>> /\ wire' \subseteq wire
  BY DEF Quiet, Open, CloseReturns, TimerFires, DialSucceeds, Lose, ReaderStops, Forget,
     DialFails, Claim, ConnectionStep, sessionVars
<1>2. closing' \in Shut => closing \in Shut
  BY DEF Quiet, Open, CloseReturns, TimerFires, DialSucceeds, Lose, ReaderStops,
     DialFails, Claim, ConnectionStep, sessionVars, Shut
<1> QED BY <1>1, <1>2, SameReqInv

LEMMA NextReq == ConnTypeOK /\ ReqInv /\ [Next]_vars => ReqInv'
<1> SUFFICES ASSUME ConnTypeOK, ReqInv, [Next]_vars PROVE ReqInv'
  OBVIOUS
<1>1. CASE UNCHANGED vars
  BY <1>1, SameReqInv DEF vars, sessionVars
<1>2. CASE Close
  <2>1. UNCHANGED <<nextId, wire, answered>> /\ BeginClose(req)
    BY <1>2 DEF Close
  <2>2. req \in [Owners -> {"idle", "sending", "doomed", "waiting", "ok", "error"}]
    BY DEF ReqInv, ReqTypeOK
  <2> QED BY <2>1, <2>2, BeginCloseSettles, SettlingInv
<1>3. CASE TimerCancelled
  <2>1. UNCHANGED <<nextId, wire, answered>> /\ RejectAndClose(req)
    BY <1>3 DEF TimerCancelled
  <2>2. req \in [Owners -> {"idle", "sending", "doomed", "waiting", "ok", "error"}]
    BY DEF ReqInv, ReqTypeOK
  <2> QED BY <2>1, <2>2, BeginCloseSettles, SettlingInv
<1>4. ASSUME NEW k \in Connectors, Authenticate(k) \/ SubscribeChannels(k) PROVE ReqInv'
  BY <1>4, StartRequestInv DEF Authenticate, SubscribeChannels, Owners
<1>5. ASSUME NEW k \in Connectors, Connected(k) \/ ReconnectFails(k) PROVE ReqInv'
  BY <1>5, ConnectorSettles, SettlingInv
<1>6. ASSUME NEW k \in Connectors, OpenFails(k) PROVE ReqInv'
  BY <1>6, OpenFailsSettles, SettlingInv
<1>7. ASSUME NEW c \in Commands, Command(c) PROVE ReqInv'
  BY <1>7, StartRequestInv DEF Command, Owners, Live
<1>8. ASSUME NEW o \in Owners, Send(o) PROVE ReqInv'
  BY <1>8, SendInv
<1>9. ASSUME NEW o \in Owners, TimesOut(o) PROVE ReqInv'
  BY <1>9, TimesOutSettles, SettlingInv
<1>10. ASSUME NEW m \in wire, NEW verdict \in {"ok", "error"}, Response(m, verdict) PROVE ReqInv'
  BY <1>10, ResponseSettles, SettlingInv
<1>11. ASSUME NEW s \in Sockets, ConnectionLost(s) PROVE ReqInv'
  BY <1>11, ConnectionLostSettles, SettlingInv
<1>12. CASE Quiet
  BY <1>12, QuietReq
<1> QED BY <1>1, <1>2, <1>3, <1>4, <1>5, <1>6, <1>7, <1>8, <1>9, <1>10, <1>11, <1>12
        DEF Next, Quiet

\* So are the steps of the connection, each of the connection's own types.
LEMMA NextConnType == ConnTypeOK /\ [Next]_vars => ConnTypeOK'
<1> SUFFICES ASSUME ConnTypeOK, [Next]_vars PROVE ConnTypeOK'
  OBVIOUS
<1> USE ConnTypeStep, SocketTypeStep, CallersAssumption
<1>1. CASE UNCHANGED connVars
  BY <1>1
<1>2. ASSUME NEW k \in Connectors, BeginConnect(k) PROVE ConnTypeOK'
  BY <1>2 DEF BeginConnect
<1>3. CASE CloseCall(Closer)
  BY <1>3
<1>4. ASSUME NEW s \in Sockets, DialSucceeds(s) PROVE ConnTypeOK'
  BY <1>4 DEF DialSucceeds
<1>5. CASE DialFails \/ Claim
  BY <1>5 DEF DialFails, Claim
<1>6. ASSUME NEW s \in Sockets, Lose(s) \/ ReaderStops(s) \/ ConnectionLost(s) PROVE ConnTypeOK'
  BY <1>6 DEF Lose, ReaderStops, ConnectionLost, ReaderReportsLoss
<1>7. CASE Internal
  BY <1>7 DEF Internal, ReaderLeaves
<1>8. CASE UNCHANGED vars
  BY <1>8 DEF vars
<1>9. CASE Open
  BY <1>2, <1>9, OpenerAssumption DEF Open
<1>10. ASSUME NEW k \in Connectors, TimerFires(k) PROVE ConnTypeOK'
  BY <1>2, <1>10 DEF TimerFires
<1>11. CASE Close \/ TimerCancelled
  BY <1>1, <1>3, <1>11 DEF Close, TimerCancelled, BeginClose, RejectAndClose
<1>12. ASSUME NEW k \in Connectors, OpenFails(k) PROVE ConnTypeOK'
  BY <1>1, <1>3, <1>12 DEF OpenFails, BeginClose, RejectAndClose, connVars
<1>13. ASSUME NEW k \in Connectors,
              Authenticate(k) \/ SubscribeChannels(k) \/ Connected(k) \/ ReconnectFails(k)
       PROVE  ConnTypeOK'
  BY <1>1, <1>13 DEF Authenticate, SubscribeChannels, Connected, ReconnectFails
<1>14. ASSUME CloseReturns \/ (\E c \in Commands : Command(c))
              \/ (\E o \in Owners : Send(o) \/ TimesOut(o))
              \/ (\E m \in wire, verdict \in {"ok", "error"} : Response(m, verdict))
       PROVE  ConnTypeOK'
  BY <1>1, <1>14 DEF CloseReturns, Command, Send, TimesOut, Response
<1> QED BY <1>4, <1>5, <1>6, <1>7, <1>8, <1>9, <1>10, <1>11, <1>12, <1>13, <1>14
        DEF Next, ConnectionStep

LEMMA NextTimer == timer \in BOOLEAN /\ [Next]_vars => timer' \in BOOLEAN
<1> SUFFICES ASSUME timer \in BOOLEAN, [Next]_vars PROVE timer' \in BOOLEAN
  OBVIOUS
<1>1. timer' = timer \/ timer' = FALSE \/ Schedule
  BY Zenon DEF Next, vars, sessionVars, Open, Close, BeginClose, TimerCancelled, CloseReturns,
     TimerFires, Authenticate, SubscribeChannels, Connected, ReconnectFails, OpenFails, Command,
     Send, TimesOut, Response, DialSucceeds, Lose, ReaderStops, ConnectionLost, DialFails, Claim,
     ConnectionStep
<1> QED BY <1>1, Zenon DEF Schedule

LEMMA NextRest == ConnTypeOK /\ RestTypeOK /\ ReqTypeOK /\ [Next]_vars => RestTypeOK'
<1> SUFFICES ASSUME ConnTypeOK, RestTypeOK, ReqTypeOK, [Next]_vars PROVE RestTypeOK'
  OBVIOUS
<1> USE BoundsAssumption, OpenerAssumption DEF RestTypeOK
<1>1. task' \in [Connectors -> {"idle", "connect", "connected", "auth", "subscribe", "failed"}]
  BY DEF Next, vars, sessionVars, Open, Close, BeginClose, TimerCancelled, CloseReturns,
     TimerFires, Authenticate, SubscribeChannels, Connected, ReconnectFails, OpenFails, Command,
     Send, TimesOut, Response, DialSucceeds, Lose, ReaderStops, ConnectionLost, DialFails, Claim,
     ConnectionStep, BeginConnect
<1>2. ready' \in {"new", "opening", "open", "failed"}
  BY DEF Next, vars, sessionVars, Open, Close, TimerCancelled, CloseReturns,
     TimerFires, Authenticate, SubscribeChannels, Connected, ReconnectFails, OpenFails, Command,
     Send, TimesOut, Response, DialSucceeds, Lose, ReaderStops, ConnectionLost, DialFails, Claim,
     ConnectionStep
<1>3. closing' \in {"no", "begun", "socket", "done"}
  BY DEF Next, vars, sessionVars, Open, Close, BeginClose, RejectAndClose, TimerCancelled,
     CloseReturns, TimerFires, Authenticate, SubscribeChannels, Connected, ReconnectFails,
     OpenFails, Command, Send, TimesOut, Response, DialSucceeds, Lose, ReaderStops,
     ConnectionLost, DialFails, Claim, ConnectionStep
<1>4. losses' \in 0..MaxLosses
  <2>1. losses' = losses \/ (losses < MaxLosses /\ losses' = losses + 1)
    BY DEF Next, vars, sessionVars, Open, Close, TimerCancelled, CloseReturns,
       TimerFires, Authenticate, SubscribeChannels, Connected, ReconnectFails, OpenFails,
       Command, Send, TimesOut, Response, DialSucceeds, Lose, ReaderStops, ConnectionLost,
       DialFails, Claim, ConnectionStep
  <2> QED BY <2>1
<1>5. subscribed' \subseteq Sockets
  <2>1. \A m \in wire : m.sock \in Sockets
    BY DEF ReqTypeOK, Frames
  <2>2. ASSUME NEW m \in wire, NEW verdict \in {"ok", "error"}, Response(m, verdict)
        PROVE  subscribed' \subseteq Sockets
    BY <2>1, <2>2 DEF Response
  <2>3. (\E m \in wire, verdict \in {"ok", "error"} : Response(m, verdict))
        \/ subscribed' \subseteq subscribed
    BY DEF Next, vars, sessionVars, Open, Close, TimerCancelled, CloseReturns,
       TimerFires, Authenticate, SubscribeChannels, Connected, ReconnectFails, OpenFails,
       Command, Send, TimesOut, DialSucceeds, Lose, ReaderStops, ConnectionLost, DialFails,
       Claim, ConnectionStep, Forget
  <2> QED BY <2>2, <2>3
<1> QED BY <1>1, <1>2, <1>3, <1>4, <1>5

LEMMA InitIInv == Init => IInv
<1> SUFFICES ASSUME Init PROVE IInv
  OBVIOUS
<1> USE BoundsAssumption DEF Init
<1>1. ConnTypeOK
  BY DEF ConnInit, ConnTypeOK, MaybeSocket
<1>2. RestTypeOK
  BY DEF RestTypeOK
<1>3. timer \in BOOLEAN
  BY Zenon
<1>4. ReqInv
  BY DEF ReqInv, ReqTypeOK, IdsAreOwn, NothingPendingAfterClose, Live
<1> QED BY <1>1, <1>2, <1>3, <1>4 DEF IInv

LEMMA Inductive == Spec => []IInv
<1>1. IInv /\ [Next]_vars => IInv'
  BY NextConnType, NextTimer, NextRest, NextReq DEF IInv, ReqInv
<1> QED BY <1>1, InitIInv, PTL DEF Spec

-----------------------------------------------------------------------------
(* The theorems.                                                            *)

\* The variables stay in their types.
THEOREM TypeCorrect == Spec => []TypeOK
<1>1. IInv => TypeOK
  BY Zenon DEF IInv, RestTypeOK, ReqInv, ReqTypeOK, TypeOK
<1> QED BY <1>1, Inductive, PTL

\* Once close() has rejected the pending requests none is pending, and no
\* command or reconnect registers another one.
THEOREM CloseLeavesNothing == Spec => []NothingPendingAfterClose
<1>1. IInv => NothingPendingAfterClose
  BY DEF IInv, ReqInv
<1> QED BY <1>1, Inductive, PTL

-----------------------------------------------------------------------------
(* The refinement: commands are settled as RequestTable has it.             *)

\* The status of a command whose request is r.
StatusOf(r) == CASE r = "idle" -> "new"
                 [] r \in {"sending", "doomed", "waiting"} -> "open"
                 [] r = "ok" -> "answered"
                 [] r = "error" -> "failed"

\* One command changes its status.
LEMMA OneStatus ==
  ASSUME NEW c \in Commands, \A d \in Commands \ {c} : StatusOf(req'[d]) = StatusOf(req[d])
  PROVE  /\ CommandStatus[c] = StatusOf(req[c])
         /\ CommandStatus' = [CommandStatus EXCEPT ![c] = StatusOf(req'[c])]
<1>1. CommandStatus = [d \in Commands |-> StatusOf(req[d])]
  BY DEF CommandStatus, StatusOf
<1>2. CommandStatus' = [d \in Commands |-> StatusOf(req'[d])]
  BY DEF CommandStatus, StatusOf
<1> QED BY <1>1, <1>2

\* Steps at which commands fail together, for want of an answer.
LEMMA FailTogether ==
  ASSUME \A c \in Commands :
           \/ StatusOf(req'[c]) = StatusOf(req[c])
           \/ StatusOf(req[c]) = "open" /\ StatusOf(req'[c]) = "failed",
         answered' = answered
  PROVE  Table!Next
<1> DEFINE rs == {c \in Commands : StatusOf(req'[c]) # StatusOf(req[c])}
<1>1. CommandStatus = [c \in Commands |-> StatusOf(req[c])]
  BY DEF CommandStatus, StatusOf
<1>2. CommandStatus' = [c \in Commands |-> StatusOf(req'[c])]
  BY DEF CommandStatus, StatusOf
<1>3. \A c \in rs : CommandStatus[c] = "open"
  BY <1>1
<1>4. CommandStatus' = [c \in Commands |-> IF c \in rs THEN "failed" ELSE CommandStatus[c]]
  BY <1>1, <1>2
<1> HIDE DEF rs
<1>5. Table!FailAll(rs) /\ rs \in SUBSET Commands
  BY <1>3, <1>4 DEF Table!FailAll, rs
<1> QED BY <1>5 DEF Table!Next

\* close() and a lost connection reject what waits for an answer.
LEMMA RejectFails ==
  ASSUME NEW reqs \in [Owners -> {"idle", "sending", "doomed", "waiting", "ok", "error"}],
         \A c \in Commands : reqs[c] = req[c], req' \in {reqs, Rejected(reqs)},
         answered' = answered
  PROVE  Table!Next
<1>1. \A c \in Commands : Rejected(reqs)[c] = CASE req[c] = "waiting" -> "error"
                                                [] req[c] = "sending" -> "doomed"
                                                [] OTHER -> req[c]
  BY DEF Rejected, Owners
<1>2. \A c \in Commands : \/ StatusOf(req'[c]) = StatusOf(req[c])
                          \/ StatusOf(req[c]) = "open" /\ StatusOf(req'[c]) = "failed"
  BY <1>1 DEF StatusOf
<1> QED BY <1>2, FailTogether

\* Steps that leave the requests of all commands as they are.
LEMMA OthersStutter ==
  ASSUME \A c \in Commands : req'[c] = req[c], answered' = answered
  PROVE  Table!Next
<1>1. \A c \in Commands : StatusOf(req'[c]) = StatusOf(req[c])
  OBVIOUS
<1> QED BY <1>1, FailTogether

\* A command that is called is issued, or refused by a session that is closed.
LEMMA CommandTable ==
  ASSUME ReqInv, NEW c \in Commands, Command(c)
  PROVE  Table!Next
<1>1. req[c] = "idle" /\ answered' = answered
  BY DEF Command
<1>2. PICK r \in {"sending", "error"} : req' = [req EXCEPT ![c] = r]
  BY DEF Command, StartRequest
<1>3. req'[c] = r /\ \A d \in Commands \ {c} : req'[d] = req[d]
  BY <1>2 DEF ReqInv, ReqTypeOK, Owners
<1>4. \A d \in Commands \ {c} : StatusOf(req'[d]) = StatusOf(req[d])
  BY <1>3
<1>5. StatusOf(req[c]) = "new" /\ StatusOf(req'[c]) \in {"open", "failed"}
  BY <1>1, <1>3 DEF StatusOf
<1>6. CASE StatusOf(req'[c]) = "open"
  <2>1. Table!Issue(c)
    BY <1>1, <1>4, <1>5, <1>6, OneStatus DEF Table!Issue
  <2> QED BY <2>1 DEF Table!Next
<1>7. CASE StatusOf(req'[c]) = "failed"
  <2>1. Table!Refuse(c)
    BY <1>1, <1>4, <1>5, <1>7, OneStatus DEF Table!Refuse
  <2> QED BY <2>1 DEF Table!Next
<1> QED BY <1>5, <1>6, <1>7

\* A frame settles the command it answers, or comes too late: identifiers are
\* not used again.
LEMMA ResponseTable ==
  ASSUME ReqInv, NEW m \in wire, NEW verdict \in {"ok", "error"}, Response(m, verdict)
  PROVE  Table!Next
<1>1. /\ req' = [o \in Owners |-> IF o \in Pending /\ id[o] = m.id THEN verdict ELSE req[o]]
      /\ answered' = answered \cup ({m.from} \cap Commands)
  BY DEF Response
<1>2. \A o \in Owners : o \in Pending /\ id[o] = m.id => o = m.from
  BY DEF Pending, ReqInv, IdsAreOwn, Live
<1>3. \A d \in Commands : d # m.from => req'[d] = req[d]
  BY <1>1, <1>2 DEF Owners
<1>4. CASE m.from \notin Commands
  <2>1. answered' = answered
    BY <1>1, <1>4
  <2> QED BY <1>3, <1>4, <2>1, OthersStutter
<1>5. CASE m.from \in Commands
  <2> DEFINE c == m.from
  <2>1. c \in Commands /\ answered' = answered \cup {c}
    BY <1>1, <1>5
  <2>2. \A d \in Commands \ {c} : StatusOf(req'[d]) = StatusOf(req[d])
    BY <1>3
  <2>3. CASE c \in Pending /\ id[c] = m.id
    <3>1. req'[c] = verdict
      BY <1>1, <2>1, <2>3 DEF Owners
    <3>2. StatusOf(req[c]) = "open" /\ StatusOf(req'[c]) \in {"answered", "failed"}
      BY <2>3, <3>1 DEF StatusOf, Pending
    <3> HIDE DEF c
    <3>3. CASE StatusOf(req'[c]) = "answered"
      <4>1. Table!Answer(c)
        BY <2>1, <2>2, <3>2, <3>3, OneStatus DEF Table!Answer
      <4> QED BY <2>1, <4>1 DEF Table!Next
    <3>4. CASE StatusOf(req'[c]) = "failed"
      <4>1. Table!Fail(c)
        BY <2>1, <2>2, <3>2, <3>4, OneStatus DEF Table!Fail
      <4> QED BY <2>1, <4>1 DEF Table!Next
    <3> QED BY <3>2, <3>3, <3>4
  <2>4. CASE ~(c \in Pending /\ id[c] = m.id)
    <3>1. \A d \in Commands : StatusOf(req'[d]) = StatusOf(req[d])
      BY <1>1, <1>2, <2>4 DEF Owners
    <3>2. CommandStatus' = CommandStatus
      <4>1. CommandStatus = [d \in Commands |-> StatusOf(req[d])]
        BY DEF CommandStatus, StatusOf
      <4>2. CommandStatus' = [d \in Commands |-> StatusOf(req'[d])]
        BY DEF CommandStatus, StatusOf
      <4> QED BY <3>1, <4>1, <4>2
    <3>3. Table!LateAnswer(c)
      BY <2>1, <3>2 DEF Table!LateAnswer
    <3> QED BY <2>1, <3>3 DEF Table!Next
  <2> QED BY <2>3, <2>4
<1> QED BY <1>4, <1>5

\* Every step of the session is a step of the table.
LEMMA NextTable ==
  ASSUME ReqInv, [Next]_vars
  PROVE  [Table!Next]_(Table!tableVars)
<1>1. CASE UNCHANGED vars
  BY <1>1 DEF vars, sessionVars, Table!tableVars, CommandStatus
<1>2. req \in [Owners -> {"idle", "sending", "doomed", "waiting", "ok", "error"}]
  BY DEF ReqInv, ReqTypeOK
<1>3. \A k \in Connectors : k \notin Commands
  BY CommandsAssumption
<1>4. CASE Close
  BY <1>2, <1>4, RejectFails DEF Close, BeginClose, RejectAndClose
<1>5. CASE TimerCancelled
  BY <1>2, <1>5, RejectFails DEF TimerCancelled, RejectAndClose
<1>6. ASSUME NEW k \in Connectors, Authenticate(k) \/ SubscribeChannels(k) PROVE Table!Next
  <2>1. PICK r \in {"sending", "error"} : req' = [req EXCEPT ![k] = r]
    BY <1>6 DEF Authenticate, SubscribeChannels, StartRequest
  <2>2. answered' = answered
    BY <1>6 DEF Authenticate, SubscribeChannels
  <2>3. \A c \in Commands : req'[c] = req[c]
    BY <1>2, <1>3, <2>1 DEF Owners
  <2> QED BY <2>2, <2>3, OthersStutter
<1>7. ASSUME NEW k \in Connectors, Connected(k) \/ ReconnectFails(k) PROVE Table!Next
  <2>1. req' = [req EXCEPT ![k] = "idle"] /\ answered' = answered
    BY <1>7 DEF Connected, ReconnectFails
  <2>2. \A c \in Commands : req'[c] = req[c]
    BY <1>2, <1>3, <2>1 DEF Owners
  <2> QED BY <2>1, <2>2, OthersStutter
<1>8. ASSUME NEW k \in Connectors, OpenFails(k) PROVE Table!Next
  <2> DEFINE reqs == [req EXCEPT ![k] = "idle"]
  <2>1. req' \in {reqs, Rejected(reqs)} /\ answered' = answered
    BY <1>8 DEF OpenFails, BeginClose, RejectAndClose
  <2>2. /\ reqs \in [Owners -> {"idle", "sending", "doomed", "waiting", "ok", "error"}]
        /\ \A c \in Commands : reqs[c] = req[c]
    BY <1>2, <1>3 DEF Owners
  <2> HIDE DEF reqs
  <2> QED BY <2>1, <2>2, RejectFails
<1>9. ASSUME NEW c \in Commands, Command(c) PROVE Table!Next
  BY <1>9, CommandTable
<1>10. ASSUME NEW o \in Owners, Send(o) \/ TimesOut(o) PROVE Table!Next
  <2>1. /\ req[o] \in Live /\ answered' = answered
        /\ req' = [req EXCEPT ![o] = "waiting"] \/ req' = [req EXCEPT ![o] = "error"]
    BY <1>10 DEF Send, TimesOut, Live
  <2>2. \A c \in Commands : \/ req'[c] = req[c]
                            \/ req[c] \in Live /\ req'[c] \in {"waiting", "error"}
    BY <1>2, <2>1 DEF Owners
  <2>3. \A c \in Commands : \/ StatusOf(req'[c]) = StatusOf(req[c])
                            \/ StatusOf(req[c]) = "open" /\ StatusOf(req'[c]) = "failed"
    BY <2>2 DEF StatusOf, Live
  <2> QED BY <2>1, <2>3, FailTogether
<1>11. ASSUME NEW m \in wire, NEW verdict \in {"ok", "error"}, Response(m, verdict)
       PROVE  Table!Next
  BY <1>11, ResponseTable
<1>12. ASSUME NEW s \in Sockets, ConnectionLost(s) PROVE Table!Next
  BY <1>2, <1>12, RejectFails DEF ConnectionLost
<1>13. CASE Quiet
  <2>1. req' = req /\ answered' = answered
    BY <1>13 DEF Quiet, Open, CloseReturns, TimerFires, DialSucceeds, Lose, ReaderStops,
       DialFails, Claim, ConnectionStep, sessionVars
  <2> QED BY <2>1, OthersStutter
<1> QED BY <1>1, <1>4, <1>5, <1>6, <1>7, <1>8, <1>9, <1>10, <1>11, <1>12, <1>13 DEF Next, Quiet

\* A command is settled once, by the answer to this very command or by an
\* error: what _send_request does is allowed by RequestTable.  (That it is
\* settled in the end is CommandsSettle, which TLC checks.)
THEOREM AnswersAreOwn == Spec => Table!Init /\ [][Table!Next]_(Table!tableVars)
<1>1. Init => Table!Init
  BY DEF Init, Table!Init, CommandStatus, Owners
<1>2. IInv /\ [Next]_vars => [Table!Next]_(Table!tableVars)
  BY NextTable DEF IInv
<1> QED BY <1>1, <1>2, Inductive, PTL DEF Spec

-----------------------------------------------------------------------------
(* An open session is never stranded.                                       *)

\* What a caller of the connection awaits follows from what it does; a dial and,
\* until close() awaits the connection, a shutdown are awaited by a connector.
CallInv ==
  /\ \A k \in Connectors : call[k] # "close" /\ (call[k] # "idle" => task[k] = "connect")
  /\ call[Closer] \in {"idle", "close"}
  /\ dial # "idle" => \E k \in Connectors : call[k] = "dial"
  /\ shutdown # "idle" /\ closing \notin Shut => \E k \in Connectors : call[k] = "stale"
  /\ ready = "new" => /\ timer = FALSE /\ closing = "no"
                      /\ \A k \in Connectors : task[k] = "idle"
                      /\ \A s \in Sockets : reader[s] = "none"

\* An attempt to connect that still has to succeed: one whose subscription is
\* accepted only has to return.
Duty(k) == task[k] # "idle" /\ ~(task[k] = "subscribe" /\ req[k] = "ok")

Assured ==
  \/ current \in subscribed
  \/ timer = TRUE
  \/ \E k \in Connectors : Duty(k)
  \/ \E s \in Sockets : reader[s] = "finalizing"

DutyInv == ready \in {"opening", "open"} /\ closing = "no" => Assured

\* A connector that begins to connect.
LEMMA BeginConnectCall ==
  ASSUME IInv, CallInv, NEW k \in Connectors, task[k] = "idle", BeginConnect(k),
         closing' = closing, ready' # "new"
  PROVE  CallInv' /\ task'[k] \in {"connect", "connected"}
                  /\ \A j \in Connectors : j # k => task'[j] = task[j]
<1> USE CallersAssumption, OpenerAssumption DEF IInv, ConnTypeOK, RestTypeOK, CallInv
<1>1. k \in Callers /\ Closer \in Callers /\ call[k] = "idle" /\ k # Closer
  BY CallersAssumption, OpenerAssumption
<1>2. CASE UNCHANGED connVars /\ task' = [task EXCEPT ![k] = "connected"]
  BY <1>1, <1>2 DEF connVars
<1>3. CASE ConnectStale(k) /\ task' = [task EXCEPT ![k] = "connect"]
  BY <1>1, <1>3 DEF ConnectStale, StartShutdown
<1>4. CASE ConnectDial(k) /\ task' = [task EXCEPT ![k] = "connect"]
  BY <1>1, <1>4 DEF ConnectDial
<1> QED BY <1>2, <1>3, <1>4 DEF BeginConnect

\* A step that calls nothing and leaves connectors that await alone.
LEMMA SameCall ==
  ASSUME CallInv, UNCHANGED connVars, closing' = closing \/ closing = "no",
         \A k \in Connectors : task[k] = "connect" => task'[k] = "connect",
         ready' # "new" \/ UNCHANGED <<ready, closing, timer, task>>
  PROVE  CallInv'
<1>1. UNCHANGED <<call, dial, shutdown, reader>>
  BY DEF connVars
<1> QED BY <1>1 DEF CallInv, Shut

\* close() may call the connection.
LEMMA BeginCloseCall ==
  ASSUME IInv, CallInv, ready' # "new", NEW reqs, BeginClose(reqs) \/ RejectAndClose(reqs),
         \A k \in Connectors : task[k] = "connect" => task'[k] = "connect"
  PROVE  CallInv'
<1>1. CASE RejectAndClose(reqs)
  <2>1. /\ call' = [call EXCEPT ![Closer] = "close"] /\ dial' = dial /\ closing' = "socket"
    BY <1>1 DEF RejectAndClose, CloseCall
  <2>2. Closer \in Callers /\ \A k \in Connectors : call'[k] = call[k]
    BY <2>1, CallersAssumption, OpenerAssumption DEF IInv, ConnTypeOK
  <2>3. call'[Closer] = "close"
    BY <2>1, <2>2 DEF IInv, ConnTypeOK
  <2> QED BY <2>1, <2>2, <2>3 DEF CallInv, Shut
<1>2. CASE closing = "no" /\ UNCHANGED connVars
  BY <1>2, SameCall
<1> QED BY <1>1, <1>2 DEF BeginClose

\* Steps of the connection alone.
LEMMA ConnCall ==
  ASSUME IInv, CallInv, UNCHANGED <<closing, ready, timer, task>>,
         Claim \/ ShutdownDone
         \/ \E s \in Sockets : Lose(s) \/ ReaderStops(s) \/ SocketClosed(s) \/ ReaderLeaves(s)
  PROVE  CallInv'
<1> USE CallersAssumption, OpenerAssumption DEF IInv, ConnTypeOK
<1>1. CASE Claim
  BY <1>1 DEF Claim, ShutdownClaim, CallInv
<1>2. CASE ShutdownDone
  <2>1. /\ \A k \in Connectors : call'[k] = IF call[k] = "stale" THEN "dial" ELSE call[k]
        /\ call'[Closer] = "idle"
    BY <1>2 DEF ShutdownDone, CallInv
  <2>2. ASSUME dial' # "idle" PROVE \E k \in Connectors : call'[k] = "dial"
    <3>1. CASE dial # "idle"
      BY <2>1, <3>1 DEF CallInv
    <3>2. CASE \E c \in Callers : call[c] = "stale"
      BY <2>1, <3>2 DEF CallInv
    <3> QED BY <1>2, <2>2, <3>1, <3>2 DEF ShutdownDone
  <2>3. shutdown' = "idle" /\ reader' = reader
    BY <1>2 DEF ShutdownDone
  <2> QED BY <2>1, <2>2, <2>3 DEF CallInv
<1>3. ASSUME NEW s \in Sockets, Lose(s) \/ SocketClosed(s) PROVE CallInv'
  BY <1>3 DEF Lose, LoseSocket, SocketClosed, CallInv
<1>4. ASSUME NEW s \in Sockets, ReaderStops(s) PROVE CallInv'
  BY <1>4 DEF ReaderStops, ReaderClaims, CallInv
<1>5. ASSUME NEW s \in Sockets, ReaderLeaves(s) PROVE CallInv'
  BY <1>5 DEF ReaderLeaves, ReaderEnds, CallInv
<1> QED BY <1>1, <1>2, <1>3, <1>4, <1>5

\* The dial ends: those who awaited it go on.
LEMMA DialCall ==
  ASSUME IInv, CallInv, DialFails \/ \E s \in Sockets : DialSucceeds(s)
  PROVE  /\ CallInv'
         /\ \E k \in Connectors : task'[k] \in {"connected", "failed"}
         /\ \A k \in Connectors : task'[k] = task[k] \/ task'[k] \in {"connected", "failed"}
<1> USE CallersAssumption, OpenerAssumption DEF IInv, ConnTypeOK, RestTypeOK
<1>1. dial # "idle" /\ dial' = "idle" /\ UNCHANGED <<shutdown, closing, ready, timer>>
  BY DEF DialFails, DialFail, DialSucceeds, DialOk
<1>2. \A k \in Connectors : call'[k] = IF call[k] = "dial" THEN "idle" ELSE call[k]
  BY DEF DialFails, DialFail, DialSucceeds, DialOk
<1>3. call'[Closer] \in {"idle", "close"}
  BY DEF DialFails, DialFail, DialSucceeds, DialOk, CallInv
<1>4. \A k \in Connectors :
        IF call[k] = "dial" THEN task'[k] \in {"connected", "failed"} ELSE task'[k] = task[k]
  BY DEF DialFails, DialSucceeds
<1>5. \E k \in Connectors : call[k] = "dial" /\ task'[k] \in {"connected", "failed"}
  BY <1>1, <1>4 DEF CallInv
<1>6. ready # "new"
  BY <1>5 DEF CallInv
<1> QED BY <1>1, <1>2, <1>3, <1>4, <1>5, <1>6 DEF CallInv

LEMMA NextCall == IInv /\ CallInv /\ [Next]_vars => CallInv'
<1> SUFFICES ASSUME IInv, CallInv, [Next]_vars PROVE CallInv'
  OBVIOUS
<1> USE OpenerAssumption
<1>1. CASE UNCHANGED vars
  BY <1>1, SameCall DEF vars, sessionVars
<1>2. CASE Open
  BY <1>2, BeginConnectCall DEF Open, CallInv
<1>3. ASSUME NEW k \in Connectors, TimerFires(k) PROVE CallInv'
  BY <1>3, BeginConnectCall DEF TimerFires, CallInv
<1>4. CASE Close
  BY <1>4, BeginCloseCall DEF Close
<1>5. CASE TimerCancelled
  <2>1. ready' # "new" /\ UNCHANGED task
    BY <1>5 DEF TimerCancelled, CallInv
  <2> QED BY <1>5, <2>1, BeginCloseCall DEF TimerCancelled
<1>6. ASSUME NEW k \in Connectors, OpenFails(k) PROVE CallInv'
  <2>1. /\ ready' = "failed" /\ task' = [task EXCEPT ![k] = "idle"] /\ task[k] # "connect"
    BY <1>6 DEF OpenFails, HasFailed
  <2>2. \A j \in Connectors : task[j] = "connect" => task'[j] = "connect"
    BY <2>1 DEF IInv, RestTypeOK
  <2>3. CASE BeginClose([req EXCEPT ![k] = "idle"])
    BY <2>1, <2>2, <2>3, BeginCloseCall
  <2>4. CASE UNCHANGED <<connVars, closing, timer>>
    BY <2>1, <2>2, <2>4, SameCall
  <2> QED BY <1>6, <2>3, <2>4 DEF OpenFails
<1>7. ASSUME NEW k \in Connectors,
             Authenticate(k) \/ SubscribeChannels(k) \/ Connected(k) \/ ReconnectFails(k)
      PROVE  CallInv'
  <2>1. task[k] \notin {"idle", "connect"} /\ UNCHANGED <<connVars, closing>>
    BY <1>7 DEF Authenticate, SubscribeChannels, Connected, ReconnectFails, HasFailed
  <2>2. \A j \in Connectors : task[j] = "connect" => task'[j] = "connect"
    BY <1>7, <2>1 DEF Authenticate, SubscribeChannels, Connected, ReconnectFails, IInv, RestTypeOK
  <2>3. ready' # "new"
    BY <1>7, <2>1 DEF Authenticate, SubscribeChannels, Connected, ReconnectFails, CallInv
  <2> QED BY <2>1, <2>2, <2>3, SameCall
<1>8. ASSUME \/ \E c \in Commands : Command(c)
             \/ \E o \in Owners : Send(o) \/ TimesOut(o)
             \/ \E m \in wire, verdict \in {"ok", "error"} : Response(m, verdict)
      PROVE  CallInv'
  BY <1>8, SameCall DEF Command, Send, TimesOut, Response
<1>9. CASE CloseReturns
  BY <1>9 DEF CloseReturns, connVars, CallInv, Shut
<1>10. CASE DialFails \/ \E s \in Sockets : DialSucceeds(s)
  BY <1>10, DialCall
<1>11. ASSUME NEW s \in Sockets, ConnectionLost(s) PROVE CallInv'
  <2>1. ready # "new"
    BY <1>11 DEF ConnectionLost, ReaderReportsLoss, CallInv
  <2> QED BY <1>11, <2>1 DEF ConnectionLost, ReaderReportsLoss, ReaderEnds, CallInv
<1>12. ASSUME NEW s \in Sockets, Lose(s) \/ ReaderStops(s) PROVE CallInv'
  <2>1. UNCHANGED <<closing, ready, timer, task>>
    BY <1>12 DEF Lose, ReaderStops
  <2> QED BY <1>12, <2>1, ConnCall
<1>13. CASE Claim
  <2>1. UNCHANGED <<closing, ready, timer, task>>
    BY <1>13 DEF Claim
  <2> QED BY <1>13, <2>1, ConnCall
<1>14. CASE ConnectionStep
  <2>1. UNCHANGED <<closing, ready, timer, task>>
    BY <1>14 DEF ConnectionStep, sessionVars
  <2> QED BY <1>14, <2>1, ConnCall DEF ConnectionStep, Internal
<1> QED BY <1>1, <1>2, <1>3, <1>4, <1>5, <1>6, <1>7, <1>8, <1>9, <1>10, <1>11, <1>12, <1>13, <1>14
        DEF Next

\* A step that keeps what assures the session.
LEMMA SameAssured ==
  ASSUME DutyInv, UNCHANGED <<current, subscribed, reader, closing>>,
         ready' = ready, timer = TRUE => timer' = TRUE,
         \A k \in Connectors : Duty(k) => Duty(k)'
  PROVE  DutyInv'
BY DEF DutyInv, Assured

\* The answer that ends a connector's duty is the acceptance of its subscription.
LEMMA ResponseDuty ==
  ASSUME IInv, DutyInv, NEW m \in wire, NEW verdict \in {"ok", "error"}, Response(m, verdict)
  PROVE  DutyInv'
<1> USE DEF IInv, ReqInv
<1>1. /\ req' = [o \in Owners |-> IF o \in Pending /\ id[o] = m.id THEN verdict ELSE req[o]]
      /\ UNCHANGED <<connVars, ready, closing, timer, task>>
      /\ current = m.sock /\ subscribed \subseteq subscribed'
  BY DEF Response
<1>2. UNCHANGED <<current, reader>>
  BY <1>1 DEF connVars
<1>3. ASSUME NEW k \in Connectors, Duty(k), ~Duty(k)' PROVE current \in subscribed'
  <2>1. k \in Pending /\ id[k] = m.id /\ verdict = "ok" /\ task[k] = "subscribe"
    BY <1>1, <1>3 DEF Duty, Owners
  <2>2. m.from = k
    BY <2>1 DEF Pending, IdsAreOwn, Live
  <2> QED BY <1>1, <2>1, <2>2 DEF Response
<1> QED BY <1>1, <1>2, <1>3 DEF DutyInv, Assured

LEMMA NextDuty == IInv /\ CallInv /\ DutyInv /\ [Next]_vars => DutyInv'
<1> SUFFICES ASSUME IInv, CallInv, DutyInv, [Next]_vars PROVE DutyInv'
  OBVIOUS
<1> USE OpenerAssumption, CommandsAssumption DEF IInv, RestTypeOK, ReqInv, ReqTypeOK
<1>1. CASE UNCHANGED vars
  BY <1>1, SameAssured DEF vars, connVars, sessionVars, Duty
<1>2. CASE Open
  <2>1. task'[Opener] \in {"connect", "connected"}
    BY <1>2, BeginConnectCall DEF Open, CallInv
  <2> QED BY <2>1 DEF DutyInv, Assured, Duty
<1>3. ASSUME NEW k \in Connectors, TimerFires(k) PROVE DutyInv'
  <2>1. task'[k] \in {"connect", "connected"}
    BY <1>3, BeginConnectCall DEF TimerFires, CallInv
  <2> QED BY <2>1 DEF DutyInv, Assured, Duty
<1>4. CASE Close \/ TimerCancelled \/ CloseReturns
  <2>1. closing' # "no"
    BY <1>4 DEF Close, BeginClose, TimerCancelled, RejectAndClose, CloseReturns
  <2> QED BY <2>1 DEF DutyInv
<1>5. ASSUME NEW k \in Connectors, OpenFails(k) PROVE DutyInv'
  BY <1>5 DEF OpenFails, DutyInv
<1>6. ASSUME NEW k \in Connectors, Authenticate(k) \/ SubscribeChannels(k) PROVE DutyInv'
  <2>1. /\ \E r \in {"sending", "error"} : req' = [req EXCEPT ![k] = r]
        /\ \E t \in {"auth", "subscribe"} : task' = [task EXCEPT ![k] = t]
    BY <1>6 DEF Authenticate, SubscribeChannels, StartRequest
  <2>2. Duty(k)'
    BY <2>1 DEF Duty, Owners
  <2> QED BY <2>2 DEF DutyInv, Assured
<1>7. ASSUME NEW k \in Connectors, Connected(k) PROVE DutyInv'
  <2>1. ~Duty(k) /\ Opener \in Connectors /\ task[k] = "subscribe"
    BY <1>7 DEF Connected, Duty
  <2>2. ready' \in {"opening", "open"} => ready \in {"opening", "open"}
    BY <1>7 DEF Connected, Opening
  <2>3. \A j \in Connectors : j # k => task'[j] = task[j] /\ req'[j] = req[j]
    BY <1>7 DEF Connected, Owners
  <2>4. UNCHANGED <<current, reader, subscribed, timer, closing>>
    BY <1>7 DEF Connected, connVars
  <2> QED BY <2>1, <2>2, <2>3, <2>4 DEF DutyInv, Assured, Duty
<1>8. ASSUME NEW k \in Connectors, ReconnectFails(k) PROVE DutyInv'
  BY <1>8 DEF ReconnectFails, Schedule, DutyInv, Assured
<1>9. ASSUME NEW c \in Commands, Command(c) PROVE DutyInv'
  <2>1. \E r \in {"sending", "error"} : req' = [req EXCEPT ![c] = r]
    BY <1>9 DEF Command, StartRequest
  <2>2. \A k \in Connectors : req'[k] = req[k]
    BY <2>1 DEF Owners
  <2> QED BY <1>9, <2>2, SameAssured DEF Command, connVars, Duty
<1>10. ASSUME NEW o \in Owners, Send(o) \/ TimesOut(o) PROVE DutyInv'
  <2>1. \E r \in {"waiting", "error"} : req' = [req EXCEPT ![o] = r]
    BY <1>10 DEF Send, TimesOut
  <2>2. \A k \in Connectors : req'[k] = "ok" => req[k] = "ok"
    BY <2>1 DEF Owners
  <2> QED BY <1>10, <2>2, SameAssured DEF Send, TimesOut, connVars, Duty
<1>11. ASSUME NEW m \in wire, NEW verdict \in {"ok", "error"}, Response(m, verdict)
       PROVE  DutyInv'
  BY <1>11, ResponseDuty
<1>12. CASE DialFails \/ \E s \in Sockets : DialSucceeds(s)
  <2>1. \E k \in Connectors : task'[k] \in {"connected", "failed"}
    BY <1>12, DialCall
  <2> QED BY <2>1 DEF DutyInv, Assured, Duty
<1>13. ASSUME NEW s \in Sockets, Lose(s) PROVE DutyInv'
  BY <1>13, SameAssured DEF Lose, LoseSocket, Duty
<1>14. ASSUME NEW s \in Sockets, ReaderStops(s) PROVE DutyInv'
  <2>1. reader'[s] = "finalizing"
    BY <1>14 DEF ReaderStops, ReaderClaims, ConnTypeOK
  <2> QED BY <2>1 DEF DutyInv, Assured
<1>15. ASSUME NEW s \in Sockets, ConnectionLost(s) PROVE DutyInv'
  BY <1>15 DEF ConnectionLost, Schedule, DutyInv, Assured
<1>16. CASE Claim
  <2>1. shutdown # "idle" /\ UNCHANGED <<task, req, closing>>
    BY <1>16 DEF Claim, ShutdownClaim
  <2>2. closing = "no" => \E k \in Connectors : task[k] = "connect"
    BY <2>1 DEF CallInv, Shut
  <2> QED BY <2>1, <2>2 DEF DutyInv, Assured, Duty
<1>17. CASE ConnectionStep
  <2>1. UNCHANGED <<current, ready, closing, timer, task, req, subscribed>>
    BY <1>17 DEF ConnectionStep, Internal, sessionVars, ShutdownDone, SocketClosed,
       ReaderLeaves, ReaderEnds
  <2>2. \A s \in Sockets : reader[s] = "finalizing" => reader'[s] = "finalizing"
    BY <1>17 DEF ConnectionStep, Internal, ShutdownDone, SocketClosed, ReaderLeaves, ReaderEnds,
       ConnTypeOK
  <2> QED BY <2>1, <2>2 DEF DutyInv, Assured, Duty
<1> QED BY <1>1, <1>2, <1>3, <1>4, <1>5, <1>6, <1>7, <1>8, <1>9, <1>10, <1>11, <1>12, <1>13,
           <1>14, <1>15, <1>16, <1>17
        DEF Next

\* An open session reads a socket whose subscription the server has accepted,
\* or somebody has the duty to get one, whatever is lost, times out or is
\* answered late.
THEOREM NeverLost == Spec => []NeverStranded
<1>1. Init => CallInv /\ DutyInv
  BY CallersAssumption, OpenerAssumption DEF Init, ConnInit, CallInv, DutyInv
<1>2. IInv /\ DutyInv => NeverStranded
  BY DEF DutyInv, Assured, Duty, NeverStranded
<1> QED BY <1>1, <1>2, NextCall, NextDuty, Inductive, PTL DEF Spec

===============================================================================
