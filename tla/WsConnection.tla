---------------------------- MODULE WsConnection ----------------------------
(***************************************************************************)
(* AsyncWebSocketConnection (_internal/ws/connection.py): one reconnectable *)
(* websocket shared by several asyncio tasks.  A task is a member of        *)
(* Callers; it runs from one await to the next without interruption, so an  *)
(* action below is the code between two awaits.                             *)
(*                                                                          *)
(* The module defines the state and the steps of the connection.  The       *)
(* modules that use a connection conjoin these steps with their own.        *)
(***************************************************************************)
EXTENDS Naturals, FiniteSets

CONSTANTS
  Sockets,   \* identities of websocket objects; one is reused once it is dead
  NoSocket,  \* Python's None where a socket is expected
  Callers    \* tasks that call connect() and close()

ASSUME NoSocketAssumption == NoSocket \notin Sockets

VARIABLES
  sock,         \* state of each websocket: free (not allocated), open, closing, closed
  current,      \* self._socket
  reader,       \* _read_loop of each websocket: none, reading, finalizing
  readerTask,   \* self._reader_task, NoSocket when there is no running reader
  dial,         \* self._connecting: idle, fresh, or redial (it replaces a stale socket)
  shutdown,     \* self._closing: idle, begin (created), drain (past the claim)
  draining,     \* the socket _shutdown claimed and is closing
  drainReader,  \* the reader _shutdown is awaiting
  call          \* what each caller awaits: idle, stale, dial, close

connVars == <<sock, current, reader, readerTask, dial, shutdown, draining,
              drainReader, call>>

MaybeSocket == Sockets \cup {NoSocket}

ConnTypeOK ==
  /\ sock \in [Sockets -> {"free", "open", "closing", "closed"}]
  /\ current \in MaybeSocket
  /\ reader \in [Sockets -> {"none", "reading", "finalizing"}]
  /\ readerTask \in MaybeSocket
  /\ dial \in {"idle", "fresh", "redial"}
  /\ shutdown \in {"idle", "begin", "drain"}
  /\ draining \in MaybeSocket
  /\ drainReader \in MaybeSocket
  /\ call \in [Callers -> {"idle", "stale", "dial", "close"}]

ConnInit ==
  /\ sock = [s \in Sockets |-> "free"]
  /\ current = NoSocket
  /\ reader = [s \in Sockets |-> "none"]
  /\ readerTask = NoSocket
  /\ dial = "idle"
  /\ shutdown = "idle"
  /\ draining = NoSocket
  /\ drainReader = NoSocket
  /\ call = [c \in Callers |-> "idle"]

IsOpen == current # NoSocket /\ sock[current] = "open"

\* close() creates the shutdown task unless one is running: callers share it.
StartShutdown == shutdown' = IF shutdown = "idle" THEN "begin" ELSE shutdown

-----------------------------------------------------------------------------
(* connect() has three outcomes.  The first, an open socket, is reused      *)
(* without an await; the second closes a stale socket first.                *)

ConnectStale(c) ==
  /\ current # NoSocket
  /\ sock[current] # "open"
  /\ call' = [call EXCEPT ![c] = "stale"]
  /\ StartShutdown
  /\ UNCHANGED <<sock, current, reader, readerTask, dial, draining, drainReader>>

\* Mutant: dial without looking at the socket there is.
ConnectDialAnyway(c) ==
  /\ call' = [call EXCEPT ![c] = "dial"]
  /\ dial' = IF dial = "idle" THEN "fresh" ELSE dial
  /\ UNCHANGED <<sock, current, reader, readerTask, shutdown, draining, drainReader>>

ConnectDial(c) ==
  /\ current = NoSocket
  /\ call' = [call EXCEPT ![c] = "dial"]
  /\ dial' = IF dial = "idle" THEN "fresh" ELSE dial
  /\ UNCHANGED <<sock, current, reader, readerTask, shutdown, draining, drainReader>>

\* _open: the handshake succeeded, the read loop starts and the callers that
\* awaited the dial resume; those in closers call close() before they await
\* anything else.
DialOk(s, closers) ==
  LET resumed == {c \in Callers : call[c] = "dial"} IN
  /\ dial # "idle"
  /\ sock[s] = "free"
  /\ sock' = [sock EXCEPT ![s] = "open"]
  /\ reader' = [reader EXCEPT ![s] = "reading"]
  /\ current' = s
  /\ readerTask' = s
  /\ dial' = "idle"
  /\ call' = [c \in Callers |-> IF c \notin resumed THEN call[c]
                               ELSE IF c \in closers THEN "close" ELSE "idle"]
  /\ IF resumed \cap closers # {} THEN StartShutdown ELSE UNCHANGED shutdown
  /\ UNCHANGED <<draining, drainReader>>

\* _open raises TransportError.
DialFail ==
  /\ dial # "idle"
  /\ dial' = "idle"
  /\ call' = [c \in Callers |-> IF call[c] = "dial" THEN "idle" ELSE call[c]]
  /\ UNCHANGED <<sock, current, reader, readerTask, shutdown, draining, drainReader>>

CloseCall(c) ==
  /\ call' = [call EXCEPT ![c] = "close"]
  /\ StartShutdown
  /\ UNCHANGED <<sock, current, reader, readerTask, dial, draining, drainReader>>

-----------------------------------------------------------------------------
(* _shutdown: wait for a dial in progress, claim the socket, close it and   *)
(* wait for the reader.  A claimed socket never reports on_connection_lost. *)

\* Mutant: the shutdown clears the reference before it looks which socket to
\* close, and awaits the reader of one that stays open.
ShutdownForgetsSocket ==
  /\ shutdown = "begin"
  /\ dial = "idle"
  /\ shutdown' = "drain"
  /\ draining' = NoSocket
  /\ drainReader' = readerTask
  /\ readerTask' = NoSocket
  /\ current' = NoSocket
  /\ UNCHANGED <<sock, reader, dial, call>>

ShutdownClaim ==
  /\ shutdown = "begin"
  /\ dial = "idle"
  /\ shutdown' = "drain"
  /\ draining' = IF current # NoSocket /\ sock[current] # "closed"
                 THEN current ELSE NoSocket
  /\ drainReader' = readerTask
  /\ readerTask' = NoSocket
  /\ current' = NoSocket
  /\ sock' = [s \in Sockets |-> IF s = current /\ sock[s] = "open"
                                THEN "closing" ELSE sock[s]]
  /\ UNCHANGED <<reader, dial, call>>

\* Mutant: connect() returns to the dial it found before it closed the socket.
ShutdownDoneNoDial ==
  /\ shutdown = "drain"
  /\ draining = NoSocket
  /\ drainReader = NoSocket
  /\ shutdown' = "idle"
  /\ call' = [c \in Callers |-> CASE call[c] = "stale" -> "dial"
                                  [] call[c] = "close" -> "idle"
                                  [] OTHER -> call[c]]
  /\ UNCHANGED <<sock, current, reader, readerTask, dial, draining, drainReader>>

\* The shutdown task ends: close() returns, and a connect() that found a
\* stale socket goes on to dial, joining a dial already in progress.
ShutdownDone ==
  /\ shutdown = "drain"
  /\ draining = NoSocket
  /\ drainReader = NoSocket
  /\ shutdown' = "idle"
  /\ call' = [c \in Callers |-> CASE call[c] = "stale" -> "dial"
                                  [] call[c] = "close" -> "idle"
                                  [] OTHER -> call[c]]
  /\ dial' = IF dial = "idle" /\ \E c \in Callers : call[c] = "stale"
             THEN "redial" ELSE dial
  /\ UNCHANGED <<sock, current, reader, readerTask, draining, drainReader>>

-----------------------------------------------------------------------------
(* The websocket itself and its reader.                                     *)

\* The peer closes, the network fails, or the watchdog closes a socket whose
\* heartbeat is stale: the socket stops being OPEN before the reader knows.
LoseSocket(s) ==
  /\ sock[s] = "open"
  /\ sock' = [sock EXCEPT ![s] = "closing"]
  /\ UNCHANGED <<current, reader, readerTask, dial, shutdown, draining,
                 drainReader, call>>

\* The closing handshake ends or times out.
SocketClosed(s) ==
  /\ sock[s] = "closing"
  /\ sock' = [sock EXCEPT ![s] = IF reader[s] = "none" THEN "free" ELSE "closed"]
  /\ draining' = IF draining = s THEN NoSocket ELSE draining
  /\ UNCHANGED <<current, reader, readerTask, dial, shutdown, drainReader, call>>

\* The reader of the current socket sees the end of it and claims the cleanup.
ReaderClaims(s) ==
  /\ reader[s] = "reading"
  /\ sock[s] = "closed"
  /\ current = s
  /\ current' = NoSocket
  /\ reader' = [reader EXCEPT ![s] = "finalizing"]
  /\ UNCHANGED <<sock, readerTask, dial, shutdown, draining, drainReader, call>>

ReaderEnds(s) ==
  /\ reader' = [reader EXCEPT ![s] = "none"]
  /\ sock' = [sock EXCEPT ![s] = IF sock[s] = "closed" THEN "free" ELSE sock[s]]
  /\ readerTask' = IF readerTask = s THEN NoSocket ELSE readerTask
  /\ drainReader' = IF drainReader = s THEN NoSocket ELSE drainReader
  /\ UNCHANGED <<current, dial, shutdown, draining, call>>

\* The finalizer calls on_connection_lost as its last step.
ReaderReportsLoss(s) ==
  /\ reader[s] = "finalizing"
  /\ ReaderEnds(s)

\* A reader whose socket was claimed by _shutdown leaves without a report, on
\* the next message or on the end of the socket.
ReaderLeaves(s) ==
  /\ reader[s] = "reading"
  /\ current # s
  /\ ReaderEnds(s)

=============================================================================
