------------------------------ MODULE RfqClient ------------------------------
(***************************************************************************)
(* The RFQ session of a client: open_rfq_session() and close() of           *)
(* AsyncSecureClient (clients/async_secure.py), and the quoter session they *)
(* share (_internal/rfq.py) with its acknowledgements, which carry no       *)
(* request identifier.                                                      *)
(*                                                                          *)
(* A session is also the task that opens it.  Its connection is what        *)
(* WsConnection.tla shows it to be: close() waits for a dial under way and  *)
(* then releases the socket.  Quotes all answer one RFQ, so they share one  *)
(* queue of waiters.                                                        *)
(***************************************************************************)
EXTENDS Naturals, Sequences, FiniteSets, SequencesExt

CONSTANTS
  MaxSessions,\* sessions that may be created
  Users,      \* tasks that call open_rfq_session() once
  Quotes,     \* quote() calls
  MaxFaults   \* dials and authentications that fail, connections that are lost

ASSUME BoundsAssumption == MaxSessions \in Nat /\ MaxFaults \in Nat

Sessions == 1..MaxSessions
NoSession == 0

VARIABLES
  slot,       \* _rfq_session
  opening,    \* _rfq_session_opening
  connecting, \* _rfq_session_connecting
  stage,      \* of each session's open(): unused, created (its task has not
              \* run), dialing, auth, failing (it closes itself), opened, failed
  closed,     \* sessions with _closed set
  sock,       \* socket of each session: none, dialing, open or released
  releasing,  \* sessions whose connection.close() has been called
  auth,       \* waiter for the authentication: none, waiting, ok or error
  user,       \* each user: idle, owner, joined, done, error, closing (the session
              \* it was handed) or closed
  got,        \* the session a user awaits or was handed
  closer,     \* close(): idle, first, opening, opened, again or done
  doomed,     \* sessions _close_all() has yet to close
  busy,       \* the session whose close() it awaits
  awaited,    \* its local "opening"
  present,    \* sessions there were when close() was called
  quote,      \* idle, waiting, timed out, failed, or answered
  sent,       \* session -> quotes the server has not acknowledged, oldest first
  waiters,    \* session -> quotes that wait for an acknowledgement
  ackOf,      \* the quote whose acknowledgement settled a quote, if one has
  faults

clientVars == <<slot, opening, connecting, user, got>>
closeVars == <<closer, doomed, busy, awaited, present>>
sessionVars == <<stage, closed, sock, releasing, auth>>
quoteVars == <<quote, sent, waiters, ackOf>>
vars == <<clientVars, closeVars, sessionVars, quoteVars, faults>>

Maybe == Sessions \cup {NoSession}

TypeOK ==
  /\ slot \in Maybe /\ opening \in Maybe /\ connecting \in Maybe
  /\ stage \in [Sessions -> {"unused", "created", "dialing", "auth", "failing",
                             "opened", "failed"}]
  /\ closed \subseteq Sessions /\ releasing \subseteq Sessions
  /\ sock \in [Sessions -> {"none", "dialing", "open", "released"}]
  /\ auth \in [Sessions -> {"none", "waiting", "ok", "error"}]
  /\ user \in [Users -> {"idle", "owner", "joined", "done", "error", "closing", "closed"}]
  /\ got \in [Users -> Maybe]
  /\ closer \in {"idle", "first", "opening", "opened", "again", "done"}
  /\ doomed \in Seq(Sessions) /\ busy \in Maybe /\ awaited \in Maybe
  /\ present \subseteq Sessions
  /\ quote \in [Quotes -> {"idle", "waiting", "timed out", "failed", "answered"}]
  /\ sent \in [Sessions -> Seq(Quotes)] /\ waiters \in [Sessions -> Seq(Quotes)]
  /\ ackOf \in [Quotes -> SUBSET Quotes]
  /\ faults \in 0..MaxFaults

Init ==
  /\ slot = NoSession /\ opening = NoSession /\ connecting = NoSession
  /\ stage = [s \in Sessions |-> "unused"]
  /\ closed = {} /\ releasing = {}
  /\ sock = [s \in Sessions |-> "none"]
  /\ auth = [s \in Sessions |-> "none"]
  /\ user = [u \in Users |-> "idle"]
  /\ got = [u \in Users |-> NoSession]
  /\ closer = "idle" /\ doomed = <<>> /\ busy = NoSession /\ awaited = NoSession
  /\ present = {}
  /\ quote = [q \in Quotes |-> "idle"]
  /\ sent = [s \in Sessions |-> <<>>] /\ waiters = [s \in Sessions |-> <<>>]
  /\ ackOf = [q \in Quotes |-> {}]
  /\ faults = 0

Live(s) == stage[s] \notin {"unused", "failed"} /\ s \notin closed

-----------------------------------------------------------------------------
(* The quoter session.                                                      *)

\* Mutant: whatever session the client holds is cleared.
ClearAny(s) == slot' = NoSession

\* clear_session(), the on_close callback.
Clear(s) == slot' = IF slot = s THEN NoSession ELSE slot

\* _reject_all_pending().
RejectAll(s) ==
  /\ auth' = [auth EXCEPT ![s] = IF @ = "waiting" THEN "error" ELSE @]
  /\ quote' = [q \in Quotes |->
       IF \E i \in DOMAIN waiters[s] : waiters[s][i] = q THEN "failed" ELSE quote[q]]
  /\ waiters' = [waiters EXCEPT ![s] = <<>>]

\* close() up to its await; afterwards Released(s) lets it go on.
CloseSession(s) ==
  /\ closed' = closed \cup {s}
  /\ releasing' = releasing \cup {s}
  /\ RejectAll(s)

Released(s) == sock[s] = "released"

\* The socket is closed, and nothing sent on it is answered any more.
Gone(s) ==
  /\ sock' = [sock EXCEPT ![s] = "released"]
  /\ sent' = [sent EXCEPT ![s] = <<>>]

Fault == faults < MaxFaults /\ faults' = faults + 1

\* The task runs: the session is created and dials.
Dial(s) ==
  /\ stage[s] = "created"
  /\ stage' = [stage EXCEPT ![s] = "dialing"]
  /\ sock' = [sock EXCEPT ![s] = "dialing"]
  /\ connecting' = s
  /\ UNCHANGED <<slot, opening, user, got, closeVars, closed, releasing, auth, quoteVars, faults>>

DialSucceeds(s) ==
  /\ sock[s] = "dialing"
  /\ sock' = [sock EXCEPT ![s] = "open"]
  /\ UNCHANGED <<clientVars, closeVars, stage, closed, releasing, auth, quoteVars, faults>>

\* open() raises: its task ends, and leaves the connecting slot if it has it.
Leave(s) == connecting' = IF connecting = s THEN NoSession ELSE connecting

DialFails(s) ==
  /\ sock[s] = "dialing"
  /\ Fault
  /\ sock' = [sock EXCEPT ![s] = "released"]
  /\ stage' = [stage EXCEPT ![s] = "failed"]
  /\ Leave(s)
  /\ UNCHANGED <<slot, opening, user, got, closeVars, closed, releasing, auth, quoteVars>>

\* connect() returns: the waiter is registered and the message sent.
Authenticate(s) ==
  /\ stage[s] = "dialing"
  /\ sock[s] \in {"open", "released"}
  /\ stage' = [stage EXCEPT ![s] = "auth"]
  /\ auth' = [auth EXCEPT ![s] = IF sock[s] = "open" THEN "waiting" ELSE "error"]
  /\ UNCHANGED <<clientVars, closeVars, closed, sock, releasing, quoteVars, faults>>

\* The server's answer, or none in time.
AuthAnswered(s) ==
  /\ auth[s] = "waiting"
  /\ sock[s] = "open"
  /\ auth' = [auth EXCEPT ![s] = "ok"]
  /\ UNCHANGED <<clientVars, closeVars, stage, closed, sock, releasing, quoteVars, faults>>

AuthFails(s) ==
  /\ auth[s] = "waiting"
  /\ Fault
  /\ auth' = [auth EXCEPT ![s] = "error"]
  /\ UNCHANGED <<clientVars, closeVars, stage, closed, sock, releasing, quoteVars>>

Opened(s) ==
  /\ stage[s] = "auth"
  /\ auth[s] = "ok"
  /\ stage' = [stage EXCEPT ![s] = "opened"]
  /\ Leave(s)
  /\ UNCHANGED <<slot, opening, user, got, closeVars, closed, sock, releasing,
                 auth, quoteVars, faults>>

\* open() closes its session before it raises, unless it is closed already.
OpenFails(s) ==
  /\ stage[s] = "auth"
  /\ auth[s] = "error"
  /\ IF s \in closed
     THEN /\ stage' = [stage EXCEPT ![s] = "failed"]
          /\ Leave(s)
          /\ UNCHANGED <<closed, releasing, auth, quote, waiters>>
     ELSE /\ stage' = [stage EXCEPT ![s] = "failing"]
          /\ CloseSession(s)
          /\ UNCHANGED connecting
  /\ UNCHANGED <<slot, opening, user, got, closeVars, sock, sent, ackOf, faults>>

OpenRaises(s) ==
  /\ stage[s] = "failing"
  /\ Released(s)
  /\ stage' = [stage EXCEPT ![s] = "failed"]
  /\ Leave(s)
  /\ Clear(s)
  /\ UNCHANGED <<opening, user, got, closeVars, closed, sock, releasing, auth, quoteVars, faults>>

\* _on_connection_lost(): the reader has claimed the socket, perhaps before a
\* close() that is under way.
Lost(s) ==
  /\ sock[s] = "open"
  /\ Fault
  /\ Gone(s)
  /\ Clear(s)
  /\ closed' = closed \cup {s}
  /\ IF s \in closed THEN UNCHANGED <<auth, quote, waiters>> ELSE RejectAll(s)
  /\ UNCHANGED <<opening, connecting, user, got, closeVars, stage, releasing, ackOf>>

\* _fail(): an answer nobody can be told about.
ProtocolFailure(s) ==
  /\ sock[s] = "open"
  /\ Fault
  /\ s \notin closed
  /\ CloseSession(s)
  /\ Clear(s)
  /\ UNCHANGED <<opening, connecting, user, got, closeVars, stage, sock, sent, ackOf>>

Release(s) ==
  /\ s \in releasing
  /\ sock[s] = "open"
  /\ Gone(s)
  /\ UNCHANGED <<clientVars, closeVars, stage, closed, releasing, auth, quote, waiters,
                 ackOf, faults>>

\* A user closes the session it was handed, or leaves its "async with".
UserCloses(u) ==
  /\ user[u] = "done"
  /\ got[u] \notin closed
  /\ user' = [user EXCEPT ![u] = "closing"]
  /\ CloseSession(got[u])
  /\ UNCHANGED <<slot, opening, connecting, got, closeVars, stage, sock, sent, ackOf, faults>>

UserCloseReturns(u) ==
  /\ user[u] = "closing"
  /\ Released(got[u])
  /\ user' = [user EXCEPT ![u] = "closed"]
  /\ Clear(got[u])
  /\ UNCHANGED <<opening, connecting, got, closeVars, sessionVars, quoteVars, faults>>

-----------------------------------------------------------------------------
(* quote().                                                                 *)

\* The waiter is registered, then the frame is sent.
Quote(u, q) ==
  /\ user[u] = "done"
  /\ quote[q] = "idle"
  /\ LET s == got[u] IN
     IF sock[s] = "open" /\ s \notin releasing
     THEN /\ quote' = [quote EXCEPT ![q] = "waiting"]
          /\ sent' = [sent EXCEPT ![s] = Append(@, q)]
          /\ waiters' = [waiters EXCEPT ![s] = Append(@, q)]
     ELSE /\ quote' = [quote EXCEPT ![q] = "failed"]
          /\ UNCHANGED <<sent, waiters>>
  /\ UNCHANGED <<clientVars, closeVars, sessionVars, ackOf, faults>>

\* Mutant: the newest waiter is taken.
Newest(queue) == Len(queue)

\* _pop_pending(): the place of the oldest waiter that still waits.
Oldest(queue) == 1

\* The server acknowledges its quotes in order; a refusal settles like an ack.
Acknowledged(s) ==
  /\ sock[s] = "open"
  /\ sent[s] # <<>>
  /\ sent' = [sent EXCEPT ![s] = Tail(@)]
  /\ IF waiters[s] = <<>>
     THEN UNCHANGED <<quote, waiters, ackOf>>
     ELSE LET i == Oldest(waiters[s])
              q == waiters[s][i]
          IN
          /\ quote' = [quote EXCEPT ![q] = "answered"]
          /\ waiters' = [waiters EXCEPT ![s] = RemoveAt(@, i)]
          /\ ackOf' = [ackOf EXCEPT ![q] = {Head(sent[s])}]
  /\ UNCHANGED <<clientVars, closeVars, sessionVars, faults>>

\* No acknowledgement in time: the waiter is taken out of the queue.
QuoteTimesOut(s, i) ==
  /\ quote' = [quote EXCEPT ![waiters[s][i]] = "timed out"]
  /\ waiters' = [waiters EXCEPT ![s] = RemoveAt(@, i)]
  /\ UNCHANGED <<clientVars, closeVars, sessionVars, sent, ackOf, faults>>

-----------------------------------------------------------------------------
(* open_rfq_session().                                                      *)

Reusable == slot # NoSession /\ slot \notin closed

OpenReuses(u) ==
  /\ user[u] = "idle"
  /\ Reusable
  /\ user' = [user EXCEPT ![u] = "done"]
  /\ got' = [got EXCEPT ![u] = slot]
  /\ UNCHANGED <<slot, opening, connecting, closeVars, sessionVars, quoteVars, faults>>

OpenJoins(u) ==
  /\ user[u] = "idle"
  /\ ~Reusable
  /\ opening # NoSession
  /\ slot' = NoSession
  /\ user' = [user EXCEPT ![u] = "joined"]
  /\ got' = [got EXCEPT ![u] = opening]
  /\ UNCHANGED <<opening, connecting, closeVars, sessionVars, quoteVars, faults>>

OpenCreates(u, s) ==
  /\ user[u] = "idle"
  /\ ~Reusable
  /\ opening = NoSession
  /\ stage[s] = "unused"
  /\ \A t \in 1..(s - 1) : stage[t] # "unused"
  /\ slot' = NoSession
  /\ opening' = s
  /\ stage' = [stage EXCEPT ![s] = "created"]
  /\ user' = [user EXCEPT ![u] = "owner"]
  /\ got' = [got EXCEPT ![u] = s]
  /\ UNCHANGED <<connecting, closeVars, closed, sock, releasing, auth, quoteVars, faults>>

OwnerResumes(u) ==
  /\ user[u] = "owner"
  /\ stage[got[u]] \in {"opened", "failed"}
  /\ LET s == got[u]
         mine == opening = s
         keep == stage[s] = "opened" /\ (s \notin closed \/ mine)
     IN
     /\ user' = [user EXCEPT ![u] = IF keep THEN "done" ELSE "error"]
     /\ slot' = IF keep THEN s ELSE slot
     /\ opening' = IF mine THEN NoSession ELSE opening
  /\ UNCHANGED <<connecting, got, closeVars, sessionVars, quoteVars, faults>>

JoinerResumes(u) ==
  /\ user[u] = "joined"
  /\ stage[got[u]] \in {"opened", "failed"}
  /\ user' = [user EXCEPT ![u] = IF stage[got[u]] = "opened" THEN "done" ELSE "error"]
  /\ UNCHANGED <<slot, opening, connecting, got, closeVars, sessionVars, quoteVars, faults>>

-----------------------------------------------------------------------------
(* close() (_close_rfq_session).                                            *)

Held(s) == IF s = NoSession THEN <<>> ELSE <<s>>
Listed(a, b) == Held(a) \o Held(b)

CloseBegins ==
  /\ closer = "idle"
  /\ closer' = "first"
  /\ doomed' = Listed(connecting, slot)
  /\ awaited' = opening
  /\ opening' = NoSession
  /\ connecting' = NoSession
  /\ slot' = NoSession
  /\ present' = {s \in Sessions : stage[s] # "unused"}
  /\ UNCHANGED <<user, got, busy, sessionVars, quoteVars, faults>>

\* _close_all(): one session after the other; close() returns at once for one
\* that is closed, though its socket may still be on its way out.
CloseNext ==
  /\ busy = NoSession
  /\ doomed # <<>>
  /\ doomed' = Tail(doomed)
  /\ IF Head(doomed) \in closed
     THEN UNCHANGED <<busy, closed, releasing, auth, quote, waiters>>
     ELSE CloseSession(Head(doomed)) /\ busy' = Head(doomed)
  /\ UNCHANGED <<clientVars, closer, awaited, present, stage, sock, sent, ackOf, faults>>

CloseOneReturns ==
  /\ busy # NoSession
  /\ Released(busy)
  /\ Clear(busy)
  /\ busy' = NoSession
  /\ UNCHANGED <<opening, connecting, user, got, closer, doomed, awaited, present,
                 sessionVars, quoteVars, faults>>

AllClosed == busy = NoSession /\ doomed = <<>>

\* Mutant: the session that is being opened is left to its opener.
CloseSkipsOpening ==
  /\ closer = "first"
  /\ AllClosed
  /\ closer' = "done"
  /\ UNCHANGED <<clientVars, doomed, busy, awaited, present, sessionVars, quoteVars, faults>>

CloseAwaitsOpening ==
  /\ closer = "first"
  /\ AllClosed
  /\ closer' = IF awaited = NoSession THEN "done" ELSE "opening"
  /\ UNCHANGED <<clientVars, doomed, busy, awaited, present, sessionVars, quoteVars, faults>>

OpeningEnds ==
  /\ closer = "opening"
  /\ stage[awaited] \in {"opened", "failed"}
  /\ closer' = "opened"
  /\ doomed' = IF stage[awaited] = "opened" THEN <<awaited>> ELSE <<>>
  /\ UNCHANGED <<clientVars, busy, awaited, present, sessionVars, quoteVars, faults>>

\* Sessions opened in the meantime are closed as well.
CloseLater ==
  /\ closer = "opened"
  /\ AllClosed
  /\ closer' = "again"
  /\ doomed' = Listed(connecting, slot)
  /\ UNCHANGED <<clientVars, busy, awaited, present, sessionVars, quoteVars, faults>>

CloseEnds ==
  /\ closer = "again"
  /\ AllClosed
  /\ closer' = "done"
  /\ connecting' = NoSession
  /\ slot' = NoSession
  /\ UNCHANGED <<opening, user, got, doomed, busy, awaited, present, sessionVars, quoteVars, faults>>

-----------------------------------------------------------------------------

Next ==
  \/ \E s \in Sessions :
       \/ Dial(s)
       \/ DialSucceeds(s)
       \/ DialFails(s)
       \/ Authenticate(s)
       \/ AuthAnswered(s)
       \/ AuthFails(s)
       \/ Opened(s)
       \/ OpenFails(s)
       \/ OpenRaises(s)
       \/ Lost(s)
       \/ ProtocolFailure(s)
       \/ Release(s)
       \/ Acknowledged(s)
  \/ \E s \in Sessions : \E i \in DOMAIN waiters[s] : QuoteTimesOut(s, i)
  \/ \E u \in Users :
       \/ OpenReuses(u)
       \/ OpenJoins(u)
       \/ OwnerResumes(u)
       \/ UserCloses(u)
       \/ UserCloseReturns(u)
       \/ JoinerResumes(u)
       \/ \E s \in Sessions : OpenCreates(u, s)
       \/ \E q \in Quotes : Quote(u, q)
  \/ CloseBegins
  \/ CloseNext
  \/ CloseOneReturns
  \/ CloseAwaitsOpening
  \/ OpeningEnds
  \/ CloseLater
  \/ CloseEnds

Spec == Init /\ [][Next]_vars

-----------------------------------------------------------------------------
(* Properties.                                                              *)

\* When close() returns, every session that was open or being opened when it
\* was called is closed, and so is its connection or it is on its way out.
CloseReachesEverySession ==
  closer = "done" =>
    \A s \in present :
      stage[s] # "failed" =>
        s \in closed /\ (Released(s) \/ s \in releasing)

\* A client has one live session at most, the one it is opening or else the one
\* it holds and hands out next, however opens, losses and failures interleave:
\* an old session never clears the slot of its successor.
OneLiveSession ==
  closer = "idle" =>
    \A s \in Sessions : Live(s) => s = IF opening # NoSession THEN opening ELSE slot

\* An acknowledgement carries no request identifier: a quote is settled by the
\* one that answers it unless a quote has timed out before, which leaves its own
\* acknowledgement to the next quote, and so on.
AckIsInOrder ==
  \A q \in Quotes : \A a \in ackOf[q] :
    a = q \/ quote[a] = "timed out" \/ ackOf[a] \notin {{}, {a}}

=============================================================================
