-------------------------- MODULE RfqClient_proofs --------------------------
(***************************************************************************)
(* Proofs about RfqClient, for every number of users, sessions and quotes:  *)
(* the client has one live session at most, every variable has its type,    *)
(* close() reaches every session, and acknowledgements settle quotes in     *)
(* order.                                                                   *)
(***************************************************************************)
EXTENDS RfqClient, Integers, SequenceTheorems, TLAPS

\* The variables the client and its sessions share; the waiters and what
\* close() has yet to do are not needed.
ClientTypeOK ==
  /\ slot \in Maybe /\ opening \in Maybe
  /\ stage \in [Sessions -> {"unused", "created", "dialing", "auth", "failing",
                             "opened", "failed"}]
  /\ user \in [Users -> {"idle", "owner", "joined", "done", "error", "closing", "closed"}]
  /\ got \in [Users -> Maybe]
  /\ \A u \in Users : user[u] \notin {"idle", "error"} => got[u] # NoSession

\* Until close() is called, the session being opened belongs to its owner, no
\* other is held meanwhile, and a user that waits for a close() has called it.
OpenerInv ==
  /\ busy = NoSession /\ doomed = <<>>
  /\ opening # NoSession => slot = NoSession
  /\ \A u \in Users : user[u] = "owner" => got[u] = opening /\ opening # NoSession
  /\ \A u, v \in Users : user[u] = "owner" /\ user[v] = "owner" => u = v
  /\ \A u \in Users : user[u] = "closing" => got[u] \in closed

IInv == ClientTypeOK /\ (closer = "idle" => OpenerInv) /\ OneLiveSession

\* The invariant holds at first.
LEMMA InitIInv == Init => IInv
BY DEF Init, IInv, ClientTypeOK, Maybe, OpenerInv, OneLiveSession, Live

\* Steps of a session that leave the client alone: it may die, nothing else.
LEMMA SessionStep ==
  ASSUME IInv, UNCHANGED <<opening, user, got, closer, busy, doomed>>,
         slot' \in {slot, NoSession},
         slot' # slot => \A s \in Sessions : s = slot => ~Live(s)',
         stage' \in [Sessions -> {"unused", "created", "dialing", "auth", "failing",
                             "opened", "failed"}],
         closed \subseteq closed',
         \A s \in Sessions : Live(s)' => Live(s)
  PROVE  IInv'
<1>1. ClientTypeOK'
  BY DEF IInv, ClientTypeOK, Maybe
<1>2. OpenerInv => OpenerInv'
  BY DEF OpenerInv
<1>3. OneLiveSession'
  BY DEF IInv, OneLiveSession, ClientTypeOK, Maybe
<1> QED BY <1>1, <1>2, <1>3 DEF IInv

\* Steps of close(): nothing is asked of what lives from then on.
LEMMA CloseStep ==
  ASSUME IInv, UNCHANGED <<user, got, stage>>, closer' # "idle",
         slot' \in {slot, NoSession}, opening' \in {opening, NoSession}
  PROVE  IInv'
BY DEF IInv, ClientTypeOK, Maybe, OneLiveSession

\* One step per action of a session.
LEMMA SessionNext ==
  ASSUME IInv, NEW s \in Sessions,
         \/ Dial(s) \/ DialSucceeds(s) \/ DialFails(s) \/ Authenticate(s) \/ AuthAnswered(s)
         \/ AuthFails(s) \/ Opened(s) \/ OpenFails(s) \/ OpenRaises(s) \/ Lost(s)
         \/ ProtocolFailure(s) \/ Release(s) \/ Acknowledged(s)
  PROVE  IInv'
<1> USE DEF clientVars, closeVars, sessionVars, quoteVars, Live
<1>1. stage \in [Sessions -> {"unused", "created", "dialing", "auth", "failing",
                         "opened", "failed"}]
  BY DEF IInv, ClientTypeOK
<1>2. CASE Dial(s) \/ DialSucceeds(s) \/ Authenticate(s) \/ AuthAnswered(s) \/ AuthFails(s)
           \/ Opened(s) \/ Release(s) \/ Acknowledged(s)
  BY <1>1, <1>2, SessionStep DEF Dial, DialSucceeds, Authenticate, AuthAnswered, AuthFails,
     Opened, Release, Acknowledged
<1>3. CASE DialFails(s)
  BY <1>1, <1>3, SessionStep DEF DialFails
<1>4. CASE OpenFails(s)
  BY <1>1, <1>4, SessionStep DEF OpenFails, CloseSession
<1>5. CASE OpenRaises(s)
  BY <1>1, <1>5, SessionStep DEF OpenRaises, Clear
<1>6. CASE Lost(s)
  BY <1>1, <1>6, SessionStep DEF Lost, Clear
<1>7. CASE ProtocolFailure(s)
  BY <1>1, <1>7, SessionStep DEF ProtocolFailure, Clear, CloseSession
<1> QED BY <1>2, <1>3, <1>4, <1>5, <1>6, <1>7

\* One step per action of a user.
LEMMA UserNext ==
  ASSUME IInv, NEW u \in Users,
         \/ OpenReuses(u) \/ OpenJoins(u) \/ OwnerResumes(u) \/ UserCloses(u)
         \/ UserCloseReturns(u) \/ JoinerResumes(u)
         \/ \E s \in Sessions : OpenCreates(u, s)
         \/ \E q \in Quotes : Quote(u, q)
  PROVE  IInv'
<1> USE DEF clientVars, closeVars, sessionVars, quoteVars, Live, IInv, ClientTypeOK, Maybe
<1>1. CASE OpenReuses(u)
  BY <1>1 DEF OpenReuses, Reusable, OpenerInv, OneLiveSession
<1>2. CASE OpenJoins(u)
  BY <1>2 DEF OpenJoins, Reusable, OpenerInv, OneLiveSession
<1>3. ASSUME NEW s \in Sessions, OpenCreates(u, s) PROVE IInv'
  <2>1. ClientTypeOK'
    <3>1. s # NoSession /\ got' = [got EXCEPT ![u] = s] /\ user' = [user EXCEPT ![u] = "owner"]
      BY <1>3 DEF OpenCreates, NoSession, Sessions
    <3>2. \A v \in Users : user'[v] \notin {"idle", "error"} => got'[v] # NoSession
      BY <3>1
    <3> QED BY <1>3, <3>1, <3>2 DEF OpenCreates
  <2>2. closer = "idle" => OpenerInv'
    BY <1>3 DEF OpenCreates, OpenerInv, NoSession, Sessions
  <2>3. OneLiveSession'
    BY <1>3 DEF OpenCreates, OneLiveSession, Reusable, NoSession, Sessions
  <2> QED BY <1>3, <2>1, <2>2, <2>3 DEF OpenCreates
<1>4. CASE OwnerResumes(u)
  <2> DEFINE s == got[u]
             keep == stage[s] = "opened" /\ (s \notin closed \/ opening = s)
  <2>1. /\ user[u] = "owner" /\ stage[s] \in {"opened", "failed"}
        /\ user' = [user EXCEPT ![u] = IF keep THEN "done" ELSE "error"]
        /\ slot' = (IF keep THEN s ELSE slot)
        /\ opening' = (IF opening = s THEN NoSession ELSE opening)
        /\ UNCHANGED <<got, stage, closed, closer, busy, doomed>>
    BY <1>4 DEF OwnerResumes
  <2>2. ClientTypeOK'
    BY <2>1
  <2>3. closer = "idle" => opening = s /\ s # NoSession /\ slot = NoSession
    BY <2>1 DEF OpenerInv
  <2>4. closer = "idle" => OpenerInv'
    <3> SUFFICES ASSUME closer = "idle" PROVE OpenerInv'
      OBVIOUS
    <3>1. \A v \in Users : user'[v] = "owner" => FALSE
      <4> SUFFICES ASSUME NEW v \in Users, user'[v] = "owner" PROVE FALSE
        OBVIOUS
      <4> QED BY <2>1, <2>3 DEF OpenerInv
    <3> QED BY <2>1, <2>3, <3>1 DEF OpenerInv
  <2>5. OneLiveSession'
    BY <2>1, <2>3 DEF OneLiveSession
  <2> QED BY <2>1, <2>2, <2>4, <2>5
<1>5. CASE UserCloses(u)
  <2>1. got[u] \in Sessions
    BY <1>5 DEF UserCloses
  <2> QED BY <1>5, <2>1 DEF UserCloses, CloseSession, OpenerInv, OneLiveSession
<1>6. CASE UserCloseReturns(u)
  BY <1>6 DEF UserCloseReturns, Clear, OpenerInv, OneLiveSession
<1>7. CASE JoinerResumes(u)
  BY <1>7 DEF JoinerResumes, OpenerInv, OneLiveSession
<1>8. ASSUME NEW q \in Quotes, Quote(u, q) PROVE IInv'
  BY <1>8 DEF Quote, OpenerInv, OneLiveSession
<1> QED BY <1>1, <1>2, <1>3, <1>4, <1>5, <1>6, <1>7, <1>8

\* Every step of the system keeps the invariant.
LEMMA NextIInv == IInv /\ [Next]_vars => IInv'
<1> SUFFICES ASSUME IInv, [Next]_vars PROVE IInv'
  OBVIOUS
<1> USE DEF clientVars, closeVars, sessionVars, quoteVars
<1>1. CASE UNCHANGED vars
  BY <1>1 DEF vars, IInv, ClientTypeOK, OpenerInv, OneLiveSession, Live
<1>2. ASSUME NEW s \in Sessions, NEW i \in DOMAIN waiters[s], QuoteTimesOut(s, i) PROVE IInv'
  BY <1>2 DEF QuoteTimesOut, IInv, ClientTypeOK, OpenerInv, OneLiveSession, Live
<1>3. CASE CloseBegins
  BY <1>3, CloseStep DEF CloseBegins, IInv, ClientTypeOK
<1>4. CASE CloseNext
  <2>1. closer # "idle"
    BY <1>4 DEF CloseNext, IInv, OpenerInv
  <2> QED BY <1>4, <2>1, CloseStep DEF CloseNext, IInv, ClientTypeOK
<1>5. CASE CloseOneReturns
  <2>1. closer # "idle"
    BY <1>5 DEF CloseOneReturns, IInv, OpenerInv
  <2> QED BY <1>5, <2>1, CloseStep DEF CloseOneReturns, Clear, IInv, ClientTypeOK
<1>6. CASE CloseAwaitsOpening \/ OpeningEnds \/ CloseLater \/ CloseEnds
  BY <1>6, CloseStep DEF CloseAwaitsOpening, OpeningEnds, CloseLater, CloseEnds, IInv,
     ClientTypeOK
<1> QED BY <1>1, <1>2, <1>3, <1>4, <1>5, <1>6, SessionNext, UserNext DEF Next

\* Until close() is called the client has one live session at most, the one it
\* is opening or else the one it hands out next.
THEOREM OneSession == Spec => []OneLiveSession
<1>1. IInv => OneLiveSession
  BY DEF IInv
<1> QED BY <1>1, InitIInv, NextIInv, PTL DEF Spec

-----------------------------------------------------------------------------
(* Queues.                                                                  *)

\* Taking one item out of a queue leaves the others, in their order.
LEMMA RemoveLemma ==
  ASSUME NEW S, NEW w \in Seq(S), NEW i \in 1..Len(w), NEW r, r = RemoveAt(w, i)
  PROVE  /\ r \in Seq(S)
         /\ \A k \in 1..Len(r) : \E j \in 1..Len(w) : j # i /\ r[k] = w[j]
         /\ \A k, l \in 1..Len(r) : k < l =>
              \E j, m \in 1..Len(w) : /\ j < m /\ j # i /\ m # i
                                      /\ r[k] = w[j] /\ r[l] = w[m]
         /\ \A j \in 1..Len(w) : j # i => \E k \in 1..Len(r) : r[k] = w[j]
<1> DEFINE n == Len(w)
           before == SubSeq(w, 1, i - 1)
           after == SubSeq(w, i + 1, n)
<1>1. n \in Nat /\ i \in 1..n /\ \A j \in 1..n : w[j] \in S
  BY ElementOfSeq, LenProperties
<1>2. /\ before \in Seq(S) /\ Len(before) = i - 1
      /\ \A k \in 1..(i - 1) : before[k] = w[k]
  <2>1. 1 \in Int /\ i - 1 \in Int /\ \A j \in 1..(i - 1) : w[j] \in S
    BY <1>1
  <2>2. /\ before \in Seq(S) /\ Len(before) = IF 1 <= i - 1 THEN (i - 1) - 1 + 1 ELSE 0
        /\ \A k \in 1..((i - 1) - 1 + 1) : before[k] = w[1 + k - 1]
    BY <2>1, SubSeqProperties
  <2> HIDE DEF before
  <2> QED BY <1>1, <2>2
<1>3. /\ after \in Seq(S) /\ Len(after) = n - i
      /\ \A k \in 1..(n - i) : after[k] = w[i + k]
  <2>1. i + 1 \in Int /\ n \in Int /\ \A j \in (i + 1)..n : w[j] \in S
    BY <1>1
  <2>2. /\ after \in Seq(S) /\ Len(after) = IF i + 1 <= n THEN n - (i + 1) + 1 ELSE 0
        /\ \A k \in 1..(n - (i + 1) + 1) : after[k] = w[(i + 1) + k - 1]
    BY <2>1, SubSeqProperties
  <2> HIDE DEF after, n
  <2> QED BY <1>1, <2>2
<1>4. r = before \o after
  BY DEF RemoveAt
<1> HIDE DEF before, after
<1>5. /\ r \in Seq(S) /\ Len(r) = Len(before) + Len(after)
      /\ \A k \in 1..(Len(before) + Len(after)) :
           r[k] = IF k <= Len(before) THEN before[k] ELSE after[k - Len(before)]
  <2>1. before \in Seq(S) /\ after \in Seq(S)
    BY <1>2, <1>3
  <2> QED BY <2>1, <1>4, ConcatProperties
<1> HIDE DEF n
<1>6. Len(r) = n - 1
  BY <1>1, <1>2, <1>3, <1>5
<1> DEFINE At(k) == IF k < i THEN k ELSE k + 1
<1>7. ASSUME NEW k \in 1..Len(r)
      PROVE  At(k) \in 1..n /\ At(k) # i /\ r[k] = w[At(k)]
  <2>1. CASE k < i
    <3>1. k \in 1..(i - 1) /\ k <= Len(before) /\ k \in 1..(Len(before) + Len(after))
      BY <1>1, <1>2, <1>5, <1>6, <2>1
    <3> QED BY <1>1, <1>2, <1>5, <2>1, <3>1
  <2>2. CASE ~(k < i)
    <3>1. /\ k - (i - 1) \in 1..(n - i) /\ ~(k <= i - 1) /\ k + 1 \in 1..n
          /\ i + (k - (i - 1)) = k + 1 /\ k \in 1..(n - 1)
      BY <1>1, <1>6, <2>2
    <3>2. after[k - (i - 1)] = w[k + 1]
      BY <1>3, <3>1
    <3>3. r[k] = after[k - (i - 1)]
      BY <1>2, <1>5, <1>6, <3>1
    <3> QED BY <1>1, <2>2, <3>1, <3>2, <3>3
  <2> QED BY <2>1, <2>2
<1>8. ASSUME NEW k \in 1..Len(r), NEW l \in 1..Len(r), k < l
      PROVE  At(k) < At(l)
  BY <1>1, <1>6, <1>8
<1>9. ASSUME NEW j \in 1..n, j # i
      PROVE  \E k \in 1..Len(r) : r[k] = w[j]
  <2>1. CASE j < i
    <3>1. j \in 1..Len(r) /\ At(j) = j
      BY <1>1, <1>6, <2>1
    <3> QED BY <1>7, <3>1
  <2>2. CASE ~(j < i)
    <3>1. j - 1 \in 1..Len(r) /\ At(j - 1) = j
      BY <1>1, <1>6, <1>9, <2>2
    <3> QED BY <1>7, <3>1
  <2> QED BY <2>1, <2>2
<1> HIDE DEF At
<1>10. \A k \in 1..Len(r) : \E j \in 1..n : j # i /\ r[k] = w[j]
  BY <1>7
<1>11. ASSUME NEW k \in 1..Len(r), NEW l \in 1..Len(r), k < l
       PROVE  \E j, m \in 1..n : /\ j < m /\ j # i /\ m # i
                                 /\ r[k] = w[j] /\ r[l] = w[m]
  <2>1. At(k) < At(l)
    BY <1>8, <1>11
  <2> QED BY <1>7, <2>1
<1> QED BY <1>5, <1>9, <1>10, <1>11 DEF n

-----------------------------------------------------------------------------
(* Types.                                                                   *)

\* Where a close() awaits the session being opened, there is one.
TypeInv == TypeOK /\ (closer = "opening" => awaited # NoSession)

\* What _reject_all_pending() leaves.
LEMMA RejectTypes ==
  ASSUME TypeOK, NEW s \in Sessions, RejectAll(s)
  PROVE  /\ auth' \in [Sessions -> {"none", "waiting", "ok", "error"}]
         /\ quote' \in [Quotes -> {"idle", "waiting", "timed out", "failed", "answered"}]
         /\ waiters' \in [Sessions -> Seq(Quotes)]
<1>1. auth' \in [Sessions -> {"none", "waiting", "ok", "error"}]
  BY DEF RejectAll, TypeOK
<1>2. quote' \in [Quotes -> {"idle", "waiting", "timed out", "failed", "answered"}]
  BY DEF RejectAll, TypeOK
<1>3. waiters' = [waiters EXCEPT ![s] = <<>>] /\ <<>> \in Seq(Quotes)
  BY DEF RejectAll
<1>4. waiters' \in [Sessions -> Seq(Quotes)]
  BY <1>3 DEF TypeOK
<1> QED BY <1>1, <1>2, <1>4

\* close() of a session.
LEMMA CloseSessionTypes ==
  ASSUME TypeOK, NEW s \in Sessions, CloseSession(s)
  PROVE  /\ closed' \subseteq Sessions /\ releasing' \subseteq Sessions
         /\ auth' \in [Sessions -> {"none", "waiting", "ok", "error"}]
         /\ quote' \in [Quotes -> {"idle", "waiting", "timed out", "failed", "answered"}]
         /\ waiters' \in [Sessions -> Seq(Quotes)]
<1>1. RejectAll(s)
  BY DEF CloseSession
<1> QED BY <1>1, RejectTypes DEF CloseSession, TypeOK

\* The first item of a queue is taken off.
LEMMA TailLemma ==
  ASSUME NEW S, NEW q \in Seq(S), q # <<>>
  PROVE  /\ Tail(q) \in Seq(S) /\ Head(q) = q[1] /\ q[1] \in S /\ 1 \in 1..Len(q)
         /\ \A k \in 1..Len(Tail(q)) : k + 1 \in 1..Len(q) /\ Tail(q)[k] = q[k + 1]
         /\ \A j \in 1..Len(q) : j # 1 => j - 1 \in 1..Len(Tail(q)) /\ Tail(q)[j - 1] = q[j]
OBVIOUS

\* The sessions close() lists.
Lists(q, a, b) ==
  /\ q \in Seq(Sessions)
  /\ \A i \in 1..Len(q) : q[i] \in {a, b} /\ q[i] # NoSession
  /\ \A s \in {a, b} : s # NoSession => \E i \in 1..Len(q) : q[i] = s

LEMMA ListedLemma ==
  ASSUME NEW a \in Maybe, NEW b \in Maybe
  PROVE  Lists(Listed(a, b), a, b)
<1> DEFINE q == Listed(a, b)
<1> USE DEF Maybe, Lists
<1>1. CASE a = NoSession /\ b = NoSession
  <2>1. q = <<>>
    BY <1>1 DEF Listed, Held
  <2> QED BY <1>1, <2>1
<1>2. CASE a # NoSession /\ b = NoSession
  <2>1. q = <<a>> \o <<>> /\ a \in Sessions
    BY <1>2 DEF Listed, Held
  <2>2. q = <<a>>
    BY <2>1
  <2> QED BY <1>2, <2>1, <2>2
<1>3. CASE a = NoSession /\ b # NoSession
  <2>1. q = <<>> \o <<b>> /\ b \in Sessions
    BY <1>3 DEF Listed, Held
  <2>2. q = <<b>>
    BY <2>1
  <2> QED BY <1>3, <2>1, <2>2
<1>4. CASE a # NoSession /\ b # NoSession
  <2>1. q = <<a>> \o <<b>> /\ a \in Sessions /\ b \in Sessions
    BY <1>4 DEF Listed, Held
  <2>2. <<a>> \in Seq(Sessions) /\ <<b>> \in Seq(Sessions) /\ Len(<<a>>) = 1 /\ Len(<<b>>) = 1
    BY <2>1
  <2>3. /\ q \in Seq(Sessions) /\ Len(q) = 1 + 1
        /\ \A i \in 1..(1 + 1) : q[i] = IF i <= 1 THEN <<a>>[i] ELSE <<b>>[i - 1]
    BY <2>1, <2>2, ConcatProperties
  <2>4. Len(q) = 2 /\ q[1] = a /\ q[2] = b
    BY <2>3
  <2> QED BY <1>4, <2>3, <2>4
<1> QED BY <1>1, <1>2, <1>3, <1>4

\* The initial state is well typed.
LEMMA InitType == Init => TypeInv
<1> SUFFICES ASSUME Init PROVE TypeInv
  OBVIOUS
<1>1. faults \in 0..MaxFaults
  BY BoundsAssumption DEF Init
<1> QED BY <1>1 DEF Init, TypeInv, TypeOK, Maybe

\* The steps of a session.
LEMMA SessionType ==
  ASSUME TypeInv, NEW s \in Sessions,
         \/ Dial(s) \/ DialSucceeds(s) \/ DialFails(s) \/ Authenticate(s) \/ AuthAnswered(s)
         \/ AuthFails(s) \/ Opened(s) \/ OpenFails(s) \/ OpenRaises(s) \/ Lost(s)
         \/ ProtocolFailure(s) \/ Release(s) \/ Acknowledged(s)
  PROVE  TypeInv'
<1> USE DEF clientVars, closeVars, sessionVars, quoteVars, TypeInv
<1>1. Fault => faults' \in 0..MaxFaults
  <2>1. faults \in 0..MaxFaults /\ MaxFaults \in Nat
    BY BoundsAssumption DEF TypeOK
  <2> QED BY <2>1 DEF Fault
<1>2. Leave(s) => connecting' \in Maybe
  BY DEF Leave, TypeOK, Maybe
<1>3. Clear(s) => slot' \in Maybe
  BY DEF Clear, TypeOK, Maybe
<1>4. Gone(s) => /\ sock' \in [Sessions -> {"none", "dialing", "open", "released"}]
                 /\ sent' \in [Sessions -> Seq(Quotes)]
  <2>1. <<>> \in Seq(Quotes)
    OBVIOUS
  <2>2. sent \in [Sessions -> Seq(Quotes)]
        /\ sock \in [Sessions -> {"none", "dialing", "open", "released"}]
    BY DEF TypeOK
  <2> QED BY <2>1, <2>2 DEF Gone
<1>5. CASE Dial(s) \/ DialSucceeds(s) \/ Authenticate(s) \/ AuthAnswered(s)
  BY <1>5 DEF Dial, DialSucceeds, Authenticate, AuthAnswered, TypeOK, Maybe
<1>6. CASE DialFails(s)
  BY <1>1, <1>2, <1>6 DEF DialFails, TypeOK
<1>7. CASE AuthFails(s) \/ Opened(s)
  BY <1>1, <1>2, <1>7 DEF AuthFails, Opened, TypeOK
<1>8. CASE OpenFails(s)
  <2>1. CASE s \in closed
    BY <1>2, <1>8, <2>1 DEF OpenFails, TypeOK
  <2>2. CASE s \notin closed
    BY <1>8, <2>2, CloseSessionTypes DEF OpenFails, TypeOK
  <2> QED BY <2>1, <2>2
<1>9. CASE OpenRaises(s)
  BY <1>2, <1>3, <1>9 DEF OpenRaises, TypeOK
<1>10. CASE Lost(s)
  <2>1. /\ auth' \in [Sessions -> {"none", "waiting", "ok", "error"}]
        /\ quote' \in [Quotes -> {"idle", "waiting", "timed out", "failed", "answered"}]
        /\ waiters' \in [Sessions -> Seq(Quotes)]
    BY <1>10, RejectTypes DEF Lost, TypeOK
  <2> QED BY <1>1, <1>3, <1>4, <1>10, <2>1 DEF Lost, TypeOK
<1>11. CASE ProtocolFailure(s)
  BY <1>1, <1>3, <1>11, CloseSessionTypes DEF ProtocolFailure, TypeOK
<1>12. CASE Release(s)
  BY <1>4, <1>12 DEF Release, TypeOK
<1>13. CASE Acknowledged(s)
  <2>1. sent' \in [Sessions -> Seq(Quotes)]
    <3>1. sent[s] \in Seq(Quotes) /\ sent[s] # <<>> /\ sent' = [sent EXCEPT ![s] = Tail(@)]
      BY <1>13 DEF Acknowledged, TypeOK
    <3>2. Tail(sent[s]) \in Seq(Quotes)
      BY <3>1, TailLemma
    <3> QED BY <3>1, <3>2 DEF TypeOK
  <2>2. CASE waiters[s] = <<>>
    BY <1>13, <2>1, <2>2 DEF Acknowledged, TypeOK
  <2>3. CASE waiters[s] # <<>>
    <3> DEFINE w == waiters[s]
    <3>1. w \in Seq(Quotes) /\ 1 \in 1..Len(w) /\ w[1] \in Quotes
      BY <2>3, TailLemma DEF TypeOK
    <3>2. RemoveAt(w, 1) \in Seq(Quotes)
      BY <3>1, RemoveLemma
    <3>3. Head(sent[s]) \in Quotes
      <4>1. sent[s] \in Seq(Quotes) /\ sent[s] # <<>>
        BY <1>13 DEF Acknowledged, TypeOK
      <4> QED BY <4>1, TailLemma
    <3>4. /\ quote' = [quote EXCEPT ![w[1]] = "answered"]
          /\ waiters' = [waiters EXCEPT ![s] = RemoveAt(w, 1)]
          /\ ackOf' = [ackOf EXCEPT ![w[1]] = {Head(sent[s])}]
      BY <1>13, <2>3 DEF Acknowledged, Oldest
    <3> HIDE DEF w
    <3>5. quote' \in [Quotes -> {"idle", "waiting", "timed out", "failed", "answered"}]
      BY <3>1, <3>4 DEF TypeOK
    <3>6. waiters' \in [Sessions -> Seq(Quotes)]
      <4>1. waiters \in [Sessions -> Seq(Quotes)]
        BY DEF TypeOK
      <4> QED BY <3>2, <3>4, <4>1
    <3>7. ackOf' \in [Quotes -> SUBSET Quotes]
      <4>1. ackOf \in [Quotes -> SUBSET Quotes]
        BY DEF TypeOK
      <4> QED BY <3>1, <3>3, <3>4, <4>1
    <3> QED BY <1>13, <2>1, <3>5, <3>6, <3>7 DEF Acknowledged, TypeOK
  <2> QED BY <2>2, <2>3
<1> QED BY <1>5, <1>6, <1>7, <1>8, <1>9, <1>10, <1>11, <1>12, <1>13

\* The steps of a user.
LEMMA UserType ==
  ASSUME TypeInv, ClientTypeOK, NEW u \in Users,
         \/ OpenReuses(u) \/ OpenJoins(u) \/ OwnerResumes(u) \/ UserCloses(u)
         \/ UserCloseReturns(u) \/ JoinerResumes(u)
         \/ \E s \in Sessions : OpenCreates(u, s)
         \/ \E q \in Quotes : Quote(u, q)
  PROVE  TypeInv'
<1> USE DEF clientVars, closeVars, sessionVars, quoteVars, TypeInv, Maybe
<1>1. user[u] \notin {"idle", "error"} => got[u] \in Sessions
  BY DEF ClientTypeOK
<1>2. CASE OpenReuses(u) \/ OpenJoins(u) \/ JoinerResumes(u)
  <2>1. CASE OpenReuses(u)
    BY <2>1 DEF OpenReuses, TypeOK
  <2>2. CASE OpenJoins(u)
    BY <2>2 DEF OpenJoins, TypeOK
  <2>3. CASE JoinerResumes(u)
    BY <2>3 DEF JoinerResumes, TypeOK
  <2> QED BY <1>2, <2>1, <2>2, <2>3
<1>3. CASE OwnerResumes(u)
  BY <1>1, <1>3 DEF OwnerResumes, TypeOK
<1>4. CASE UserCloses(u)
  BY <1>1, <1>4, CloseSessionTypes DEF UserCloses, TypeOK
<1>5. CASE UserCloseReturns(u)
  BY <1>5 DEF UserCloseReturns, Clear, TypeOK
<1>6. ASSUME NEW s \in Sessions, OpenCreates(u, s)
      PROVE  TypeInv'
  <2>1. /\ slot' \in Maybe /\ opening' \in Maybe
        /\ stage' \in [Sessions -> {"unused", "created", "dialing", "auth", "failing",
                                    "opened", "failed"}]
        /\ user' \in [Users -> {"idle", "owner", "joined", "done", "error", "closing", "closed"}]
        /\ got' \in [Users -> Maybe]
    BY <1>6 DEF OpenCreates, TypeOK
  <2> QED BY <1>6, <2>1 DEF OpenCreates, TypeOK
<1>7. ASSUME NEW q \in Quotes, Quote(u, q)
      PROVE  TypeInv'
  <2>1. got[u] \in Sessions
    BY <1>1, <1>7 DEF Quote
  <2>2. /\ quote' \in [Quotes -> {"idle", "waiting", "timed out", "failed", "answered"}]
        /\ sent' \in [Sessions -> Seq(Quotes)] /\ waiters' \in [Sessions -> Seq(Quotes)]
    <3> DEFINE s == got[u]
    <3>1. /\ s \in Sessions /\ sent[s] \in Seq(Quotes) /\ waiters[s] \in Seq(Quotes)
          /\ sent \in [Sessions -> Seq(Quotes)] /\ waiters \in [Sessions -> Seq(Quotes)]
      BY <2>1 DEF TypeOK
    <3> DEFINE longer == Append(sent[s], q)
               more == Append(waiters[s], q)
    <3>2. longer \in Seq(Quotes) /\ more \in Seq(Quotes)
      BY <3>1
    <3>3. \/ /\ quote' = [quote EXCEPT ![q] = "waiting"]
             /\ sent' = [sent EXCEPT ![s] = longer]
             /\ waiters' = [waiters EXCEPT ![s] = more]
          \/ quote' = [quote EXCEPT ![q] = "failed"] /\ sent' = sent /\ waiters' = waiters
      BY <1>7 DEF Quote
    <3> HIDE DEF s, longer, more
    <3>4. quote' \in [Quotes -> {"idle", "waiting", "timed out", "failed", "answered"}]
      BY <3>3 DEF TypeOK
    <3>5. sent' \in [Sessions -> Seq(Quotes)]
      BY <3>1, <3>2, <3>3
    <3>6. waiters' \in [Sessions -> Seq(Quotes)]
      BY <3>1, <3>2, <3>3
    <3> QED BY <3>4, <3>5, <3>6
  <2> QED BY <1>7, <2>2 DEF Quote, TypeOK
<1> QED BY <1>2, <1>3, <1>4, <1>5, <1>6, <1>7

\* The steps of close().
LEMMA CloserType ==
  ASSUME TypeInv,
         \/ CloseBegins \/ CloseNext \/ CloseOneReturns \/ CloseAwaitsOpening \/ OpeningEnds
         \/ CloseLater \/ CloseEnds
  PROVE  TypeInv'
<1> USE DEF clientVars, closeVars, sessionVars, quoteVars, TypeInv
<1>1. Listed(connecting, slot) \in Seq(Sessions) /\ NoSession \in Maybe
  BY ListedLemma DEF TypeOK, Maybe, Lists
<1>2. CASE CloseBegins
  BY <1>1, <1>2 DEF CloseBegins, TypeOK
<1>3. CASE CloseNext
  <2>1. doomed' \in Seq(Sessions) /\ Head(doomed) \in Sessions
    <3>1. doomed \in Seq(Sessions) /\ doomed # <<>> /\ doomed' = Tail(doomed)
      BY <1>3 DEF CloseNext, TypeOK
    <3> QED BY <3>1, TailLemma
  <2>2. CASE Head(doomed) \in closed
    BY <1>3, <2>1, <2>2 DEF CloseNext, TypeOK
  <2>3. CASE Head(doomed) \notin closed
    <3>1. CloseSession(Head(doomed)) /\ busy' \in Maybe
      BY <1>3, <2>1, <2>3 DEF CloseNext, Maybe
    <3> HIDE DEF TypeInv
    <3>2. /\ closed' \subseteq Sessions /\ releasing' \subseteq Sessions
          /\ auth' \in [Sessions -> {"none", "waiting", "ok", "error"}]
          /\ quote' \in [Quotes -> {"idle", "waiting", "timed out", "failed", "answered"}]
          /\ waiters' \in [Sessions -> Seq(Quotes)]
      BY <2>1, <3>1, CloseSessionTypes DEF TypeInv
    <3> QED BY <1>3, <2>1, <3>1, <3>2 DEF CloseNext, TypeOK, TypeInv
  <2> QED BY <2>2, <2>3
<1>4. CASE CloseOneReturns
  BY <1>1, <1>4 DEF CloseOneReturns, Clear, TypeOK
<1>5. CASE CloseAwaitsOpening
  BY <1>5 DEF CloseAwaitsOpening, TypeOK
<1>6. CASE OpeningEnds
  <2>1. awaited \in Sessions
    BY <1>6 DEF OpeningEnds, TypeOK, Maybe
  <2>2. <<awaited>> \in Seq(Sessions) /\ <<>> \in Seq(Sessions)
    BY <2>1
  <2> QED BY <1>6, <2>2 DEF OpeningEnds, TypeOK
<1>7. CASE CloseLater
  BY <1>1, <1>7 DEF CloseLater, TypeOK
<1>8. CASE CloseEnds
  BY <1>1, <1>8 DEF CloseEnds, TypeOK
<1> QED BY <1>2, <1>3, <1>4, <1>5, <1>6, <1>7, <1>8

\* Every step keeps the types.
LEMMA NextType == TypeInv /\ ClientTypeOK /\ [Next]_vars => TypeInv'
<1> SUFFICES ASSUME TypeInv, ClientTypeOK, [Next]_vars PROVE TypeInv'
  OBVIOUS
<1>1. CASE UNCHANGED vars
  BY <1>1 DEF vars, clientVars, closeVars, sessionVars, quoteVars, TypeInv, TypeOK
<1>2. ASSUME NEW s \in Sessions, NEW i \in DOMAIN waiters[s], QuoteTimesOut(s, i)
      PROVE  TypeInv'
  <2> DEFINE w == waiters[s]
  <2>1. w \in Seq(Quotes) /\ i \in 1..Len(w) /\ w[i] \in Quotes
    <3>1. w \in Seq(Quotes) /\ i \in DOMAIN w
      BY DEF TypeInv, TypeOK
    <3> HIDE DEF w
    <3>2. i \in 1..Len(w)
      BY <3>1
    <3> QED BY <3>1, <3>2
  <2>2. RemoveAt(w, i) \in Seq(Quotes)
    BY <2>1, RemoveLemma
  <2>3. /\ quote' = [quote EXCEPT ![w[i]] = "timed out"]
        /\ waiters' = [waiters EXCEPT ![s] = RemoveAt(w, i)]
    BY <1>2 DEF QuoteTimesOut
  <2> HIDE DEF w
  <2>4. /\ quote' \in [Quotes -> {"idle", "waiting", "timed out", "failed", "answered"}]
        /\ waiters' \in [Sessions -> Seq(Quotes)]
    BY <2>1, <2>2, <2>3 DEF TypeInv, TypeOK
  <2> QED BY <1>2, <2>4 DEF QuoteTimesOut, TypeInv, TypeOK, clientVars, closeVars, sessionVars
<1> QED BY <1>1, <1>2, SessionType, UserType, CloserType DEF Next

\* The first invariant gives the types the second needs.
LEMMA IInvTypes == IInv => ClientTypeOK
BY DEF IInv

\* Every variable has its type.
THEOREM TypeCorrect == Spec => []TypeOK
<1>1. TypeInv => TypeOK
  BY DEF TypeInv
<1> QED BY <1>1, InitIInv, NextIInv, IInvTypes, InitType, NextType, PTL DEF Spec

-----------------------------------------------------------------------------
(* close() reaches every session.                                           *)

\* A session whose task has not run: nobody else knows it.
Fresh(s) == stage[s] \in {"unused", "created"}

StartedInv ==
  /\ \A s \in Sessions : Fresh(s) => s \notin closed /\ sock[s] = "none"
  /\ \A s \in {slot, connecting, busy} : s # NoSession => ~Fresh(s)
  /\ \A i \in 1..Len(doomed) : ~Fresh(doomed[i])
  /\ \A u \in Users : user[u] \in {"done", "closing", "closed"} => ~Fresh(got[u])

\* A closed session has lost its connection or is releasing it.
ReleaseInv ==
  /\ releasing \subseteq closed
  /\ \A s \in closed : Released(s) \/ s \in releasing

\* What close() has not closed yet is listed, or being opened and awaited.
ReachInv ==
  /\ closer # "idle" =>
       \A s \in present : stage[s] # "failed" /\ s \notin closed =>
         \/ \E i \in 1..Len(doomed) : doomed[i] = s
         \/ s = awaited /\ closer \in {"first", "opening"}
  /\ closer \in {"opening", "done"} => doomed = <<>>

CloseInv == StartedInv /\ ReleaseInv /\ ReachInv

\* The invariant holds at first.
LEMMA InitCloseInv == Init => CloseInv
<1> SUFFICES ASSUME Init PROVE CloseInv
  OBVIOUS
<1>1. Len(doomed) = 0 /\ 1..0 = {}
  BY DEF Init
<1> QED BY <1>1 DEF Init, CloseInv, StartedInv, ReleaseInv, ReachInv, Fresh

\* Sessions are closed and fail for good: a step that leaves close() alone
\* keeps what it has to reach.
LEMMA ReachKept ==
  ASSUME ReachInv, UNCHANGED <<closer, doomed, awaited, present>>,
         closed \subseteq closed', present \subseteq Sessions,
         \A s \in Sessions : stage[s] = "failed" => stage'[s] = "failed"
  PROVE  ReachInv'
BY DEF ReachInv

\* What close() of a session does to the invariant's variables.
LEMMA CloseSessionRelease ==
  ASSUME TypeOK, ReleaseInv, NEW s \in Sessions, CloseSession(s), UNCHANGED sock
  PROVE  ReleaseInv'
BY DEF ReleaseInv, CloseSession, Released

\* A step that wakes no session up, and closes none that is not awake.
LEMMA StartedKept ==
  ASSUME TypeOK, ClientTypeOK, StartedInv, UNCHANGED <<doomed, busy, user, got>>,
         slot' \in {slot, NoSession}, connecting' \in {connecting, NoSession},
         \A t \in Sessions : Fresh(t)' =>
           Fresh(t) /\ (t \in closed' => t \in closed) /\ sock'[t] = sock[t]
  PROVE  StartedInv'
<1>1. /\ slot \in Maybe /\ connecting \in Maybe /\ busy \in Maybe /\ got \in [Users -> Maybe]
      /\ doomed \in Seq(Sessions)
  BY DEF TypeOK
<1>2. \A t \in Sessions : Fresh(t)' => t \notin closed' /\ sock'[t] = "none"
  BY DEF StartedInv
<1>3. \A t \in {slot', connecting', busy'} : t # NoSession => ~Fresh(t)'
  BY <1>1 DEF StartedInv, Maybe
<1>4. \A i \in 1..Len(doomed) : doomed[i] \in Sessions /\ ~Fresh(doomed[i])'
  BY <1>1 DEF StartedInv
<1>5. ASSUME NEW u \in Users, user[u] \in {"done", "closing", "closed"}
      PROVE  ~Fresh(got[u])'
  BY <1>1, <1>5 DEF StartedInv, Maybe, ClientTypeOK
<1> QED BY <1>2, <1>3, <1>4, <1>5 DEF StartedInv

\* The steps of a session.
LEMMA SessionClose ==
  ASSUME TypeOK, ClientTypeOK, CloseInv, NEW s \in Sessions,
         \/ Dial(s) \/ DialSucceeds(s) \/ DialFails(s) \/ Authenticate(s) \/ AuthAnswered(s)
         \/ AuthFails(s) \/ Opened(s) \/ OpenFails(s) \/ OpenRaises(s) \/ Lost(s)
         \/ ProtocolFailure(s) \/ Release(s) \/ Acknowledged(s)
  PROVE  CloseInv'
<1> USE DEF clientVars, closeVars, sessionVars, quoteVars, CloseInv
<1>1. /\ stage \in [Sessions -> {"unused", "created", "dialing", "auth", "failing",
                                 "opened", "failed"}]
      /\ sock \in [Sessions -> {"none", "dialing", "open", "released"}]
      /\ closed \subseteq Sessions /\ releasing \subseteq Sessions /\ present \subseteq Sessions
      /\ slot \in Maybe /\ connecting \in Maybe /\ busy \in Maybe /\ got \in [Users -> Maybe]
      /\ doomed \in Seq(Sessions)
  BY DEF TypeOK
<1>2. UNCHANGED <<closer, doomed, awaited, present, busy, user, got>>
  BY DEF Dial, DialSucceeds, DialFails, Authenticate, AuthAnswered, AuthFails, Opened,
     OpenFails, OpenRaises, Lost, ProtocolFailure, Release, Acknowledged
<1>3. /\ closed \subseteq closed'
      /\ \A t \in Sessions : stage[t] = "failed" => stage'[t] = "failed"
  BY <1>1 DEF Dial, DialSucceeds, DialFails, Authenticate, AuthAnswered, AuthFails, Opened,
     OpenFails, OpenRaises, Lost, ProtocolFailure, Release, Acknowledged, CloseSession
<1>4. ReachInv'
  BY <1>1, <1>2, <1>3, ReachKept
<1>5. CASE Dial(s)
  <2>1. ReleaseInv'
    BY <1>1, <1>5 DEF Dial, ReleaseInv, Released, StartedInv, Fresh
  <2>2. /\ \A t \in Sessions : Fresh(t)' => Fresh(t) /\ t # s
        /\ ~Fresh(s)'
    BY <1>1, <1>5 DEF Dial, Fresh
  <2>3. StartedInv'
    <3>1. /\ UNCHANGED <<slot, closed>> /\ connecting' = s
          /\ \A t \in Sessions : t # s => sock'[t] = sock[t]
      BY <1>1, <1>5 DEF Dial
    <3>2. \A t \in Sessions : Fresh(t)' => t \notin closed' /\ sock'[t] = "none"
      BY <2>2, <3>1 DEF StartedInv
    <3>3. \A t \in {slot', connecting', busy'} : t # NoSession => ~Fresh(t)'
      BY <1>1, <1>2, <2>2, <3>1 DEF StartedInv, Maybe
    <3>4. \A i \in 1..Len(doomed) : doomed[i] \in Sessions /\ ~Fresh(doomed[i])'
      BY <1>1, <1>2, <2>2 DEF StartedInv
    <3>5. \A u \in Users : user[u] \in {"done", "closing", "closed"} => ~Fresh(got[u])'
      BY <1>1, <1>2, <2>2 DEF StartedInv, Maybe, ClientTypeOK
    <3> QED BY <1>2, <3>2, <3>3, <3>4, <3>5 DEF StartedInv
  <2> QED BY <1>4, <2>1, <2>3
<1>6. ~Dial(s) => StartedInv'
  <2>1. ~Dial(s) => slot' \in {slot, NoSession} /\ connecting' \in {connecting, NoSession}
    BY DEF DialSucceeds, DialFails, Authenticate, AuthAnswered, AuthFails, Opened, OpenFails,
       OpenRaises, Lost, ProtocolFailure, Release, Acknowledged, Leave, Clear
  <2>2. \/ Dial(s)
        \/ stage' = stage /\ closed' = closed /\ sock' = sock
        \/ ~Fresh(s) /\ stage'[s] \notin {"unused", "created"}
    <3>1. s \in releasing \/ sock[s] # "none" \/ stage[s] \in {"dialing", "auth", "failing"}
            => ~Fresh(s)
      BY DEF StartedInv, ReleaseInv, Fresh
    <3>2. \/ Dial(s)
          \/ stage' = stage /\ closed' = closed /\ sock' = sock
          \/ s \in releasing \/ sock[s] # "none" \/ stage[s] \in {"dialing", "auth", "failing"}
      BY DEF DialSucceeds, DialFails, Authenticate, AuthAnswered, AuthFails, Opened, OpenFails,
         OpenRaises, Lost, ProtocolFailure, Release, Acknowledged
    <3>3. Dial(s) \/ stage' = stage \/ stage'[s] \notin {"unused", "created"}
      BY <1>1 DEF DialSucceeds, DialFails, Authenticate, AuthAnswered, AuthFails, Opened,
         OpenFails, OpenRaises, Lost, ProtocolFailure, Release, Acknowledged
    <3> QED BY <3>1, <3>2, <3>3 DEF Fresh
  <2>3. /\ closed' \subseteq closed \cup {s}
        /\ \A t \in Sessions : t # s => stage'[t] = stage[t] /\ sock'[t] = sock[t]
    BY <1>1 DEF Dial, DialSucceeds, DialFails, Authenticate, AuthAnswered, AuthFails, Opened,
       OpenFails, OpenRaises, Lost, ProtocolFailure, Release, Acknowledged, CloseSession, Gone
  <2>4. ~Dial(s) => \A t \in Sessions : Fresh(t)' =>
               Fresh(t) /\ (t \in closed' => t \in closed) /\ sock'[t] = sock[t]
    BY <2>2, <2>3 DEF Fresh
  <2> QED BY <1>2, <2>1, <2>4, StartedKept
<1>7. (Authenticate(s) \/ AuthAnswered(s) \/ AuthFails(s) \/ Opened(s) \/ OpenRaises(s)
      \/ Acknowledged(s)) => ReleaseInv'
  BY DEF Authenticate, AuthAnswered, AuthFails, Opened, OpenRaises, Acknowledged, ReleaseInv,
     Released
<1>8. DialSucceeds(s) \/ DialFails(s) => ReleaseInv'
  BY <1>1 DEF DialSucceeds, DialFails, ReleaseInv, Released
<1>9. OpenFails(s) \/ ProtocolFailure(s) => ReleaseInv'
  BY CloseSessionRelease DEF OpenFails, ProtocolFailure, ReleaseInv, Released
<1>10. Lost(s) \/ Release(s) => ReleaseInv'
  <2>1. Lost(s) \/ Release(s) =>
          /\ sock' = [sock EXCEPT ![s] = "released"] /\ UNCHANGED releasing
          /\ closed \subseteq closed' /\ closed' \subseteq closed \cup {s}
    BY DEF Lost, Release, Gone
  <2> QED BY <1>1, <2>1 DEF ReleaseInv, Released
<1> QED BY <1>4, <1>5, <1>6, <1>7, <1>8, <1>9, <1>10

\* The steps of a user.
LEMMA UserClose ==
  ASSUME TypeOK, ClientTypeOK, CloseInv, NEW u \in Users,
         \/ OpenReuses(u) \/ OpenJoins(u) \/ OwnerResumes(u) \/ UserCloses(u)
         \/ UserCloseReturns(u) \/ JoinerResumes(u)
         \/ \E s \in Sessions : OpenCreates(u, s)
         \/ \E q \in Quotes : Quote(u, q)
  PROVE  CloseInv'
<1> USE DEF clientVars, closeVars, sessionVars, quoteVars, CloseInv
<1>1. /\ stage \in [Sessions -> {"unused", "created", "dialing", "auth", "failing",
                                 "opened", "failed"}]
      /\ closed \subseteq Sessions /\ present \subseteq Sessions
      /\ slot \in Maybe /\ got \in [Users -> Maybe]
      /\ user \in [Users -> {"idle", "owner", "joined", "done", "error", "closing", "closed"}]
      /\ doomed \in Seq(Sessions)
  BY DEF TypeOK
<1>2. /\ UNCHANGED <<closer, doomed, awaited, present, busy, connecting>>
      /\ closed \subseteq closed'
      /\ \A t \in Sessions : stage[t] = "failed" => stage'[t] = "failed"
  BY <1>1 DEF OpenReuses, OpenJoins, OwnerResumes, UserCloses, UserCloseReturns, JoinerResumes,
     OpenCreates, Quote, CloseSession
<1>3. ReachInv'
  BY <1>1, <1>2, ReachKept
<1>4. CASE OpenReuses(u) \/ OpenJoins(u) \/ JoinerResumes(u)
  BY <1>1, <1>2, <1>3, <1>4 DEF OpenReuses, OpenJoins, JoinerResumes, Reusable, StartedInv,
     ReleaseInv, Released, Fresh
<1>5. CASE OwnerResumes(u)
  BY <1>1, <1>2, <1>3, <1>5 DEF OwnerResumes, StartedInv, ReleaseInv, Released, Fresh
<1>6. CASE UserCloses(u)
  <2>1. got[u] \in Sessions /\ ~Fresh(got[u])
    BY <1>6 DEF UserCloses, ClientTypeOK, Maybe, StartedInv
  <2>2. ReleaseInv'
    BY <1>6, <2>1, CloseSessionRelease DEF UserCloses
  <2>3. StartedInv'
    BY <1>1, <1>2, <1>6, <2>1 DEF UserCloses, CloseSession, StartedInv, Fresh
  <2> QED BY <1>3, <2>2, <2>3
<1>7. CASE UserCloseReturns(u)
  BY <1>1, <1>2, <1>3, <1>7 DEF UserCloseReturns, Clear, StartedInv, ReleaseInv, Released, Fresh
<1>8. ASSUME NEW s \in Sessions, OpenCreates(u, s)
      PROVE  CloseInv'
  <2>1. \A t : Fresh(t)' => t = s \/ Fresh(t)
    BY <1>1, <1>8 DEF OpenCreates, Fresh
  <2>2. Fresh(s) /\ s # NoSession
    BY <1>8 DEF OpenCreates, Fresh, Sessions, NoSession
  <2>3. StartedInv'
    <3>1. \A t \in Sessions : Fresh(t)' => Fresh(t)
      BY <2>1, <2>2
    <3>2. /\ UNCHANGED <<closed, sock, connecting, busy, doomed>> /\ slot' = NoSession
          /\ got' = [got EXCEPT ![u] = s] /\ user' = [user EXCEPT ![u] = "owner"]
      BY <1>8 DEF OpenCreates
    <3>3. \A t : t # s /\ ~Fresh(t) => ~Fresh(t)'
      BY <2>1
    <3> QED BY <1>1, <2>2, <3>1, <3>2, <3>3 DEF StartedInv
  <2>4. ReleaseInv'
    BY <1>8 DEF OpenCreates, ReleaseInv, Released
  <2> QED BY <1>3, <2>3, <2>4
<1>9. ASSUME NEW q \in Quotes, Quote(u, q)
      PROVE  CloseInv'
  BY <1>1, <1>2, <1>3, <1>9 DEF Quote, StartedInv, ReleaseInv, Released, Fresh
<1> QED BY <1>4, <1>5, <1>6, <1>7, <1>8, <1>9

\* The steps of close().
LEMMA CloserClose ==
  ASSUME TypeInv, IInv, CloseInv,
         \/ CloseBegins \/ CloseNext \/ CloseOneReturns \/ CloseAwaitsOpening \/ OpeningEnds
         \/ CloseLater \/ CloseEnds
  PROVE  CloseInv'
<1> USE DEF clientVars, closeVars, sessionVars, quoteVars, CloseInv
<1>1. /\ stage \in [Sessions -> {"unused", "created", "dialing", "auth", "failing",
                                 "opened", "failed"}]
      /\ closed \subseteq Sessions /\ present \subseteq Sessions
      /\ slot \in Maybe /\ connecting \in Maybe /\ awaited \in Maybe /\ opening \in Maybe
      /\ doomed \in Seq(Sessions)
  BY DEF TypeInv, TypeOK
<1>2. UNCHANGED <<stage, sock, user, got>>
  BY DEF CloseBegins, CloseNext, CloseOneReturns, CloseAwaitsOpening, OpeningEnds, CloseLater,
     CloseEnds
<1>3. \A t : Fresh(t)' <=> Fresh(t)
  BY <1>2 DEF Fresh
<1> DEFINE list == Listed(connecting, slot)
<1>4. /\ list \in Seq(Sessions)
      /\ \A i \in 1..Len(list) : list[i] \in {connecting, slot} /\ list[i] # NoSession
      /\ \A s \in {connecting, slot} : s # NoSession => \E i \in 1..Len(list) : list[i] = s
  <2>1. Lists(list, connecting, slot)
    BY <1>1, ListedLemma
  <2> HIDE DEF list
  <2> QED BY <2>1 DEF Lists
<1>5. \A i \in 1..Len(list) : ~Fresh(list[i])
  BY <1>4 DEF StartedInv
<1> HIDE DEF list
<1>6. ASSUME UNCHANGED <<closed, releasing>>
      PROVE  ReleaseInv'
  BY <1>2, <1>6 DEF ReleaseInv, Released
<1>7. CASE CloseBegins
  <2>1. /\ closer = "idle" /\ closer' = "first" /\ doomed' = list /\ awaited' = opening
        /\ slot' = NoSession /\ connecting' = NoSession
        /\ present' = {s \in Sessions : stage[s] # "unused"}
        /\ UNCHANGED <<closed, releasing, busy>>
    BY <1>7 DEF CloseBegins, list
  <2>2. StartedInv'
    BY <1>2, <1>3, <1>5, <2>1 DEF StartedInv
  <2>3. ASSUME NEW s \in present', stage[s] # "failed", s \notin closed
        PROVE  (\E i \in 1..Len(list) : list[i] = s) \/ s = opening
    <3>1. Live(s) /\ s \in Sessions /\ s # NoSession
      BY <2>1, <2>3 DEF Live, Sessions, NoSession
    <3>2. s = opening \/ s = slot
      BY <2>1, <3>1 DEF IInv, OneLiveSession
    <3> QED BY <1>4, <3>1, <3>2
  <2>4. ReachInv'
    BY <1>2, <2>1, <2>3 DEF ReachInv
  <2> QED BY <1>6, <2>1, <2>2, <2>4
<1>8. CASE CloseNext
  <2>1. /\ doomed # <<>> /\ doomed' = Tail(doomed) /\ UNCHANGED <<closer, awaited, present, slot, connecting>>
        /\ \/ Head(doomed) \in closed /\ UNCHANGED <<busy, closed, releasing>>
           \/ CloseSession(Head(doomed)) /\ busy' = Head(doomed)
    BY <1>8 DEF CloseNext
  <2>2. /\ Head(doomed) = doomed[1] /\ doomed[1] \in Sessions /\ 1 \in 1..Len(doomed)
        /\ \A k \in 1..Len(doomed') : k + 1 \in 1..Len(doomed) /\ doomed'[k] = doomed[k + 1]
        /\ \A j \in 1..Len(doomed) : j # 1 =>
             j - 1 \in 1..Len(doomed') /\ doomed'[j - 1] = doomed[j]
    BY <1>1, <2>1, TailLemma
  <2>3. closed \subseteq closed' /\ closed' \subseteq closed \cup {doomed[1]} /\ doomed[1] \in closed'
        /\ busy' \in {busy, doomed[1]}
    BY <2>1, <2>2 DEF CloseSession
  <2>4. ~Fresh(doomed[1])
    BY <2>2 DEF StartedInv
  <2>5. StartedInv'
    BY <1>2, <1>3, <2>1, <2>2, <2>3, <2>4 DEF StartedInv
  <2>6. ReleaseInv'
    <3>1. CASE Head(doomed) \in closed /\ UNCHANGED <<busy, closed, releasing>>
      BY <1>6, <3>1
    <3>2. CASE CloseSession(Head(doomed))
      BY <1>2, <2>2, <3>2, CloseSessionRelease DEF TypeInv
    <3> QED BY <2>1, <3>1, <3>2
  <2>7. ReachInv'
    <3>1. ASSUME closer' # "idle", NEW s \in present', stage'[s] # "failed", s \notin closed'
          PROVE  \/ \E i \in 1..Len(doomed') : doomed'[i] = s
                 \/ s = awaited' /\ closer' \in {"first", "opening"}
      <4>1. \/ \E i \in 1..Len(doomed) : doomed[i] = s
            \/ s = awaited /\ closer \in {"first", "opening"}
        BY <1>2, <2>1, <2>3, <3>1 DEF ReachInv
      <4>2. s # doomed[1]
        BY <2>3, <3>1
      <4> QED BY <2>1, <2>2, <4>1, <4>2
    <3>2. closer \notin {"opening", "done"}
      BY <2>1 DEF ReachInv
    <3> QED BY <2>1, <3>1, <3>2 DEF ReachInv
  <2> QED BY <2>5, <2>6, <2>7
<1>9. CASE CloseOneReturns
  <2>1. /\ slot' \in {slot, NoSession} /\ busy' = NoSession
        /\ UNCHANGED <<connecting, closer, doomed, awaited, present, closed, releasing>>
    BY <1>9 DEF CloseOneReturns, Clear
  <2>2. StartedInv' /\ ReachInv'
    BY <1>2, <1>3, <2>1 DEF StartedInv, ReachInv
  <2> QED BY <1>6, <2>1, <2>2
<1>10. CASE CloseAwaitsOpening
  <2>1. /\ closer = "first" /\ doomed = <<>>
        /\ closer' = (IF awaited = NoSession THEN "done" ELSE "opening")
        /\ UNCHANGED <<slot, connecting, doomed, busy, awaited, present, closed, releasing>>
    BY <1>10 DEF CloseAwaitsOpening, AllClosed
  <2>2. StartedInv'
    BY <1>2, <1>3, <2>1 DEF StartedInv
  <2>3. Len(doomed) = 0 /\ 1..0 = {} /\ \A s \in present : s # NoSession
    BY <1>1, <2>1 DEF Sessions, NoSession
  <2>4. ReachInv'
    BY <1>2, <2>1, <2>3 DEF ReachInv
  <2> QED BY <1>6, <2>1, <2>2, <2>4
<1>11. CASE OpeningEnds
  <2>1. /\ closer = "opening" /\ closer' = "opened" /\ stage[awaited] \in {"opened", "failed"}
        /\ doomed' = (IF stage[awaited] = "opened" THEN <<awaited>> ELSE <<>>)
        /\ UNCHANGED <<slot, connecting, busy, awaited, present, closed, releasing>>
    BY <1>11 DEF OpeningEnds
  <2>2. doomed = <<>> /\ Len(doomed) = 0 /\ 1..0 = {}
    BY <2>1 DEF ReachInv
  <2>3. \A s \in present : stage[s] # "failed" /\ s \notin closed => s = awaited
    BY <2>1, <2>2 DEF ReachInv
  <2>4. CASE stage[awaited] = "opened"
    <3>1. doomed' = <<awaited>> /\ Len(doomed') = 1 /\ doomed'[1] = awaited /\ 1 \in 1..1
      BY <2>1, <2>4
    <3>2. StartedInv'
      BY <1>2, <1>3, <2>1, <2>4, <3>1 DEF StartedInv, Fresh
    <3>3. ReachInv'
      BY <1>2, <2>1, <2>3, <3>1 DEF ReachInv
    <3> QED BY <1>6, <2>1, <3>2, <3>3
  <2>5. CASE stage[awaited] = "failed"
    <3>1. doomed' = <<>> /\ Len(doomed') = 0
      BY <2>1, <2>5
    <3>2. StartedInv'
      BY <1>2, <1>3, <2>1, <2>2, <3>1 DEF StartedInv
    <3>3. ReachInv'
      BY <1>2, <2>1, <2>3, <2>5, <3>1 DEF ReachInv
    <3> QED BY <1>6, <2>1, <3>2, <3>3
  <2> QED BY <2>1, <2>4, <2>5
<1>12. CASE CloseLater
  <2>1. /\ closer = "opened" /\ closer' = "again" /\ doomed = <<>> /\ doomed' = list
        /\ UNCHANGED <<slot, connecting, busy, awaited, present, closed, releasing>>
    BY <1>12 DEF CloseLater, AllClosed, list
  <2>2. Len(doomed) = 0 /\ 1..0 = {}
    BY <2>1
  <2>3. StartedInv'
    BY <1>2, <1>3, <1>5, <2>1 DEF StartedInv
  <2>4. ReachInv'
    BY <1>2, <2>1, <2>2 DEF ReachInv
  <2> QED BY <1>6, <2>1, <2>3, <2>4
<1>13. CASE CloseEnds
  <2>1. /\ closer = "again" /\ closer' = "done" /\ doomed = <<>>
        /\ slot' = NoSession /\ connecting' = NoSession
        /\ UNCHANGED <<doomed, busy, awaited, present, closed, releasing>>
    BY <1>13 DEF CloseEnds, AllClosed
  <2>2. StartedInv' /\ ReachInv'
    BY <1>2, <1>3, <2>1 DEF StartedInv, ReachInv
  <2> QED BY <1>6, <2>1, <2>2
<1> QED BY <1>7, <1>8, <1>9, <1>10, <1>11, <1>12, <1>13

\* Every step keeps what close() relies on.
LEMMA NextCloseInv == TypeInv /\ IInv /\ CloseInv /\ [Next]_vars => CloseInv'
<1> SUFFICES ASSUME TypeInv, IInv, CloseInv, [Next]_vars PROVE CloseInv'
  OBVIOUS
<1> USE DEF clientVars, closeVars, sessionVars, quoteVars
<1>1. TypeOK /\ ClientTypeOK
  BY DEF TypeInv, IInv
<1>2. CASE UNCHANGED vars
  BY <1>2 DEF vars, CloseInv, StartedInv, ReleaseInv, Released, ReachInv, Fresh
<1>3. ASSUME NEW s \in Sessions, NEW i \in DOMAIN waiters[s], QuoteTimesOut(s, i)
      PROVE  CloseInv'
  BY <1>3 DEF QuoteTimesOut, CloseInv, StartedInv, ReleaseInv, Released, ReachInv, Fresh
<1> QED BY <1>1, <1>2, <1>3, SessionClose, UserClose, CloserClose DEF Next

\* When close() returns, every session that was open or being opened when it
\* was called is closed, and its connection is gone or on its way out: one that
\* was being opened is awaited and closed when it opens.
THEOREM CloseIsComplete == Spec => []CloseReachesEverySession
<1>1. TypeInv /\ CloseInv => CloseReachesEverySession
  <2> SUFFICES ASSUME CloseInv, closer = "done", NEW s \in present, stage[s] # "failed"
               PROVE  s \in closed /\ (Released(s) \/ s \in releasing)
    BY DEF CloseReachesEverySession
  <2>1. doomed = <<>> /\ 1..Len(doomed) = {}
    BY DEF CloseInv, ReachInv
  <2>2. s \in closed
    BY <2>1 DEF CloseInv, ReachInv
  <2> QED BY <2>2 DEF CloseInv, ReleaseInv
<1> QED BY <1>1, InitIInv, NextIInv, InitType, NextType, InitCloseInv, NextCloseInv, IInvTypes,
        PTL DEF Spec

-----------------------------------------------------------------------------
(* Acknowledgements settle quotes in order.                                 *)

\* The quotes of w wait in the order in which they stand in v.
InOrder(w, v) ==
  \A i, j \in 1..Len(w) : \A m, n \in 1..Len(v) :
    i < j /\ v[m] = w[i] /\ v[n] = w[j] => m < n

\* The waiters of a session are those quotes of its unacknowledged ones that
\* still wait, in the same order; none is left when it is closed or lost.
QueueInv(s) ==
  /\ s \in closed \/ sock[s] # "open" => waiters[s] = <<>>
  /\ \A i \in 1..Len(waiters[s]) :
       quote[waiters[s][i]] = "waiting" /\ Contains(sent[s], waiters[s][i])
  /\ InOrder(waiters[s], sent[s])
  /\ \A m, n \in 1..Len(sent[s]) : sent[s][m] = sent[s][n] => m = n
  /\ \A m \in 1..Len(sent[s]) :
       /\ quote[sent[s][m]] # "idle"
       /\ quote[sent[s][m]] = "failed" => s \in closed
       /\ quote[sent[s][m]] = "waiting" => Contains(waiters[s], sent[s][m])

\* A quote is sent on one session.
OneSentInv ==
  \A s, t \in Sessions : \A q \in Quotes :
    Contains(sent[s], q) /\ Contains(sent[t], q) => s = t

\* A quote is answered when an acknowledgement has settled it, and the
\* acknowledgement of an unacknowledged quote has settled none.
AckInv ==
  /\ \A q \in Quotes : quote[q] = "answered" <=> ackOf[q] # {}
  /\ \A q \in Quotes : \A a \in ackOf[q] :
       quote[a] # "idle" /\ \A s \in Sessions : ~Contains(sent[s], a)

QuoteInv == /\ \A s \in Sessions : QueueInv(s)
            /\ OneSentInv /\ AckInv /\ AckIsInOrder

QuoteTypes ==
  /\ sock \in [Sessions -> {"none", "dialing", "open", "released"}]
  /\ quote \in [Quotes -> {"idle", "waiting", "timed out", "failed", "answered"}]
  /\ sent \in [Sessions -> Seq(Quotes)] /\ waiters \in [Sessions -> Seq(Quotes)]
  /\ ackOf \in [Quotes -> SUBSET Quotes]

\* The elements of the two queues are quotes.
LEMMA QueueItems ==
  ASSUME QuoteTypes, NEW s \in Sessions
  PROVE  /\ waiters[s] \in Seq(Quotes) /\ sent[s] \in Seq(Quotes)
         /\ \A i \in 1..Len(waiters[s]) : waiters[s][i] \in Quotes
         /\ \A m \in 1..Len(sent[s]) : sent[s][m] \in Quotes
         /\ \A q : Contains(sent[s], q) => q \in Quotes
<1>1. waiters[s] \in Seq(Quotes) /\ sent[s] \in Seq(Quotes)
  BY DEF QuoteTypes
<1>2. \A v \in Seq(Quotes) : \A i \in 1..Len(v) : v[i] \in Quotes
  OBVIOUS
<1> QED BY <1>1, <1>2 DEF Contains

\* A session whose queues and quotes do not change.
LEMMA QueueKept ==
  ASSUME NEW t \in Sessions, QueueInv(t), waiters'[t] = waiters[t], sent'[t] = sent[t],
         t \in closed' <=> t \in closed, sock'[t] # "open" => sock[t] # "open",
         \A q : Contains(sent[t], q) => quote'[q] = quote[q]
  PROVE  QueueInv(t)'
<1>1. \A m \in 1..Len(sent[t]) : quote'[sent[t][m]] = quote[sent[t][m]]
  BY DEF Contains
<1>2. \A i \in 1..Len(waiters[t]) : quote'[waiters[t][i]] = quote[waiters[t][i]]
  BY DEF QueueInv
<1>3. InOrder(waiters[t], sent[t])' /\ \A q : Contains(sent[t], q)' <=> Contains(sent[t], q)
  BY DEF QueueInv, InOrder, Contains
<1>4. \A q : Contains(waiters[t], q)' <=> Contains(waiters[t], q)
  BY DEF Contains
<1> QED BY <1>1, <1>2, <1>3, <1>4 DEF QueueInv

\* A step of a session s leaves the queues of the others alone.
LEMMA OthersKept ==
  ASSUME QuoteTypes, QuoteInv, NEW s \in Sessions,
         \A t \in Sessions \ {s} :
           /\ waiters'[t] = waiters[t] /\ sent'[t] = sent[t] /\ sock'[t] = sock[t]
           /\ t \in closed' <=> t \in closed,
         \A q \in Quotes : quote'[q] = quote[q] \/ quote[q] = "idle" \/ Contains(sent[s], q)
  PROVE  \A t \in Sessions \ {s} : QueueInv(t)'
<1> SUFFICES ASSUME NEW t \in Sessions, t # s PROVE QueueInv(t)'
  OBVIOUS
<1>1. ASSUME NEW q, Contains(sent[t], q)
      PROVE  quote'[q] = quote[q]
  <2>1. q \in Quotes
    BY <1>1, QueueItems
  <2>2. quote[q] # "idle"
    BY <1>1 DEF QuoteInv, QueueInv, Contains
  <2>3. ~Contains(sent[s], q)
    BY <1>1, <2>1 DEF QuoteInv, OneSentInv
  <2> QED BY <2>1, <2>2, <2>3
<1> QED BY <1>1, QueueKept DEF QuoteInv

\* A step that is no acknowledgement: what is settled stays as it is.
LEMMA AckKept ==
  ASSUME QuoteTypes, QuoteTypes', AckInv, AckIsInOrder, ackOf' = ackOf,
         \A q \in Quotes : \/ quote'[q] = quote[q]
                           \/ quote[q] \in {"idle", "waiting"} /\ quote'[q] \notin {"idle", "answered"},
         \A t \in Sessions : \A q : Contains(sent[t], q)' => Contains(sent[t], q) \/ quote[q] = "idle"
  PROVE  AckInv' /\ AckIsInOrder'
<1>1. \A q \in Quotes : quote'[q] = "answered" <=> quote[q] = "answered"
  OBVIOUS
<1>2. \A q \in Quotes : /\ quote[q] # "idle" => quote'[q] # "idle"
                        /\ quote[q] = "timed out" => quote'[q] = "timed out"
  OBVIOUS
<1>3. \A q \in Quotes : \A a \in ackOf[q] : a \in Quotes
  BY DEF QuoteTypes
<1>4. AckInv'
  <2>1. \A q \in Quotes : (quote[q] = "answered")' <=> ackOf'[q] # {}
    BY <1>1 DEF AckInv
  <2>2. ASSUME NEW q \in Quotes, NEW a \in ackOf[q]
        PROVE  quote'[a] # "idle" /\ \A t \in Sessions : ~Contains(sent[t], a)'
    <3>1. a \in Quotes /\ quote[a] # "idle" /\ \A t \in Sessions : ~Contains(sent[t], a)
      BY <1>3 DEF AckInv
    <3> QED BY <1>2, <3>1
  <2> QED BY <2>1, <2>2 DEF AckInv
<1>5. AckIsInOrder'
  BY <1>2, <1>3 DEF AckIsInOrder
<1> QED BY <1>4, <1>5

\* A step that leaves the quotes alone.
LEMMA QuotesUntouched ==
  ASSUME QuoteTypes, QuoteTypes', QuoteInv, UNCHANGED quoteVars, closed' = closed,
         \A t \in Sessions : sock'[t] # "open" => sock[t] # "open"
  PROVE  QuoteInv'
<1> USE DEF quoteVars
<1>1. \A t \in Sessions : QueueInv(t)'
  BY QueueKept DEF QuoteInv
<1>2. \A t \in Sessions : \A q : Contains(sent[t], q)' <=> Contains(sent[t], q)
  BY DEF Contains
<1>3. AckInv' /\ AckIsInOrder'
  BY <1>2, AckKept DEF QuoteInv
<1>4. OneSentInv'
  BY <1>2 DEF QuoteInv, OneSentInv
<1> QED BY <1>1, <1>3, <1>4 DEF QuoteInv

\* A session is closed, or its socket: its waiters fail.
Rejected(s) ==
  /\ closed' = closed \cup {s}
  /\ \A q \in Quotes : quote'[q] = IF Contains(waiters[s], q) THEN "failed" ELSE quote[q]
  /\ waiters' = [waiters EXCEPT ![s] = <<>>]
  /\ sent'[s] \in {sent[s], <<>>}
  /\ \A t \in Sessions \ {s} : sent'[t] = sent[t] /\ sock'[t] = sock[t]
  /\ ackOf' = ackOf

LEMMA QuotesRejected ==
  ASSUME QuoteTypes, QuoteTypes', QuoteInv, NEW s \in Sessions, Rejected(s)
  PROVE  QuoteInv'
<1>1. \A q \in Quotes : Contains(waiters[s], q) => quote[q] = "waiting" /\ Contains(sent[s], q)
  BY DEF QuoteInv, QueueInv, Contains
<1>2. waiters'[s] = <<>> /\ \A t \in Sessions \ {s} : waiters'[t] = waiters[t]
  BY DEF Rejected, QuoteTypes
<1>3. \A t \in Sessions \ {s} : QueueInv(t)'
  BY <1>1, <1>2, OthersKept DEF Rejected
<1>4. \A t \in Sessions : \A q : Contains(sent[t], q)' => Contains(sent[t], q)
  <2>1. \A q : ~Contains(<<>>, q)
    BY DEF Contains
  <2> QED BY <2>1 DEF Rejected, Contains
<1>5. QueueInv(s)'
  <2>1. Len(waiters'[s]) = 0 /\ 1..0 = {}
    BY <1>2
  <2>2. InOrder(waiters[s], sent[s])'
    BY <2>1 DEF InOrder
  <2>3. \A m, n \in 1..Len(sent'[s]) : sent'[s][m] = sent'[s][n] => m = n
    <3>1. CASE sent'[s] = <<>>
      BY <3>1
    <3>2. CASE sent'[s] = sent[s]
      BY <3>2 DEF QuoteInv, QueueInv
    <3> QED BY <3>1, <3>2 DEF Rejected
  <2>4. ASSUME NEW m \in 1..Len(sent'[s])
        PROVE  quote'[sent'[s][m]] \notin {"idle", "waiting"}
    <3>1. Contains(sent[s], sent'[s][m]) /\ sent'[s][m] \in Quotes
      BY <1>4, <2>4, QueueItems DEF Contains
    <3>2. /\ quote[sent'[s][m]] # "idle"
          /\ quote[sent'[s][m]] = "waiting" => Contains(waiters[s], sent'[s][m])
      BY <3>1 DEF QuoteInv, QueueInv, Contains
    <3> QED BY <3>1, <3>2 DEF Rejected
  <2>5. s \in closed'
    BY DEF Rejected
  <2> QED BY <1>2, <2>1, <2>2, <2>3, <2>4, <2>5 DEF QueueInv
<1>6. AckInv' /\ AckIsInOrder'
  BY <1>1, <1>4, AckKept DEF QuoteInv, Rejected
<1>7. OneSentInv'
  BY <1>4 DEF QuoteInv, OneSentInv
<1> QED BY <1>3, <1>5, <1>6, <1>7 DEF QuoteInv

\* r is the queue v with q added.
Appended(r, v, q) ==
  /\ Len(r) \in 1..Len(r) /\ r[Len(r)] = q
  /\ \A k \in 1..Len(v) : k \in 1..Len(r) /\ k < Len(r) /\ r[k] = v[k]
  /\ \A k \in 1..Len(r) : k \notin 1..Len(v) => k = Len(r) /\ r[k] = q
  /\ \A x : Contains(r, x) <=> Contains(v, x) \/ x = q

LEMMA AppendLemma ==
  ASSUME NEW S, NEW v \in Seq(S), NEW q \in S
  PROVE  Appended(Append(v, q), v, q)
<1> DEFINE r == Append(v, q)
<1>1. Len(v) \in Nat /\ Len(r) = Len(v) + 1
  OBVIOUS
<1>2. /\ \A k \in 1..Len(v) : r[k] = v[k]
      /\ r[Len(v) + 1] = q
  OBVIOUS
<1> HIDE DEF r
<1>3. \A k \in 1..Len(v) : k \in 1..Len(r) /\ k < Len(r)
  BY <1>1
<1>4. \A k \in 1..Len(r) : k \notin 1..Len(v) => k = Len(r)
  BY <1>1
<1>5. Len(r) \in 1..Len(r) /\ r[Len(r)] = q
  BY <1>1, <1>2
<1>6. Appended(r, v, q)
  BY <1>2, <1>3, <1>4, <1>5 DEF Contains, Appended
<1> QED BY <1>6 DEF r

\* A quote is registered and sent.
LEMMA QuoteSent ==
  ASSUME QuoteTypes, QuoteTypes', QuoteInv, NEW s \in Sessions, NEW q \in Quotes,
         quote[q] = "idle", s \notin closed, sock[s] = "open",
         quote' = [quote EXCEPT ![q] = "waiting"],
         sent' = [sent EXCEPT ![s] = Append(sent[s], q)],
         waiters' = [waiters EXCEPT ![s] = Append(waiters[s], q)],
         closed' = closed, sock' = sock, ackOf' = ackOf
  PROVE  QuoteInv'
<1> DEFINE v == sent[s]
           w == waiters[s]
           longer == sent'[s]
           more == waiters'[s]
<1>1. /\ v \in Seq(Quotes) /\ w \in Seq(Quotes)
      /\ longer = Append(v, q) /\ more = Append(w, q)
      /\ \A t \in Sessions \ {s} : sent'[t] = sent[t] /\ waiters'[t] = waiters[t]
  BY DEF QuoteTypes
<1>2. /\ quote'[q] = "waiting" /\ \A p \in Quotes \ {q} : quote'[p] = quote[p]
  BY DEF QuoteTypes
<1>3. \A t \in Sessions : ~Contains(sent[t], q)
  BY DEF QuoteInv, QueueInv, Contains
<1>4. \A k \in 1..Len(w) : Contains(v, w[k]) /\ w[k] \in Quotes
  BY QueueItems DEF QuoteInv, QueueInv
<1>5. \A k \in 1..Len(v) : v[k] \in Quotes /\ v[k] # q
  BY <1>3, QueueItems DEF Contains
<1>6. QueueInv(s)
  BY DEF QuoteInv
<1> HIDE DEF v, w, longer, more
<1>7. /\ Len(longer) \in 1..Len(longer) /\ longer[Len(longer)] = q
      /\ \A k \in 1..Len(v) : k \in 1..Len(longer) /\ k < Len(longer) /\ longer[k] = v[k]
      /\ \A k \in 1..Len(longer) : k \notin 1..Len(v) => k = Len(longer) /\ longer[k] = q
      /\ \A x : Contains(longer, x) <=> Contains(v, x) \/ x = q
  <2>1. Appended(longer, v, q)
    BY <1>1, AppendLemma
  <2> QED BY <2>1 DEF Appended
<1>8. /\ Len(more) \in 1..Len(more) /\ more[Len(more)] = q
      /\ \A k \in 1..Len(w) : k \in 1..Len(more) /\ k < Len(more) /\ more[k] = w[k]
      /\ \A k \in 1..Len(more) : k \notin 1..Len(w) => k = Len(more) /\ more[k] = q
      /\ \A x : Contains(more, x) <=> Contains(w, x) \/ x = q
  <2>1. Appended(more, w, q)
    BY <1>1, AppendLemma
  <2> QED BY <2>1 DEF Appended
<1>9. \A t \in Sessions \ {s} : QueueInv(t)'
  BY <1>1, <1>2, OthersKept
<1>10. QueueInv(s)'
  <2>1. ASSUME NEW k \in 1..Len(more)
        PROVE  quote'[more[k]] = "waiting" /\ Contains(longer, more[k])
    <3>1. CASE k \in 1..Len(w)
      <4>1. more[k] = w[k] /\ Contains(v, w[k]) /\ w[k] \in Quotes /\ quote[w[k]] = "waiting"
        BY <1>4, <1>6, <1>8, <3>1 DEF QueueInv, w
      <4> QED BY <1>2, <1>7, <4>1
    <3>2. CASE k \notin 1..Len(w)
      BY <1>2, <1>7, <1>8, <2>1, <3>2
    <3> QED BY <3>1, <3>2
  <2>2. InOrder(more, longer)
    <3> SUFFICES ASSUME NEW i \in 1..Len(more), NEW j \in 1..Len(more),
                        NEW m \in 1..Len(longer), NEW n \in 1..Len(longer),
                        i < j, longer[m] = more[i], longer[n] = more[j]
                 PROVE  m < n
      BY DEF InOrder
    <3>1. i \in 1..Len(w)
      <4>1. Len(more) \in Nat /\ j <= Len(more)
        BY <1>1
      <4> QED BY <1>8, <4>1
    <3>2. more[i] = w[i] /\ w[i] # q
      <4>1. Contains(v, w[i])
        BY <1>4, <3>1
      <4>2. w[i] # q
        BY <1>5, <4>1 DEF Contains
      <4> QED BY <1>8, <3>1, <4>2
    <3>3. m \in 1..Len(v) /\ v[m] = w[i]
      BY <1>7, <3>2
    <3>4. CASE j \in 1..Len(w)
      <4>1. more[j] = w[j] /\ w[j] # q
        <5>1. Contains(v, w[j])
          BY <1>4, <3>4
        <5>2. w[j] # q
          BY <1>5, <5>1 DEF Contains
        <5> QED BY <1>8, <3>4, <5>2
      <4>2. n \in 1..Len(v) /\ v[n] = w[j]
        BY <1>7, <4>1
      <4> QED BY <1>6, <3>1, <3>3, <3>4, <4>2 DEF QueueInv, InOrder, v, w
    <3>5. CASE j \notin 1..Len(w)
      <4>1. more[j] = q
        BY <1>8, <3>5
      <4>2. n = Len(longer)
        BY <1>5, <1>7, <4>1
      <4> QED BY <1>7, <3>3, <4>2
    <3> QED BY <3>4, <3>5
  <2>3. ASSUME NEW m \in 1..Len(longer), NEW n \in 1..Len(longer), longer[m] = longer[n]
        PROVE  m = n
    <3>1. \A k, l \in 1..Len(v) : v[k] = v[l] => k = l
      BY <1>6 DEF QueueInv, v
    <3> QED BY <1>5, <1>7, <2>3, <3>1
  <2>4. ASSUME NEW m \in 1..Len(longer)
        PROVE  /\ quote'[longer[m]] \notin {"idle", "failed"}
               /\ quote'[longer[m]] = "waiting" => Contains(more, longer[m])
    <3>1. CASE m \in 1..Len(v)
      <4>1. /\ longer[m] = v[m] /\ quote'[v[m]] = quote[v[m]]
        BY <1>2, <1>5, <1>7, <3>1
      <4>2. /\ quote[v[m]] \notin {"idle", "failed"}
            /\ quote[v[m]] = "waiting" => Contains(w, v[m])
        BY <1>6, <3>1 DEF QueueInv, v, w
      <4> QED BY <1>8, <4>1, <4>2
    <3>2. CASE m \notin 1..Len(v)
      BY <1>2, <1>7, <1>8, <2>4, <3>2
    <3> QED BY <3>1, <3>2
  <2> QED BY <2>1, <2>2, <2>3, <2>4 DEF QueueInv, longer, more
<1>11. \A t \in Sessions : \A p : Contains(sent[t], p)' =>
          Contains(sent[t], p) \/ (t = s /\ p = q)
  <2>1. \A p : Contains(longer, p) => Contains(v, p) \/ p = q
    BY <1>7
  <2>2. longer = sent'[s] /\ v = sent[s]
    BY DEF longer, v
  <2> QED BY <1>1, <2>1, <2>2 DEF Contains
<1>12. AckInv' /\ AckIsInOrder'
  BY <1>2, <1>11, AckKept DEF QuoteInv
<1>13. OneSentInv'
  BY <1>3, <1>11 DEF QuoteInv, OneSentInv
<1> QED BY <1>9, <1>10, <1>12, <1>13 DEF QuoteInv

\* A quote whose frame cannot be sent.
LEMMA QuoteUnsent ==
  ASSUME QuoteTypes, QuoteTypes', QuoteInv, NEW q \in Quotes, quote[q] = "idle",
         quote' = [quote EXCEPT ![q] = "failed"],
         closed' = closed, sock' = sock, sent' = sent, waiters' = waiters, ackOf' = ackOf
  PROVE  QuoteInv'
<1>1. quote'[q] = "failed" /\ \A p \in Quotes \ {q} : quote'[p] = quote[p]
  BY DEF QuoteTypes
<1>2. \A t \in Sessions : \A p : Contains(sent[t], p) => p # q /\ p \in Quotes
  BY QueueItems DEF QuoteInv, QueueInv, Contains
<1>3. \A t \in Sessions : QueueInv(t)'
  BY <1>1, <1>2, QueueKept DEF QuoteInv
<1>4. \A t \in Sessions : \A p : Contains(sent[t], p)' <=> Contains(sent[t], p)
  BY DEF Contains
<1>5. AckInv' /\ AckIsInOrder'
  BY <1>1, <1>4, AckKept DEF QuoteInv
<1>6. OneSentInv'
  BY <1>4 DEF QuoteInv, OneSentInv
<1> QED BY <1>3, <1>5, <1>6 DEF QuoteInv

\* An empty queue has no places.
LEMMA EmptyQueue ==
  ASSUME NEW w, w = <<>>
  PROVE  1..Len(w) = {}
<1>1. Len(w) = 0
  OBVIOUS
<1> QED BY <1>1

\* r is w without its i-th quote.
Removed(r, w, i) ==
  /\ \A k \in 1..Len(r) : \E j \in 1..Len(w) : j # i /\ r[k] = w[j]
  /\ \A k, l \in 1..Len(r) : k < l =>
       \E j, m \in 1..Len(w) : j < m /\ j # i /\ m # i /\ r[k] = w[j] /\ r[l] = w[m]
  /\ \A j \in 1..Len(w) : j # i => Contains(r, w[j])

\* The queue without one of its waiters, which stands in it once.
LEMMA WaiterRemoved ==
  ASSUME QuoteTypes, NEW s \in Sessions, QueueInv(s), NEW i \in 1..Len(waiters[s])
  PROVE  LET r == RemoveAt(waiters[s], i)
             q == waiters[s][i]
         IN  /\ \A k \in 1..Len(r) : r[k] # q /\ Contains(waiters[s], r[k])
             /\ InOrder(r, sent[s])
             /\ \A x : Contains(waiters[s], x) /\ x # q => Contains(r, x)
<1> DEFINE w == waiters[s]
           v == sent[s]
           q == w[i]
           r == RemoveAt(w, i)
<1>1. w \in Seq(Quotes) /\ i \in 1..Len(w)
  BY DEF QuoteTypes
<1>2. (\A j \in 1..Len(w) : Contains(v, w[j])) /\ InOrder(w, v)
  BY DEF QueueInv
<1> HIDE DEF w, v
<1>3. Removed(r, w, i)
  BY <1>1, RemoveLemma DEF Removed, Contains
<1> HIDE DEF r
<1>4. \A j \in 1..Len(w) : j # i => w[j] # q
  <2> SUFFICES ASSUME NEW j \in 1..Len(w), j # i, w[j] = q PROVE FALSE
    OBVIOUS
  <2>1. PICK m \in 1..Len(v) : v[m] = q
    BY <1>1, <1>2 DEF Contains
  <2>2. i \in Int /\ j \in Int /\ m \in Int
    BY <1>1
  <2>3. ~(i < j) /\ ~(j < i)
    <3>1. i < j => m < m
      BY <1>1, <1>2, <2>1 DEF InOrder
    <3>2. j < i => m < m
      BY <1>1, <1>2, <2>1 DEF InOrder
    <3> QED BY <2>2, <3>1, <3>2
  <2> QED BY <2>2, <2>3
<1>5. ASSUME NEW k \in 1..Len(r)
      PROVE  r[k] # q /\ Contains(w, r[k])
  <2>1. PICK j \in 1..Len(w) : j # i /\ r[k] = w[j]
    BY <1>3 DEF Removed
  <2> QED BY <1>4, <2>1 DEF Contains
<1>6. InOrder(r, v)
  BY <1>2, <1>3 DEF Removed, InOrder
<1>7. \A x : Contains(w, x) /\ x # q => Contains(r, x)
  BY <1>3 DEF Removed, Contains
<1> QED BY <1>5, <1>6, <1>7 DEF r, w, v

\* A quote is given up: its own acknowledgement is still to come.
LEMMA QuoteTimedOut ==
  ASSUME QuoteTypes, QuoteTypes', QuoteInv, NEW s \in Sessions, NEW i \in 1..Len(waiters[s]),
         quote' = [quote EXCEPT ![waiters[s][i]] = "timed out"],
         waiters' = [waiters EXCEPT ![s] = RemoveAt(waiters[s], i)],
         closed' = closed, sock' = sock, sent' = sent, ackOf' = ackOf
  PROVE  QuoteInv'
<1> DEFINE w == waiters[s]
           v == sent[s]
           q == w[i]
           r == RemoveAt(w, i)
<1>1. /\ waiters'[s] = r /\ \A t \in Sessions \ {s} : waiters'[t] = waiters[t]
      /\ i \in 1..Len(w) /\ quote' = [quote EXCEPT ![q] = "timed out"] /\ QueueInv(s)
  BY DEF QuoteTypes, QuoteInv
<1>2. q \in Quotes /\ quote[q] = "waiting" /\ Contains(v, q)
  BY <1>1, QueueItems DEF QueueInv
<1>3. /\ \A k \in 1..Len(r) : r[k] # q /\ Contains(w, r[k])
      /\ InOrder(r, v)
      /\ \A x : Contains(w, x) /\ x # q => Contains(r, x)
  BY <1>1, WaiterRemoved
<1>4. \A m \in 1..Len(v) : v[m] \in Quotes
  BY QueueItems
<1>5. \A x : Contains(w, x) => x \in Quotes /\ quote[x] = "waiting" /\ Contains(v, x)
  <2>1. \A k \in 1..Len(w) : w[k] \in Quotes /\ quote[w[k]] = "waiting" /\ Contains(v, w[k])
    BY <1>1, QueueItems DEF QueueInv
  <2> HIDE DEF w, v
  <2> SUFFICES ASSUME NEW x, Contains(w, x)
               PROVE  x \in Quotes /\ quote[x] = "waiting" /\ Contains(v, x)
    OBVIOUS
  <2>2. PICK k \in 1..Len(w) : w[k] = x
    BY DEF Contains
  <2> QED BY <2>1, <2>2
<1>6. quote'[q] = "timed out" /\ \A p \in Quotes \ {q} : quote'[p] = quote[p]
  <2>1. DOMAIN quote = Quotes /\ q \in Quotes /\ quote' = [quote EXCEPT ![q] = "timed out"]
    BY <1>1, <1>2 DEF QuoteTypes
  <2> HIDE DEF q
  <2> QED BY <2>1
<1>7. \A t \in Sessions \ {s} : QueueInv(t)'
  BY <1>1, <1>2, <1>6, OthersKept
<1>8. QueueInv(s)'
  <2>1. w # <<>>
    <3> SUFFICES ASSUME w = <<>> PROVE FALSE
      OBVIOUS
    <3> HIDE DEF w
    <3> QED BY <1>1, EmptyQueue
  <2>2. s \notin closed /\ sock[s] = "open"
    BY <1>1, <2>1 DEF QueueInv
  <2>3. \A k \in 1..Len(r) : quote'[r[k]] = "waiting" /\ Contains(v, r[k])
    BY <1>3, <1>5, <1>6
  <2>4. \A m, n \in 1..Len(v) : v[m] = v[n] => m = n
    BY <1>1 DEF QueueInv
  <2>5. ASSUME NEW m \in 1..Len(v)
        PROVE  /\ quote'[v[m]] \notin {"idle", "failed"}
               /\ quote'[v[m]] = "waiting" => Contains(r, v[m])
    <3>1. /\ quote[v[m]] # "idle"
          /\ quote[v[m]] = "failed" => s \in closed
          /\ quote[v[m]] = "waiting" => Contains(w, v[m])
      BY <1>1 DEF QueueInv
    <3> QED BY <1>3, <1>4, <1>6, <2>2, <3>1
  <2>6. s \notin closed' /\ sock'[s] = "open" /\ sent'[s] = v /\ waiters'[s] = r
    BY <1>1, <2>2
  <2> HIDE DEF v, r, w, q
  <2>7. \A k \in 1..Len(waiters'[s]) :
          quote'[waiters'[s][k]] = "waiting" /\ Contains(sent'[s], waiters'[s][k])
    BY <2>3, <2>6
  <2>8. \A m \in 1..Len(sent'[s]) :
          /\ quote'[sent'[s][m]] \notin {"idle", "failed"}
          /\ quote'[sent'[s][m]] = "waiting" => Contains(waiters'[s], sent'[s][m])
    BY <2>5, <2>6
  <2>9. InOrder(waiters'[s], sent'[s])
    BY <1>3, <2>6
  <2>10. ASSUME NEW m \in 1..Len(sent'[s]), NEW n \in 1..Len(sent'[s]), sent'[s][m] = sent'[s][n]
         PROVE  m = n
    BY <2>4, <2>6, <2>10
  <2> QED BY <2>6, <2>7, <2>8, <2>9, <2>10 DEF QueueInv
<1>9. \A t \in Sessions : \A p : Contains(sent[t], p)' <=> Contains(sent[t], p)
  BY DEF Contains
<1>10. AckInv' /\ AckIsInOrder'
  BY <1>2, <1>6, <1>9, AckKept DEF QuoteInv
<1>11. OneSentInv'
  BY <1>9 DEF QuoteInv, OneSentInv
<1> QED BY <1>7, <1>8, <1>10, <1>11 DEF QuoteInv

\* The oldest unacknowledged quote leaves the queue.
LEMMA SentTail ==
  ASSUME QuoteTypes, NEW s \in Sessions, QueueInv(s), sent[s] # <<>>
  PROVE  LET v == sent[s]
             a == Head(v)
         IN  /\ a = v[1] /\ a \in Quotes /\ Contains(v, a)
             /\ \A x : Contains(Tail(v), x) <=> Contains(v, x) /\ x # a
             /\ \A m, n \in 1..Len(Tail(v)) : Tail(v)[m] = Tail(v)[n] => m = n
             /\ \A w : InOrder(w, v) => InOrder(w, Tail(v))
<1> DEFINE v == sent[s]
           a == Head(v)
           r == Tail(v)
<1>1. v \in Seq(Quotes) /\ v # <<>> /\ \A m, n \in 1..Len(v) : v[m] = v[n] => m = n
  BY DEF QuoteTypes, QueueInv
<1> HIDE DEF v
<1>2. /\ a = v[1] /\ v[1] \in Quotes /\ 1 \in 1..Len(v)
      /\ \A k \in 1..Len(r) : k + 1 \in 1..Len(v) /\ r[k] = v[k + 1]
      /\ \A j \in 1..Len(v) : j # 1 => j - 1 \in 1..Len(r) /\ r[j - 1] = v[j]
  BY <1>1, TailLemma
<1> HIDE DEF r, a
<1>3. \A k \in 1..Len(r) : k \in Int /\ k + 1 # 1
  OBVIOUS
<1>4. \A x : Contains(r, x) => Contains(v, x) /\ x # a
  <2>1. \A k \in 1..Len(r) : k + 1 \in 1..Len(v) /\ r[k] = v[k + 1] /\ v[k + 1] # v[1]
    BY <1>1, <1>2, <1>3
  <2>2. \A x : Contains(r, x) => \E k \in 1..Len(r) : r[k] = x
    BY DEF Contains
  <2>3. \A k \in 1..Len(v) : Contains(v, v[k])
    BY DEF Contains
  <2> QED BY <1>2, <2>1, <2>2, <2>3
<1>5. \A x : Contains(v, x) /\ x # a => Contains(r, x)
  BY <1>2 DEF Contains
<1>6. ASSUME NEW m \in 1..Len(r), NEW n \in 1..Len(r), r[m] = r[n]
      PROVE  m = n
  <2>1. m + 1 = n + 1
    BY <1>1, <1>2, <1>6
  <2> QED BY <1>3, <2>1
<1>7. ASSUME NEW w, InOrder(w, v)
      PROVE  InOrder(w, r)
  <2> SUFFICES ASSUME NEW i \in 1..Len(w), NEW j \in 1..Len(w),
                      NEW m \in 1..Len(r), NEW n \in 1..Len(r),
                      i < j, r[m] = w[i], r[n] = w[j]
               PROVE  m < n
    BY DEF InOrder
  <2>1. m + 1 < n + 1
    BY <1>2, <1>7 DEF InOrder
  <2> QED BY <1>3, <2>1
<1> QED BY <1>2, <1>4, <1>5, <1>6, <1>7 DEF r, a, v, Contains

\* An acknowledgement nobody waits for: its quote has been given up.
LEMMA AckIgnored ==
  ASSUME QuoteTypes, QuoteTypes', QuoteInv, NEW s \in Sessions,
         sent[s] # <<>>, sent' = [sent EXCEPT ![s] = Tail(sent[s])], waiters[s] = <<>>,
         closed' = closed, sock' = sock, quote' = quote, waiters' = waiters, ackOf' = ackOf
  PROVE  QuoteInv'
<1> DEFINE v == sent[s]
           r == Tail(v)
<1>1. /\ QueueInv(s) /\ sent'[s] = r /\ \A t \in Sessions \ {s} : sent'[t] = sent[t]
  BY DEF QuoteTypes, QuoteInv
<1>2. /\ \A x : Contains(r, x) => Contains(v, x)
      /\ \A m, n \in 1..Len(r) : r[m] = r[n] => m = n
  BY <1>1, SentTail
<1>3. ASSUME NEW m \in 1..Len(r)
      PROVE  \E n \in 1..Len(v) : v[n] = r[m]
  BY <1>2, <1>3 DEF Contains
<1>4. QueueInv(s)'
  <2>1. \A w : Len(waiters[s]) = 0 /\ InOrder(waiters[s], w)
    BY DEF InOrder
  <2>2. \A m \in 1..Len(r) : /\ quote[r[m]] # "idle"
                             /\ quote[r[m]] = "failed" => s \in closed
                             /\ quote[r[m]] = "waiting" => Contains(waiters[s], r[m])
    BY <1>1, <1>3 DEF QueueInv
  <2>3. s \in closed \/ sock[s] # "open" => waiters[s] = <<>>
    BY <1>1 DEF QueueInv
  <2> HIDE DEF r
  <2> QED BY <1>1, <1>2, <2>1, <2>2, <2>3 DEF QueueInv
<1>5. \A t \in Sessions \ {s} : QueueInv(t)'
  BY <1>1, OthersKept
<1>6. \A t \in Sessions : \A p : Contains(sent[t], p)' => Contains(sent[t], p)
  <2> HIDE DEF r
  <2> QED BY <1>1, <1>2 DEF Contains
<1>7. AckInv' /\ AckIsInOrder'
  BY <1>6, AckKept DEF QuoteInv
<1>8. OneSentInv'
  BY <1>6 DEF QuoteInv, OneSentInv
<1> QED BY <1>4, <1>5, <1>7, <1>8 DEF QuoteInv

\* An acknowledgement settles the oldest waiter: its own quote, or a later one
\* when the quote it answers has been given up or settled by an earlier one.
LEMMA AckSettles ==
  ASSUME QuoteTypes, QuoteTypes', QuoteInv, NEW s \in Sessions,
         sent[s] # <<>>, sent' = [sent EXCEPT ![s] = Tail(sent[s])], waiters[s] # <<>>,
         quote' = [quote EXCEPT ![waiters[s][1]] = "answered"],
         waiters' = [waiters EXCEPT ![s] = RemoveAt(waiters[s], 1)],
         ackOf' = [ackOf EXCEPT ![waiters[s][1]] = {Head(sent[s])}],
         closed' = closed, sock' = sock
  PROVE  QuoteInv'
<1> DEFINE v == sent[s]
           w == waiters[s]
           a == Head(v)
           q == w[1]
           r == RemoveAt(w, 1)
           u == Tail(v)
<1>1. /\ QueueInv(s) /\ sent'[s] = u /\ waiters'[s] = r
      /\ \A t \in Sessions \ {s} : sent'[t] = sent[t] /\ waiters'[t] = waiters[t]
  <2>1. QueueInv(s) /\ DOMAIN sent = Sessions /\ DOMAIN waiters = Sessions
    BY DEF QuoteTypes, QuoteInv
  <2>2. sent' = [sent EXCEPT ![s] = u] /\ waiters' = [waiters EXCEPT ![s] = r]
    OBVIOUS
  <2> HIDE DEF u, r
  <2> QED BY <2>1, <2>2
<1>2. 1 \in 1..Len(w) /\ q \in Quotes
  <2>1. w \in Seq(Quotes) /\ w # <<>>
    BY DEF QuoteTypes
  <2> HIDE DEF w
  <2> QED BY <2>1, TailLemma
<1>3. /\ quote' = [quote EXCEPT ![q] = "answered"] /\ ackOf' = [ackOf EXCEPT ![q] = {a}]
      /\ quote[q] = "waiting" /\ Contains(v, q) /\ s \notin closed
  BY <1>1, <1>2 DEF QueueInv
<1>4. /\ \A k \in 1..Len(r) : r[k] # q /\ Contains(w, r[k])
      /\ InOrder(r, v)
      /\ \A x : Contains(w, x) /\ x # q => Contains(r, x)
  BY <1>1, <1>2, WaiterRemoved
<1>5. /\ a = v[1] /\ a \in Quotes /\ Contains(v, a)
      /\ \A x : Contains(u, x) <=> Contains(v, x) /\ x # a
      /\ \A m, n \in 1..Len(u) : u[m] = u[n] => m = n
      /\ InOrder(r, v) => InOrder(r, u)
  BY <1>1, SentTail
<1>6. \A x : Contains(v, x) => /\ x \in Quotes /\ quote[x] \notin {"idle", "failed"}
                               /\ quote[x] = "waiting" => Contains(w, x)
  <2>1. \A x : Contains(v, x) => x \in Quotes
    BY QueueItems
  <2>2. \A m \in 1..Len(v) : /\ quote[v[m]] # "idle"
                             /\ quote[v[m]] = "failed" => s \in closed
                             /\ quote[v[m]] = "waiting" => Contains(w, v[m])
    BY <1>1 DEF QueueInv
  <2> SUFFICES ASSUME NEW x, Contains(v, x)
               PROVE  /\ x \in Quotes /\ quote[x] \notin {"idle", "failed"}
                      /\ quote[x] = "waiting" => Contains(w, x)
    OBVIOUS
  <2> HIDE DEF v, w
  <2>3. PICK m \in 1..Len(v) : v[m] = x
    BY DEF Contains
  <2> QED BY <1>3, <2>1, <2>2, <2>3
<1>7. \A x : Contains(w, x) => quote[x] = "waiting" /\ Contains(v, x)
  <2>1. \A k \in 1..Len(w) : quote[w[k]] = "waiting" /\ Contains(v, w[k])
    BY <1>1 DEF QueueInv
  <2> SUFFICES ASSUME NEW x, Contains(w, x)
               PROVE  quote[x] = "waiting" /\ Contains(v, x)
    OBVIOUS
  <2> HIDE DEF v, w
  <2>2. PICK k \in 1..Len(w) : w[k] = x
    BY DEF Contains
  <2> QED BY <2>1, <2>2
<1>8. InOrder(w, v)
  BY <1>1 DEF QueueInv
<1>9. quote'[q] = "answered" /\ \A p \in Quotes \ {q} : quote'[p] = quote[p]
  BY <1>2, <1>3 DEF QuoteTypes
<1>10. ackOf'[q] = {a} /\ \A p \in Quotes \ {q} : ackOf'[p] = ackOf[p]
  BY <1>2, <1>3 DEF QuoteTypes
<1>11. AckInv /\ AckIsInOrder /\ OneSentInv
  BY DEF QuoteInv
<1>12. closed' = closed /\ sock' = sock /\ sock[s] = "open"
  BY <1>1 DEF QueueInv
<1>13. \A p \in Quotes : \A b \in ackOf[p] : b \in Quotes
  BY DEF QuoteTypes
<1>14. \A t \in Sessions \ {s} : QueueInv(t)'
  BY <1>1, <1>3, <1>9, OthersKept
<1> HIDE DEF v, w, a, q, r, u
<1>15. a # q => ~Contains(w, a)
  <2> SUFFICES ASSUME a # q, Contains(w, a) PROVE FALSE
    OBVIOUS
  <2>1. PICK j \in 1..Len(w) : w[j] = a
    BY DEF Contains
  <2>2. j # 1 /\ j \in Int /\ 1 < j
    BY <2>1 DEF q
  <2>3. PICK n \in 1..Len(v) : v[n] = q
    BY <1>3 DEF Contains
  <2>4. 1 \in 1..Len(v)
    BY <2>3
  <2>5. n < 1
    BY <1>2, <1>5, <1>8, <2>1, <2>2, <2>3, <2>4 DEF InOrder, q
  <2> QED BY <2>3, <2>5
<1>16. QueueInv(s)'
  <2>1. ASSUME NEW k \in 1..Len(r)
        PROVE  quote'[r[k]] = "waiting" /\ Contains(u, r[k])
    <3>1. Contains(w, r[k]) /\ r[k] # q
      BY <1>4
    <3>2. quote[r[k]] = "waiting" /\ Contains(v, r[k]) /\ r[k] \in Quotes
      BY <1>6, <1>7, <3>1
    <3>3. r[k] # a
      BY <1>15, <3>1
    <3> QED BY <1>5, <1>9, <3>1, <3>2, <3>3
  <2>2. ASSUME NEW m \in 1..Len(u)
        PROVE  /\ quote'[u[m]] \notin {"idle", "failed"}
               /\ quote'[u[m]] = "waiting" => Contains(r, u[m])
    <3>1. Contains(u, u[m])
      BY DEF Contains
    <3>2. Contains(v, u[m])
      BY <1>5, <3>1
    <3> QED BY <1>4, <1>6, <1>9, <3>2
  <2>3. /\ sent'[s] = u /\ waiters'[s] = r /\ s \notin closed' /\ sock'[s] = "open"
        /\ InOrder(r, u)
    BY <1>1, <1>3, <1>4, <1>5, <1>12
  <2>4. \A i \in 1..Len(waiters'[s]) :
          quote'[waiters'[s][i]] = "waiting" /\ Contains(sent'[s], waiters'[s][i])
    BY <2>1, <2>3
  <2>5. \A m \in 1..Len(sent'[s]) :
          /\ quote'[sent'[s][m]] \notin {"idle", "failed"}
          /\ quote'[sent'[s][m]] = "waiting" => Contains(waiters'[s], sent'[s][m])
    BY <2>2, <2>3
  <2>6. InOrder(waiters'[s], sent'[s])
    BY <2>3
  <2>7. ASSUME NEW m \in 1..Len(sent'[s]), NEW n \in 1..Len(sent'[s]), sent'[s][m] = sent'[s][n]
        PROVE  m = n
    <3>1. m \in 1..Len(u) /\ n \in 1..Len(u) /\ u[m] = u[n]
      BY <1>1, <2>7
    <3> QED BY <1>5, <3>1
  <2> QED BY <2>3, <2>4, <2>5, <2>6, <2>7 DEF QueueInv
<1>17. \A t \in Sessions : \A p : Contains(sent[t], p)' => Contains(sent[t], p)
  <2>1. v = sent[s]
    BY DEF v
  <2> QED BY <1>1, <1>5, <2>1 DEF Contains
<1>18. OneSentInv'
  BY <1>11, <1>17 DEF OneSentInv
<1>19. AckInv'
  <2>1. \A p \in Quotes : quote'[p] = "answered" <=> ackOf'[p] # {}
    BY <1>9, <1>10, <1>11 DEF AckInv
  <2>2. ASSUME NEW p \in Quotes, NEW b \in ackOf'[p]
        PROVE  quote'[b] # "idle" /\ \A t \in Sessions : ~Contains(sent[t], b)'
    <3>1. CASE p = q
      <4>1. b = a /\ a \in Quotes /\ quote'[a] # "idle"
        <5>1. b = a
          BY <1>10, <2>2, <3>1
        <5>2. a \in Quotes /\ quote[a] # "idle"
          BY <1>5, <1>6
        <5> QED BY <1>9, <5>1, <5>2
      <4>2. \A t \in Sessions \ {s} : ~Contains(sent[t], a)
        BY <1>5, <1>11, <4>1 DEF OneSentInv, v
      <4>3. ~Contains(u, a)
        BY <1>5
      <4>4. ~Contains(sent'[s], b)
        BY <1>1, <4>1, <4>3
      <4>5. \A t \in Sessions : ~Contains(sent'[t], b)
        BY <1>17, <4>1, <4>2, <4>4
      <4> QED BY <4>1, <4>5
    <3>2. CASE p # q
      <4>1. b \in ackOf[p] /\ b \in Quotes
        BY <1>10, <1>13, <2>2, <3>2
      <4>2. quote[b] # "idle" /\ \A t \in Sessions : ~Contains(sent[t], b)
        BY <1>11, <4>1 DEF AckInv
      <4> QED BY <1>9, <1>17, <4>1, <4>2
    <3> QED BY <3>1, <3>2
  <2> QED BY <2>1, <2>2 DEF AckInv
<1>20. AckIsInOrder'
  <2> SUFFICES ASSUME NEW p \in Quotes, NEW b \in ackOf'[p], b # p, quote'[b] # "timed out"
               PROVE  ackOf'[b] \notin {{}, {b}}
    BY DEF AckIsInOrder
  <2>1. CASE p = q
    <3>1. b = a /\ a \in Quotes /\ a # q
      BY <1>5, <1>10, <2>1
    <3>2. quote[a] = "answered"
      <4>1. quote[a] \notin {"idle", "failed", "waiting", "timed out"}
        BY <1>5, <1>6, <1>9, <1>15, <3>1
      <4> QED BY <3>1, <4>1 DEF QuoteTypes
    <3>3. ackOf[a] # {} /\ a \notin ackOf[a]
      BY <1>5, <1>11, <3>1, <3>2 DEF AckInv, v
    <3> QED BY <1>10, <3>1, <3>3
  <2>2. CASE p # q
    <3>1. b \in ackOf[p] /\ b \in Quotes
      BY <1>10, <1>13, <2>2
    <3>2. ackOf[q] = {}
      BY <1>2, <1>3, <1>11 DEF AckInv
    <3>3. b # q
      BY <1>3, <1>11, <2>2, <3>1, <3>2 DEF AckIsInOrder
    <3> QED BY <1>9, <1>10, <1>11, <3>1, <3>3 DEF AckIsInOrder
  <2> QED BY <2>1, <2>2
<1> QED BY <1>14, <1>16, <1>18, <1>19, <1>20 DEF QuoteInv

\* The types the queues need.
LEMMA QuoteTypesHold == TypeOK => QuoteTypes
BY DEF TypeOK, QuoteTypes

\* The invariant holds at first.
LEMMA InitQuoteInv == Init => QuoteInv
<1> SUFFICES ASSUME Init PROVE QuoteInv
  OBVIOUS
<1>1. \A s \in Sessions : /\ sent[s] = <<>> /\ waiters[s] = <<>>
                          /\ 1..Len(sent[s]) = {} /\ 1..Len(waiters[s]) = {}
  BY EmptyQueue DEF Init
<1>2. \A s \in Sessions : QueueInv(s)
  BY <1>1 DEF QueueInv, InOrder
<1>3. OneSentInv
  BY <1>1 DEF OneSentInv, Contains
<1>4. AckInv /\ AckIsInOrder
  BY DEF Init, AckInv, AckIsInOrder
<1> QED BY <1>2, <1>3, <1>4 DEF QuoteInv

\* A session that is closed has no waiter left to reject.
LEMMA NothingToReject ==
  ASSUME QuoteTypes, QuoteInv, NEW s \in Sessions, s \in closed,
         quote' = quote, waiters' = waiters
  PROVE  /\ \A q \in Quotes : quote'[q] = IF Contains(waiters[s], q) THEN "failed" ELSE quote[q]
         /\ waiters' = [waiters EXCEPT ![s] = <<>>]
<1>1. waiters[s] = <<>> /\ 1..Len(waiters[s]) = {}
  BY EmptyQueue DEF QuoteInv, QueueInv
<1> QED BY <1>1 DEF QuoteTypes, Contains

\* _reject_all_pending().
LEMMA RejectsAll ==
  ASSUME QuoteTypes, NEW s \in Sessions, RejectAll(s)
  PROVE  /\ \A q \in Quotes : quote'[q] = IF Contains(waiters[s], q) THEN "failed" ELSE quote[q]
         /\ waiters' = [waiters EXCEPT ![s] = <<>>]
<1>1. waiters[s] \in Seq(Quotes)
  BY DEF QuoteTypes
<1>2. DOMAIN waiters[s] = 1..Len(waiters[s])
  BY <1>1
<1> QED BY <1>2 DEF RejectAll, Contains

\* close() of a session.
LEMMA QuotesClosed ==
  ASSUME QuoteTypes, QuoteTypes', QuoteInv, NEW s \in Sessions, CloseSession(s),
         sock' = sock, sent' = sent, ackOf' = ackOf
  PROVE  QuoteInv'
<1>1. Rejected(s)
  BY RejectsAll DEF CloseSession, Rejected
<1> QED BY <1>1, QuotesRejected

\* The steps of a session.
LEMMA SessionQuotes ==
  ASSUME QuoteTypes, QuoteTypes', StartedInv, ReleaseInv, QuoteInv, NEW s \in Sessions,
         \/ Dial(s) \/ DialSucceeds(s) \/ DialFails(s) \/ Authenticate(s) \/ AuthAnswered(s)
         \/ AuthFails(s) \/ Opened(s) \/ OpenFails(s) \/ OpenRaises(s) \/ Lost(s)
         \/ ProtocolFailure(s) \/ Release(s) \/ Acknowledged(s)
  PROVE  QuoteInv'
<1> USE DEF sessionVars
<1>1. CASE \/ Dial(s) \/ DialSucceeds(s) \/ DialFails(s) \/ Authenticate(s) \/ AuthAnswered(s)
           \/ AuthFails(s) \/ Opened(s) \/ OpenRaises(s)
  <2>1. UNCHANGED quoteVars /\ closed' = closed
    BY <1>1 DEF Dial, DialSucceeds, DialFails, Authenticate, AuthAnswered, AuthFails, Opened,
       OpenRaises
  <2>2. \A t \in Sessions : sock'[t] # "open" => sock[t] # "open"
    <3>1. Dial(s) => sock[s] = "none"
      BY DEF Dial, StartedInv, Fresh
    <3>2. Dial(s) \/ DialSucceeds(s) \/ DialFails(s) =>
            sock[s] # "open" /\ \A t \in Sessions : t # s => sock'[t] = sock[t]
      BY <3>1 DEF Dial, DialSucceeds, DialFails, QuoteTypes
    <3>3. CASE \/ Authenticate(s) \/ AuthAnswered(s) \/ AuthFails(s) \/ Opened(s)
               \/ OpenRaises(s)
      BY <3>3 DEF Authenticate, AuthAnswered, AuthFails, Opened, OpenRaises
    <3> QED BY <1>1, <3>2, <3>3
  <2> QED BY <2>1, <2>2, QuotesUntouched
<1>2. CASE OpenFails(s)
  <2>1. CASE s \in closed
    <3>1. UNCHANGED quoteVars /\ closed' = closed /\ sock' = sock
      BY <1>2, <2>1 DEF OpenFails, quoteVars
    <3> QED BY <3>1, QuotesUntouched
  <2>2. CASE s \notin closed
    BY <1>2, <2>2, QuotesClosed DEF OpenFails
  <2> QED BY <2>1, <2>2
<1>3. CASE ProtocolFailure(s)
  BY <1>3, QuotesClosed DEF ProtocolFailure
<1>4. CASE Lost(s)
  <2>1. /\ closed' = closed \cup {s} /\ sent'[s] = <<>> /\ ackOf' = ackOf
        /\ \A t \in Sessions \ {s} : sent'[t] = sent[t] /\ sock'[t] = sock[t]
    BY <1>4 DEF Lost, Gone, QuoteTypes
  <2>2. /\ \A q \in Quotes : quote'[q] = IF Contains(waiters[s], q) THEN "failed" ELSE quote[q]
        /\ waiters' = [waiters EXCEPT ![s] = <<>>]
    <3>1. CASE s \in closed
      BY <1>4, <3>1, NothingToReject DEF Lost
    <3>2. CASE s \notin closed
      BY <1>4, <3>2, RejectsAll DEF Lost
    <3> QED BY <3>1, <3>2
  <2> QED BY <2>1, <2>2, QuotesRejected DEF Rejected
<1>5. CASE Release(s)
  <2>1. /\ closed' = closed \cup {s} /\ sent'[s] = <<>> /\ ackOf' = ackOf
        /\ \A t \in Sessions \ {s} : sent'[t] = sent[t] /\ sock'[t] = sock[t]
        /\ s \in closed /\ quote' = quote /\ waiters' = waiters
    <3>1. s \in closed /\ closed' = closed /\ quote' = quote /\ waiters' = waiters /\ ackOf' = ackOf
      BY <1>5 DEF Release, ReleaseInv
    <3>2. sent'[s] = <<>> /\ \A t \in Sessions \ {s} : sent'[t] = sent[t] /\ sock'[t] = sock[t]
      BY <1>5 DEF Release, Gone, QuoteTypes
    <3> QED BY <3>1, <3>2
  <2> QED BY <2>1, NothingToReject, QuotesRejected DEF Rejected
<1>6. CASE Acknowledged(s)
  <2>1. /\ sent[s] # <<>> /\ sent' = [sent EXCEPT ![s] = Tail(sent[s])]
        /\ closed' = closed /\ sock' = sock
    BY <1>6 DEF Acknowledged
  <2>2. CASE waiters[s] = <<>>
    <3>1. quote' = quote /\ waiters' = waiters /\ ackOf' = ackOf
      BY <1>6, <2>2 DEF Acknowledged
    <3> QED BY <2>1, <2>2, <3>1, AckIgnored
  <2>3. CASE waiters[s] # <<>>
    <3>1. /\ quote' = [quote EXCEPT ![waiters[s][1]] = "answered"]
          /\ waiters' = [waiters EXCEPT ![s] = RemoveAt(waiters[s], 1)]
          /\ ackOf' = [ackOf EXCEPT ![waiters[s][1]] = {Head(sent[s])}]
      BY <1>6, <2>3 DEF Acknowledged, Oldest
    <3> QED BY <2>1, <2>3, <3>1, AckSettles
  <2> QED BY <2>2, <2>3
<1> QED BY <1>1, <1>2, <1>3, <1>4, <1>5, <1>6

\* Every step keeps the invariant.
LEMMA NextQuoteInv ==
  TypeInv /\ TypeInv' /\ IInv /\ CloseInv /\ QuoteInv /\ [Next]_vars => QuoteInv'
<1> SUFFICES ASSUME TypeInv, TypeInv', IInv, CloseInv, QuoteInv, [Next]_vars PROVE QuoteInv'
  OBVIOUS
<1>1. QuoteTypes /\ QuoteTypes' /\ StartedInv /\ ReleaseInv /\ ClientTypeOK
  BY QuoteTypesHold DEF TypeInv, CloseInv, IInv, TypeOK, QuoteTypes
<1>2. CASE UNCHANGED vars
  BY <1>1, <1>2, QuotesUntouched DEF vars, sessionVars
<1>3. ASSUME NEW u \in Users,
             \/ OpenReuses(u) \/ OpenJoins(u) \/ OwnerResumes(u) \/ UserCloseReturns(u)
             \/ JoinerResumes(u) \/ \E s \in Sessions : OpenCreates(u, s)
      PROVE  QuoteInv'
  <2>1. UNCHANGED quoteVars /\ closed' = closed /\ sock' = sock
    BY <1>3 DEF OpenReuses, OpenJoins, OwnerResumes, UserCloseReturns, JoinerResumes,
       OpenCreates, sessionVars
  <2> QED BY <1>1, <2>1, QuotesUntouched
<1>4. ASSUME NEW u \in Users, UserCloses(u)
      PROVE  QuoteInv'
  <2>1. got[u] \in Sessions
    BY <1>1, <1>4 DEF UserCloses, ClientTypeOK, Maybe
  <2> QED BY <1>1, <1>4, <2>1, QuotesClosed DEF UserCloses
<1>5. ASSUME NEW u \in Users, NEW q \in Quotes, Quote(u, q)
      PROVE  QuoteInv'
  <2> DEFINE s == got[u]
  <2>1. s \in Sessions
    BY <1>1, <1>5 DEF Quote, ClientTypeOK, Maybe
  <2>2. quote[q] = "idle" /\ closed' = closed /\ sock' = sock /\ ackOf' = ackOf
    BY <1>5 DEF Quote, sessionVars
  <2>3. CASE sock[s] = "open" /\ s \notin releasing
    <3>1. s \notin closed
      BY <1>1, <2>1, <2>3 DEF ReleaseInv, Released
    <3>2. /\ quote' = [quote EXCEPT ![q] = "waiting"]
          /\ sent' = [sent EXCEPT ![s] = Append(sent[s], q)]
          /\ waiters' = [waiters EXCEPT ![s] = Append(waiters[s], q)]
      BY <1>5, <2>3 DEF Quote
    <3> HIDE DEF s
    <3> QED BY <1>1, <2>1, <2>2, <2>3, <3>1, <3>2, QuoteSent
  <2>4. CASE ~(sock[s] = "open" /\ s \notin releasing)
    <3>1. quote' = [quote EXCEPT ![q] = "failed"] /\ sent' = sent /\ waiters' = waiters
      BY <1>5, <2>4 DEF Quote
    <3> QED BY <1>1, <2>2, <3>1, QuoteUnsent
  <2> QED BY <2>3, <2>4
<1>6. ASSUME NEW s \in Sessions, NEW i \in DOMAIN waiters[s], QuoteTimesOut(s, i)
      PROVE  QuoteInv'
  <2>1. waiters[s] \in Seq(Quotes)
    BY <1>1 DEF QuoteTypes
  <2>2. i \in 1..Len(waiters[s])
    BY <2>1
  <2>3. /\ quote' = [quote EXCEPT ![waiters[s][i]] = "timed out"]
        /\ waiters' = [waiters EXCEPT ![s] = RemoveAt(waiters[s], i)]
        /\ closed' = closed /\ sock' = sock /\ sent' = sent /\ ackOf' = ackOf
    BY <1>6 DEF QuoteTimesOut, sessionVars
  <2> QED BY <1>1, <2>2, <2>3, QuoteTimedOut
<1>7. CASE \/ CloseBegins \/ CloseOneReturns \/ CloseAwaitsOpening \/ OpeningEnds \/ CloseLater
           \/ CloseEnds
  <2>1. UNCHANGED quoteVars /\ closed' = closed /\ sock' = sock
    BY <1>7 DEF CloseBegins, CloseOneReturns, CloseAwaitsOpening, OpeningEnds, CloseLater,
       CloseEnds, sessionVars
  <2> QED BY <1>1, <2>1, QuotesUntouched
<1>8. CASE CloseNext
  <2>1. sock' = sock /\ sent' = sent /\ ackOf' = ackOf
    BY <1>8 DEF CloseNext
  <2>2. Head(doomed) \in Sessions
    <3>1. doomed \in Seq(Sessions) /\ doomed # <<>>
      BY <1>8 DEF CloseNext, TypeInv, TypeOK
    <3> QED BY <3>1, TailLemma
  <2>3. CASE Head(doomed) \in closed
    <3>1. UNCHANGED quoteVars /\ closed' = closed
      BY <1>8, <2>1, <2>3 DEF CloseNext, quoteVars
    <3> QED BY <1>1, <2>1, <3>1, QuotesUntouched
  <2>4. CASE Head(doomed) \notin closed
    <3>1. CloseSession(Head(doomed))
      BY <1>8, <2>4 DEF CloseNext
    <3> QED BY <1>1, <2>1, <2>2, <3>1, QuotesClosed
  <2> QED BY <2>3, <2>4
<1> QED BY <1>1, <1>2, <1>3, <1>4, <1>5, <1>6, <1>7, <1>8, SessionQuotes DEF Next

\* A quote is settled by the acknowledgement that answers it, unless one given
\* up before left its own acknowledgement to the next.
THEOREM AcksInOrder == Spec => []AckIsInOrder
<1>1. QuoteInv => AckIsInOrder
  BY DEF QuoteInv
<1> QED BY <1>1, InitIInv, NextIInv, InitType, NextType, InitCloseInv, NextCloseInv, IInvTypes,
        InitQuoteInv, NextQuoteInv, PTL DEF Spec

=============================================================================
