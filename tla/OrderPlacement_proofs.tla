------------------------ MODULE OrderPlacement_proofs ------------------------
(***************************************************************************)
(* Proofs about OrderPlacement, for every set of orders and every bound on  *)
(* versions, loads and attempts.                                            *)
(***************************************************************************)
EXTENDS OrderPlacement, FiniteSetTheorems, TLAPS

-----------------------------------------------------------------------------
(* The metadata cache.                                                      *)

\* At most one load can still answer, and it is the one that may be joined;
\* its answer is no older than anything the cache has held.
SingleFlight ==
  /\ \A l \in Loads : loads[l] \in {"asking", "answered"} => flight = l
  /\ \A l \in Loads : loads[l] = "answered" => newest <= loaded[l]
  /\ \A l \in Loads : loaded[l] <= published
  /\ newest <= published
  /\ MetadataNeverOlder

CacheInv == CacheTypeOK /\ SingleFlight

\* What any step of an order or of the cache does to the cache.
CacheNext ==
  \/ CacheStep
  \/ \E o \in Orders : Told(o) \/ \E force \in BOOLEAN : Ask(o, force)
  \/ UNCHANGED cacheVars

LEMMA CacheInitInv == CacheInit => CacheInv
<1> SUFFICES ASSUME CacheInit PROVE CacheInv
  OBVIOUS
<1> USE VersionsAssumption DEF CacheInit, CacheTypeOK, SingleFlight, MetadataNeverOlder, Versions, Loads
<1>1. /\ published = 1 /\ cached = 0 /\ newest = 0 /\ flight = 0
      /\ loads \in [Loads -> {"unused", "asking", "answered", "done", "failed"}]
      /\ loaded \in [Loads -> 0..MaxVersion]
      /\ joined \in [Orders -> 0..MaxLoads]
      /\ value \in [Orders -> 0..MaxVersion]
  OBVIOUS
<1>2. fresh \in BOOLEAN
  BY Zenon
<1>3. CacheTypeOK
  BY <1>1, <1>2
<1>4. SingleFlight
  OBVIOUS
<1> QED BY <1>3, <1>4 DEF CacheInv

\* A load that is joined or started is the only one that can still answer.
LEMMA AskInv ==
  ASSUME CacheInv, NEW o \in Orders, NEW force \in BOOLEAN, Ask(o, force)
  PROVE  CacheInv'
<1> USE VersionsAssumption DEF CacheInv, CacheTypeOK, SingleFlight, MetadataNeverOlder, Versions, Loads
<1>1. CASE Hit(o, force)
  <2>1. cached \in 0..MaxVersion
    OBVIOUS
  <2> QED BY <1>1, <2>1 DEF Hit, Returned
<1>2. CASE Miss(o, force)
  <2>1. PICK l \in Loads :
          /\ Join(l)
          /\ joined' = [joined EXCEPT ![o] = l]
          /\ flight' = l
          /\ loads' = [loads EXCEPT ![l] = IF @ = "unused" THEN "asking" ELSE @]
    BY <1>2 DEF Miss
  <2>2. UNCHANGED <<published, cached, newest, fresh, loaded, value>>
    BY <1>2 DEF Miss
  <2>3. \A k \in Loads : loads[k] \in {"asking", "answered"} => k = l
    <3>1. CASE flight # 0
      BY <2>1, <3>1 DEF Join
    <3>2. CASE flight = 0
      BY <3>2
    <3> QED BY <3>1, <3>2
  <2>4. CacheTypeOK'
    BY <2>1, <2>2
  <2>5. SingleFlight'
    BY <2>1, <2>2, <2>3
  <2> QED BY <2>2, <2>4, <2>5
<1> QED BY <1>1, <1>2 DEF Ask

LEMMA ToldInv ==
  ASSUME CacheInv, NEW o \in Orders, Told(o)
  PROVE  CacheInv'
<1> USE VersionsAssumption DEF CacheInv, CacheTypeOK, SingleFlight, MetadataNeverOlder, Versions, Loads
<1>1. joined[o] \in Loads
  BY DEF Told, Returned
<1>2. value' \in [Orders -> 0..MaxVersion]
  BY <1>1 DEF Told, Returned
<1>3. cached' \in {0, cached}
  BY DEF Told, Returned
<1>4. CacheTypeOK'
  BY <1>2, <1>3 DEF Told, Returned
<1>5. SingleFlight'
  BY <1>3 DEF Told, Returned
<1> QED BY <1>3, <1>4, <1>5

LEMMA CacheStepInv ==
  ASSUME CacheInv, CacheStep
  PROVE  CacheInv'
<1> USE VersionsAssumption DEF CacheInv, CacheTypeOK, SingleFlight, MetadataNeverOlder, Versions, Loads
<1>1. CASE Publish
  BY <1>1 DEF Publish
<1>2. CASE Expire
  <2>1. UNCHANGED <<published, cached, newest, flight, loads, loaded, joined, value>>
    BY <1>2 DEF Expire
  <2>2. fresh' \in BOOLEAN
    BY <1>2, Zenon DEF Expire
  <2> QED BY <2>1, <2>2
<1>3. CASE CacheClose
  <2>1. flight \in Loads
    BY <1>3 DEF CacheClose
  <2> QED BY <1>3, <2>1 DEF CacheClose
<1>4. ASSUME NEW l \in Loads, LoadAnswered(l)
      PROVE  CacheInv'
  BY <1>4 DEF LoadAnswered
<1>5. ASSUME NEW l \in Loads, LoadStores(l)
      PROVE  CacheInv'
  <2>1. \A k \in Loads : loads[k] \in {"asking", "answered"} => k = l
    BY <1>5 DEF LoadStores
  <2>2. newest <= loaded[l] /\ loaded[l] \in 0..MaxVersion
    BY <1>5 DEF LoadStores
  <2>3. CacheTypeOK'
    BY <1>5, <2>2 DEF LoadStores, Landed
  <2>4. SingleFlight'
    BY <1>5, <2>1, <2>2 DEF LoadStores, Landed
  <2> QED BY <1>5, <2>2, <2>3, <2>4 DEF LoadStores
<1>6. ASSUME NEW l \in Loads, LoadFails(l)
      PROVE  CacheInv'
  <2>1. \A k \in Loads : loads[k] \in {"asking", "answered"} => k = l
    BY <1>6 DEF LoadFails
  <2> QED BY <1>6, <2>1 DEF LoadFails, Landed
<1> QED BY <1>1, <1>2, <1>3, <1>4, <1>5, <1>6 DEF CacheStep

LEMMA CacheNextInv == CacheInv /\ CacheNext => CacheInv'
<1> SUFFICES ASSUME CacheInv, CacheNext PROVE CacheInv'
  OBVIOUS
<1>1. CASE UNCHANGED cacheVars
  BY <1>1 DEF cacheVars, CacheInv, CacheTypeOK, SingleFlight, MetadataNeverOlder
<1> QED BY <1>1, AskInv, ToldInv, CacheStepInv DEF CacheNext

-----------------------------------------------------------------------------
(* The transactions.                                                        *)

\* A sender has one transaction at most, none before its submission ended, and
\* its handle is its own.
OneEach == \A x, y \in txs : x.of = y.of => x = y

NoneBefore ==
  \A o \in Senders : send[o] \in {"idle", "nonce", "submit", "resubmit", "pause"} =>
    \A x \in txs : x.of # o

ConfirmedIsExecuted ==
  \A o \in Senders : send[o] = "confirmed" =>
    \E x \in txs : x.of = o /\ x.state = "executed"

HandleIsOwn == \A o \in Senders : \A h \in handle[o] : h.of = o

WalletInv == WalletTypeOK /\ IsFiniteSet(txs) /\ OneEach /\ NoneBefore /\ ConfirmedIsExecuted /\ HandleIsOwn

\* A transaction that has been executed stays executed.
ExecutedStays == {x \in txs : x.state = "executed"} \subseteq txs'

LEMMA WalletInitInv == WalletInit => WalletInv
BY FS_EmptySet, AttemptsAssumption DEF WalletInit, WalletInv, WalletTypeOK, Txs, OneEach, NoneBefore,
   ConfirmedIsExecuted, HandleIsOwn

\* What a step leaves of the invariant when it changes no transaction.
LEMMA SameTxs ==
  ASSUME WalletInv, WalletTypeOK', UNCHANGED txs,
         \A o \in Senders : send'[o] \in {"idle", "nonce", "submit", "resubmit", "pause"} =>
           send[o] \in {"idle", "nonce", "submit", "resubmit", "pause"},
         \A o \in Senders : send'[o] = "confirmed" =>
           \/ send[o] = "confirmed"
           \/ \E x \in txs : x.of = o /\ x.state = "executed",
         handle' = handle
  PROVE  WalletInv' /\ ExecutedStays
<1>1. OneEach' /\ HandleIsOwn' /\ ExecutedStays
  BY DEF WalletInv, OneEach, HandleIsOwn, ExecutedStays
<1>2. NoneBefore'
  BY DEF WalletInv, NoneBefore
<1>3. ConfirmedIsExecuted'
  BY DEF WalletInv, ConfirmedIsExecuted
<1> QED BY <1>1, <1>2, <1>3 DEF WalletInv

\* The steps that add the transaction of an order, which has none yet.
LEMMA NewTx ==
  ASSUME WalletInv, NEW o \in Senders, send[o] \in {"submit", "resubmit"},
         NEW s \in {"sent", "raised"}, send' = [send EXCEPT ![o] = s],
         txs' = txs \cup {Tx(o)},
         handle' \in {handle, [handle EXCEPT ![o] = {[of |-> o, try |-> attempt[o]]}]},
         UNCHANGED <<wallet, nonce, signed, attempt>>
  PROVE  WalletInv' /\ ExecutedStays
<1> USE DEF WalletInv
<1>1. Tx(o) \in Txs /\ Tx(o).of = o /\ \A x \in txs : x.of # o
  BY DEF WalletTypeOK, Txs, Tx, NoneBefore
<1>2. WalletTypeOK'
  BY <1>1 DEF WalletTypeOK
<1>3. OneEach'
  BY <1>1 DEF OneEach
<1>4. NoneBefore'
  BY <1>1 DEF NoneBefore, WalletTypeOK
<1>5. ConfirmedIsExecuted'
  <2> SUFFICES ASSUME NEW p \in Senders, send'[p] = "confirmed"
               PROVE  \E x \in txs' : x.of = p /\ x.state = "executed"
    BY DEF ConfirmedIsExecuted
  <2>1. send[p] = "confirmed"
    BY DEF WalletTypeOK
  <2> QED BY <2>1 DEF ConfirmedIsExecuted
<1>6. HandleIsOwn'
  BY DEF HandleIsOwn, WalletTypeOK
<1>7. IsFiniteSet(txs')
  BY FS_AddElement
<1> QED BY <1>2, <1>3, <1>4, <1>5, <1>6, <1>7 DEF ExecutedStays

\* A pending transaction changes its state, and leaves its sender's others be.
LEMMA Restated ==
  ASSUME WalletInv, NEW x \in Pending, NEW s \in {"executed", "failed", "replaced"},
         NEW extra \in SUBSET Txs, \A y, z \in extra : y.of = z.of => y = z,
         \A y \in extra, z \in txs : y.of # z.of,
         IsFiniteSet(extra), txs' = (txs \ {x}) \cup {[x EXCEPT !.state = s]} \cup extra
  PROVE  /\ txs' \subseteq Txs
         /\ IsFiniteSet(txs')
         /\ OneEach'
         /\ ExecutedStays
         /\ \A y \in txs' : y \in extra \/ \E z \in txs : z.of = y.of
<1>1. x \in txs /\ x \in Txs /\ x.state = "pending"
  BY DEF Pending, WalletInv, WalletTypeOK
<1> DEFINE y == [x EXCEPT !.state = s]
<1>2. y \in Txs /\ y.of = x.of
  BY <1>1 DEF Txs
<1> HIDE DEF y
<1>3. txs' \subseteq Txs
  BY <1>2 DEF WalletInv, WalletTypeOK, y
<1>4. txs' = (txs \ {x}) \cup {y} \cup extra
  BY DEF y
<1>5. \A t \in txs : t.of = x.of => t = x
  BY <1>1 DEF WalletInv, OneEach
<1>6. OneEach'
  <2> SUFFICES ASSUME NEW t \in txs', NEW u \in txs', t.of = u.of PROVE t = u
    BY DEF OneEach
  <2>1. \A a, b \in txs : a.of = b.of => a = b
    BY DEF WalletInv, OneEach
  <2> QED BY <1>1, <1>2, <1>4, <1>5, <2>1
<1>7. ExecutedStays
  <2>1. \A t \in txs : t.state = "executed" => t # x
    BY <1>1
  <2> QED BY <1>4, <2>1 DEF ExecutedStays
<1>8. \A t \in txs' : t \in extra \/ \E z \in txs : z.of = t.of
  BY <1>1, <1>2, <1>4
<1>9. IsFiniteSet(txs')
  <2>1. IsFiniteSet(txs \ {x})
    BY FS_RemoveElement DEF WalletInv
  <2>2. IsFiniteSet((txs \ {x}) \cup {y})
    BY <2>1, FS_AddElement
  <2> DEFINE rest == (txs \ {x}) \cup {y}
  <2> HIDE DEF rest
  <2>3. IsFiniteSet(rest \cup extra)
    BY <2>2, FS_Union DEF rest
  <2> QED BY <1>4, <2>3 DEF rest
<1> QED BY <1>3, <1>6, <1>7, <1>8, <1>9

\* Executed transactions stay, and so does what they confirmed.
LEMMA ConfirmedStays ==
  ASSUME WalletInv, ExecutedStays,
         \A o \in Senders : send'[o] = "confirmed" => send[o] = "confirmed"
  PROVE  ConfirmedIsExecuted'
BY DEF WalletInv, ExecutedStays, ConfirmedIsExecuted

\* Every step of a submission keeps the invariant.
LEMMA SendStepInv ==
  ASSUME WalletInv, NEW o \in Senders, SendStep(o)
  PROVE  WalletInv' /\ ExecutedStays
<1> USE DEF WalletInv
<1>1. CASE FetchNonce(o)
  <2>1. signed' \in [Senders -> Nat]
    <3>1. Cardinality(Pending) \in Nat
      BY FS_Subset, FS_CardinalityType DEF Pending
    <3>2. NextNonce \in Nat
      BY <3>1 DEF NextNonce, WalletTypeOK
    <3>3. nonce - (IF wallet # "EOA" /\ nonce > 0 THEN 1 ELSE 0) \in Nat
      BY DEF WalletTypeOK
    <3>4. PICK n \in Nat : signed' = [signed EXCEPT ![o] = n]
      BY <1>1, <3>2, <3>3 DEF FetchNonce
    <3> QED BY <3>4 DEF WalletTypeOK
  <2> QED BY <1>1, <2>1, SameTxs DEF FetchNonce, To, WalletTypeOK
<1>2. CASE Accepted(o)
  <2>1. PICK s \in {"sent"} : send' = [send EXCEPT ![o] = s]
    BY <1>2 DEF Accepted, To
  <2> QED BY <1>2, <2>1, NewTx DEF Accepted, Submitting
<1>3. CASE Replaces(o)
  <2>1. PICK x \in Pending :
          /\ x.nonce = signed[o]
          /\ txs' = (txs \ {x}) \cup {[x EXCEPT !.state = "replaced"], Tx(o)}
    BY <1>3 DEF Replaces
  <2>2. Tx(o) \in Txs /\ Tx(o).of = o /\ \A z \in txs : z.of # o
    BY <1>3 DEF WalletTypeOK, Txs, Tx, NoneBefore, Replaces
  <2>3. IsFiniteSet({Tx(o)})
    BY FS_Singleton
  <2>4. txs' = (txs \ {x}) \cup {[x EXCEPT !.state = "replaced"]} \cup {Tx(o)}
    BY <2>1
  <2>5. /\ txs' \subseteq Txs /\ IsFiniteSet(txs') /\ OneEach' /\ ExecutedStays
        /\ \A t \in txs' : t.of = o \/ \E z \in txs : z.of = t.of
    <3> DEFINE e == {Tx(o)}
    <3>1. /\ e \in SUBSET Txs /\ \A t, u \in e : t.of = u.of => t = u
          /\ \A t \in e, z \in txs : t.of # z.of
      BY <2>2
    <3>2. txs' = (txs \ {x}) \cup {[x EXCEPT !.state = "replaced"]} \cup e /\ IsFiniteSet(e)
      BY <2>3, <2>4
    <3> HIDE DEF e
    <3>3. /\ txs' \subseteq Txs /\ IsFiniteSet(txs') /\ OneEach' /\ ExecutedStays
          /\ \A t \in txs' : t \in e \/ \E z \in txs : z.of = t.of
      BY <3>1, <3>2, Restated
    <3> QED BY <2>2, <3>3 DEF e
  <2>6. /\ send' = [send EXCEPT ![o] = "sent"]
        /\ handle' = [handle EXCEPT ![o] = {[of |-> o, try |-> attempt[o]]}]
        /\ UNCHANGED <<wallet, nonce, signed, attempt>>
    BY <1>3 DEF Replaces, To
  <2>7. WalletTypeOK' /\ HandleIsOwn'
    BY <2>5, <2>6 DEF WalletTypeOK, HandleIsOwn
  <2>8. NoneBefore'
    BY <2>5, <2>6 DEF WalletTypeOK, NoneBefore
  <2>9. ConfirmedIsExecuted'
    BY <2>5, <2>6, ConfirmedStays DEF WalletTypeOK
  <2> QED BY <2>5, <2>7, <2>8, <2>9
<1>4. CASE Deferred(o)
  BY <1>4, SameTxs, AttemptsAssumption DEF Deferred, TryAgain, To, WalletTypeOK, Submitting
<1>5. CASE Mismatched(o)
  BY <1>5, SameTxs, AttemptsAssumption DEF Mismatched, TryAgain, To, WalletTypeOK, Submitting
<1>6. CASE Lost(o)
  <2>1. CASE txs' = txs
    BY <1>6, <2>1, SameTxs DEF Lost, To, WalletTypeOK, Submitting
  <2>2. CASE txs' = txs \cup {Tx(o)}
    BY <1>6, <2>2, NewTx DEF Lost, To, Submitting
  <2> QED BY <1>6, <2>1, <2>2 DEF Lost
<1>7. CASE Resume(o)
  BY <1>7, SameTxs DEF Resume, To, WalletTypeOK
<1>8. CASE WaitReturns(o)
  <2>1. send[o] = "sent" /\ send' \in {[send EXCEPT ![o] = "confirmed"], [send EXCEPT ![o] = "raised"]}
        /\ UNCHANGED <<wallet, nonce, txs, signed, attempt, handle>>
    BY <1>8 DEF WaitReturns, To
  <2>2. send'[o] = "confirmed" => \E x \in txs : x.of = o /\ x.state = "executed"
    <3> SUFFICES ASSUME send'[o] = "confirmed"
                 PROVE  \E x \in txs : x.of = o /\ x.state = "executed"
      OBVIOUS
    <3>1. "executed" \in Outcome(o)
      BY <1>8 DEF WaitReturns, To, WalletTypeOK
    <3>2. PICK x \in txs : x.state = "executed" /\ [of |-> x.of, try |-> x.try] \in handle[o]
      BY <3>1 DEF Outcome
    <3>3. [of |-> x.of, try |-> x.try].of = o
      BY <3>2 DEF HandleIsOwn
    <3> QED BY <3>2, <3>3
  <2> QED BY <2>1, <2>2, SameTxs DEF WalletTypeOK
<1> QED BY <1>1, <1>2, <1>3, <1>4, <1>5, <1>6, <1>7, <1>8 DEF SendStep

\* A transaction is executed or reverts.
LEMMA ExecuteInv == WalletInv /\ Execute => WalletInv' /\ ExecutedStays
<1> SUFFICES ASSUME WalletInv, Execute PROVE WalletInv' /\ ExecutedStays
  OBVIOUS
<1>1. PICK x \in Pending, s \in {"executed", "failed"} :
        /\ txs' = (txs \ {x}) \cup {[x EXCEPT !.state = s]}
        /\ nonce' = nonce + 1
        /\ UNCHANGED <<wallet, send, signed, attempt, handle>>
  BY DEF Execute
<1> DEFINE none == {}
<1>2. /\ none \in SUBSET Txs /\ \A t, u \in none : t.of = u.of => t = u
      /\ \A t \in none, z \in txs : t.of # z.of
      /\ IsFiniteSet(none)
      /\ txs' = (txs \ {x}) \cup {[x EXCEPT !.state = s]} \cup none
  BY <1>1, FS_EmptySet
<1>3. none = {}
  OBVIOUS
<1> HIDE DEF none
<1>4. /\ txs' \subseteq Txs /\ IsFiniteSet(txs') /\ OneEach' /\ ExecutedStays
      /\ \A t \in txs' : t \in none \/ \E z \in txs : z.of = t.of
  BY <1>2, Restated
<1>5. WalletTypeOK' /\ HandleIsOwn'
  BY <1>1, <1>4 DEF WalletInv, WalletTypeOK, HandleIsOwn
<1>6. NoneBefore'
  BY <1>1, <1>3, <1>4 DEF WalletInv, NoneBefore
<1>7. ConfirmedIsExecuted'
  BY <1>1, <1>4, ConfirmedStays DEF WalletInv
<1> QED BY <1>4, <1>5, <1>6, <1>7 DEF WalletInv

\* An order that begins to send its approval.
LEMMA BeginsInv ==
  ASSUME WalletInv, NEW o \in Senders, send[o] = "idle", To(o, "nonce"),
         UNCHANGED <<wallet, nonce, txs, signed, attempt, handle>>
  PROVE  WalletInv' /\ ExecutedStays
BY SameTxs DEF To, WalletInv, WalletTypeOK

-----------------------------------------------------------------------------
(* The orders.                                                              *)

Early == {"idle", "resolve", "refresh", "post", "market", "allowance"}

\* How far an order has come says what it has sent and what is known of its
\* approval; it is accepted when it ends, and not before.
StageInv ==
  \A o \in Orders :
    /\ stage[o] \in Early => send[o] = "idle"
    /\ stage[o] \in {"tell", "repost"} => \E x \in txs : x.of = o /\ x.state = "executed"
    /\ stage[o] = "repost" => clobSees
    /\ stage[o] \notin {"placed", "refused"} => accepted[o] = 0

OrderTypeOK ==
  /\ stage \in [Orders -> {"idle", "resolve", "refresh", "post", "market", "allowance",
                           "approve", "tell", "repost", "placed", "refused"}]
  /\ ticks \in [Orders -> 0..MaxVersion]
  /\ clobSees \in BOOLEAN
  /\ accepted \in [Orders -> 0..1]

IInv == CacheInv /\ WalletInv /\ OrderTypeOK /\ StageInv

\* Steps of an order that leave its transactions alone.
LEMMA OrderStep ==
  ASSUME IInv, NEW o \in Orders, UNCHANGED walletVars,
         NEW s \in {"resolve", "refresh", "post", "market", "allowance", "tell", "repost",
                    "placed", "refused"},
         Go(o, s), ticks' \in [Orders -> 0..MaxVersion], clobSees' \in BOOLEAN,
         s \in Early => stage[o] \in Early,
         s = "tell" => send[o] = "confirmed",
         s = "repost" => stage[o] = "tell" /\ clobSees',
         clobSees => clobSees',
         \/ UNCHANGED accepted
         \/ /\ stage[o] \notin {"placed", "refused"}
            /\ s \in {"placed", "refused"}
            /\ accepted' = [accepted EXCEPT ![o] = @ + 1],
         stage[o] \in {"placed", "refused"} => s \in {"placed", "refused"}
  PROVE  WalletInv' /\ OrderTypeOK' /\ StageInv'
<1>1. WalletInv'
  BY DEF IInv, walletVars, WalletInv, WalletTypeOK, OneEach, NoneBefore, ConfirmedIsExecuted,
     HandleIsOwn, Txs
<1>2. OrderTypeOK'
  <2>1. stage' \in [Orders -> {"idle", "resolve", "refresh", "post", "market", "allowance",
                           "approve", "tell", "repost", "placed", "refused"}]
    BY DEF IInv, OrderTypeOK, Go
  <2>2. accepted' \in [Orders -> 0..1]
    BY DEF IInv, OrderTypeOK, StageInv
  <2> QED BY <2>1, <2>2 DEF OrderTypeOK
<1>3. StageInv'
  <2> SUFFICES ASSUME NEW p \in Orders
               PROVE  /\ stage'[p] \in Early => send'[p] = "idle"
                      /\ stage'[p] \in {"tell", "repost"} =>
                           \E x \in txs' : x.of = p /\ x.state = "executed"
                      /\ stage'[p] = "repost" => clobSees'
                      /\ stage'[p] \notin {"placed", "refused"} => accepted'[p] = 0
    BY DEF StageInv
  <2>1. CASE p = o
    <3>1. stage'[p] = s
      BY <2>1 DEF Go, IInv, OrderTypeOK
    <3>2. s \in {"tell", "repost"} => \E x \in txs : x.of = o /\ x.state = "executed"
      BY SendersAssumption DEF IInv, StageInv, WalletInv, ConfirmedIsExecuted
    <3> QED BY <2>1, <3>1, <3>2 DEF IInv, StageInv, walletVars, Early, OrderTypeOK
  <2>2. CASE p # o
    <3>1. stage'[p] = stage[p] /\ accepted'[p] = accepted[p]
      BY <2>2 DEF Go, IInv, OrderTypeOK
    <3> QED BY <3>1 DEF IInv, StageInv, walletVars
  <2> QED BY <2>1, <2>2
<1> QED BY <1>1, <1>2, <1>3


\* An order of which only the cache knows something new.
LEMMA CacheOnly ==
  ASSUME IInv, UNCHANGED walletVars, UNCHANGED orderVars
  PROVE  WalletInv' /\ OrderTypeOK' /\ StageInv'
BY DEF IInv, walletVars, orderVars, WalletInv, WalletTypeOK, OneEach, NoneBefore,
   ConfirmedIsExecuted, HandleIsOwn, Txs, OrderTypeOK, StageInv

\* The transactions move, and an order that has not begun its own does not.
LEMMA WalletOnly ==
  ASSUME IInv, WalletInv', ExecutedStays, UNCHANGED orderVars,
         \A o \in Orders : send[o] = "idle" => send'[o] = "idle"
  PROVE  OrderTypeOK' /\ StageInv'
<1>1. OrderTypeOK'
  BY DEF IInv, OrderTypeOK, orderVars
<1>2. \A o \in Orders : (\E x \in txs : x.of = o /\ x.state = "executed") =>
                          \E x \in txs' : x.of = o /\ x.state = "executed"
  BY DEF ExecutedStays
<1>3. StageInv'
  BY <1>2 DEF IInv, StageInv, orderVars
<1> QED BY <1>1, <1>3

\* An order begins to send its approval.
LEMMA Begins ==
  ASSUME IInv, NEW o \in Orders, stage[o] = "allowance", Go(o, "approve"), To(o, "nonce"),
         UNCHANGED <<wallet, nonce, txs, signed, attempt, handle, ticks, clobSees, accepted>>
  PROVE  WalletInv' /\ OrderTypeOK' /\ StageInv'
<1>1. send[o] = "idle"
  BY DEF IInv, StageInv, Early
<1>2. WalletInv' /\ ExecutedStays
  BY <1>1, BeginsInv, SendersAssumption DEF IInv
<1>3. OrderTypeOK'
  BY DEF IInv, OrderTypeOK, Go
<1>4. stage' = [stage EXCEPT ![o] = "approve"] /\ send' = [send EXCEPT ![o] = "nonce"]
      /\ stage \in [Orders -> {"idle", "resolve", "refresh", "post", "market", "allowance",
                           "approve", "tell", "repost", "placed", "refused"}]
  BY DEF Go, To, IInv, OrderTypeOK
<1>5. \A p \in Orders : p # o => stage'[p] = stage[p] /\ send'[p] = send[p]
  BY <1>4
<1>6. stage'[o] = "approve"
  BY <1>4
<1>7. StageInv'
  BY <1>5, <1>6 DEF IInv, StageInv, Early
<1> QED BY <1>2, <1>3, <1>7

\* The invariant holds at first.
LEMMA InitIInv == Init => IInv
<1> SUFFICES ASSUME Init PROVE IInv
  OBVIOUS
<1>1. CacheInv /\ WalletInv
  BY CacheInitInv, WalletInitInv DEF Init
<1>2. stage \in [Orders -> {"idle"}] /\ ticks \in [Orders -> 0..MaxVersion]
      /\ accepted \in [Orders -> 0..1] /\ \A o \in Orders : accepted[o] = 0 /\ stage[o] = "idle"
  BY VersionsAssumption DEF Init
<1>3. clobSees \in BOOLEAN
  BY Zenon DEF Init
<1>4. OrderTypeOK
  BY <1>2, <1>3 DEF OrderTypeOK
<1>5. \A o \in Orders : send[o] = "idle"
  BY SendersAssumption DEF Init, WalletInit
<1>6. StageInv
  BY <1>2, <1>5 DEF StageInv
<1> QED BY <1>1, <1>4, <1>6 DEF IInv

\* What every step does to the cache.
LEMMA NextIsCacheNext == Next => CacheNext
BY DEF Next, CacheNext, Place, Answered, Resolved, Refreshed, PostAccepted, PostRejected,
   PostFails, MarketKnown, AllowanceRead, Sending, ApprovalEnds, Tell, StepFails, Caching,
   Chain, cacheVars

\* One step per action; the cache has been dealt with.
LEMMA OrderNext ==
  ASSUME IInv, NEW o \in Orders,
         \/ Place(o) \/ Resolved(o) \/ Refreshed(o) \/ PostAccepted(o) \/ PostRejected(o)
         \/ PostFails(o) \/ MarketKnown(o) \/ AllowanceRead(o) \/ ApprovalEnds(o) \/ Tell(o)
         \/ StepFails(o)
  PROVE  WalletInv' /\ OrderTypeOK' /\ StageInv'
<1> USE DEF Early
<1>1. ticks \in [Orders -> 0..MaxVersion] /\ published \in 0..MaxVersion
  BY VersionsAssumption DEF IInv, OrderTypeOK, CacheInv, CacheTypeOK, Versions
<1>2. clobSees \in BOOLEAN
  BY DEF IInv, OrderTypeOK
<1>3. CASE Place(o)
  <2>1. UNCHANGED <<walletVars, clobSees, accepted>> /\ Go(o, "resolve") /\ stage[o] = "idle"
    BY <1>3 DEF Place
  <2>2. ticks' \in [Orders -> 0..MaxVersion]
    BY <1>1, <1>3 DEF Place
  <2>3. clobSees' \in BOOLEAN
    BY <1>2, <2>1, Zenon
  <2> QED BY <2>1, <2>2, <2>3, OrderStep
<1>4. CASE Resolved(o)
  <2>1. PICK s \in {"post", "refresh", "refused"} : Go(o, s)
    BY <1>4 DEF Resolved
  <2>2. UNCHANGED <<walletVars, ticks, clobSees, accepted>> /\ stage[o] = "resolve"
    BY <1>4 DEF Resolved
  <2>3. clobSees' \in BOOLEAN
    BY <1>2, <2>2, Zenon
  <2> QED BY <1>1, <2>1, <2>2, <2>3, OrderStep
<1>5. CASE Refreshed(o)
  <2>1. PICK s \in {"post", "refused"} : Go(o, s)
    BY <1>5 DEF Refreshed
  <2>2. UNCHANGED <<walletVars, ticks, clobSees, accepted>> /\ stage[o] = "refresh"
    BY <1>5 DEF Refreshed
  <2>3. clobSees' \in BOOLEAN
    BY <1>2, <2>2, Zenon
  <2> QED BY <1>1, <2>1, <2>2, <2>3, OrderStep
<1>6. CASE PostAccepted(o)
  <2>1. UNCHANGED <<walletVars, ticks, clobSees>> /\ stage[o] \in {"post", "repost"}
        /\ Go(o, "placed") /\ accepted' = [accepted EXCEPT ![o] = @ + 1]
    BY <1>6 DEF PostAccepted, Accepts
  <2>2. clobSees' \in BOOLEAN
    BY <1>2, <2>1, Zenon
  <2> QED BY <1>1, <2>1, <2>2, OrderStep
<1>7. CASE PostRejected(o)
  <2>1. UNCHANGED <<walletVars, ticks, clobSees, accepted>> /\ stage[o] = "post"
        /\ Go(o, "market")
    BY <1>7 DEF PostRejected
  <2>2. clobSees' \in BOOLEAN
    BY <1>2, <2>1, Zenon
  <2> QED BY <1>1, <2>1, <2>2, OrderStep
<1>8. CASE PostFails(o)
  <2>1. UNCHANGED <<walletVars, ticks, clobSees>> /\ stage[o] \in {"post", "repost"}
        /\ Go(o, "refused")
        /\ (UNCHANGED accepted \/ accepted' = [accepted EXCEPT ![o] = @ + 1])
    BY <1>8 DEF PostFails, Accepts
  <2>2. clobSees' \in BOOLEAN
    BY <1>2, <2>1, Zenon
  <2> QED BY <1>1, <2>1, <2>2, OrderStep
<1>9. CASE MarketKnown(o)
  <2>1. PICK s \in {"allowance", "refused"} : Go(o, s)
    BY <1>9 DEF MarketKnown
  <2>2. UNCHANGED <<walletVars, ticks, clobSees, accepted>> /\ stage[o] = "market"
    BY <1>9 DEF MarketKnown
  <2>3. clobSees' \in BOOLEAN
    BY <1>2, <2>2, Zenon
  <2> QED BY <1>1, <2>1, <2>2, <2>3, OrderStep
<1>10. CASE AllowanceRead(o)
  <2>1. UNCHANGED <<wallet, nonce, txs, signed, attempt, handle, ticks, clobSees, accepted>>
        /\ stage[o] = "allowance"
    BY <1>10 DEF AllowanceRead
  <2>2. CASE Go(o, "refused") /\ UNCHANGED send
    <3>1. UNCHANGED walletVars
      BY <2>1, <2>2 DEF walletVars
    <3>2. clobSees' \in BOOLEAN
      BY <1>2, <2>1, Zenon
    <3> QED BY <1>1, <2>1, <2>2, <3>1, <3>2, OrderStep
  <2>3. CASE Go(o, "approve") /\ To(o, "nonce")
    BY <2>1, <2>3, Begins
  <2> QED BY <1>10, <2>2, <2>3 DEF AllowanceRead
<1>11. CASE ApprovalEnds(o)
  <2>1. PICK s \in {"tell", "refused"} : Go(o, s) /\ (s = "tell" => send[o] = "confirmed")
    BY <1>11 DEF ApprovalEnds
  <2>2. UNCHANGED <<walletVars, ticks, clobSees, accepted>> /\ stage[o] = "approve"
    BY <1>11 DEF ApprovalEnds
  <2>3. clobSees' \in BOOLEAN
    BY <1>2, <2>2, Zenon
  <2> QED BY <1>1, <2>1, <2>2, <2>3, OrderStep
<1>12. CASE Tell(o)
  <2>1. UNCHANGED <<walletVars, ticks, accepted>> /\ stage[o] = "tell" /\ Go(o, "repost")
    BY <1>12 DEF Tell
  <2>2. clobSees'
    BY <1>12, <2>1 DEF Tell, Approved, IInv, StageInv
  <2>3. clobSees' \in BOOLEAN
    BY <1>12, Zenon DEF Tell, Approved
  <2> QED BY <1>1, <2>1, <2>2, <2>3, OrderStep
<1>13. CASE StepFails(o)
  <2>1. UNCHANGED <<walletVars, ticks, clobSees, accepted>> /\ stage[o] \in {"allowance", "tell"}
        /\ Go(o, "refused")
    BY <1>13 DEF StepFails
  <2>2. clobSees' \in BOOLEAN
    BY <1>2, <2>1, Zenon
  <2> QED BY <1>1, <2>1, <2>2, OrderStep
<1> QED BY <1>3, <1>4, <1>5, <1>6, <1>7, <1>8, <1>9, <1>10, <1>11, <1>12, <1>13

\* A submission under way is not idle, and stays so.
LEMMA SendingKeepsIdle ==
  ASSUME IInv, NEW o \in Senders, SendStep(o)
  PROVE  \A p \in Senders : send[p] = "idle" => send'[p] = "idle"
<1> USE DEF To
<1>1. send[o] # "idle"
  BY DEF SendStep, FetchNonce, Accepted, Replaces, Deferred, Mismatched, Lost, Resume,
     WaitReturns, Submitting
<1>2. PICK s \in {"submit", "sent", "pause", "raised", "resubmit", "nonce", "confirmed"} :
        send' = [send EXCEPT ![o] = s]
  <2>1. CASE FetchNonce(o) BY <2>1 DEF FetchNonce
  <2>2. CASE Accepted(o) BY <2>2 DEF Accepted
  <2>3. CASE Replaces(o) BY <2>3 DEF Replaces
  <2>4. CASE Deferred(o) BY <2>4 DEF Deferred, TryAgain
  <2>5. CASE Mismatched(o) BY <2>5 DEF Mismatched, TryAgain
  <2>6. CASE Lost(o) BY <2>6 DEF Lost
  <2>7. CASE Resume(o) BY <2>7 DEF Resume
  <2>8. CASE WaitReturns(o) BY <2>8 DEF WaitReturns
  <2> QED BY <2>1, <2>2, <2>3, <2>4, <2>5, <2>6, <2>7, <2>8 DEF SendStep
<1> QED BY <1>1, <1>2 DEF IInv, WalletInv, WalletTypeOK

\* Every step of the system keeps the invariant.
LEMMA NextIInv == IInv /\ [Next]_vars => IInv'
<1> SUFFICES ASSUME IInv, [Next]_vars PROVE IInv'
  OBVIOUS
<1>1. CASE UNCHANGED vars
  <2>1. UNCHANGED cacheVars /\ UNCHANGED walletVars /\ UNCHANGED orderVars
    BY <1>1 DEF vars
  <2>2. CacheInv'
    BY <2>1, CacheNextInv DEF CacheNext, IInv
  <2> QED BY <2>1, <2>2, CacheOnly DEF IInv
<1>2. CASE Next
  <2>1. CacheInv'
    BY <1>2, NextIsCacheNext, CacheNextInv DEF IInv
  <2>2. WalletInv' /\ OrderTypeOK' /\ StageInv'
    <3>1. ASSUME NEW o \in Orders, Answered(o)
          PROVE  WalletInv' /\ OrderTypeOK' /\ StageInv'
      BY <3>1, CacheOnly DEF Answered
    <3>2. CASE Caching
      BY <3>2, CacheOnly DEF Caching
    <3>3. ASSUME NEW o \in Orders, Sending(o)
          PROVE  WalletInv' /\ OrderTypeOK' /\ StageInv'
      <4>1. WalletInv' /\ ExecutedStays
        BY <3>3, SendStepInv, SendersAssumption DEF Sending, IInv
      <4>2. \A p \in Orders : send[p] = "idle" => send'[p] = "idle"
        BY <3>3, SendingKeepsIdle, SendersAssumption DEF Sending
      <4> QED BY <3>3, <4>1, <4>2, WalletOnly DEF Sending
    <3>4. CASE Chain
      <4>1. WalletInv' /\ ExecutedStays
        BY <3>4, ExecuteInv DEF Chain, IInv
      <4>2. UNCHANGED send
        BY <3>4 DEF Chain, Execute
      <4> QED BY <3>4, <4>1, <4>2, WalletOnly DEF Chain
    <3> QED BY <1>2, <3>1, <3>2, <3>3, <3>4, OrderNext DEF Next
  <2> QED BY <2>1, <2>2 DEF IInv
<1> QED BY <1>1, <1>2

\* The invariant holds of every state.
LEMMA Inductive == Spec => []IInv
<1> QED BY InitIInv, NextIInv, PTL DEF Spec

-----------------------------------------------------------------------------
(* The theorems.                                                            *)

\* The variables stay in their types: an order is accepted once at most, and
\* the attempts of a submission within their bound.
THEOREM TypeCorrect == Spec => []TypeOK
<1>1. IInv => TypeOK
  BY DEF IInv, CacheInv, WalletInv, OrderTypeOK, TypeOK
<1> QED BY <1>1, Inductive, PTL

\* An order has at most one approval the relayer or the node has taken and may
\* execute, whatever is retried, refused, lost or timed out on the way.
THEOREM ApprovedOnce == Spec => []ApprovedAtMostOnce
<1>1. IInv => ApprovedAtMostOnce
  <2> SUFFICES ASSUME IInv, NEW o \in Orders
               PROVE  Cardinality({x \in txs : x.of = o /\ x.state # "replaced"}) <= 1
    BY DEF ApprovedAtMostOnce
  <2> DEFINE S == {x \in txs : x.of = o /\ x.state # "replaced"}
  <2>1. \A x, y \in S : x = y
    BY DEF IInv, WalletInv, OneEach
  <2>2. CASE S = {}
    <3>1. Cardinality(S) = 0
      BY <2>2, FS_EmptySet
    <3> QED BY <3>1
  <2>3. CASE S # {}
    <3>1. PICK x : x \in S
      BY <2>3
    <3>2. S = {x}
      BY <2>1, <3>1
    <3>3. Cardinality(S) = 1
      <4> HIDE DEF S
      <4> QED BY <3>2, FS_Singleton
    <3> QED BY <3>3
  <2> QED BY <2>2, <2>3
<1> QED BY <1>1, Inductive, PTL

\* When an order is posted for the second time its own approval has been
\* executed and the CLOB has seen it.
THEOREM RepostAfterApproval == Spec => []RepostFollowsApproval
<1>1. IInv => RepostFollowsApproval
  BY DEF IInv, StageInv, RepostFollowsApproval
<1> QED BY <1>1, Inductive, PTL

\* What the cache holds is the newest version it has ever held, although
\* discards empty it in between: no answer to an older load is stored late.
THEOREM MetadataMonotone == Spec => []MetadataNeverOlder
<1>1. IInv => MetadataNeverOlder
  BY DEF IInv, CacheInv, SingleFlight
<1> QED BY <1>1, Inductive, PTL

===============================================================================
