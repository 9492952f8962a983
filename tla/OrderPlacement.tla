---------------------------- MODULE OrderPlacement ----------------------------
(***************************************************************************)
(* place_limit_order(): the draft is made from cached market metadata       *)
(* (orders/limit.py), signed and posted; when the CLOB refuses it for lack  *)
(* of allowance, the exchange is approved by a transaction, the CLOB is     *)
(* told, and the same order is posted once more (orders/place.py).  All     *)
(* orders spend the same collateral, so one approval serves them all.       *)
(***************************************************************************)
EXTENDS OrderMetadata, WalletTransactions

ASSUME SendersAssumption == Senders = Orders

VARIABLES
  stage,    \* progress of each order: idle, resolve, refresh, post, market,
            \* allowance, approve, tell, repost, placed or refused
  ticks,    \* the version its price was chosen for
  clobSees, \* the CLOB has seen the approval on the chain
  accepted  \* how often the CLOB has accepted each order

orderVars == <<stage, ticks, clobSees, accepted>>
vars == <<cacheVars, walletVars, orderVars>>

TypeOK ==
  /\ CacheTypeOK
  /\ WalletTypeOK
  /\ stage \in [Orders -> {"idle", "resolve", "refresh", "post", "market", "allowance",
                           "approve", "tell", "repost", "placed", "refused"}]
  /\ ticks \in [Orders -> 0..MaxVersion]
  /\ clobSees \in BOOLEAN
  /\ accepted \in [Orders -> 0..1]

Init ==
  /\ CacheInit
  /\ WalletInit
  /\ stage = [o \in Orders |-> "idle"]
  /\ ticks = [o \in Orders |-> 0]
  /\ clobSees = FALSE
  /\ accepted = [o \in Orders |-> 0]

Approved == \E x \in txs : x.state = "executed"

Go(o, s) == stage' = [stage EXCEPT ![o] = s]

\* The price lies on the grid of the market as it is now.
Place(o) ==
  /\ stage[o] = "idle"
  /\ ticks' = [ticks EXCEPT ![o] = published]
  /\ Ask(o, FALSE)
  /\ Go(o, "resolve")
  /\ UNCHANGED <<walletVars, clobSees, accepted>>

Returns(o) == joined[o] = 0

Usable(o) == value[o] # 0 /\ value[o] \notin Without

\* The draft is built, or the price is off the grid of the version found: it
\* is looked up again, past the cache, once.
Resolved(o) ==
  /\ stage[o] = "resolve"
  /\ Returns(o)
  /\ \/ Usable(o) /\ value[o] = ticks[o] /\ Go(o, "post") /\ UNCHANGED cacheVars
     \/ Usable(o) /\ value[o] # ticks[o] /\ Ask(o, TRUE) /\ Go(o, "refresh")
     \/ ~Usable(o) /\ Go(o, "refused") /\ UNCHANGED cacheVars
  /\ UNCHANGED <<walletVars, ticks, clobSees, accepted>>

Refreshed(o) ==
  /\ stage[o] = "refresh"
  /\ Returns(o)
  /\ Go(o, IF Usable(o) /\ value[o] = ticks[o] THEN "post" ELSE "refused")
  /\ UNCHANGED <<cacheVars, walletVars, ticks, clobSees, accepted>>

\* The CLOB accepts an order it sees the allowance for.
Accepts(o) ==
  /\ clobSees
  /\ accepted' = [accepted EXCEPT ![o] = @ + 1]

PostAccepted(o) ==
  /\ stage[o] \in {"post", "repost"}
  /\ Accepts(o)
  /\ Go(o, "placed")
  /\ UNCHANGED <<cacheVars, walletVars, ticks, clobSees>>

\* "allowance is not enough", the first time.
PostRejected(o) ==
  /\ stage[o] = "post"
  /\ ~clobSees
  /\ Ask(o, FALSE)
  /\ Go(o, "market")
  /\ UNCHANGED <<walletVars, ticks, clobSees, accepted>>

\* Any other refusal, a second rejection, or no answer to a post that may have
\* been accepted.
PostFails(o) ==
  /\ stage[o] \in {"post", "repost"}
  /\ Accepts(o) \/ UNCHANGED accepted
  /\ Go(o, "refused")
  /\ UNCHANGED <<cacheVars, walletVars, ticks, clobSees>>

MarketKnown(o) ==
  /\ stage[o] = "market"
  /\ Returns(o)
  /\ Go(o, IF Usable(o) THEN "allowance" ELSE "refused")
  /\ UNCHANGED <<cacheVars, walletVars, ticks, clobSees, accepted>>

\* An allowance that suffices by now leaves the rejection as it is.
AllowanceRead(o) ==
  /\ stage[o] = "allowance"
  /\ IF clobSees
     THEN Go(o, "refused") /\ UNCHANGED send
     ELSE Go(o, "approve") /\ To(o, "nonce")
  /\ UNCHANGED <<cacheVars, wallet, nonce, txs, signed, attempt, handle, ticks,
                 clobSees, accepted>>

ApprovalEnds(o) ==
  /\ stage[o] = "approve"
  /\ send[o] \in {"confirmed", "raised"}
  /\ Go(o, IF send[o] = "confirmed" THEN "tell" ELSE "refused")
  /\ UNCHANGED <<cacheVars, walletVars, ticks, clobSees, accepted>>

\* _refresh_balance_allowance().
Tell(o) ==
  /\ stage[o] = "tell"
  /\ clobSees' = Approved
  /\ Go(o, "repost")
  /\ UNCHANGED <<cacheVars, walletVars, ticks, accepted>>

\* One of the requests in between fails.
StepFails(o) ==
  /\ stage[o] \in {"allowance", "tell"}
  /\ Go(o, "refused")
  /\ UNCHANGED <<cacheVars, walletVars, ticks, clobSees, accepted>>

Answered(o) == Told(o) /\ UNCHANGED <<walletVars, orderVars>>
Sending(o) == SendStep(o) /\ UNCHANGED <<cacheVars, orderVars>>
Caching == CacheStep /\ UNCHANGED <<walletVars, orderVars>>
Chain == Execute /\ UNCHANGED <<cacheVars, orderVars>>

Next ==
  \/ \E o \in Orders :
       \/ Place(o)
       \/ Answered(o)
       \/ Resolved(o)
       \/ Refreshed(o)
       \/ PostAccepted(o)
       \/ PostRejected(o)
       \/ PostFails(o)
       \/ MarketKnown(o)
       \/ AllowanceRead(o)
       \/ Sending(o)
       \/ ApprovalEnds(o)
       \/ Tell(o)
       \/ StepFails(o)
  \/ Caching
  \/ Chain

Spec == Init /\ [][Next]_vars

-----------------------------------------------------------------------------
(* Properties.                                                              *)

\* The cache never goes back to an older version than it has held, not even
\* after a discard emptied it, whatever loads, refreshes, discards and close()
\* overlap: the answer to an old load does not arrive late.
MetadataNeverOlder == cached # 0 => cached = newest

\* Whatever is retried, refused, lost or timed out, at most one approval of an
\* order is taken by the relayer or the node and may be executed.
ApprovedAtMostOnce ==
  \A o \in Orders :
    Cardinality({x \in txs : x.of = o /\ x.state # "replaced"}) <= 1

\* An order is posted again only after its own approval has been executed and
\* the CLOB has seen it: the second post does not fail like the first.
RepostFollowsApproval ==
  \A o \in Orders : stage[o] = "repost" =>
    clobSees /\ \E x \in txs : x.of = o /\ x.state = "executed"

=============================================================================
