-------------------------- MODULE WalletTransactions --------------------------
(***************************************************************************)
(* One transaction per order through the relayer (_internal/actions/relayer *)
(* gasless.py, submit.py and poll.py) or straight from an EOA               *)
(* (_internal/eoa/broadcast.py): nonce, signature, submission with retries, *)
(* and the wait for its outcome.  The relayer takes one transaction of a    *)
(* wallet at a time; a node takes them in the order of their nonces.  Both, *)
(* and the chain, are modelled from what the code expects of them.          *)
(***************************************************************************)
EXTENDS Naturals, FiniteSets

CONSTANTS
  Senders,     \* the tasks that send a transaction
  MaxAttempts  \* GASLESS_SUBMIT_RETRY_ATTEMPTS + 1

ASSUME AttemptsAssumption == MaxAttempts \in Nat \ {0}

VARIABLES
  wallet,  \* EOA, DEPOSIT_WALLET or another smart wallet (GNOSIS_SAFE)
  nonce,   \* transactions of the wallet the chain has executed
  txs,     \* transactions the relayer or the node has taken
  send,    \* each order's: idle, nonce, submit, resubmit, pause, sent,
           \* confirmed or raised
  signed,  \* the nonce it has signed for
  attempt,
  handle   \* the transaction its handle waits for, as a set

walletVars == <<wallet, nonce, txs, send, signed, attempt, handle>>

Txs == [of : Senders, try : 1..MaxAttempts, nonce : Nat,
        state : {"pending", "executed", "failed", "replaced"}]

WalletTypeOK ==
  /\ wallet \in {"EOA", "DEPOSIT_WALLET", "GNOSIS_SAFE"}
  /\ nonce \in Nat
  /\ txs \subseteq Txs
  /\ send \in [Senders -> {"idle", "nonce", "submit", "resubmit", "pause", "sent",
                          "confirmed", "raised"}]
  /\ signed \in [Senders -> Nat]
  /\ attempt \in [Senders -> 1..MaxAttempts]
  /\ handle \in [Senders -> SUBSET [of : Senders, try : 1..MaxAttempts]]

WalletInit ==
  /\ wallet \in {"EOA", "DEPOSIT_WALLET", "GNOSIS_SAFE"}
  /\ nonce = 0
  /\ txs = {}
  /\ send = [o \in Senders |-> "idle"]
  /\ signed = [o \in Senders |-> 0]
  /\ attempt = [o \in Senders |-> 1]
  /\ handle = [o \in Senders |-> {}]

Pending == {x \in txs : x.state = "pending"}
Busy == wallet # "EOA" /\ Pending # {}
NextNonce == nonce + (IF wallet = "EOA" THEN Cardinality(Pending) ELSE 0)

To(o, s) == send' = [send EXCEPT ![o] = s]

\* The relayer may answer with a nonce the chain has just left behind.
FetchNonce(o) ==
  /\ send[o] = "nonce"
  /\ \E n \in {NextNonce, nonce - (IF wallet # "EOA" /\ nonce > 0 THEN 1 ELSE 0)} :
       signed' = [signed EXCEPT ![o] = n]
  /\ To(o, "submit")
  /\ UNCHANGED <<wallet, nonce, txs, attempt, handle>>

Submitting(o) == send[o] \in {"submit", "resubmit"}

Tx(o) == [of |-> o, try |-> attempt[o], nonce |-> signed[o], state |-> "pending"]

Takes(o) == signed[o] = NextNonce /\ ~Busy

Accepted(o) ==
  /\ Submitting(o)
  /\ Takes(o)
  /\ txs' = txs \cup {Tx(o)}
  /\ handle' = [handle EXCEPT ![o] = {[of |-> o, try |-> attempt[o]]}]
  /\ To(o, "sent")
  /\ UNCHANGED <<wallet, nonce, signed, attempt>>

\* An EOA transaction may take the place of one with the same nonce.
Replaces(o) ==
  /\ send[o] = "submit"
  /\ wallet = "EOA"
  /\ \E x \in Pending :
       /\ x.nonce = signed[o]
       /\ txs' = (txs \ {x}) \cup {[x EXCEPT !.state = "replaced"], Tx(o)}
  /\ handle' = [handle EXCEPT ![o] = {[of |-> o, try |-> attempt[o]]}]
  /\ To(o, "sent")
  /\ UNCHANGED <<wallet, nonce, signed, attempt>>

\* is_retryable_submit_error(), in the loop of submit_gasless_with_retry().
TryAgain(o) ==
  IF attempt[o] < MaxAttempts
  THEN /\ To(o, "pause")
       /\ attempt' = [attempt EXCEPT ![o] = @ + 1]
  ELSE /\ To(o, "raised")
       /\ UNCHANGED attempt

\* The wallet is busy, or the relayer limits the rate.
Deferred(o) ==
  /\ Submitting(o)
  /\ wallet # "EOA"
  /\ TryAgain(o)
  /\ UNCHANGED <<wallet, nonce, txs, signed, handle>>

\* "batch nonce n does not match on-chain nonce m": a deposit wallet signs for
\* m at once, the first time; otherwise a nonce that is behind is worth a retry.
Mismatched(o) ==
  /\ Submitting(o)
  /\ wallet # "EOA" /\ ~Busy
  /\ signed[o] # nonce
  /\ IF wallet = "DEPOSIT_WALLET" /\ send[o] = "submit"
     THEN /\ To(o, "resubmit")
          /\ signed' = [signed EXCEPT ![o] = nonce]
          /\ UNCHANGED attempt
     ELSE /\ IF signed[o] < nonce THEN TryAgain(o)
                                  ELSE To(o, "raised") /\ UNCHANGED attempt
          /\ UNCHANGED signed
  /\ UNCHANGED <<wallet, nonce, txs, handle>>

\* Mutant: a lost answer is retried like a busy wallet.
LostAndRetried(o) ==
  /\ Submitting(o)
  /\ txs' \in {txs} \cup (IF Takes(o) THEN {txs \cup {Tx(o)}} ELSE {})
  /\ TryAgain(o)
  /\ UNCHANGED <<wallet, nonce, signed, handle>>

\* Any other refusal, or no answer: the transaction may have been taken.
Lost(o) ==
  /\ Submitting(o)
  /\ txs' \in {txs} \cup (IF Takes(o) THEN {txs \cup {Tx(o)}} ELSE {})
  /\ To(o, "raised")
  /\ UNCHANGED <<wallet, nonce, signed, attempt, handle>>

\* A new nonce is fetched for every attempt.
Resume(o) ==
  /\ send[o] = "pause"
  /\ To(o, "nonce")
  /\ UNCHANGED <<wallet, nonce, txs, signed, attempt, handle>>

\* The chain executes the next transaction, which succeeds or reverts.
Execute ==
  \E x \in Pending, outcome \in {"executed", "failed"} :
    /\ x.nonce = nonce
    /\ txs' = (txs \ {x}) \cup {[x EXCEPT !.state = outcome]}
    /\ nonce' = nonce + 1
    /\ UNCHANGED <<wallet, send, signed, attempt, handle>>

Outcome(o) == {x.state : x \in {x \in txs : [of |-> x.of, try |-> x.try] \in handle[o]}}

\* Mutant: the wait ends without a terminal state as if it had succeeded.
WaitGivesUp(o) ==
  /\ send[o] = "sent"
  /\ To(o, "confirmed")
  /\ UNCHANGED <<wallet, nonce, txs, signed, attempt, handle>>

\* wait(): the terminal state, or a time-out after the last poll.
WaitReturns(o) ==
  /\ send[o] = "sent"
  /\ \/ "executed" \in Outcome(o) /\ To(o, "confirmed")
     \/ "executed" \notin Outcome(o) /\ To(o, "raised")
  /\ UNCHANGED <<wallet, nonce, txs, signed, attempt, handle>>

SendStep(o) ==
  \/ FetchNonce(o)
  \/ Accepted(o)
  \/ Replaces(o)
  \/ Deferred(o)
  \/ Mismatched(o)
  \/ Lost(o)
  \/ Resume(o)
  \/ WaitReturns(o)

=============================================================================
