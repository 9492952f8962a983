----------------------------- MODULE RequestTable -----------------------------
(***************************************************************************)
(* What a caller of PerpsSession._send_request is promised: a request is    *)
(* settled exactly once and without fail, by the server's answer to this    *)
(* very request or by an error.                                             *)
(***************************************************************************)
CONSTANT Requests

VARIABLES
  status,    \* new, open, answered or failed, for each request
  answered   \* requests the server's answer to which has been read

tableVars == <<status, answered>>

Init ==
  /\ status = [r \in Requests |-> "new"]
  /\ answered = {}

Issue(r) ==
  /\ status[r] = "new"
  /\ status' = [status EXCEPT ![r] = "open"]
  /\ UNCHANGED answered

\* Only a request that has been answered may return an answer.
Answer(r) ==
  /\ status[r] = "open"
  /\ status' = [status EXCEPT ![r] = "answered"]
  /\ answered' = answered \cup {r}

Fail(r) ==
  /\ status[r] = "open"
  /\ status' = [status EXCEPT ![r] = "failed"]
  /\ answered' \in {answered, answered \cup {r}}

Refuse(r) ==
  /\ status[r] = "new"
  /\ status' = [status EXCEPT ![r] = "failed"]
  /\ UNCHANGED answered

\* The answer to a request that has already failed comes too late.
LateAnswer(r) ==
  /\ answered' = answered \cup {r}
  /\ UNCHANGED status

\* All the requests a lost connection or a close() leaves behind fail at once.
FailAll(rs) ==
  /\ \A r \in rs : status[r] = "open"
  /\ status' = [r \in Requests |-> IF r \in rs THEN "failed" ELSE status[r]]
  /\ UNCHANGED answered

Next ==
  \/ \E r \in Requests :
       Issue(r) \/ Answer(r) \/ Fail(r) \/ Refuse(r) \/ LateAnswer(r)
  \/ \E rs \in SUBSET Requests : FailAll(rs)

Settled(r) == status[r] \in {"answered", "failed"}

Spec ==
  /\ Init
  /\ [][Next]_tableVars
  /\ \A r \in Requests : (status[r] = "open") ~> Settled(r)

===============================================================================
