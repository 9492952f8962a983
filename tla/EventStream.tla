----------------------------- MODULE EventStream -----------------------------
(***************************************************************************)
(* What a stream handle promises its consumer, with no queue in it: events  *)
(* in order, each at most once, never one that more than Size newer events  *)
(* have overtaken, and then one outcome for good.                           *)
(***************************************************************************)
EXTENDS Integers

CONSTANT Size   \* how far a consumer may lag behind before it loses events

VARIABLES
  sent,     \* events the stream has accepted so far
  last,     \* the event delivered last
  outcome   \* how the iteration ended: none, stop or error

streamVars == <<sent, last, outcome>>

StreamInit == sent = 0 /\ last = 0 /\ outcome = "none"

Accept ==
  /\ outcome = "none"
  /\ sent' = sent + 1
  /\ UNCHANGED <<last, outcome>>

Deliver ==
  /\ outcome = "none"
  /\ last' \in Int
  /\ last < last' /\ last' <= sent
  /\ sent - last' < Size
  /\ UNCHANGED <<sent, outcome>>

Finish ==
  /\ outcome = "none"
  /\ outcome' \in {"stop", "error"}
  /\ UNCHANGED <<sent, last>>

StreamNext == Accept \/ Deliver \/ Finish

StreamSpec == StreamInit /\ [][StreamNext]_streamVars

=============================================================================
