-------------------------- MODULE MCRealtimeSession --------------------------
(* Two keys; both listeners want the first, one of them the second too.     *)
EXTENDS RealtimeSession

CONSTANTS a, b, one, both

MCWants == (one :> {a}) @@ (both :> {a, b})

=============================================================================
