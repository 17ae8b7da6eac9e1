------------------------------ MODULE MCBroker ------------------------------
(***************************************************************************)
(* Broker for model checking: partition p1 exists when the broker starts,   *)
(* p2 is created by the first write to it.                                  *)
(***************************************************************************)
EXTENDS Broker, TLC

CONSTANTS p1, p2, c1, c2

MCParts == {p1, p2}

MCConns == {c1, c2}

MCMaxRequests == (c1 :> 2) @@ (c2 :> 1)

MCKnown == {p1}

MCRequests ==
  {[kind |-> "produce", part |-> p1],
   [kind |-> "produce", part |-> p2],
   [kind |-> "batch", part |-> p2],
   [kind |-> "fetch", part |-> p2, offset |-> 0, max |-> 1],
   [kind |-> "fetch", part |-> p2, offset |-> 0, max |-> 0]}
=============================================================================
