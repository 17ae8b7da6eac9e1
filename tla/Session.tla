------------------------------ MODULE Session -------------------------------
(***************************************************************************)
(* What a connection promises the two programs at its ends: the broker      *)
(* serves the requests the client asked, each once and in the order asked,  *)
(* and the client is answered in the order served, with at most MaxInFlight *)
(* requests unanswered.  Requests are known by their correlation ids.       *)
(***************************************************************************)
EXTENDS Integers, Sequences

CONSTANTS MaxInFlight, Ids

VARIABLES
  asked,    \* ids of the requests the client has sent
  served,   \* ids of the requests the broker has answered
  answered  \* ids of the responses the client has received

vars == <<asked, served, answered>>

Init == asked = <<>> /\ served = <<>> /\ answered = <<>>

Ask ==
  /\ Len(asked) - Len(answered) < MaxInFlight
  /\ \E id \in Ids : asked' = Append(asked, id)
  /\ UNCHANGED <<served, answered>>

Serve ==
  /\ Len(served) < Len(asked)
  /\ served' = Append(served, asked[Len(served) + 1])
  /\ UNCHANGED <<asked, answered>>

Answer ==
  /\ Len(answered) < Len(served)
  /\ answered' = Append(answered, served[Len(answered) + 1])
  /\ UNCHANGED <<asked, served>>

Next == Ask \/ Serve \/ Answer

Spec == Init /\ [][Next]_vars
=============================================================================
