------------------------------- MODULE Stream -------------------------------
(***************************************************************************)
(* What the battle gateway and the client count on while a connection      *)
(* lasts: the messages one side sends reach the other whole, in order and  *)
(* once.                                                                   *)
(***************************************************************************)
EXTENDS Naturals, Sequences

CONSTANTS Peers, Messages,
          Other            \* the other side of a peer

VARIABLES sent,            \* what a peer has sent
          got              \* what it has received

vars == <<sent, got>>

Init == sent = [p \in Peers |-> <<>>] /\ got = [p \in Peers |-> <<>>]

Send(p, m) == sent' = [sent EXCEPT ![p] = Append(@, m)] /\ UNCHANGED got

Recv(p) == LET from == sent[Other[p]]
           IN /\ Len(got[p]) < Len(from)
              /\ got' = [got EXCEPT ![p] = Append(@, from[Len(@) + 1])]
              /\ UNCHANGED sent

Next == \E p \in Peers : Recv(p) \/ \E m \in Messages : Send(p, m)

Spec == Init /\ [][Next]_vars
=============================================================================
