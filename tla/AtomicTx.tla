------------------------------ MODULE AtomicTx ------------------------------
(***************************************************************************)
(* What the callers of the mysql proxy may rely on: the statements of a    *)
(* transaction take effect together, at one moment, or not at all, and a   *)
(* caller that was told of success can count on them.  The exception is a  *)
(* transaction whose connection was replaced without anybody being told:   *)
(* it may take effect in part, and success says nothing of it.  The others *)
(* do not suffer from it.                                                  *)
(***************************************************************************)
CONSTANT Clients      \* the transactions

VARIABLES effect,     \* effect[c]: how much of c is in the database
          told,       \* told[c]: what the caller of c knows
          slipped     \* the transactions whose connection was silently replaced

vars == <<effect, told, slipped>>

Init == /\ effect = [c \in Clients |-> "none"]
        /\ told = [c \in Clients |-> "nothing"]
        /\ slipped = {}

\* The connection of c is replaced.
Slip(c) == /\ told[c] = "nothing"
           /\ slipped' = slipped \cup {c}
           /\ UNCHANGED <<effect, told>>

\* What a step may make of the effect of c: nothing is ever taken back.
Grown(c) == {effect[c], "all"} \cup
            (IF c \in slipped /\ effect[c] = "none" THEN {"part"} ELSE {})

\* A transaction takes effect while its caller still waits.
Apply(c) == /\ told[c] = "nothing"
            /\ \E e \in Grown(c) : effect' = [effect EXCEPT ![c] = e]
            /\ UNCHANGED <<told, slipped>>

\* The caller learns the outcome, perhaps at that very moment.  Failure is no promise:
\* a commit whose answer was lost is reported as failed.
Tell(c, res) == /\ told[c] = "nothing"
                /\ \E e \in Grown(c) : /\ effect' = [effect EXCEPT ![c] = e]
                                       /\ res = "ok" => e = "all" \/ c \in slipped
                /\ told' = [told EXCEPT ![c] = res]
                /\ UNCHANGED slipped

Next == \E c \in Clients : Slip(c) \/ Apply(c) \/ \E res \in {"ok", "failed"} : Tell(c, res)

Spec == Init /\ [][Next]_vars
=============================================================================
