------------------------------- MODULE Actors -------------------------------
(***************************************************************************)
(* What every service of the server counts on: it has one mailbox, serves  *)
(* its messages one at a time in the order they were accepted, and loses   *)
(* none: what it did not serve before it ended goes back to the sender as  *)
(* an error.                                                               *)
(***************************************************************************)
EXTENDS Sequences

CONSTANTS Services, Messages,
          Senders,       \* who sends at one moment one message
          Nil

VARIABLES life,          \* "none", "open", "killed" (takes only what was posted
                         \* before), "closed" (serves no more)
          mailbox,       \* accepted and not yet served
          serving,       \* the message being served, or Nil
          posted         \* what each sender has posted and s will accept

vars == <<life, mailbox, serving, posted>>

NoPost == [to |-> Nil, msg |-> Nil]

\* The error that tells the sender of m that s is gone.
ErrorOf(s, m) == [id |-> m.id, kind |-> "error", src |-> s]

Init == /\ life \in [Services -> {"none", "open"}]
        /\ mailbox = [s \in Services |-> <<>>]
        /\ serving = [s \in Services |-> Nil]
        /\ posted = [t \in Senders |-> NoPost]

Open(s) == /\ life[s] = "none"
           /\ life' = [life EXCEPT ![s] = "open"]
           /\ UNCHANGED <<mailbox, serving, posted>>

Kill(s) == /\ life[s] = "open"
           /\ life' = [life EXCEPT ![s] = "killed"]
           /\ UNCHANGED <<mailbox, serving, posted>>

\* Nothing is being served and nothing is still to be accepted.
Close(s) == /\ life[s] = "killed"
            /\ serving[s] = Nil
            /\ \A t \in Senders : posted[t].to # s
            /\ life' = [life EXCEPT ![s] = "closed"]
            /\ UNCHANGED <<mailbox, serving, posted>>

Post(t, s, m) == /\ posted[t] = NoPost
                 /\ life[s] = "open"
                 /\ posted' = [posted EXCEPT ![t] = [to |-> s, msg |-> m]]
                 /\ UNCHANGED <<life, mailbox, serving>>

Accept(t, s) == /\ posted[t].to = s
                /\ posted' = [posted EXCEPT ![t] = NoPost]
                /\ mailbox' = [mailbox EXCEPT ![s] = Append(@, posted[t].msg)]
                /\ UNCHANGED <<life, serving>>

Begin(s) == /\ life[s] \in {"open", "killed"}
            /\ serving[s] = Nil
            /\ mailbox[s] # <<>>
            /\ serving' = [serving EXCEPT ![s] = Head(mailbox[s])]
            /\ mailbox' = [mailbox EXCEPT ![s] = Tail(@)]
            /\ UNCHANGED <<life, posted>>

End(s) == /\ serving[s] # Nil
          /\ serving' = [serving EXCEPT ![s] = Nil]
          /\ UNCHANGED <<life, mailbox, posted>>

\* A message that was not served: its sender, if it is still open, is told.
Bounce(t, s) ==
    LET m == Head(mailbox[s])
    IN /\ life[s] = "closed"
       /\ mailbox[s] # <<>>
       /\ posted[t] = NoPost
       /\ posted' = IF m.src \in Services /\ life[m.src] = "open"
                    THEN [posted EXCEPT ![t] = [to |-> m.src, msg |-> ErrorOf(s, m)]]
                    ELSE posted
       /\ mailbox' = [mailbox EXCEPT ![s] = Tail(@)]
       /\ UNCHANGED <<life, serving>>

Next == \E s \in Services :
            \/ Open(s) \/ Kill(s) \/ Close(s) \/ Begin(s) \/ End(s)
            \/ \E t \in Senders : \/ Accept(t, s) \/ Bounce(t, s)
                                  \/ \E m \in Messages : Post(t, s, m)

Spec == Init /\ [][Next]_vars
=============================================================================
