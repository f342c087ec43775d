------------------------------- MODULE Friend -------------------------------
(***************************************************************************)
(* Friends: the friend table, the agents' copies of it, and the requests   *)
(* friend_add, friend_accept, friend_reject and friend_delete.  A request  *)
(* is a coroutine of its player's agent; a player may have several.  Each  *)
(* piece of a request up to its next call is one action, and so is each    *)
(* statement of the database that another request can get in front of.     *)
(*                                                                         *)
(* The database locks what a transaction selects for update until the      *)
(* transaction ends; a single delete waits for such rows.  Any statement   *)
(* may fail, and what was done may be reported as failed (MysqlProxy).     *)
(*                                                                         *)
(* Assumed: no connection is closed between two statements of one of these *)
(* transactions.  The socket channel would connect again by itself and the *)
(* row locks be gone (MysqlProxy, TxContinued).  And no kick raises an     *)
(* error: a new agent would load while calls of the old one go on          *)
(* (Session, KickAnswered).                                                *)
(***************************************************************************)
EXTENDS Integers, FiniteSets, Sequences

CONSTANTS Players,     \* their ids
          Requests,    \* requests ever made
          MaxFriends,  \* 50
          MaxPending,  \* 20
          Start        \* what the friend table may hold at the start

ASSUME FriendAssumption ==
    /\ Players \subseteq Nat \ {0} /\ IsFiniteSet(Players)
    /\ MaxFriends \in Nat /\ MaxPending \in Nat

\* Friends of each other and one-way applications, within the limits.
ASSUME StartAssumption ==
    /\ Start \subseteq [Players -> [Players -> {"none", "pending", "friend"}]]
    /\ \A t \in Start, p \in Players :
           /\ Cardinality({q \in Players : t[p][q] = "friend"}) <= MaxFriends
           /\ Cardinality({q \in Players : t[p][q] = "pending"}) <= MaxPending
           /\ \A q \in Players : /\ t[p][q] = "friend" => t[q][p] = "friend" /\ p # q
                                 /\ t[p][q] = "pending" => t[q][p] = "none"

VARIABLES
    \* database
    rows,     \* rows[p][q]: what the row (playerid p, friendid q) says, if there is one
    lock,     \* lock[p]: the request that has p's row of role_message, if any
    \* agents
    online,   \* online[p]: "out" also while being kicked; "loading" until confirmed
    friends, pending,  \* s.data.friends, s.data.friends_pending
    pc, req,  \* requests: where they are and what they ask
    notes     \* notes[p][q]: friend_notify messages from p's agent to q's

memVars == <<online, friends, pending>>
vars == <<rows, lock, memVars, pc, req, notes>>

Free == "free"

ASSUME FreeAssumption == Free \notin Requests

NoReq == [kind |-> "none", self |-> 0, target |-> 0]

Reqs == [kind : {"add", "accept", "reject", "delete"}, self : Players, target : Players]

\* first_id, second_id
First(r) == IF req[r].self < req[r].target THEN req[r].self ELSE req[r].target
Second(r) == IF req[r].self < req[r].target THEN req[r].target ELSE req[r].self

Count(p, st) == Cardinality({q \in Players : rows[p][q] = st})
HasRoom(p) == Count(p, "friend") < MaxFriends
Already(p, q) == rows[p][q] = "friend" \/ rows[q][p] = "friend"

Init ==
    /\ rows \in Start
    /\ lock = [p \in Players |-> Free]
    /\ online = [p \in Players |-> "out"]
    /\ friends = [p \in Players |-> {}]
    /\ pending = [p \in Players |-> {}]
    /\ pc = [r \in Requests |-> "idle"]
    /\ req = [r \in Requests |-> NoReq]
    /\ notes = [p \in Players |-> [q \in Players |-> <<>>]]
-----------------------------------------------------------------------------
(* The agent's life. *)

\* friend_init, when the previous agent's calls have ended (call_depth).
Load(p) ==
    /\ online[p] = "out"
    /\ \A r \in Requests : req[r].self = p => pc[r] = "done"
    /\ online' = [online EXCEPT ![p] = "loading"]
    /\ friends' = [friends EXCEPT ![p] = {q \in Players : rows[p][q] = "friend"}]
    /\ pending' = [pending EXCEPT ![p] = {q \in Players : rows[p][q] = "pending"}]
    /\ UNCHANGED <<rows, lock, pc, req, notes>>

\* agentmgr sets GAME: from now on others find the agent.
Confirm(p) ==
    /\ online[p] = "loading"
    /\ online' = [online EXCEPT ![p] = "game"]
    /\ UNCHANGED <<rows, lock, friends, pending, pc, req, notes>>

\* The agent is kicked: messages to it are ignored, its requests go on.
Kick(p) ==
    /\ online[p] = "game"
    /\ online' = [online EXCEPT ![p] = "out"]
    /\ notes' = [q \in Players |-> [notes[q] EXCEPT ![p] = <<>>]]
    /\ friends' = [friends EXCEPT ![p] = {}]
    /\ pending' = [pending EXCEPT ![p] = {}]
    /\ UNCHANGED <<rows, lock, pc, req>>

\* s.resp.friend_notify
FriendNotify(p, q) ==
    /\ notes[p][q] # <<>>
    /\ notes' = [notes EXCEPT ![p][q] = Tail(@)]
    /\ LET cmd == Head(notes[p][q])
           befriended == cmd \in {"friend_added", "friend_accept"} IN
       /\ friends' = [friends EXCEPT ![q] = IF befriended THEN @ \cup {p}
                                            ELSE IF cmd = "friend_delete" THEN @ \ {p} ELSE @]
       /\ pending' = [pending EXCEPT ![q] = IF befriended THEN @ \ {p}
                                            ELSE IF cmd = "friend_add" THEN @ \cup {p} ELSE @]
    /\ UNCHANGED <<rows, lock, online, pc, req>>
-----------------------------------------------------------------------------
(* Requests. *)

\* The handlers up to their first statement; a request that memory refuses does nothing.
Begin(r, kind, p, q) ==
    /\ pc[r] = "idle" /\ online[p] = "game"
    /\ req' = [req EXCEPT ![r] = [kind |-> kind, self |-> p, target |-> q]]
    /\ UNCHANGED <<rows, lock, online, notes>>

FriendAdd(r, p, q) ==
    /\ q # p /\ q \notin friends[p]
    /\ Begin(r, "add", p, q)
    /\ pc' = [pc EXCEPT ![r] = "begin"]
    /\ UNCHANGED <<friends, pending>>

FriendDelete(r, p, q) ==
    /\ q \in friends[p]
    /\ Begin(r, "delete", p, q)
    /\ pc' = [pc EXCEPT ![r] = "delete"]
    /\ friends' = [friends EXCEPT ![p] = @ \ {q}]
    /\ UNCHANGED pending

FriendReject(r, p, q) ==
    /\ q \in pending[p]
    /\ Begin(r, "reject", p, q)
    /\ pc' = [pc EXCEPT ![r] = "delete"]
    /\ pending' = [pending EXCEPT ![p] = @ \ {q}]
    /\ UNCHANGED friends

FriendAccept(r, p, q) ==
    /\ q \in pending[p]
    /\ Begin(r, "accept", p, q)
    /\ pc' = [pc EXCEPT ![r] = "begin"]
    /\ friends' = [friends EXCEPT ![p] = @ \cup {q}]
    /\ pending' = [pending EXCEPT ![p] = @ \ {q}]

\* variants: only the own row is locked; own row first.
LockSelf(r) ==
    /\ pc[r] = "begin" /\ lock[req[r].self] = Free
    /\ lock' = [lock EXCEPT ![req[r].self] = r]
    /\ pc' = [pc EXCEPT ![r] = "both"]
    /\ UNCHANGED <<rows, memVars, req, notes>>

LockSelfFirst(r) ==
    \E step \in {<<"begin", req[r].self, "one">>, <<"one", req[r].target, "both">>} :
        /\ pc[r] = step[1] /\ lock[step[2]] = Free
        /\ lock' = [lock EXCEPT ![step[2]] = r]
        /\ pc' = [pc EXCEPT ![r] = step[3]]
        /\ UNCHANGED <<rows, memVars, req, notes>>

\* select ... from role_message ... for update, twice.
Lock(r) ==
    \E step \in {<<"begin", First(r), "one">>, <<"one", Second(r), "both">>} :
        /\ pc[r] = step[1] /\ lock[step[2]] = Free
        /\ lock' = [lock EXCEPT ![step[2]] = r]
        /\ pc' = [pc EXCEPT ![r] = step[3]]
        /\ UNCHANGED <<rows, memVars, req, notes>>

Unlock(r) == lock' = [p \in Players |-> IF lock[p] = r THEN Free ELSE lock[p]]

\* What the two selects of friend rows decide.
CanAccept(p, q) ==
    ~Already(p, q) /\ rows[p][q] = "pending" /\ HasRoom(p) /\ HasRoom(q)

\* variant: the other's application is not looked for.
CanApplyBlindly(p, q) ==
    /\ rows[q][p] = "none" /\ rows[p][q] # "friend"
    /\ HasRoom(p) /\ HasRoom(q) /\ Count(q, "pending") < MaxPending

CanApply(p, q) ==
    /\ rows[p][q] = "none" /\ rows[q][p] = "none"
    /\ HasRoom(p) /\ HasRoom(q) /\ Count(q, "pending") < MaxPending

\* The selects.  accept_pending_atomic leaves the transaction open for one answer.
Read(r) ==
    LET p == req[r].self  q == req[r].target IN
    /\ pc[r] = "both"
    /\ \/ /\ CanAccept(p, q)
          /\ pc' = [pc EXCEPT ![r] = "accept"] /\ UNCHANGED lock
       \/ /\ req[r].kind = "add" /\ CanApply(p, q)
          /\ pc' = [pc EXCEPT ![r] = "apply"] /\ UNCHANGED lock
       \/ /\ ~CanAccept(p, q) /\ ~(req[r].kind = "add" /\ CanApply(p, q))
          /\ pc' = [pc EXCEPT ![r] = "failed"]
          /\ IF req[r].kind = "accept" /\ rows[p][q] = "pending" /\ Already(p, q)
               THEN UNCHANGED lock ELSE Unlock(r)
    /\ UNCHANGED <<rows, memVars, req, notes>>

\* The statement that writes, and the commit.
Write(r) ==
    LET p == req[r].self  q == req[r].target IN
    /\ \/ /\ pc[r] = "accept"
          /\ rows' = [rows EXCEPT ![p][q] = "friend", ![q][p] = "friend"]
          /\ \E told \in {"accepted", "failed"} : pc' = [pc EXCEPT ![r] = told]
       \/ /\ pc[r] = "apply"
          /\ rows' = [rows EXCEPT ![q][p] = "pending"]
          /\ \E told \in {"applied", "failed"} : pc' = [pc EXCEPT ![r] = told]
    /\ Unlock(r)
    /\ UNCHANGED <<memVars, req, notes>>

\* A statement fails; the transaction, if any, is rolled back.
Fail(r) ==
    /\ pc[r] \in {"begin", "one", "both", "accept", "apply", "delete"}
    /\ pc' = [pc EXCEPT ![r] = "failed"]
    /\ Unlock(r)
    /\ UNCHANGED <<rows, memVars, req, notes>>

\* The row (p, q) is there, and a transaction has selected p's rows for update.
RowLocked(p, q) ==
    /\ rows[p][q] # "none"
    /\ \E r \in Requests : pc[r] \in {"accept", "apply"} /\ p \in {req[r].self, req[r].target}

\* delete_bidirectional and delete_pending: a single statement.
Delete(r) ==
    LET p == req[r].self  q == req[r].target IN
    /\ pc[r] = "delete" /\ ~RowLocked(p, q)
    /\ \/ /\ req[r].kind = "delete" /\ ~RowLocked(q, p)
          /\ rows' = [rows EXCEPT ![p][q] = "none", ![q][p] = "none"]
       \/ /\ req[r].kind = "reject"
          /\ rows' = [rows EXCEPT ![p][q] = "none"]
    /\ \E told \in {"deleted", "failed"} : pc' = [pc EXCEPT ![r] = told]
    /\ UNCHANGED <<lock, memVars, req, notes>>

\* The handlers after the database has answered: memory, and who is to be notified.
Succeed(r) ==
    LET p == req[r].self  q == req[r].target IN
    /\ pc[r] \in {"accepted", "applied", "deleted"}
    /\ IF req[r].kind = "add" /\ pc[r] = "accepted" /\ online[p] = "game"
         THEN /\ friends' = [friends EXCEPT ![p] = @ \cup {q}]
              /\ pending' = [pending EXCEPT ![p] = @ \ {q}]
         ELSE UNCHANGED <<friends, pending>>
    /\ pc' = [pc EXCEPT ![r] =
                 CASE req[r].kind = "reject" -> "done"
                   [] req[r].kind = "add" ->
                          IF pc[r] = "accepted" THEN "friend_added" ELSE "friend_add"
                   [] req[r].kind = "accept" -> "friend_accept"
                   [] req[r].kind = "delete" -> "friend_delete"]
    /\ UNCHANGED <<rows, lock, online, req, notes>>

Undo(r) ==
    LET p == req[r].self  q == req[r].target IN
    /\ pc[r] = "failed"
    /\ pc' = [pc EXCEPT ![r] = "done"]
    /\ IF online[p] = "game"
         THEN /\ friends' = [friends EXCEPT ![p] =
                               IF req[r].kind = "accept" THEN @ \ {q}
                               ELSE IF req[r].kind = "delete" THEN @ \cup {q} ELSE @]
              /\ pending' = [pending EXCEPT ![p] =
                               IF req[r].kind \in {"accept", "reject"} THEN @ \cup {q} ELSE @]
         ELSE UNCHANGED <<friends, pending>>
    /\ UNCHANGED <<rows, lock, online, req, notes>>

Cmds == {"friend_add", "friend_added", "friend_accept", "friend_delete"}

\* notify_if_online: agentmgr names the agent only in GAME.
NotifyIfOnline(r) ==
    LET p == req[r].self  q == req[r].target IN
    /\ pc[r] \in Cmds
    /\ notes' = IF online[q] = "game" THEN [notes EXCEPT ![p][q] = Append(@, pc[r])] ELSE notes
    /\ pc' = [pc EXCEPT ![r] = "done"]
    /\ UNCHANGED <<rows, lock, memVars, req>>
-----------------------------------------------------------------------------
Request(r, p, q) == FriendAdd(r, p, q) \/ FriendDelete(r, p, q)
                    \/ FriendReject(r, p, q) \/ FriendAccept(r, p, q)

Progress(r) == Lock(r) \/ Read(r) \/ Write(r) \/ Delete(r) \/ Succeed(r)
               \/ Undo(r) \/ NotifyIfOnline(r)

Next ==
    \/ \E p \in Players : Load(p) \/ Confirm(p) \/ Kick(p)
    \/ \E p, q \in Players : FriendNotify(p, q)
    \/ \E r \in Requests, p, q \in Players : Request(r, p, q)
    \/ \E r \in Requests : Progress(r) \/ Fail(r)

Spec == Init /\ [][Next]_vars

\* The database and agentmgr answer.  That a statement fails is not counted on, nor that
\* a message arrives or a client does anything.
FairSpec == Spec /\ \A r \in Requests : WF_vars(Progress(r))
-----------------------------------------------------------------------------
(* Properties. *)

TypeOK ==
    /\ rows \in [Players -> [Players -> {"none", "pending", "friend"}]]
    /\ lock \in [Players -> Requests \cup {Free}]
    /\ online \in [Players -> {"out", "loading", "game"}]
    /\ friends \in [Players -> SUBSET Players] /\ pending \in [Players -> SUBSET Players]
    /\ req \in [Requests -> Reqs \cup {NoReq}]
    /\ pc \in [Requests -> {"idle", "begin", "one", "both", "accept", "apply", "delete",
                            "accepted", "applied", "deleted", "failed", "done"} \cup Cmds]
    /\ \A r \in Requests : pc[r] # "idle" => req[r] \in Reqs
    /\ \A p \in Players, r \in Requests : lock[p] = r =>
           /\ pc[r] \in {"one", "both", "accept", "apply"}
           /\ p \in {req[r].self, req[r].target}
    /\ notes \in [Players -> [Players -> Seq(Cmds)]]

\* However requests of several players cross, nobody gets more friends or applications
\* than allowed.
LimitsHold ==
    \A p \in Players : Count(p, "friend") <= MaxFriends /\ Count(p, "pending") <= MaxPending

\* An application stands alone: two players who apply to each other become friends, and a
\* friend does not apply.  (accept_pending_atomic would else return with its transaction
\* open, and with it both players' locks.)
ApplicationsAreOneWay ==
    \A p, q \in Players : rows[p][q] = "pending" => rows[q][p] = "none"

\* Locks taken in the order of ids, and freed on every way out: every request is answered.
EveryRequestAnswered ==
    \A r \in Requests : pc[r] \notin {"idle", "done"} ~> pc[r] = "done"

\* delete_pending: what a reject deletes is an application.
RejectDeletesApplication ==
    [][\A r \in Requests :
          pc[r] = "delete" /\ pc'[r] = "deleted" /\ req[r].kind = "reject"
              => rows[req[r].self][req[r].target] # "friend"]_vars
=============================================================================
