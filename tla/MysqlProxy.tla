----------------------------- MODULE MysqlProxy -----------------------------
(***************************************************************************)
(* The mysql proxy (src/service/mysqlproxy): a pool of connections, single *)
(* queries and transactions on them.  query_on_slot yields once, for the   *)
(* answer of the server; what is between two yields is one action.         *)
(*                                                                         *)
(* The callers are the transactions of the agents (storage_mail in         *)
(* agent/mail.lua and the friend requests have this shape): begin, a few   *)
(* statements, each followed by rollback if it fails, then commit, and     *)
(* rollback if that fails.  A caller in Singles makes one query instead.   *)
(*                                                                         *)
(* Environment: the server executes a statement and answers, refuses it,   *)
(* or the connection breaks before or after the execution.  It may also be *)
(* closed between two statements (Drop): then the socket channel connects  *)
(* again by itself at the next statement (Reopen), and neither the proxy   *)
(* nor its caller learns of it.  A connection that is lost takes its open  *)
(* transaction with it; a new one starts without.                          *)
(***************************************************************************)
EXTENDS Integers, FiniteSets

CONSTANTS Slots,      \* pool, of pool_size connections
          Clients,    \* callers, each with one transaction or query
          Singles,    \* the callers of query
          TxLen       \* statements in a transaction

ASSUME ProxyAssumption == Singles \subseteq Clients /\ TxLen \in Nat \ {0}

NoSlot == "none"

ASSUME NoSlotAssumption == NoSlot \notin Slots

VARIABLES
    state,    \* state[s]: slot.state
    txs,      \* txs[c]: the slot recorded for the transaction of c
    link,     \* link[s]: the connection works, was lost, or slot.db was disconnected
    open,     \* the slots whose connection has an open transaction
    written,  \* written[s]: the statements of that transaction executed so far
    db,       \* the statements whose effects are committed, as <<caller, number>>
    pc,       \* pc[c]: the request of c that is under way
    slot,     \* slot[c]: the slot it runs on
    done,     \* done[c]: the statements of c that were answered without an error
    told,     \* told[c]: the outcome c has seen
    slipped   \* history: the callers in whose transaction the channel connected again

connection == <<link, open, written, db>>
vars == <<state, txs, connection, pc, slot, done, told, slipped>>

Statements(c) == {c} \X (1..TxLen)
-----------------------------------------------------------------------------
(* The server, on the connection of slot s, for a statement of the kind st:  *)
(* "start", "commit", "rollback" or the writes in W ("write").                *)

Executed(s, st, W) ==
    /\ open' = CASE st = "start" -> open \cup {s}
                 [] st \in {"commit", "rollback"} -> open \ {s}
                 [] st = "write" -> open
    /\ written' = [written EXCEPT ![s] =
          IF st = "write" /\ s \in open THEN @ \cup W ELSE IF st = "write" THEN @ ELSE {}]
    /\ db' = CASE st = "commit" -> db \cup written[s]
               [] st = "write" /\ s \notin open -> db \cup W
               [] OTHER -> db

\* Executed and answered, or refused.
Answered(s, st, W) == link[s] = "up" /\ Executed(s, st, W) /\ UNCHANGED link

Refused(s) == link[s] = "up" /\ UNCHANGED connection

\* query_on_slot caught an error: slot.db is disconnected, and replaced unless
\* connecting fails.  A commit, or a statement outside a transaction, may have been
\* executed all the same.
Reconnected(s, st, W) ==
    /\ open' = open \ {s}
    /\ written' = [written EXCEPT ![s] = {}]
    /\ link' \in {[link EXCEPT ![s] = "up"], [link EXCEPT ![s] = "closed"]}
    /\ \/ db' = db
       \/ link[s] = "up" /\ st = "commit" /\ db' = db \cup written[s]
       \/ link[s] = "up" /\ st = "write" /\ s \notin open /\ db' = db \cup W

Failed(s, st, W) == Refused(s) \/ Reconnected(s, st, W)
-----------------------------------------------------------------------------
Init ==
    /\ state = [s \in Slots |-> "FREE"]
    /\ txs = [c \in Clients |-> NoSlot]
    /\ link = [s \in Slots |-> "up"] /\ open = {} /\ written = [s \in Slots |-> {}]
    /\ db = {}
    /\ pc = [c \in Clients |-> "call"]
    /\ slot = [c \in Clients |-> NoSlot]
    /\ done = [c \in Clients |-> 0]
    /\ told = [c \in Clients |-> "nothing"]
    /\ slipped = {}

\* The server, or the network, closes a connection on which no statement is under way.
Drop(s) ==
    /\ link[s] = "up"
    /\ link' = [link EXCEPT ![s] = "lost"]
    /\ open' = open \ {s}
    /\ written' = [written EXCEPT ![s] = {}]
    /\ UNCHANGED <<state, txs, db, pc, slot, done, told, slipped>>

\* c has called slot.db.query for a statement of its transaction.
InTx(c) == pc[c] = "committing" \/ (pc[c] = "tx" /\ done[c] < TxLen)

\* block_connect at the next statement: the channel finds its connection closed and
\* opens another one, unless it was disconnected.  The statement goes out on that.
Reopen(c) ==
    /\ pc[c] \in {"single", "start", "rolling"} \/ InTx(c)
    /\ link[slot[c]] = "lost"
    /\ link' = [link EXCEPT ![slot[c]] = "up"]
    /\ slipped' = IF InTx(c) THEN slipped \cup {c} ELSE slipped
    /\ UNCHANGED <<state, txs, open, written, db, pc, slot, done, told>>

\* acquire_slot: the first free slot of the round; a full pool is polled again.
Acquire(c, s) ==
    /\ pc[c] = "call"
    /\ state[s] = "FREE"
    /\ state' = [state EXCEPT ![s] = IF c \in Singles THEN "NORMAL" ELSE "TX"]
    /\ slot' = [slot EXCEPT ![c] = s]
    /\ pc' = [pc EXCEPT ![c] = IF c \in Singles THEN "single" ELSE "start"]
    /\ UNCHANGED <<txs, connection, done, told, slipped>>

\* variant: the connection is not given back.
Keep(s) == UNCHANGED state

\* release_slot
Release(s) == state' = [state EXCEPT ![s] = "FREE"]

\* s.resp.query after the answer.
SingleDone(c) ==
    /\ pc[c] = "single"
    /\ \/ Answered(slot[c], "write", Statements(c)) /\ told' = [told EXCEPT ![c] = "ok"]
       \/ Failed(slot[c], "write", Statements(c)) /\ told' = [told EXCEPT ![c] = "failed"]
    /\ Release(slot[c])
    /\ pc' = [pc EXCEPT ![c] = "done"]
    /\ UNCHANGED <<txs, slot, done, slipped>>

\* s.resp.begin after the answer to START TRANSACTION.
Begun(c) ==
    /\ pc[c] = "start"
    /\ \/ /\ Answered(slot[c], "start", {})
          /\ txs' = [txs EXCEPT ![c] = slot[c]]
          /\ pc' = [pc EXCEPT ![c] = "tx"]
          /\ UNCHANGED <<state, told>>
       \/ /\ Failed(slot[c], "start", {})
          /\ Release(slot[c])
          /\ pc' = [pc EXCEPT ![c] = "done"]
          /\ told' = [told EXCEPT ![c] = "failed"]
          /\ UNCHANGED txs
    /\ UNCHANGED <<slot, done, slipped>>

\* variant: the error of a statement is not noticed.
QueryTxUnchecked(c) ==
    /\ pc[c] = "tx" /\ done[c] < TxLen
    /\ LET W == {<<c, done[c] + 1>>} IN
       Answered(txs[c], "write", W) \/ Failed(txs[c], "write", W)
    /\ done' = [done EXCEPT ![c] = @ + 1]
    /\ UNCHANGED <<state, txs, pc, slot, told, slipped>>

\* s.resp.query_tx after the answer, and what the caller does next.
QueryTx(c) ==
    /\ pc[c] = "tx" /\ done[c] < TxLen
    /\ LET W == {<<c, done[c] + 1>>} IN
       \/ Answered(txs[c], "write", W) /\ done' = [done EXCEPT ![c] = @ + 1] /\ UNCHANGED pc
       \/ Failed(txs[c], "write", W) /\ pc' = [pc EXCEPT ![c] = "rollback"] /\ UNCHANGED done
    /\ UNCHANGED <<state, txs, slot, told, slipped>>

\* finish_tx, up to the query: the record of the transaction is deleted first.
Commit(c) ==
    /\ pc[c] = "tx" /\ done[c] = TxLen
    /\ txs' = [txs EXCEPT ![c] = NoSlot]
    /\ pc' = [pc EXCEPT ![c] = "committing"]
    /\ UNCHANGED <<state, connection, slot, done, told, slipped>>

Rollback(c) ==
    /\ pc[c] = "rollback"
    /\ IF txs[c] = NoSlot
         THEN pc' = [pc EXCEPT ![c] = "done"] /\ told' = [told EXCEPT ![c] = "failed"]
         ELSE pc' = [pc EXCEPT ![c] = "rolling"] /\ UNCHANGED told
    /\ txs' = [txs EXCEPT ![c] = NoSlot]
    /\ UNCHANGED <<state, connection, slot, done, slipped>>

\* finish_tx after the answer.  The server ends the transaction if it answers; a
\* refused COMMIT or ROLLBACK has ended it too.
Committed(c) ==
    /\ pc[c] = "committing"
    /\ \/ /\ Answered(slot[c], "commit", {})
          /\ pc' = [pc EXCEPT ![c] = "done"] /\ told' = [told EXCEPT ![c] = "ok"]
       \/ /\ Answered(slot[c], "rollback", {}) \/ Reconnected(slot[c], "commit", {})
          /\ pc' = [pc EXCEPT ![c] = "rollback"] /\ UNCHANGED told
    /\ Release(slot[c])
    /\ UNCHANGED <<txs, slot, done, slipped>>

RolledBack(c) ==
    /\ pc[c] = "rolling"
    /\ Answered(slot[c], "rollback", {}) \/ Reconnected(slot[c], "rollback", {})
    /\ pc' = [pc EXCEPT ![c] = "done"] /\ told' = [told EXCEPT ![c] = "failed"]
    /\ Release(slot[c])
    /\ UNCHANGED <<txs, slot, done, slipped>>
-----------------------------------------------------------------------------
Get(c) == \E s \in Slots : Acquire(c, s)

Step(c) == \/ SingleDone(c) \/ Begun(c) \/ QueryTx(c)
           \/ Commit(c) \/ Rollback(c) \/ Committed(c) \/ RolledBack(c)

Next == (\E c \in Clients : Get(c) \/ Reopen(c) \/ Step(c)) \/ \E s \in Slots : Drop(s)

Spec == Init /\ [][Next]_vars

\* A statement is answered or raises an error, callers go on, and polling finds a
\* free slot in the end (each caller needs one only once, so it is there for good).
FairSpec == Spec /\ \A c \in Clients : WF_vars(Step(c)) /\ WF_vars(Get(c))
-----------------------------------------------------------------------------
(* Properties. *)

Busy(c) == \/ pc[c] \in {"single", "start", "tx", "committing", "rolling"}
              \/ (pc[c] = "rollback" /\ txs[c] # NoSlot)

TypeOK ==
    /\ state \in [Slots -> {"FREE", "NORMAL", "TX"}]
    /\ txs \in [Clients -> Slots \cup {NoSlot}]
    /\ link \in [Slots -> {"up", "lost", "closed"}] /\ open \subseteq Slots
    /\ written \in [Slots -> SUBSET (Clients \X (1..TxLen))]
    /\ db \subseteq Clients \X (1..TxLen)
    /\ pc \in [Clients -> {"call", "single", "start", "tx", "rollback", "committing",
                           "rolling", "done"}]
    /\ slot \in [Clients -> Slots \cup {NoSlot}]
    /\ \A c \in Clients : Busy(c) => slot[c] \in Slots
    /\ done \in [Clients -> 0..TxLen]
    /\ told \in [Clients -> {"nothing", "ok", "failed"}]
    /\ slipped \subseteq Clients \ Singles

\* A connection serves one caller at a time: the statements of two transactions are
\* never mixed on one connection, whatever breaks and whoever waits for a slot.
OneUser ==
    \A c, d \in Clients : Busy(c) /\ Busy(d) /\ slot[c] = slot[d] => c = d

\* A connection that is handed out again has no transaction left open: a single query
\* would otherwise be lost with it, after its caller was told of success.
FreeIsClean == \A s \in Slots : state[s] = "FREE" => s \notin open /\ written[s] = {}

\* A failed statement reconnects in the middle of a transaction; the rest of it never
\* runs outside one: its effects are in the database together or not at all, unless the
\* channel connected again by itself in the middle of this very transaction.
AllOrNothing ==
    \A c \in Clients \ slipped : Statements(c) \subseteq db \/ Statements(c) \cap db = {}

\* The pool implements transactions: a caller told of success finds its whole effect
\* in the database, and one told of failure sees none appear later.  Only a transaction
\* in the middle of which the channel connected again is worse off.
InDb(c) == CASE Statements(c) \subseteq db -> "all"
               [] Statements(c) \cap db = {} -> "none"
               [] OTHER -> "part"
Abstract == INSTANCE AtomicTx WITH effect <- [c \in Clients |-> InDb(c)]
ImplementsAtomicTx == Abstract!Spec

\* query_tx is to go on with the connection that began the transaction, and a lost
\* connection to raise an error (the comments at lines 151 and 53): a statement or a
\* commit that is answered ok was executed in the open transaction.
TxContinued ==
    [][\A c \in Clients \ Singles :
          done'[c] # done[c] \/ (told'[c] = "ok" /\ told[c] # "ok") => slot[c] \in open]_vars

\* No slot is lost: every caller gets one and its outcome.
EveryoneServed == \A c \in Clients : <>(pc[c] = "done" /\ told[c] # "nothing")
=============================================================================
