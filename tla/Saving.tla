------------------------------- MODULE Saving -------------------------------
(***************************************************************************)
(* How a player's base_info is kept: the agent (src/service/agent/init.lua)*)
(* holds it in memory and writes it to redis, with the player in the dirty *)
(* set; dbsync (src/service/dbsync) carries it from redis to mysql, every  *)
(* five minutes for the dirty players and at once for a kicked one.  The   *)
(* data is its version number.  add_coin, the timer and the kick save      *)
(* independently of each other, and yield at every request.                *)
(*                                                                         *)
(* dbsync has one connection to redis and one to mysql, both answer in the *)
(* order of the requests (socketchannel): what was read first is written   *)
(* first, whether the batch or sync_player read it.  Likewise the SETs of  *)
(* an agent reach redis in the order it made them, so a SET is one step    *)
(* with the change of memory before it.                                    *)
(*                                                                         *)
(* Faults: a request fails, before or after the server executed it; the    *)
(* node of an agent or of dbsync crashes; a cached value expires, which    *)
(* the TTL (an hour) makes impossible while it waits for a batch.  That a  *)
(* player's agent starts after the one before has answered its kick is the *)
(* business of Session.                                                    *)
(*                                                                         *)
(* Left out: the agent of a refused login, which may save what it loaded   *)
(* while the next one lives (agentmgr:94); two saves of add_coin at a time *)
(* (two requests of a client can cause them); the loading of an agent,     *)
(* which is one step as nobody else writes the player's value meanwhile;   *)
(* and a request that is executed after its sender is gone.                *)
(***************************************************************************)
EXTENDS Integers, Sequences, SequencesExt

CONSTANTS Players,
          Away,          \* bound: players who stay out, a crash has left them in the dirty set
          MaxVersion,    \* bound: changes of one player's data
          MaxFaults      \* bound: the failing requests and crashes, an agent's count double

ASSUME SavingAssumption ==
    Away \subseteq Players /\ MaxVersion \in Nat \ {0, 1} /\ MaxFaults \in Nat

None == 0                \* no value in redis; the first version is 1

VARIABLES
    agent,     \* agent[p]: "out", or s.state: "normal", "kicking", "kicked"
    mem,       \* mem[p]: s.data.base_info, None while out
    flag,      \* flag[p]: s.dirty.base_info
    saver,     \* saver[p][k]: where a save of the kind k is, and what it saves
    orphan,    \* orphan[p]: what agents stuck in KICKING with the flag set still hold
    redis,     \* redis[p]: the cached value
    dirty,     \* the set dirty:base_info
    syncing,   \* the set dirty:base_info:syncing
    batch,     \* sync_all_base_info: where it is, whom it still has to read
    pipe,      \* what dbsync has read and sends to mysql
    mysql,     \* mysql[p]: the row of role_message
    newest,    \* history: newest[p] is the last version made
    due,       \* history: due[p] is the version the player may count on
    fallback,  \* history: redis is behind a save that went to mysql in its place, or that
               \*   an agent stuck in KICKING wrote over
    synced,    \* history: sync_player has answered true for p, who is out since
    faults     \* what the faults so far add up to

agentVars == <<agent, mem, flag, saver, orphan>>
stores == <<redis, dirty, syncing, mysql>>
dbsyncVars == <<batch, pipe>>
history == <<due, fallback, synced>>
savingVars == <<agentVars, stores, dbsyncVars, newest, history, faults>>

Kinds == {"coin", "timer", "kick"}
Idle == [pc |-> "idle", v |-> None]
Versions == 1..MaxVersion

Later(a, b) == IF a > b THEN a ELSE b          \* the later of two versions
Fault(cost) == faults + cost <= MaxFaults /\ faults' = faults + cost
Fine == UNCHANGED faults

\* A save, and an update that dbsync sends to mysql.
Saver == [pc : {"idle", "set", "marked", "mysql", "saved", "waiting", "dead"},
          v : Versions \cup {None}]
Update == [p : Players, v : Versions, by : {"batch", "kick", "gone"}]

AgentTypeOK ==
    /\ agent \in [Players -> {"out", "normal", "kicking", "kicked"}]
    /\ mem \in [Players -> Versions \cup {None}]
    /\ flag \in [Players -> BOOLEAN]
    /\ saver \in [Players -> [Kinds -> Saver]]
    /\ orphan \in [Players -> SUBSET Versions]

\* The shape of the data; in particular only values that were read are sent to mysql.
SavingTypeOK ==
    /\ AgentTypeOK
    /\ redis \in [Players -> Versions \cup {None}]
    /\ dirty \subseteq Players /\ syncing \subseteq Players
    /\ batch \in [pc : {"idle", "read", "query", "srem", "rest", "del"},
                  ids : SUBSET Players, of : SUBSET Players]
    /\ pipe \in Seq(Update)
    /\ mysql \in [Players -> Versions]
    /\ newest \in [Players -> Versions]
    /\ due \in [Players -> Versions]
    /\ fallback \in [Players -> BOOLEAN]
    /\ synced \in [Players -> BOOLEAN]
    /\ faults \in 0..MaxFaults

\* The players are registered, mysql has a row.  Those who are away played since.
SavingInit ==
    LET first == [p \in Players |-> IF p \in Away THEN 2 ELSE 1] IN
    /\ agent = [p \in Players |-> "out"]
    /\ mem = [p \in Players |-> None]
    /\ flag = [p \in Players |-> FALSE]
    /\ saver = [p \in Players |-> [k \in Kinds |-> Idle]]
    /\ orphan = [p \in Players |-> {}]
    /\ redis = [p \in Players |-> IF p \in Away THEN 2 ELSE None]
    /\ dirty = Away /\ syncing = {}
    /\ batch = [pc |-> "idle", ids |-> {}, of |-> {}]
    /\ pipe = <<>>
    /\ mysql = [p \in Players |-> 1]
    /\ newest = first
    /\ due = first
    /\ fallback = [p \in Players |-> FALSE]
    /\ synced = [p \in Players |-> FALSE]
    /\ faults = 0

Changed(p) ==
    /\ newest[p] < MaxVersion
    /\ newest' = [newest EXCEPT ![p] = @ + 1]
    /\ mem' = [mem EXCEPT ![p] = newest[p] + 1]
-----------------------------------------------------------------------------
(* The agent. *)

\* init: the value of redis, or the row of mysql, which refills redis.
Login(p) ==
    /\ agent[p] = "out" /\ p \notin Away
    /\ agent' = [agent EXCEPT ![p] = "normal"]
    /\ mem' = [mem EXCEPT ![p] = IF redis[p] # None THEN redis[p] ELSE mysql[p]]
    /\ redis' = [redis EXCEPT ![p] = mem'[p]]
    /\ synced' = [synced EXCEPT ![p] = FALSE]
    /\ UNCHANGED <<flag, saver, orphan, dirty, syncing, mysql, dbsyncVars, newest, due,
                   fallback>> /\ Fine

\* add_exp, add_rank_score, the bag and the rest: a change that only marks.
Change(p) ==
    /\ agent[p] = "normal"
    /\ Changed(p)
    /\ flag' = [flag EXCEPT ![p] = TRUE]
    /\ UNCHANGED <<agent, saver, orphan, stores, dbsyncVars, history>> /\ Fine

\* save_base_data up to the answer to its SET: it was done, or it failed, executed
\* or not, and mysql is tried.  v is the value encoded before the request.
SaveBegin(p, k, v) ==
    \/ /\ saver' = [saver EXCEPT ![p][k] = [pc |-> "set", v |-> v]]
       /\ redis' = [redis EXCEPT ![p] = v]
       /\ Fine /\ UNCHANGED fallback
    \/ /\ saver' = [saver EXCEPT ![p][k] = [pc |-> "mysql", v |-> v]]
       /\ redis' \in {redis, [redis EXCEPT ![p] = v]}
       /\ fallback' = [fallback EXCEPT ![p] = TRUE]
       /\ Fault(2)

AddCoin(p) ==
    /\ agent[p] = "normal" /\ saver[p]["coin"].pc = "idle"
    /\ Changed(p)
    /\ flag' = [flag EXCEPT ![p] = TRUE]
    /\ SaveBegin(p, "coin", newest[p] + 1)
    /\ UNCHANGED <<agent, orphan, dirty, syncing, mysql, dbsyncVars, due, synced>>

\* The save loop; it looks at the flag only.
TimerSave(p) ==
    /\ agent[p] # "out" /\ saver[p]["timer"].pc = "idle" /\ flag[p]
    /\ SaveBegin(p, "timer", mem[p])
    /\ UNCHANGED <<agent, mem, flag, orphan, dirty, syncing, mysql, dbsyncVars, newest,
                   due, synced>>

\* SADD (and EXPIRE before it) is executed.
Mark(p, k) ==
    /\ saver[p][k].pc = "set"
    /\ saver' = [saver EXCEPT ![p][k].pc = "marked"]
    /\ dirty' = dirty \cup {p}
    /\ UNCHANGED <<agent, mem, flag, orphan, redis, syncing, mysql, dbsyncVars, newest,
                   history>>
    /\ Fine

\* The agents in G are no more, as far as others see.
Gone(G) ==
    /\ agent' = [p \in Players |-> IF p \in G THEN "out" ELSE agent[p]]
    /\ mem' = [p \in Players |-> IF p \in G THEN None ELSE mem[p]]
    /\ flag' = [p \in Players |-> p \notin G /\ flag[p]]
    /\ saver' = [p \in Players |-> IF p \in G THEN [k \in Kinds |-> Idle] ELSE saver[p]]

\* The kick's coroutine ended with an error: KICKING for ever.  The caller goes on as
\* if the agent were gone, while its save loop lives.
Stuck(G) ==
    /\ Gone(G)
    /\ orphan' = [p \in Players |->
          IF p \in G /\ flag[p] THEN orphan[p] \cup {mem[p]} ELSE orphan[p]]

\* EXPIRE or SADD fails: an error in the coroutine that saves.
MarkFails(p, k) ==
    /\ saver[p][k].pc = "set"
    /\ dirty' \in {dirty, dirty \cup {p}}
    /\ \/ /\ k = "kick" /\ Stuck({p})
       \/ /\ k # "kick"
          /\ saver' = [saver EXCEPT ![p][k] =
                [Idle EXCEPT !.pc = IF k = "timer" THEN "dead" ELSE "idle"]]
          /\ UNCHANGED <<agent, mem, flag, orphan>>
    /\ UNCHANGED <<redis, syncing, mysql, dbsyncVars, newest, history>> /\ Fault(2)

\* save_base_data returns ok and the flag is set from it.
Saved(p, k, ok) ==
    /\ saver' = [saver EXCEPT ![p][k] =
          IF k = "kick" THEN [@ EXCEPT !.pc = "saved"] ELSE Idle]
    /\ flag' = [flag EXCEPT ![p] = ~ok]

\* History: what was saved through redis is due; it ends what an earlier fallback did.
SaveReturn(p, k) ==
    LET v == saver[p][k].v IN
    /\ saver[p][k].pc = "marked"
    /\ Saved(p, k, TRUE)
    /\ due' = [due EXCEPT ![p] = IF fallback[p] THEN v ELSE Later(@, v)]
    /\ fallback' = [fallback EXCEPT ![p] =
          @ /\ ~ (redis[p] >= v /\ p \in dirty /\ (k = "kick" \/ agent[p] = "normal"))]
    /\ UNCHANGED <<agent, mem, orphan, stores, dbsyncVars, newest, synced>> /\ Fine

\* The UPDATE in its place, which may fail too, executed or not.
Fallback(p, k) ==
    LET v == saver[p][k].v IN
    /\ saver[p][k].pc = "mysql"
    /\ \/ /\ Saved(p, k, TRUE) /\ Fine
          /\ mysql' = [mysql EXCEPT ![p] = v]
          /\ due' = [due EXCEPT ![p] = Later(@, v)]
       \/ /\ Saved(p, k, FALSE) /\ Fault(2)
          /\ mysql' \in {mysql, [mysql EXCEPT ![p] = v]}
          /\ UNCHANGED due
    /\ fallback' = [fallback EXCEPT ![p] = TRUE]
    /\ UNCHANGED <<agent, mem, orphan, redis, dirty, syncing, dbsyncVars, newest, synced>>

Kick(p) ==
    /\ agent[p] = "normal"
    /\ agent' = [agent EXCEPT ![p] = "kicking"]
    /\ UNCHANGED <<mem, flag, saver, orphan, stores, dbsyncVars, newest, history>> /\ Fine

\* call_depth is zero.  The leave that follows yields, in which the timer may start a save.
Settled(p) ==
    /\ saver[p]["coin"].pc = "idle"
    /\ saver[p]["timer"].pc \in {"idle", "dead"} \/ saver[p]["timer"].v = mem[p]

\* variant: only what is marked is saved.
KickSaveMarked(p) ==
    /\ agent[p] = "kicking" /\ saver[p]["kick"].pc = "idle"
    /\ Settled(p)
    /\ IF flag[p] THEN SaveBegin(p, "kick", mem[p])
       ELSE /\ saver' = [saver EXCEPT ![p]["kick"] = [pc |-> "saved", v |-> mem[p]]]
            /\ Fine /\ UNCHANGED <<redis, fallback>>
    /\ UNCHANGED <<agent, mem, flag, orphan, dirty, syncing, mysql, dbsyncVars, newest,
                   due, synced>>

\* Everything is called dirty and saved.
KickSave(p) ==
    /\ agent[p] = "kicking" /\ saver[p]["kick"].pc = "idle"
    /\ Settled(p)
    /\ flag' = [flag EXCEPT ![p] = TRUE]
    /\ SaveBegin(p, "kick", mem[p])
    /\ UNCHANGED <<agent, mem, orphan, dirty, syncing, mysql, dbsyncVars, newest, due, synced>>

\* exit.  What the player had is due.
Exit(p) ==
    /\ agent[p] = "kicked"
    /\ Gone({p})
    /\ due' = [due EXCEPT ![p] = Later(@, mem[p])]
    /\ UNCHANGED <<orphan, stores, dbsyncVars, newest, fallback, synced>> /\ Fine

\* The save loop of an agent that is stuck in KICKING.
OrphanSave(p) ==
    \E v \in orphan[p] :
        /\ orphan' = [orphan EXCEPT ![p] = @ \ {v}]
        /\ redis' = [redis EXCEPT ![p] = v]
        /\ dirty' = dirty \cup {p}
        /\ fallback' = [fallback EXCEPT ![p] = TRUE]
        /\ UNCHANGED <<agent, mem, flag, saver, syncing, mysql, dbsyncVars, newest, due,
                       synced>>
        /\ Fine

\* The node of the agent crashes; dbsync goes on with what it was asked for.
Crash(p) ==
    /\ agent[p] # "out"
    /\ Gone({p})
    /\ pipe' = [i \in DOMAIN pipe |-> IF pipe[i].p = p /\ pipe[i].by = "kick"
                                      THEN [pipe[i] EXCEPT !.by = "gone"] ELSE pipe[i]]
    /\ UNCHANGED <<orphan, stores, batch, newest, history>> /\ Fault(2)
-----------------------------------------------------------------------------
(* dbsync. *)

Sent(p, by) == Append(pipe, [p |-> p, v |-> redis[p], by |-> by])

\* variant: it is not looked whether there is a value.
SyncReadAny(p) ==
    /\ saver[p]["kick"].pc = "saved" /\ agent[p] = "kicking"
    /\ pipe' = Sent(p, "kick")
    /\ saver' = [saver EXCEPT ![p]["kick"].pc = "waiting"]
    /\ UNCHANGED <<agent, mem, flag, orphan, stores, batch, newest, history>> /\ Fine

\* sync_player for a kicked player: sync_player_base_info reads redis.
SyncRead(p) ==
    /\ saver[p]["kick"].pc = "saved" /\ agent[p] = "kicking"
    /\ \/ /\ redis[p] # None
          /\ pipe' = Sent(p, "kick")
          /\ saver' = [saver EXCEPT ![p]["kick"].pc = "waiting"]
          /\ UNCHANGED <<agent, mem, flag, orphan>> /\ Fine
       \/ /\ agent' = [agent EXCEPT ![p] = "kicked"]      \* false, or nil after a failed GET,
          /\ (redis[p] = None /\ Fine) \/ Fault(1)         \* is not looked at
          /\ UNCHANGED <<mem, flag, saver, orphan, pipe>>
    /\ UNCHANGED <<stores, batch, newest, history>>

\* variant: a snapshot that was left is not taken again.
BatchStartFresh ==
    /\ batch.pc = "idle"
    /\ syncing = {} /\ dirty # {} /\ syncing' = dirty /\ dirty' = {}
    /\ batch' = [pc |-> "read", ids |-> syncing', of |-> {}]
    /\ UNCHANGED <<agentVars, redis, mysql, pipe, newest, history>> /\ Fine

\* sync_all_base_info: a snapshot that was left is taken again.
BatchStart ==
    /\ batch.pc = "idle"
    /\ \/ syncing # {} /\ UNCHANGED <<dirty, syncing>>
       \/ syncing = {} /\ dirty # {} /\ syncing' = dirty /\ dirty' = {}
    /\ batch' = [pc |-> "read", ids |-> syncing', of |-> {}]
    /\ UNCHANGED <<agentVars, redis, mysql, pipe, newest, history>> /\ Fine

\* Who comes next is smembers' order.  A value that is not there is passed over,
\* and so is one whose GET fails.
BatchRead(p) ==
    /\ batch.pc = "read" /\ p \in batch.ids
    /\ \/ redis[p] # None /\ pipe' = Sent(p, "batch")
          /\ batch' = [pc |-> "query", ids |-> batch.ids \ {p}, of |-> {p}]
          /\ Fine
       \/ /\ batch' = [batch EXCEPT !.ids = @ \ {p}] /\ UNCHANGED pipe
          /\ (redis[p] = None /\ Fine) \/ Fault(1)
    /\ UNCHANGED <<agentVars, stores, newest, history>>

\* mysql answers the update e: executed, or refused or not answered for one reason or
\* another.  A kicked agent takes any answer.
UpdateAnswered(e, ok) ==
    /\ batch' = IF e.by # "batch" THEN batch
                ELSE [batch EXCEPT !.pc = IF ok THEN "srem" ELSE "read",
                                   !.of = IF ok THEN @ ELSE {}]
    /\ synced' = IF e.by = "kick" /\ ok THEN [synced EXCEPT ![e.p] = TRUE] ELSE synced
    /\ agent' = IF e.by = "kick" THEN [agent EXCEPT ![e.p] = "kicked"] ELSE agent
    /\ UNCHANGED <<mem, flag, saver, orphan>>

WriteOf(i) ==
    /\ pipe' = RemoveAt(pipe, i)
    /\ \/ mysql' = [mysql EXCEPT ![pipe[i].p] = pipe[i].v] /\ UpdateAnswered(pipe[i], TRUE) /\ Fine
       \/ /\ mysql' \in {mysql, [mysql EXCEPT ![pipe[i].p] = pipe[i].v]}
          /\ UpdateAnswered(pipe[i], FALSE) /\ Fault(1)
    /\ UNCHANGED <<redis, dirty, syncing, newest, due, fallback>>

\* variant: several connections, no order.
WriteAny == \E i \in DOMAIN pipe : WriteOf(i)

Write == pipe # <<>> /\ WriteOf(1)

BatchSrem ==
    /\ batch.pc = "srem"
    /\ syncing' = syncing \ batch.of
    /\ batch' = [batch EXCEPT !.pc = "read", !.of = {}]
    /\ UNCHANGED <<agentVars, redis, dirty, mysql, pipe, newest, history>> /\ Fine

\* variant: the snapshot goes first.
BatchDrop ==
    /\ batch.pc = "read" /\ batch.ids = {}
    /\ syncing' = {}
    /\ batch' = [batch EXCEPT !.pc = "del", !.of = syncing]
    /\ UNCHANGED <<agentVars, redis, dirty, mysql, pipe, newest, history>> /\ Fine

\* Whoever could not be written goes back into the dirty set, then the snapshot is
\* deleted.
BatchPutBack ==
    /\ batch.pc = "read" /\ batch.ids = {}
    /\ dirty' = dirty \cup syncing
    /\ batch' = [batch EXCEPT !.pc = "del"]
    /\ UNCHANGED <<agentVars, redis, syncing, mysql, pipe, newest, history>> /\ Fine

BatchDel ==
    /\ batch.pc = "del"
    /\ syncing' = {}
    /\ batch' = [batch EXCEPT !.pc = "idle"]
    /\ UNCHANGED <<agentVars, redis, dirty, mysql, pipe, newest, history>> /\ Fine

\* A redis request of the batch raises: the loop catches it and sleeps again.  The
\* update it waited for, if any, was answered before.
BatchAborts ==
    /\ batch.pc \in {"read", "srem", "del"}
    /\ batch' = [pc |-> "idle", ids |-> {}, of |-> {}]
    /\ UNCHANGED <<agentVars, stores, pipe, newest, history>> /\ Fault(1)

\* The node of dbsync crashes and starts again: the calls of the agents raise.
DbsyncCrash ==
    /\ batch' = [pc |-> "idle", ids |-> {}, of |-> {}]
    /\ pipe' = <<>>
    /\ Stuck({p \in Players : saver[p]["kick"].pc \in {"saved", "waiting"}
                               /\ agent[p] = "kicking"})
    /\ UNCHANGED <<stores, newest, history>> /\ Fault(1)
-----------------------------------------------------------------------------
\* redis forgets what nobody wrote for an hour.  A marked player's value lives until
\* the next batch, unless dbsync is away for that hour.
Expire(p) ==
    /\ redis[p] # None
    /\ \A k \in Kinds : saver[p][k].pc \in {"idle", "dead"}
    /\ \A i \in DOMAIN pipe : pipe[i].p # p
    /\ redis' = [redis EXCEPT ![p] = None]
    /\ \/ p \notin dirty \cup syncing /\ Fine /\ UNCHANGED fallback
       \/ /\ p \in dirty \cup syncing /\ Fault(3)
          /\ fallback' = [fallback EXCEPT ![p] = TRUE]
    /\ UNCHANGED <<agentVars, dirty, syncing, mysql, dbsyncVars, newest, due, synced>>

AgentStep(p) ==
    \/ \E k \in Kinds : Mark(p, k) \/ SaveReturn(p, k) \/ Fallback(p, k)
    \/ TimerSave(p) \/ KickSave(p) \/ SyncRead(p)

BatchStep == BatchStart \/ BatchSrem \/ BatchPutBack \/ BatchDel

SavingNext ==
    \/ \E p \in Players :
          \/ Login(p) \/ Change(p) \/ AddCoin(p) \/ AgentStep(p)
          \/ \E k \in Kinds : MarkFails(p, k)
          \/ Kick(p) \/ Exit(p) \/ OrphanSave(p) \/ Crash(p) \/ BatchRead(p) \/ Expire(p)
    \/ BatchStep \/ Write \/ BatchAborts \/ DbsyncCrash

SavingSpec == SavingInit /\ [][SavingNext]_savingVars

\* dbsync's loop never ends, and redis and mysql answer.
Fairness == /\ WF_savingVars(BatchStep) /\ WF_savingVars(Write)
            /\ WF_savingVars(\E p \in Players : BatchRead(p))

SavingFairSpec == SavingSpec /\ Fairness
-----------------------------------------------------------------------------
\* A save that was reported as done (the flag is cleared for it, agent/init.lua:244, 474)
\* is not lost: it is in mysql, or in redis with the player in one of the two sets that
\* the batch works off, through every step of a batch, its errors and dbsync's restarts.
\* After a failed SET, which the fallback answers in mysql alone, nothing is claimed
\* until the player was saved again.
SavedIsKept ==
    \A p \in Players :
        \/ fallback[p]
        \/ mysql[p] >= due[p]
        \/ redis[p] >= due[p] /\ p \in dirty \cup syncing

\* Whoever comes back finds what they had when they left, and what was saved before a
\* crash.  add_coin clears the flag after a save that yielded (agent/init.lua:244), so
\* a change made meanwhile is known to nobody but the memory, until the kick saves
\* whether the flag says so or not (agent/init.lua:501).
LoadsNewest ==
    [][\A p \in Players : agent[p] = "out" /\ agent'[p] # "out" =>
          fallback[p] \/ mem'[p] >= due[p]]_savingVars

\* Once sync_player has brought a kicked player's data to mysql, the batch, which may
\* have read an older value before (dbsync/init.lua:171), does not write that over it.
SyncedStays ==
    \A p \in Players : synced[p] /\ ~ fallback[p] => mysql[p] >= due[p]

\* What was saved reaches mysql, whatever fails on the way; a player whom a batch could
\* not write is in a later one.
ReachesMysql ==
    \A p \in Players : mysql[p] < due[p] ~> mysql[p] >= due[p] \/ fallback[p]
=============================================================================
