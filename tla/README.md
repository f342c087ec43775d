# A TLA+ model of ball-server

`ball-server` is the server of an online "big ball eats small ball" game, written in
Lua on [Skynet](https://github.com/cloudwu/skynet). This directory holds TLA+ modules of
its services, TLC configurations that check them on small instances, and proofs that
TLAPS checks for instances of any size. Every definition is translated from the code: the
services in Lua (`src/service`, `src/lualib`), the kernel of Skynet that runs them and the KCP
protocol of the battles, both in C. `PROJECT.json` names the lines (`map`).

## The system

### How the services run

A service is an actor: one Lua state, one mailbox, one coroutine per message. A coroutine
runs until it *yields* (a `call` to another service, a `sleep`, a redis or mysql command,
a `skynet.queue` lock that is taken), and other messages run in between. `send` does not
yield. Hence the hard part of this code: **what is true before a yield need not be true
after it**. Other facts the models use:

- Messages from one service to another keep their order on one node, and on one cluster
  channel; across nodes and senders there is no order.
- `lualib/service.lua` catches an error of a handler and answers nothing (`nil`): a caller
  cannot tell a failure from an empty answer. A call to another node may raise instead.
- A `skynet.queue` lock is FIFO and reentrant, and hands over at once.

The first and the last half of this is not taken on trust: `Dispatch` models Skynet's kernel
(queues, worker threads, references to contexts) and shows that it gives each service what
`Actors` states: one mailbox, served one message at a time and in order, and errors for what
was not served.

### Components

| part | state | operations | models |
|---|---|---|---|
| **match** `service/match` | `match:player:<id>` keys, a queue per mode and segment, the active segments (all in redis), `alloc_records`, `state_lock` | `join` `cancel` `leave` `shutdown`; the scan: `try_match`, `collect_batch`, `requeue_batch`, `mark_batch_preparing` | `MatchKeys`, `Match` |
| **roommgr** `service/roommgr` | `room_pool`, `refill_running` | `create_room`, `room_closed`; refilling and shrinking | `RoomMgr` |
| **room** `service/room` | `room_state`, the table of players, sessions, two locks, timers | `init_room` `prepare` `leave` `battle_ready` `abort_room` `scene_player_dead` …; start, abort, finish, close | `Room`, `RoomProofs` |
| **mysqlproxy** `service/mysqlproxy` | a pool of connections, transaction ids | `query` `begin` `query_tx` `commit` `rollback`; reconnection | `MysqlProxy`, `AtomicTx`, `StorageProofs` |
| **agentmgr** `service/agentmgr` | one entry per player: status, login version, gate, agent | `reqlogin` `confirm_login` `reqkick` `shutdown`, broadcasts | `Session`, `SessionProofs` |
| **gateway** `service/gateway` | connections, gateplayers, message caches, disconnect timers | sockets, `sure_agent` `kick` `send`, reconnect | `Session` (no caches) |
| **agent** `service/agent` | the player's data, dirty flags, `call_depth` | client requests, `kick`, `exit`, saving | `Session` (life only), `Saving` (base_info) |
| login | SRP sessions by player | `register` `login_first` `login_second` | `Session` (as a caller) |
| **battle_gateway** `service/battle_gateway` | UDP/KCP sessions by `conv`, their states and deadlines | `batch_alloc` `free` `send`, two hand-shakes, time-outs, reconnect | `BattleGateway`, `BattleGatewayProofs` |
| scene | players, cells, spores, pending entries and exits, frames | `batch_add_player` `battle_online` `start_game` `kick_player` `get_weight`, the frame loop | who is in it: in `Room` and `BattleGateway` |
| grid_index, quadtree | spatial indexes | insert, move, remove, query | not modelled |
| **friend** `service/agent/friend.lua` | the friend table in mysql, `friends` and `friends_pending` in memory | `friend_add` `friend_accept` `friend_reject` `friend_delete` `friend_notify` | `Friend`, `FriendProofs` |
| mail, bag, achieve | the player's tables, in memory and in mysql | new, storage and claimed mails; items; achievements | not modelled |
| **dbsync** `service/dbsync` | dirty sets and snapshots of them in redis | batch and single-player write-back to mysql | `Saving` (base_info), `StorageProofs` |
| **Skynet's kernel** `skynet/skynet-src` | handle table, contexts, queues, the global queue, worker, timer and socket threads | send, dispatch, launch, retire, release, sleep and wake-up | `Actors`, `Dispatch`, `DispatchProofs` |
| **KCP** `luaclib_src/lua-kcp` | send and receive queues, windows, acknowledgements | `ikcp_send` `ikcp_recv` `ikcp_input` `ikcp_flush` | `Stream`, `Kcp`, `BattleGatewayProofs` |
| redisproxy, redis_client | – | forwards one command | a command is one atomic step of its caller |
| cron, admin, hotfixmgr, nodemgr, main | – | calendar, debug console, code replacement, start-up | not modelled |

### How they interact

A game, from the lobby to the reward:

1. The agent calls match `join`: the player's key becomes `MATCHING` and it is queued.
2. The scan forms a batch: its keys become `ROOM_ALLOCATING`; match calls roommgr
   `create_room` **without its lock**. roommgr takes an idle room from its pool and calls
   its `init_room`.
3. If nobody left meanwhile, match saves `ROOM_PREPARING` player by player. Otherwise it
   aborts the room and puts the others back into the queue.
4. Agents forward `prepare` to the room. When all have prepared, the room allocates battle
   sessions from battle_gateway and adds the players to its scene.
5. battle_gateway reports `battle_ready` for each; when all are ready the room starts the
   scene and sets the keys to `RUNNING`.
6. The game ends by time, by deaths or by leaves. The room asks the scene for the weights,
   rewards the agents, frees the sessions, deletes the keys and closes.

A session: `login` checks the password, agentmgr `reqlogin` kicks a previous session
(its agent saves, its gateway entry goes) and creates an agent, the gateway's `sure_agent`
binds the connection and confirms. A broken connection leaves the gateplayer and a 300 s
timer; a reconnect with the token takes the gateplayer over.

**Match, room and the scan all write the same redis keys, and only match takes
`state_lock`.** Who may write what, and when, is what `Match` and `Room` are about.

### What is hard

- *Interleavings at yields*: leave during `create_room`; abort between two saves of
  `mark_batch_preparing`; leave, ready, time-outs and scene frames in a room; two logins and
  three kinds of kick of one player.
- *Saving*: three ways to save, a flag cleared after a yield, a batch that reads one store and writes
  the other, and either side ending in the middle.
- *Partial failure*: failed or lost answers of `create_room`, `init_room`, `newservice`,
  `batch_alloc`; a connection lost in the middle of a transaction, or replaced there by the socket channel;
  a kick that raises an error nobody looks at.
- *Stale data*: queue entries without a key, an idle count read before three calls,
  `confirm_login` and the gateway's `kick` without a version, timers of earlier breaks;
  an answer of room about a session that was replaced during the call.
- *Shared memory*: a queue popped by one thread while another pushes and a third drops the
  last reference to its service.
- *The network*: datagrams lost, sent twice, overtaken; a window that closed.
- *Progress*: players stuck in `ROOM_ALLOCATING`, LOGIN or LOGOUT; a refill flag that stays
  up; handlers that wait for each other's locks; slots that leak.

`PROJECT.json` lists each at its line (`hazards`) with the properties that cover it, or why
none does yet.

### What makes each component correct

- **match**: a waiting player can be found; an allocating player belongs to the allocation
  in progress; a hand-over is not disturbed; nobody is handed a room that is not its own;
  every allocation is settled; batches respect the cap.
- **roommgr**: never more idle rooms than wanted; a room handed out is fresh, and
  initialised for that caller; a closed room leaves the pool.
- **room**: a deleted key is not written back; sessions are freed; the game does not go on
  with one player; handlers and games end.
- **mysqlproxy**: a transaction takes effect whole or not at all, unless the socket channel replaced
  its connection silently (a defect, see below); a pooled connection is clean
  and serves one caller; everybody is served.
- **sessions**: unversioned messages hit the session they were meant for; an agent loads
  after its predecessor saved, unless the predecessor's kick raised an error; connection, gateplayer and entry agree; nobody is locked
  out, and nobody stays as a ghost.
- **battle_gateway**: a session that was replaced cannot free or ready the new one; room and
  gateway come to agree on who is there; who is there gets a snapshot of the game; who is
  not is taken out of it.
- **the kernel**: a queue is in one place, a queue with messages is where a worker finds it,
  nobody uses freed memory, what is pushed is served though no push wakes a worker.
- **KCP**: messages arrive whole, in order and once; and they arrive.
- **friend**: limits hold when requests cross, an application stands alone, locks are taken in
  one order and given back, so that every request is answered.
- **saving**: what was saved is in mysql, or in redis and marked; a player who returns finds
  what they left; mysql catches up and is never set back.

## The modules

### Match, MatchKeys, MatchProofs

`MatchKeys` has the record of `match:player:<id>` (`empty_player_state`) and its saving and
clearing. `Match` has one action per handler: `Join`, `Cancel`, `Leave`, `Shutdown`.
Handlers run under `state_lock`, so each is one step, enabled while the scan is outside its
two critical sections (`~Locked`). The scan is cut where it matters: the start of a pass,
one mode, one centre segment (`SkipCenter` purges stale entries and finds too few, `Found`
marks a batch `ROOM_ALLOCATING`), the wait for `create_room`, its outcome (`CreateFailed`,
`AllocCanceled`, `HandOver`) and each save of `mark_batch_preparing`. The environment is
roommgr (`CreateRoom`: created, failed, or created with the answer lost) and the rooms,
which write keys at any time without `state_lock` (`RoomLeave`, `RoomRunning`, `RoomClose`).

A scan asks redis for twice the size of a room from each queue, before it knows which entries are stale; where a
queue is longer (`Long`), `Seen` is what it gets: any stale entries, and of the valid ones those that wait longest.

Abstractions: `age[p]` counts expand intervals instead of milliseconds; a queue is a set
ordered by age, ties in any order; a segment is visited once, where rings clamped at 0 visit
segment 0 again (without effect: its players are already in the batch or in the candidates).

### RoomMgr, RoomMgrProofs

The pool (`pool`, `entry`), the refill coroutines (`RefillCheck`, `NewRoom`, `Prewarmed` and
their failures), the maintenance timer (`Maintain`) and the handlers `create_room`
(`CreateRoom` reserves, `Created`/`InitFails`/`InitAborted` after the room's answer) and
`room_closed`. A failed preparation or `init_room` is followed by a `pcall` of `abort_room`, which may not reach the
room either (`AbortTried`): it lives on outside the pool. The choice of a node is left out.

### Room, RoomProofs

One room, coroutine by coroutine: each action is the code between two yields. The coroutines
are a leave handler per player, the handler that allocates battle sessions, the start, and
the end (abort or finish). Locks are sequences: the holder, then those waiting. The scene
appears with what the room relies on (`pending`, `playing`, `left`; entry at the next
frame), match with its hand-over, and agents and players with their messages.

Left out: kill and survival counters and the reward formula (no control depends on them),
the 100 ms before the service exits, `prewarm`. Each player in `Leavers` sends one leave. Timers are
untimed: an armed timer may fire at any moment. Delays are unbounded; the calls of `kick_player`, all from this room
to its scene, are answered in order (`kicks`). Assumed: redis answers, and the services called live as long as the
room. A handler that fails then answers nil (`AllocFails`, `StartFails`, and `Weigh` for `get_weight`), but the call
does not raise: where it did (`room/init.lua:405`, `:531`), the handler would end there without an abort, and the room
would wait for its timer or a leave.

### MysqlProxy, AtomicTx, StorageProofs

The pool, single queries and transactions. Callers follow the shape of `storage_mail` in
`agent/mail.lua`: begin, statements, rollback at the first failure, commit, rollback when
that fails. The server is the environment: it executes and answers, refuses, or the
connection breaks before or after the execution; then `query_on_slot` reconnects (which may
fail) and reports failure. A connection that breaks loses its open transaction.

A connection may also be closed while no statement runs on it (`Drop`): `autoclose_cb` of the socket channel throws
it away. Nobody is told. The next statement finds no connection, `block_connect` makes a new one (`Reopen`), or fails,
and the statement is executed there. In the middle of a transaction (`InTx`) that is a defect of the code, see
*Disagreements found*; `slipped` remembers the callers it happened to.

`AtomicTx` is what callers rely on: a transaction is applied at one moment while its caller
waits, and success is reported only if it was. A transaction in `slipped` may take effect in part and success means
nothing for it, but no other caller suffers. `ImplementsAtomicTx` says that `MysqlProxy`
does this, with `effect` the part of a transaction's statements that is in the database (`InDb`).

### Session, SessionProofs

agentmgr, gateways and agents, for one player (players share no state here). A login is
named after its connection; that name also stands for its login_version and its agent, both
new for each login. Actions: the pieces of `reqlogin` (`ReqLogin`, `OldKicked`, `OldGone`,
`Created`, `CreateFails`), `confirm_login`, `reqkick` (`ReqKick`, `KickDone`), `shutdown`, the gateway's
`sure_agent`, `kick`, `disconnect` and its timer, `process_reconnect`, the request of a full
message cache, and the agent's `kick`.

Assumed of the environment: messages of agentmgr to one node keep their order, so a kick
sent to a gateway arrives before the agent of a later login is created on that node
(`Reached`); and 300 s are longer than one `confirm_login` call (`TimerFires`). A connection
is used either for one login or for one reconnect. Nodes and the channels between them do not fail, so the gateway's
`kick` and `confirm_login`, whose handlers have nothing that raises, are answered (`OldGone`). The agent's `kick` does
raise when EXPIRE or SADD of its save fails, or the node of dbsync is gone: agentmgr ignores that
(`pcall` at `agentmgr:62` and `:121`) and goes on (`KickAnswered`), while the agent stays in KICKING, unsaved.
`played` and `broken` (the logins whose agent's kick raised) are history variables.

### Friend, FriendProofs

The friend table (`rows[p][q]`: nothing, an application of `q` to `p`, or a friend), the locks on
the rows of `role_message`, the agents' memory, the notifications under way, and the requests. A
request is its handler up to the first statement (`FriendAdd`, `FriendAccept`, `FriendReject`,
`FriendDelete`), the two locks (`Lock`), the selects and what they decide (`Read`), the write with
its commit (`Write`), the single delete (`Delete`), and the handler's end (`Succeed`, `Undo`,
`NotifyIfOnline`). Agents log in (`Load`, `Confirm`) and are kicked (`Kick`) meanwhile.

The database is the environment: `select ... for update` keeps a row from other transactions and
from a single delete until the transaction ends; a statement may fail (`Fail`), and a commit or a
delete that took effect may be reported as failed, as `MysqlProxy` allows. The two selects of
friend rows are one step: they follow the locks, so no other transaction gets between them, and
a delete only makes room. Queries that only read are left out. Assumed: no connection is replaced silently in the
middle of one of these transactions, which would lose its row locks (`TxContinued`), and no kick raises an error, which would
let a new agent load while requests of the old one go on (`KickAnswered`).

### Dispatch, Actors

`Dispatch` is `skynet_mq.c`, `skynet_server.c`, `skynet_handle.c` and `skynet_start.c` at the
granularity of their locks and atomic operations. A worker is a program counter (`pc`) that goes
through `skynet_context_message_dispatch`: take a queue, grab its context (`DispatchGrab`) or
find it gone (`DispatchGone`), pop a message (`PopMessage`, `PopEmpty`), compute the length of the
batch once (`BatchLength`), run the callback, take the next queue before the present one is put back
(`BatchEnds`, `PushBack`), or sleep. Calls that any thread may be in are variables beside it:
`send` (grabbed, not pushed yet), `rel` (`skynet_context_release` in its three parts), `drop`
(`_drop_queue`), `launch` (`skynet_context_new`, whose init function may send, fail or be killed).
A service is its handle, its context and its queue at once: a handle is not given twice.

`Actors` is what the services count on: `life` of a service, its `mailbox`, the one message it is
`serving`, and what is `posted`. `ImplementsActors` maps a queue to a mailbox and the message in a
worker's hands to `serving`; a service is closed when its queue is marked for release.

Left out: names, statistics, the log, the monitor, harbor, SIGHUP, a context without callback (`skynet_server.c:327`), `ABORT` (every handle is retired, one after another).
A callback may do anything (send, launch, kill) any number of times; requests are used once.

### Kcp, Stream

`Kcp` is `ikcp.c` as the gateway configures it (`nodelay` with `nc = 1`: no congestion window):
fragments (`Send`), reassembly (`Recv`, `MoveAvailable`), acknowledgements by `una` and by number
(`Acknowledge`), the receive window, its probe and the answer (`probing`, `tell`), flushing with
retransmission (`Flush`). The network loses, delays and reorders what it likes, and a flush
may send any segment again, which covers time-outs, fast retransmission, and the order of
segments in a datagram. `snd_buf` and `rcv_buf`, lists that the code keeps ordered by serial number, are
sets of segments: the order is that of the numbers. `Stream` is the abstract connection: a message that was
sent is received whole, once and in order (`ImplementsStream`, proved in `BattleGatewayProofs`). Calls that are refused
and change nothing are left out: a buffer too small (-3 of `ikcp_recv`), a message of too many fragments (-2 of `ikcp_send`).

### BattleGateway, BattleGatewayProofs

Sessions by conv with their five states (`WAIT_AUTH`, `WAIT_READY`, `ACTIVE`,
`RECONNECT_WAIT`, `CLOSED`) and what has to agree with them: the seat in the room (`seat`,
`ready`), the player in the scene (`scene`, `online`), and the messages between the three. The
handlers are `Alloc`, `Free`, `Forward`, `Auth`, `Ack` (up to the call of room: the session is ACTIVE
before room knows) and `Answered` (after it); the loop over the sessions is `Expire` and `Lose`. Room
appears with `BattleReady`, `StartRunning`, `Leave`, `FreeSeat`, the scene with `SceneStep` and `Enter`.
Time is left out: a deadline may have passed at any moment. A session belongs to one player in one
room, so everything is indexed by its conv. The notice that a session expired carries no conv
(`battle_gateway:99`, `agent/match.lua:144`): `Noticed` makes a leave of whatever seat the player has by then, that of
the next room too.

### Saving, StorageProofs

base_info of each player, as a version number: in memory (`mem`, with `flag` for `s.dirty`), in redis, in
mysql, and the two sets in redis that dbsync works off (`dirty`, `syncing`). An agent's saves are
`AddCoin`, `TimerSave` and `KickSave`; each yields for its SET (`SaveBegin`), for EXPIRE and SADD (`Mark`), and
sets the flag at its end (`SaveReturn`), or goes to mysql when the SET failed (`Fallback`). The
kick waits for `call_depth` to be zero (`Settled`: a save of the timer may still be under way, with the same value), saves,
asks dbsync (`SyncRead`) and exits. A handler of dbsync that fails answers nil (`service.lua:40-47`), and the kick goes on. dbsync's batch takes a
snapshot (`BatchStart`), and for each player reads, writes and removes (`BatchRead`, `Write`, `BatchSrem`), then puts
back the rest (`BatchPutBack`, `BatchDel`). `pipe` is what it has read and not yet written: one redis and one mysql
connection, each answering in order (`skynet/lualib/skynet/socketchannel.lua`), write in the order in
which they read, the batch and `sync_player` together.

Faults: a request fails, executed or not; the node of an agent or of dbsync ends; a value expires. An
error raised in a kick (EXPIRE, SADD, or the end of dbsync's node) leaves the agent in KICKING for ever (`Stuck`); agentmgr ignores it and
creates the next agent, while the save loop of the old one goes on (`OrphanSave`). History: `due` is the
version a player may count on, `fallback` is true after a failed SET, an orphan's save or an expiry
during an outage, until the player is saved through redis again.

Left out: achievements, bag and mails (the first two are saved and synchronised like base_info, under other
keys); late execution of a request on a connection that was given up or whose sender is gone; two saves of `add_coin` at a time,
which two requests of a client can cause; the agent of a refused login (`agentmgr:94`), which may save what it
loaded over its successor's data.

## What TLC checks

| run | instance | states | shows |
|---|---|---|---|
| `dispatch` | 2 services, 2 requests, 2 workers, the timer thread | 112 387 | the kernel, its refinement of `Actors`, `EverySettled`, `Reclaimed`, `AllStop` |
| `kcp` | one direction, 3 messages of 2, 1 and 1 fragments, windows of 2 and 3 | 51 837 | the refinement of `Stream`, `AllReceived` |
| `match` | 2 players, 1 mode of 2 players, 3 segments, 2 allocations | 700 916 | safety and progress of match |
| `room` | 3 players, 2 of whom may leave | 318 410 | safety of a room, `LeaveAnswered`, `GameEnds` |
| `battle_gateway` | 1 player, 2 sessions, up to 2 messages about the first | 265 125 | session, seat and scene, and `SnapshotComes`, `GoneLeaves` |
| `roommgr` | 1 mode, 3 rooms, 2 callers, 2 coroutine slots | 161 688 | the pool, and `FlagComesDown` |
| `mysqlproxy` | 2 connections, 2 transactions of 2 statements, 1 query | 507 900 | the pool, its refinement of `AtomicTx`, `EveryoneServed` |
| `session` | 3 logins and 1 reconnect, 2 gateways | 246 276 | sessions, and `NotLockedOut`, `NoGhost` |
| `friend` | 3 players, 2 requests, limits of 1 | 437 801 | the friend table under crossing requests, and `EveryRequestAnswered` |
| `saving` | 1 player with 3 versions, 1 who is away; faults that add up to 3 | 758 637 | what was saved is kept, found again and written to mysql |
| `mysql_reopen` | 1 connection, 1 transaction of 2 statements | (counterexample) | a transaction that goes on over a new connection, see below |
| `friend_reject` | as `friend` | (counterexample) | a reject that deletes a friend, see below |

Each property states in its comment what it is about, and each was seen to fail when the
code is changed in a plausible way (`mutants`; the changed forms are in the modules, marked
*variant*).

**Bounds.** *match*: two players and rooms of two are a batch of which one may leave, be requeued or
be taken by the second allocation while the first room still writes keys. Of three segments the outer
two are out of reach until the ages have grown. `MaxVersion` bounds the allocations of a behaviour,
`MaxAge` the intervals counted. The fetch limit of four entries is out of reach of two players; the proofs have no
such bound. *dispatch*: with two workers of weights -1 (one message at a time)
and 0 (the whole queue), two services and two requests, a queue is popped, pushed to and released by
different threads, a service is launched, fails or is killed with messages in its queue, and one
sleeping worker meets one that is busy. The socket thread
sends as the timer's does, and appears by its signal only.
*kcp*: the first message has the most fragments a message may have, the window of 3 closes while the
application does not read, and the sender's window of 2 is smaller than what is to be sent; two
segments under way can overtake each other, and acknowledgements come one at a time. *battle_gateway*:
two sessions of one player are an old one and the one that replaces it; `MaxMsgs` admits two
messages about the first (one in each of two queues, or two in one) and lets the
second go as far as its first handshake. *room*: with
three players one leave keeps the game going and two end it; the third player leaves in no
behaviour of the run, and the theorems of `RoomProofs` have no such bound. *roommgr*: two refill
slots meet with rooms being handed out and closed; `MinIdle = MaxIdle = 2`; shrinking
(`Surplus`) never fires, here as in the code, whose `POOL_MAX_IDLE` of 8 is above the `POOL_MIN_IDLE` of 2 that the idle rooms never
exceed (`NeverTooManyIdle`). *mysqlproxy*:
more callers than connections, and transactions of two statements, so that a connection can
break in the middle. *session*: a third login can meet the kick between the other two, two of
them share a gateway with the reconnect and one does not; with one reconnect there are two
breaks, so timers of an earlier one. *friend*: two requests of
any two of three players can cross, share one player, or come from the same player; the
start tables have applications in both orders of ids, and a player who reaches either limit with
one request, so that a second one must be refused. *saving*: with three
versions a change can be made while the one before it is being saved, and be lost; the player who is
away (`Away`) gives the batch a second name to read, write and put back. `MaxFaults = 3` is three faults of
dbsync, or one of it and one of an agent (which counts double), or an outage longer than the TTL.
No run uses symmetry.

**Fairness.** Calls are answered or fail, coroutines that can run do, armed timers fire
(Skynet's scheduler guarantees each; a call that never ends would hang its caller in the
code as well). Nothing is assumed of players and clients. *match*: the scan keeps running
and `create_room` ends. *room*: coroutines and timers. *roommgr*: the refill coroutines.
*mysqlproxy*: each caller goes on, and one that polls for a slot finds one in the end; each
needs one once, so there is one for good. *session*: every step of agentmgr, agents and
gateways separately, so that requests repeated for ever starve no other call.
*dispatch*: threads are scheduled, callbacks and init functions return (Skynet's monitor only
reports one that does not), and the timer thread ticks; nothing is assumed of the socket
thread, nor that anybody signals a worker. *kcp*: the application reads and the clock goes on; the network
is strongly fair, as a sender that repeats a segment for ever expects (`DataArrives`,
`AckArrives`); that is the least that makes a protocol over UDP progress. *battle_gateway*: services
handle their messages and the loop over the sessions goes on; a client need not send anything.
*saving*: dbsync's loop goes on and its requests are
answered; nothing is assumed of players, nor that anybody logs in again.
*friend*: every request goes on (`Progress`); that a statement fails (`Fail`) is not counted on, so
a deadlock of row locks would not be resolved by the database's own time-out.

**Deadlock** is not checked where the system may stop: a room that has ended, callers that are
done, connections all closed, players without another request, sessions that are all closed. The runs of `Match`, `Dispatch`
(a kernel that does not stop goes on ticking) and `Kcp` (a flush is always possible) check it.

### Disagreements found

`mysql_reopen`: the comments of `src/service/mysqlproxy/init.lua` say that `query_tx` goes on with the connection that
began the transaction (line 151) and that a lost connection raises an error, which is caught (line 53). But when the
server closes the connection between two statements, `autoclose_cb`
(`src/skynet/lualib/skynet/socketchannel.lua:151`) drops it with nobody to tell, and the next statement's `channel:request`
connects again (`:511`) and succeeds. The earlier statements were rolled back by the server, the later ones
commit one by one, COMMIT has nothing to commit and answers ok: the caller is told of success for half a transaction.
The run `mysqlproxy`, with the exception of `slipped`, shows that this is the only way to it, and that no other caller is
affected.

`friend_reject`: `delete_pending` (`src/service/agent/friend.lua:483`) is there to delete an
application (the message at line 489 says so), but its statement does not look at the status. A
player sends `friend_add` for someone who has applied, and `friend_reject` for the same one
before the first has answered. The transaction accepts the application; the delete has waited for
its row lock and removes the row that says *friend* by now. The other's row stays: a one-sided
friendship.

### Windows that are in the code

No property excludes these, because nothing in the code says they cannot happen. In the models:

- match saves `ROOM_PREPARING` for a room that aborted a moment before; the key stays until
  the player leaves.
- `shutdown` during an allocation that fails: the batch is put back as `MATCHING` after the sweep.
- A client reconnects while its timer's `reqkick` is under way: it is told that it is back and is
  logged out.
- `confirm_login(false)` frees the entry before the refused agent has saved, so a new agent
  may load meanwhile (`LoadsAfterSave` is about agents that played).
- A player's memory of friends may differ from the table until the next login: a notification is
  only sent to a player who is online when agentmgr is asked, may cross the receiver's own
  request, and what an agent loads may be changed before it can be notified.
- The scene names the *player* when it sends through the battle gateway
  (`battle_gateway/init.lua:435`): a frame of an old game may reach the session of a new one. In
  `BattleGateway` such a frame changes nothing.
- `room/init.lua:582`: a leave that waited for `prepare_room_lock` does not read the state again.
- A COMMIT that was executed and lost its answer is reported as a failure (`mysqlproxy:113`), and the
  caller undoes in memory what the database holds; `friend.lua:643` changes the memory before the
  transaction, so a notification in between may be undone too.
- A room has no timer for WAIT_BATTLE_PREPARE: what takes a client that never connects out of it is
  the battle gateway's notice to the agent, which becomes a leave (`GoneLeaves`).

- When the SET of a save fails, `save_base_data` writes mysql alone ("存mysql兜底", `agent/init.lua:447`), and
  redis keeps the older value: the next batch or `sync_player` writes that over the newer row, and the
  next login loads it. `fallback` in `Saving` marks these players; `SavedIsKept` and the others claim
  nothing for them until a save went through redis again.
- A redis error in EXPIRE or SADD, or the end of dbsync's node, ends the kick's coroutine: the agent
  stays in KICKING, its `exit` waits for ever, and its save loop may write its old data over that of the
  player's next agent (`OrphanSave`), which agentmgr creates all the same (`broken` in `Session`). `s.is_kicked`, which the
  loop looks at, is set nowhere.
- The notice of an expired battle session names the player only, and may take the player out of the next room (`Noticed`).
- The settlement of a room of three or more can fail. A leave during WAIT_BATTLE_PREPARE takes the player out of the table
  (`room/init.lua:586`) and yields before it tells the scene; `battle_ready` of the others takes no lock and can
  start the game; the scene's next frame lets the leaver in, keeps its weight, and `build_rank_list` (`:354`) indexes
  a player the table lacks: `finish_room` ends in FINISHING, nobody is rewarded, no key deleted. `GameEnds` excepts it. With two
  players the leaver's own check finds too few and aborts first, and `agent/match.lua:13` admits the mode of two only.
- A change made while `add_coin` waits for its save is not marked afterwards (`agent/init.lua:249`): it is
  saved with the next change or at the kick, and lost in a crash before, however late that is.

Outside the models: datagrams of a KCP connection that was replaced carry the same conv, so late
ones reach the new connection (`battle_gateway:51`).

## What is proved

The proofs are checked by TLAPS for all values of the constants, from the assumptions
named in the modules (`MatchAssumption`, `RoomMgrAssumption`, `ProxyAssumption`, `SessionAssumption`,
`FriendAssumption`, `GatewayAssumption`, `DispatchAssumption`, `RoomAssumption`, `SavingAssumption`,
`KcpAssumption`: types, numbers that are
natural, and that a room has finitely many players and at least two, as every mode of match does; of KCP also that the receive window holds the longest message, which `ikcp_wndsize`
sees to). Each follows the same line: an inductive invariant (`IInv`, `Inv`, `SavingInv`, `KcpInv`) that TLC has
checked on the run's instance, a lemma that it holds at first, one lemma per action that it is kept, and the
properties as its conjuncts or consequences.

- **MatchProofs**: `TypeCorrect`, `MatchingStaysFindable`, `NobodyStranded`, `HandOverIsAtomic`,
  `PlayersInOwnRooms`, `AllocationsSettled`, `BatchesAreInReach`, for any players, modes, segments, batch sizes and
  allocations. The properties are not inductive alone: `ScanInv` ties the scan's place to its
  allocation's room, `VersionInv` says that other allocations have no record and no created
  room, `KeyInv` that queued and allocating keys carry mode and segment, `RoomInv` that rooms
  players know of, and leaves under way, belong to *earlier* allocations while one is
  created. That last part is why a room's late key writes cannot hit the players of the
  allocation in progress. `BatchesAreInReach` rests on `BatchInv`: until the room's answer, the segments
  the batch was queued with stay within the reach of its head.
- **RoomProofs**: `TypeCorrect`, `RunningIsLive`, `AllocationIsUndisturbed`, `AllSessionsFreed`, `EnoughAlways`,
  `DeletedStaysDeleted`, for any two players or more. The locks are sequences, and the invariant says of each
  who can be in it and who waits (`PrepareLockInv`, `StateLockInv`): every waiting handler once, and the start
  before the end in `player_state_lock`. That order is why a key is not written back after its deletion.
  `StateInv`, `EndInv`, `MarkInv` and `LeaveInv` tie the once-only procedures and the leave handlers to
  `room_state`; `LoopInv` and `KeyInv` say who may still write which key; `CountInv` counts the players
  against the leaves under way.
- **RoomMgrProofs**: `TypeCorrect`, `NeverTooManyIdle`, `IdleRoomsFresh`, `RoomIsForCaller`,
  `ClosedRoomsLeave`. The argument for `IdleBounded` is that a coroutine between its count and
  its insertion still sees room for one: nobody else of its mode inserts, because the
  flag is up (`FlagInv`, `CountInv`), and all others only remove.
- **StorageProofs**, first part, about `Saving`: `SavedIsKeptHolds` (`SavedIsKept`), `SyncedStaysHolds` (`SyncedStays`),
  `LoadsNewestHolds` (`LoadsNewest`) and `SavingTypeCorrect`, for any players, versions and number of faults. `Safe(p, w)` says
  where version `w` of `p` is held until mysql has it: `Solid` (mysql has it, and what waits in the pipe carries it
  or a later one, `From`), or redis has it and `p` is in the dirty set, or in the snapshot that a batch will still
  work off or put back (`BatchSafe`). `SaveInv` claims this of what a player may count on, and of every save whose
  mark is set but which has not returned. Two things make it inductive that the code nowhere says. *Order*: in the pipe
  the update of a kick is not followed by an older one of its player (the last part of `SaveInv`; a kick has
  one update there, while its agent waits for it: `KickInv`), and the batch has one update at most, of the player
  it is at (`BatchInv`). *Idleness*: once the kick saves, all saves in progress carry what the memory holds (`AgentInv`), and
  agents left stuck in KICKING hold versions older than any the current agent saves (`OrphanInv`), until one of
  them overwrites redis, which `fallback` records.
- **StorageProofs**, second part, about `MysqlProxy`: `TypeCorrect`, `ConnectionForOne`, `FreeConnectionsClean`,
  `TransactionsAtomic` and **`PoolImplementsAtomicTx`**, the refinement: the initial states
  map to initial states, and every step maps to `Slip`, `Apply`, `Tell` or a stutter. All but `slipped` transactions are
  whole or absent. The invariant says
  that a transaction that is still wanted is open on its own connection with exactly the
  statements answered so far (`OpenInv`), and that before its commit the database has none of
  them (`ResultInv`). So a reconnect of the proxy can only lose all of it, and one of the channel puts its
  caller into `slipped`, about whose effects nothing is claimed.
- **SessionProofs**: `TypeCorrect`, `CallsHitTheirSession`, `NewLoadsAfterOldSaved`,
  `ConnectionsLeadToPlayers`, `OnlinePlayersAreReachable`, for any number of logins,
  reconnections and gateways. agentmgr's entry is the lock: a login that has started its
  agent owns it (`LoginInv`), a reqkick that goes on owns it (`KickingInv`), and an agent that
  played is named by it until it has saved (`AgentInv`), or its kick has raised an error (`broken`), which is the exception in
  `LoadsAfterSave`. The calls without a version are
  safe because no kick is on its way to the gateway of a login whose agent exists
  (`KicksInv`, from `Reached`) and every gateplayer is the entry's or has such a kick coming
  (`PlayerInv`).
- **FriendProofs**: `TypeCorrect`, `NobodyOverTheLimits`, `ApplicationsStayOneWay`, for any
  players, limits and requests. The heart is `ViewInv`: what a transaction has read still holds
  when it writes. It holds because two transactions that have read share no player (`Apart`, from
  the locks in `TxInv`), and because a delete waits for rows that were selected. The limits then
  follow from counting: a write adds at most one row of a kind to a player who had room.
  `ApplicationsStayOneWay` is why the return without rollback at `friend.lua:597` is never taken.
- **BattleGatewayProofs**: `TypeCorrect`, `OneSessionEach` (`OneSession`), `ReadyStaysAgreed`
  (`ReadyAgrees`), for any players, sessions and messages on their way. `OneSession` needs only that
  sessions are allocated in order (`Allocated`) and that an owner's newer session is the one in
  the table (`Owners`). For `ReadyAgrees` the messages matter: a free is on its way only for a seat that
  was given up, and only a player without a seat is refused (`Refused`); of a session not yet
  allocated nothing is known, and nothing about it is on its way (`Fresh`).
  **`KcpImplementsStream`** (`ImplementsStream`) is about `Kcp`, for any messages, windows and numbers of segments under way. A
  fragment carries its place among all that its sender ever sends, and the invariant says that wherever a fragment
  is (`snd_queue`, `snd_buf`, the network, `rcv_buf`, `rcv_queue`) its serial number is that place and its `frg` counts what is
  left of its message (`Numbers`, `Part`). Both queues are gapless (`Consecutive`): that of the sender begins at `snd_nxt`, that of the
  receiver where the messages read so far end (`After`), which ties `rcv_nxt` to `got`. So the first `frg = 0` in
  `rcv_queue` is the end of the next message, `ikcp_peeksize` finds it there exactly when all of it has come, and `Recv` is a
  `Recv` of `Stream`; a segment that comes twice, late or early cannot disturb this, as its number says what it
  carries. `Min` and the loop that moves available data are defined by CHOOSE: that what they choose exists rests on a
  lemma that a set of natural numbers has a least one (`LeastNumber`).
- **DispatchProofs**: `TypeCorrect`, `QueuesInOnePlace`, `QueuesAreFound`, `MemoryIsAlive` and
  **`KernelImplementsActors`**, for any services, messages, threads and weights. References are counted: `ref` is
  the number of the named holders (`Refs`: the table, the launching thread, senders, workers, each by its
  program counter), so what anybody refers to is alive and one thread deletes (`Lives`, `Deaths`). `PlaceInv` says
  that a queue is in the global queue or in one hand exactly while it lives and is in_global or to be
  released. The refinement maps every step to one of `Actors` or a stutter.

Some invariants that a run checked at first are theorems now and in no run any more, among them the type
invariants: a theorem holds for the instance of the run as well.

Besides the types they are the theorems that `PROJECT.json` lists without a `property`, such as `AllOrNothing`
(which `ImplementsAtomicTx` contains), `RunningInLiveRoom`, `QueueInOnePlace` and `OneSession`.

**Only model-checked**: the liveness properties (`AllocatingResolved`, `PairMatched`, `LeaveAnswered`, `GameEnds`,
`FlagComesDown`, `EveryoneServed`, `NotLockedOut`, `NoGhost`, `EveryRequestAnswered`, `EverySettled`, `Reclaimed`, `AllStop`,
`SnapshotComes`, `GoneLeaves`, `AllReceived`, `ReachesMysql`): fairness and ENABLED are outside what TLAPS can prove. Every
invariant, action property and refinement that a passing run checks is a theorem.

## Not modelled, and why

- Physics and collisions of scenes: floating point, and no protocol. `grid_index` and `quadtree` are
  algorithms on floating-point rectangles.
- Mail, bag and achievements: their transactions are the shape of the callers in `MysqlProxy`, their saving that of
  `Saving`; what a claim does to the memory is not modelled.
- Packing, protobuf, configuration: third-party or plain encoding, constant tables. redisproxy: one command in, one
  answer out. Hot fixing: replaces code inside the Lua VM. nodemgr and start-up order, cron's calendar, admin's
  debug console.
- Skynet's timing wheel (`skynet_timer.c`) and socket server (`socket_server.c`): threads that send messages in
  `Dispatch`.
- Vendored C (the Lua VM, jemalloc, cjson and others): most of the C lines of the repository, and
  none of the program's own logic.

Parts that are modelled in part say in `PROJECT.json` what is missing.

## What could follow

1. `mail.lua`'s claim with its roll-back in memory, and the gateway's message cache with its sequence numbers.
2. `calc_reward`, `GridIndex` and `Quadtree` as operators against a brute-force definition.
3. The timing wheel and the socket table of Skynet.
4. An abstract player of the matchmaking (idle, waiting, in a room) that `Match` implements.
