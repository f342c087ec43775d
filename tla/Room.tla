-------------------------------- MODULE Room --------------------------------
(***************************************************************************)
(* One room service (src/service/room), coroutine by coroutine.            *)
(*                                                                         *)
(* A Skynet service runs one coroutine until it yields: at a redis command *)
(* or a call to another service, and at a queue lock that is taken.  Each  *)
(* action below is the code between two yields.  A coroutine that a lock   *)
(* release wakes runs before the next message is dispatched (Quiet).       *)
(*                                                                         *)
(* The coroutines are one leave handler per player, the prepare handler    *)
(* that starts the allocation of battle sessions, the start of the game    *)
(* (start_running) and the end of the room (abort_room, finish_room); the  *)
(* last three happen once, and remember the handler that called them.      *)
(*                                                                         *)
(* Environment: match hands the players over or gives the allocation up;   *)
(* a player whose key is deleted may queue again, and everything its key   *)
(* says after that is "OTHER".  Message delays are unbounded: a handler    *)
(* may run whenever its message may have been sent.  The calls of          *)
(* kick_player alone are kept in their order (kicks).  Assumed: redis      *)
(* answers, and the services called live as long as the room, so that a    *)
(* call is answered, with nil when its handler fails, and does not raise.  *)
(***************************************************************************)
EXTENDS Integers, Sequences, FiniteSets

CONSTANTS Players,    \* the players the room is created for
          Leavers     \* bound: those of them who may send a leave

\* match has modes for two and for four players; a player is none of the other callers.
ASSUME RoomAssumption ==
    /\ IsFiniteSet(Players) /\ Cardinality(Players) >= 2
    /\ Players \cap {"none", "prepare", "ready", "timer", "match", "start", "end"} = {}

VARIABLES
    key,         \* key[p]: match:player:<p>, as far as it concerns this room
    match,       \* how far match is with the allocation
    unmarked,    \* players mark_batch_preparing has still to save
    room_state,
    players,     \* the table players, as a set
    prepared, battle_ready, in_room,   \* the players with these fields true
    conv,        \* players with a battle session (battle_conv # 0)
    scene,       \* scene[p]: where p is in the scene
    started,     \* the scene's game_started
    kicks,       \* the calls of kick_player the scene has yet to answer, in order
    leave,       \* leave[p]: where the leave handler of p is
    alloc,       \* alloc_battle_for_all: [pc, owner]
    start,       \* start_running: [pc, owner, seen, cur]
    ending,      \* abort_room, finish_room: [pc, kind, owner, seen]
    timers,      \* armed timers
    prepare_room_lock, player_state_lock    \* the holder first, then the waiting

fields == <<prepared, battle_ready, in_room>>
sceneVars == <<scene, started, kicks>>
locks == <<prepare_room_lock, player_state_lock>>
vars == <<key, match, unmarked, room_state, players, fields, conv, sceneVars,
          leave, alloc, start, ending, timers, locks>>

Waiting == {"WAIT_PREPARE", "WAIT_BATTLE_PREPARE"}
Over    == {"ABORTING", "FINISHING", "ABORTED", "FINISHED"}

Holds(l, c) == l # <<>> /\ Head(l) = c
\* variant: the lock stays with a handler that returned early.
Keep(l, c) == l

Release(l, c) == IF Holds(l, c) THEN Tail(l) ELSE l

all_prepared     == players \subseteq prepared
all_battle_ready == players \subseteq battle_ready
\* variant: players that left a running game are counted.
table_count == Cardinality(players)

inroom_player_count == Cardinality(players \cap in_room)

\* No coroutine is about to continue with a lock it was just given.
Quiet == /\ \A p \in Players : leave[p] = "wait" => ~Holds(prepare_room_lock, p)
         /\ alloc.pc = "wait" => ~Holds(prepare_room_lock, "prepare")
-----------------------------------------------------------------------------
Init ==
    /\ key = [p \in Players |-> "ROOM_ALLOCATING"]
    /\ match = "create" /\ unmarked = {}
    /\ room_state = "UNINIT"
    /\ players = {} /\ prepared = {} /\ battle_ready = {} /\ in_room = {}
    /\ conv = {}
    /\ scene = [p \in Players |-> "out"] /\ started = FALSE /\ kicks = <<>>
    /\ leave = [p \in Players |-> "none"]
    /\ alloc  = [pc |-> "none", owner |-> "none"]
    /\ start  = [pc |-> "none", owner |-> "none", seen |-> {}, cur |-> {}]
    /\ ending = [pc |-> "none", kind |-> "none", owner |-> "none", seen |-> {}]
    /\ timers = {}
    /\ prepare_room_lock = <<>> /\ player_state_lock = <<>>
-----------------------------------------------------------------------------
(* match and the players' keys. *)

\* create_room was answered and the allocation stands: mark_batch_preparing.
MatchMarks ==
    /\ match = "create" /\ room_state # "UNINIT"
    /\ match' = "marking"
    /\ unmarked' = Players
    /\ UNCHANGED <<key, room_state, players, fields, conv, sceneVars, leave, alloc,
                   start, ending, timers, locks>>

MatchMarksPlayer(p) ==
    /\ match = "marking" /\ p \in unmarked
    /\ key' = [key EXCEPT ![p] = "ROOM_PREPARING"]
    /\ unmarked' = unmarked \ {p}
    /\ UNCHANGED <<match, room_state, players, fields, conv, sceneVars, leave, alloc,
                   start, ending, timers, locks>>

\* The allocation was canceled, and abort_room is on its way; or the answer of
\* create_room was lost.  Either way the players are no longer in it.
MatchGivesUp ==
    /\ match = "create"
    /\ match' \in {"canceled", "lost"}
    /\ match' = "canceled" => room_state # "UNINIT"
    /\ key' = [p \in Players |-> "OTHER"]
    /\ UNCHANGED <<unmarked, room_state, players, fields, conv, sceneVars, leave, alloc,
                   start, ending, timers, locks>>

\* A player without a key joins again.
Rejoin(p) ==
    /\ key[p] = "IDLE"
    /\ key' = [key EXCEPT ![p] = "OTHER"]
    /\ UNCHANGED <<match, unmarked, room_state, players, fields, conv, sceneVars, leave,
                   alloc, start, ending, timers, locks>>
-----------------------------------------------------------------------------
(* The once-only procedures: how they begin, and how their caller goes on. *)

\* The calling handler is done: its lock, if it has one, is free.
Return(c) ==
    /\ leave' = IF c \in Players THEN [leave EXCEPT ![c] = "done"] ELSE leave
    /\ prepare_room_lock' = Release(prepare_room_lock, c)

\* The calling handler waits for it; the prepare handler holds the lock for the
\* allocation only.
Stay(c) ==
    /\ leave' = IF c \in Players THEN [leave EXCEPT ![c] = "sub"] ELSE leave
    /\ prepare_room_lock' = IF c = "prepare" THEN Release(prepare_room_lock, c)
                                             ELSE prepare_room_lock

\* abort_room, called by c.
abort_room(c) ==
    IF room_state \in Over
      THEN Return(c) /\ UNCHANGED <<room_state, ending, player_state_lock>>
      ELSE /\ room_state' = "ABORTING"
           /\ ending' = [pc |-> "clear", kind |-> "abort", owner |-> c, seen |-> {}]
           /\ player_state_lock' = Append(player_state_lock, "end")
           /\ Stay(c)

\* finish_room, called by c.
finish_room(c) ==
    IF room_state \in Over
      THEN Return(c) /\ UNCHANGED <<room_state, ending>>
      ELSE /\ room_state' = "FINISHING"
           /\ ending' = [pc |-> "weigh", kind |-> "finish", owner |-> c, seen |-> {}]
           /\ Stay(c)

\* start_running, called by c, up to the call of start_game.
start_running(c) ==
    /\ room_state' = "RUNNING"
    /\ start' = [pc |-> "call", owner |-> c, seen |-> {}, cur |-> {}]
    /\ Stay(c)
-----------------------------------------------------------------------------
(* init_room, prepare and the allocation of battle sessions. *)

InitRoom ==
    /\ room_state = "UNINIT" /\ match \in {"create", "lost"}
    /\ room_state' = "WAIT_PREPARE"
    /\ players' = Players /\ in_room' = Players
    /\ timers' = {"prepare"}
    /\ UNCHANGED <<key, match, unmarked, prepared, battle_ready, conv, sceneVars, leave,
                   alloc, start, ending, locks>>

\* The agent forwards prepare once the key of the player says ROOM_PREPARING.
Told(p) == match = "marking" /\ p \notin unmarked

Prepare(p) ==
    /\ Quiet /\ Told(p)
    /\ room_state = "WAIT_PREPARE"
    /\ p \in players \ prepared
    /\ prepared' = prepared \cup {p}
    /\ IF players \subseteq prepared'
         THEN /\ room_state' = "WAIT_BATTLE_PREPARE"
              /\ alloc' = [pc |-> "wait", owner |-> "prepare"]
              /\ prepare_room_lock' = Append(prepare_room_lock, "prepare")
         ELSE UNCHANGED <<room_state, alloc, prepare_room_lock>>
    /\ UNCHANGED <<key, match, unmarked, players, battle_ready, in_room, conv, sceneVars,
                   leave, start, ending, timers, player_state_lock>>

\* variant: the state is not looked at again under the lock.
AllocBeginUnchecked ==
    /\ alloc.pc = "wait" /\ Holds(prepare_room_lock, "prepare")
    /\ alloc' = [alloc EXCEPT !.pc = "gateway"]
    /\ UNCHANGED <<key, match, unmarked, room_state, players, fields, conv, sceneVars,
                   leave, start, ending, timers, locks>>

\* The prepare handler has the lock: alloc_battle_for_all_no_lock looks at the
\* state once more, and calls batch_alloc.
AllocBegin ==
    /\ alloc.pc = "wait" /\ Holds(prepare_room_lock, "prepare")
    /\ IF room_state = "WAIT_BATTLE_PREPARE"
         THEN /\ alloc' = [alloc EXCEPT !.pc = "gateway"]
              /\ UNCHANGED <<room_state, leave, ending, locks>>
         ELSE /\ alloc' = [alloc EXCEPT !.pc = "failed"]
              /\ abort_room("prepare")
    /\ UNCHANGED <<key, match, unmarked, players, fields, conv, sceneVars, start, timers>>

\* batch_alloc answered: the sessions are noted, and batch_add_player called.
AllocSessions ==
    /\ alloc.pc = "gateway"
    /\ alloc' = [alloc EXCEPT !.pc = "scene"]
    /\ conv' = players \cap in_room
    /\ battle_ready' = battle_ready \ in_room
    /\ UNCHANGED <<key, match, unmarked, room_state, players, prepared, in_room, sceneVars,
                   leave, start, ending, timers, locks>>

\* batch_add_player answered: the players are told where to connect.
AllocDone ==
    /\ alloc.pc = "scene"
    /\ alloc' = [alloc EXCEPT !.pc = "done"]
    /\ scene' = [p \in Players |-> IF p \in conv THEN "pending" ELSE scene[p]]
    /\ Return(alloc.owner)
    /\ UNCHANGED <<key, match, unmarked, room_state, players, fields, conv, started, kicks,
                   start, ending, timers, player_state_lock>>

\* batch_alloc answered nil, or batch_add_player failed: the sessions are freed
\* and the room is aborted.
AllocFails ==
    /\ alloc.pc \in {"gateway", "scene"}
    /\ alloc' = [alloc EXCEPT !.pc = "failed"]
    /\ conv' = {}
    /\ abort_room(alloc.owner)
    /\ UNCHANGED <<key, match, unmarked, players, fields, sceneVars, start, timers>>

\* s.resp.battle_ready: the gateway says that a session is up, or down again.
BattleReady(p, up) ==
    /\ Quiet
    /\ alloc.pc = "done"
    /\ p \in players \cap conv
    /\ battle_ready' = IF up THEN battle_ready \cup {p} ELSE battle_ready \ {p}
    /\ IF /\ room_state = "WAIT_BATTLE_PREPARE"
          /\ all_prepared
          /\ players \subseteq battle_ready'
         THEN start_running("ready")
         ELSE UNCHANGED <<room_state, start, leave, prepare_room_lock>>
    /\ UNCHANGED <<key, match, unmarked, players, prepared, in_room, conv, sceneVars, alloc,
                   ending, timers, player_state_lock>>
-----------------------------------------------------------------------------
(* start_running. *)

\* variant: the state is not looked at again after start_game.
StartUnchecked ==
    /\ start.pc = "call"
    /\ started' = TRUE
    /\ start' = [start EXCEPT !.pc = "loop"]
    /\ player_state_lock' = Append(player_state_lock, "start")
    /\ UNCHANGED <<key, match, unmarked, room_state, players, fields, conv, scene, kicks,
                   leave, alloc, ending, timers, prepare_room_lock>>

\* start_game answered; the room may be over by now.  Otherwise set_players_running.
StartAnswered ==
    /\ start.pc = "call"
    /\ started' = TRUE
    /\ IF room_state = "RUNNING"
         THEN /\ start' = [start EXCEPT !.pc = "loop"]
              /\ player_state_lock' = Append(player_state_lock, "start")
              /\ UNCHANGED <<leave, prepare_room_lock>>
         ELSE /\ start' = [start EXCEPT !.pc = "done"]
              /\ Return(start.owner)
              /\ UNCHANGED player_state_lock
    /\ UNCHANGED <<key, match, unmarked, room_state, players, fields, conv, scene, kicks,
                   alloc, ending, timers>>

\* start_game answered nil, or the scene is gone, which is so in a room that is over.
StartFails ==
    /\ start.pc = "call"
    /\ start' = [start EXCEPT !.pc = "done"]
    /\ abort_room(start.owner)
    /\ UNCHANGED <<key, match, unmarked, players, fields, conv, sceneVars, alloc, timers>>

ToRun == {p \in players \cap in_room : p \notin start.seen}

\* One turn of the loop of set_players_running: a player of the room is loaded ...
LoadPlayer(p) ==
    /\ start.pc = "loop" /\ Holds(player_state_lock, "start")
    /\ p \in ToRun
    /\ start' = [start EXCEPT !.cur = {p}]
    /\ start.cur = {}
    /\ UNCHANGED <<key, match, unmarked, room_state, players, fields, conv, sceneVars, leave,
                   alloc, ending, timers, locks>>

\* ... and saved as RUNNING.
SaveRunning(p) ==
    /\ start.pc = "loop" /\ start.cur = {p}
    /\ key' = [key EXCEPT ![p] = "RUNNING"]
    /\ start' = [start EXCEPT !.seen = @ \cup {p}, !.cur = {}]
    /\ UNCHANGED <<match, unmarked, room_state, players, fields, conv, sceneVars, leave,
                   alloc, ending, timers, locks>>

\* variant: no round timer.
StartDoneUntimed ==
    /\ start.pc = "loop" /\ Holds(player_state_lock, "start")
    /\ start.cur = {} /\ ToRun = {}
    /\ start' = [start EXCEPT !.pc = "done"]
    /\ player_state_lock' = Tail(player_state_lock)
    /\ Return(start.owner)
    /\ UNCHANGED <<key, match, unmarked, room_state, players, fields, conv, sceneVars, alloc,
                   ending, timers>>

\* All players of the room are RUNNING: the lock is released, the round timer armed.
StartDone ==
    /\ start.pc = "loop" /\ Holds(player_state_lock, "start")
    /\ start.cur = {} /\ ToRun = {}
    /\ start' = [start EXCEPT !.pc = "done"]
    /\ player_state_lock' = Tail(player_state_lock)
    /\ timers' = timers \cup {"round"}
    /\ Return(start.owner)
    /\ UNCHANGED <<key, match, unmarked, room_state, players, fields, conv, sceneVars, alloc,
                   ending>>
-----------------------------------------------------------------------------
(* s.resp.leave. *)

\* The handler starts: one of the two removals, or nothing to do.
LeaveBegin(p) ==
    /\ Quiet /\ p \in Leavers
    /\ match = "marking" /\ unmarked = {}
    /\ leave[p] = "none"
    /\ \/ /\ p \in players /\ room_state \in Waiting
          /\ leave' = [leave EXCEPT ![p] = "wait"]
          /\ prepare_room_lock' = Append(prepare_room_lock, p)
          /\ UNCHANGED <<in_room, player_state_lock>>
       \/ /\ p \in players /\ room_state = "RUNNING"
          /\ in_room' = in_room \ {p}
          /\ leave' = [leave EXCEPT ![p] = "out"]
          /\ player_state_lock' = Append(player_state_lock, p)
          /\ UNCHANGED prepare_room_lock
       \/ /\ p \notin players \/ room_state \in Over
          /\ leave' = [leave EXCEPT ![p] = "done"]
          /\ UNCHANGED <<in_room, locks>>
    /\ UNCHANGED <<key, match, unmarked, room_state, players, prepared, battle_ready, conv,
                   sceneVars, alloc, start, ending, timers>>

\* remove_preparing_player has the lock: the player leaves the table.
Remove(p) ==
    /\ leave[p] = "wait" /\ Holds(prepare_room_lock, p)
    /\ players' = players \ {p}
    /\ leave' = [leave EXCEPT ![p] = "clear"]
    /\ player_state_lock' = Append(player_state_lock, p)
    /\ UNCHANGED <<key, match, unmarked, room_state, fields, conv, sceneVars, alloc, start,
                   ending, timers, prepare_room_lock>>

\* variant: the session is left to the end of the room.
ClearOneOnly(p) ==
    /\ leave[p] \in {"clear", "out"} /\ Holds(player_state_lock, p)
    /\ key' = [key EXCEPT ![p] = "IDLE"]
    /\ player_state_lock' = Tail(player_state_lock)
    /\ battle_ready' = IF leave[p] = "out" THEN battle_ready \ {p} ELSE battle_ready
    /\ leave' = [leave EXCEPT ![p] = IF @ = "clear" THEN "kick" ELSE "kickout"]
    /\ kicks' = Append(kicks, p)
    /\ UNCHANGED <<match, unmarked, room_state, players, prepared, in_room, conv, scene,
                   started, alloc, start, ending, timers, prepare_room_lock>>

\* clear_one_player_state, in either removal; the session is freed and kick_player
\* called next, over two calls that keep the order of the handlers.
ClearOne(p) ==
    /\ leave[p] \in {"clear", "out"} /\ Holds(player_state_lock, p)
    /\ key' = [key EXCEPT ![p] = "IDLE"]
    /\ player_state_lock' = Tail(player_state_lock)
    /\ conv' = conv \ {p}
    /\ battle_ready' = IF leave[p] = "out" THEN battle_ready \ {p} ELSE battle_ready
    /\ leave' = [leave EXCEPT ![p] = IF @ = "clear" THEN "kick" ELSE "kickout"]
    /\ kicks' = Append(kicks, p)
    /\ UNCHANGED <<match, unmarked, room_state, players, prepared, in_room, scene, started,
                   alloc, start, ending, timers, prepare_room_lock>>

\* kick_player of the scene, which answers such calls in their order: a player that has
\* entered leaves its weight behind.
Kick(p) ==
    /\ kicks # <<>> /\ Head(kicks) = p
    /\ kicks' = Tail(kicks)
    /\ scene' = [scene EXCEPT ![p] = CASE @ = "pending" -> "out"
                                       [] @ = "playing" -> "left"
                                       [] OTHER -> @]

\* The rest of remove_preparing_player, after the scene answered.
Removed(p) ==
    /\ leave[p] = "kick"
    /\ Kick(p)
    /\ CASE inroom_player_count < 2 ->
              abort_room(p) /\ UNCHANGED <<alloc, start>>
         [] inroom_player_count >= 2 /\ room_state = "WAIT_PREPARE" /\ all_prepared ->
              /\ room_state' = "WAIT_BATTLE_PREPARE"
              /\ alloc' = [pc |-> "gateway", owner |-> p]
              /\ Stay(p)
              /\ UNCHANGED <<start, ending, player_state_lock>>
         [] inroom_player_count >= 2 /\ room_state = "WAIT_BATTLE_PREPARE" /\ all_battle_ready ->
              start_running(p) /\ UNCHANGED <<alloc, ending, player_state_lock>>
         [] OTHER ->
              Return(p) /\ UNCHANGED <<room_state, alloc, start, ending, player_state_lock>>
    /\ UNCHANGED <<key, match, unmarked, players, fields, conv, started, timers>>

\* The rest of mark_player_leaveroom, after the scene answered.
LeftRoom(p) ==
    /\ leave[p] = "kickout"
    /\ Kick(p)
    /\ IF inroom_player_count <= 1
         THEN finish_room(p)
         ELSE Return(p) /\ UNCHANGED <<room_state, ending>>
    /\ UNCHANGED <<key, match, unmarked, players, fields, conv, started, alloc, start, timers,
                   player_state_lock>>
-----------------------------------------------------------------------------
(* Timers, abort_room from match, and the end of the room. *)

\* 15 s after init_room.
PrepareTimeout ==
    /\ Quiet
    /\ "prepare" \in timers
    /\ timers' = timers \ {"prepare"}
    /\ IF room_state = "WAIT_PREPARE" /\ ~all_prepared
         THEN abort_room("timer")
         ELSE UNCHANGED <<room_state, ending, leave, locks>>
    /\ UNCHANGED <<key, match, unmarked, players, fields, conv, sceneVars, alloc, start>>

\* 10 min after the start.
RoundTimeout ==
    /\ Quiet
    /\ "round" \in timers
    /\ timers' = timers \ {"round"}
    /\ IF room_state = "RUNNING"
         THEN finish_room("timer")
         ELSE UNCHANGED <<room_state, ending, leave, prepare_room_lock>>
    /\ UNCHANGED <<key, match, unmarked, players, fields, conv, sceneVars, alloc, start,
                   player_state_lock>>

\* abort_room_without_clear_state: match canceled the allocation.
AbortedByMatch ==
    /\ Quiet
    /\ match = "canceled" /\ room_state \notin Over
    /\ room_state' = "ABORTING"
    /\ ending' = [pc |-> "free", kind |-> "keep", owner |-> "match", seen |-> {}]
    /\ UNCHANGED <<key, match, unmarked, players, fields, conv, sceneVars, leave, alloc,
                   start, timers, locks>>

\* A frame of the scene lets the players in once the game has started.
SceneEnter ==
    /\ started /\ \E p \in Players : scene[p] = "pending"
    /\ scene' = [p \in Players |-> IF scene[p] = "pending" THEN "playing" ELSE scene[p]]
    /\ UNCHANGED <<key, match, unmarked, room_state, players, fields, conv, started, kicks,
                   leave, alloc, start, ending, timers, locks>>

Stats == {p \in Players : scene[p] \in {"playing", "left"}}

\* build_rank_list: an answer that names a player not in the table raises an error; a
\* call of get_weight that fails does not.
Weigh ==
    /\ ending.pc = "weigh"
    /\ \/ /\ ending' = [ending EXCEPT !.pc = "free"]
          /\ UNCHANGED <<leave, prepare_room_lock>>
       \/ /\ ~(Stats \subseteq players)
          /\ ending' = [ending EXCEPT !.pc = "crashed"]
          /\ Return(ending.owner)
    /\ UNCHANGED <<key, match, unmarked, room_state, players, fields, conv, sceneVars, alloc,
                   start, timers, player_state_lock>>

\* The sessions are freed; finish_room clears the keys next, abort_room has done so.
FreeSessions ==
    /\ ending.pc = "free"
    /\ conv' = conv \ players
    /\ IF ending.kind = "finish"
         THEN /\ ending' = [ending EXCEPT !.pc = "clear"]
              /\ player_state_lock' = Append(player_state_lock, "end")
              /\ UNCHANGED room_state
         ELSE /\ ending' = [ending EXCEPT !.pc = "close"]
              /\ room_state' = "ABORTED"
              /\ UNCHANGED player_state_lock
    /\ UNCHANGED <<key, match, unmarked, players, fields, sceneVars, leave, alloc, start,
                   timers, prepare_room_lock>>

ToClear == {p \in players \cap in_room : p \notin ending.seen}

\* One turn of the loop of clear_inroom_player_state.
ClearInRoom(p) ==
    /\ ending.pc = "clear" /\ Holds(player_state_lock, "end")
    /\ p \in ToClear
    /\ key' = [key EXCEPT ![p] = "IDLE"]
    /\ ending' = [ending EXCEPT !.seen = @ \cup {p}]
    /\ UNCHANGED <<match, unmarked, room_state, players, fields, conv, sceneVars, leave,
                   alloc, start, timers, locks>>

ClearedInRoom ==
    /\ ending.pc = "clear" /\ Holds(player_state_lock, "end")
    /\ ToClear = {}
    /\ player_state_lock' = Tail(player_state_lock)
    /\ IF ending.kind = "finish"
         THEN ending' = [ending EXCEPT !.pc = "close"] /\ room_state' = "FINISHED"
         ELSE ending' = [ending EXCEPT !.pc = "free"] /\ UNCHANGED room_state
    /\ UNCHANGED <<key, match, unmarked, players, fields, conv, sceneVars, leave, alloc,
                   start, timers, prepare_room_lock>>

\* The scene is shut down, and the handler that ended the room returns.
Close ==
    /\ ending.pc = "close"
    /\ ending' = [ending EXCEPT !.pc = "done"]
    /\ Return(ending.owner)
    /\ UNCHANGED <<key, match, unmarked, room_state, players, fields, conv, sceneVars, alloc,
                   start, timers, player_state_lock>>
-----------------------------------------------------------------------------
Match == \/ MatchMarks \/ MatchGivesUp
         \/ \E p \in Players : MatchMarksPlayer(p) \/ Rejoin(p)

Messages == \/ InitRoom \/ AbortedByMatch
            \/ \E p \in Players : \/ Prepare(p) \/ LeaveBegin(p)
                                  \/ \E up \in BOOLEAN : BattleReady(p, up)

\* What runs on once it has begun: the rest of each coroutine, and the scene's frames.
Running == \/ AllocBegin \/ AllocSessions \/ AllocDone \/ AllocFails
           \/ StartAnswered \/ StartFails \/ StartDone
           \/ \E p \in Players : \/ LoadPlayer(p) \/ SaveRunning(p)
                                 \/ Remove(p) \/ ClearOne(p) \/ Removed(p) \/ LeftRoom(p)
                                 \/ ClearInRoom(p)
           \/ SceneEnter \/ Weigh \/ FreeSessions \/ ClearedInRoom \/ Close

Timers == PrepareTimeout \/ RoundTimeout

Next == Match \/ Messages \/ Running \/ Timers

Spec == Init /\ [][Next]_vars

\* Calls are answered, redis commands executed, and armed timers fire.
FairSpec == Spec /\ WF_vars(Running) /\ WF_vars(Timers)
-----------------------------------------------------------------------------
(* Properties. *)

\* No leave handler is under way.
NoLeaving == \A p \in Players : leave[p] \in {"none", "done"}

\* start_running looks at the state again after start_game, and set_players_running
\* takes the lock of the deletions: a key that a leave or an end has deleted is never
\* written back as RUNNING.
NeverWrittenBack ==
    [][\A p \in Players : key[p] # "RUNNING" /\ key'[p] = "RUNNING"
                            => key[p] = "ROOM_PREPARING"]_vars

\* A player redis calls RUNNING is in the table of a room that still runs, or the
\* handler of its leave is about to delete the key.
RunningInLiveRoom ==
    \A p \in Players : key[p] = "RUNNING" =>
        \/ p \in players \cap in_room /\ room_state \notin {"ABORTED", "FINISHED"}
        \/ leave[p] \in {"clear", "out"}

\* From batch_alloc to the answer of batch_add_player nothing ends the room and
\* nobody leaves the table: what the comment above alloc_battle_for_all_no_lock
\* argues from the lock and from match never handing over a canceled batch.
AllocUndisturbed ==
    alloc.pc \in {"gateway", "scene"} =>
        /\ room_state = "WAIT_BATTLE_PREPARE"
        /\ alloc.pc = "scene" => conv \subseteq players

\* Whoever ends the room, and whoever leaves meanwhile, no battle session is left
\* open when the room has ended.
SessionsFreed ==
    room_state \in {"ABORTED", "FINISHED"} /\ NoLeaving => conv = {}

\* A game never goes on with fewer than two players, even when its start overtook
\* leaves that were waiting for prepare_room_lock.
EnoughPlayers ==
    room_state = "RUNNING" /\ NoLeaving => Cardinality(players \cap in_room) >= 2

\* Every leave handler returns: the two locks and the handlers waiting for the start
\* or the end of the room never wait for each other.
LeaveAnswered == \A p \in Players : leave[p] # "none" ~> leave[p] = "done"

\* A game that has started ends, unless its settlement raised an error.
GameEnds == room_state = "RUNNING"
                ~> room_state \in {"ABORTED", "FINISHED"} \/ ending.pc = "crashed"
=============================================================================
