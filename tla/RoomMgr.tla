------------------------------ MODULE RoomMgr ------------------------------
(***************************************************************************)
(* The room manager (src/service/roommgr): a pool of prewarmed rooms per   *)
(* mode, a refill coroutine that keeps POOL_MIN_IDLE of them idle, a timer *)
(* that starts it, and the handlers create_room and room_closed.           *)
(*                                                                         *)
(* An entry of the pool is an object that a create_room handler still      *)
(* holds after the entry has left the table: entry[r] is its state, pool   *)
(* the table.  Calls to a room may fail with their effect done or not, so  *)
(* what the room service has become is kept apart, in room.                *)
(***************************************************************************)
EXTENDS Integers, FiniteSets

CONSTANTS Modes,        \* keys of MODE_SCENE_SERVICE
          Rooms,        \* bound: the room ids redis will ever hand out
          Allocs,       \* bound: the create_room calls match makes
          Refillers,    \* bound: refill coroutines that could run at a time
          MinIdle,      \* POOL_MIN_IDLE
          MaxIdle       \* POOL_MAX_IDLE

ASSUME RoomMgrAssumption ==
    /\ MinIdle \in Nat /\ MaxIdle \in Nat
    /\ MinIdle <= MaxIdle

None == "none"

\* The absence of a room, mode or caller is told apart from each of them.
ASSUME NoneAssumption == None \notin Rooms /\ None \notin Modes /\ None \notin Allocs

VARIABLES
    pool,             \* room_pool
    entry,            \* entry[r].state of the pool entry of r
    refill_running,   \* the modes with refill_running
    refiller,         \* refiller[i]: [pc, mode, room] of a refill coroutine
    handler,          \* handler[a]: [pc, mode, room] of a create_room call
    room,             \* room[r]: the room service itself
    owner,            \* owner[r]: the allocation r was initialised for
    closedMsgs        \* room_closed messages on their way

vars == <<pool, entry, refill_running, refiller, handler, room, owner, closedMsgs>>

idle_rooms(m) == {r \in pool[m] : entry[r] = "IDLE"}
count_idle_room(m) == Cardinality(idle_rooms(m))

\* remove_pool_room
Remove(m, r) == /\ entry' = [entry EXCEPT ![r] = "DEAD"]
                /\ pool' = [pool EXCEPT ![m] = @ \ {r}]

\* variant: a refill coroutine is forked whether or not one is running.
fork_refill(m) ==
    \E i \in Refillers :
        /\ refiller[i].pc = "off"
        /\ refiller' = [refiller EXCEPT ![i] = [pc |-> "check", mode |-> m, room |-> None]]
        /\ refill_running' = refill_running \cup {m}

\* start_refill_pool: at most one coroutine per mode.
start_refill_pool(m) ==
    \/ m \in refill_running /\ UNCHANGED <<refill_running, refiller>>
    \/ /\ m \notin refill_running
       /\ \E i \in Refillers :
            /\ refiller[i].pc = "off"
            /\ refiller' = [refiller EXCEPT ![i] = [pc |-> "check", mode |-> m, room |-> None]]
            /\ refill_running' = refill_running \cup {m}
-----------------------------------------------------------------------------
Init ==
    /\ pool = [m \in Modes |-> {}]
    /\ entry = [r \in Rooms |-> None]
    /\ refill_running = {}
    /\ refiller = [i \in Refillers |-> [pc |-> "off", mode |-> None, room |-> None]]
    /\ handler = [a \in Allocs |-> [pc |-> "none", mode |-> None, room |-> None]]
    /\ room = [r \in Rooms |-> None]
    /\ owner = [r \in Rooms |-> None]
    /\ closedMsgs = {}

\* The sets of idle rooms shrink_pool may close: those past POOL_IDLE_TTL, while
\* more than POOL_MAX_IDLE are idle.
Surplus(m) == {S \in SUBSET idle_rooms(m) :
                  S = {} \/ count_idle_room(m) - Cardinality(S) >= MaxIdle}

\* maintain_pool for mode m, every second.
Maintain(m) ==
    /\ start_refill_pool(m)
    /\ \E S \in Surplus(m) :
          /\ pool' = [pool EXCEPT ![m] = @ \ S]
          /\ entry' = [r \in Rooms |-> IF r \in S THEN "DEAD" ELSE entry[r]]
          /\ room' = [r \in Rooms |-> IF r \in S THEN "aborted" ELSE room[r]]
    /\ UNCHANGED <<handler, owner, closedMsgs>>
-----------------------------------------------------------------------------
(* The refill coroutine. *)

\* The coroutine ends, and the flag goes down with it.
RefillStops(i) ==
    /\ refiller' = [refiller EXCEPT ![i] = [pc |-> "off", mode |-> None, room |-> None]]
    /\ refill_running' = refill_running \ {refiller[i].mode}

\* variant: one room too many.
CheckInclusive(i) ==
    /\ refiller[i].pc = "check"
    /\ IF count_idle_room(refiller[i].mode) <= MinIdle
         THEN refiller' = [refiller EXCEPT ![i].pc = "new"] /\ UNCHANGED refill_running
         ELSE RefillStops(i)
    /\ UNCHANGED <<pool, entry, handler, room, owner, closedMsgs>>

\* The condition of the while loop.
RefillCheck(i) ==
    /\ refiller[i].pc = "check"
    /\ IF count_idle_room(refiller[i].mode) < MinIdle
         THEN refiller' = [refiller EXCEPT ![i].pc = "new"] /\ UNCHANGED refill_running
         ELSE RefillStops(i)
    /\ UNCHANGED <<pool, entry, handler, room, owner, closedMsgs>>

\* create_idle_room_once: newservice answered with a new room.
NewRoom(i, r) ==
    /\ refiller[i].pc = "new"
    /\ room[r] = None
    /\ room' = [room EXCEPT ![r] = "UNINIT"]
    /\ refiller' = [refiller EXCEPT ![i] = [pc |-> "prewarm", mode |-> @.mode, room |-> r]]
    /\ UNCHANGED <<pool, entry, refill_running, handler, owner, closedMsgs>>

\* variant: the error is not caught, and the flag stays up.
NewRoomThrows(i) ==
    /\ refiller[i].pc = "new"
    /\ refiller' = [refiller EXCEPT ![i] = [pc |-> "off", mode |-> None, room |-> None]]
    /\ UNCHANGED <<pool, entry, refill_running, handler, room, owner, closedMsgs>>

\* incr or newservice failed; a room that was started all the same is not known here.
NewRoomFails(i) ==
    /\ refiller[i].pc = "new"
    /\ RefillStops(i)
    /\ \/ UNCHANGED room
       \/ \E r \in Rooms : room[r] = None /\ room' = [room EXCEPT ![r] = "orphan"]
    /\ UNCHANGED <<pool, entry, handler, owner, closedMsgs>>

\* prewarm answered: the room is idle.
Prewarmed(i) ==
    /\ refiller[i].pc = "prewarm"
    /\ LET r == refiller[i].room  m == refiller[i].mode IN
       /\ entry' = [entry EXCEPT ![r] = "IDLE"]
       /\ pool' = [pool EXCEPT ![m] = @ \cup {r}]
    /\ refiller' = [refiller EXCEPT ![i] = [pc |-> "check", mode |-> @.mode, room |-> None]]
    /\ UNCHANGED <<refill_running, handler, room, owner, closedMsgs>>

\* What may come of a room that is told to abort by a pcall whose failure is ignored.
AbortTried(r) ==
    \/ UNCHANGED room
    \/ room' = [room EXCEPT ![r] = IF @ = "closed" THEN @ ELSE "aborted"]

\* prewarm failed: the room is told to abort, and the coroutine gives up.
PrewarmFails(i) ==
    /\ refiller[i].pc = "prewarm"
    /\ AbortTried(refiller[i].room)
    /\ RefillStops(i)
    /\ UNCHANGED <<pool, entry, handler, owner, closedMsgs>>
-----------------------------------------------------------------------------
(* The handlers. *)

\* s.resp.create_room, up to the call of init_room.
CreateRoom(a, m) ==
    /\ handler[a].pc = "none"
    /\ \/ /\ \E r \in idle_rooms(m) :
                /\ entry' = [entry EXCEPT ![r] = "RESERVED"]
                /\ handler' = [handler EXCEPT ![a] = [pc |-> "init", mode |-> m, room |-> r]]
          /\ UNCHANGED <<refill_running, refiller>>
       \/ /\ idle_rooms(m) = {}
          /\ start_refill_pool(m)
          /\ handler' = [handler EXCEPT ![a] = [pc |-> "false", mode |-> m, room |-> None]]
          /\ UNCHANGED entry
    /\ UNCHANGED <<pool, room, owner, closedMsgs>>

\* The room executes init_room: only once, and not after an abort.
InitRoom(a) ==
    /\ handler[a].pc = "init"
    /\ room[handler[a].room] = "UNINIT"
    /\ room' = [room EXCEPT ![handler[a].room] = "WAIT_PREPARE"]
    /\ owner' = [owner EXCEPT ![handler[a].room] = a]
    /\ UNCHANGED <<pool, entry, refill_running, refiller, handler, closedMsgs>>

\* init_room answered, with true or with false: the room is busy, wherever its
\* entry is by now, and the caller gets it.
Created(a) ==
    /\ handler[a].pc = "init"
    /\ room[handler[a].room] # "UNINIT"
    /\ entry' = [entry EXCEPT ![handler[a].room] = "BUSY"]
    /\ handler' = [handler EXCEPT ![a].pc = "room"]
    /\ start_refill_pool(handler[a].mode)
    /\ UNCHANGED <<pool, room, owner, closedMsgs>>

\* variant: the room goes back to the pool.
InitFailsReused(a) ==
    /\ handler[a].pc = "init"
    /\ entry' = [entry EXCEPT ![handler[a].room] = "IDLE"]
    /\ handler' = [handler EXCEPT ![a].pc = "abort"]
    /\ UNCHANGED <<pool, refill_running, refiller, room, owner, closedMsgs>>

\* init_room failed, or its answer was lost: the room is dropped and told to abort.
InitFails(a) ==
    /\ handler[a].pc = "init"
    /\ Remove(handler[a].mode, handler[a].room)
    /\ handler' = [handler EXCEPT ![a].pc = "abort"]
    /\ UNCHANGED <<refill_running, refiller, room, owner, closedMsgs>>

\* The abort_room call after it has returned.
InitAborted(a) ==
    /\ handler[a].pc = "abort"
    /\ AbortTried(handler[a].room)
    /\ handler' = [handler EXCEPT ![a].pc = "false"]
    /\ start_refill_pool(handler[a].mode)
    /\ UNCHANGED <<pool, entry, owner, closedMsgs>>

\* A room that has players, or was told to abort, closes and says so.
RoomCloses(r) ==
    /\ room[r] \in {"WAIT_PREPARE", "aborted"}
    /\ room' = [room EXCEPT ![r] = "closed"]
    /\ closedMsgs' = closedMsgs \cup {r}
    /\ UNCHANGED <<pool, entry, refill_running, refiller, handler, owner>>

\* variant: only busy rooms are taken out.
RoomClosedBusy(r) ==
    /\ r \in closedMsgs
    /\ closedMsgs' = closedMsgs \ {r}
    /\ \/ \E m \in Modes : r \in pool[m] /\ entry[r] = "BUSY"
                              /\ Remove(m, r) /\ start_refill_pool(m)
       \/ /\ \A m \in Modes : r \notin pool[m] \/ entry[r] # "BUSY"
          /\ UNCHANGED <<pool, entry, refill_running, refiller>>
    /\ UNCHANGED <<handler, room, owner>>

\* s.resp.room_closed
RoomClosed(r) ==
    /\ r \in closedMsgs
    /\ closedMsgs' = closedMsgs \ {r}
    /\ \/ \E m \in Modes : r \in pool[m] /\ Remove(m, r) /\ start_refill_pool(m)
       \/ /\ \A m \in Modes : r \notin pool[m]
          /\ UNCHANGED <<pool, entry, refill_running, refiller>>
    /\ UNCHANGED <<handler, room, owner>>
-----------------------------------------------------------------------------
Refill(i) == \/ RefillCheck(i) \/ NewRoomFails(i) \/ Prewarmed(i) \/ PrewarmFails(i)
             \/ \E r \in Rooms : NewRoom(i, r)

Next == \/ \E m \in Modes : Maintain(m)
        \/ \E i \in Refillers : Refill(i)
        \/ \E a \in Allocs : \/ \E m \in Modes : CreateRoom(a, m)
                             \/ InitRoom(a) \/ Created(a) \/ InitFails(a) \/ InitAborted(a)
        \/ \E r \in Rooms : RoomCloses(r) \/ RoomClosed(r)

Spec == Init /\ [][Next]_vars

\* The calls of a refill coroutine end, one way or the other.
FairSpec == Spec /\ \A i \in Refillers : WF_vars(Refill(i))
-----------------------------------------------------------------------------
(* Properties. *)

TypeOK ==
    /\ pool \in [Modes -> SUBSET Rooms]
    /\ entry \in [Rooms -> {None, "IDLE", "RESERVED", "BUSY", "DEAD"}]
    /\ refill_running \subseteq Modes
    /\ refiller \in [Refillers -> [pc : {"off", "check", "new", "prewarm"},
                                   mode : Modes \cup {None}, room : Rooms \cup {None}]]
    /\ handler \in [Allocs -> [pc : {"none", "init", "abort", "room", "false"},
                               mode : Modes \cup {None}, room : Rooms \cup {None}]]
    /\ \A a \in Allocs : handler[a].pc \in {"init", "abort", "room"} =>
           handler[a].mode \in Modes /\ handler[a].room \in Rooms
    /\ room \in [Rooms -> {None, "UNINIT", "orphan", "aborted", "WAIT_PREPARE", "closed"}]
    /\ owner \in [Rooms -> Allocs \cup {None}]
    /\ closedMsgs \subseteq Rooms

\* Although the count is read before three calls and the room added after them, a
\* mode never has more than POOL_MIN_IDLE idle rooms: its refill coroutine is the
\* only one to add any.  (So shrink_pool has nothing to do.)
IdleBounded == \A m \in Modes : count_idle_room(m) <= MinIdle

\* A room the pool would hand out is prewarmed, alive, and in one pool only.
IdleIsFresh ==
    \A m \in Modes : \A r \in idle_rooms(m) :
        /\ room[r] = "UNINIT" /\ owner[r] = None
        /\ \A n \in Modes : r \in pool[n] => n = m

\* The room a create_room call answers with was initialised for that call: the
\* result of init_room, which the handler does not look at, cannot have been false.
CreatedForCaller ==
    \A a \in Allocs : handler[a].pc = "room" => owner[handler[a].room] = a

\* A room that closed is forgotten once its room_closed is handled, whatever
\* create_room call was still holding its entry.
ClosedForgotten ==
    \A r \in Rooms, m \in Modes :
        r \in pool[m] /\ room[r] = "closed" => r \in closedMsgs

\* The flag of the refill coroutine goes down again: a failed creation does not end
\* the refilling of a mode for good.
FlagComesDown == \A m \in Modes : m \in refill_running ~> m \notin refill_running
=============================================================================
