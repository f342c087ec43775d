------------------------------- MODULE Match -------------------------------
(***************************************************************************)
(* The match service (src/service/match): the player keys, the queue of    *)
(* each mode and rank segment, the scan coroutine that forms batches and   *)
(* asks roommgr for a room, and the handlers join, cancel, leave and       *)
(* shutdown.                                                               *)
(*                                                                         *)
(* The service runs one coroutine at a time and yields at every redis      *)
(* command and every call.  state_lock serialises the handlers and the two *)
(* critical sections of try_match, so a handler is one step, enabled while *)
(* the scan is outside both sections (~Locked).  The scan itself is one    *)
(* step per centre segment, per created room and per player handed over:   *)
(* between those steps rooms, which do not take state_lock, write keys.    *)
(*                                                                         *)
(* Rooms and roommgr are the environment here: a room deletes the keys of  *)
(* its players when it handles a leave and when it ends, at any time, and  *)
(* may start its game once their keys say ROOM_PREPARING.                  *)
(*                                                                         *)
(* Time: age[p] counts the expand intervals elapsed since p entered the    *)
(* queue; the order of a queue is that of the ages, ties in any order.     *)
(***************************************************************************)
EXTENDS MatchKeys, FiniteSetsExt

CONSTANTS PlayerNum,   \* PlayerNum[m]: players of a room of mode m
          MaxExpand,   \* MaxExpand[m]: max_expand_segment of mode m
          MaxVersion,  \* bound: allocations started in a behaviour
          MaxAge       \* bound: expand intervals counted for a queued player

ASSUME MatchAssumption ==
    /\ PlayerNum \in [Modes -> Nat]
    /\ \A m \in Modes : PlayerNum[m] >= 2
    /\ MaxExpand \in [Modes -> Nat]
    /\ MaxVersion \in Nat
    /\ MaxAge \in Nat

VARIABLES
    queue,         \* queue[m][s]: members of the zset match:queue:<m>:<s>
    active,        \* active[m]: the set match:active_segment:<m>
    age,           \* age[p]: expand intervals since queue_enter_ms
    shutting_down,
    pc,            \* where the scan coroutine is
    todo,          \* modes the current pass has still to try
    mode,          \* mode being tried
    centers,       \* segments not yet tried as the centre of a batch
    batch,         \* players of the allocation in progress
    unmarked,      \* of these, the ones mark_batch_preparing has still to save
    version,       \* last alloc_version
    records,       \* alloc_records
    room,          \* room[v]: fate of the room allocation v asked for
    members,       \* members[v]: the players that room was created for
    leaveMsgs      \* leave messages sent to rooms, <<v, p>>

queueVars == <<queue, active, age>>
scanVars  == <<pc, todo, mode, centers, batch, unmarked>>
allocVars == <<version, records>>
roomVars  == <<room, members, leaveMsgs>>
vars == <<key, queueVars, shutting_down, scanVars, allocVars, roomVars>>

Versions == 1..MaxVersion
-----------------------------------------------------------------------------
(* Reading the queue. *)

\* The entries of a queue that fetch_vaild_from_segment keeps.
Valid(m, s) == {p \in queue[m][s] : /\ Is(p, "MATCHING")
                                    /\ key[p].mode = m
                                    /\ key[p].seg = s}

\* cal_expand_segment: how many segments to either side p may be matched over.
Expand(m, p) == Min({MaxExpand[m], age[p]})

\* The segments collect_batch visits at distance d, and all of them up to e.
Ring(c, d)  == {Max({c - d, 0}), c + d}
\* variant: the loop over the rings goes one too far.
ReachBeyond(c, e) == Segments \cap UNION {Ring(c, d) : d \in 0..(e + 1)}

Reach(c, e) == Segments \cap UNION {Ring(c, d) : d \in 0..e}

\* The centre first, then rings outwards, the lower segment of a ring first.
Dist(c, s) == IF s < c THEN c - s ELSE s - c
VisitedBefore(c, s, t) ==
    \/ Dist(c, s) < Dist(c, t)
    \/ Dist(c, s) = Dist(c, t) /\ s < t

\* p is taken before q: its segment comes first, or it waits longer in the same one.
TakenBefore(c, p, q) ==
    \/ VisitedBefore(c, key[p].seg, key[q].seg)
    \/ key[p].seg = key[q].seg /\ age[p] > age[q]

\* The queues that hold more than the need_num * 2 entries one ZRANGE asks for, and what
\* it may give of them: as many, of the valid ones those that wait longest; a stale entry
\* may have any score.
Long(m) == {s \in Segments : Cardinality(queue[m][s]) > 2 * PlayerNum[m]}
Windows(m) == {w \in [Long(m) -> SUBSET Players] : \A s \in Long(m) :
    /\ w[s] \subseteq queue[m][s] /\ Cardinality(w[s]) = 2 * PlayerNum[m]
    /\ \A x \in Valid(m, s) \ w[s], y \in Valid(m, s) \cap w[s] : age[x] <= age[y]}
Seen(m, w, s) == IF s \in Long(m) THEN w[s] ELSE queue[m][s]

Candidates(m, c, h, w) == UNION {Valid(m, s) \cap Seen(m, w, s) : s \in Reach(c, Expand(m, h))}

\* B is a batch collect_batch can return for centre c when its first player is h.
IsBatch(m, c, h, w, B) ==
    /\ B \subseteq Candidates(m, c, h, w)
    /\ h \in B
    /\ Cardinality(B) = PlayerNum[m]
    /\ \A x \in Candidates(m, c, h, w) \ B, y \in B \ {h} : ~TakenBefore(c, x, y)

\* The head of the centre queue: nobody valid in it waits longer.
IsHead(m, c, h) == /\ h \in Valid(m, c)
                   /\ \A q \in Valid(m, c) : age[q] <= age[h]

\* fetch_vaild_from_segment over the segments S of mode m: the stale entries it was
\* given are removed, and a segment whose queue was already empty leaves the active set.
Kept(m, S, w, s) == IF s \in S THEN queue[m][s] \ (Seen(m, w, s) \ Valid(m, s))
                              ELSE queue[m][s]

Purge(m, S, w) ==
    /\ queue' = [queue EXCEPT ![m] = [s \in Segments |-> Kept(m, S, w, s)]]
    /\ active' = [active EXCEPT ![m] = @ \ {s \in S : queue[m][s] = {}}]
-----------------------------------------------------------------------------
Init ==
    /\ key = [p \in Players |-> EmptyPlayerState]
    /\ queue = [m \in Modes |-> [s \in Segments |-> {}]]
    /\ active = [m \in Modes |-> {}]
    /\ age = [p \in Players |-> 0]
    /\ shutting_down = FALSE
    /\ pc = "sleep" /\ todo = {} /\ mode = Nil /\ centers = {}
    /\ batch = {} /\ unmarked = {}
    /\ version = 0
    /\ records = [v \in Versions |-> "none"]
    /\ room = [v \in Versions |-> "none"]
    /\ members = [v \in Versions |-> {}]
    /\ leaveMsgs = {}

\* variant: the second critical section of try_match does not take state_lock.
LockedWhileCollecting == pc = "collect"

\* state_lock is held by the scan coroutine.
Locked == pc \in {"collect", "marking"}
-----------------------------------------------------------------------------
(* The handlers. *)

\* s.resp.join with a rank_score in segment s.
Join(p, m, s) ==
    /\ ~Locked
    /\ ~shutting_down
    /\ Is(p, "IDLE")
    /\ key' = [key EXCEPT ![p] = [state |-> "MATCHING", mode |-> m, seg |-> s,
                                  ver |-> Nil, room |-> Nil]]
    /\ age' = [age EXCEPT ![p] = 0]
    /\ queue' = [queue EXCEPT ![m][s] = @ \cup {p}]
    /\ active' = [active EXCEPT ![m] = @ \cup {s}]
    /\ UNCHANGED <<shutting_down, scanVars, allocVars, roomVars>>

\* What cancel, and leave of a MATCHING player, do: ZREM and DEL.
Dequeue(p) ==
    /\ Is(p, "MATCHING")
    /\ queue' = [queue EXCEPT ![key[p].mode][key[p].seg] = @ \ {p}]
    /\ key' = Cleared(p)
    /\ UNCHANGED <<active, age, shutting_down, scanVars, allocVars, roomVars>>

\* s.resp.cancel; every other state is refused.
Cancel(p) == ~Locked /\ Dequeue(p)

\* leave while the room is being created: the allocation is marked canceled.
LeaveAllocating(p) ==
    /\ Is(p, "ROOM_ALLOCATING")
    /\ records' = [records EXCEPT ![key[p].ver] = IF @ = "none" THEN @ ELSE "canceled"]
    /\ key' = Cleared(p)
    /\ UNCHANGED <<queueVars, shutting_down, scanVars, version, roomVars>>

\* leave of a player with a room: the room is told, and clears the key itself.
LeaveRoom(p) ==
    /\ Is(p, "ROOM_PREPARING") \/ Is(p, "RUNNING")
    /\ leaveMsgs' = leaveMsgs \cup {<<key[p].room, p>>}
    /\ UNCHANGED <<key, queueVars, shutting_down, scanVars, allocVars, room, members>>

\* s.resp.leave (of an IDLE player: nothing changes).
Leave(p) == ~Locked /\ (Dequeue(p) \/ LeaveAllocating(p) \/ LeaveRoom(p))

\* s.resp.shutdown: the queued players of every active segment are let go.
Shutdown ==
    /\ ~Locked
    /\ shutting_down' = TRUE
    /\ LET Swept(m, s) == IF s \in active[m]
                            THEN {p \in queue[m][s] : Is(p, "MATCHING")} ELSE {}
       IN  /\ queue' = [m \in Modes |-> [s \in Segments |-> queue[m][s] \ Swept(m, s)]]
           /\ key' = [p \in Players |->
                 IF \E m \in Modes, s \in Segments : p \in Swept(m, s)
                   THEN EmptyPlayerState ELSE key[p]]
    /\ UNCHANGED <<active, age, scanVars, allocVars, roomVars>>
-----------------------------------------------------------------------------
(* The scan coroutine: one pass over the modes every SCAN_INTERVAL. *)

\* The sleep ends; a pass is skipped once the service is shutting down.
StartPass ==
    /\ pc = "sleep"
    /\ ~shutting_down
    /\ version < MaxVersion
    /\ pc' = "next"
    /\ todo' = Modes
    /\ UNCHANGED <<key, queueVars, shutting_down, mode, centers, batch, unmarked,
                   allocVars, roomVars>>

EndPass ==
    /\ pc = "next"
    /\ todo = {} \/ version = MaxVersion
    /\ pc' = "sleep"
    /\ todo' = {}
    /\ UNCHANGED <<key, queueVars, shutting_down, mode, centers, batch, unmarked,
                   allocVars, roomVars>>

\* try_match(m) takes state_lock and reads the active segments.
TryMatch(m) ==
    /\ pc = "next"
    /\ m \in todo
    /\ version < MaxVersion
    /\ pc' = "collect"
    /\ mode' = m
    /\ centers' = active[m]
    /\ UNCHANGED <<key, queueVars, shutting_down, todo, batch, unmarked,
                   allocVars, roomVars>>

\* The oldest entry of the lowest centre left is stale: it is removed and the
\* centre given up (an empty queue: the segment stops being active).
SkipCenter ==
    /\ pc = "collect" /\ centers # {}
    /\ LET c == Min(centers)
           Stale == queue[mode][c] \ Valid(mode, c)
       IN  /\ \/ /\ queue[mode][c] = {}
                 /\ active' = [active EXCEPT ![mode] = @ \ {c}]
                 /\ UNCHANGED queue
              \/ \E p \in Stale :
                 /\ queue' = [queue EXCEPT ![mode][c] = @ \ {p}]
                 /\ UNCHANGED active
           /\ centers' = centers \ {c}
    /\ UNCHANGED <<key, age, shutting_down, pc, todo, mode, batch, unmarked,
                   allocVars, roomVars>>

\* Not enough players within the reach of the centre's head.
TooFew ==
    /\ pc = "collect" /\ centers # {}
    /\ LET c == Min(centers) IN
       /\ \E w \in Windows(mode), h \in Players :
          /\ IsHead(mode, c, h) /\ h \in Seen(mode, w, c)
          /\ Cardinality(Candidates(mode, c, h, w)) < PlayerNum[mode]
          /\ Purge(mode, Reach(c, Expand(mode, h)), w)
       /\ centers' = centers \ {c}
    /\ UNCHANGED <<key, age, shutting_down, pc, todo, mode, batch, unmarked,
                   allocVars, roomVars>>

\* mark_batch_allocating after the segments S were fetched: record_alloc, and
\* ZREM and save for each player of B.
MarkAllocating(m, S, w, B, v) ==
    /\ records' = [records EXCEPT ![v] = "open"]
    /\ queue' = [queue EXCEPT ![m] = [s \in Segments |-> Kept(m, S, w, s) \ B]]
    /\ active' = [active EXCEPT ![m] = @ \ {s \in S : queue[m][s] = {}}]
    /\ key' = [p \in Players |->
          IF p \in B THEN Saved(p, "ROOM_ALLOCATING", v, key[p].room) ELSE key[p]]

\* The segments fetched until the batch B is full.
Visited(m, c, h, B) ==
    {s \in Reach(c, Expand(m, h)) :
        s = c \/ \E p \in B \ {h} : ~VisitedBefore(c, key[p].seg, s)}

\* A batch is found: it is marked, the lock released, and roommgr called.
Found ==
    /\ pc = "collect" /\ centers # {}
    /\ LET c == Min(centers) IN
       \E w \in Windows(mode), h \in Players, B \in SUBSET Players :
          /\ IsHead(mode, c, h)
          /\ IsBatch(mode, c, h, w, B)
          /\ batch' = B
          /\ MarkAllocating(mode, Visited(mode, c, h, B), w, B, version + 1)
    /\ version' = version + 1
    /\ pc' = "create"
    /\ centers' = {}
    /\ UNCHANGED <<age, shutting_down, todo, mode, unmarked, roomVars>>

\* No centre gave a batch: the lock is released and the pass goes to the next mode.
NoBatch ==
    /\ pc = "collect" /\ centers = {}
    /\ pc' = "next"
    /\ todo' = todo \ {mode}
    /\ UNCHANGED <<key, queueVars, shutting_down, mode, centers, batch, unmarked,
                   allocVars, roomVars>>

\* variants: a canceled batch is not put back; the keys alone are put back.
StillUnlessCanceled ==
    {p \in batch : /\ Is(p, "ROOM_ALLOCATING") /\ key[p].ver = version
                   /\ records[version] = "open"}

RequeueKeysOnly(S) ==
    /\ key' = [p \in Players |->
          IF p \in S THEN Saved(p, "MATCHING", Nil, key[p].room) ELSE key[p]]
    /\ UNCHANGED <<queue, active>>

\* The players of the batch that are still in this allocation.
Still == {p \in batch : Is(p, "ROOM_ALLOCATING") /\ key[p].ver = version}

\* requeue_batch: they are MATCHING again, in the queue of their segment.
Requeue(S) ==
    /\ key' = [p \in Players |->
          IF p \in S THEN Saved(p, "MATCHING", Nil, key[p].room) ELSE key[p]]
    /\ queue' = [queue EXCEPT ![mode] = [s \in Segments |->
          queue[mode][s] \cup {p \in S : key[p].seg = s}]]
    /\ active' = [active EXCEPT ![mode] = @ \cup {key[p].seg : p \in S}]

\* try_match gives the batch up: alloc_records is cleared, and false makes the
\* pass leave this mode.
GiveUp ==
    /\ Requeue(Still)
    /\ records' = [records EXCEPT ![version] = "none"]
    /\ batch' = {}
    /\ pc' = "next"
    /\ todo' = todo \ {mode}
    /\ UNCHANGED <<age, shutting_down, mode, centers, unmarked, version,
                   members, leaveMsgs>>

\* create_room failed; its room, if one exists all the same, is not known here.
CreateFailed ==
    /\ pc = "create"
    /\ room' = [room EXCEPT ![version] = IF @ = "none" THEN "failed"
                                         ELSE IF @ = "created" THEN "lost" ELSE @]
    /\ GiveUp

alloc_canceled ==
    \/ records[version] # "open"
    \/ \E p \in batch : ~Is(p, "ROOM_ALLOCATING") \/ key[p].ver # version

Answered == pc = "create" /\ room[version] \in {"created", "closed"}

\* variant: abort_room is not sent.
AllocCanceledSilently ==
    /\ Answered
    /\ alloc_canceled
    /\ GiveUp
    /\ UNCHANGED room

\* create_room answered, but the allocation was canceled meanwhile.
AllocCanceled ==
    /\ Answered
    /\ alloc_canceled
    /\ room' = [room EXCEPT ![version] = IF @ = "created" THEN "aborting" ELSE @]
    /\ GiveUp

\* create_room answered: mark_batch_preparing begins, under the lock.
HandOver ==
    /\ Answered
    /\ ~alloc_canceled
    /\ room' = [room EXCEPT ![version] = IF @ = "created" THEN "handed" ELSE @]
    /\ pc' = "marking"
    /\ unmarked' = batch
    /\ UNCHANGED <<key, queueVars, shutting_down, todo, mode, centers, batch,
                   allocVars, members, leaveMsgs>>

\* One turn of the loop of mark_batch_preparing: load, set, save.
MarkPreparing(p) ==
    /\ pc = "marking"
    /\ p \in unmarked
    /\ key' = [key EXCEPT ![p] = Saved(p, "ROOM_PREPARING", Nil, version)]
    /\ unmarked' = unmarked \ {p}
    /\ UNCHANGED <<queueVars, shutting_down, pc, todo, mode, centers, batch,
                   allocVars, roomVars>>

\* The loop is over: the record is dropped, the agents notified, and the same
\* mode is tried again.
Handed ==
    /\ pc = "marking" /\ unmarked = {}
    /\ records' = [records EXCEPT ![version] = "none"]
    /\ pc' = "next"
    /\ batch' = {}
    /\ UNCHANGED <<key, queueVars, shutting_down, todo, mode, centers, unmarked,
                   version, roomVars>>

Scan == \/ StartPass \/ EndPass \/ \E m \in Modes : TryMatch(m)
        \/ SkipCenter \/ TooFew \/ Found \/ NoBatch
        \/ AllocCanceled \/ HandOver
        \/ \E p \in Players : MarkPreparing(p)
        \/ Handed
-----------------------------------------------------------------------------
(* The environment: roommgr, the rooms and the clock. *)

\* roommgr.create_room initialised a room for the batch; its answer is on the way.
CreateRoom ==
    /\ pc = "create"
    /\ room[version] = "none"
    /\ room' = [room EXCEPT ![version] = "created"]
    /\ members' = [members EXCEPT ![version] = batch]
    /\ UNCHANGED <<key, queueVars, shutting_down, scanVars, allocVars, leaveMsgs>>

\* The room handles a leave message: it forgets the player and deletes the key,
\* whatever the key says by now.  A closed room still does so when the message
\* waited for prepare_room_lock while the room was aborting, and ignores it later.
RoomLeave(v, p) ==
    /\ <<v, p>> \in leaveMsgs
    /\ leaveMsgs' = leaveMsgs \ {<<v, p>>}
    /\ \/ /\ p \in members[v]
          /\ key' = Cleared(p)
          /\ members' = [members EXCEPT ![v] = @ \ {p}]
       \/ /\ p \notin members[v] \/ room[v] = "closed"
          /\ UNCHANGED <<key, members>>
    /\ UNCHANGED <<queueVars, shutting_down, scanVars, allocVars, room>>

\* A room starts the game of a player that is preparing in it.
RoomRunning(v, p) ==
    /\ room[v] = "handed"
    /\ Is(p, "ROOM_PREPARING") /\ key[p].room = v
    /\ key' = [key EXCEPT ![p] = Saved(p, "RUNNING", key[p].ver, v)]
    /\ UNCHANGED <<queueVars, shutting_down, scanVars, allocVars, roomVars>>

\* A room ends (prepare timer, abort or settlement), clearing its players' keys;
\* one that match told to abort leaves the keys alone.
RoomClose(v) ==
    /\ room[v] \in {"created", "handed", "aborting", "lost"}
    /\ key' = [p \in Players |-> IF p \in members[v] /\ room[v] # "aborting"
                                   THEN EmptyPlayerState ELSE key[p]]
    /\ room' = [room EXCEPT ![v] = "closed"]
    /\ UNCHANGED <<queueVars, shutting_down, scanVars, allocVars, members, leaveMsgs>>

\* Another expand interval has passed for a queued player.
Tick(p) ==
    /\ Is(p, "MATCHING")
    /\ age[p] < MaxAge
    /\ age' = [age EXCEPT ![p] = @ + 1]
    /\ UNCHANGED <<key, queue, active, shutting_down, scanVars, allocVars, roomVars>>

Handlers == \/ \E p \in Players, m \in Modes, s \in Segments : Join(p, m, s)
            \/ \E p \in Players : Cancel(p) \/ Leave(p)
            \/ Shutdown

Rooms == \/ \E v \in Versions, p \in Players :
               RoomLeave(v, p) \/ RoomRunning(v, p)
         \/ \E v \in Versions : RoomClose(v)

Next == Handlers \/ Scan \/ CreateRoom \/ CreateFailed \/ Rooms
        \/ \E p \in Players : Tick(p)

Spec == Init /\ [][Next]_vars

\* The scan coroutine keeps running, and a call to roommgr ends, one way or the other.
FairSpec == Spec /\ WF_vars(Scan) /\ WF_vars(CreateRoom \/ CreateFailed)
-----------------------------------------------------------------------------
(* Properties. *)

TypeOK ==
    /\ key \in [Players -> PlayerState]
    /\ queue \in [Modes -> [Segments -> SUBSET Players]]
    /\ active \in [Modes -> SUBSET Segments]
    /\ age \in [Players -> Nat]
    /\ shutting_down \in BOOLEAN
    /\ pc \in {"sleep", "next", "collect", "create", "marking"}
    /\ todo \subseteq Modes
    /\ mode \in Modes \cup {Nil}
    /\ centers \subseteq Segments
    /\ batch \subseteq Players
    /\ unmarked \subseteq batch
    /\ version \in 0..MaxVersion
    /\ records \in [Versions -> {"none", "open", "canceled"}]
    /\ room \in [Versions -> {"none", "created", "handed", "aborting", "failed",
                              "lost", "closed"}]
    /\ members \in [Versions -> SUBSET Players]
    /\ leaveMsgs \subseteq Versions \X Players

\* A player redis calls MATCHING is where a scan will look for it: in the queue
\* of its mode and segment, and that segment is in the active set.  join, requeue,
\* the stale-entry removal and the SREM of empty segments keep this together.
MatchingIsFindable ==
    \A p \in Players : Is(p, "MATCHING") =>
        /\ p \in queue[key[p].mode][key[p].seg]
        /\ key[p].seg \in active[key[p].mode]

\* A ROOM_ALLOCATING player belongs to the allocation try_match is working on: no
\* path of the second critical section leaves a player behind in that state, where
\* neither the scan nor cancel would ever touch it again.
AllocatingIsPending ==
    \A p \in Players : Is(p, "ROOM_ALLOCATING") =>
        /\ pc \in {"create", "marking"}
        /\ key[p].ver = version
        /\ p \in IF pc = "create" THEN batch ELSE unmarked

\* From the alloc_canceled test to the last save of mark_batch_preparing no leave,
\* cancel or join slips in: the allocation stays open, and a player not yet saved
\* is still ROOM_ALLOCATING for it unless a room deleted its key.
HandOverUndisturbed ==
    pc = "marking" =>
        /\ records[version] = "open"
        /\ \A p \in unmarked : \/ Is(p, "ROOM_ALLOCATING") /\ key[p].ver = version
                               \/ Is(p, "IDLE")

\* A key that names a room names one that was created for this player and was
\* handed over by match: a room whose allocation failed or was canceled gets nobody.
InOwnRoom ==
    \A p \in Players : Is(p, "ROOM_PREPARING") \/ Is(p, "RUNNING") =>
        /\ key[p].room \in Versions
        /\ p \in members[key[p].room]
        /\ room[key[p].room] \in {"handed", "closed"}

\* When try_match is not waiting for a room, no room it knows of waits for players
\* it will never be told about, and alloc_records is empty.
NothingLeftBehind ==
    pc \notin {"create", "marking"} =>
        \A v \in Versions : room[v] # "created" /\ records[v] = "none"

\* A room is asked for exactly its number of players, of its mode, and there is one
\* among them whose segment the others are within max_expand_segment of, however
\* long anybody has waited.
BatchWithinReach ==
    pc = "create" /\ Still = batch =>
        /\ Cardinality(batch) = PlayerNum[mode]
        /\ \E h \in batch : \A p \in batch :
              key[p].mode = mode /\ Dist(key[h].seg, key[p].seg) <= MaxExpand[mode]

\* Whatever roommgr answers, and whoever leaves meanwhile, an allocation does not
\* keep a player: it ends up queued, in a room, or out.
AllocatingResolved == \A p \in Players : Is(p, "ROOM_ALLOCATING") ~> ~Is(p, "ROOM_ALLOCATING")

\* Two players a scan may pair: same mode, and a centre reaches both.
Compatible(p, q) ==
    /\ Is(p, "MATCHING") /\ Is(q, "MATCHING")
    /\ key[p].mode = key[q].mode
    /\ Dist(key[p].seg, key[q].seg) <= MaxExpand[key[p].mode]
    /\ age[p] >= MaxExpand[key[p].mode] /\ age[q] >= MaxExpand[key[q].mode]

\* For rooms of two: players that waited long enough to reach each other do not
\* both wait on while the service scans.
PairMatched ==
    \A pair \in {S \in SUBSET Players : Cardinality(S) = 2} :
        LET Both == \A p, q \in pair : p # q => Compatible(p, q)
        IN Both ~> ~Both \/ shutting_down \/ version = MaxVersion
=============================================================================
