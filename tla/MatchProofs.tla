---------------------------- MODULE MatchProofs ----------------------------
(***************************************************************************)
(* Proofs about the match service, for any players, modes, segments and    *)
(* match configuration.                                                    *)
(***************************************************************************)
EXTENDS Match, TLAPS

\* Where the scan is bounds what it may hold: an allocation is being worked on
\* exactly in "create" and "marking", and there is room for another in "collect".
ScanInv ==
    /\ pc = "collect" => version < MaxVersion /\ mode \in Modes
    /\ pc # "marking" => unmarked = {}
    /\ pc \in {"create", "marking"} => version \in Versions /\ mode \in Modes
    /\ pc = "marking" => room[version] \in {"handed", "closed"} /\ members[version] = batch
    /\ pc = "create" => /\ room[version] \in {"none", "created", "closed"}
                        /\ room[version] # "none" => members[version] = batch

\* Allocations beyond the counter have not happened; the rooms of earlier ones are
\* settled, and only the current one may have a record.
VersionInv ==
    /\ \A v \in Versions : v > version => room[v] = "none"
    /\ \A v \in Versions : v # version => room[v] # "created" /\ records[v] = "none"

\* Queued and allocating players carry the mode and segment they queued with; an
\* allocating player that of the batch.
KeyInv ==
    \A p \in Players :
        /\ Is(p, "MATCHING") \/ Is(p, "ROOM_ALLOCATING") =>
               key[p].mode \in Modes /\ key[p].seg \in Segments
        /\ Is(p, "ROOM_ALLOCATING") => key[p].mode = mode

\* A room that players know of, and a leave on its way to it, is not the room
\* being created; while players are handed over no leave for it is on its way.
RoomInv ==
    /\ \A p \in Players : Is(p, "ROOM_PREPARING") \/ Is(p, "RUNNING") =>
           key[p].room <= version /\ (pc = "create" => key[p].room < version)
    /\ \A v \in Versions, p \in Players : <<v, p>> \in leaveMsgs =>
           v <= version /\ (pc \in {"create", "marking"} => v < version)

\* The inductive invariant.
IInv == /\ TypeOK /\ ScanInv /\ VersionInv /\ KeyInv /\ RoomInv
        /\ MatchingIsFindable /\ AllocatingIsPending /\ HandOverUndisturbed
        /\ InOwnRoom /\ NothingLeftBehind

USE KeysAssumption, MatchAssumption DEF Is, Versions

\* A missing key reads as a well-typed record (empty_player_state).
LEMMA EmptyType == EmptyPlayerState \in PlayerState
BY DEF EmptyPlayerState, PlayerState, States, Nil

\* What saving a player with a new state, allocation and room gives.
LEMMA SavedType ==
    ASSUME TypeOK, NEW p \in Players, NEW st \in States, NEW v \in Nat, NEW r \in Nat
    PROVE  /\ Saved(p, st, v, r) \in PlayerState
           /\ Saved(p, st, v, r).state = st
           /\ Saved(p, st, v, r).ver = v
           /\ Saved(p, st, v, r).room = r
           /\ Saved(p, st, v, r).mode = key[p].mode
           /\ Saved(p, st, v, r).seg = key[p].seg
BY DEF Saved, TypeOK, PlayerState

\* Replacing the queues of one mode keeps the zsets well typed.
LEMMA QueueType ==
    ASSUME NEW q \in [Modes -> [Segments -> SUBSET Players]], NEW m \in Modes,
           NEW f \in [Segments -> SUBSET Players]
    PROVE  [q EXCEPT ![m] = f] \in [Modes -> [Segments -> SUBSET Players]]
OBVIOUS

\* join puts key, queue and active segment in place together.
LEMMA JoinStep ==
    ASSUME IInv, NEW p \in Players, NEW m \in Modes, NEW s \in Segments, Join(p, m, s)
    PROVE  IInv'
<1> USE DEF IInv, Join, Locked, queueVars, scanVars, allocVars, roomVars
<1>1. TypeOK'
  <2>1. key' \in [Players -> PlayerState]
    BY DEF TypeOK, PlayerState, EmptyPlayerState, States, Nil
  <2> QED BY <2>1 DEF TypeOK
<1>2. ScanInv' /\ VersionInv' /\ RoomInv' /\ NothingLeftBehind'
  BY DEF TypeOK, ScanInv, VersionInv, RoomInv, NothingLeftBehind, EmptyPlayerState
<1>3. KeyInv' /\ MatchingIsFindable'
  BY DEF TypeOK, ScanInv, KeyInv, MatchingIsFindable, EmptyPlayerState
<1>4. AllocatingIsPending' /\ HandOverUndisturbed' /\ InOwnRoom'
  BY DEF TypeOK, ScanInv, KeyInv, AllocatingIsPending, HandOverUndisturbed, InOwnRoom, EmptyPlayerState
<1> QED BY <1>1, <1>2, <1>3, <1>4

\* cancel, and leave of a queued player, take the player out of queue and key.
LEMMA DequeueStep ==
    ASSUME IInv, NEW p \in Players, ~Locked, Dequeue(p)
    PROVE  IInv'
<1> USE DEF IInv, Dequeue, Locked, Cleared, queueVars, scanVars, allocVars, roomVars
<1>1. TypeOK'
  <2>1. key' \in [Players -> PlayerState]
    BY EmptyType DEF TypeOK
  <2>2. queue' \in [Modes -> [Segments -> SUBSET Players]]
    <3> DEFINE f == [queue[key[p].mode] EXCEPT ![key[p].seg] = @ \ {p}]
    <3>1. key[p].mode \in Modes
      BY DEF KeyInv
    <3>2. queue[key[p].mode] \in [Segments -> SUBSET Players]
      BY <3>1 DEF TypeOK
    <3>3. f \in [Segments -> SUBSET Players]
      BY <3>2
    <3> QED BY <3>1, <3>3, QueueType DEF TypeOK
  <2> QED BY <2>1, <2>2 DEF TypeOK
<1>2. ScanInv' /\ VersionInv' /\ RoomInv' /\ NothingLeftBehind'
  BY DEF TypeOK, ScanInv, VersionInv, RoomInv, NothingLeftBehind, EmptyPlayerState
<1>3. KeyInv' /\ MatchingIsFindable'
  BY DEF TypeOK, ScanInv, KeyInv, MatchingIsFindable, EmptyPlayerState
<1>4. AllocatingIsPending' /\ HandOverUndisturbed' /\ InOwnRoom'
  BY DEF TypeOK, ScanInv, KeyInv, AllocatingIsPending, HandOverUndisturbed, InOwnRoom, EmptyPlayerState
<1> QED BY <1>1, <1>2, <1>3, <1>4

\* leave during create_room marks the allocation and deletes the key.
LEMMA LeaveAllocatingStep ==
    ASSUME IInv, NEW p \in Players, ~Locked, LeaveAllocating(p)
    PROVE  IInv'
<1> USE DEF IInv, LeaveAllocating, Locked, Cleared, queueVars, scanVars, allocVars, roomVars
<1>1. TypeOK'
  <2>1. key' \in [Players -> PlayerState]
    BY EmptyType DEF TypeOK
  <2> QED BY <2>1 DEF TypeOK
<1>2. ScanInv' /\ VersionInv' /\ RoomInv' /\ NothingLeftBehind'
  BY DEF TypeOK, ScanInv, VersionInv, RoomInv, NothingLeftBehind, EmptyPlayerState
<1>3. KeyInv' /\ MatchingIsFindable'
  BY DEF TypeOK, ScanInv, KeyInv, MatchingIsFindable, EmptyPlayerState
<1>4. AllocatingIsPending' /\ HandOverUndisturbed' /\ InOwnRoom'
  BY DEF TypeOK, ScanInv, KeyInv, AllocatingIsPending, HandOverUndisturbed, InOwnRoom, EmptyPlayerState
<1> QED BY <1>1, <1>2, <1>3, <1>4

\* leave of a player with a room only sends a message to a room that was handed over.
LEMMA LeaveRoomStep ==
    ASSUME IInv, NEW p \in Players, ~Locked, LeaveRoom(p)
    PROVE  IInv'
<1> USE DEF IInv, LeaveRoom, Locked, queueVars, scanVars, allocVars, roomVars
<1>1. TypeOK'
  BY DEF TypeOK, InOwnRoom
<1>2. ScanInv' /\ VersionInv' /\ RoomInv' /\ NothingLeftBehind'
  BY DEF TypeOK, ScanInv, VersionInv, RoomInv, NothingLeftBehind, InOwnRoom, EmptyPlayerState
<1>3. KeyInv' /\ MatchingIsFindable'
  BY DEF TypeOK, ScanInv, KeyInv, MatchingIsFindable, EmptyPlayerState
<1>4. AllocatingIsPending' /\ HandOverUndisturbed' /\ InOwnRoom'
  BY DEF TypeOK, ScanInv, KeyInv, AllocatingIsPending, HandOverUndisturbed, InOwnRoom, EmptyPlayerState
<1> QED BY <1>1, <1>2, <1>3, <1>4

\* shutdown lets go exactly queued MATCHING players.
LEMMA ShutdownStep ==
    ASSUME IInv, Shutdown
    PROVE  IInv'
<1> USE DEF IInv, Shutdown, Locked, queueVars, scanVars, allocVars, roomVars
<1>1. TypeOK'
  <2>1. key' \in [Players -> PlayerState]
    BY EmptyType DEF TypeOK
  <2> QED BY <2>1 DEF TypeOK
<1>2. ScanInv' /\ VersionInv' /\ RoomInv' /\ NothingLeftBehind'
  BY DEF TypeOK, ScanInv, VersionInv, RoomInv, NothingLeftBehind, EmptyPlayerState
<1>3. KeyInv' /\ MatchingIsFindable'
  BY DEF TypeOK, ScanInv, KeyInv, MatchingIsFindable, EmptyPlayerState
<1>4. AllocatingIsPending' /\ HandOverUndisturbed' /\ InOwnRoom'
  BY DEF TypeOK, ScanInv, KeyInv, AllocatingIsPending, HandOverUndisturbed, InOwnRoom, EmptyPlayerState
<1> QED BY <1>1, <1>2, <1>3, <1>4

\* The scan wakes up.
LEMMA StartPassStep ==
    ASSUME IInv, StartPass
    PROVE  IInv'
<1> USE DEF IInv, StartPass, queueVars, scanVars, allocVars, roomVars
<1>1. TypeOK'
  BY DEF TypeOK, ScanInv
<1>2. ScanInv' /\ VersionInv' /\ RoomInv' /\ NothingLeftBehind'
  BY DEF TypeOK, ScanInv, VersionInv, RoomInv, NothingLeftBehind, EmptyPlayerState
<1>3. KeyInv' /\ MatchingIsFindable'
  BY DEF TypeOK, ScanInv, KeyInv, MatchingIsFindable, EmptyPlayerState
<1>4. AllocatingIsPending' /\ HandOverUndisturbed' /\ InOwnRoom'
  BY DEF TypeOK, ScanInv, KeyInv, AllocatingIsPending, HandOverUndisturbed, InOwnRoom, EmptyPlayerState
<1> QED BY <1>1, <1>2, <1>3, <1>4

\* The scan goes back to sleep.
LEMMA EndPassStep ==
    ASSUME IInv, EndPass
    PROVE  IInv'
<1> USE DEF IInv, EndPass, queueVars, scanVars, allocVars, roomVars
<1>1. TypeOK'
  BY DEF TypeOK, ScanInv
<1>2. ScanInv' /\ VersionInv' /\ RoomInv' /\ NothingLeftBehind'
  BY DEF TypeOK, ScanInv, VersionInv, RoomInv, NothingLeftBehind, EmptyPlayerState
<1>3. KeyInv' /\ MatchingIsFindable'
  BY DEF TypeOK, ScanInv, KeyInv, MatchingIsFindable, EmptyPlayerState
<1>4. AllocatingIsPending' /\ HandOverUndisturbed' /\ InOwnRoom'
  BY DEF TypeOK, ScanInv, KeyInv, AllocatingIsPending, HandOverUndisturbed, InOwnRoom, EmptyPlayerState
<1> QED BY <1>1, <1>2, <1>3, <1>4

\* try_match takes state_lock; nothing is being allocated then.
LEMMA TryMatchStep ==
    ASSUME IInv, NEW m \in Modes, TryMatch(m)
    PROVE  IInv'
<1> USE DEF IInv, TryMatch, queueVars, scanVars, allocVars, roomVars
<1>1. TypeOK'
  BY DEF TypeOK, ScanInv
<1>2. ScanInv' /\ VersionInv' /\ RoomInv' /\ NothingLeftBehind'
  BY DEF TypeOK, ScanInv, VersionInv, RoomInv, NothingLeftBehind, EmptyPlayerState
<1>3. KeyInv' /\ MatchingIsFindable'
  BY DEF TypeOK, KeyInv, MatchingIsFindable, AllocatingIsPending, EmptyPlayerState
<1>4. AllocatingIsPending' /\ HandOverUndisturbed' /\ InOwnRoom'
  BY DEF TypeOK, ScanInv, KeyInv, AllocatingIsPending, HandOverUndisturbed, InOwnRoom, EmptyPlayerState
<1> QED BY <1>1, <1>2, <1>3, <1>4

\* try_match finds no batch and releases the lock.
LEMMA NoBatchStep ==
    ASSUME IInv, NoBatch
    PROVE  IInv'
<1> USE DEF IInv, NoBatch, queueVars, scanVars, allocVars, roomVars
<1>1. TypeOK'
  BY DEF TypeOK, ScanInv
<1>2. ScanInv' /\ VersionInv' /\ RoomInv' /\ NothingLeftBehind'
  BY DEF TypeOK, ScanInv, VersionInv, RoomInv, NothingLeftBehind, EmptyPlayerState
<1>3. KeyInv' /\ MatchingIsFindable'
  BY DEF TypeOK, ScanInv, KeyInv, MatchingIsFindable, EmptyPlayerState
<1>4. AllocatingIsPending' /\ HandOverUndisturbed' /\ InOwnRoom'
  BY DEF TypeOK, ScanInv, KeyInv, AllocatingIsPending, HandOverUndisturbed, InOwnRoom, EmptyPlayerState
<1> QED BY <1>1, <1>2, <1>3, <1>4

\* The last save of mark_batch_preparing is done: nobody is left to mark.
LEMMA HandedStep ==
    ASSUME IInv, Handed
    PROVE  IInv'
<1> USE DEF IInv, Handed, queueVars, scanVars, allocVars, roomVars
<1>1. TypeOK'
  BY DEF TypeOK, ScanInv
<1>2. ScanInv' /\ VersionInv' /\ RoomInv' /\ NothingLeftBehind'
  BY DEF TypeOK, ScanInv, VersionInv, RoomInv, NothingLeftBehind, EmptyPlayerState
<1>3. KeyInv' /\ MatchingIsFindable'
  BY DEF TypeOK, ScanInv, KeyInv, MatchingIsFindable, EmptyPlayerState
<1>4. AllocatingIsPending' /\ HandOverUndisturbed' /\ InOwnRoom'
  BY DEF TypeOK, ScanInv, KeyInv, AllocatingIsPending, HandOverUndisturbed, InOwnRoom, EmptyPlayerState
<1> QED BY <1>1, <1>2, <1>3, <1>4

\* Time passes for a queued player.
LEMMA TickStep ==
    ASSUME IInv, NEW p \in Players, Tick(p)
    PROVE  IInv'
<1> USE DEF IInv, Tick, queueVars, scanVars, allocVars, roomVars
<1>1. TypeOK'
  BY DEF TypeOK, ScanInv
<1>2. ScanInv' /\ VersionInv' /\ RoomInv' /\ NothingLeftBehind'
  BY DEF TypeOK, ScanInv, VersionInv, RoomInv, NothingLeftBehind, EmptyPlayerState
<1>3. KeyInv' /\ MatchingIsFindable'
  BY DEF TypeOK, ScanInv, KeyInv, MatchingIsFindable, EmptyPlayerState
<1>4. AllocatingIsPending' /\ HandOverUndisturbed' /\ InOwnRoom'
  BY DEF TypeOK, ScanInv, KeyInv, AllocatingIsPending, HandOverUndisturbed, InOwnRoom, EmptyPlayerState
<1> QED BY <1>1, <1>2, <1>3, <1>4

\* roommgr creates the room of the allocation in progress.
LEMMA CreateRoomStep ==
    ASSUME IInv, CreateRoom
    PROVE  IInv'
<1> USE DEF IInv, CreateRoom, queueVars, scanVars, allocVars, roomVars
<1>1. TypeOK'
  BY DEF TypeOK, ScanInv
<1>2. ScanInv' /\ VersionInv' /\ RoomInv' /\ NothingLeftBehind'
  BY DEF TypeOK, ScanInv, VersionInv, RoomInv, NothingLeftBehind, EmptyPlayerState
<1>3. KeyInv' /\ MatchingIsFindable'
  BY DEF TypeOK, ScanInv, KeyInv, MatchingIsFindable, EmptyPlayerState
<1>4. AllocatingIsPending' /\ HandOverUndisturbed' /\ InOwnRoom'
  BY DEF TypeOK, ScanInv, KeyInv, AllocatingIsPending, HandOverUndisturbed, InOwnRoom, EmptyPlayerState
<1> QED BY <1>1, <1>2, <1>3, <1>4

\* The alloc_canceled test passes: every player of the batch is still in it.
LEMMA HandOverStep ==
    ASSUME IInv, HandOver
    PROVE  IInv'
<1> USE DEF IInv, HandOver, Answered, alloc_canceled, queueVars, scanVars, allocVars, roomVars
<1>1. TypeOK'
  BY DEF TypeOK, ScanInv
<1>2. ScanInv' /\ VersionInv' /\ RoomInv' /\ NothingLeftBehind'
  BY DEF TypeOK, ScanInv, VersionInv, RoomInv, NothingLeftBehind, EmptyPlayerState
<1>3. KeyInv' /\ MatchingIsFindable'
  BY DEF TypeOK, ScanInv, KeyInv, MatchingIsFindable, EmptyPlayerState
<1>4. AllocatingIsPending' /\ HandOverUndisturbed' /\ InOwnRoom'
  BY DEF TypeOK, ScanInv, KeyInv, AllocatingIsPending, HandOverUndisturbed, InOwnRoom, EmptyPlayerState
<1> QED BY <1>1, <1>2, <1>3, <1>4

\* mark_batch_preparing saves one player of the batch.
LEMMA MarkPreparingStep ==
    ASSUME IInv, NEW p \in Players, MarkPreparing(p)
    PROVE  IInv'
<1> USE DEF IInv, MarkPreparing, queueVars, scanVars, allocVars, roomVars
<1>1. TypeOK'
  <2>1. key' \in [Players -> PlayerState]
    BY SavedType DEF TypeOK, States, Nil
  <2> QED BY <2>1 DEF TypeOK
<1>2. ScanInv' /\ VersionInv' /\ RoomInv' /\ NothingLeftBehind'
  BY DEF TypeOK, ScanInv, VersionInv, RoomInv, NothingLeftBehind, Saved
<1>3. KeyInv' /\ MatchingIsFindable'
  BY DEF TypeOK, ScanInv, KeyInv, MatchingIsFindable, Saved
<1>4. AllocatingIsPending' /\ HandOverUndisturbed' /\ InOwnRoom'
  BY DEF TypeOK, ScanInv, KeyInv, AllocatingIsPending, HandOverUndisturbed, InOwnRoom, Saved
<1> QED BY <1>1, <1>2, <1>3, <1>4

\* A room handles a leave: the player loses its key, and its seat with it.
LEMMA RoomLeaveStep ==
    ASSUME IInv, NEW v \in Versions, NEW p \in Players, RoomLeave(v, p)
    PROVE  IInv'
<1> USE DEF IInv, RoomLeave, Cleared, queueVars, scanVars, allocVars, roomVars
<1>1. TypeOK'
  <2>1. key' \in [Players -> PlayerState]
    BY EmptyType DEF TypeOK
  <2> QED BY <2>1 DEF TypeOK
<1>2. /\ \A q \in Players : key'[q] = key[q] \/ key'[q] = EmptyPlayerState
      /\ \A q \in Players, w \in Versions : q \in members[w] =>
            q \in members'[w] \/ key'[q] = EmptyPlayerState
      /\ \A w \in Versions : w # v => members'[w] = members[w]
  <2>1. CASE key' = [key EXCEPT ![p] = EmptyPlayerState] /\ members' = [members EXCEPT ![v] = @ \ {p}]
    BY <2>1 DEF TypeOK
  <2>2. CASE key' = key /\ members' = members
    BY <2>2
  <2> QED BY <2>1, <2>2
<1>3. UNCHANGED <<queue, active, pc, mode, batch, unmarked, version, records, room>>
  OBVIOUS
<1>4. ScanInv' /\ VersionInv' /\ RoomInv' /\ NothingLeftBehind'
  <2>1. pc \in {"create", "marking"} => v # version
    BY DEF RoomInv
  <2>2. ScanInv'
    BY <1>2, <1>3, <2>1 DEF ScanInv
  <2>3. VersionInv' /\ RoomInv' /\ NothingLeftBehind'
    BY <1>2, <1>3 DEF VersionInv, RoomInv, NothingLeftBehind, EmptyPlayerState
  <2> QED BY <2>2, <2>3
<1>5. KeyInv' /\ MatchingIsFindable'
  BY <1>2, <1>3 DEF KeyInv, MatchingIsFindable, EmptyPlayerState
<1>6. AllocatingIsPending' /\ HandOverUndisturbed'
  <2>1. AllocatingIsPending'
    BY <1>2, <1>3 DEF AllocatingIsPending, EmptyPlayerState
  <2>2. HandOverUndisturbed'
    BY <1>2, <1>3 DEF TypeOK, HandOverUndisturbed, EmptyPlayerState
  <2> QED BY <2>1, <2>2
<1>7. InOwnRoom'
  BY <1>2, <1>3 DEF InOwnRoom, EmptyPlayerState
<1> QED BY <1>1, <1>4, <1>5, <1>6, <1>7

\* A room starts the game of one of its players.
LEMMA RoomRunningStep ==
    ASSUME IInv, NEW v \in Versions, NEW p \in Players, RoomRunning(v, p)
    PROVE  IInv'
<1> USE DEF IInv, RoomRunning, queueVars, scanVars, allocVars, roomVars
<1>1. TypeOK'
  <2>1. key' \in [Players -> PlayerState]
    <3>1. key[p].ver \in Nat /\ v \in Nat /\ "RUNNING" \in States
      BY DEF TypeOK, PlayerState, States
    <3>2. Saved(p, "RUNNING", key[p].ver, v) \in PlayerState
      BY <3>1, SavedType
    <3> QED BY <3>2 DEF TypeOK
  <2> QED BY <2>1 DEF TypeOK
<1>2. ScanInv' /\ VersionInv' /\ RoomInv' /\ NothingLeftBehind'
  BY DEF TypeOK, ScanInv, VersionInv, RoomInv, NothingLeftBehind, Saved
<1>3. KeyInv' /\ MatchingIsFindable'
  BY DEF TypeOK, ScanInv, KeyInv, MatchingIsFindable, Saved
<1>4. AllocatingIsPending' /\ HandOverUndisturbed' /\ InOwnRoom'
  BY DEF TypeOK, ScanInv, KeyInv, AllocatingIsPending, HandOverUndisturbed, InOwnRoom, Saved
<1> QED BY <1>1, <1>2, <1>3, <1>4

\* A room ends and deletes the keys of its players, or leaves all keys alone.
LEMMA RoomCloseStep ==
    ASSUME IInv, NEW v \in Versions, RoomClose(v)
    PROVE  IInv'
<1> USE DEF IInv, RoomClose, queueVars, scanVars, allocVars, roomVars
<1>1. TypeOK'
  <2>1. key' \in [Players -> PlayerState]
    BY EmptyType DEF TypeOK
  <2> QED BY <2>1 DEF TypeOK
<1>2. ScanInv' /\ VersionInv' /\ RoomInv' /\ NothingLeftBehind'
  BY DEF TypeOK, ScanInv, VersionInv, RoomInv, NothingLeftBehind, EmptyPlayerState
<1>3. KeyInv' /\ MatchingIsFindable'
  BY DEF TypeOK, ScanInv, KeyInv, MatchingIsFindable, EmptyPlayerState
<1>4. AllocatingIsPending' /\ HandOverUndisturbed' /\ InOwnRoom'
  BY DEF TypeOK, ScanInv, KeyInv, AllocatingIsPending, HandOverUndisturbed, InOwnRoom, EmptyPlayerState
<1> QED BY <1>1, <1>2, <1>3, <1>4

\* The two ways a centre is given up change nothing but stale entries of queues and
\* the active flags of empty queues.
LEMMA FetchStep ==
    ASSUME IInv, pc = "collect",
           queue' \in [Modes -> [Segments -> SUBSET Players]],
           active' \in [Modes -> SUBSET Segments],
           centers' \subseteq Segments,
           \A m \in Modes, s \in Segments :
               /\ \A p \in queue[m][s] : p \in queue'[m][s] \/ p \notin Valid(m, s)
               /\ s \in active[m] => s \in active'[m] \/ queue[m][s] = {},
           UNCHANGED <<key, age, shutting_down, pc, todo, mode, batch, unmarked,
                       allocVars, roomVars>>
    PROVE  IInv'
<1> USE DEF IInv, allocVars, roomVars
<1>1. TypeOK'
  BY DEF TypeOK
<1>2. ScanInv' /\ VersionInv' /\ RoomInv' /\ NothingLeftBehind' /\ KeyInv'
  BY DEF ScanInv, VersionInv, RoomInv, NothingLeftBehind, KeyInv
<1>3. AllocatingIsPending' /\ HandOverUndisturbed' /\ InOwnRoom'
  BY DEF AllocatingIsPending, HandOverUndisturbed, InOwnRoom
<1>4. MatchingIsFindable'
  BY DEF KeyInv, MatchingIsFindable, Valid
<1> QED BY <1>1, <1>2, <1>3, <1>4

\* A centre whose oldest entry is stale is given up.
LEMMA SkipCenterStep == ASSUME IInv, SkipCenter PROVE IInv'
<1> DEFINE c == Min(centers)
<1>3. \/ queue[mode][c] = {} /\ active' = [active EXCEPT ![mode] = @ \ {c}] /\ queue' = queue
      \/ \E p \in queue[mode][c] \ Valid(mode, c) :
            queue' = [queue EXCEPT ![mode][c] = @ \ {p}] /\ active' = active
  BY DEF SkipCenter
<1> HIDE DEF c
<1>1. CASE queue[mode][c] = {} /\ active' = [active EXCEPT ![mode] = @ \ {c}] /\ queue' = queue
  BY <1>1, FetchStep DEF SkipCenter, IInv, TypeOK
<1>2. ASSUME NEW p \in queue[mode][c] \ Valid(mode, c),
             queue' = [queue EXCEPT ![mode][c] = @ \ {p}], active' = active
      PROVE  IInv'
  <2>1. queue' \in [Modes -> [Segments -> SUBSET Players]]
    <3> DEFINE f == [queue[mode] EXCEPT ![c] = @ \ {p}]
    <3>1. mode \in Modes /\ queue' = [queue EXCEPT ![mode] = f]
      BY <1>2 DEF IInv, ScanInv, SkipCenter
    <3>2. queue[mode] \in [Segments -> SUBSET Players]
      BY <3>1 DEF IInv, TypeOK
    <3>3. f \in [Segments -> SUBSET Players]
      BY <3>2
    <3> QED BY <3>1, <3>3, QueueType DEF IInv, TypeOK
  <2>2. \A m \in Modes, s \in Segments :
          \A q \in queue[m][s] : q \in queue'[m][s] \/ q \notin Valid(m, s)
    <3> SUFFICES ASSUME NEW m \in Modes, NEW s \in Segments, NEW q \in queue[m][s],
                        q \notin queue'[m][s]
                 PROVE  q \notin Valid(m, s)
      OBVIOUS
    <3>1. m = mode /\ s = c /\ q = p
      BY <1>2 DEF IInv, TypeOK
    <3> QED BY <3>1
  <2> QED BY <1>2, <2>1, <2>2, FetchStep DEF SkipCenter, IInv, TypeOK
<1> QED BY <1>1, <1>2, <1>3

\* A centre without enough players is given up.
LEMMA TooFewStep == ASSUME IInv, TooFew PROVE IInv'
<1> PICK S \in SUBSET Segments, w \in Windows(mode) : Purge(mode, S, w)
  BY DEF TooFew, Reach
<1> DEFINE f == [s \in Segments |-> Kept(mode, S, w, s)]
<1>1. mode \in Modes /\ pc = "collect" /\ queue' = [queue EXCEPT ![mode] = f]
  BY DEF TooFew, Purge, IInv, ScanInv
<1>2. f \in [Segments -> SUBSET Players]
  BY <1>1 DEF IInv, TypeOK, Kept
<1>3. queue' \in [Modes -> [Segments -> SUBSET Players]]
  BY <1>1, <1>2, QueueType DEF IInv, TypeOK
<1>4. active' \in [Modes -> SUBSET Segments]
  BY DEF IInv, TypeOK, Purge
<1>5. \A m \in Modes, s \in Segments :
        /\ \A p \in queue[m][s] : p \in queue'[m][s] \/ p \notin Valid(m, s)
        /\ s \in active[m] => s \in active'[m] \/ queue[m][s] = {}
  BY DEF IInv, TypeOK, Purge, Kept
<1> QED BY <1>1, <1>3, <1>4, <1>5, FetchStep DEF TooFew, IInv, TypeOK

\* A batch is marked ROOM_ALLOCATING and leaves the queues; nobody else does.
LEMMA FoundStep ==
    ASSUME IInv, Found
    PROVE  IInv'
<1> USE DEF IInv
<1> DEFINE c == Min(centers)
<1> PICK w \in Windows(mode), h \in Players, B \in SUBSET Players :
      /\ IsBatch(mode, c, h, w, B)
      /\ batch' = B
      /\ MarkAllocating(mode, Visited(mode, c, h, B), w, B, version + 1)
  BY DEF Found
<1> DEFINE S == Visited(mode, c, h, B)
<1>1. /\ pc = "collect" /\ pc' = "create" /\ version' = version + 1 /\ centers' = {}
      /\ version < MaxVersion /\ mode \in Modes /\ version + 1 \in Versions
      /\ UNCHANGED <<age, shutting_down, todo, mode, unmarked, room, members, leaveMsgs>>
  BY DEF Found, ScanInv, TypeOK, roomVars
\* The players of B were valid entries of queues of this mode.
<1>2. \A p \in B : /\ Is(p, "MATCHING") /\ key[p].mode = mode
                   /\ key[p].seg \in Segments /\ p \in queue[mode][key[p].seg]
  BY DEF IsBatch, Candidates, Valid, Reach
<1>3. \A p \in Players :
         /\ p \notin B => key'[p] = key[p]
         /\ p \in B => /\ key'[p] \in PlayerState
                       /\ key'[p].state = "ROOM_ALLOCATING" /\ key'[p].ver = version + 1
                       /\ key'[p].mode = key[p].mode /\ key'[p].seg = key[p].seg
  <2> TAKE p \in Players
  <2>1. key[p].room \in Nat /\ version + 1 \in Nat /\ "ROOM_ALLOCATING" \in States
    BY <1>1 DEF TypeOK, PlayerState, States
  <2>2. key'[p] = IF p \in B THEN Saved(p, "ROOM_ALLOCATING", version + 1, key[p].room)
                             ELSE key[p]
    BY DEF MarkAllocating
  <2> HIDE DEF c, S
  <2>3. CASE p \in B
    BY <2>1, <2>2, <2>3, SavedType
  <2> QED BY <2>2, <2>3
<1>4. \A p \in Players : ~Is(p, "ROOM_ALLOCATING")
  BY <1>1 DEF AllocatingIsPending
<1>5. TypeOK'
  <2>1. key' \in [Players -> PlayerState]
    BY <1>3 DEF TypeOK, MarkAllocating
  <2>2. queue' \in [Modes -> [Segments -> SUBSET Players]]
    <3> DEFINE f == [s \in Segments |-> Kept(mode, S, w, s) \ B]
    <3>1. f \in [Segments -> SUBSET Players]
      BY <1>1 DEF TypeOK, Kept
    <3>2. queue' = [queue EXCEPT ![mode] = f]
      BY DEF MarkAllocating
    <3> QED BY <1>1, <3>1, <3>2, QueueType DEF TypeOK
  <2>3. active' \in [Modes -> SUBSET Segments]
    BY DEF TypeOK, MarkAllocating
  <2>4. records' \in [Versions -> {"none", "open", "canceled"}]
    BY DEF TypeOK, MarkAllocating
  <2> QED BY <1>1, <2>1, <2>2, <2>3, <2>4 DEF TypeOK, ScanInv
<1>6. ScanInv' /\ VersionInv' /\ RoomInv' /\ NothingLeftBehind'
  BY <1>1, <1>3 DEF TypeOK, ScanInv, VersionInv, RoomInv, NothingLeftBehind, InOwnRoom,
                    MarkAllocating
<1>7. KeyInv' /\ AllocatingIsPending' /\ HandOverUndisturbed' /\ InOwnRoom'
  BY <1>1, <1>2, <1>3, <1>4, ZenonT(30)
     DEF TypeOK, KeyInv, AllocatingIsPending, HandOverUndisturbed, InOwnRoom
\* Whoever is not taken keeps its place: it is a valid entry of its own queue.
<1>8. MatchingIsFindable'
  <2> SUFFICES ASSUME NEW p \in Players, Is(p, "MATCHING")'
               PROVE  /\ p \in queue'[key'[p].mode][key'[p].seg]
                      /\ key'[p].seg \in active'[key'[p].mode]
    BY DEF MatchingIsFindable
  <2>1. p \notin B /\ key'[p] = key[p] /\ Is(p, "MATCHING")
    BY <1>3 DEF TypeOK, PlayerState
  <2>2. /\ key[p].mode \in Modes /\ key[p].seg \in Segments
        /\ p \in queue[key[p].mode][key[p].seg] /\ key[p].seg \in active[key[p].mode]
    BY <2>1 DEF KeyInv, MatchingIsFindable
  <2>3. p \in queue'[key[p].mode][key[p].seg]
    BY <2>1, <2>2 DEF TypeOK, MarkAllocating, Kept, Valid
  <2>4. key[p].seg \in active'[key[p].mode]
    BY <2>2 DEF TypeOK, MarkAllocating
  <2> QED BY <2>1, <2>3, <2>4
<1> QED BY <1>5, <1>6, <1>7, <1>8

\* What GiveUp does to the keys and the queues, whatever became of the room.
LEMMA GiveUpStep ==
    ASSUME IInv, pc = "create", GiveUp, room' \in [Versions -> {"none", "created",
               "handed", "aborting", "failed", "lost", "closed"}],
           \A v \in Versions : v # version => room'[v] = room[v],
           room'[version] \notin {"none", "created"},
           \A v \in Versions : room[v] \in {"handed", "closed"} => room'[v] = room[v]
    PROVE  IInv'
<1> USE DEF IInv
<1>1. /\ pc' = "next" /\ batch' = {} /\ version \in Versions /\ mode \in Modes
      /\ records' = [records EXCEPT ![version] = "none"]
      /\ UNCHANGED <<age, shutting_down, mode, centers, unmarked, version, members, leaveMsgs>>
  BY DEF GiveUp, ScanInv
<1>2. \A p \in Players : /\ p \in Still <=> Is(p, "ROOM_ALLOCATING")
                         /\ p \in Still => key[p].mode = mode /\ key[p].seg \in Segments
  BY DEF Still, AllocatingIsPending, KeyInv, TypeOK
<1>3. \A p \in Players :
         /\ p \notin Still => key'[p] = key[p]
         /\ p \in Still => /\ key'[p] \in PlayerState
                           /\ key'[p].state = "MATCHING"
                           /\ key'[p].mode = key[p].mode /\ key'[p].seg = key[p].seg
  <2>1. \A p \in Players : key[p].room \in Nat /\ Nil \in Nat /\ "MATCHING" \in States
    BY DEF TypeOK, PlayerState, States, Nil
  <2>2. \A p \in Players :
          key'[p] = IF p \in Still THEN Saved(p, "MATCHING", Nil, key[p].room) ELSE key[p]
    BY DEF GiveUp, Requeue
  <2> QED BY <2>1, <2>2, SavedType DEF IInv
<1>4. \A p \in Players : ~Is(p, "ROOM_ALLOCATING")'
  BY <1>2, <1>3
<1>5. TypeOK'
  <2>1. key' \in [Players -> PlayerState]
    BY <1>3 DEF TypeOK, GiveUp, Requeue
  <2>2. queue' \in [Modes -> [Segments -> SUBSET Players]]
    <3> DEFINE f == [s \in Segments |-> queue[mode][s] \cup {p \in Still : key[p].seg = s}]
    <3>1. f \in [Segments -> SUBSET Players]
      BY <1>1 DEF TypeOK, Still
    <3>2. queue' = [queue EXCEPT ![mode] = f]
      BY DEF GiveUp, Requeue
    <3> QED BY <1>1, <3>1, <3>2, QueueType DEF TypeOK
  <2>3. active' \in [Modes -> SUBSET Segments]
    <3>1. {key[p].seg : p \in Still} \subseteq Segments
      BY <1>2 DEF Still, TypeOK
    <3> QED BY <1>1, <3>1 DEF TypeOK, GiveUp, Requeue
  <2>4. unmarked = {}
    BY DEF ScanInv
  <2> QED BY <1>1, <2>1, <2>2, <2>3, <2>4 DEF TypeOK, GiveUp
<1>6. ScanInv' /\ VersionInv' /\ NothingLeftBehind'
  BY <1>1 DEF TypeOK, ScanInv, VersionInv, NothingLeftBehind
<1>7. RoomInv' /\ InOwnRoom' /\ KeyInv' /\ AllocatingIsPending' /\ HandOverUndisturbed'
  <2>1. RoomInv'
    BY <1>1, <1>3 DEF RoomInv
  <2>2. InOwnRoom'
    <3> SUFFICES ASSUME NEW p \in Players, Is(p, "ROOM_PREPARING")' \/ Is(p, "RUNNING")'
                 PROVE  /\ key'[p].room \in Versions /\ p \in members'[key'[p].room]
                        /\ room'[key'[p].room] \in {"handed", "closed"}
      BY DEF InOwnRoom
    <3>1. key'[p] = key[p] /\ (Is(p, "ROOM_PREPARING") \/ Is(p, "RUNNING"))
      BY <1>3
    <3>2. /\ key[p].room \in Versions /\ p \in members[key[p].room]
          /\ room[key[p].room] \in {"handed", "closed"}
      BY <3>1 DEF InOwnRoom
    <3> QED BY <1>1, <3>1, <3>2
  <2>3. KeyInv'
    BY <1>1, <1>2, <1>3, <1>4 DEF KeyInv
  <2>4. AllocatingIsPending' /\ HandOverUndisturbed'
    BY <1>1, <1>4 DEF AllocatingIsPending, HandOverUndisturbed
  <2> QED BY <2>1, <2>2, <2>3, <2>4
<1>8. MatchingIsFindable'
  <2> SUFFICES ASSUME NEW p \in Players, Is(p, "MATCHING")'
               PROVE  /\ p \in queue'[key'[p].mode][key'[p].seg]
                      /\ key'[p].seg \in active'[key'[p].mode]
    BY DEF MatchingIsFindable
  <2>1. CASE p \in Still
    BY <2>1, <1>1, <1>2, <1>3 DEF TypeOK, PlayerState, GiveUp, Requeue, Still
  <2>2. CASE p \notin Still
    BY <2>2, <1>1, <1>2, <1>3 DEF TypeOK, PlayerState, GiveUp, Requeue, Still, KeyInv, MatchingIsFindable
  <2> QED BY <2>1, <2>2
<1> QED BY <1>5, <1>6, <1>7, <1>8

\* create_room failed: the batch is put back.
LEMMA CreateFailedStep == ASSUME IInv, CreateFailed PROVE IInv'
BY GiveUpStep DEF CreateFailed, IInv, ScanInv, TypeOK

\* The allocation was canceled meanwhile: whoever stayed is put back.
LEMMA AllocCanceledStep == ASSUME IInv, AllocCanceled PROVE IInv'
BY GiveUpStep DEF AllocCanceled, Answered, IInv, ScanInv, TypeOK
-----------------------------------------------------------------------------
\* clear_all_match_state establishes the invariant.
LEMMA InitIInv == Init => IInv
<1> SUFFICES ASSUME Init PROVE IInv
  OBVIOUS
<1>1. TypeOK
  <2>1. key \in [Players -> PlayerState]
    BY EmptyType DEF Init
  <2>2. queue \in [Modes -> [Segments -> SUBSET Players]]
    BY DEF Init
  <2>3. version \in 0..MaxVersion /\ age \in [Players -> Nat]
    BY DEF Init
  <2> QED BY <2>1, <2>2, <2>3 DEF Init, TypeOK
<1>2. ScanInv /\ VersionInv /\ KeyInv /\ RoomInv
  BY DEF Init, ScanInv, VersionInv, KeyInv, RoomInv, EmptyPlayerState
<1>3. /\ MatchingIsFindable /\ AllocatingIsPending /\ HandOverUndisturbed
      /\ InOwnRoom /\ NothingLeftBehind
  BY DEF Init, MatchingIsFindable, AllocatingIsPending, HandOverUndisturbed, InOwnRoom,
         NothingLeftBehind, EmptyPlayerState
<1> QED BY <1>1, <1>2, <1>3 DEF IInv

\* A step of another service leaves the invariant alone.
LEMMA StutterStep == ASSUME IInv, UNCHANGED vars PROVE IInv'
<1> USE DEF IInv, vars, queueVars, scanVars, allocVars, roomVars
<1>1. TypeOK' /\ ScanInv' /\ VersionInv' /\ KeyInv' /\ RoomInv'
  BY DEF TypeOK, ScanInv, VersionInv, KeyInv, RoomInv
<1>2. /\ MatchingIsFindable' /\ AllocatingIsPending' /\ HandOverUndisturbed'
      /\ InOwnRoom' /\ NothingLeftBehind'
  BY DEF MatchingIsFindable, AllocatingIsPending, HandOverUndisturbed, InOwnRoom,
         NothingLeftBehind
<1> QED BY <1>1, <1>2

\* Every step of the service, the rooms and the clock keeps the invariant.
LEMMA NextIInv == IInv /\ [Next]_vars => IInv'
<1> SUFFICES ASSUME IInv, [Next]_vars PROVE IInv'
  OBVIOUS
<1>1. CASE Handlers
  BY <1>1, JoinStep, DequeueStep, LeaveAllocatingStep, LeaveRoomStep, ShutdownStep
     DEF Handlers, Cancel, Leave
<1>2. CASE Scan
  BY <1>2, StartPassStep, EndPassStep, TryMatchStep, SkipCenterStep, TooFewStep, FoundStep,
     NoBatchStep, AllocCanceledStep, HandOverStep, MarkPreparingStep, HandedStep DEF Scan
<1>3. CASE CreateRoom \/ CreateFailed
  BY <1>3, CreateRoomStep, CreateFailedStep
<1>4. CASE Rooms
  BY <1>4, RoomLeaveStep, RoomRunningStep, RoomCloseStep DEF Rooms
<1>5. CASE \E p \in Players : Tick(p)
  BY <1>5, TickStep
<1>6. CASE UNCHANGED vars
  BY <1>6, StutterStep
<1> QED BY <1>1, <1>2, <1>3, <1>4, <1>5, <1>6 DEF Next

\* The inductive invariant holds throughout: the result the theorems below read off.
THEOREM Invariance == Spec => []IInv
BY InitIInv, NextIInv, PTL DEF Spec

\* The variables of the match service and the keys keep their types, for every set
\* of players, segments and modes: the type invariant of Match.
THEOREM TypeCorrect == Spec => []TypeOK
<1>1. IInv => TypeOK
  BY DEF IInv
<1> QED BY <1>1, Invariance, PTL

\* join, cancel, leave, shutdown, the scan's stale-entry removal and requeue_batch
\* never lose a waiting player: it stays in the queue a scan reads.
THEOREM MatchingStaysFindable == Spec => []MatchingIsFindable
<1>1. IInv => MatchingIsFindable
  BY DEF IInv
<1> QED BY <1>1, Invariance, PTL

\* No path of try_match strands a player in ROOM_ALLOCATING.
THEOREM NobodyStranded == Spec => []AllocatingIsPending
<1>1. IInv => AllocatingIsPending
  BY DEF IInv
<1> QED BY <1>1, Invariance, PTL

\* state_lock makes the alloc_canceled test and mark_batch_preparing one unit
\* towards leave, cancel and join.
THEOREM HandOverIsAtomic == Spec => []HandOverUndisturbed
<1>1. IInv => HandOverUndisturbed
  BY DEF IInv
<1> QED BY <1>1, Invariance, PTL

\* Only rooms that match handed over are named by a player's key, and only by the
\* keys of the players they were created for.
THEOREM PlayersInOwnRooms == Spec => []InOwnRoom
<1>1. IInv => InOwnRoom
  BY DEF IInv
<1> QED BY <1>1, Invariance, PTL

\* After each try_match no allocation record and no unclaimed room is left.
THEOREM AllocationsSettled == Spec => []NothingLeftBehind
<1>1. IInv => NothingLeftBehind
  BY DEF IInv
<1> QED BY <1>1, Invariance, PTL
-----------------------------------------------------------------------------
(* Batches. *)

\* While a room is created: where the players of the batch were queued, though some of
\* them have left meanwhile and may say something else by now.
Reached(h, sg) == \A p \in batch :
    /\ Dist(sg[h], sg[p]) <= MaxExpand[mode]
    /\ p \in Still => key[p].mode = mode /\ key[p].seg = sg[p]
BatchInv == pc = "create" =>
    /\ Cardinality(batch) = PlayerNum[mode]
    /\ \E h \in batch, sg \in [batch -> Segments] : Reached(h, sg)

\* A segment of a ring is not farther away than the ring, also where it is clamped at 0.
LEMMA RingDistance ==
    ASSUME NEW c \in Segments, NEW d \in Nat, NEW s \in Ring(c, d)
    PROVE  Dist(c, s) <= d
<1> c \in Nat
  OBVIOUS
<1>1. CASE s = c + d
  BY <1>1 DEF Dist
<1>2. CASE s = Max({c - d, 0}) /\ c >= d
  <2>1. Max({c - d, 0}) = c - d
    <3> DEFINE m == c - d
    <3>1. m \in {m, 0} /\ \A y \in {m, 0} : m >= y
      BY <1>2
    <3>2. \A x \in {m, 0} : (\A y \in {m, 0} : x >= y) => x = m
      BY <1>2
    <3> QED BY <3>1, <3>2 DEF Max
  <2> QED BY <1>2, <2>1 DEF Dist
<1>3. CASE s = Max({c - d, 0}) /\ c < d
  <2>1. Max({c - d, 0}) = 0
    <3> DEFINE m == c - d
    <3>1. \A y \in {m, 0} : 0 >= y
      BY <1>3
    <3>2. \A x \in {m, 0} : (\A y \in {m, 0} : x >= y) => x = 0
      BY <1>3
    <3> QED BY <3>1, <3>2 DEF Max
  <2> QED BY <1>3, <2>1 DEF Dist
<1> QED BY <1>1, <1>2, <1>3 DEF Ring

\* However long a player waits, it is matched over max_expand_segment at most.
LEMMA ExpandBounded ==
    ASSUME TypeOK, NEW m \in Modes, NEW p \in Players
    PROVE  Expand(m, p) \in Nat /\ Expand(m, p) <= MaxExpand[m]
<1> DEFINE a == MaxExpand[m]  b == age[p]
<1>1. a \in Nat /\ b \in Nat
  BY DEF TypeOK
<1> HIDE DEF a, b
<1>2. \E x \in {a, b} : \A y \in {a, b} : x <= y
  BY <1>1
<1>3. PICK x \in {a, b} : x = Min({a, b}) /\ \A y \in {a, b} : x <= y
  BY <1>2 DEF Min
<1>4. Expand(m, p) = Min({a, b})
  BY DEF Expand, a, b
<1>5. Expand(m, p) \in Nat /\ Expand(m, p) <= a
  BY <1>1, <1>3, <1>4
<1> QED BY <1>5 DEF a

\* What collect_batch takes was valid, in a segment within reach of the centre.
LEMMA CandidateNear ==
    ASSUME IInv, NEW m \in Modes, NEW c \in Segments, NEW h \in Players, NEW w,
           NEW p \in Candidates(m, c, h, w)
    PROVE  /\ p \in Players /\ key[p].mode = m /\ key[p].seg \in Segments
           /\ Dist(c, key[p].seg) <= MaxExpand[m]
<1>1. PICK s \in Reach(c, Expand(m, h)) : p \in Valid(m, s)
  BY DEF Candidates
<1>2. Expand(m, h) \in Nat /\ Expand(m, h) <= MaxExpand[m] /\ MaxExpand[m] \in Nat
  BY ExpandBounded DEF IInv
<1>3. PICK d \in 0..Expand(m, h) : s \in Ring(c, d)
  BY <1>1 DEF Reach
<1>4. s \in Segments /\ d \in Nat /\ d <= MaxExpand[m]
  BY <1>1, <1>2, <1>3 DEF Reach
<1>5. Dist(c, s) <= d
  BY <1>3, <1>4, RingDistance
<1>6. p \in Players /\ key[p].mode = m /\ key[p].seg = s
  BY <1>1, <1>4 DEF Valid, IInv, TypeOK
<1>7. Dist(c, s) \in Int
  BY <1>4 DEF Dist
<1> QED BY <1>4, <1>5, <1>6, <1>7

\* A batch that is found is full and within reach of its centre's head.
LEMMA FoundBatch == ASSUME IInv, Found PROVE BatchInv'
<1> DEFINE c == Min(centers)
<1>1. PICK w \in Windows(mode), h \in Players, B \in SUBSET Players :
          /\ IsHead(mode, c, h) /\ IsBatch(mode, c, h, w, B) /\ batch' = B
          /\ MarkAllocating(mode, Visited(mode, c, h, B), w, B, version + 1)
  BY DEF Found
<1>2. mode \in Modes /\ version \in Nat /\ mode' = mode /\ version' = version + 1
  BY DEF IInv, TypeOK, ScanInv, Found
<1>3. c \in Segments
  <2>1. h \in Players /\ Is(h, "MATCHING") /\ key[h].seg = c
    BY <1>1 DEF IsHead, Valid
  <2> QED BY <2>1 DEF IInv, KeyInv
<1> HIDE DEF c
<1>4. h \in B /\ key[h].seg = c /\ Cardinality(B) = PlayerNum[mode]
  BY <1>1, <1>3 DEF IsHead, IsBatch, Valid
<1>5. \A p \in B : /\ key[p].mode = mode /\ key[p].seg \in Segments
                   /\ Dist(c, key[p].seg) <= MaxExpand[mode]
  <2> SUFFICES ASSUME NEW p \in B
               PROVE  /\ key[p].mode = mode /\ key[p].seg \in Segments
                      /\ Dist(c, key[p].seg) <= MaxExpand[mode]
    OBVIOUS
  <2>1. p \in Candidates(mode, c, h, w)
    BY <1>1, Zenon DEF IsBatch
  <2>2. IInv /\ mode \in Modes /\ c \in Segments
    BY <1>2, <1>3
  <2>3. /\ key[p].mode = mode /\ key[p].seg \in Segments
        /\ Dist(c, key[p].seg) <= MaxExpand[mode]
    BY <2>1, <2>2, CandidateNear, SMT
  <2> QED BY <2>3
<1>6. PICK sg : sg = [p \in B |-> key[p].seg]
  OBVIOUS
<1>7. sg \in [B -> Segments] /\ sg[h] = c
  BY <1>4, <1>5, <1>6
<1>8. \A p \in B : key'[p].mode = key[p].mode /\ key'[p].seg = key[p].seg
  BY <1>1 DEF MarkAllocating, Saved
<1>9. Reached(h, sg)'
  BY <1>1, <1>2, <1>4, <1>5, <1>6, <1>7, <1>8 DEF Reached
<1> QED BY <1>1, <1>2, <1>4, <1>7, <1>9 DEF BatchInv

\* Nothing else touches the batch, and nobody comes back into it.
LEMMA BatchKept ==
    ASSUME IInv, BatchInv, UNCHANGED <<batch, mode, version>>, pc' = "create" => pc = "create",
           \A p \in batch : Is(p, "ROOM_ALLOCATING")' => key'[p] = key[p]
    PROVE  BatchInv'
<1> SUFFICES ASSUME pc' = "create" PROVE BatchInv'
  BY DEF BatchInv
<1>1. PICK h \in batch, sg \in [batch -> Segments] : Reached(h, sg)
  BY DEF BatchInv
<1>2. Reached(h, sg)'
  BY <1>1 DEF Reached, Still
<1> QED BY <1>1, <1>2 DEF BatchInv

\* Every step keeps a batch that is waiting for its room within reach.
LEMMA NextBatchInv == ASSUME IInv, BatchInv, [Next]_vars PROVE BatchInv'
<1> USE DEF roomVars, queueVars, scanVars, allocVars, EmptyPlayerState
<1>1. CASE Handlers
  <2>1. UNCHANGED <<batch, mode, version, pc>>
    BY <1>1 DEF Handlers, Join, Cancel, Leave, Dequeue, LeaveAllocating, LeaveRoom, Shutdown
  <2>2. \A p \in Players : Is(p, "ROOM_ALLOCATING")' => key'[p] = key[p]
    <3>1. ASSUME NEW q \in Players, NEW m \in Modes, NEW s \in Segments, Join(q, m, s)
          PROVE  \A p \in Players : Is(p, "ROOM_ALLOCATING")' => key'[p] = key[p]
      BY <3>1 DEF Join, IInv, TypeOK
    <3>2. ASSUME NEW q \in Players, Cancel(q) \/ Leave(q)
          PROVE  \A p \in Players : Is(p, "ROOM_ALLOCATING")' => key'[p] = key[p]
      <4>1. key' = Cleared(q) \/ key' = key
        BY <3>2 DEF Cancel, Leave, Dequeue, LeaveAllocating, LeaveRoom
      <4> QED BY <4>1 DEF Cleared, IInv, TypeOK
    <3>3. CASE Shutdown
      <4>1. \A p \in Players : key'[p] = EmptyPlayerState \/ key'[p] = key[p]
        BY <3>3 DEF Shutdown
      <4> QED BY <4>1
    <3> QED BY <1>1, <3>1, <3>2, <3>3 DEF Handlers
  <2> QED BY <2>1, <2>2, BatchKept DEF IInv, TypeOK
<1>2. CASE Scan
  <2>1. CASE Found
    BY <2>1, FoundBatch
  <2>2. CASE ~Found
    BY <1>2, <2>2 DEF Scan, StartPass, EndPass, TryMatch, SkipCenter, TooFew, NoBatch,
       AllocCanceled, GiveUp, HandOver, MarkPreparing, Handed, BatchInv
  <2> QED BY <2>1, <2>2
<1>3. CASE CreateRoom
  BY <1>3, BatchKept DEF CreateRoom, IInv, TypeOK
<1>4. CASE CreateFailed
  BY <1>4 DEF CreateFailed, GiveUp, BatchInv
<1>5. CASE Rooms
  <2>1. UNCHANGED <<batch, mode, version, pc>>
    BY <1>5 DEF Rooms, RoomLeave, RoomRunning, RoomClose
  <2>2. \A p \in Players : Is(p, "ROOM_ALLOCATING")' => key'[p] = key[p]
    <3>1. ASSUME NEW v \in Versions, NEW q \in Players, RoomLeave(v, q)
          PROVE  \A p \in Players : Is(p, "ROOM_ALLOCATING")' => key'[p] = key[p]
      <4>1. key' = Cleared(q) \/ key' = key
        BY <3>1 DEF RoomLeave
      <4> QED BY <4>1 DEF Cleared, IInv, TypeOK
    <3>2. ASSUME NEW v \in Versions, NEW q \in Players, RoomRunning(v, q)
          PROVE  \A p \in Players : Is(p, "ROOM_ALLOCATING")' => key'[p] = key[p]
      BY <3>2 DEF RoomRunning, Saved, IInv, TypeOK
    <3>3. ASSUME NEW v \in Versions, RoomClose(v)
          PROVE  \A p \in Players : Is(p, "ROOM_ALLOCATING")' => key'[p] = key[p]
      BY <3>3 DEF RoomClose, IInv, TypeOK
    <3> QED BY <1>5, <3>1, <3>2, <3>3 DEF Rooms
  <2> QED BY <2>1, <2>2, BatchKept DEF IInv, TypeOK
<1>6. CASE \E p \in Players : Tick(p)
  <2>1. UNCHANGED <<batch, mode, version, pc, key>>
    BY <1>6 DEF Tick
  <2> QED BY <2>1, BatchKept
<1>7. CASE UNCHANGED vars
  <2>1. UNCHANGED <<batch, mode, version, pc, key>>
    BY <1>7 DEF vars
  <2> QED BY <2>1, BatchKept
<1> QED BY <1>1, <1>2, <1>3, <1>4, <1>5, <1>6, <1>7 DEF Next

\* While nobody has left, all are still where they were queued.
LEMMA BatchIsNear == IInv /\ BatchInv => BatchWithinReach
<1> SUFFICES ASSUME IInv, BatchInv, pc = "create", Still = batch PROVE
        /\ Cardinality(batch) = PlayerNum[mode]
        /\ \E h \in batch : \A p \in batch :
              key[p].mode = mode /\ Dist(key[h].seg, key[p].seg) <= MaxExpand[mode]
  BY DEF BatchWithinReach
<1>1. PICK h \in batch, sg \in [batch -> Segments] : Reached(h, sg)
  BY DEF BatchInv
<1> QED BY <1>1 DEF Reached, BatchInv

\* A room is created for a full batch of one mode, whose players are all within
\* max_expand_segment of one of them, for any segments, ages and sizes: collect_batch.
THEOREM BatchesAreInReach == Spec => []BatchWithinReach
<1>1. Init => BatchInv
  BY DEF Init, BatchInv
<1>2. IInv /\ BatchInv /\ [Next]_vars => BatchInv'
  BY NextBatchInv
<1> QED BY <1>1, <1>2, Invariance, BatchIsNear, PTL DEF Spec
=============================================================================
