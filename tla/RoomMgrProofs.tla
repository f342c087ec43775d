--------------------------- MODULE RoomMgrProofs ---------------------------
(***************************************************************************)
(* Proofs about the room pool, for any modes, rooms, callers and limits.   *)
(***************************************************************************)
EXTENDS RoomMgr, FiniteSetTheorems, TLAPS

\* A running refill coroutine has its mode's flag up, and no second one has its mode.
FlagInv ==
    /\ \A i \in Refillers : refiller[i].pc # "off" =>
           refiller[i].mode \in refill_running
    /\ \A i, j \in Refillers :
           refiller[i].pc # "off" /\ refiller[j].pc # "off"
             /\ refiller[i].mode = refiller[j].mode => i = j

\* The idle rooms, with the one being created, do not exceed POOL_MIN_IDLE.
CountInv ==
    /\ \A m \in Modes : IsFiniteSet(idle_rooms(m)) /\ count_idle_room(m) <= MinIdle
    /\ \A i \in Refillers : refiller[i].pc \in {"new", "prewarm"} =>
           count_idle_room(refiller[i].mode) < MinIdle

\* A room being prewarmed is known to its coroutine only.
PrewarmInv ==
    /\ \A i \in Refillers : refiller[i].pc = "prewarm" =>
           /\ refiller[i].room \in Rooms
           /\ room[refiller[i].room] = "UNINIT"
           /\ \A m \in Modes : refiller[i].room \notin pool[m]
           /\ \A a \in Allocs : handler[a].room # refiller[i].room
    /\ \A i, j \in Refillers :
           refiller[i].pc = "prewarm" /\ refiller[j].pc = "prewarm"
             /\ refiller[i].room = refiller[j].room => i = j

\* A room that was not started is in no pool and with no handler; one that was not
\* initialised has no owner; no room is in two pools.
RoomInv ==
    /\ \A r \in Rooms : room[r] = None =>
           /\ \A m \in Modes : r \notin pool[m]
           /\ \A a \in Allocs : handler[a].room # r
    /\ \A r \in Rooms : room[r] \in {None, "UNINIT"} => owner[r] = None
    /\ \A r \in Rooms, m, n \in Modes : r \in pool[m] /\ r \in pool[n] => m = n

\* A room with a handler is not idle, has no second handler, and if it was
\* initialised at all, then for this handler.
HandlerInv ==
    /\ \A a \in Allocs : handler[a].pc = "init" =>
           /\ entry[handler[a].room] # "IDLE"
           /\ room[handler[a].room] # "UNINIT" => owner[handler[a].room] = a
    /\ \A a, b \in Allocs :
           handler[a].room \in Rooms /\ handler[a].room = handler[b].room => a = b
    /\ \A a \in Allocs, m \in Modes : handler[a].room \notin idle_rooms(m)

\* The part of TypeOK about the refill coroutines.
RefillTypeOK ==
    /\ refill_running \subseteq Modes
    /\ refiller \in [Refillers -> [pc : {"off", "check", "new", "prewarm"},
                                   mode : Modes \cup {None}, room : Rooms \cup {None}]]

IInv == /\ TypeOK /\ FlagInv /\ CountInv /\ PrewarmInv /\ RoomInv /\ HandlerInv
        /\ IdleIsFresh /\ CreatedForCaller /\ ClosedForgotten

USE RoomMgrAssumption, NoneAssumption DEF None

\* Taking idle rooms away keeps the count within the limit, and below it if it was.
LEMMA FewerIdle ==
    ASSUME CountInv, NEW m \in Modes, NEW S, S \subseteq idle_rooms(m)
    PROVE  /\ IsFiniteSet(S)
           /\ Cardinality(S) <= count_idle_room(m)
           /\ Cardinality(S) \in Nat
BY FS_Subset, FS_CardinalityType DEF CountInv, count_idle_room

\* The idle rooms of every mode are at most the ones before.
LEMMA CountShrinks ==
    ASSUME IInv,
           \A m \in Modes : idle_rooms(m)' \subseteq idle_rooms(m),
           \A i \in Refillers : refiller'[i].pc \in {"new", "prewarm"} =>
               /\ refiller[i].pc \in {"new", "prewarm"} /\ refiller'[i].mode = refiller[i].mode
               /\ refiller[i].mode \in Modes
    PROVE  CountInv'
<1>1. \A m \in Modes : /\ IsFiniteSet(idle_rooms(m)')
                       /\ count_idle_room(m)' <= count_idle_room(m)
                       /\ count_idle_room(m)' \in Nat /\ count_idle_room(m) \in Nat
  BY FewerIdle, FS_CardinalityType DEF IInv, CountInv, count_idle_room
<1> QED BY <1>1 DEF IInv, CountInv

\* A refill coroutine that is forked is the only one of its mode.
LEMMA ForkStep ==
    ASSUME TypeOK, FlagInv, NEW m \in Modes, start_refill_pool(m)
    PROVE  /\ FlagInv'
           /\ RefillTypeOK'
           /\ \A i \in Refillers : refiller'[i].pc \in {"new", "prewarm"} =>
                 refiller'[i] = refiller[i]
<1>1. CASE UNCHANGED <<refill_running, refiller>>
  BY <1>1 DEF TypeOK, FlagInv, RefillTypeOK
<1>2. CASE m \notin refill_running
  <2> PICK k \in Refillers :
         /\ refiller[k].pc = "off"
         /\ refiller' = [refiller EXCEPT ![k] = [pc |-> "check", mode |-> m, room |-> None]]
         /\ refill_running' = refill_running \cup {m}
    BY <1>2 DEF start_refill_pool
  <2>1. \A i \in Refillers : i # k => refiller'[i] = refiller[i]
    BY DEF TypeOK
  <2>2. refiller'[k] = [pc |-> "check", mode |-> m, room |-> None]
    BY DEF TypeOK
  <2>3. FlagInv'
    BY <1>2, <2>1, <2>2 DEF FlagInv
  <2>4. refiller' \in [Refillers -> [pc : {"off", "check", "new", "prewarm"},
                                   mode : Modes \cup {None}, room : Rooms \cup {None}]]
    BY DEF TypeOK
  <2> QED BY <2>1, <2>2, <2>3, <2>4 DEF TypeOK, RefillTypeOK
<1> QED BY <1>1, <1>2 DEF start_refill_pool

\* Nothing is forked.
LEMMA ForkNone ==
    ASSUME TypeOK, FlagInv, UNCHANGED <<refill_running, refiller>>
    PROVE  /\ FlagInv' /\ RefillTypeOK'
           /\ \A i \in Refillers : refiller'[i].pc \in {"new", "prewarm"} =>
                 refiller'[i] = refiller[i]
BY DEF TypeOK, FlagInv, RefillTypeOK

\* The timer: shrinking takes idle rooms away and aborts them.
LEMMA MaintainStep ==
    ASSUME IInv, NEW m \in Modes, Maintain(m)
    PROVE  IInv'
<1>0. /\ FlagInv' /\ RefillTypeOK'
      /\ \A k \in Refillers : refiller'[k].pc \in {"new", "prewarm"} =>
             refiller'[k] = refiller[k]
  BY ForkStep, ForkNone DEF IInv, TypeOK, Maintain, Surplus
<1>1. TypeOK'
  BY <1>0 DEF IInv, TypeOK, RefillTypeOK, FlagInv, PrewarmInv, Maintain, Surplus
<1>31. \A n \in Modes : idle_rooms(n)' \subseteq idle_rooms(n)
  BY DEF IInv, TypeOK, idle_rooms, Maintain, Surplus
<1>32. \A k \in Refillers : refiller'[k].pc \in {"new", "prewarm"} =>
          /\ refiller[k].pc \in {"new", "prewarm"} /\ refiller'[k].mode = refiller[k].mode
          /\ refiller[k].mode \in Modes
  BY <1>0 DEF IInv, TypeOK, FlagInv, Maintain, Surplus
<1>3. CountInv'
  BY <1>1, <1>31, <1>32, CountShrinks DEF TypeOK
<1>4. PrewarmInv'
  BY <1>0 DEF IInv, TypeOK, PrewarmInv, RoomInv, HandlerInv, idle_rooms, Maintain, Surplus
<1>5. RoomInv'
  BY DEF IInv, TypeOK, PrewarmInv, RoomInv, idle_rooms, Maintain, Surplus
<1>6. HandlerInv'
  BY DEF IInv, TypeOK, PrewarmInv, RoomInv, HandlerInv, IdleIsFresh, idle_rooms, Maintain, Surplus
<1>7. IdleIsFresh'
  BY DEF IInv, TypeOK, PrewarmInv, RoomInv, HandlerInv, IdleIsFresh, idle_rooms, Maintain, Surplus
<1>8. CreatedForCaller'
  BY DEF IInv, TypeOK, HandlerInv, CreatedForCaller, Maintain, Surplus
<1>9. ClosedForgotten'
  BY DEF IInv, TypeOK, ClosedForgotten, RoomInv, HandlerInv, IdleIsFresh, idle_rooms, Maintain, Surplus
<1> QED BY <1>0, <1>1, <1>3, <1>4, <1>5, <1>6, <1>7, <1>8, <1>9 DEF IInv

\* The refill loop reads the count, and goes on only below the limit.
LEMMA RefillCheckStep ==
    ASSUME IInv, NEW i \in Refillers, RefillCheck(i)
    PROVE  IInv'
<1> DEFINE m == refiller[i].mode
<1>1. UNCHANGED <<pool, entry, handler, room, owner, closedMsgs>> /\ refiller[i].pc = "check"
  BY DEF RefillCheck
<1>3. m \in Modes /\ m \in refill_running
  BY <1>1 DEF IInv, TypeOK, FlagInv
<1>4. \A n \in Modes : idle_rooms(n)' = idle_rooms(n) /\ count_idle_room(n)' = count_idle_room(n)
  BY <1>1 DEF idle_rooms, count_idle_room
<1>8. RoomInv' /\ HandlerInv' /\ IdleIsFresh' /\ CreatedForCaller' /\ ClosedForgotten'
  BY <1>1 DEF IInv, RoomInv, HandlerInv, IdleIsFresh, CreatedForCaller, ClosedForgotten, idle_rooms
<1>5. CASE /\ count_idle_room(m) < MinIdle /\ UNCHANGED refill_running
           /\ refiller' = [refiller EXCEPT ![i].pc = "new"]
  <2>1. TypeOK'
    BY <1>1, <1>5 DEF IInv, TypeOK
  <2>2. /\ \A k \in Refillers \ {i} : refiller'[k] = refiller[k]
        /\ refiller'[i].pc = "new" /\ refiller'[i].mode = m
    BY <1>5 DEF IInv, TypeOK
  <2>3. FlagInv'
    BY <1>1, <1>3, <1>5, <2>2 DEF IInv, FlagInv
  <2>4. CountInv'
    <3>1. \A n \in Modes : IsFiniteSet(idle_rooms(n)') /\ count_idle_room(n)' <= MinIdle
      BY <1>4 DEF IInv, CountInv
    <3>2. \A k \in Refillers : refiller[k].pc # "off" => refiller[k].mode \in Modes
      BY DEF IInv, TypeOK, FlagInv
    <3>3. \A k \in Refillers : refiller'[k].pc \in {"new", "prewarm"} =>
              /\ refiller'[k].mode \in Modes
              /\ count_idle_room(refiller'[k].mode) < MinIdle
      BY <1>3, <1>5, <2>2, <3>2 DEF IInv, CountInv
    <3>4. \A k \in Refillers : refiller'[k].pc \in {"new", "prewarm"} =>
              count_idle_room(refiller[k].mode)' < MinIdle
      BY <1>1, <3>3 DEF count_idle_room, idle_rooms
    <3> QED BY <3>1, <3>4 DEF CountInv
  <2>5. PrewarmInv'
    BY <1>1, <2>2 DEF IInv, PrewarmInv
  <2> QED BY <1>8, <2>1, <2>3, <2>4, <2>5 DEF IInv
<1>6. CASE RefillStops(i)
  <2>1. /\ refiller' = [refiller EXCEPT ![i] = [pc |-> "off", mode |-> None, room |-> None]]
        /\ refill_running' = refill_running \ {m}
    BY <1>6 DEF RefillStops
  <2>2. TypeOK'
    BY <1>1, <2>1 DEF IInv, TypeOK
  <2>3. FlagInv'
    BY <1>1, <2>1 DEF IInv, TypeOK, FlagInv
  <2>4. CountInv'
    BY <1>4, <2>1 DEF IInv, TypeOK, FlagInv, CountInv
  <2>5. PrewarmInv'
    BY <1>1, <2>1 DEF IInv, TypeOK, PrewarmInv
  <2> QED BY <1>8, <2>2, <2>3, <2>4, <2>5 DEF IInv
<1> QED BY <1>5, <1>6 DEF RefillCheck

\* A room that no pool and no handler knows is started.
LEMMA NewRoomStep ==
    ASSUME IInv, NEW i \in Refillers, NEW r \in Rooms, NewRoom(i, r)
    PROVE  IInv'
<1>0. refiller' = [refiller EXCEPT ![i] = [pc |-> "prewarm", mode |-> refiller[i].mode, room |-> r]]
  BY DEF IInv, TypeOK, NewRoom
<1>1. TypeOK'
  BY <1>0 DEF IInv, TypeOK, NewRoom
<1>2. FlagInv'
  BY DEF IInv, TypeOK, FlagInv, NewRoom
<1>31. \A n \in Modes : idle_rooms(n)' \subseteq idle_rooms(n)
  BY DEF IInv, TypeOK, idle_rooms, NewRoom
<1>32. \A k \in Refillers : refiller'[k].pc \in {"new", "prewarm"} =>
          /\ refiller[k].pc \in {"new", "prewarm"} /\ refiller'[k].mode = refiller[k].mode
          /\ refiller[k].mode \in Modes
  BY DEF IInv, TypeOK, FlagInv, NewRoom
<1>3. CountInv'
  BY <1>1, <1>31, <1>32, CountShrinks DEF TypeOK
<1>4. PrewarmInv'
  BY DEF IInv, TypeOK, PrewarmInv, RoomInv, HandlerInv, idle_rooms, NewRoom
<1>5. RoomInv'
  BY DEF IInv, TypeOK, PrewarmInv, RoomInv, idle_rooms, NewRoom
<1>6. HandlerInv'
  BY DEF IInv, TypeOK, PrewarmInv, RoomInv, HandlerInv, IdleIsFresh, idle_rooms, NewRoom
<1>7. IdleIsFresh'
  BY DEF IInv, TypeOK, PrewarmInv, RoomInv, HandlerInv, IdleIsFresh, idle_rooms, NewRoom
<1>8. CreatedForCaller'
  BY DEF IInv, TypeOK, HandlerInv, CreatedForCaller, NewRoom
<1>9. ClosedForgotten'
  BY DEF IInv, TypeOK, ClosedForgotten, RoomInv, HandlerInv, IdleIsFresh, idle_rooms, NewRoom
<1> QED BY <1>2, <1>1, <1>3, <1>4, <1>5, <1>6, <1>7, <1>8, <1>9 DEF IInv

\* A failed creation.
LEMMA NewRoomFailsStep ==
    ASSUME IInv, NEW i \in Refillers, NewRoomFails(i)
    PROVE  IInv'
<1>1. TypeOK'
  BY DEF IInv, TypeOK, RefillTypeOK, FlagInv, PrewarmInv, NewRoomFails, RefillStops
<1>2. FlagInv'
  BY DEF IInv, TypeOK, FlagInv, NewRoomFails, RefillStops
<1>31. \A n \in Modes : idle_rooms(n)' \subseteq idle_rooms(n)
  BY DEF IInv, TypeOK, idle_rooms, NewRoomFails, RefillStops
<1>32. \A k \in Refillers : refiller'[k].pc \in {"new", "prewarm"} =>
          /\ refiller[k].pc \in {"new", "prewarm"} /\ refiller'[k].mode = refiller[k].mode
          /\ refiller[k].mode \in Modes
  BY DEF IInv, TypeOK, FlagInv, NewRoomFails, RefillStops
<1>3. CountInv'
  BY <1>1, <1>31, <1>32, CountShrinks DEF TypeOK
<1>4. PrewarmInv'
  BY DEF IInv, TypeOK, PrewarmInv, RoomInv, HandlerInv, idle_rooms, NewRoomFails, RefillStops
<1>5. RoomInv'
  BY DEF IInv, TypeOK, PrewarmInv, RoomInv, idle_rooms, NewRoomFails, RefillStops
<1>6. HandlerInv'
  BY DEF IInv, TypeOK, PrewarmInv, RoomInv, HandlerInv, IdleIsFresh, idle_rooms, NewRoomFails, RefillStops
<1>7. IdleIsFresh'
  BY DEF IInv, TypeOK, PrewarmInv, RoomInv, HandlerInv, IdleIsFresh, idle_rooms, NewRoomFails, RefillStops
<1>8. CreatedForCaller'
  BY DEF IInv, TypeOK, HandlerInv, CreatedForCaller, NewRoomFails, RefillStops
<1>9. ClosedForgotten'
  BY DEF IInv, TypeOK, ClosedForgotten, RoomInv, HandlerInv, IdleIsFresh, idle_rooms, NewRoomFails, RefillStops
<1> QED BY <1>2, <1>1, <1>3, <1>4, <1>5, <1>6, <1>7, <1>8, <1>9 DEF IInv

\* A failed prewarm: the room was known to its coroutine only.
LEMMA PrewarmFailsStep ==
    ASSUME IInv, NEW i \in Refillers, PrewarmFails(i)
    PROVE  IInv'
<1>1. TypeOK'
  BY DEF IInv, TypeOK, RefillTypeOK, FlagInv, PrewarmInv, PrewarmFails, RefillStops, AbortTried
<1>2. FlagInv'
  BY DEF IInv, TypeOK, FlagInv, PrewarmFails, RefillStops, AbortTried
<1>31. \A n \in Modes : idle_rooms(n)' \subseteq idle_rooms(n)
  BY DEF IInv, TypeOK, idle_rooms, PrewarmFails, RefillStops, AbortTried
<1>32. \A k \in Refillers : refiller'[k].pc \in {"new", "prewarm"} =>
          /\ refiller[k].pc \in {"new", "prewarm"} /\ refiller'[k].mode = refiller[k].mode
          /\ refiller[k].mode \in Modes
  BY DEF IInv, TypeOK, FlagInv, PrewarmFails, RefillStops, AbortTried
<1>3. CountInv'
  BY <1>1, <1>31, <1>32, CountShrinks DEF TypeOK
<1>4. PrewarmInv'
  BY DEF IInv, TypeOK, PrewarmInv, RoomInv, HandlerInv, idle_rooms, PrewarmFails, RefillStops, AbortTried
<1>5. RoomInv'
  BY DEF IInv, TypeOK, PrewarmInv, RoomInv, idle_rooms, PrewarmFails, RefillStops, AbortTried
<1>6. HandlerInv'
  BY DEF IInv, TypeOK, PrewarmInv, RoomInv, HandlerInv, IdleIsFresh, idle_rooms, PrewarmFails, RefillStops, AbortTried
<1>7. IdleIsFresh'
  BY DEF IInv, TypeOK, PrewarmInv, RoomInv, HandlerInv, IdleIsFresh, idle_rooms, PrewarmFails, RefillStops, AbortTried
<1>8. CreatedForCaller'
  BY DEF IInv, TypeOK, HandlerInv, CreatedForCaller, PrewarmFails, RefillStops, AbortTried
<1>9. ClosedForgotten'
  BY DEF IInv, TypeOK, ClosedForgotten, RoomInv, HandlerInv, IdleIsFresh, idle_rooms, PrewarmFails, RefillStops, AbortTried
<1> QED BY <1>2, <1>1, <1>3, <1>4, <1>5, <1>6, <1>7, <1>8, <1>9 DEF IInv

\* create_room reserves an idle room for a caller that had none.
LEMMA CreateRoomStep ==
    ASSUME IInv, NEW a \in Allocs, NEW m \in Modes, CreateRoom(a, m)
    PROVE  IInv'
<1>0. /\ FlagInv' /\ RefillTypeOK'
      /\ \A k \in Refillers : refiller'[k].pc \in {"new", "prewarm"} =>
             refiller'[k] = refiller[k]
  BY ForkStep, ForkNone DEF IInv, TypeOK, CreateRoom
<1>1. UNCHANGED <<pool, room, owner, closedMsgs>> /\ handler[a].pc = "none"
  BY DEF CreateRoom
<1>2. CASE /\ idle_rooms(m) = {} /\ UNCHANGED entry
           /\ handler' = [handler EXCEPT ![a] = [pc |-> "false", mode |-> m, room |-> None]]
  <2>1. TypeOK'
    BY <1>0, <1>1, <1>2 DEF IInv, TypeOK, RefillTypeOK
  <2>2. \A n \in Modes : idle_rooms(n)' = idle_rooms(n)
    BY <1>1, <1>2 DEF idle_rooms
  <2>3. CountInv'
    BY <1>0, <2>1, <2>2, CountShrinks DEF IInv, TypeOK, FlagInv
  <2>4. PrewarmInv'
    BY <1>0, <1>1, <1>2 DEF IInv, TypeOK, PrewarmInv
  <2>7. RoomInv'
    BY <1>1, <1>2 DEF IInv, TypeOK, RoomInv
  <2>5. HandlerInv'
    <3>1. \A n \in Modes : None \notin idle_rooms(n)
      BY DEF IInv, TypeOK, idle_rooms
    <3>2. \A b \in Allocs, n \in Modes : handler'[b].room \notin idle_rooms(n)'
      BY <1>2, <2>2, <3>1 DEF IInv, TypeOK, HandlerInv
    <3> QED BY <1>1, <1>2, <3>2 DEF IInv, TypeOK, HandlerInv
  <2>6. IdleIsFresh' /\ CreatedForCaller' /\ ClosedForgotten'
    BY <1>1, <1>2, <2>2 DEF IInv, IdleIsFresh, CreatedForCaller, ClosedForgotten
  <2> QED BY <1>0, <2>1, <2>3, <2>4, <2>5, <2>6, <2>7 DEF IInv
<1>3. ASSUME NEW r \in idle_rooms(m),
             entry' = [entry EXCEPT ![r] = "RESERVED"],
             handler' = [handler EXCEPT ![a] = [pc |-> "init", mode |-> m, room |-> r]]
      PROVE  IInv'
  <2>0. /\ r \in pool[m] /\ r \in Rooms /\ entry[r] = "IDLE" /\ entry'[r] = "RESERVED"
        /\ room[r] = "UNINIT" /\ \A b \in Allocs : handler[b].room # r
    <3>1. /\ r \in pool[m] /\ r \in Rooms /\ entry[r] = "IDLE"
      BY DEF IInv, TypeOK, idle_rooms
    <3>2. \A b \in Allocs : handler[b].room # r
      BY DEF IInv, HandlerInv
    <3> QED BY <1>3, <3>1, <3>2 DEF IInv, TypeOK, IdleIsFresh
  <2>1. TypeOK'
    BY <1>0, <1>1, <1>3, <2>0 DEF IInv, TypeOK, RefillTypeOK
  <2>2. \A n \in Modes : idle_rooms(n)' = idle_rooms(n) \ {r}
    BY <1>1, <1>3 DEF idle_rooms, IInv, TypeOK
  <2>3. CountInv'
    BY <1>0, <2>1, <2>2, CountShrinks DEF IInv, TypeOK, FlagInv
  <2>4. PrewarmInv'
    BY <1>0, <1>1, <1>3, <2>0 DEF IInv, TypeOK, PrewarmInv
  <2>5. RoomInv'
    BY <1>1, <1>3, <2>0 DEF IInv, TypeOK, RoomInv
  <2>6. HandlerInv'
    BY <1>1, <1>3, <2>0, <2>2 DEF IInv, TypeOK, HandlerInv
  <2>7. IdleIsFresh' /\ CreatedForCaller' /\ ClosedForgotten'
    BY <1>1, <1>3, <2>2 DEF IInv, IdleIsFresh, CreatedForCaller, ClosedForgotten
  <2> QED BY <1>0, <2>1, <2>3, <2>4, <2>5, <2>6, <2>7 DEF IInv
<1>4. \/ /\ idle_rooms(m) = {} /\ UNCHANGED entry
         /\ handler' = [handler EXCEPT ![a] = [pc |-> "false", mode |-> m, room |-> None]]
      \/ \E r \in idle_rooms(m) :
            /\ entry' = [entry EXCEPT ![r] = "RESERVED"]
            /\ handler' = [handler EXCEPT ![a] = [pc |-> "init", mode |-> m, room |-> r]]
  BY DEF CreateRoom, IInv, TypeOK
<1> QED BY <1>2, <1>3, <1>4

\* The room that is initialised has no other handler and is not idle.
LEMMA InitRoomStep ==
    ASSUME IInv, NEW a \in Allocs, InitRoom(a)
    PROVE  IInv'
<1>1. TypeOK'
  BY DEF IInv, TypeOK, RefillTypeOK, FlagInv, PrewarmInv, InitRoom
<1>2. FlagInv'
  BY DEF IInv, TypeOK, FlagInv, InitRoom
<1>31. \A n \in Modes : idle_rooms(n)' \subseteq idle_rooms(n)
  BY DEF IInv, TypeOK, idle_rooms, InitRoom
<1>32. \A k \in Refillers : refiller'[k].pc \in {"new", "prewarm"} =>
          /\ refiller[k].pc \in {"new", "prewarm"} /\ refiller'[k].mode = refiller[k].mode
          /\ refiller[k].mode \in Modes
  BY DEF IInv, TypeOK, FlagInv, InitRoom
<1>3. CountInv'
  BY <1>1, <1>31, <1>32, CountShrinks DEF TypeOK
<1>4. PrewarmInv'
  BY DEF IInv, TypeOK, PrewarmInv, RoomInv, HandlerInv, idle_rooms, InitRoom
<1>5. RoomInv'
  BY DEF IInv, TypeOK, PrewarmInv, RoomInv, idle_rooms, InitRoom
<1>6. HandlerInv'
  BY DEF IInv, TypeOK, PrewarmInv, RoomInv, HandlerInv, IdleIsFresh, idle_rooms, InitRoom
<1>7. IdleIsFresh'
  BY DEF IInv, TypeOK, PrewarmInv, RoomInv, HandlerInv, IdleIsFresh, idle_rooms, InitRoom
<1>8. CreatedForCaller'
  BY DEF IInv, TypeOK, HandlerInv, CreatedForCaller, InitRoom
<1>9. ClosedForgotten'
  BY DEF IInv, TypeOK, ClosedForgotten, RoomInv, HandlerInv, IdleIsFresh, idle_rooms, InitRoom
<1> QED BY <1>2, <1>1, <1>3, <1>4, <1>5, <1>6, <1>7, <1>8, <1>9 DEF IInv

\* The answer of init_room, whatever it was.
LEMMA CreatedStep ==
    ASSUME IInv, NEW a \in Allocs, Created(a)
    PROVE  IInv'
<1>0. /\ FlagInv' /\ RefillTypeOK'
      /\ \A k \in Refillers : refiller'[k].pc \in {"new", "prewarm"} =>
             refiller'[k] = refiller[k]
  BY ForkStep, ForkNone DEF IInv, TypeOK, Created
<1>1. TypeOK'
  BY <1>0 DEF IInv, TypeOK, RefillTypeOK, FlagInv, PrewarmInv, Created
<1>31. \A n \in Modes : idle_rooms(n)' \subseteq idle_rooms(n)
  BY DEF IInv, TypeOK, idle_rooms, Created
<1>32. \A k \in Refillers : refiller'[k].pc \in {"new", "prewarm"} =>
          /\ refiller[k].pc \in {"new", "prewarm"} /\ refiller'[k].mode = refiller[k].mode
          /\ refiller[k].mode \in Modes
  BY <1>0 DEF IInv, TypeOK, FlagInv, Created
<1>3. CountInv'
  BY <1>1, <1>31, <1>32, CountShrinks DEF TypeOK
<1>4. PrewarmInv'
  BY <1>0 DEF IInv, TypeOK, PrewarmInv, RoomInv, HandlerInv, idle_rooms, Created
<1>5. RoomInv'
  BY DEF IInv, TypeOK, PrewarmInv, RoomInv, idle_rooms, Created
<1>6. HandlerInv'
  BY DEF IInv, TypeOK, PrewarmInv, RoomInv, HandlerInv, IdleIsFresh, idle_rooms, Created
<1>7. IdleIsFresh'
  BY DEF IInv, TypeOK, PrewarmInv, RoomInv, HandlerInv, IdleIsFresh, idle_rooms, Created
<1>8. CreatedForCaller'
  BY DEF IInv, TypeOK, HandlerInv, CreatedForCaller, Created
<1>9. ClosedForgotten'
  BY DEF IInv, TypeOK, ClosedForgotten, RoomInv, HandlerInv, IdleIsFresh, idle_rooms, Created
<1> QED BY <1>0, <1>1, <1>3, <1>4, <1>5, <1>6, <1>7, <1>8, <1>9 DEF IInv

\* A failed init_room takes the entry out of the pool.
LEMMA InitFailsStep ==
    ASSUME IInv, NEW a \in Allocs, InitFails(a)
    PROVE  IInv'
<1>1. TypeOK'
  BY DEF IInv, TypeOK, RefillTypeOK, FlagInv, PrewarmInv, InitFails, Remove
<1>2. FlagInv'
  BY DEF IInv, TypeOK, FlagInv, InitFails, Remove
<1>31. \A n \in Modes : idle_rooms(n)' \subseteq idle_rooms(n)
  BY DEF IInv, TypeOK, idle_rooms, InitFails, Remove
<1>32. \A k \in Refillers : refiller'[k].pc \in {"new", "prewarm"} =>
          /\ refiller[k].pc \in {"new", "prewarm"} /\ refiller'[k].mode = refiller[k].mode
          /\ refiller[k].mode \in Modes
  BY DEF IInv, TypeOK, FlagInv, InitFails, Remove
<1>3. CountInv'
  BY <1>1, <1>31, <1>32, CountShrinks DEF TypeOK
<1>4. PrewarmInv'
  BY DEF IInv, TypeOK, PrewarmInv, RoomInv, HandlerInv, idle_rooms, InitFails, Remove
<1>5. RoomInv'
  BY DEF IInv, TypeOK, PrewarmInv, RoomInv, idle_rooms, InitFails, Remove
<1>6. HandlerInv'
  BY DEF IInv, TypeOK, PrewarmInv, RoomInv, HandlerInv, IdleIsFresh, idle_rooms, InitFails, Remove
<1>7. IdleIsFresh'
  BY DEF IInv, TypeOK, PrewarmInv, RoomInv, HandlerInv, IdleIsFresh, idle_rooms, InitFails, Remove
<1>8. CreatedForCaller'
  BY DEF IInv, TypeOK, HandlerInv, CreatedForCaller, InitFails, Remove
<1>9. ClosedForgotten'
  BY DEF IInv, TypeOK, ClosedForgotten, RoomInv, HandlerInv, IdleIsFresh, idle_rooms, InitFails, Remove
<1> QED BY <1>2, <1>1, <1>3, <1>4, <1>5, <1>6, <1>7, <1>8, <1>9 DEF IInv

\* The abort of a room whose init_room failed.
LEMMA InitAbortedStep ==
    ASSUME IInv, NEW a \in Allocs, InitAborted(a)
    PROVE  IInv'
<1>0. /\ FlagInv' /\ RefillTypeOK'
      /\ \A k \in Refillers : refiller'[k].pc \in {"new", "prewarm"} =>
             refiller'[k] = refiller[k]
  BY ForkStep, ForkNone DEF IInv, TypeOK, InitAborted, AbortTried
<1>11. room' \in [Rooms -> {None, "UNINIT", "orphan", "aborted", "WAIT_PREPARE", "closed"}]
  BY DEF IInv, TypeOK, InitAborted, AbortTried
<1>12. /\ handler[a].pc = "abort" /\ handler' = [handler EXCEPT ![a].pc = "false"]
       /\ UNCHANGED <<pool, entry, owner, closedMsgs>>
  BY DEF InitAborted
<1>1. TypeOK' BY <1>0, <1>11, <1>12 DEF IInv, TypeOK, RefillTypeOK
<1>31. \A n \in Modes : idle_rooms(n)' \subseteq idle_rooms(n)
  BY DEF IInv, TypeOK, idle_rooms, InitAborted, AbortTried
<1>32. \A k \in Refillers : refiller'[k].pc \in {"new", "prewarm"} =>
          /\ refiller[k].pc \in {"new", "prewarm"} /\ refiller'[k].mode = refiller[k].mode
          /\ refiller[k].mode \in Modes
  BY <1>0 DEF IInv, TypeOK, FlagInv, InitAborted, AbortTried
<1>3. CountInv'
  BY <1>1, <1>31, <1>32, CountShrinks DEF TypeOK
<1>4. PrewarmInv'
  BY <1>0 DEF IInv, TypeOK, PrewarmInv, RoomInv, HandlerInv, idle_rooms, InitAborted, AbortTried
<1>5. RoomInv'
  BY DEF IInv, TypeOK, PrewarmInv, RoomInv, idle_rooms, InitAborted, AbortTried
<1>6. HandlerInv'
  BY DEF IInv, TypeOK, PrewarmInv, RoomInv, HandlerInv, IdleIsFresh, idle_rooms, InitAborted, AbortTried
<1>7. IdleIsFresh'
  BY DEF IInv, TypeOK, PrewarmInv, RoomInv, HandlerInv, IdleIsFresh, idle_rooms, InitAborted, AbortTried
<1>8. CreatedForCaller'
  BY DEF IInv, TypeOK, HandlerInv, CreatedForCaller, InitAborted, AbortTried
<1>9. ClosedForgotten'
  BY DEF IInv, TypeOK, ClosedForgotten, RoomInv, HandlerInv, IdleIsFresh, idle_rooms, InitAborted, AbortTried
<1> QED BY <1>0, <1>1, <1>3, <1>4, <1>5, <1>6, <1>7, <1>8, <1>9 DEF IInv

\* A room closes: it was not idle, and a message is on its way.
LEMMA RoomClosesStep ==
    ASSUME IInv, NEW r \in Rooms, RoomCloses(r)
    PROVE  IInv'
<1>1. TypeOK'
  BY DEF IInv, TypeOK, RefillTypeOK, FlagInv, PrewarmInv, RoomCloses
<1>2. FlagInv'
  BY DEF IInv, TypeOK, FlagInv, RoomCloses
<1>31. \A n \in Modes : idle_rooms(n)' \subseteq idle_rooms(n)
  BY DEF IInv, TypeOK, idle_rooms, RoomCloses
<1>32. \A k \in Refillers : refiller'[k].pc \in {"new", "prewarm"} =>
          /\ refiller[k].pc \in {"new", "prewarm"} /\ refiller'[k].mode = refiller[k].mode
          /\ refiller[k].mode \in Modes
  BY DEF IInv, TypeOK, FlagInv, RoomCloses
<1>3. CountInv'
  BY <1>1, <1>31, <1>32, CountShrinks DEF TypeOK
<1>4. PrewarmInv'
  BY DEF IInv, TypeOK, PrewarmInv, RoomInv, HandlerInv, idle_rooms, RoomCloses
<1>5. RoomInv'
  BY DEF IInv, TypeOK, PrewarmInv, RoomInv, idle_rooms, RoomCloses
<1>6. HandlerInv'
  BY DEF IInv, TypeOK, PrewarmInv, RoomInv, HandlerInv, IdleIsFresh, idle_rooms, RoomCloses
<1>7. IdleIsFresh'
  BY DEF IInv, TypeOK, PrewarmInv, RoomInv, HandlerInv, IdleIsFresh, idle_rooms, RoomCloses
<1>8. CreatedForCaller'
  BY DEF IInv, TypeOK, HandlerInv, CreatedForCaller, RoomCloses
<1>9. ClosedForgotten'
  BY DEF IInv, TypeOK, ClosedForgotten, RoomInv, HandlerInv, IdleIsFresh, idle_rooms, RoomCloses
<1> QED BY <1>2, <1>1, <1>3, <1>4, <1>5, <1>6, <1>7, <1>8, <1>9 DEF IInv

\* room_closed takes the entry out of the pool.
LEMMA RoomClosedStep ==
    ASSUME IInv, NEW r \in Rooms, RoomClosed(r)
    PROVE  IInv'
<1>0. /\ FlagInv' /\ RefillTypeOK'
      /\ \A k \in Refillers : refiller'[k].pc \in {"new", "prewarm"} =>
             refiller'[k] = refiller[k]
  BY ForkStep, ForkNone DEF IInv, TypeOK, RoomClosed, Remove
<1>1. TypeOK'
  BY <1>0 DEF IInv, TypeOK, RefillTypeOK, FlagInv, PrewarmInv, RoomClosed, Remove
<1>31. \A n \in Modes : idle_rooms(n)' \subseteq idle_rooms(n)
  BY DEF IInv, TypeOK, idle_rooms, RoomClosed, Remove
<1>32. \A k \in Refillers : refiller'[k].pc \in {"new", "prewarm"} =>
          /\ refiller[k].pc \in {"new", "prewarm"} /\ refiller'[k].mode = refiller[k].mode
          /\ refiller[k].mode \in Modes
  BY <1>0 DEF IInv, TypeOK, FlagInv, RoomClosed, Remove
<1>3. CountInv'
  BY <1>1, <1>31, <1>32, CountShrinks DEF TypeOK
<1>4. PrewarmInv'
  BY <1>0 DEF IInv, TypeOK, PrewarmInv, RoomInv, HandlerInv, idle_rooms, RoomClosed, Remove
<1>5. RoomInv'
  BY SMTT(20) DEF IInv, TypeOK, PrewarmInv, RoomInv, idle_rooms, RoomClosed, Remove
<1>6. HandlerInv'
  BY DEF IInv, TypeOK, PrewarmInv, RoomInv, HandlerInv, IdleIsFresh, idle_rooms, RoomClosed, Remove
<1>7. IdleIsFresh'
  BY DEF IInv, TypeOK, PrewarmInv, RoomInv, HandlerInv, IdleIsFresh, idle_rooms, RoomClosed, Remove
<1>8. CreatedForCaller'
  BY DEF IInv, TypeOK, HandlerInv, CreatedForCaller, RoomClosed, Remove
<1>9. ClosedForgotten'
  BY DEF IInv, TypeOK, ClosedForgotten, RoomInv, HandlerInv, IdleIsFresh, idle_rooms, RoomClosed, Remove
<1> QED BY <1>0, <1>1, <1>3, <1>4, <1>5, <1>6, <1>7, <1>8, <1>9 DEF IInv

\* The room that was prewarmed becomes idle: the count, read before the three calls,
\* is still below the limit.
LEMMA PrewarmedStep ==
    ASSUME IInv, NEW i \in Refillers, Prewarmed(i)
    PROVE  IInv'
<1>0. PICK r \in Rooms, m \in Modes : refiller[i].room = r /\ refiller[i].mode = m
  BY DEF IInv, TypeOK, FlagInv, PrewarmInv, Prewarmed
<1>1. /\ refiller[i].pc = "prewarm"
      /\ room[r] = "UNINIT" /\ owner[r] = None
      /\ \A n \in Modes : r \notin pool[n]
      /\ \A a \in Allocs : handler[a].room # r
  BY <1>0 DEF IInv, PrewarmInv, RoomInv, Prewarmed
<1>2. /\ entry' = [entry EXCEPT ![r] = "IDLE"]
      /\ pool' = [pool EXCEPT ![m] = @ \cup {r}]
      /\ refiller' = [refiller EXCEPT ![i] = [pc |-> "check", mode |-> m, room |-> None]]
      /\ UNCHANGED <<refill_running, handler, room, owner, closedMsgs>>
  BY <1>0 DEF Prewarmed
<1>3. TypeOK'
  BY <1>1, <1>2 DEF IInv, TypeOK
<1>4. FlagInv'
  BY <1>0, <1>1, <1>2 DEF IInv, TypeOK, FlagInv
<1>5. /\ idle_rooms(m)' = idle_rooms(m) \cup {r}
      /\ \A n \in Modes \ {m} : idle_rooms(n)' = idle_rooms(n)
  <2>1. pool'[m] = pool[m] \cup {r} /\ \A n \in Modes \ {m} : pool'[n] = pool[n]
    BY <1>1, <1>2 DEF IInv, TypeOK
  <2>2. entry'[r] = "IDLE" /\ \A q \in Rooms \ {r} : entry'[q] = entry[q]
    BY <1>1, <1>2 DEF IInv, TypeOK
  <2>3. \A n \in Modes : pool[n] \subseteq Rooms
    BY DEF IInv, TypeOK
  <2> QED BY <1>1, <2>1, <2>2, <2>3 DEF idle_rooms
<1>6. r \notin idle_rooms(m) /\ count_idle_room(m) < MinIdle /\ IsFiniteSet(idle_rooms(m))
  BY <1>0, <1>1 DEF IInv, CountInv, idle_rooms
<1>7. IsFiniteSet(idle_rooms(m)') /\ count_idle_room(m)' = count_idle_room(m) + 1
  BY <1>5, <1>6, FS_AddElement DEF count_idle_room
<1>8. count_idle_room(m) \in Nat
  BY <1>6, FS_CardinalityType DEF count_idle_room
<1>9. \A k \in Refillers : refiller'[k].pc \in {"new", "prewarm"} =>
          /\ k # i /\ refiller'[k] = refiller[k]
          /\ refiller[k].mode \in Modes \ {m}
  BY <1>0, <1>1, <1>2 DEF IInv, TypeOK, FlagInv
<1>10. \A n \in Modes \ {m} : count_idle_room(n)' = count_idle_room(n)
  BY <1>5 DEF count_idle_room
<1>11. CountInv'
  <2>1. \A n \in Modes : IsFiniteSet(idle_rooms(n)') /\ count_idle_room(n)' <= MinIdle
    <3>1. IsFiniteSet(idle_rooms(m)') /\ count_idle_room(m)' <= MinIdle
      BY <1>6, <1>7, <1>8
    <3>2. \A n \in Modes \ {m} : IsFiniteSet(idle_rooms(n)') /\ count_idle_room(n)' <= MinIdle
      BY <1>5, <1>10 DEF IInv, CountInv
    <3> QED BY <3>1, <3>2
  <2>2. \A k \in Refillers : refiller'[k].pc \in {"new", "prewarm"} =>
            count_idle_room(refiller[k].mode)' < MinIdle
    BY <1>9, <1>10 DEF IInv, TypeOK, CountInv
  <2> QED BY <2>1, <2>2 DEF CountInv
<1>12. PrewarmInv'
  BY <1>0, <1>1, <1>2, <1>9 DEF IInv, TypeOK, PrewarmInv
<1>13. RoomInv'
  BY <1>1, <1>2 DEF IInv, TypeOK, RoomInv
<1>14. HandlerInv'
  <2>1. \A a \in Allocs, n \in Modes : handler'[a].room \notin idle_rooms(n)'
    BY <1>1, <1>2, <1>5 DEF IInv, HandlerInv
  <2>2. \A a \in Allocs : handler[a].pc = "init" => entry'[handler[a].room] # "IDLE"
    BY <1>1, <1>2 DEF IInv, TypeOK, HandlerInv
  <2> QED BY <1>2, <2>1, <2>2 DEF IInv, HandlerInv
<1>15. IdleIsFresh'
  <2>1. \A n \in Modes : r \in pool'[n] => n = m
    BY <1>1, <1>2 DEF IInv, TypeOK
  <2>2. \A q \in Rooms \ {r}, n \in Modes : q \in pool'[n] <=> q \in pool[n]
    BY <1>1, <1>2 DEF IInv, TypeOK
  <2>3. \A n \in Modes : \A q \in idle_rooms(n)' : q = r \/ (q \in idle_rooms(n) /\ q \in Rooms)
    BY <1>5 DEF IInv, TypeOK, idle_rooms
  <2>4. r \in idle_rooms(m)' /\ \A n \in Modes \ {m} : r \notin idle_rooms(n)'
    BY <1>1, <1>5 DEF idle_rooms
  <2> QED BY <1>1, <1>2, <2>1, <2>2, <2>3, <2>4 DEF IInv, IdleIsFresh
<1>16. CreatedForCaller' /\ ClosedForgotten'
  BY <1>1, <1>2 DEF IInv, TypeOK, CreatedForCaller, ClosedForgotten
<1> QED BY <1>3, <1>4, <1>11, <1>12, <1>13, <1>14, <1>15, <1>16 DEF IInv

\* The pool starts empty.
LEMMA InitHolds == Init => IInv
<1> SUFFICES ASSUME Init PROVE IInv
  OBVIOUS
<1>1. \A m \in Modes : idle_rooms(m) = {}
  BY DEF Init, idle_rooms
<1>2. CountInv
  <2>1. \A m \in Modes : IsFiniteSet(idle_rooms(m)) /\ count_idle_room(m) = 0
    BY <1>1, FS_EmptySet DEF count_idle_room
  <2>2. \A i \in Refillers : refiller[i].pc = "off"
    BY DEF Init
  <2> QED BY <2>1, <2>2 DEF CountInv
<1>3. TypeOK
  BY DEF Init, TypeOK
<1>4. FlagInv /\ PrewarmInv /\ RoomInv /\ CreatedForCaller /\ ClosedForgotten
  BY DEF Init, FlagInv, PrewarmInv, RoomInv, CreatedForCaller, ClosedForgotten
<1>5. HandlerInv /\ IdleIsFresh
  BY <1>1 DEF Init, HandlerInv, IdleIsFresh
<1> QED BY <1>2, <1>3, <1>4, <1>5 DEF IInv

\* Every step keeps the invariant.
LEMMA StepKeeps == IInv /\ [Next]_vars => IInv'
<1> SUFFICES ASSUME IInv, [Next]_vars PROVE IInv'
  OBVIOUS
<1>1. CASE UNCHANGED vars
  <2>1. \A m \in Modes : idle_rooms(m)' = idle_rooms(m) /\ count_idle_room(m)' = count_idle_room(m)
    BY <1>1 DEF vars, idle_rooms, count_idle_room
  <2>2. TypeOK' /\ FlagInv'
    BY <1>1 DEF vars, IInv, TypeOK, FlagInv
  <2>3. CountInv'
    BY <1>1, <2>1 DEF vars, IInv, TypeOK, FlagInv, CountInv
  <2>4. PrewarmInv' /\ RoomInv'
    BY <1>1 DEF vars, IInv, PrewarmInv, RoomInv
  <2>5. HandlerInv' /\ IdleIsFresh'
    BY <1>1, <2>1 DEF vars, IInv, HandlerInv, IdleIsFresh
  <2>6. CreatedForCaller' /\ ClosedForgotten'
    BY <1>1 DEF vars, IInv, CreatedForCaller, ClosedForgotten
  <2> QED BY <2>2, <2>3, <2>4, <2>5, <2>6 DEF IInv
<1>2. CASE \E m \in Modes : Maintain(m)
  BY <1>2, MaintainStep
<1>3. CASE \E i \in Refillers : Refill(i)
  BY <1>3, RefillCheckStep, NewRoomFailsStep, PrewarmedStep, PrewarmFailsStep, NewRoomStep
     DEF Refill
<1>4. CASE \E a \in Allocs : \/ \E m \in Modes : CreateRoom(a, m)
                             \/ InitRoom(a) \/ Created(a) \/ InitFails(a) \/ InitAborted(a)
  BY <1>4, CreateRoomStep, InitRoomStep, CreatedStep, InitFailsStep, InitAbortedStep
<1>5. CASE \E r \in Rooms : RoomCloses(r) \/ RoomClosed(r)
  BY <1>5, RoomClosesStep, RoomClosedStep
<1> QED BY <1>1, <1>2, <1>3, <1>4, <1>5 DEF Next

\* The invariant, from which the properties below follow.
LEMMA Invariance == Spec => []IInv
<1>1. Init => IInv
  BY InitHolds
<1>2. IInv /\ [Next]_vars => IInv'
  BY StepKeeps
<1> QED BY <1>1, <1>2, PTL DEF Spec

\* The room manager's variables keep their types, for any modes, rooms and callers.
THEOREM TypeCorrect == Spec => []TypeOK
<1>1. IInv => TypeOK
  BY DEF IInv
<1> QED BY <1>1, Invariance, PTL

\* A mode never has more than POOL_MIN_IDLE idle rooms, although the refill coroutine
\* reads the count before its three calls and adds the room after them.
THEOREM NeverTooManyIdle == Spec => []IdleBounded
<1>1. IInv => IdleBounded
  BY DEF IInv, CountInv, IdleBounded
<1> QED BY <1>1, Invariance, PTL

\* Every room create_room can hand out is alive, uninitialised and in one pool.
THEOREM IdleRoomsFresh == Spec => []IdleIsFresh
<1>1. IInv => IdleIsFresh
  BY DEF IInv
<1> QED BY <1>1, Invariance, PTL

\* The room create_room answers with was initialised for that very call: the ignored
\* result of init_room cannot have been false.
THEOREM RoomIsForCaller == Spec => []CreatedForCaller
<1>1. IInv => CreatedForCaller
  BY DEF IInv
<1> QED BY <1>1, Invariance, PTL

\* A closed room stays in a pool only until its room_closed message is handled.
THEOREM ClosedRoomsLeave == Spec => []ClosedForgotten
<1>1. IInv => ClosedForgotten
  BY DEF IInv
<1> QED BY <1>1, Invariance, PTL
=============================================================================
