----------------------------- MODULE RoomProofs -----------------------------
(***************************************************************************)
(* Proofs about the room service, for any number of players.               *)
(***************************************************************************)
EXTENDS Room, FiniteSetTheorems, SequenceTheorems, TLAPS

\* The variables keep their types: the type invariant of Room.
TypeOK ==
    /\ key \in [Players -> {"ROOM_ALLOCATING", "ROOM_PREPARING", "RUNNING", "IDLE", "OTHER"}]
    /\ match \in {"create", "marking", "canceled", "lost"}
    /\ unmarked \subseteq Players
    /\ room_state \in {"UNINIT", "RUNNING"} \cup Waiting \cup Over
    /\ players \subseteq Players /\ prepared \subseteq Players
    /\ battle_ready \subseteq Players /\ in_room \subseteq Players /\ conv \subseteq Players
    /\ scene \in [Players -> {"out", "pending", "playing", "left"}] /\ started \in BOOLEAN
    /\ kicks \in Seq(Players)
    /\ leave \in [Players -> {"none", "wait", "clear", "out", "kick", "kickout", "sub", "done"}]
    /\ alloc \in [pc : {"none", "wait", "gateway", "scene", "done", "failed"},
                  owner : Players \cup {"none", "prepare"}]
    /\ start \in [pc : {"none", "call", "loop", "done"}, owner : Players \cup {"none", "ready"},
                  seen : SUBSET Players, cur : SUBSET Players]
    /\ ending \in [pc : {"none", "weigh", "free", "clear", "close", "done", "crashed"},
                   kind : {"none", "abort", "finish", "keep"},
                   owner : Players \cup {"none", "prepare", "ready", "timer", "match"},
                   seen : SUBSET Players]
    /\ timers \subseteq {"prepare", "round"}
    /\ prepare_room_lock \in Seq(Players \cup {"prepare"})
    /\ player_state_lock \in Seq(Players \cup {"start", "end"})

\* The control of the room: how far it is says which of the once-only procedures have run.
StateInv ==
    /\ room_state = "UNINIT" => players = {}
    /\ room_state \in {"UNINIT", "WAIT_PREPARE"} => alloc.pc = "none"
    /\ alloc.pc \in {"gateway", "scene"} => room_state = "WAIT_BATTLE_PREPARE"
    /\ room_state \in {"UNINIT"} \cup Waiting => start.pc = "none"
    /\ start.pc # "none" => alloc.pc = "done"
    /\ alloc.pc # "done" => battle_ready = {}
    /\ start.pc = "none" => start.seen = {}
    /\ start.pc # "loop" => start.cur = {}
    /\ alloc.pc = "wait" => alloc.owner = "prepare"
    /\ ending.owner = "prepare" => alloc.pc = "failed"

\* The end of the room, and what it has done so far.
EndInv ==
    /\ ending.pc = "none" <=> room_state \notin Over
    /\ ending.pc \in {"close", "done"} <=> room_state \in {"ABORTED", "FINISHED"}
    /\ IF ending.pc = "none" THEN ending.seen = {} ELSE ending.kind # "none"
    /\ ending.pc \in {"weigh", "crashed"} => ending.kind = "finish"
    /\ ending.pc = "clear" => ending.kind \in {"finish", "abort"}
    /\ ending.kind = "keep" => match = "canceled"
    /\ \/ ending.kind = "abort" /\ ending.pc \in {"free", "close", "done"}
       \/ ending.kind = "finish" /\ ending.pc \in {"close", "done"}
       => players \cap in_room \subseteq ending.seen
    /\ \/ ending.kind = "finish" /\ ending.pc = "clear"
       \/ ending.pc \in {"close", "done"}
       => conv \cap players = {}

\* Nobody prepares, leaves or starts before match has marked the player, and in the end all.
MarkInv ==
    /\ prepared # {} => match = "marking"
    /\ prepared \cap unmarked = {}
    /\ room_state = "UNINIT" => match \in {"create", "lost"}
    /\ alloc.pc # "none" => match = "marking" /\ unmarked = {}
    /\ \A p \in Players : leave[p] # "none" => match = "marking" /\ unmarked = {}
    /\ room_state # "UNINIT" => \A p \in Players \ players : leave[p] # "none"
    /\ match # "marking" => \A p \in Players : key[p] # "RUNNING"

\* Who leaves is out of the table, or out of the room.
LeaveInv == \A p \in Players :
    /\ leave[p] \in {"clear", "kick"} => p \notin players
    /\ leave[p] \in {"out", "kickout"} => p \notin in_room /\ room_state \notin Waiting
    /\ p \in {alloc.owner, start.owner, ending.owner} => leave[p] \in {"sub", "done"}
    /\ p \in conv => p \in players \/ leave[p] = "clear"

\* Two players are in the game, or a handler is about to count them.
CountInv == room_state \in Waiting \cup {"RUNNING"} =>
    \/ Cardinality(players \cap in_room) >= 2
    \/ \E p \in Players : leave[p] \in {"clear", "kick", "out", "kickout"}

\* prepare_room_lock: the handlers that wait for it, behind the one that is in it.
Waits(c) == IF c = "prepare" THEN alloc.pc = "wait" ELSE leave[c] = "wait"
IsIn(c) == IF c = "prepare" THEN alloc.owner = "prepare" /\ alloc.pc \in {"gateway", "scene"}
                            ELSE leave[c] \in {"clear", "kick", "sub"}
Placed(i) == \/ Waits(prepare_room_lock[i])
             \/ i = 1 /\ IsIn(prepare_room_lock[i])
Distinct(l) == \A i, j \in DOMAIN l : l[i] = l[j] => i = j
PrepareLockInv ==
    /\ Distinct(prepare_room_lock)
    /\ \A i \in DOMAIN prepare_room_lock : Placed(i)
    /\ \A p \in Players : leave[p] \in {"clear", "kick"} => Holds(prepare_room_lock, p)
    /\ alloc.pc \in {"gateway", "scene"} => Holds(prepare_room_lock, alloc.owner)

\* player_state_lock: who is in it, and the start before the end.
Uses(c) == IF c = "start" THEN start.pc = "loop" ELSE
           IF c = "end" THEN ending.pc = "clear" ELSE leave[c] \in {"clear", "out"}
Used(i) == Uses(player_state_lock[i])
StateLockInv ==
    /\ Distinct(player_state_lock)
    /\ \A i \in DOMAIN player_state_lock : Used(i)
    /\ start.pc = "loop" => \E i \in DOMAIN player_state_lock : player_state_lock[i] = "start"
    /\ \A i, j \in DOMAIN player_state_lock :
           player_state_lock[i] = "start" /\ player_state_lock[j] = "end" => i < j

\* While the players are set RUNNING no key has been deleted by the end of the room, and the
\* one being written is not touched by anybody.
LoopInv == start.pc = "loop" =>
    /\ ending.seen = {}
    /\ \/ ending.pc \in {"none", "weigh", "crashed", "clear"}
       \/ ending.pc = "free" /\ ending.kind = "finish"
    /\ \A p \in start.cur :
           /\ start.cur = {p} /\ key[p] = "ROOM_PREPARING"
           /\ Holds(player_state_lock, "start")
           /\ p \in players \cap in_room \/ leave[p] \in {"clear", "out"}

\* The key of a player in the room says what the start and the end have made of it.
KeyInv ==
    /\ match = "marking" =>
           \A p \in (players \cap in_room) \ unmarked :
               p \notin ending.seen \cup start.seen => key[p] = "ROOM_PREPARING"
    /\ \A p \in ending.seen : key[p] # "RUNNING"

\* The inductive invariant.
IInv == /\ TypeOK /\ StateInv /\ EndInv /\ MarkInv /\ LeaveInv /\ CountInv
        /\ PrepareLockInv /\ StateLockInv /\ LoopInv /\ KeyInv /\ RunningInLiveRoom

USE DEF Waiting, Over, fields, sceneVars, locks
-----------------------------------------------------------------------------
(* Locks. *)

\* What Append does to a lock.
LEMMA SeqAppend ==
    ASSUME NEW S, NEW s \in Seq(S), NEW c \in S
    PROVE  /\ Append(s, c) \in Seq(S)
           /\ \A i \in DOMAIN Append(s, c) :
                  \/ i \in DOMAIN s /\ Append(s, c)[i] = s[i]
                  \/ i = Len(s) + 1 /\ Append(s, c)[i] = c
           /\ \A i \in DOMAIN s : i \in DOMAIN Append(s, c) /\ Append(s, c)[i] = s[i]
           /\ Len(s) + 1 \in DOMAIN Append(s, c) /\ Append(s, c)[Len(s) + 1] = c
           /\ \A d : Holds(s, d) => Holds(Append(s, c), d)
BY DEF Holds

\* What Tail does to a lock.
LEMMA SeqTail ==
    ASSUME NEW S, NEW s \in Seq(S), s # <<>>
    PROVE  /\ Tail(s) \in Seq(S)
           /\ \A i \in DOMAIN Tail(s) : i + 1 \in DOMAIN s /\ i + 1 > 1 /\ Tail(s)[i] = s[i + 1]
           /\ \A i \in DOMAIN s : i = 1 \/ (i - 1 \in DOMAIN Tail(s) /\ Tail(s)[i - 1] = s[i])
OBVIOUS

\* A released lock is a lock.
LEMMA SeqRelease ==
    ASSUME NEW S, NEW s \in Seq(S), NEW c
    PROVE  Release(s, c) \in Seq(S)
BY SeqTail DEF Release, Holds

\* The holder is the first of the sequence.
LEMMA HoldsFirst ==
    ASSUME NEW S, NEW s \in Seq(S), NEW c
    PROVE  Holds(s, c) <=> 1 \in DOMAIN s /\ s[1] = c
BY DEF Holds

\* What a step may do to those in prepare_room_lock, apart from c.
Callers == Players \cup {"prepare"}
OthersKept(c) == \A d \in Callers \ {c} : (Waits(d) => Waits(d)') /\ (IsIn(d) => IsIn(d)')

\* Who is in the sequence waits, or is first and in the critical section.
LEMMA PlacedCaller ==
    ASSUME PrepareLockInv, NEW i \in DOMAIN prepare_room_lock, NEW d, d = prepare_room_lock[i]
    PROVE  Waits(d) \/ (i = 1 /\ IsIn(d))
<1>1. Placed(i)
  BY DEF PrepareLockInv
<1> QED BY <1>1 DEF Placed, Waits, IsIn

\* c goes, and nobody gets in.
Goes(c) == /\ OthersKept(c)
           /\ \A p \in Players : leave'[p] \in {"clear", "kick"} =>
                  p # c /\ leave[p] \in {"clear", "kick"}
           /\ alloc'.pc \in {"gateway", "scene"} =>
                  alloc'.owner # c /\ alloc'.owner = alloc.owner /\ alloc.pc \in {"gateway", "scene"}

\* The invariant of prepare_room_lock when c goes.
LEMMA PrepareReleased ==
    ASSUME TypeOK, PrepareLockInv, NEW c, Goes(c),
           prepare_room_lock' = Release(prepare_room_lock, c),
           Holds(prepare_room_lock, c) \/ c \notin Callers \/ ~Waits(c)
    PROVE  PrepareLockInv' /\ prepare_room_lock' \in Seq(Callers)
<1> DEFINE l == prepare_room_lock
<1>1. l \in Seq(Callers) /\ \A i \in DOMAIN l : l[i] \in Callers
  BY DEF TypeOK, Callers
<1>2. CASE Holds(l, c)
  <2>1. l # <<>> /\ l' = Tail(l) /\ 1 \in DOMAIN l /\ l[1] = c
    BY <1>1, <1>2, HoldsFirst DEF Release, Holds
  <2>2. /\ l' \in Seq(Callers)
        /\ \A i \in DOMAIN l' : i + 1 \in DOMAIN l /\ i + 1 > 1 /\ l'[i] = l[i + 1]
    BY <1>1, <2>1, SeqTail
  <2>3. \A i, j \in DOMAIN l' : i \in Int /\ j \in Int /\ (i + 1 = j + 1 => i = j)
    BY <2>2
  <2>4. Distinct(l')
    BY <2>2, <2>3 DEF PrepareLockInv, Distinct
  <2>5. ASSUME NEW i \in DOMAIN l' PROVE Placed(i)'
    <3>1. i + 1 \in DOMAIN l /\ i + 1 # 1 /\ l'[i] = l[i + 1]
      BY <2>2
    <3>2. l[i + 1] # c /\ Waits(l[i + 1]) /\ l[i + 1] \in Callers
      BY <1>1, <2>1, <3>1 DEF PrepareLockInv, Distinct, Placed
    <3>3. PICK d \in Callers \ {c} : d = l[i + 1]
      BY <3>2
    <3>4. Waits(d)' /\ d = l'[i]
      BY <3>1, <3>2, <3>3 DEF Goes, OthersKept
    <3> QED BY <3>4 DEF Placed, Waits
  <2>6. \A p \in Players : leave'[p] \notin {"clear", "kick"}
    BY <1>1, <2>1, HoldsFirst DEF Goes, PrepareLockInv
  <2>7. alloc'.pc \notin {"gateway", "scene"}
    BY <1>1, <2>1, HoldsFirst DEF Goes, PrepareLockInv
  <2> QED BY <2>2, <2>4, <2>5, <2>6, <2>7 DEF PrepareLockInv
<1>3. CASE ~Holds(l, c)
  <2>1. l' = l
    BY <1>3 DEF Release
  <2>2. \A i \in DOMAIN l : l[i] # c
    BY <1>1, <1>3, HoldsFirst DEF PrepareLockInv, Placed
  <2>4. ASSUME NEW i \in DOMAIN l PROVE Placed(i)'
    <3>1. PICK d \in Callers \ {c} : d = l[i]
      BY <1>1, <2>2
    <3>2. Waits(d) \/ (i = 1 /\ IsIn(d))
      BY <2>4, <3>1, PlacedCaller
    <3>3. Waits(d)' \/ (i = 1 /\ IsIn(d)')
      BY <3>1, <3>2 DEF Goes, OthersKept
    <3> QED BY <2>1, <3>1, <3>3 DEF Placed, Waits, IsIn
  <2> QED BY <1>1, <2>1, <2>4 DEF PrepareLockInv, Goes
<1> QED BY <1>2, <1>3

\* The lock stays as it is; c, if it is in front, may get in.
Stays(c) == /\ OthersKept(c)
            /\ Waits(c) => Waits(c)' \/ (Holds(prepare_room_lock, c) /\ IsIn(c)')
            /\ IsIn(c) => IsIn(c)'
            /\ \A p \in Players : leave'[p] \in {"clear", "kick"} => Holds(prepare_room_lock, p)
            /\ alloc'.pc \in {"gateway", "scene"} => Holds(prepare_room_lock, alloc'.owner)

\* The invariant of prepare_room_lock when nobody comes or goes.
LEMMA PrepareKept ==
    ASSUME TypeOK, PrepareLockInv, NEW c \in Callers, Stays(c), UNCHANGED prepare_room_lock
    PROVE  PrepareLockInv'
<1> DEFINE l == prepare_room_lock
<1>1. l \in Seq(Callers) /\ \A i \in DOMAIN l : l[i] \in Callers
  BY DEF TypeOK, Callers
<1>2. ASSUME NEW i \in DOMAIN l PROVE Placed(i)'
  <2>1. PICK d \in Callers : d = l[i]
    BY <1>1, <1>2
  <2>2. Waits(d) \/ (i = 1 /\ IsIn(d))
    BY <1>2, <2>1, PlacedCaller
  <2>3. Holds(l, c) /\ d = c => i = 1
    BY <1>1, <1>2, <2>1, HoldsFirst DEF PrepareLockInv, Distinct
  <2>4. Waits(d)' \/ (i = 1 /\ IsIn(d)')
    BY <2>2, <2>3 DEF Stays, OthersKept
  <2> QED BY <2>1, <2>4 DEF Placed, Waits, IsIn
<1> QED BY <1>1, <1>2 DEF PrepareLockInv, Stays

\* c queues for the lock.
Queues(c) == /\ OthersKept(c)
             /\ ~Waits(c) /\ ~IsIn(c) /\ Waits(c)'
             /\ \A p \in Players : leave'[p] \in {"clear", "kick"} => leave[p] \in {"clear", "kick"}
             /\ alloc'.pc \in {"gateway", "scene"} => alloc' = alloc

\* The invariant of prepare_room_lock when c queues.
LEMMA PrepareQueued ==
    ASSUME TypeOK, PrepareLockInv, NEW c \in Callers, Queues(c),
           prepare_room_lock' = Append(prepare_room_lock, c)
    PROVE  PrepareLockInv' /\ prepare_room_lock' \in Seq(Callers)
<1> DEFINE l == prepare_room_lock
<1>1. l \in Seq(Callers) /\ \A i \in DOMAIN l : l[i] \in Callers
  BY DEF TypeOK, Callers
<1>0. /\ l' \in Seq(Callers)
      /\ \A i \in DOMAIN l' : \/ i \in DOMAIN l /\ l'[i] = l[i]
                              \/ i = Len(l) + 1 /\ l'[i] = c
  BY <1>1, SeqAppend
<1>3. \A i \in DOMAIN l : l[i] # c
  BY DEF PrepareLockInv, Placed, Queues
<1>4. Distinct(l')
  BY <1>0, <1>3 DEF PrepareLockInv, Distinct
<1>5. ASSUME NEW i \in DOMAIN l' PROVE Placed(i)'
  <2>1. CASE l'[i] = c
    BY <2>1 DEF Queues, Waits, Placed
  <2>2. CASE i \in DOMAIN l /\ l'[i] = l[i]
    <3>1. PICK d \in Callers \ {c} : d = l[i]
      BY <1>1, <1>3, <2>2
    <3>2. Waits(d) \/ (i = 1 /\ IsIn(d))
      BY <2>2, <3>1, PlacedCaller
    <3>3. Waits(d)' \/ (i = 1 /\ IsIn(d)')
      BY <3>1, <3>2 DEF Queues, OthersKept
    <3> QED BY <2>2, <3>1, <3>3 DEF Placed, Waits, IsIn
  <2> QED BY <1>0, <2>1, <2>2
<1>6. \A p \in Players : leave'[p] \in {"clear", "kick"} => Holds(l', p)
  BY <1>1, SeqAppend DEF PrepareLockInv, Queues
<1>7. alloc'.pc \in {"gateway", "scene"} => Holds(l', alloc'.owner)
  BY <1>1, SeqAppend DEF PrepareLockInv, Queues
<1> QED BY <1>0, <1>4, <1>5, <1>6, <1>7 DEF PrepareLockInv

\* The same for player_state_lock: what a step may do to its users, apart from c.
Users == Players \cup {"start", "end"}
UsersKept(c) == /\ \A d \in Users \ {c} : Uses(d) => Uses(d)'
                /\ start'.pc = "loop" => start.pc = "loop" \/ c = "start"

\* Nobody comes or goes.
LEMMA StateKept ==
    ASSUME TypeOK, StateLockInv, NEW c, c \notin Users, UsersKept(c),
           UNCHANGED player_state_lock
    PROVE  StateLockInv'
<1> DEFINE l == player_state_lock
<1>1. \A i \in DOMAIN l : l[i] \in Users
  BY DEF TypeOK, Users
<1>2. ASSUME NEW i \in DOMAIN l PROVE Used(i)'
  <2>1. PICK d \in Users : d = l[i]
    BY <1>1
  <2>2. Uses(d)
    BY <2>1 DEF StateLockInv, Used, Uses
  <2>3. Uses(d)'
    BY <2>2 DEF UsersKept
  <2> QED BY <2>1, <2>3 DEF Used, Uses
<1>3. start'.pc = "loop" => start.pc = "loop"
  BY DEF UsersKept, Users
<1> QED BY <1>2, <1>3 DEF StateLockInv

\* c queues for the lock; the start does so only before the end.
LEMMA StateQueued ==
    ASSUME TypeOK, StateLockInv, NEW c \in Users, UsersKept(c), ~Uses(c), Uses(c)',
           c = "start" => ~Uses("end"),
           player_state_lock' = Append(player_state_lock, c)
    PROVE  StateLockInv' /\ player_state_lock' \in Seq(Users)
<1> DEFINE l == player_state_lock
<1>1. l \in Seq(Users) /\ \A i \in DOMAIN l : l[i] \in Users /\ i <= Len(l) /\ i \in Nat
  BY DEF TypeOK, Users
<1>2. /\ l' \in Seq(Users)
      /\ \A i \in DOMAIN l' : \/ i \in DOMAIN l /\ l'[i] = l[i]
                              \/ i = Len(l) + 1 /\ l'[i] = c
      /\ \A i \in DOMAIN l : i \in DOMAIN l' /\ l'[i] = l[i]
      /\ Len(l) + 1 \in DOMAIN l' /\ l'[Len(l) + 1] = c
  BY <1>1, SeqAppend
<1>3. ASSUME NEW i \in DOMAIN l PROVE l[i] # c /\ Uses(l[i])
  BY DEF StateLockInv, Used, Uses
<1>4. Distinct(l')
  BY <1>2, <1>3 DEF StateLockInv, Distinct
<1>5. ASSUME NEW i \in DOMAIN l' PROVE Used(i)'
  <2>1. CASE l'[i] = c
    BY <2>1 DEF Used, Uses
  <2>2. CASE i \in DOMAIN l /\ l'[i] = l[i]
    <3>1. PICK d \in Users \ {c} : d = l[i]
      BY <1>1, <1>3, <2>2
    <3>2. Uses(d)
      BY <1>3, <2>2, <3>1 DEF Uses
    <3>3. Uses(d)'
      BY <3>1, <3>2 DEF UsersKept
    <3> QED BY <2>2, <3>1, <3>3 DEF Used, Uses
  <2> QED BY <1>2, <2>1, <2>2
<1>6. start'.pc = "loop" => \E i \in DOMAIN l' : l'[i] = "start"
  BY <1>2 DEF StateLockInv, UsersKept
<1>7. ASSUME NEW i \in DOMAIN l', NEW j \in DOMAIN l', l'[i] = "start", l'[j] = "end"
      PROVE  i < j
  <2>1. CASE c = "start"
    <3>1. \A k \in DOMAIN l : l[k] # "end"
      BY <2>1 DEF StateLockInv, Used, Uses
    <3> QED BY <1>2, <1>7, <2>1, <3>1
  <2>2. CASE c # "start"
    <3>1. i \in DOMAIN l /\ l[i] = "start"
      BY <1>2, <1>7, <2>2
    <3>2. CASE j \in DOMAIN l /\ l'[j] = l[j]
      BY <1>7, <3>1, <3>2 DEF StateLockInv
    <3>3. CASE j = Len(l) + 1
      BY <1>1, <3>1, <3>3
    <3> QED BY <1>2, <3>2, <3>3
  <2> QED BY <2>1, <2>2
<1> QED BY <1>2, <1>4, <1>5, <1>6, <1>7 DEF StateLockInv

\* c, the holder, goes.
LEMMA StateReleased ==
    ASSUME TypeOK, StateLockInv, NEW c \in Users, UsersKept(c), Holds(player_state_lock, c),
           c = "start" => start'.pc # "loop",
           player_state_lock' = Tail(player_state_lock)
    PROVE  StateLockInv' /\ player_state_lock' \in Seq(Users)
<1> DEFINE l == player_state_lock
<1>1. l \in Seq(Users) /\ \A i \in DOMAIN l : l[i] \in Users /\ i \in Nat
  BY DEF TypeOK, Users
<1>2. l # <<>> /\ 1 \in DOMAIN l /\ l[1] = c
  BY <1>1, HoldsFirst DEF Holds
<1>3. /\ l' \in Seq(Users)
      /\ \A i \in DOMAIN l' : i + 1 \in DOMAIN l /\ i + 1 > 1 /\ l'[i] = l[i + 1]
      /\ \A i \in DOMAIN l : i = 1 \/ (i - 1 \in DOMAIN l' /\ l'[i - 1] = l[i])
  BY <1>1, <1>2, SeqTail
<1>4. \A i, j \in DOMAIN l' : i \in Int /\ j \in Int /\ (i + 1 = j + 1 => i = j)
  BY <1>3
<1>5. Distinct(l')
  BY <1>3, <1>4 DEF StateLockInv, Distinct
<1>6. ASSUME NEW i \in DOMAIN l' PROVE Used(i)'
  <2>1. i + 1 \in DOMAIN l /\ i + 1 # 1 /\ l'[i] = l[i + 1]
    BY <1>3
  <2>2. PICK d \in Users \ {c} : d = l[i + 1]
    BY <1>1, <1>2, <2>1 DEF StateLockInv, Distinct
  <2>3. Uses(d)
    BY <2>1, <2>2 DEF StateLockInv, Used, Uses
  <2>4. Uses(d)'
    BY <2>2, <2>3 DEF UsersKept
  <2> QED BY <2>1, <2>2, <2>4 DEF Used, Uses
<1>7. start'.pc = "loop" => \E i \in DOMAIN l' : l'[i] = "start"
  <2> SUFFICES ASSUME start'.pc = "loop" PROVE \E i \in DOMAIN l' : l'[i] = "start"
    OBVIOUS
  <2>1. c # "start" /\ start.pc = "loop"
    BY DEF UsersKept
  <2>2. PICK i \in DOMAIN l : l[i] = "start"
    BY <2>1 DEF StateLockInv
  <2> QED BY <1>2, <1>3, <2>1, <2>2
<1>8. ASSUME NEW i \in DOMAIN l', NEW j \in DOMAIN l', l'[i] = "start", l'[j] = "end"
      PROVE  i < j
  <2>1. i + 1 < j + 1
    BY <1>3, <1>8 DEF StateLockInv
  <2> QED BY <1>4, <2>1
<1> QED BY <1>3, <1>5, <1>6, <1>7, <1>8 DEF StateLockInv

\* Who holds a lock alone may go on: the start is over when the end deletes keys.
LEMMA EndAfterStart ==
    ASSUME TypeOK, StateLockInv, Holds(player_state_lock, "end")
    PROVE  start.pc # "loop"
<1>1. 1 \in DOMAIN player_state_lock /\ player_state_lock[1] = "end"
  BY HoldsFirst DEF TypeOK
<1>2. \A i \in DOMAIN player_state_lock : i \in Nat /\ i >= 1
  BY DEF TypeOK
<1> QED BY <1>1, <1>2 DEF StateLockInv

\* Steps that leave the locks and their users alone.
LEMMA PrepareSame ==
    ASSUME PrepareLockInv, UNCHANGED <<leave, alloc, prepare_room_lock>>
    PROVE  PrepareLockInv'
BY DEF PrepareLockInv, Placed, Waits, IsIn

\* The same for player_state_lock.
LEMMA StateSame ==
    ASSUME StateLockInv, UNCHANGED player_state_lock,
           \A p \in Players : leave[p] \in {"clear", "out"} => leave'[p] \in {"clear", "out"},
           start'.pc = "loop" <=> start.pc = "loop",
           ending.pc = "clear" => ending'.pc = "clear", TypeOK
    PROVE  StateLockInv'
<1>1. \A i \in DOMAIN player_state_lock : player_state_lock[i] \in Users
  BY DEF TypeOK, Users
<1> QED BY <1>1 DEF StateLockInv, Used, Uses, Users

\* The players of the room can be counted.
LEMMA CountIsNat == ASSUME TypeOK PROVE inroom_player_count \in Nat
<1>1. IsFiniteSet(players \cap in_room)
  BY RoomAssumption, FS_Subset DEF TypeOK
<1> QED BY <1>1, FS_CardinalityType DEF inroom_player_count
-----------------------------------------------------------------------------
(* One lemma per action: the invariant is kept. *)

\* match starts to hand over.
LEMMA MatchMarksStep ==
    ASSUME IInv, MatchMarks
    PROVE  IInv'
<1> USE DEF IInv, MatchMarks
<1>1. TypeOK'
  BY DEF TypeOK
<1>2. StateInv'
  BY DEF TypeOK, StateInv
<1>3. EndInv'
  BY DEF TypeOK, EndInv
<1>4. MarkInv'
  BY DEF TypeOK, StateInv, MarkInv
<1>5. LeaveInv'
  BY DEF TypeOK, MarkInv, LeaveInv
<1>6. CountInv'
  BY DEF TypeOK, CountInv
<1>7. PrepareLockInv'
  BY PrepareSame
<1>8. StateLockInv'
  BY StateSame
<1>9. LoopInv'
  BY DEF TypeOK, StateInv, EndInv, LoopInv
<1>10. KeyInv'
  BY DEF TypeOK, MarkInv, KeyInv
<1>11. RunningInLiveRoom'
  BY DEF TypeOK, EndInv, MarkInv, KeyInv, RunningInLiveRoom
<1> QED BY <1>1, <1>2, <1>3, <1>4, <1>5, <1>6, <1>7, <1>8, <1>9, <1>10, <1>11

\* A player is handed over; the room is not started before the last.
LEMMA MatchMarksPlayerStep ==
    ASSUME IInv, NEW p \in Players, MatchMarksPlayer(p)
    PROVE  IInv'
<1> USE DEF IInv, MatchMarksPlayer
<1>1. TypeOK'
  BY DEF TypeOK
<1>2. StateInv'
  BY DEF TypeOK, StateInv
<1>3. EndInv'
  BY DEF TypeOK, EndInv
<1>4. MarkInv'
  BY DEF TypeOK, StateInv, MarkInv
<1>5. LeaveInv'
  BY DEF TypeOK, MarkInv, LeaveInv
<1>6. CountInv'
  BY DEF TypeOK, CountInv
<1>7. PrepareLockInv'
  BY PrepareSame
<1>8. StateLockInv'
  BY StateSame
<1>9. LoopInv'
  BY DEF TypeOK, StateInv, EndInv, LoopInv
<1>10. KeyInv'
  BY DEF TypeOK, MarkInv, KeyInv
<1>11. RunningInLiveRoom'
  BY DEF TypeOK, EndInv, MarkInv, KeyInv, RunningInLiveRoom
<1> QED BY <1>1, <1>2, <1>3, <1>4, <1>5, <1>6, <1>7, <1>8, <1>9, <1>10, <1>11

\* match gives up: nobody has heard of the room.
LEMMA MatchGivesUpStep ==
    ASSUME IInv, MatchGivesUp
    PROVE  IInv'
<1> USE DEF IInv, MatchGivesUp
<1>1. TypeOK'
  BY DEF TypeOK
<1>2. StateInv'
  BY DEF TypeOK, StateInv
<1>3. EndInv'
  BY DEF TypeOK, EndInv
<1>4. MarkInv'
  BY DEF TypeOK, StateInv, MarkInv
<1>5. LeaveInv'
  BY DEF TypeOK, MarkInv, LeaveInv
<1>6. CountInv'
  BY DEF TypeOK, CountInv
<1>7. PrepareLockInv'
  BY PrepareSame
<1>8. StateLockInv'
  BY StateSame
<1>9. LoopInv'
  BY DEF StateInv, MarkInv, LoopInv
<1>10. KeyInv'
  BY DEF TypeOK, MarkInv, KeyInv
<1>11. RunningInLiveRoom'
  BY DEF TypeOK, EndInv, MarkInv, KeyInv, RunningInLiveRoom
<1> QED BY <1>1, <1>2, <1>3, <1>4, <1>5, <1>6, <1>7, <1>8, <1>9, <1>10, <1>11

\* A player without a key queues again.
LEMMA RejoinStep ==
    ASSUME IInv, NEW p \in Players, Rejoin(p)
    PROVE  IInv'
<1> USE DEF IInv, Rejoin
<1>1. TypeOK'
  BY DEF TypeOK
<1>2. StateInv'
  BY DEF TypeOK, StateInv
<1>3. EndInv'
  BY DEF TypeOK, EndInv
<1>4. MarkInv'
  BY DEF TypeOK, StateInv, MarkInv
<1>5. LeaveInv'
  BY DEF TypeOK, MarkInv, LeaveInv
<1>6. CountInv'
  BY DEF TypeOK, CountInv
<1>7. PrepareLockInv'
  BY PrepareSame
<1>8. StateLockInv'
  BY StateSame
<1>9. LoopInv'
  BY DEF TypeOK, StateInv, EndInv, LoopInv
<1>10. KeyInv'
  BY DEF TypeOK, MarkInv, KeyInv
<1>11. RunningInLiveRoom'
  BY DEF TypeOK, EndInv, MarkInv, KeyInv, RunningInLiveRoom
<1> QED BY <1>1, <1>2, <1>3, <1>4, <1>5, <1>6, <1>7, <1>8, <1>9, <1>10, <1>11

\* The room is created with all its players.
LEMMA InitRoomStep ==
    ASSUME IInv, InitRoom
    PROVE  IInv'
<1> USE DEF IInv, InitRoom
<1>1. TypeOK'
  BY DEF TypeOK
<1>2. StateInv'
  BY DEF TypeOK, StateInv
<1>3. EndInv'
  BY DEF TypeOK, EndInv
<1>4. MarkInv'
  BY DEF TypeOK, StateInv, MarkInv
<1>5. LeaveInv'
  BY DEF TypeOK, MarkInv, LeaveInv
<1>6. CountInv'
  <2>1. players' \cap in_room' = Players
    OBVIOUS
  <2> QED BY <2>1, RoomAssumption DEF CountInv
<1>7. PrepareLockInv'
  BY PrepareSame
<1>8. StateLockInv'
  BY StateSame
<1>9. LoopInv'
  BY DEF TypeOK, StateInv, EndInv, LoopInv
<1>10. KeyInv'
  BY DEF TypeOK, MarkInv, KeyInv
<1>11. RunningInLiveRoom'
  BY DEF TypeOK, EndInv, MarkInv, KeyInv, RunningInLiveRoom
<1> QED BY <1>1, <1>2, <1>3, <1>4, <1>5, <1>6, <1>7, <1>8, <1>9, <1>10, <1>11

\* match cancels.
LEMMA AbortedByMatchStep ==
    ASSUME IInv, AbortedByMatch
    PROVE  IInv'
<1> USE DEF IInv, AbortedByMatch
<1>1. TypeOK'
  BY DEF TypeOK
<1>2. StateInv'
  BY DEF TypeOK, StateInv, MarkInv
<1>3. EndInv'
  BY DEF TypeOK, EndInv
<1>4. MarkInv'
  BY DEF TypeOK, StateInv, MarkInv
<1>5. LeaveInv'
  BY RoomAssumption DEF TypeOK, MarkInv, LeaveInv
<1>6. CountInv'
  BY DEF TypeOK, CountInv
<1>7. PrepareLockInv'
  BY PrepareSame
<1>8. StateLockInv'
  BY StateSame DEF EndInv, TypeOK
<1>9. LoopInv'
  BY DEF StateInv, MarkInv, LoopInv
<1>10. KeyInv'
  BY DEF TypeOK, MarkInv, KeyInv
<1>11. RunningInLiveRoom'
  BY DEF TypeOK, EndInv, MarkInv, KeyInv, RunningInLiveRoom
<1> QED BY <1>1, <1>2, <1>3, <1>4, <1>5, <1>6, <1>7, <1>8, <1>9, <1>10, <1>11

\* A frame of the scene.
LEMMA SceneEnterStep ==
    ASSUME IInv, SceneEnter
    PROVE  IInv'
<1> USE DEF IInv, SceneEnter
<1>1. TypeOK'
  BY DEF TypeOK
<1>2. StateInv'
  BY DEF TypeOK, StateInv
<1>3. EndInv'
  BY DEF TypeOK, EndInv
<1>4. MarkInv'
  BY DEF TypeOK, StateInv, MarkInv
<1>5. LeaveInv'
  BY DEF TypeOK, MarkInv, LeaveInv
<1>6. CountInv'
  BY DEF TypeOK, CountInv
<1>7. PrepareLockInv'
  BY PrepareSame
<1>8. StateLockInv'
  BY StateSame
<1>9. LoopInv'
  BY DEF TypeOK, StateInv, EndInv, LoopInv
<1>10. KeyInv'
  BY DEF TypeOK, MarkInv, KeyInv
<1>11. RunningInLiveRoom'
  BY DEF TypeOK, EndInv, MarkInv, KeyInv, RunningInLiveRoom
<1> QED BY <1>1, <1>2, <1>3, <1>4, <1>5, <1>6, <1>7, <1>8, <1>9, <1>10, <1>11

\* set_players_running loads a key nobody else may write now.
LEMMA LoadPlayerStep ==
    ASSUME IInv, NEW p \in Players, LoadPlayer(p)
    PROVE  IInv'
<1> USE DEF IInv, LoadPlayer, ToRun
<1>1. TypeOK'
  <2>1. start' \in [pc : {"none", "call", "loop", "done"}, owner : Players \cup {"none", "ready"},
                    seen : SUBSET Players, cur : SUBSET Players]
    BY DEF TypeOK
  <2>2. /\ UNCHANGED <<key, match, unmarked, room_state, players, fields, conv, sceneVars,
                       leave, alloc, ending, timers, locks>>
        /\ TypeOK
    OBVIOUS
  <2> HIDE DEF LoadPlayer, IInv
  <2> QED BY <2>1, <2>2 DEF TypeOK
<1>2. StateInv'
  BY DEF TypeOK, StateInv
<1>3. EndInv'
  BY DEF TypeOK, EndInv
<1>4. MarkInv'
  BY DEF TypeOK, StateInv, MarkInv
<1>5. LeaveInv'
  BY DEF TypeOK, MarkInv, LeaveInv
<1>6. CountInv'
  BY DEF TypeOK, CountInv
<1>7. PrepareLockInv'
  BY PrepareSame
<1>8. StateLockInv'
  BY StateSame
<1>9. LoopInv'
  <2>1. start' = [start EXCEPT !.cur = {p}] /\ start'.pc = "loop" /\ start'.cur = {p}
    BY DEF TypeOK
  <2>2. ending.seen = {} /\ match = "marking" /\ unmarked = {}
    BY DEF StateInv, MarkInv, LoopInv
  <2>3. key[p] = "ROOM_PREPARING"
    BY <2>2 DEF KeyInv
  <2> QED BY <2>1, <2>3 DEF LoopInv, Holds
<1>10. KeyInv'
  BY DEF TypeOK, MarkInv, KeyInv
<1>11. RunningInLiveRoom'
  BY DEF TypeOK, EndInv, MarkInv, KeyInv, RunningInLiveRoom
<1> QED BY <1>1, <1>2, <1>3, <1>4, <1>5, <1>6, <1>7, <1>8, <1>9, <1>10, <1>11

\* It saves the key.
LEMMA SaveRunningStep ==
    ASSUME IInv, NEW p \in Players, SaveRunning(p)
    PROVE  IInv'
<1> USE DEF IInv, SaveRunning
<1>1. TypeOK'
  <2>1. key' \in [Players -> {"ROOM_ALLOCATING", "ROOM_PREPARING", "RUNNING", "IDLE", "OTHER"}]
    BY DEF TypeOK
  <2>2. /\ start'.seen = start.seen \cup {p} /\ start'.cur = {}
        /\ start' \in [pc : {"none", "call", "loop", "done"}, owner : Players \cup {"none", "ready"},
                      seen : SUBSET Players, cur : SUBSET Players]
    BY DEF TypeOK
  <2> QED BY <2>1, <2>2 DEF TypeOK
<1>2. StateInv'
  BY DEF TypeOK, StateInv
<1>3. EndInv'
  BY DEF TypeOK, EndInv
<1>4. MarkInv'
  BY DEF TypeOK, StateInv, MarkInv
<1>5. LeaveInv'
  BY DEF TypeOK, MarkInv, LeaveInv
<1>6. CountInv'
  BY DEF TypeOK, CountInv
<1>7. PrepareLockInv'
  BY PrepareSame
<1>8. StateLockInv'
  BY StateSame
<1>9. LoopInv'
  BY DEF TypeOK, StateInv, EndInv, LoopInv
<1>10. KeyInv'
  <2>1. ending.seen = {} /\ start'.seen = start.seen \cup {p}
    BY DEF TypeOK, LoopInv
  <2> QED BY <2>1 DEF TypeOK, KeyInv
<1>11. RunningInLiveRoom'
  <2>1. /\ p \in players \cap in_room \/ leave[p] \in {"clear", "out"}
        /\ room_state \notin {"ABORTED", "FINISHED"}
    BY DEF LoopInv, EndInv
  <2> QED BY <2>1 DEF TypeOK, RunningInLiveRoom
<1> QED BY <1>1, <1>2, <1>3, <1>4, <1>5, <1>6, <1>7, <1>8, <1>9, <1>10, <1>11

\* The end deletes a key, after the start.
LEMMA ClearInRoomStep ==
    ASSUME IInv, NEW p \in Players, ClearInRoom(p)
    PROVE  IInv'
<1> USE DEF IInv, ClearInRoom, ToClear
<1>1. TypeOK'
  <2>1. key' \in [Players -> {"ROOM_ALLOCATING", "ROOM_PREPARING", "RUNNING", "IDLE", "OTHER"}]
    BY DEF TypeOK
  <2>2. /\ ending'.seen = ending.seen \cup {p}
        /\ ending' \in [pc : {"none", "weigh", "free", "clear", "close", "done", "crashed"},
                       kind : {"none", "abort", "finish", "keep"},
                       owner : Players \cup {"none", "prepare", "ready", "timer", "match"},
                       seen : SUBSET Players]
    BY DEF TypeOK
  <2> QED BY <2>1, <2>2 DEF TypeOK
<1>2. StateInv'
  BY DEF TypeOK, StateInv
<1>3. EndInv'
  BY DEF TypeOK, EndInv
<1>4. MarkInv'
  BY DEF TypeOK, StateInv, MarkInv
<1>5. LeaveInv'
  BY DEF TypeOK, MarkInv, LeaveInv
<1>6. CountInv'
  BY DEF TypeOK, CountInv
<1>7. PrepareLockInv'
  BY PrepareSame
<1>8. StateLockInv'
  BY StateSame
<1>9. LoopInv'
  BY EndAfterStart DEF LoopInv
<1>10. KeyInv'
  BY DEF TypeOK, MarkInv, KeyInv
<1>11. RunningInLiveRoom'
  BY DEF TypeOK, EndInv, MarkInv, KeyInv, RunningInLiveRoom
<1> QED BY <1>1, <1>2, <1>3, <1>4, <1>5, <1>6, <1>7, <1>8, <1>9, <1>10, <1>11

\* A player prepares; the last one asks for the lock.
LEMMA PrepareStep ==
    ASSUME IInv, NEW p \in Players, Prepare(p)
    PROVE  IInv'
<1> USE DEF IInv, Prepare, Told
<1>1. TypeOK'
  <2>1. prepare_room_lock' \in Seq(Players \cup {"prepare"})
    <3>1. CASE players \subseteq prepared'
      <4>1. prepare_room_lock' = Append(prepare_room_lock, "prepare")
        BY <3>1
      <4>2. Append(prepare_room_lock, "prepare") \in Seq(Players \cup {"prepare"})
        BY SeqAppend DEF TypeOK
      <4> QED BY <4>1, <4>2
    <3>2. CASE ~(players \subseteq prepared')
      BY <3>2 DEF TypeOK
    <3> QED BY <3>1, <3>2
  <2> QED BY <2>1 DEF TypeOK
<1>2. StateInv'
  BY DEF TypeOK, StateInv
<1>3. EndInv'
  BY DEF TypeOK, EndInv
<1>4. MarkInv'
  <2>1. players \subseteq prepared' => unmarked = {}
    BY DEF TypeOK, MarkInv
  <2> QED BY <2>1 DEF TypeOK, StateInv, MarkInv
<1>5. LeaveInv'
  BY RoomAssumption DEF TypeOK, MarkInv, LeaveInv
<1>6. CountInv'
  BY DEF TypeOK, CountInv
<1>7. PrepareLockInv'
  <2>1. CASE players \subseteq prepared'
    <3>1. Queues("prepare")
      BY <2>1, RoomAssumption DEF Queues, OthersKept, Waits, IsIn, Callers, StateInv
    <3> QED BY <2>1, <3>1, PrepareQueued DEF Callers
  <2>2. CASE ~(players \subseteq prepared')
    BY <2>2, PrepareSame
  <2> QED BY <2>1, <2>2
<1>8. StateLockInv'
  BY StateSame
<1>9. LoopInv'
  BY DEF TypeOK, StateInv, EndInv, LoopInv
<1>10. KeyInv'
  BY DEF TypeOK, MarkInv, KeyInv
<1>11. RunningInLiveRoom'
  BY DEF TypeOK, EndInv, MarkInv, KeyInv, RunningInLiveRoom
<1> QED BY <1>1, <1>2, <1>3, <1>4, <1>5, <1>6, <1>7, <1>8, <1>9, <1>10, <1>11

\* The prepare handler has the lock.
LEMMA AllocBeginStep ==
    ASSUME IInv, AllocBegin
    PROVE  IInv'
<1> USE DEF IInv, AllocBegin, abort_room, Return, Stay, Release
<1>1. TypeOK'
  <2>1. /\ prepare_room_lock' \in Seq(Players \cup {"prepare"})
        /\ player_state_lock' \in Seq(Players \cup {"start", "end"})
    <3>1. /\ Release(prepare_room_lock, "prepare") \in Seq(Players \cup {"prepare"})
          /\ Append(player_state_lock, "end") \in Seq(Players \cup {"start", "end"})
      BY SeqRelease, SeqAppend DEF TypeOK
    <3> QED BY <3>1 DEF TypeOK, Release
  <2>2. leave' = leave
    BY RoomAssumption
  <2>3. alloc' \in [pc : {"none", "wait", "gateway", "scene", "done", "failed"},
                    owner : Players \cup {"none", "prepare"}]
    BY DEF TypeOK
  <2>4. ending' \in [pc : {"none", "weigh", "free", "clear", "close", "done", "crashed"},
                     kind : {"none", "abort", "finish", "keep"},
                     owner : Players \cup {"none", "prepare", "ready", "timer", "match"},
                     seen : SUBSET Players]
    BY DEF TypeOK
  <2>5. room_state' \in {room_state, "ABORTING"}
    OBVIOUS
  <2>6. UNCHANGED <<key, match, unmarked, players, fields, conv, sceneVars, start, timers>>
    OBVIOUS
  <2> HIDE DEF AllocBegin, IInv, abort_room, Return, Stay, Release
  <2>7. TypeOK
    BY DEF IInv
  <2> QED BY <2>1, <2>2, <2>3, <2>4, <2>5, <2>6, <2>7 DEF TypeOK, Over, fields, sceneVars
<1>2. StateInv'
  BY RoomAssumption DEF TypeOK, StateInv
<1>3. EndInv'
  BY DEF TypeOK, EndInv
<1>4. MarkInv'
  BY RoomAssumption DEF TypeOK, StateInv, MarkInv
<1>5. LeaveInv'
  BY RoomAssumption DEF TypeOK, MarkInv, LeaveInv
<1>6. CountInv'
  BY RoomAssumption DEF TypeOK, CountInv
<1>7. PrepareLockInv'
  <2>1. CASE room_state = "WAIT_BATTLE_PREPARE"
    <3>1. /\ alloc.pc = "wait" /\ alloc.owner = "prepare"
          /\ alloc' = [alloc EXCEPT !.pc = "gateway"]
          /\ UNCHANGED <<leave, locks>>
      BY <2>1 DEF StateInv
    <3>2. alloc'.pc = "gateway" /\ alloc'.owner = "prepare"
      BY <3>1 DEF TypeOK
    <3>3. Stays("prepare")
      BY <2>1, <3>1, <3>2, RoomAssumption
         DEF Stays, OthersKept, Waits, IsIn, Callers, PrepareLockInv
    <3> QED BY <2>1, <3>3, PrepareKept DEF Callers
  <2>2. CASE room_state # "WAIT_BATTLE_PREPARE"
    <3>1. Goes("prepare")
      BY <2>2, RoomAssumption DEF Goes, OthersKept, Waits, IsIn, Callers, TypeOK
    <3> QED BY <2>2, <3>1, RoomAssumption, PrepareReleased
  <2> QED BY <2>1, <2>2
<1>8. StateLockInv'
  <2>1. CASE room_state \in Over \cup {"WAIT_BATTLE_PREPARE"}
    BY <2>1, RoomAssumption, StateSame, SMTT(30)
  <2>2. CASE room_state \notin Over /\ room_state # "WAIT_BATTLE_PREPARE"
    <3>1. UsersKept("end") /\ ~Uses("end") /\ Uses("end")'
      BY <2>2, RoomAssumption DEF UsersKept, Uses, EndInv, Users
    <3> QED BY <2>2, <3>1, StateQueued DEF Users
  <2> QED BY <2>1, <2>2
<1>9. LoopInv'
  BY RoomAssumption DEF StateInv, LoopInv
<1>10. KeyInv'
  BY DEF EndInv, KeyInv
<1>11. RunningInLiveRoom'
  BY RoomAssumption DEF TypeOK, RunningInLiveRoom
<1> QED BY <1>1, <1>2, <1>3, <1>4, <1>5, <1>6, <1>7, <1>8, <1>9, <1>10, <1>11

\* The sessions are noted.
LEMMA AllocSessionsStep ==
    ASSUME IInv, AllocSessions
    PROVE  IInv'
<1> USE DEF IInv, AllocSessions
<1>1. TypeOK'
  <2>1. alloc' \in [pc : {"none", "wait", "gateway", "scene", "done", "failed"},
                   owner : Players \cup {"none", "prepare"}]
    BY DEF TypeOK
  <2>2. conv' \subseteq Players /\ battle_ready' \subseteq Players
    BY DEF TypeOK
  <2> QED BY <2>1, <2>2 DEF TypeOK
<1>2. StateInv'
  BY DEF TypeOK, StateInv
<1>3. EndInv'
  BY DEF TypeOK, StateInv, EndInv
<1>4. MarkInv'
  BY DEF TypeOK, StateInv, MarkInv
<1>5. LeaveInv'
  BY DEF TypeOK, MarkInv, LeaveInv
<1>6. CountInv'
  BY DEF TypeOK, CountInv
<1>7. PrepareLockInv'
  <2>1. Stays("prepare")
    BY RoomAssumption DEF Stays, OthersKept, Waits, IsIn, Callers, PrepareLockInv, TypeOK
  <2> QED BY <2>1, PrepareKept DEF Callers
<1>8. StateLockInv'
  BY StateSame
<1>9. LoopInv'
  BY DEF TypeOK, StateInv, EndInv, LoopInv
<1>10. KeyInv'
  BY DEF TypeOK, MarkInv, KeyInv
<1>11. RunningInLiveRoom'
  BY DEF TypeOK, EndInv, MarkInv, KeyInv, RunningInLiveRoom
<1> QED BY <1>1, <1>2, <1>3, <1>4, <1>5, <1>6, <1>7, <1>8, <1>9, <1>10, <1>11

\* The allocation is done; the handler that made it returns.
LEMMA AllocDoneStep ==
    ASSUME IInv, AllocDone
    PROVE  IInv'
<1> USE DEF IInv, AllocDone, Return
<1>0. \A p \in Players : \/ leave'[p] = leave[p] /\ p # alloc.owner
                         \/ p = alloc.owner /\ leave[p] \in {"sub", "done"} /\ leave'[p] = "done"
  BY DEF TypeOK, LeaveInv
<1>1. TypeOK'
  <2>1. prepare_room_lock' \in Seq(Players \cup {"prepare"})
    BY SeqRelease DEF TypeOK
  <2>2. alloc' \in [pc : {"none", "wait", "gateway", "scene", "done", "failed"},
                    owner : Players \cup {"none", "prepare"}]
    BY DEF TypeOK
  <2>3. leave' \in [Players -> {"none", "wait", "clear", "out", "kick", "kickout", "sub", "done"}]
    BY DEF TypeOK
  <2>4. scene' \in [Players -> {"out", "pending", "playing", "left"}]
    BY DEF TypeOK
  <2>5. UNCHANGED <<key, match, unmarked, room_state, players, fields, conv, started, kicks,
                    start, ending, timers, player_state_lock>> /\ TypeOK
    OBVIOUS
  <2> HIDE DEF AllocDone, IInv
  <2> QED BY <2>1, <2>2, <2>3, <2>4, <2>5 DEF TypeOK
<1>2. StateInv'
  BY DEF TypeOK, StateInv
<1>3. EndInv'
  BY DEF TypeOK, EndInv
<1>4. MarkInv'
  BY <1>0 DEF TypeOK, StateInv, MarkInv
<1>5. LeaveInv'
  BY <1>0 DEF TypeOK, LeaveInv
<1>6. CountInv'
  BY <1>0 DEF TypeOK, CountInv
<1>7. PrepareLockInv'
  <2> DEFINE c == alloc.owner
  <2>1. Holds(prepare_room_lock, c)
    BY DEF PrepareLockInv
  <2>2. Goes(c)
    BY <1>0, RoomAssumption DEF Goes, OthersKept, Waits, IsIn, Callers, TypeOK
  <2> QED BY <2>1, <2>2, PrepareReleased
<1>8. StateLockInv'
  BY <1>0, StateSame DEF TypeOK
<1>9. LoopInv'
  BY DEF TypeOK, StateInv, EndInv, LoopInv
<1>10. KeyInv'
  BY DEF TypeOK, MarkInv, KeyInv
<1>11. RunningInLiveRoom'
  BY <1>0 DEF TypeOK, RunningInLiveRoom
<1> QED BY <1>1, <1>2, <1>3, <1>4, <1>5, <1>6, <1>7, <1>8, <1>9, <1>10, <1>11

\* The handler c waits for a procedure it has called, or returns from it.
Passes(c) == \A p \in Players : \/ leave'[p] = leave[p]
                               \/ /\ p = c /\ leave[p] \in {"sub", "done", "kick", "kickout"}
                                  /\ leave'[p] \in {"sub", "done"}
Passing(c) == c \in Players => leave[c] \in {"sub", "done", "kick", "kickout"}

\* A handler that returns leaves prepare_room_lock to the next one.
LEMMA Returned ==
    ASSUME IInv, NEW c, Return(c), Passing(c), UNCHANGED alloc,
           c = "prepare" => alloc.pc # "wait",
           alloc.pc \in {"gateway", "scene"} => alloc.owner # c
    PROVE  /\ Passes(c) /\ leave' \in [Players -> {"none", "wait", "clear", "out", "kick",
                                                  "kickout", "sub", "done"}]
           /\ PrepareLockInv' /\ prepare_room_lock' \in Seq(Players \cup {"prepare"})
           /\ c \in Players => leave'[c] = "done"
<1> USE DEF IInv
<1>1. Passes(c) /\ (c \in Players => leave'[c] = "done")
  BY DEF Passes, Passing, Return, TypeOK
<1>2. \A p \in Players : p # c => leave'[p] = leave[p]
  BY DEF Return, TypeOK
<1>3. Goes(c)
  BY <1>1, <1>2, RoomAssumption DEF Goes, OthersKept, Waits, IsIn, Callers, Return, TypeOK
<1>4. c \notin Callers \/ ~Waits(c)
  BY RoomAssumption DEF Callers, Waits, Passing
<1>5. PrepareLockInv' /\ prepare_room_lock' \in Seq(Callers)
  BY <1>3, <1>4, PrepareReleased DEF Return
<1>6. leave' \in [Players -> {"none", "wait", "clear", "out", "kick", "kickout", "sub", "done"}]
  BY DEF Return, TypeOK
<1> QED BY <1>1, <1>5, <1>6 DEF Callers

\* A leave handler that waits for a procedure keeps the lock if it has it.
LEMMA Stayed ==
    ASSUME IInv, NEW c, c # "prepare", Stay(c), Passing(c),
           \/ UNCHANGED alloc
           \/ alloc.owner # "prepare" /\ alloc.pc # "wait" /\ alloc'.pc = "failed"
    PROVE  /\ Passes(c) /\ leave' \in [Players -> {"none", "wait", "clear", "out", "kick",
                                                  "kickout", "sub", "done"}]
           /\ PrepareLockInv' /\ prepare_room_lock' = prepare_room_lock
           /\ c \in Players => leave'[c] = "sub"
<1> USE DEF IInv
<1>1. /\ Passes(c) /\ prepare_room_lock' = prepare_room_lock
      /\ c \in Players => leave'[c] = "sub"
  BY DEF Passes, Passing, Stay, TypeOK
<1>2. \A p \in Players : leave'[p] \in {"clear", "kick"} => Holds(prepare_room_lock, p)
  BY <1>1 DEF Passes, PrepareLockInv
<1>3. OthersKept("prepare")
  BY <1>1, RoomAssumption DEF OthersKept, Callers, Passes, Waits, IsIn
<1>4. Stays("prepare")
  BY <1>2, <1>3, RoomAssumption DEF Stays, Waits, IsIn, PrepareLockInv
<1>5. PrepareLockInv'
  BY <1>1, <1>4, PrepareKept DEF Callers
<1>6. leave' \in [Players -> {"none", "wait", "clear", "out", "kick", "kickout", "sub", "done"}]
  BY DEF Stay, TypeOK
<1> QED BY <1>1, <1>5, <1>6

\* The end of the room queues for player_state_lock.
LEMMA EndQueues ==
    ASSUME IInv, NEW c, Passes(c), ending.pc # "clear", ending'.pc = "clear",
           start'.pc = "loop" => start.pc = "loop", start.pc = "loop" => start'.pc = "loop",
           player_state_lock' = Append(player_state_lock, "end")
    PROVE  StateLockInv' /\ player_state_lock' \in Seq(Players \cup {"start", "end"})
<1>1. UsersKept("end") /\ ~Uses("end") /\ Uses("end")'
  BY RoomAssumption DEF UsersKept, Uses, Users, Passes
<1> QED BY <1>1, StateQueued DEF Users, IInv

\* The allocation fails: the sessions are given back and the room is aborted.
LEMMA AllocFailsStep ==
    ASSUME IInv, AllocFails
    PROVE  IInv'
<1> USE DEF IInv, AllocFails, abort_room
<1>a. PICK c : c = alloc.owner
  OBVIOUS
<1>b. /\ room_state = "WAIT_BATTLE_PREPARE" /\ ending.pc = "none" /\ Passing(c)
      /\ start.pc = "none" /\ Holds(prepare_room_lock, c)
  BY <1>a DEF TypeOK, StateInv, EndInv, LeaveInv, Passing, PrepareLockInv
<1>c. /\ room_state' = "ABORTING" /\ Stay(c)
      /\ ending' = [pc |-> "clear", kind |-> "abort", owner |-> c, seen |-> {}]
      /\ player_state_lock' = Append(player_state_lock, "end")
  BY <1>a, <1>b
<1>d. alloc' = [alloc EXCEPT !.pc = "failed"] /\ alloc'.pc = "failed" /\ alloc'.owner = c
  BY <1>a DEF TypeOK
<1>e. /\ Passes(c) /\ PrepareLockInv'
      /\ leave' \in [Players -> {"none", "wait", "clear", "out", "kick", "kickout", "sub", "done"}]
      /\ prepare_room_lock' \in Seq(Players \cup {"prepare"})
      /\ c \in Players => leave'[c] = "sub"
  <2>1. CASE c = "prepare"
    <3>1. leave' = leave /\ prepare_room_lock' = Release(prepare_room_lock, c)
      BY <1>c, <2>1, RoomAssumption DEF Stay
    <3>2. Goes(c)
      BY <1>d, <2>1, <3>1, RoomAssumption DEF Goes, OthersKept, Waits, IsIn, Callers
    <3> QED BY <1>b, <2>1, <3>1, <3>2, RoomAssumption, PrepareReleased DEF Passes, Callers, TypeOK
  <2>2. CASE c # "prepare"
    <3>1. alloc.pc # "wait" /\ alloc.owner # "prepare"
      BY <1>a, <2>2
    <3> QED BY <1>b, <1>c, <1>d, <2>2, <3>1, Stayed DEF TypeOK
  <2> QED BY <2>1, <2>2
<1>f. StateLockInv' /\ player_state_lock' \in Seq(Players \cup {"start", "end"})
  BY <1>b, <1>c, <1>e, EndQueues
<1>1. TypeOK'
  BY <1>a, <1>b, <1>c, <1>d, <1>e, <1>f, RoomAssumption DEF TypeOK, Passes
<1>2. StateInv'
  BY <1>a, <1>b, <1>c, <1>d, <1>e, <1>f, RoomAssumption DEF TypeOK, StateInv, Passes
<1>3. EndInv'
  BY <1>a, <1>b, <1>c, <1>d, <1>e, <1>f, RoomAssumption DEF TypeOK, EndInv, Passes
<1>4. MarkInv'
  BY <1>a, <1>b, <1>c, <1>d, <1>e, <1>f, RoomAssumption DEF TypeOK, StateInv, MarkInv, Passes
<1>5. LeaveInv'
  BY <1>a, <1>b, <1>c, <1>d, <1>e, <1>f, RoomAssumption DEF TypeOK, MarkInv, LeaveInv, Passes
<1>6. CountInv'
  BY <1>a, <1>b, <1>c, <1>d, <1>e, <1>f, RoomAssumption DEF TypeOK, CountInv, Passes
<1>7. PrepareLockInv'
  BY <1>e
<1>8. StateLockInv'
  BY <1>f
<1>9. LoopInv'
  BY <1>a, <1>b, <1>c, <1>d, <1>e, <1>f, RoomAssumption
     DEF TypeOK, StateInv, EndInv, LoopInv, Passes
<1>10. KeyInv'
  BY <1>b, <1>c DEF EndInv, KeyInv
<1>11. RunningInLiveRoom'
  BY <1>a, <1>b, <1>c, <1>d, <1>e, <1>f, RoomAssumption
     DEF TypeOK, EndInv, MarkInv, KeyInv, RunningInLiveRoom, Passes
<1> QED BY <1>1, <1>2, <1>3, <1>4, <1>5, <1>6, <1>7, <1>8, <1>9, <1>10, <1>11

\* A session is up or down; the last one up starts the game.
LEMMA BattleReadyStep ==
    ASSUME IInv, NEW p \in Players, NEW up \in BOOLEAN, BattleReady(p, up)
    PROVE  IInv'
<1> USE DEF IInv, BattleReady, start_running, Stay
<1>a. leave' = leave /\ prepare_room_lock' = prepare_room_lock
  BY RoomAssumption
<1>b. \/ room_state' = room_state /\ start' = start
      \/ /\ room_state = "WAIT_BATTLE_PREPARE" /\ room_state' = "RUNNING" /\ start.pc = "none"
         /\ start' = [pc |-> "call", owner |-> "ready", seen |-> {}, cur |-> {}]
  BY DEF StateInv
<1>c. battle_ready' \subseteq Players
  BY DEF TypeOK
<1>1. TypeOK'
  BY <1>a, <1>b, <1>c, RoomAssumption DEF TypeOK, Passes
<1>2. StateInv'
  BY <1>a, <1>b, <1>c, RoomAssumption DEF TypeOK, StateInv, Passes
<1>3. EndInv'
  BY <1>a, <1>b, <1>c, RoomAssumption DEF TypeOK, EndInv, Passes
<1>4. MarkInv'
  BY <1>a, <1>b, <1>c, RoomAssumption DEF TypeOK, StateInv, MarkInv, Passes
<1>5. LeaveInv'
  BY <1>a, <1>b, <1>c, RoomAssumption DEF TypeOK, MarkInv, LeaveInv, Passes
<1>6. CountInv'
  BY <1>a, <1>b, <1>c, RoomAssumption DEF TypeOK, CountInv, Passes
<1>7. PrepareLockInv'
  BY <1>a, PrepareSame
<1>8. StateLockInv'
  BY <1>a, <1>b, StateSame
<1>9. LoopInv'
  BY <1>a, <1>b, <1>c, RoomAssumption DEF TypeOK, StateInv, EndInv, LoopInv, Passes
<1>10. KeyInv'
  BY <1>a, <1>b DEF StateInv, KeyInv
<1>11. RunningInLiveRoom'
  BY <1>a, <1>b, <1>c, RoomAssumption
     DEF TypeOK, EndInv, MarkInv, KeyInv, RunningInLiveRoom, Passes
<1> QED BY <1>1, <1>2, <1>3, <1>4, <1>5, <1>6, <1>7, <1>8, <1>9, <1>10, <1>11

\* start_game answered; the room may be over.
LEMMA StartAnsweredStep ==
    ASSUME IInv, StartAnswered
    PROVE  IInv'
<1> USE DEF IInv, StartAnswered
<1>a. PICK c : c = start.owner
  OBVIOUS
<1>b. /\ alloc.pc = "done" /\ c # "prepare" /\ start.cur = {} /\ Passing(c)
      /\ c \in Players => leave[c] \in {"sub", "done"}
  BY <1>a, RoomAssumption DEF TypeOK, StateInv, LeaveInv, Passing
<1>c. \/ /\ room_state = "RUNNING" /\ start'.pc = "loop" /\ UNCHANGED <<leave, prepare_room_lock>>
         /\ player_state_lock' = Append(player_state_lock, "start")
      \/ /\ room_state # "RUNNING" /\ start'.pc = "done" /\ Return(c)
         /\ UNCHANGED player_state_lock
  BY <1>a DEF TypeOK
<1>d. start'.owner = start.owner /\ start'.seen = start.seen /\ start'.cur = start.cur
  BY DEF TypeOK
<1>e. /\ Passes(c) /\ PrepareLockInv'
      /\ leave' \in [Players -> {"none", "wait", "clear", "out", "kick", "kickout", "sub", "done"}]
      /\ prepare_room_lock' \in Seq(Players \cup {"prepare"})
      /\ c \in Players => leave'[c] \in {"sub", "done"}
  <2>1. CASE UNCHANGED <<leave, prepare_room_lock>>
    BY <1>b, <2>1, PrepareSame DEF Passes, TypeOK
  <2>2. CASE Return(c)
    BY <1>b, <2>2, Returned
  <2> QED BY <1>c, <2>1, <2>2
<1>f. StateLockInv' /\ player_state_lock' \in Seq(Players \cup {"start", "end"})
  <2>1. CASE start'.pc = "loop"
    <3>1. UsersKept("start") /\ ~Uses("start") /\ Uses("start")' /\ ~Uses("end")
      BY <1>c, <2>1, RoomAssumption DEF UsersKept, Uses, Users, EndInv
    <3> QED BY <1>c, <2>1, <3>1, StateQueued DEF Users
  <2>2. CASE start'.pc # "loop"
    BY <1>c, <1>e, <2>2, StateSame DEF Passes, TypeOK
  <2> QED BY <2>1, <2>2
<1>1. TypeOK'
  BY <1>a, <1>b, <1>c, <1>d, <1>e, <1>f DEF TypeOK, Passes
<1>2. StateInv'
  BY <1>a, <1>b, <1>c, <1>d, <1>e, <1>f DEF TypeOK, StateInv, Passes
<1>3. EndInv'
  BY <1>a, <1>b, <1>c, <1>d, <1>e, <1>f DEF TypeOK, EndInv, Passes
<1>4. MarkInv'
  BY <1>a, <1>b, <1>c, <1>d, <1>e, <1>f DEF TypeOK, StateInv, MarkInv, Passes
<1>5. LeaveInv'
  BY <1>a, <1>b, <1>c, <1>d, <1>e, <1>f DEF TypeOK, MarkInv, LeaveInv, Passes
<1>6. CountInv'
  <2>1. \A p \in Players : leave[p] \in {"clear", "kick", "out", "kickout"} => leave'[p] = leave[p]
    BY <1>b, <1>e DEF Passes
  <2> QED BY <2>1 DEF CountInv
<1>7. PrepareLockInv'
  BY <1>e
<1>8. StateLockInv'
  BY <1>f
<1>9. LoopInv'
  BY <1>b, <1>c, <1>d DEF EndInv, LoopInv
<1>10. KeyInv'
  BY <1>a, <1>b, <1>c, <1>d, <1>e, <1>f DEF TypeOK, MarkInv, KeyInv, Passes
<1>11. RunningInLiveRoom'
  BY <1>a, <1>b, <1>c, <1>d, <1>e, <1>f
     DEF TypeOK, EndInv, MarkInv, KeyInv, RunningInLiveRoom, Passes
<1> QED BY <1>1, <1>2, <1>3, <1>4, <1>5, <1>6, <1>7, <1>8, <1>9, <1>10, <1>11

\* start_game failed: the room is aborted, if it is not over.
LEMMA StartFailsStep ==
    ASSUME IInv, StartFails
    PROVE  IInv'
<1> USE DEF IInv, StartFails, abort_room
<1>a. PICK c : c = start.owner
  OBVIOUS
<1>b. /\ alloc.pc = "done" /\ c # "prepare" /\ start.cur = {} /\ Passing(c)
      /\ c \in Players => leave[c] \in {"sub", "done"}
  BY <1>a, RoomAssumption DEF TypeOK, StateInv, LeaveInv, Passing
<1>c. \/ /\ room_state \in Over /\ Return(c)
         /\ UNCHANGED <<room_state, ending, player_state_lock>>
      \/ /\ room_state \notin Over /\ room_state' = "ABORTING" /\ Stay(c)
         /\ ending.pc = "none" /\ ending.seen = {}
         /\ ending' = [pc |-> "clear", kind |-> "abort", owner |-> c, seen |-> {}]
         /\ player_state_lock' = Append(player_state_lock, "end")
  BY <1>a DEF EndInv
<1>d. start'.pc = "done" /\ start'.owner = c /\ start'.seen = start.seen /\ start'.cur = {}
  BY <1>a, <1>b DEF TypeOK
<1>e. /\ Passes(c) /\ PrepareLockInv'
      /\ leave' \in [Players -> {"none", "wait", "clear", "out", "kick", "kickout", "sub", "done"}]
      /\ prepare_room_lock' \in Seq(Players \cup {"prepare"})
      /\ c \in Players => leave'[c] \in {"sub", "done"}
  <2>1. CASE Stay(c)
    BY <1>b, <2>1, Stayed DEF TypeOK
  <2>2. CASE Return(c)
    BY <1>b, <2>2, Returned
  <2> QED BY <1>c, <2>1, <2>2
<1>f. StateLockInv' /\ player_state_lock' \in Seq(Players \cup {"start", "end"})
  <2>1. CASE UNCHANGED <<ending, player_state_lock>>
    BY <1>d, <1>e, <2>1, StateSame DEF Passes, TypeOK
  <2>2. CASE ending.pc = "none" /\ ending'.pc = "clear"
    BY <1>c, <1>d, <1>e, <2>2, EndQueues
  <2> QED BY <1>c, <2>1, <2>2
<1>1. TypeOK'
  <2>1. start' \in [pc : {"none", "call", "loop", "done"},
                    owner : Players \cup {"none", "ready"},
                    seen : SUBSET Players, cur : SUBSET Players]
    BY <1>d DEF TypeOK
  <2>2. /\ room_state' \in {"UNINIT", "RUNNING"} \cup Waiting \cup Over
        /\ c \in Players \cup {"none", "ready"}
    BY <1>a, <1>c DEF TypeOK
  <2>3. ending' \in [pc : {"none", "weigh", "free", "clear", "close", "done", "crashed"},
                     kind : {"none", "abort", "finish", "keep"},
                     owner : Players \cup {"none", "prepare", "ready", "timer", "match"},
                     seen : SUBSET Players]
    BY <1>c, <2>2 DEF TypeOK
  <2>4. /\ UNCHANGED <<key, match, unmarked, players, fields, conv, sceneVars, alloc, timers>>
        /\ TypeOK
    OBVIOUS
  <2> HIDE DEF StartFails, abort_room, IInv
  <2> QED BY <1>e, <1>f, <2>1, <2>2, <2>3, <2>4 DEF TypeOK
<1>2. StateInv'
  BY <1>a, <1>b, <1>c, <1>d, <1>e, <1>f, RoomAssumption DEF TypeOK, StateInv, Passes
<1>3. EndInv'
  BY <1>a, <1>b, <1>c, <1>d, <1>e, <1>f, RoomAssumption DEF TypeOK, EndInv, Passes
<1>4. MarkInv'
  BY <1>a, <1>b, <1>c, <1>d, <1>e, <1>f, RoomAssumption DEF TypeOK, StateInv, MarkInv, Passes
<1>5. LeaveInv'
  BY <1>a, <1>b, <1>c, <1>d, <1>e, <1>f, RoomAssumption DEF TypeOK, MarkInv, LeaveInv, Passes
<1>6. CountInv'
  BY <1>a, <1>b, <1>c, <1>d, <1>e, <1>f, RoomAssumption DEF TypeOK, CountInv, Passes
<1>7. PrepareLockInv'
  BY <1>e
<1>8. StateLockInv'
  BY <1>f
<1>9. LoopInv'
  BY <1>d DEF LoopInv
<1>10. KeyInv'
  BY <1>a, <1>b, <1>c, <1>d, <1>e, <1>f, RoomAssumption DEF TypeOK, MarkInv, KeyInv, Passes
<1>11. RunningInLiveRoom'
  BY <1>a, <1>b, <1>c, <1>d, <1>e, <1>f, RoomAssumption
     DEF TypeOK, EndInv, MarkInv, KeyInv, RunningInLiveRoom, Passes
<1> QED BY <1>1, <1>2, <1>3, <1>4, <1>5, <1>6, <1>7, <1>8, <1>9, <1>10, <1>11

\* All are RUNNING.
LEMMA StartDoneStep ==
    ASSUME IInv, StartDone
    PROVE  IInv'
<1> USE DEF IInv, StartDone, ToRun
<1>a. PICK c : c = start.owner
  OBVIOUS
<1>b. /\ alloc.pc = "done" /\ c # "prepare" /\ Passing(c)
      /\ c \in Players => leave[c] \in {"sub", "done"}
  BY <1>a, RoomAssumption DEF TypeOK, StateInv, LeaveInv, Passing
<1>d. start'.pc = "done" /\ start'.owner = c /\ start'.seen = start.seen /\ start'.cur = {}
  BY <1>a DEF TypeOK
<1>e. /\ Passes(c) /\ PrepareLockInv'
      /\ leave' \in [Players -> {"none", "wait", "clear", "out", "kick", "kickout", "sub", "done"}]
      /\ prepare_room_lock' \in Seq(Players \cup {"prepare"})
      /\ c \in Players => leave'[c] \in {"sub", "done"}
  BY <1>a, <1>b, Returned
<1>f. StateLockInv' /\ player_state_lock' \in Seq(Players \cup {"start", "end"})
  <2>1. UsersKept("start")
    BY <1>e, RoomAssumption DEF UsersKept, Uses, Users, Passes
  <2> QED BY <1>d, <2>1, StateReleased DEF Users
<1>1. TypeOK'
  <2>1. /\ start' \in [pc : {"none", "call", "loop", "done"}, owner : Players \cup {"none", "ready"},
                      seen : SUBSET Players, cur : SUBSET Players]
        /\ timers' \subseteq {"prepare", "round"}
    BY DEF TypeOK
  <2>2. UNCHANGED <<key, match, unmarked, room_state, players, prepared, battle_ready, in_room,
                    conv, sceneVars, alloc, ending>>
    OBVIOUS
  <2> HIDE DEF StartDone
  <2> QED BY <1>e, <1>f, <2>1, <2>2 DEF TypeOK
<1>2. StateInv'
  BY <1>a, <1>b, <1>d, <1>e, <1>f DEF TypeOK, StateInv, Passes
<1>3. EndInv'
  BY <1>a, <1>b, <1>d, <1>e, <1>f DEF TypeOK, EndInv, Passes
<1>4. MarkInv'
  BY <1>a, <1>b, <1>d, <1>e, <1>f DEF TypeOK, StateInv, MarkInv, Passes
<1>5. LeaveInv'
  BY <1>a, <1>b, <1>d, <1>e, <1>f DEF TypeOK, MarkInv, LeaveInv, Passes
<1>6. CountInv'
  <2>1. \A p \in Players : leave[p] \in {"clear", "kick", "out", "kickout"} => leave'[p] = leave[p]
    BY <1>b, <1>e DEF Passes
  <2> QED BY <1>b, <2>1 DEF CountInv
<1>7. PrepareLockInv'
  BY <1>e
<1>8. StateLockInv'
  BY <1>f
<1>9. LoopInv'
  BY <1>d DEF LoopInv
<1>10. KeyInv'
  BY <1>a, <1>b, <1>d, <1>e, <1>f DEF TypeOK, MarkInv, KeyInv, Passes
<1>11. RunningInLiveRoom'
  BY <1>a, <1>b, <1>d, <1>e, <1>f DEF TypeOK, EndInv, MarkInv, KeyInv, RunningInLiveRoom, Passes
<1> QED BY <1>1, <1>2, <1>3, <1>4, <1>5, <1>6, <1>7, <1>8, <1>9, <1>10, <1>11

\* A leave starts: behind the preparations, out of the game, or with nothing to do.
LEMMA LeaveBeginStep ==
    ASSUME IInv, NEW p \in Players, LeaveBegin(p)
    PROVE  IInv'
<1> USE DEF IInv, LeaveBegin
<1>a. /\ \A r \in Players \ {p} : leave'[r] = leave[r]
      /\ leave[p] = "none" /\ leave'[p] \in {"wait", "out", "done"}
      /\ leave' \in [Players -> {"none", "wait", "clear", "out", "kick", "kickout", "sub", "done"}]
      /\ in_room' \subseteq in_room
  <2>1. leave \in [Players -> {"none", "wait", "clear", "out", "kick", "kickout", "sub", "done"}]
    BY DEF TypeOK
  <2>2. /\ leave[p] = "none" /\ in_room' \subseteq in_room
        /\ \/ leave' = [leave EXCEPT ![p] = "wait"]
           \/ leave' = [leave EXCEPT ![p] = "out"]
           \/ leave' = [leave EXCEPT ![p] = "done"]
    BY DEF LeaveBegin
  <2> HIDE DEF LeaveBegin, IInv
  <2> QED BY <2>1, <2>2
<1>b. PrepareLockInv' /\ prepare_room_lock' \in Seq(Players \cup {"prepare"})
  <2>1. CASE leave'[p] = "wait"
    <3>1. prepare_room_lock' = Append(prepare_room_lock, p)
      BY <1>a, <2>1 DEF TypeOK
    <3>2. Queues(p)
      BY <1>a, <2>1, RoomAssumption DEF Queues, OthersKept, Waits, IsIn, Callers
    <3> QED BY <3>1, <3>2, PrepareQueued DEF Callers
  <2>2. CASE leave'[p] # "wait"
    <3>1. prepare_room_lock' = prepare_room_lock
      BY <2>2 DEF TypeOK
    <3>2. Stays("prepare")
      BY <1>a, <2>2, RoomAssumption DEF Stays, OthersKept, Waits, IsIn, Callers, PrepareLockInv
    <3> QED BY <3>1, <3>2, PrepareKept DEF Callers, TypeOK
  <2> QED BY <2>1, <2>2
<1>c. StateLockInv' /\ player_state_lock' \in Seq(Players \cup {"start", "end"})
  <2>1. CASE leave'[p] = "out"
    <3>1. player_state_lock' = Append(player_state_lock, p)
      BY <2>1 DEF TypeOK
    <3>2. UsersKept(p) /\ ~Uses(p) /\ Uses(p)' /\ p # "start"
      BY <1>a, <2>1, RoomAssumption DEF UsersKept, Uses, Users
    <3> QED BY <3>1, <3>2, StateQueued DEF Users
  <2>2. CASE leave'[p] # "out"
    <3>1. player_state_lock' = player_state_lock
      BY <2>2 DEF TypeOK
    <3> QED BY <1>a, <3>1, StateSame DEF TypeOK
  <2> QED BY <2>1, <2>2
<1>d. \/ in_room' = in_room
      \/ room_state = "RUNNING" /\ leave'[p] = "out" /\ in_room' = in_room \ {p}
  BY DEF TypeOK
<1>1. TypeOK'
  BY <1>a, <1>b, <1>c DEF TypeOK
<1>2. StateInv'
  BY DEF StateInv
<1>3. EndInv'
  BY <1>a, <1>d DEF TypeOK, EndInv
<1>4. MarkInv'
  BY <1>a DEF MarkInv
<1>5. LeaveInv'
  BY <1>a, <1>d DEF TypeOK, LeaveInv
<1>6. CountInv'
  <2>1. CASE in_room' = in_room
    <3>1. \A r \in Players : leave[r] \in {"clear", "kick", "out", "kickout"} => leave'[r] = leave[r]
      BY <1>a
    <3> QED BY <2>1, <3>1 DEF CountInv
  <2>2. CASE leave'[p] = "out"
    BY <2>2 DEF CountInv
  <2> QED BY <1>d, <2>1, <2>2
<1>7. PrepareLockInv'
  BY <1>b
<1>8. StateLockInv'
  BY <1>c
<1>9. LoopInv'
  <2>1. Holds(player_state_lock, "start") => Holds(player_state_lock', "start")
    <3>1. \/ player_state_lock' = player_state_lock
          \/ player_state_lock' = Append(player_state_lock, p)
      BY DEF TypeOK
    <3>2. ASSUME NEW d, Holds(player_state_lock, d) PROVE Holds(Append(player_state_lock, p), d)
      <4>1. player_state_lock \in Seq(Players \cup {"start", "end"}) /\ player_state_lock # <<>>
        BY <3>2 DEF TypeOK, Holds
      <4> HIDE DEF IInv, LeaveBegin
      <4> QED BY <3>2, <4>1 DEF Holds
    <3> QED BY <3>1, <3>2
  <2>2. \A r \in players \cap in_room : r \in players \cap in_room' \/ leave'[r] = "out"
    BY <1>a, <1>d
  <2> QED BY <1>a, <2>1, <2>2 DEF LoopInv, TypeOK
<1>10. KeyInv'
  BY <1>a DEF KeyInv
<1>11. RunningInLiveRoom'
  BY <1>a, <1>d DEF RunningInLiveRoom
<1> QED BY <1>1, <1>2, <1>3, <1>4, <1>5, <1>6, <1>7, <1>8, <1>9, <1>10, <1>11

\* A player leaves the table.
LEMMA RemoveStep ==
    ASSUME IInv, NEW p \in Players, Remove(p)
    PROVE  IInv'
<1> USE DEF IInv, Remove
<1>a. /\ \A r \in Players \ {p} : leave'[r] = leave[r]
      /\ leave[p] = "wait" /\ leave'[p] = "clear"
      /\ leave' \in [Players -> {"none", "wait", "clear", "out", "kick", "kickout", "sub", "done"}]
  BY DEF TypeOK
<1>b. PrepareLockInv'
  <2>1. Stays(p)
    BY <1>a, RoomAssumption DEF Stays, OthersKept, Waits, IsIn, Callers, PrepareLockInv
  <2> QED BY <2>1, PrepareKept DEF Callers
<1>c. StateLockInv' /\ player_state_lock' \in Seq(Players \cup {"start", "end"})
  <2>1. UsersKept(p) /\ ~Uses(p) /\ Uses(p)' /\ p # "start"
    BY <1>a, RoomAssumption DEF UsersKept, Uses, Users
  <2> QED BY <2>1, StateQueued DEF Users
<1>1. TypeOK'
  BY <1>a, <1>c DEF TypeOK
<1>2. StateInv'
  BY DEF StateInv
<1>3. EndInv'
  BY <1>a DEF TypeOK, EndInv
<1>4. MarkInv'
  BY <1>a DEF MarkInv
<1>5. LeaveInv'
  BY <1>a DEF TypeOK, LeaveInv
<1>6. CountInv'
  BY <1>a DEF CountInv
<1>7. PrepareLockInv'
  BY <1>b
<1>8. StateLockInv'
  BY <1>c
<1>9. LoopInv'
  <2>1. Holds(player_state_lock, "start") => Holds(player_state_lock', "start")
    <3>1. player_state_lock \in Seq(Users) /\ p \in Users
      BY DEF TypeOK, Users
    <3> QED BY <3>1, SeqAppend
  <2>2. \A r \in players \cap in_room : r \in players' \cap in_room' \/ leave'[r] = "clear"
    BY <1>a
  <2> QED BY <1>a, <2>1, <2>2 DEF LoopInv, TypeOK
<1>10. KeyInv'
  BY <1>a DEF KeyInv
<1>11. RunningInLiveRoom'
  BY <1>a DEF RunningInLiveRoom
<1> QED BY <1>1, <1>2, <1>3, <1>4, <1>5, <1>6, <1>7, <1>8, <1>9, <1>10, <1>11

\* Its key is deleted under the lock, and its session freed.
LEMMA ClearOneStep ==
    ASSUME IInv, NEW p \in Players, ClearOne(p)
    PROVE  IInv'
<1> USE DEF IInv, ClearOne
<1>a. /\ \A r \in Players \ {p} : leave'[r] = leave[r]
      /\ \/ leave[p] = "clear" /\ leave'[p] = "kick"
         \/ leave[p] = "out" /\ leave'[p] = "kickout"
      /\ leave' \in [Players -> {"none", "wait", "clear", "out", "kick", "kickout", "sub", "done"}]
      /\ key' \in [Players -> {"ROOM_ALLOCATING", "ROOM_PREPARING", "RUNNING", "IDLE", "OTHER"}]
      /\ key'[p] = "IDLE" /\ \A r \in Players \ {p} : key'[r] = key[r]
  BY DEF TypeOK
<1>b. PrepareLockInv'
  <2>1. Stays("prepare")
    BY <1>a, RoomAssumption DEF Stays, OthersKept, Waits, IsIn, Callers, PrepareLockInv
  <2> QED BY <2>1, PrepareKept DEF Callers
<1>c. StateLockInv' /\ player_state_lock' \in Seq(Players \cup {"start", "end"})
  <2>1. UsersKept(p) /\ p # "start"
    BY <1>a, RoomAssumption DEF UsersKept, Uses, Users
  <2> QED BY <2>1, StateReleased DEF Users
<1>d. start.cur = {}
  BY RoomAssumption DEF StateInv, LoopInv, Holds, TypeOK
<1>e. battle_ready' \subseteq battle_ready /\ conv' = conv \ {p}
  BY DEF TypeOK
<1>1. TypeOK'
  BY <1>a, <1>c, <1>e DEF TypeOK
<1>2. StateInv'
  BY <1>e DEF StateInv
<1>3. EndInv'
  BY <1>a DEF TypeOK, EndInv
<1>4. MarkInv'
  BY <1>a DEF MarkInv
<1>5. LeaveInv'
  BY <1>a DEF TypeOK, LeaveInv
<1>6. CountInv'
  BY <1>a DEF CountInv
<1>7. PrepareLockInv'
  BY <1>b
<1>8. StateLockInv'
  BY <1>c
<1>9. LoopInv'
  BY <1>d DEF LoopInv
<1>10. KeyInv'
  BY <1>a DEF KeyInv, LeaveInv, TypeOK
<1>11. RunningInLiveRoom'
  BY <1>a DEF RunningInLiveRoom
<1> QED BY <1>1, <1>2, <1>3, <1>4, <1>5, <1>6, <1>7, <1>8, <1>9, <1>10, <1>11

\* The rest of a leave: abort, allocate, start, or nothing more.
LEMMA RemovedStep ==
    ASSUME IInv, NEW p \in Players, Removed(p)
    PROVE  IInv'
<1> USE DEF IInv, Removed, abort_room, start_running, Kick
<1>a. /\ leave[p] = "kick" /\ Holds(prepare_room_lock, p) /\ Passing(p)
      /\ alloc.pc \notin {"gateway", "scene"} /\ match = "marking" /\ unmarked = {}
      /\ room_state # "UNINIT" /\ p # "prepare"
  BY RoomAssumption DEF TypeOK, StateInv, LeaveInv, MarkInv, PrepareLockInv, Passing, Holds
<1>b. inroom_player_count >= 2 \/ inroom_player_count < 2
  BY CountIsNat
<1>c. \/ /\ room_state \in Over \/ inroom_player_count >= 2
         /\ Return(p) /\ UNCHANGED <<room_state, alloc, start, ending, player_state_lock>>
      \/ /\ room_state \notin Over /\ room_state' = "ABORTING" /\ Stay(p)
         /\ ending.pc = "none" /\ ending.seen = {}
         /\ ending' = [pc |-> "clear", kind |-> "abort", owner |-> p, seen |-> {}]
         /\ player_state_lock' = Append(player_state_lock, "end")
         /\ UNCHANGED <<alloc, start>>
      \/ /\ inroom_player_count >= 2 /\ room_state = "WAIT_PREPARE" /\ alloc.pc = "none"
         /\ room_state' = "WAIT_BATTLE_PREPARE" /\ Stay(p)
         /\ alloc' = [pc |-> "gateway", owner |-> p]
         /\ UNCHANGED <<start, ending, player_state_lock>>
      \/ /\ inroom_player_count >= 2 /\ room_state = "WAIT_BATTLE_PREPARE" /\ start.pc = "none"
         /\ players \subseteq battle_ready
         /\ room_state' = "RUNNING" /\ Stay(p)
         /\ start' = [pc |-> "call", owner |-> p, seen |-> {}, cur |-> {}]
         /\ UNCHANGED <<alloc, ending, player_state_lock>>
  BY <1>b DEF EndInv, StateInv, all_battle_ready
<1>d. players \subseteq battle_ready /\ inroom_player_count >= 2 => alloc.pc = "done"
  <2>1. ASSUME players \cap in_room = {} PROVE ~(inroom_player_count >= 2)
    <3>1. inroom_player_count = Cardinality({})
      BY <2>1 DEF inroom_player_count
    <3>2. inroom_player_count = 0
      BY <3>1, FS_EmptySet
    <3> QED BY <3>2
  <2> QED BY <2>1 DEF StateInv
<1>e. /\ Passes(p) /\ PrepareLockInv'
      /\ leave' \in [Players -> {"none", "wait", "clear", "out", "kick", "kickout", "sub", "done"}]
      /\ prepare_room_lock' \in Seq(Players \cup {"prepare"})
      /\ leave'[p] \in {"sub", "done"}
  <2>1. CASE Return(p) /\ UNCHANGED alloc
    BY <1>a, <2>1, Returned DEF TypeOK
  <2>2. CASE Stay(p) /\ UNCHANGED alloc
    BY <1>a, <2>2, Stayed DEF TypeOK
  <2>3. CASE Stay(p) /\ alloc.pc = "none" /\ alloc' = [pc |-> "gateway", owner |-> p]
    <3>1. leave' = [leave EXCEPT ![p] = "sub"] /\ prepare_room_lock' = prepare_room_lock
      BY <1>a, <2>3 DEF Stay
    <3>2. Stays("prepare")
      BY <1>a, <2>3, <3>1, RoomAssumption
         DEF Stays, OthersKept, Waits, IsIn, Callers, PrepareLockInv, TypeOK
    <3> QED BY <1>a, <3>1, <3>2, PrepareKept DEF Callers, Passes, TypeOK
  <2> QED BY <1>c, <2>1, <2>2, <2>3
<1>f. StateLockInv' /\ player_state_lock' \in Seq(Players \cup {"start", "end"})
  <2>1. CASE UNCHANGED <<ending, player_state_lock>>
    BY <1>c, <1>e, <2>1, StateSame DEF Passes, TypeOK
  <2>2. CASE ending.pc = "none" /\ ending'.pc = "clear"
    BY <1>c, <1>e, <2>2, EndQueues
  <2> QED BY <1>c, <2>1, <2>2
<1>g. scene' \in [Players -> {"out", "pending", "playing", "left"}] /\ started' = started
  BY DEF TypeOK
<1>i. kicks' \in Seq(Players)
  <2>1. kicks \in Seq(Players) /\ kicks # <<>> /\ kicks' = Tail(kicks)
    BY DEF TypeOK
  <2> QED BY <2>1
<1> HIDE DEF Removed
<1>h. UNCHANGED <<key, match, unmarked, players, prepared, battle_ready, in_room, conv, timers>>
  BY DEF Removed
<1>1. TypeOK'
  BY <1>a, <1>c, <1>d, <1>e, <1>f, <1>g, <1>h, <1>i, RoomAssumption DEF TypeOK,
     Passes
<1>2. StateInv'
  BY <1>a, <1>c, <1>d, <1>e, <1>f, <1>g, <1>h, RoomAssumption DEF TypeOK, StateInv, Passes
<1>3. EndInv'
  BY <1>a, <1>c, <1>d, <1>e, <1>f, <1>g, <1>h, RoomAssumption DEF TypeOK, EndInv, Passes
<1>4. MarkInv'
  BY <1>a, <1>c, <1>d, <1>e, <1>f, <1>g, <1>h, RoomAssumption
     DEF TypeOK, StateInv, MarkInv, Passes
<1>5. LeaveInv'
  BY <1>a, <1>c, <1>d, <1>e, <1>f, <1>g, <1>h, RoomAssumption
     DEF TypeOK, MarkInv, LeaveInv, Passes
<1>6. CountInv'
  BY <1>c, <1>h DEF CountInv, inroom_player_count
<1>7. PrepareLockInv'
  BY <1>e
<1>8. StateLockInv'
  BY <1>f
<1>9. LoopInv'
  <2>1. start'.pc = "loop" => start' = start
    BY <1>c
  <2>2. ending' = ending \/ (ending'.pc = "clear" /\ ending'.seen = {})
    BY <1>c
  <2>3. Holds(player_state_lock, "start") => Holds(player_state_lock', "start")
    <3>1. player_state_lock \in Seq(Users) /\ "end" \in Users
      BY DEF TypeOK, Users
    <3>2. \/ player_state_lock' = player_state_lock
          \/ player_state_lock' = Append(player_state_lock, "end")
      BY <1>c
    <3>3. Holds(player_state_lock, "start") => Holds(Append(player_state_lock, "end"), "start")
      BY <3>1, SeqAppend
    <3> QED BY <3>2, <3>3
  <2>4. \A r \in Players : leave[r] \in {"clear", "out"} => leave'[r] \in {"clear", "out"}
    BY <1>a, <1>e DEF Passes
  <2> QED BY <1>h, <2>1, <2>2, <2>3, <2>4 DEF LoopInv, TypeOK
<1>10. KeyInv'
  <2>1. \/ start' = start
        \/ start.pc = "none" /\ start' = [pc |-> "call", owner |-> p, seen |-> {}, cur |-> {}]
    BY <1>c
  <2>2. \/ ending' = ending
        \/ /\ ending.seen = {}
           /\ ending' = [pc |-> "clear", kind |-> "abort", owner |-> p, seen |-> {}]
    BY <1>c
  <2>3. start'.seen = start.seen
    BY <2>1 DEF StateInv
  <2>4. ending'.seen = ending.seen
    BY <2>2
  <2> QED BY <1>h, <2>3, <2>4 DEF KeyInv
<1>11. RunningInLiveRoom'
  BY <1>a, <1>c, <1>d, <1>e, <1>f, <1>g, <1>h, RoomAssumption
     DEF TypeOK, EndInv, MarkInv, KeyInv, RunningInLiveRoom, Passes
<1> QED BY <1>1, <1>2, <1>3, <1>4, <1>5, <1>6, <1>7, <1>8, <1>9, <1>10, <1>11

\* The rest of a leave from a running game: the end, if it was the last but one.
LEMMA LeftRoomStep ==
    ASSUME IInv, NEW p \in Players, LeftRoom(p)
    PROVE  IInv'
<1> USE DEF IInv, LeftRoom, finish_room, Kick
<1>a. /\ leave[p] = "kickout" /\ Passing(p) /\ room_state \notin Waiting /\ p # "prepare"
      /\ match = "marking" /\ room_state # "UNINIT"
      /\ alloc.pc \in {"gateway", "scene"} => alloc.owner # p
  BY RoomAssumption DEF TypeOK, StateInv, LeaveInv, MarkInv, Passing
<1>b. inroom_player_count >= 2 \/ inroom_player_count <= 1
  BY CountIsNat
<1>c. \/ /\ room_state \in Over \/ inroom_player_count >= 2
         /\ Return(p) /\ UNCHANGED <<room_state, ending>>
      \/ /\ room_state = "RUNNING" /\ room_state' = "FINISHING" /\ Stay(p)
         /\ ending.pc = "none" /\ ending.seen = {}
         /\ ending' = [pc |-> "weigh", kind |-> "finish", owner |-> p, seen |-> {}]
  BY <1>a, <1>b DEF EndInv, TypeOK
<1>e. /\ Passes(p) /\ PrepareLockInv'
      /\ leave' \in [Players -> {"none", "wait", "clear", "out", "kick", "kickout", "sub", "done"}]
      /\ prepare_room_lock' \in Seq(Players \cup {"prepare"})
      /\ leave'[p] \in {"sub", "done"}
  <2>1. CASE Return(p)
    BY <1>a, <2>1, Returned DEF TypeOK
  <2>2. CASE Stay(p)
    BY <1>a, <2>2, Stayed DEF TypeOK
  <2> QED BY <1>c, <2>1, <2>2
<1>f. StateLockInv'
  BY <1>c, <1>e, StateSame DEF Passes, TypeOK
<1>g. scene' \in [Players -> {"out", "pending", "playing", "left"}] /\ started' = started
  BY DEF TypeOK
<1>i. kicks' \in Seq(Players)
  <2>1. kicks \in Seq(Players) /\ kicks # <<>> /\ kicks' = Tail(kicks)
    BY DEF TypeOK
  <2> QED BY <2>1
<1> HIDE DEF LeftRoom
<1>h. UNCHANGED <<key, match, unmarked, players, prepared, battle_ready, in_room, conv, timers,
                  alloc, start, player_state_lock>>
  BY DEF LeftRoom
<1>1. TypeOK'
  BY <1>a, <1>c, <1>e, <1>f, <1>g, <1>h, <1>i, RoomAssumption DEF TypeOK,
     Passes
<1>2. StateInv'
  BY <1>a, <1>c, <1>e, <1>f, <1>g, <1>h, RoomAssumption DEF TypeOK, StateInv, Passes
<1>3. EndInv'
  BY <1>a, <1>c, <1>e, <1>f, <1>g, <1>h, RoomAssumption DEF TypeOK, EndInv, Passes
<1>4. MarkInv'
  BY <1>a, <1>c, <1>e, <1>f, <1>g, <1>h, RoomAssumption DEF TypeOK, StateInv, MarkInv, Passes
<1>5. LeaveInv'
  BY <1>a, <1>c, <1>e, <1>f, <1>g, <1>h, RoomAssumption DEF TypeOK, MarkInv, LeaveInv, Passes
<1>6. CountInv'
  BY <1>a, <1>c, <1>h DEF CountInv, inroom_player_count
<1>7. PrepareLockInv'
  BY <1>e
<1>8. StateLockInv'
  BY <1>f
<1>9. LoopInv'
  BY <1>a, <1>c, <1>e, <1>f, <1>g, <1>h, RoomAssumption
     DEF TypeOK, StateInv, EndInv, LoopInv, Passes
<1>10. KeyInv'
  BY <1>a, <1>c, <1>e, <1>f, <1>g, <1>h, RoomAssumption DEF TypeOK, MarkInv, KeyInv, Passes
<1>11. RunningInLiveRoom'
  BY <1>a, <1>c, <1>e, <1>f, <1>g, <1>h, RoomAssumption
     DEF TypeOK, EndInv, MarkInv, KeyInv, RunningInLiveRoom, Passes
<1> QED BY <1>1, <1>2, <1>3, <1>4, <1>5, <1>6, <1>7, <1>8, <1>9, <1>10, <1>11

\* 15 s after init_room.
LEMMA PrepareTimeoutStep ==
    ASSUME IInv, PrepareTimeout
    PROVE  IInv'
<1> USE DEF IInv, PrepareTimeout, abort_room, Stay
<1>a. leave' = leave /\ prepare_room_lock' = prepare_room_lock
  BY RoomAssumption
<1>b. \/ UNCHANGED <<room_state, ending, player_state_lock>>
      \/ /\ room_state = "WAIT_PREPARE" /\ room_state' = "ABORTING"
         /\ ending.pc = "none" /\ ending.seen = {}
         /\ ending' = [pc |-> "clear", kind |-> "abort", owner |-> "timer", seen |-> {}]
         /\ player_state_lock' = Append(player_state_lock, "end")
  BY DEF EndInv
<1>c. StateLockInv' /\ player_state_lock' \in Seq(Players \cup {"start", "end"})
  <2>1. CASE UNCHANGED <<ending, player_state_lock>>
    BY <1>a, <2>1, StateSame DEF TypeOK
  <2>2. CASE ending.pc = "none" /\ ending'.pc = "clear"
    <3>1. Passes("timer")
      BY <1>a DEF Passes
    <3> QED BY <1>b, <2>2, <3>1, EndQueues
  <2> QED BY <1>b, <2>1, <2>2
<1>d. UNCHANGED <<key, match, unmarked, players, fields, conv, sceneVars, alloc, start>>
      /\ timers' \subseteq timers
  OBVIOUS
<1> HIDE DEF PrepareTimeout
<1>1. TypeOK'
  BY <1>a, <1>b, <1>c, <1>d, RoomAssumption DEF TypeOK
<1>2. StateInv'
  BY <1>a, <1>b, <1>c, <1>d, RoomAssumption DEF StateInv
<1>3. EndInv'
  BY <1>a, <1>b, <1>c, <1>d, RoomAssumption DEF EndInv
<1>4. MarkInv'
  BY <1>a, <1>b, <1>c, <1>d, RoomAssumption DEF MarkInv
<1>5. LeaveInv'
  BY <1>a, <1>b, <1>c, <1>d, RoomAssumption DEF LeaveInv
<1>6. CountInv'
  BY <1>a, <1>b, <1>d DEF CountInv
<1>7. PrepareLockInv'
  BY <1>a, <1>d, PrepareSame
<1>8. StateLockInv'
  BY <1>c
<1>9. LoopInv'
  BY <1>a, <1>b, <1>d DEF LoopInv, StateInv
<1>10. KeyInv'
  BY <1>b, <1>d DEF KeyInv
<1>11. RunningInLiveRoom'
  BY <1>a, <1>b, <1>d DEF RunningInLiveRoom
<1> QED BY <1>1, <1>2, <1>3, <1>4, <1>5, <1>6, <1>7, <1>8, <1>9, <1>10, <1>11

\* 10 min after the start.
LEMMA RoundTimeoutStep ==
    ASSUME IInv, RoundTimeout
    PROVE  IInv'
<1> USE DEF IInv, RoundTimeout, finish_room, Stay
<1>a. leave' = leave /\ prepare_room_lock' = prepare_room_lock
  BY RoomAssumption
<1>b. \/ UNCHANGED <<room_state, ending>>
      \/ /\ room_state = "RUNNING" /\ room_state' = "FINISHING"
         /\ ending.pc = "none" /\ ending.seen = {}
         /\ ending' = [pc |-> "weigh", kind |-> "finish", owner |-> "timer", seen |-> {}]
  BY DEF EndInv
<1>d. UNCHANGED <<key, match, unmarked, players, fields, conv, sceneVars, alloc, start,
                  player_state_lock>>
      /\ timers' \subseteq timers
  OBVIOUS
<1>c. StateLockInv'
  BY <1>a, <1>b, <1>d, StateSame
<1> HIDE DEF RoundTimeout
<1>1. TypeOK'
  BY <1>a, <1>b, <1>c, <1>d, RoomAssumption DEF TypeOK
<1>2. StateInv'
  BY <1>a, <1>b, <1>c, <1>d, RoomAssumption DEF StateInv
<1>3. EndInv'
  BY <1>a, <1>b, <1>c, <1>d, RoomAssumption DEF EndInv
<1>4. MarkInv'
  BY <1>a, <1>b, <1>c, <1>d, RoomAssumption DEF MarkInv
<1>5. LeaveInv'
  BY <1>a, <1>b, <1>c, <1>d, RoomAssumption DEF LeaveInv
<1>6. CountInv'
  BY <1>a, <1>b, <1>d DEF CountInv
<1>7. PrepareLockInv'
  BY <1>a, <1>d, PrepareSame
<1>8. StateLockInv'
  BY <1>c
<1>9. LoopInv'
  BY <1>a, <1>b, <1>d DEF LoopInv, StateInv
<1>10. KeyInv'
  BY <1>b, <1>d DEF KeyInv
<1>11. RunningInLiveRoom'
  BY <1>a, <1>b, <1>d DEF RunningInLiveRoom
<1> QED BY <1>1, <1>2, <1>3, <1>4, <1>5, <1>6, <1>7, <1>8, <1>9, <1>10, <1>11

\* The ranking is built, or raises an error.
LEMMA WeighStep ==
    ASSUME IInv, Weigh
    PROVE  IInv'
<1> USE DEF IInv, Weigh
<1>a. PICK c : c = ending.owner
  OBVIOUS
<1>b. /\ alloc.pc \notin {"gateway", "scene"} /\ Passing(c)
      /\ c = "prepare" => alloc.pc # "wait"
      /\ c \in Players => leave[c] \in {"sub", "done"}
  BY <1>a DEF TypeOK, StateInv, EndInv, LeaveInv, Passing
<1>c. /\ ending'.pc \in {"free", "crashed"} /\ ending'.kind = ending.kind
      /\ ending'.owner = c /\ ending'.seen = ending.seen
      /\ ending' \in [pc : {"none", "weigh", "free", "clear", "close", "done", "crashed"},
                      kind : {"none", "abort", "finish", "keep"},
                      owner : Players \cup {"none", "prepare", "ready", "timer", "match"},
                      seen : SUBSET Players]
  BY <1>a DEF TypeOK
<1>d. /\ Passes(c) /\ PrepareLockInv'
      /\ leave' \in [Players -> {"none", "wait", "clear", "out", "kick", "kickout", "sub", "done"}]
      /\ prepare_room_lock' \in Seq(Players \cup {"prepare"})
      /\ c \in Players => leave'[c] \in {"sub", "done"}
  <2>1. CASE UNCHANGED <<leave, prepare_room_lock>>
    BY <1>b, <2>1, PrepareSame DEF Passes, TypeOK
  <2>2. CASE Return(c)
    BY <1>b, <2>2, Returned
  <2> QED BY <1>a, <2>1, <2>2
<1>e. UNCHANGED <<key, match, unmarked, room_state, players, fields, conv, sceneVars, alloc,
                  start, timers, player_state_lock>>
  OBVIOUS
<1>f. ending.pc = "weigh"
  OBVIOUS
<1> HIDE DEF Weigh
<1>1. TypeOK'
  BY <1>a, <1>b, <1>c, <1>d, <1>e DEF TypeOK
<1>2. StateInv'
  BY <1>a, <1>b, <1>c, <1>d, <1>e, <1>f DEF StateInv
<1>3. EndInv'
  BY <1>a, <1>b, <1>c, <1>d, <1>e, <1>f DEF EndInv
<1>4. MarkInv'
  BY <1>a, <1>b, <1>c, <1>d, <1>e DEF MarkInv, Passes
<1>5. LeaveInv'
  BY <1>a, <1>b, <1>c, <1>d, <1>e DEF LeaveInv, Passes
<1>6. CountInv'
  <2>1. \A p \in Players : leave[p] \in {"clear", "kick", "out", "kickout"} => leave'[p] = leave[p]
    BY <1>b, <1>d DEF Passes
  <2> QED BY <1>e, <2>1 DEF CountInv
<1>7. PrepareLockInv'
  BY <1>d
<1>8. StateLockInv'
  BY <1>c, <1>d, <1>e, <1>f, StateSame DEF Passes
<1>9. LoopInv'
  <2>1. \A p \in Players : leave[p] \in {"clear", "out"} => leave'[p] = leave[p]
    BY <1>d DEF Passes
  <2>2. start.cur \subseteq Players
    BY DEF TypeOK
  <2>3. ending'.pc = "free" => ending'.kind = "finish"
    BY <1>c, <1>f DEF EndInv
  <2> QED BY <1>c, <1>e, <2>1, <2>2, <2>3 DEF LoopInv
<1>10. KeyInv'
  BY <1>c, <1>e DEF KeyInv
<1>11. RunningInLiveRoom'
  BY <1>a, <1>b, <1>c, <1>d, <1>e DEF RunningInLiveRoom, Passes
<1> QED BY <1>1, <1>2, <1>3, <1>4, <1>5, <1>6, <1>7, <1>8, <1>9, <1>10, <1>11

\* The sessions of the table are freed.
LEMMA FreeSessionsStep ==
    ASSUME IInv, FreeSessions
    PROVE  IInv'
<1> USE DEF IInv, FreeSessions
<1>a. /\ ending'.kind = ending.kind /\ ending'.owner = ending.owner /\ ending'.seen = ending.seen
      /\ ending' \in [pc : {"none", "weigh", "free", "clear", "close", "done", "crashed"},
                      kind : {"none", "abort", "finish", "keep"},
                      owner : Players \cup {"none", "prepare", "ready", "timer", "match"},
                      seen : SUBSET Players]
  BY DEF TypeOK
<1>b. \/ /\ ending.kind = "finish" /\ ending'.pc = "clear" /\ room_state' = room_state
         /\ player_state_lock' = Append(player_state_lock, "end")
      \/ /\ ending.kind \in {"abort", "keep"} /\ ending'.pc = "close" /\ room_state' = "ABORTED"
         /\ UNCHANGED player_state_lock
  BY DEF EndInv, TypeOK
<1>c. StateLockInv' /\ player_state_lock' \in Seq(Players \cup {"start", "end"})
  <2>1. CASE ending'.pc = "clear"
    <3>1. Passes("timer")
      BY DEF Passes
    <3> QED BY <1>b, <2>1, <3>1, EndQueues
  <2>2. CASE ending'.pc # "clear"
    BY <1>b, <2>2, StateSame DEF TypeOK
  <2> QED BY <2>1, <2>2
<1>d. /\ UNCHANGED <<key, match, unmarked, players, fields, sceneVars, leave, alloc, start,
                     timers, prepare_room_lock>>
      /\ conv' = conv \ players /\ ending.pc = "free"
  OBVIOUS
<1> HIDE DEF FreeSessions
<1>1. TypeOK'
  BY <1>a, <1>b, <1>c, <1>d, RoomAssumption DEF TypeOK
<1>2. StateInv'
  BY <1>a, <1>b, <1>c, <1>d, RoomAssumption DEF StateInv, EndInv
<1>3. EndInv'
  BY <1>a, <1>b, <1>c, <1>d, RoomAssumption DEF EndInv
<1>4. MarkInv'
  BY <1>a, <1>b, <1>c, <1>d, RoomAssumption DEF MarkInv, EndInv
<1>5. LeaveInv'
  BY <1>a, <1>b, <1>c, <1>d, RoomAssumption DEF LeaveInv, EndInv
<1>6. CountInv'
  BY <1>b, <1>d DEF CountInv
<1>7. PrepareLockInv'
  BY <1>d, PrepareSame
<1>8. StateLockInv'
  BY <1>c
<1>9. LoopInv'
  <2>1. Holds(player_state_lock, "start") => Holds(player_state_lock', "start")
    <3>1. player_state_lock \in Seq(Users) /\ "end" \in Users
      BY DEF TypeOK, Users
    <3>2. Holds(player_state_lock, "start") => Holds(Append(player_state_lock, "end"), "start")
      BY <3>1, SeqAppend
    <3> QED BY <1>b, <3>2
  <2> QED BY <1>a, <1>b, <1>d, <2>1 DEF LoopInv
<1>10. KeyInv'
  BY <1>a, <1>d DEF KeyInv
<1>11. RunningInLiveRoom'
  BY <1>a, <1>b, <1>c, <1>d, RoomAssumption DEF RunningInLiveRoom, EndInv, KeyInv, MarkInv
<1> QED BY <1>1, <1>2, <1>3, <1>4, <1>5, <1>6, <1>7, <1>8, <1>9, <1>10, <1>11

\* All keys of the room are deleted.
LEMMA ClearedInRoomStep ==
    ASSUME IInv, ClearedInRoom
    PROVE  IInv'
<1> USE DEF IInv, ClearedInRoom, ToClear
<1>a. /\ ending'.kind = ending.kind /\ ending'.owner = ending.owner /\ ending'.seen = ending.seen
      /\ ending' \in [pc : {"none", "weigh", "free", "clear", "close", "done", "crashed"},
                      kind : {"none", "abort", "finish", "keep"},
                      owner : Players \cup {"none", "prepare", "ready", "timer", "match"},
                      seen : SUBSET Players]
  BY DEF TypeOK
<1>b. \/ ending.kind = "finish" /\ ending'.pc = "close" /\ room_state' = "FINISHED"
      \/ ending.kind = "abort" /\ ending'.pc = "free" /\ room_state' = room_state
  BY DEF EndInv, TypeOK
<1>c. StateLockInv' /\ player_state_lock' \in Seq(Players \cup {"start", "end"})
  <2>1. UsersKept("end")
    BY RoomAssumption DEF UsersKept, Uses, Users
  <2> QED BY <2>1, StateReleased DEF Users
<1>d. /\ UNCHANGED <<key, match, unmarked, players, fields, conv, sceneVars, leave, alloc,
                     start, timers, prepare_room_lock>>
      /\ ending.pc = "clear" /\ players \cap in_room \subseteq ending.seen
      /\ start.pc # "loop"
  BY EndAfterStart
<1> HIDE DEF ClearedInRoom
<1>1. TypeOK'
  BY <1>a, <1>b, <1>c, <1>d, RoomAssumption DEF TypeOK
<1>2. StateInv'
  BY <1>a, <1>b, <1>c, <1>d, RoomAssumption DEF StateInv, EndInv
<1>3. EndInv'
  BY <1>a, <1>b, <1>c, <1>d, RoomAssumption DEF EndInv
<1>4. MarkInv'
  BY <1>a, <1>b, <1>c, <1>d, RoomAssumption DEF MarkInv, EndInv
<1>5. LeaveInv'
  BY <1>a, <1>b, <1>c, <1>d, RoomAssumption DEF LeaveInv, EndInv
<1>6. CountInv'
  BY <1>b, <1>d DEF CountInv
<1>7. PrepareLockInv'
  BY <1>d, PrepareSame
<1>8. StateLockInv'
  BY <1>c
<1>9. LoopInv'
  BY <1>d DEF LoopInv
<1>10. KeyInv'
  BY <1>a, <1>d DEF KeyInv
<1>11. RunningInLiveRoom'
  BY <1>a, <1>b, <1>c, <1>d, RoomAssumption DEF RunningInLiveRoom, EndInv, KeyInv, MarkInv
<1> QED BY <1>1, <1>2, <1>3, <1>4, <1>5, <1>6, <1>7, <1>8, <1>9, <1>10, <1>11

\* The handler that ended the room returns.
LEMMA CloseStep ==
    ASSUME IInv, Close
    PROVE  IInv'
<1> USE DEF IInv, Close
<1>a. PICK c : c = ending.owner
  OBVIOUS
<1>b. /\ alloc.pc \notin {"gateway", "scene"} /\ Passing(c)
      /\ c = "prepare" => alloc.pc # "wait"
      /\ c \in Players => leave[c] \in {"sub", "done"}
  BY <1>a DEF TypeOK, StateInv, EndInv, LeaveInv, Passing
<1>c. /\ ending'.pc = "done" /\ ending'.kind = ending.kind
      /\ ending'.owner = c /\ ending'.seen = ending.seen
      /\ ending' \in [pc : {"none", "weigh", "free", "clear", "close", "done", "crashed"},
                      kind : {"none", "abort", "finish", "keep"},
                      owner : Players \cup {"none", "prepare", "ready", "timer", "match"},
                      seen : SUBSET Players]
  BY <1>a DEF TypeOK
<1>d. /\ Passes(c) /\ PrepareLockInv'
      /\ leave' \in [Players -> {"none", "wait", "clear", "out", "kick", "kickout", "sub", "done"}]
      /\ prepare_room_lock' \in Seq(Players \cup {"prepare"})
      /\ c \in Players => leave'[c] \in {"sub", "done"}
  BY <1>a, <1>b, Returned
<1>e. UNCHANGED <<key, match, unmarked, room_state, players, fields, conv, sceneVars, alloc,
                  start, timers, player_state_lock>>
  OBVIOUS
<1>f. ending.pc = "close"
  OBVIOUS
<1> HIDE DEF Close
<1>1. TypeOK'
  BY <1>a, <1>b, <1>c, <1>d, <1>e DEF TypeOK
<1>2. StateInv'
  BY <1>a, <1>b, <1>c, <1>d, <1>e, <1>f DEF StateInv
<1>3. EndInv'
  BY <1>a, <1>b, <1>c, <1>d, <1>e, <1>f DEF EndInv
<1>4. MarkInv'
  BY <1>a, <1>b, <1>c, <1>d, <1>e DEF MarkInv, Passes
<1>5. LeaveInv'
  BY <1>a, <1>b, <1>c, <1>d, <1>e DEF LeaveInv, Passes
<1>6. CountInv'
  <2>1. \A p \in Players : leave[p] \in {"clear", "kick", "out", "kickout"} => leave'[p] = leave[p]
    BY <1>b, <1>d DEF Passes
  <2> QED BY <1>e, <2>1 DEF CountInv
<1>7. PrepareLockInv'
  BY <1>d
<1>8. StateLockInv'
  BY <1>c, <1>d, <1>e, <1>f, StateSame DEF Passes
<1>9. LoopInv'
  BY <1>a, <1>b, <1>c, <1>d, <1>e, <1>f DEF LoopInv, EndInv, Passes, TypeOK
<1>10. KeyInv'
  BY <1>c, <1>e DEF KeyInv
<1>11. RunningInLiveRoom'
  BY <1>a, <1>b, <1>c, <1>d, <1>e DEF RunningInLiveRoom, Passes
<1> QED BY <1>1, <1>2, <1>3, <1>4, <1>5, <1>6, <1>7, <1>8, <1>9, <1>10, <1>11

\* Nothing happens.
LEMMA StutterStep ==
    ASSUME IInv, UNCHANGED vars
    PROVE  IInv'
<1> USE DEF IInv, vars
<1>1. TypeOK'
  BY DEF TypeOK
<1>2. StateInv'
  BY DEF TypeOK, StateInv
<1>3. EndInv'
  BY DEF TypeOK, EndInv
<1>4. MarkInv'
  BY DEF TypeOK, StateInv, MarkInv
<1>5. LeaveInv'
  BY DEF TypeOK, MarkInv, LeaveInv
<1>6. CountInv'
  BY DEF TypeOK, CountInv
<1>7. PrepareLockInv'
  BY PrepareSame
<1>8. StateLockInv'
  BY DEF StateLockInv, Used, Uses
<1>9. LoopInv'
  BY DEF LoopInv
<1>10. KeyInv'
  BY DEF TypeOK, MarkInv, KeyInv
<1>11. RunningInLiveRoom'
  BY DEF TypeOK, EndInv, MarkInv, KeyInv, RunningInLiveRoom
<1> QED BY <1>1, <1>2, <1>3, <1>4, <1>5, <1>6, <1>7, <1>8, <1>9, <1>10, <1>11

\* What the invariant says of the room before it is created.
LEMMA InitIInv == ASSUME Init PROVE IInv
<1> USE DEF Init
<1>1. TypeOK
  <2>1. <<>> \in Seq(Players \cup {"prepare"}) /\ <<>> \in Seq(Players \cup {"start", "end"})
        /\ <<>> \in Seq(Players)
    OBVIOUS
  <2> QED BY <2>1 DEF TypeOK
<1>2. StateInv /\ EndInv /\ LeaveInv /\ CountInv /\ LoopInv
  BY RoomAssumption DEF StateInv, EndInv, LeaveInv, CountInv, LoopInv
<1>3. MarkInv /\ KeyInv /\ RunningInLiveRoom
  BY DEF MarkInv, KeyInv, RunningInLiveRoom
<1>4. PrepareLockInv /\ StateLockInv
  BY DEF PrepareLockInv, StateLockInv, Distinct
<1> QED BY <1>1, <1>2, <1>3, <1>4 DEF IInv

\* Every step keeps the invariant.
LEMMA NextIInv == ASSUME IInv, [Next]_vars PROVE IInv'
<1>1. CASE Match
  BY <1>1, MatchMarksStep, MatchGivesUpStep, MatchMarksPlayerStep, RejoinStep DEF Match
<1>2. CASE Messages
  BY <1>2, InitRoomStep, AbortedByMatchStep, PrepareStep, LeaveBeginStep, BattleReadyStep
     DEF Messages
<1>3. CASE Running
  <2>1. CASE AllocBegin \/ AllocSessions \/ AllocDone \/ AllocFails
    BY <2>1, AllocBeginStep, AllocSessionsStep, AllocDoneStep, AllocFailsStep
  <2>2. CASE StartAnswered \/ StartFails \/ StartDone
    BY <2>2, StartAnsweredStep, StartFailsStep, StartDoneStep
  <2>3. ASSUME NEW p \in Players, LoadPlayer(p) \/ SaveRunning(p) \/ ClearInRoom(p) PROVE IInv'
    BY <2>3, LoadPlayerStep, SaveRunningStep, ClearInRoomStep
  <2>4. ASSUME NEW p \in Players, Remove(p) \/ ClearOne(p) \/ Removed(p) \/ LeftRoom(p)
        PROVE  IInv'
    BY <2>4, RemoveStep, ClearOneStep, RemovedStep, LeftRoomStep
  <2>5. CASE SceneEnter \/ Weigh \/ FreeSessions \/ ClearedInRoom \/ Close
    BY <2>5, SceneEnterStep, WeighStep, FreeSessionsStep, ClearedInRoomStep, CloseStep
  <2> QED BY <1>3, <2>1, <2>2, <2>3, <2>4, <2>5 DEF Running
<1>4. CASE Timers
  BY <1>4, PrepareTimeoutStep, RoundTimeoutStep DEF Timers
<1>5. CASE UNCHANGED vars
  BY <1>5, StutterStep
<1> QED BY <1>1, <1>2, <1>3, <1>4, <1>5 DEF Next

\* The invariant holds in every reachable state.
LEMMA Invariance == Spec => []IInv
<1>1. Init => IInv
  BY InitIInv
<1>2. IInv /\ [Next]_vars => IInv'
  BY NextIInv
<1> QED BY <1>1, <1>2, PTL DEF Spec
-----------------------------------------------------------------------------
(* The theorems. *)

\* The room's tables, the tables of its procedures and the two locks keep their types:
\* in particular nobody but a handler of a player, the allocation, the start and the end is
\* ever queued for a lock.
THEOREM TypeCorrect == Spec => []TypeOK
<1>1. IInv => TypeOK
  BY DEF IInv
<1> QED BY <1>1, Invariance, PTL

\* set_players_running writes under the lock of the deletions and after a second look at the
\* state, so a player whose key says RUNNING is in a room that still runs, or is about to be
\* deleted by the handler of its leave, however many players leave meanwhile.
THEOREM RunningIsLive == Spec => []RunningInLiveRoom
<1>1. IInv => RunningInLiveRoom
  BY DEF IInv
<1> QED BY <1>1, Invariance, PTL

\* alloc_battle_for_all_no_lock keeps prepare_room_lock over its two calls: the room waits for
\* the battle, and the sessions it notes are those of players in the table.
THEOREM AllocationIsUndisturbed == Spec => []AllocUndisturbed
<1>1. IInv => AllocUndisturbed
  <2> SUFFICES ASSUME IInv, alloc.pc \in {"gateway", "scene"}
               PROVE  room_state = "WAIT_BATTLE_PREPARE" /\ conv \subseteq players
    BY DEF AllocUndisturbed
  <2> USE DEF IInv
  <2>1. Holds(prepare_room_lock, alloc.owner) /\ room_state = "WAIT_BATTLE_PREPARE"
    BY DEF PrepareLockInv, StateInv
  <2>2. \A p \in Players : leave[p] # "clear"
    BY <2>1 DEF PrepareLockInv, LeaveInv, Holds
  <2> QED BY <2>1, <2>2 DEF LeaveInv, TypeOK
<1> QED BY <1>1, Invariance, PTL

\* remove_preparing_player, mark_player_leaveroom, abort_room and finish_room between them
\* free every battle session of the room, in whatever order they run.
THEOREM AllSessionsFreed == Spec => []SessionsFreed
<1>1. IInv => SessionsFreed
  BY DEF IInv, TypeOK, EndInv, LeaveInv, SessionsFreed, NoLeaving
<1> QED BY <1>1, Invariance, PTL

\* Each handler that takes a player out counts those who are left: a game never goes on with
\* fewer than two.
THEOREM EnoughAlways == Spec => []EnoughPlayers
<1>1. IInv => EnoughPlayers
  BY DEF IInv, CountInv, EnoughPlayers, NoLeaving
<1> QED BY <1>1, Invariance, PTL

\* No key that a leave or an end has deleted, or that belongs to the player's next match, is
\* written back as RUNNING by set_players_running.
THEOREM DeletedStaysDeleted == Spec => NeverWrittenBack
<1> DEFINE Good == \A p \in Players : key[p] # "RUNNING" /\ key'[p] = "RUNNING"
                                         => key[p] = "ROOM_PREPARING"
<1>1. ASSUME IInv, Next PROVE Good
  <2> USE DEF IInv
  <2>1. key \in [Players -> {"ROOM_ALLOCATING", "ROOM_PREPARING", "RUNNING", "IDLE", "OTHER"}]
    BY <1>1 DEF TypeOK
  <2>2. CASE key' = key
    BY <2>2
  <2>3. ASSUME NEW p \in Players, SaveRunning(p) PROVE Good
    <3>1. key[p] = "ROOM_PREPARING" /\ key' = [key EXCEPT ![p] = "RUNNING"]
      BY <1>1, <2>3 DEF SaveRunning, LoopInv
    <3> QED BY <2>1, <3>1
  <2>4. CASE MatchGivesUp
    BY <2>4 DEF MatchGivesUp
  <2>5. ASSUME NEW p \in Players,
               MatchMarksPlayer(p) \/ Rejoin(p) \/ ClearOne(p) \/ ClearInRoom(p)
        PROVE  Good
    BY <2>1, <2>5 DEF MatchMarksPlayer, Rejoin, ClearOne, ClearInRoom
  <2>6. CASE Messages
    BY <2>2, <2>6 DEF Messages, InitRoom, AbortedByMatch, Prepare, LeaveBegin, BattleReady
  <2>7. CASE Timers
    BY <2>2, <2>7 DEF Timers, PrepareTimeout, RoundTimeout
  <2>8. CASE AllocBegin \/ AllocSessions \/ AllocDone \/ AllocFails
    BY <2>2, <2>8 DEF AllocBegin, AllocSessions, AllocDone, AllocFails
  <2>9. CASE StartAnswered \/ StartFails \/ StartDone \/ SceneEnter \/ Weigh
    BY <2>2, <2>9 DEF StartAnswered, StartFails, StartDone, SceneEnter, Weigh
  <2>10. CASE FreeSessions \/ ClearedInRoom \/ Close \/ MatchMarks
    BY <2>2, <2>10 DEF FreeSessions, ClearedInRoom, Close, MatchMarks
  <2>11. ASSUME NEW p \in Players, LoadPlayer(p) \/ Remove(p) \/ Removed(p) \/ LeftRoom(p)
         PROVE  Good
    BY <2>2, <2>11 DEF LoadPlayer, Remove, Removed, LeftRoom
  <2> HIDE DEF Good
  <2> QED BY <1>1, <2>3, <2>4, <2>5, <2>6, <2>7, <2>8, <2>9, <2>10, <2>11
          DEF Next, Match, Running
<1>2. IInv /\ [Next]_vars => [Good]_vars
  BY <1>1
<1> QED BY <1>2, Invariance, PTL DEF Spec, NeverWrittenBack
=============================================================================
