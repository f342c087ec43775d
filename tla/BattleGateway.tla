--------------------------- MODULE BattleGateway ---------------------------
(***************************************************************************)
(* The battle sessions of a battle gateway (src/service/battle_gateway),   *)
(* and what they have to agree with: the seat of the player in its room    *)
(* (s.resp.battle_ready) and the player in the scene (battle_online,       *)
(* battle_resync, the snapshot).                                           *)
(*                                                                         *)
(* A session belongs to one player in one room, so seats and scene players *)
(* are indexed by the conv of the session as well.  Messages of one        *)
(* service to another arrive in order; answers of room arrive in any,      *)
(* since a battle_ready that starts the game answers late.                 *)
(*                                                                         *)
(* Time and the packets that only show that a client is alive are left     *)
(* out: 5 seconds without a packet, or the end of the 15 for coming back,  *)
(* may have passed at any time.  So is the KCP of a session, which there   *)
(* is when the session is WAIT_READY or ACTIVE.                            *)
(*                                                                         *)
(* External: the client, which may send or stop sending at any time, and   *)
(* the agent and match, between which a notice of the gateway becomes a    *)
(* leave of the room.                                                      *)
(***************************************************************************)
EXTENDS Naturals, Sequences, FiniteSets, SequencesExt

CONSTANTS Players,
          Convs,           \* bound: the sessions that are allocated, 1..n
          MaxMsgs          \* bound: the messages about one session that may wait when
                           \* the gateway sends another

ASSUME GatewayAssumption ==
    /\ IsFiniteSet(Convs) /\ Convs = 1..Cardinality(Convs)
    /\ MaxMsgs \in [Convs -> Nat]

VARIABLES
    sessions,      \* the conv in the table sessions
    players,       \* players[p]: the conv of the player's session, or 0
    owner,         \* owner[c]: the players that session c is, or was, of
    state, has_joined,     \* fields of session c
    gone,          \* clients that will not send again
    seat,          \* seat[c]: "in" the room, "leaving" it, or "out"
    ready,         \* battle_ready of the seat
    starting,      \* the room of c has called start_game
    roomQ,         \* messages to room about c
    answers,       \* answers of room, to the coroutines of battle_ready_ack
    scene,         \* scene[c]: "pending" in pending_enters, "playing" in players, "out"
    online,        \* battle_online
    started,       \* game_started of the scene
    sceneQ,        \* messages to the scene about c
    snapshots,     \* snapshots on their way from the scene to the gateway
    frees,         \* calls of free on their way
    notices,       \* notices to the agent on their way
    blank          \* ACTIVE sessions whose client has had no snapshot yet

sesVars == <<sessions, players, owner, state, has_joined>>
roomVars == <<seat, ready, starting>>
sceneVars == <<scene, online, started>>
chanVars == <<roomQ, answers, sceneQ, snapshots, frees, notices>>
vars == <<sesVars, gone, roomVars, sceneVars, chanVars, blank>>

Init ==
    /\ sessions = {} /\ players = [p \in Players |-> 0]
    /\ owner = [c \in Convs |-> {}]
    /\ state = [c \in Convs |-> "none"]
    /\ has_joined = [c \in Convs |-> FALSE] /\ gone = {}
    /\ seat = [c \in Convs |-> "out"] /\ ready = has_joined /\ starting = {}
    /\ roomQ = [c \in Convs |-> <<>>] /\ answers = roomQ
    /\ scene = [c \in Convs |-> "out"] /\ online = has_joined /\ started = {}
    /\ sceneQ = roomQ /\ snapshots = {} /\ frees = {} /\ notices = {}
    /\ blank = {}

-----------------------------------------------------------------------------
(* The table of the sessions. *)

\* free_session, of the sessions in cs: the player keeps a session that is newer.
free_session(cs) ==
    /\ sessions' = sessions \ cs
    /\ players' = [p \in Players |-> IF players[p] \in cs THEN 0 ELSE players[p]]
    /\ state' = [c \in Convs |-> IF c \in cs THEN "CLOSED" ELSE state[c]]
    /\ blank' = blank \ cs
    /\ UNCHANGED <<owner, has_joined>>

\* batch_alloc for one player: an old session of it is freed.  A player has left its room,
\* as far as match knows, before it is given to another one.
Alloc(p) ==
    LET c == Cardinality({d \in Convs : state[d] # "none"}) + 1
    IN /\ c \in Convs
       /\ \A d \in Convs : p \in owner[d] => seat[d] # "in"
       /\ sessions' = (sessions \ {players[p]}) \cup {c}
       /\ players' = [players EXCEPT ![p] = c]
       /\ owner' = [owner EXCEPT ![c] = {p}]
       /\ state' = [d \in Convs |-> CASE d = c -> "WAIT_AUTH"
                                      [] d = players[p] -> "CLOSED"
                                      [] OTHER -> state[d]]
       /\ seat' = [seat EXCEPT ![c] = "in"]
       /\ scene' = [scene EXCEPT ![c] = "pending"]
       /\ blank' = blank \ {players[p]}
       /\ UNCHANGED <<has_joined, gone, ready, starting, online, started, chanVars>>

\* s.resp.free
Free(c) ==
    /\ c \in frees
    /\ frees' = frees \ {c}
    /\ IF c \in sessions THEN free_session({c}) ELSE UNCHANGED <<sesVars, blank>>
    /\ UNCHANGED <<gone, roomVars, sceneVars, roomQ, answers, sceneQ, snapshots, notices>>

-----------------------------------------------------------------------------
(* on_udp. *)

\* battle_auth, the first handshake with the right token.
Auth(c) ==
    /\ c \in sessions \ gone
    /\ state[c] \in {"WAIT_AUTH", "RECONNECT_WAIT"}
    /\ state' = [state EXCEPT ![c] = "WAIT_READY"]
    /\ UNCHANGED <<sessions, players, owner, has_joined, gone, roomVars, sceneVars,
                   chanVars, blank>>

\* The messages about c that wait at room, at the gateway and at the scene.
Waiting(c) == Len(roomQ[c]) + Len(answers[c]) + Len(sceneQ[c])

\* battle_ready_ack up to the call: the session is ACTIVE before room knows.
Ack(c) ==
    /\ c \in sessions \ gone
    /\ state[c] = "WAIT_READY"
    /\ Waiting(c) < MaxMsgs[c]
    /\ state' = [state EXCEPT ![c] = "ACTIVE"]
    /\ has_joined' = [has_joined EXCEPT ![c] = TRUE]
    /\ roomQ' = [roomQ EXCEPT ![c] = Append(@, [up |-> TRUE, re |-> has_joined[c]])]
    /\ blank' = blank \cup {c}
    /\ UNCHANGED <<sessions, players, owner, gone, roomVars, sceneVars, answers, sceneQ,
                   snapshots, frees, notices>>

\* battle_ready_ack after the call: a session that room refuses is freed, and one that is
\* back asks the scene for a snapshot.
Answered(c, i) ==
    LET a == answers[c][i]
    IN /\ i \in DOMAIN answers[c]
       /\ answers' = [answers EXCEPT ![c] = RemoveAt(@, i)]
       /\ IF a.ok THEN UNCHANGED <<sesVars, blank>> ELSE free_session({c})
       /\ sceneQ' = IF a.ok /\ a.re THEN [sceneQ EXCEPT ![c] = Append(@, "resync")]
                                    ELSE sceneQ
       /\ UNCHANGED <<gone, roomVars, sceneVars, roomQ, snapshots, frees, notices>>

\* s.resp.send with a snapshot of the game that c is a session for.
Forward(c) ==
    /\ c \in snapshots
    /\ snapshots' = snapshots \ {c}
    /\ blank' = blank \ {c}
    /\ UNCHANGED <<sesVars, gone, roomVars, sceneVars, roomQ, answers, sceneQ, frees, notices>>

-----------------------------------------------------------------------------
(* The loop over the sessions. *)

ClientGone(c) ==
    /\ c \in sessions \ gone
    /\ gone' = gone \cup {c}
    /\ UNCHANGED <<sesVars, roomVars, sceneVars, chanVars, blank>>

Shaking(c) == state[c] = "WAIT_AUTH" \/ (state[c] = "WAIT_READY" /\ ~has_joined[c])
\* variant: a client that is lost in the second handshake is not waited for.
ReconnectingOnly(c) == state[c] = "RECONNECT_WAIT"

Reconnecting(c) == state[c] = "RECONNECT_WAIT" \/ (state[c] = "WAIT_READY" /\ has_joined[c])

\* The handshake was not completed in time, or a lost client did not come back: the session
\* is freed and the agent is told.
Expire(c) ==
    /\ c \in sessions
    /\ Shaking(c) \/ Reconnecting(c)
    /\ free_session({c})
    /\ notices' = notices \cup {c}
    /\ UNCHANGED <<gone, roomVars, sceneVars, roomQ, answers, sceneQ, snapshots, frees>>

\* variant: room is not told.
LoseUntold(c) ==
    /\ c \in sessions /\ state[c] = "ACTIVE"
    /\ state' = [state EXCEPT ![c] = "RECONNECT_WAIT"]
    /\ blank' = blank \ {c}
    /\ UNCHANGED <<sessions, players, owner, has_joined, gone, roomVars, sceneVars,
                   roomQ, answers, sceneQ, snapshots, frees, notices>>

\* An ACTIVE session is silent: enter_reconnect_wait, and room is told.
Lose(c) ==
    /\ c \in sessions /\ state[c] = "ACTIVE"
    /\ Waiting(c) < MaxMsgs[c]
    /\ state' = [state EXCEPT ![c] = "RECONNECT_WAIT"]
    /\ roomQ' = [roomQ EXCEPT ![c] = Append(@, [up |-> FALSE, re |-> FALSE])]
    /\ blank' = blank \ {c}
    /\ UNCHANGED <<sessions, players, owner, has_joined, gone, roomVars, sceneVars,
                   answers, sceneQ, snapshots, frees, notices>>

-----------------------------------------------------------------------------
(* The room. *)

\* variant: the scene starts before it is told that the player is there.
BattleReadyLate(c, accepted, starts) ==
    LET m == Head(roomQ[c])
        told == IF m.up THEN <<"on">> ELSE <<"off">>
    IN /\ roomQ[c] # <<>>
       /\ roomQ' = [roomQ EXCEPT ![c] = Tail(@)]
       /\ accepted = TRUE => seat[c] # "out"
       /\ accepted = FALSE => seat[c] # "in"
       /\ starts => accepted /\ m.up /\ seat[c] = "in" /\ c \notin starting
       /\ ready' = [ready EXCEPT ![c] = IF accepted THEN m.up ELSE @]
       /\ starting' = IF starts THEN starting \cup {c} ELSE starting
       /\ sceneQ' = [sceneQ EXCEPT ![c] = @ \o (IF starts THEN <<"start">> ELSE <<>>)
                                            \o (IF accepted THEN told ELSE <<>>)]
       /\ answers' = IF m.up THEN [answers EXCEPT ![c] =
                                       Append(@, [ok |-> accepted, re |-> m.re])]
                     ELSE answers
       /\ UNCHANGED <<sesVars, gone, seat, sceneVars, snapshots, frees, notices, blank>>

\* s.resp.battle_ready.  A player that is leaving may be out of the table already.  The
\* last player that is ready starts the game, and the answer waits for the scene.
BattleReady(c, accepted, starts) ==
    LET m == Head(roomQ[c])
        told == IF m.up THEN <<"on">> ELSE <<"off">>
    IN /\ roomQ[c] # <<>>
       /\ roomQ' = [roomQ EXCEPT ![c] = Tail(@)]
       /\ accepted = TRUE => seat[c] # "out"
       /\ accepted = FALSE => seat[c] # "in"
       /\ starts => accepted /\ m.up /\ seat[c] = "in" /\ c \notin starting
       /\ ready' = [ready EXCEPT ![c] = IF accepted THEN m.up ELSE @]
       /\ starting' = IF starts THEN starting \cup {c} ELSE starting
       /\ sceneQ' = [sceneQ EXCEPT ![c] = @ \o (IF accepted THEN told ELSE <<>>)
                                            \o (IF starts THEN <<"start">> ELSE <<>>)]
       /\ answers' = IF m.up THEN [answers EXCEPT ![c] =
                                       Append(@, [ok |-> accepted, re |-> m.re])]
                     ELSE answers
       /\ UNCHANGED <<sesVars, gone, seat, sceneVars, snapshots, frees, notices, blank>>

\* Another player of the room was the last one.
StartRunning(c) ==
    /\ seat[c] = "in" /\ ready[c] /\ c \notin starting
    /\ starting' = starting \cup {c}
    /\ sceneQ' = [sceneQ EXCEPT ![c] = Append(@, "start")]
    /\ UNCHANGED <<sesVars, gone, seat, ready, sceneVars, roomQ, answers, snapshots, frees,
                   notices, blank>>

\* start_running finds the room over: its caller is refused after all.
StartRefused(c, i) ==
    /\ i \in DOMAIN answers[c] /\ c \in starting /\ seat[c] # "in" /\ answers[c][i].ok
    /\ answers' = [answers EXCEPT ![c][i].ok = FALSE]
    /\ UNCHANGED <<sesVars, gone, roomVars, sceneVars, roomQ, sceneQ, snapshots, frees, notices,
                   blank>>

\* The player leaves, or the room ends: its key is deleted first ...
Leave(c) ==
    /\ seat[c] = "in"
    /\ seat' = [seat EXCEPT ![c] = "leaving"]
    /\ UNCHANGED <<sesVars, gone, ready, starting, sceneVars, chanVars, blank>>

\* ... then its session is freed and it is kicked from the scene.
FreeSeat(c) ==
    /\ seat[c] = "leaving"
    /\ seat' = [seat EXCEPT ![c] = "out"]
    /\ ready' = [ready EXCEPT ![c] = FALSE]
    /\ frees' = frees \cup {c}
    /\ sceneQ' = [sceneQ EXCEPT ![c] = Append(@, "kick")]
    /\ UNCHANGED <<sesVars, gone, starting, sceneVars, roomQ, answers, snapshots, notices, blank>>

\* The agent has a notice: battle_leave_room, through match to the room the player is in
\* by now; the notice names no session.
Noticed(c) ==
    /\ c \in notices
    /\ notices' = notices \ {c}
    /\ seat' = [d \in Convs |-> IF seat[d] = "in" /\ owner[d] \cap owner[c] # {}
                                 THEN "leaving" ELSE seat[d]]
    /\ UNCHANGED <<sesVars, gone, ready, starting, sceneVars, roomQ, answers, sceneQ, snapshots,
                   frees, blank>>

-----------------------------------------------------------------------------
(* The scene. *)

\* send_frame_msg with a snapshot.
Snapshot(c) == IF online'[c] THEN snapshots \cup {c} ELSE snapshots

\* battle_online, start_game, battle_resync, kick_player.  A player that is kicked while
\* playing goes with the next frame; what it is sent until then has no session to go to.
SceneStep(c) ==
    LET m == Head(sceneQ[c])
        here == scene[c] # "out"
    IN /\ sceneQ[c] # <<>>
       /\ sceneQ' = [sceneQ EXCEPT ![c] = Tail(@)]
       /\ online' = IF here THEN [online EXCEPT ![c] = m = "on" \/ (@ /\ m \notin {"off", "kick"})]
                    ELSE online
       /\ started' = IF m = "start" THEN started \cup {c} ELSE started
       /\ scene' = IF m = "kick" THEN [scene EXCEPT ![c] = "out"] ELSE scene
       /\ snapshots' = IF m = "resync" /\ scene[c] = "playing" THEN Snapshot(c) ELSE snapshots
       /\ UNCHANGED <<sesVars, gone, roomVars, roomQ, answers, frees, notices, blank>>

\* flush_pending_enters, on the next frame.
Enter(c) ==
    /\ scene[c] = "pending" /\ c \in started
    /\ scene' = [scene EXCEPT ![c] = "playing"]
    /\ UNCHANGED online
    /\ snapshots' = Snapshot(c)
    /\ UNCHANGED <<sesVars, gone, roomVars, started, roomQ, answers, sceneQ, frees, notices,
                   blank>>
-----------------------------------------------------------------------------
Room(c) == \E accepted, starts \in BOOLEAN : BattleReady(c, accepted, starts)
Answer(c) == \E i \in 1..MaxMsgs[c] : Answered(c, i)

Gateway(c) == Free(c) \/ Answer(c) \/ Forward(c) \/ Expire(c) \/ Lose(c)
Others(c) == Room(c) \/ FreeSeat(c) \/ Noticed(c) \/ SceneStep(c) \/ Enter(c)
Client(c) == Auth(c) \/ Ack(c) \/ ClientGone(c)
Game(c) == StartRunning(c) \/ Leave(c) \/ \E i \in 1..MaxMsgs[c] : StartRefused(c, i)

Next == \/ \E p \in Players : Alloc(p)
        \/ \E c \in Convs : Gateway(c) \/ Others(c) \/ Client(c) \/ Game(c)

Spec == Init /\ [][Next]_vars

\* Every service handles its messages, and the clock and the loop over the sessions go on:
\* a client that is gone is noticed, and no reconnection takes for ever.  A client need
\* not send anything, and no game need start or end.
FairSpec ==
    /\ Spec
    /\ \A c \in Convs : /\ WF_vars(Free(c)) /\ WF_vars(Answer(c)) /\ WF_vars(Forward(c))
                        /\ WF_vars(Reconnecting(c) /\ Expire(c))
                        /\ WF_vars(c \in gone /\ (Expire(c) \/ Lose(c)))
                        /\ WF_vars(Room(c)) /\ WF_vars(FreeSeat(c)) /\ WF_vars(Noticed(c))
                        /\ WF_vars(SceneStep(c)) /\ WF_vars(Enter(c))
-----------------------------------------------------------------------------
(* Correctness. *)

\* A player has one session, and the tables agree on it: an answer or a free of an old
\* session, however late, does not touch the new one.
OneSession ==
    \A c \in Convs : /\ c \in sessions <=> state[c] \notin {"none", "CLOSED"}
                     /\ \A p \in owner[c] : c \in sessions <=> players[p] = c

\* What room has heard last, or will.
LastWord(c) == IF roomQ[c] = <<>> THEN ready[c] ELSE Last(roomQ[c]).up

\* Room and gateway come to agree: a seat is ready if and only if its session is ACTIVE,
\* once the messages on their way are handled, whatever timed out meanwhile.
ReadyAgrees ==
    \A c \in Convs :
        seat[c] = "in" => (LastWord(c) <=> c \in sessions /\ state[c] = "ACTIVE")

\* The comment of battle_ready_ack: a client whose session is ACTIVE gets a snapshot
\* of the game it is in, whether it is there from the first frame or comes back during the
\* game.
SnapshotComes ==
    \A c \in Convs : c \in blank \cap starting ~> c \notin blank \/ seat[c] # "in"

\* A client that does not send any more loses its session and its seat, wherever in the
\* first or a later handshake it stopped.
GoneLeaves == \A c \in Convs : c \in gone ~> c \notin sessions /\ seat[c] = "out"
=============================================================================
