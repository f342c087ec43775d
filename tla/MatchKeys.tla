----------------------------- MODULE MatchKeys -----------------------------
(***************************************************************************)
(* The redis keys match:player:<playerid>.  They are the one piece of      *)
(* state the match service, the rooms and the agents share: match and the  *)
(* rooms read and write them, an agent only reads its own.  Both services  *)
(* carry the same empty_player_state / load / save / clear helpers.        *)
(*                                                                         *)
(* A key is [state, mode, seg, ver, room]: the state of the player, the    *)
(* mode and rank segment it queued with, the allocation that took it, and  *)
(* its room.  The node and address fields are one value: the room is       *)
(* named by the number of the allocation that created it.  Agent address   *)
(* and rank score are not kept: nothing the modules decide reads them      *)
(* back.  A missing key reads as EmptyPlayerState.                         *)
(***************************************************************************)
EXTENDS Integers, FiniteSets

CONSTANTS Players,   \* player ids
          Modes,     \* keys of MATCH_CONFIG
          Segments   \* rank segments, floor(rank_score / segment_span)

\* rank_score is never negative (agent add_rank_score stops at 0), so neither is a segment.
ASSUME KeysAssumption ==
    /\ Segments \subseteq Nat
    /\ 0 \notin Modes

VARIABLE key         \* key[p]: what redis holds for player p

States == {"IDLE", "MATCHING", "ROOM_ALLOCATING", "ROOM_PREPARING", "RUNNING"}

\* The value 0 stands for a nil field (modes, versions and rooms are numbered from 1).
Nil == 0

PlayerState == [state : States,
                mode  : Modes \cup {Nil},
                seg   : Segments \cup {Nil},
                ver   : Nat,
                room  : Nat]

EmptyPlayerState ==
    [state |-> "IDLE", mode |-> Nil, seg |-> Nil, ver |-> Nil, room |-> Nil]

Is(p, st) == key[p].state = st

\* The loaded state of p with a new state, allocation and room: what the services
\* hand to save_player_state.  Mode and segment stay what they were.
Saved(p, st, v, r) == [state |-> st, mode |-> key[p].mode, seg |-> key[p].seg,
                       ver |-> v, room |-> r]

\* clear_player_state, in match and in room: DEL of the key.
Cleared(p) == [key EXCEPT ![p] = EmptyPlayerState]
=============================================================================
