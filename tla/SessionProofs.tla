--------------------------- MODULE SessionProofs ---------------------------
(***************************************************************************)
(* Proofs about the sessions of a player, for any number of logins,        *)
(* reconnections and gateways.                                             *)
(***************************************************************************)
EXTENDS Session, TLAPS

\* Where the login stands that agentmgr's entry belongs to.
EntryInv ==
    /\ mgr.status = "LOGIN" => lp[mgr.login] \in {"creating", "created", "yes", "no"}
    /\ mgr.status \in {"GAME", "LOGOUT"} => lp[mgr.login] = "ok"

\* How a login that is under way sees the entry and its agent.  Until it starts its
\* agent it is alone in waiting for the old one; after that the entry is its own.
LoginInv(c) ==
    /\ lp[c] \in {"none", "asking", "kicking", "gatekick"} => agent[c] = "none"
    /\ lp[c] \in {"kicking", "gatekick"} =>
           /\ old[c] \in Logins
           /\ mgr = Entry("LOGOUT", old[c])
           /\ kicking = {}
           /\ \A d \in Logins : lp[d] \in {"kicking", "gatekick"} => d = c
    /\ lp[c] = "gatekick" => agent[old[c]] = "KICKED" \/ old[c] \in broken
    /\ lp[c] \in {"creating", "created", "yes", "no"} => mgr = Entry("LOGIN", c)
    /\ lp[c] = "creating" => agent[c] = "LOADING"
    /\ lp[c] \in {"created", "yes", "no"} => agent[c] = "NORMAL"

\* A reqkick that goes on has the entry for itself.
KickingInv(c) == c \in kicking => mgr = Entry("LOGOUT", c) /\ kicking = {c}

\* An agent that works belongs to the entry; one that played stays there until saved or
\* until its kick has raised an error, which leaves it KICKING.
AgentInv(c) ==
    /\ agent[c] \in {"LOADING", "NORMAL"} => mgr.login = c
    /\ c \in played => lp[c] = "ok"
    /\ c \in broken => agent[c] = "KICKING"
    /\ c \in played /\ agent[c] # "KICKED" /\ c \notin broken =>
           mgr.login = c /\ mgr.status \in {"GAME", "LOGOUT"}

MgrInv == EntryInv /\ \A c \in Logins : LoginInv(c) /\ KickingInv(c) /\ AgentInv(c)

\* A kick on its way is for a login that is over, and none is on its way to the gateway
\* of a login whose agent is there: newservice went behind it.
KicksInv ==
    \A k \in kicks :
        /\ lp[k] = "ok"
        /\ mgr # Entry("GAME", k)
        /\ mgr # NoEntry /\ GateOf[k] = GateOf[mgr.login] /\ lp[mgr.login] # "creating"
              => k = mgr.login

\* A gateplayer is the entry's, or a kick for it is on its way.
PlayerInv(g) ==
    /\ players[g].login # Nil =>
           /\ GateOf[players[g].login] = g
           /\ \/ players[g].login \in kicks
              \/ /\ players[g].login = mgr.login
                 /\ mgr.status \in {"GAME", "LOGOUT"} \/ lp[mgr.login] = "yes"
    /\ players[g].conn # Nil => GateOf[players[g].conn] = g

\* A login that waits for its confirmation has its gateplayer; one that waits for the
\* gateway goes on when the old gateplayer is gone.
HandOverInv(c) ==
    /\ lp[c] = "yes" => players[GateOf[c]].login = c
    /\ lp[c] = "gatekick" => old[c] \in kicks \/ players[GateOf[old[c]]].login # old[c]

GateInv == /\ \A g \in Gates : PlayerInv(g)
           /\ \A c \in Logins : HandOverInv(c)

\* The inductive invariant; LoadsAfterSave follows from it.
IInv == /\ TypeOK /\ MgrInv /\ KicksInv /\ OwnSession /\ GateInv
        /\ BoundIsConnected /\ OnlineIsReachable

USE SessionAssumption, NilAssumption DEF IInv, mgrVars, gateVars, Entry, NoEntry, NoPlayer

\* An agent that is being kicked has saved (s.resp.kick): logins and reqkick may go on.
LEMMA AgentSavedStep == ASSUME IInv, NEW c \in Logins, AgentSaved(c) PROVE IInv'
<1> USE DEF AgentSaved
<1>1. TypeOK'
  BY DEF TypeOK
<1>2. MgrInv'
  BY DEF MgrInv, EntryInv, LoginInv, KickingInv, AgentInv
<1>3. KicksInv' /\ OwnSession'
  BY DEF KicksInv, OwnSession
<1>4. GateInv'
  BY DEF GateInv, PlayerInv, HandOverInv
<1>5. BoundIsConnected' /\ OnlineIsReachable'
  BY DEF BoundIsConnected, OnlineIsReachable
<1> QED BY <1>1, <1>2, <1>3, <1>4, <1>5

\* reqlogin refuses, kicks the old login, or has the entry to itself.
LEMMA ReqLoginStep == ASSUME IInv, NEW c \in Logins, ReqLogin(c) PROVE IInv'
<1> USE DEF ReqLogin, StartAgent, Kick
<1>1. TypeOK'
  <2>1. UNCHANGED <<kicking, kicks, played, broken, conns, players, timers>> /\ asks' = asks
    BY DEF TypeOK
  <2>2. mgr' \in [status : {"LOGIN", "GAME", "LOGOUT"}, login : Logins] \cup {NoEntry}
    BY DEF TypeOK
  <2>3. lp' \in [Logins -> {"none", "asking", "kicking", "gatekick", "creating", "created",
                            "yes", "no", "ok", "failed"}]
    BY DEF TypeOK
  <2>4. old' \in [Logins -> Logins \cup {Nil}]
    BY DEF TypeOK
  <2>5. agent' \in [Logins -> {"none", "LOADING", "NORMAL", "KICKING", "KICKED"}]
    BY DEF TypeOK
  <2> QED BY <2>1, <2>2, <2>3, <2>4, <2>5 DEF TypeOK
<1>2. MgrInv'
  BY DEF TypeOK, MgrInv, EntryInv, LoginInv, KickingInv, AgentInv
<1>3. KicksInv' /\ OwnSession'
  BY DEF TypeOK, KicksInv, OwnSession
<1>4. GateInv'
  BY DEF TypeOK, GateInv, PlayerInv, HandOverInv
<1>5. BoundIsConnected' /\ OnlineIsReachable'
  BY DEF TypeOK, BoundIsConnected, OnlineIsReachable
<1> QED BY <1>1, <1>2, <1>3, <1>4, <1>5

\* The old agent has saved or its kick has failed; its gateplayer is to be kicked.
LEMMA OldKickedStep == ASSUME IInv, NEW c \in Logins, OldKicked(c) PROVE IInv'
<1> USE DEF OldKicked, KickAnswered
<1>1. TypeOK'
  BY DEF TypeOK, MgrInv, LoginInv
<1>2. MgrInv'
  BY DEF MgrInv, EntryInv, LoginInv, KickingInv, AgentInv
<1>3. KicksInv' /\ OwnSession'
  BY DEF MgrInv, EntryInv, LoginInv, KicksInv, OwnSession, GateInv, PlayerInv
<1>4. GateInv'
  BY DEF GateInv, PlayerInv, HandOverInv
<1>5. BoundIsConnected' /\ OnlineIsReachable'
  BY DEF BoundIsConnected, OnlineIsReachable
<1> QED BY <1>1, <1>2, <1>3, <1>4, <1>5

\* Agent and gateplayer of the old login are gone: the new agent loads.
LEMMA OldGoneStep == ASSUME IInv, NEW c \in Logins, OldGone(c) PROVE IInv'
<1> USE DEF OldGone, StartAgent
<1>1. TypeOK'
  BY DEF TypeOK
<1>2. MgrInv'
  BY DEF TypeOK, MgrInv, EntryInv, LoginInv, KickingInv, AgentInv
<1>3. KicksInv' /\ OwnSession'
  BY DEF TypeOK, MgrInv, LoginInv, KicksInv, OwnSession
<1>4. GateInv'
  BY DEF TypeOK, MgrInv, LoginInv, GateInv, PlayerInv, HandOverInv
<1>5. BoundIsConnected' /\ OnlineIsReachable'
  BY DEF BoundIsConnected, OnlineIsReachable
<1> QED BY <1>1, <1>2, <1>3, <1>4, <1>5

\* The answer of newservice comes behind the kicks sent to that node.
LEMMA CreatedStep == ASSUME IInv, NEW c \in Logins, Created(c) PROVE IInv'
<1> USE DEF Created, Reached
<1>1. TypeOK'
  BY DEF TypeOK
<1>2. MgrInv'
  BY DEF TypeOK, MgrInv, EntryInv, LoginInv, KickingInv, AgentInv
<1>3. KicksInv' /\ OwnSession'
  BY DEF MgrInv, LoginInv, KicksInv, OwnSession
<1>4. GateInv'
  BY DEF GateInv, PlayerInv, HandOverInv
<1>5. BoundIsConnected' /\ OnlineIsReachable'
  BY DEF BoundIsConnected, OnlineIsReachable
<1> QED BY <1>1, <1>2, <1>3, <1>4, <1>5

\* A login whose agent could not be made gives its entry back.
LEMMA CreateFailsStep == ASSUME IInv, NEW c \in Logins, CreateFails(c) PROVE IInv'
<1> USE DEF CreateFails
<1>1. TypeOK'
  BY DEF TypeOK
<1>2. MgrInv'
  BY DEF TypeOK, MgrInv, EntryInv, LoginInv, KickingInv, AgentInv
<1>3. KicksInv' /\ OwnSession'
  BY DEF MgrInv, LoginInv, KicksInv, OwnSession
<1>4. GateInv'
  BY DEF MgrInv, LoginInv, GateInv, PlayerInv, HandOverInv
<1>5. BoundIsConnected' /\ OnlineIsReachable'
  BY DEF BoundIsConnected, OnlineIsReachable
<1> QED BY <1>1, <1>2, <1>3, <1>4, <1>5

\* confirm_login(true) has no version and confirms its own login all the same.
LEMMA ConfirmTrueStep == ASSUME IInv, NEW c \in Logins, ConfirmTrue(c) PROVE IInv'
<1> USE DEF ConfirmTrue, Kick
<1>1. TypeOK'
  BY DEF TypeOK
<1>2. MgrInv'
  BY DEF TypeOK, MgrInv, EntryInv, LoginInv, KickingInv, AgentInv
<1>3. KicksInv' /\ OwnSession'
  BY DEF TypeOK, KicksInv, OwnSession
<1>4. GateInv'
  BY DEF TypeOK, MgrInv, LoginInv, GateInv, PlayerInv, HandOverInv
<1>5. BoundIsConnected' /\ OnlineIsReachable'
  BY DEF MgrInv, LoginInv, GateInv, HandOverInv, BoundIsConnected, OnlineIsReachable
<1> QED BY <1>1, <1>2, <1>3, <1>4, <1>5

\* confirm_login(false) throws out its own login.
LEMMA ConfirmFalseStep == ASSUME IInv, NEW c \in Logins, ConfirmFalse(c) PROVE IInv'
<1> USE DEF ConfirmFalse, Kick
<1>1. TypeOK'
  BY DEF TypeOK
<1>2. MgrInv'
  BY DEF TypeOK, MgrInv, EntryInv, LoginInv, KickingInv, AgentInv
<1>3. KicksInv' /\ OwnSession'
  BY DEF TypeOK, KicksInv, OwnSession
<1>4. GateInv'
  BY DEF MgrInv, LoginInv, GateInv, PlayerInv, HandOverInv
<1>5. BoundIsConnected' /\ OnlineIsReachable'
  BY DEF BoundIsConnected, OnlineIsReachable
<1> QED BY <1>1, <1>2, <1>3, <1>4, <1>5

\* reqkick begins only for the login it was meant for, when that is online.
LEMMA ReqKickStep == ASSUME IInv, NEW c \in Logins, ReqKick(c) PROVE IInv'
<1> USE DEF ReqKick, Kick
<1>1. TypeOK'
  BY DEF TypeOK
<1>2. MgrInv'
  BY DEF TypeOK, MgrInv, EntryInv, LoginInv, KickingInv, AgentInv
<1>3. KicksInv' /\ OwnSession'
  BY DEF KicksInv, OwnSession
<1>4. GateInv'
  BY DEF GateInv, PlayerInv, HandOverInv
<1>5. BoundIsConnected' /\ OnlineIsReachable'
  BY DEF BoundIsConnected, OnlineIsReachable
<1> QED BY <1>1, <1>2, <1>3, <1>4, <1>5

\* reqkick frees the entry with the gateway's kick still on its way.
LEMMA KickDoneStep == ASSUME IInv, NEW c \in Logins, KickDone(c) PROVE IInv'
<1> USE DEF KickDone, KickAnswered
<1>1. TypeOK'
  BY DEF TypeOK
<1>2. MgrInv'
  BY DEF MgrInv, EntryInv, LoginInv, KickingInv, AgentInv
<1>3. KicksInv' /\ OwnSession'
  BY DEF MgrInv, EntryInv, KickingInv, KicksInv, OwnSession, GateInv, PlayerInv
<1>4. GateInv'
  BY DEF MgrInv, KickingInv, GateInv, PlayerInv, HandOverInv
<1>5. BoundIsConnected' /\ OnlineIsReachable'
  BY DEF BoundIsConnected, OnlineIsReachable
<1> QED BY <1>1, <1>2, <1>3, <1>4, <1>5

\* shutdown asks for the kick of the login that is online.
LEMMA ShutdownStep == ASSUME IInv, Shutdown PROVE IInv'
<1> USE DEF Shutdown
<1>1. TypeOK'
  BY DEF TypeOK
<1>2. MgrInv'
  BY DEF MgrInv, EntryInv, LoginInv, KickingInv, AgentInv
<1>3. KicksInv' /\ OwnSession'
  BY DEF KicksInv, OwnSession
<1>4. GateInv'
  BY DEF GateInv, PlayerInv, HandOverInv
<1>5. BoundIsConnected' /\ OnlineIsReachable'
  BY DEF BoundIsConnected, OnlineIsReachable
<1> QED BY <1>1, <1>2, <1>3, <1>4, <1>5

\* A client logs in.
LEMMA LoginSecondStep == ASSUME IInv, NEW c \in Logins, LoginSecond(c) PROVE IInv'
<1> USE DEF LoginSecond
<1>1. TypeOK'
  BY DEF TypeOK
<1>2. MgrInv'
  BY DEF MgrInv, EntryInv, LoginInv, KickingInv, AgentInv
<1>3. KicksInv' /\ OwnSession'
  BY DEF KicksInv, OwnSession
<1>4. GateInv'
  BY DEF GateInv, PlayerInv, HandOverInv
<1>5. BoundIsConnected' /\ OnlineIsReachable'
  BY DEF BoundIsConnected, OnlineIsReachable
<1> QED BY <1>1, <1>2, <1>3, <1>4, <1>5

\* sure_agent finds no other gateplayer in its place.
LEMMA SureAgentStep == ASSUME IInv, NEW c \in Logins, SureAgent(c) PROVE IInv'
<1> USE DEF SureAgent
<1>1. TypeOK'
  <2>1. /\ lp[c] = "created" /\ GateOf[c] \in Gates
        /\ UNCHANGED <<mgr, old, asks, kicking, played, broken, kicks, agent, timers>>
    BY DEF TypeOK
  <2>2. lp' \in [Logins -> {"none", "asking", "kicking", "gatekick", "creating", "created",
                            "yes", "no", "ok", "failed"}]
    BY DEF TypeOK
  <2>3. conns' \in [Conns -> {"open", "bound", "closed"}]
    BY DEF TypeOK
  <2>4. players' \in [Gates -> [login : Logins, conn : Conns \cup {Nil},
                                disconnect_ver : Conns \cup {Nil}] \cup {NoPlayer}]
    BY DEF TypeOK
  <2> QED BY <2>1, <2>2, <2>3, <2>4 DEF TypeOK
<1>2. MgrInv'
  BY DEF TypeOK, MgrInv, EntryInv, LoginInv, KickingInv, AgentInv
<1>3. KicksInv' /\ OwnSession'
  BY DEF TypeOK, KicksInv, OwnSession
<1>4. GateInv'
  BY DEF TypeOK, MgrInv, LoginInv, GateInv, PlayerInv, HandOverInv
<1>5. BoundIsConnected'
  <2>1. players[GateOf[c]].conn = Nil
    BY DEF TypeOK, MgrInv, LoginInv, KicksInv, GateInv, PlayerInv
  <2>2. GateOf[c] \in Gates /\ c \in Conns
    OBVIOUS
  <2>3. conns \in [Conns -> {"open", "bound", "closed"}] /\ DOMAIN players = Gates
    BY DEF TypeOK
  <2>4. BoundIsConnected
    OBVIOUS
  <2> HIDE DEF IInv
  <2>5. CASE conns[c] # "closed"
    BY <2>1, <2>2, <2>3, <2>4, <2>5 DEF BoundIsConnected
  <2>6. CASE conns[c] = "closed"
    BY <2>4, <2>6 DEF BoundIsConnected
  <2> QED BY <2>5, <2>6
<1>6. OnlineIsReachable'
  BY DEF TypeOK, MgrInv, LoginInv, OnlineIsReachable
<1> QED BY <1>1, <1>2, <1>3, <1>4, <1>5, <1>6

\* The gateway's kick has no version and removes the gateplayer it was sent for.
LEMMA GateKickStep == ASSUME IInv, NEW c \in Logins, GateKick(c) PROVE IInv'
<1> USE DEF GateKick
<1>1. TypeOK'
  BY DEF TypeOK
<1>2. MgrInv'
  BY DEF MgrInv, EntryInv, LoginInv, KickingInv, AgentInv
<1>3. KicksInv' /\ OwnSession'
  BY DEF KicksInv, OwnSession
<1>4. GateInv'
  BY DEF TypeOK, MgrInv, LoginInv, KicksInv, GateInv, PlayerInv, HandOverInv
<1>5. BoundIsConnected' /\ OnlineIsReachable'
  BY DEF TypeOK, MgrInv, EntryInv, KicksInv, GateInv, PlayerInv, BoundIsConnected,
         OnlineIsReachable
<1> QED BY <1>1, <1>2, <1>3, <1>4, <1>5

\* A connection breaks: the gateplayer it belongs to is there and keeps its login.
LEMMA DisconnectStep == ASSUME IInv, NEW c \in Conns, Disconnect(c) PROVE IInv'
<1> USE DEF Disconnect
<1>1. TypeOK'
  BY DEF TypeOK
<1>2. MgrInv'
  BY DEF MgrInv, EntryInv, LoginInv, KickingInv, AgentInv
<1>3. KicksInv' /\ OwnSession'
  <2>1. KicksInv'
    BY DEF TypeOK, KicksInv
  <2>2. OwnSession'
    BY DEF TypeOK, OwnSession
  <2> QED BY <2>1, <2>2
<1>4. GateInv'
  <2>1. \A g \in Gates : players'[g].login = players[g].login
    BY DEF TypeOK
  <2>2. \A g \in Gates : players'[g].conn \in {players[g].conn, Nil}
    BY DEF TypeOK
  <2>3. ASSUME NEW g \in Gates PROVE PlayerInv(g)'
    BY <2>1, <2>2 DEF GateInv, PlayerInv
  <2>4. ASSUME NEW d \in Logins PROVE HandOverInv(d)'
    BY <2>1 DEF MgrInv, LoginInv, GateInv, HandOverInv
  <2> QED BY <2>3, <2>4 DEF GateInv
<1>5. BoundIsConnected' /\ OnlineIsReachable'
  BY SMTT(20) DEF TypeOK, LoginInv, KickingInv, PlayerInv, BoundIsConnected, OnlineIsReachable
<1> QED BY <1>1, <1>2, <1>3, <1>4, <1>5

\* A disconnect timer at most asks for a kick.
LEMMA TimerFiresStep == ASSUME IInv, NEW t \in timers, TimerFires(t) PROVE IInv'
<1> USE DEF TimerFires
<1>1. TypeOK'
  BY DEF TypeOK
<1>2. MgrInv'
  BY DEF MgrInv, EntryInv, LoginInv, KickingInv, AgentInv
<1>3. KicksInv' /\ OwnSession'
  BY DEF KicksInv, OwnSession
<1>4. GateInv'
  BY DEF GateInv, PlayerInv, HandOverInv
<1>5. BoundIsConnected' /\ OnlineIsReachable'
  BY DEF BoundIsConnected, OnlineIsReachable
<1> QED BY <1>1, <1>2, <1>3, <1>4, <1>5

\* A full message cache at most asks for a kick.
LEMMA CacheFullStep == ASSUME IInv, NEW g \in Gates, CacheFull(g) PROVE IInv'
<1> USE DEF CacheFull
<1>1. TypeOK'
  BY DEF TypeOK
<1>2. MgrInv'
  BY DEF MgrInv, EntryInv, LoginInv, KickingInv, AgentInv
<1>3. KicksInv' /\ OwnSession'
  BY DEF KicksInv, OwnSession
<1>4. GateInv'
  BY DEF GateInv, PlayerInv, HandOverInv
<1>5. BoundIsConnected' /\ OnlineIsReachable'
  BY DEF BoundIsConnected, OnlineIsReachable
<1> QED BY <1>1, <1>2, <1>3, <1>4, <1>5

\* A client that comes back takes the place of its broken connection.
LEMMA ReconnectStep == ASSUME IInv, NEW c \in Conns, Reconnect(c) PROVE IInv'
<1> USE DEF Reconnect
<1>1. TypeOK'
  BY DEF TypeOK
<1>2. MgrInv'
  BY DEF MgrInv, EntryInv, LoginInv, KickingInv, AgentInv
<1>3. KicksInv' /\ OwnSession'
  BY DEF KicksInv, OwnSession
<1>4. GateInv'
  BY DEF GateInv, PlayerInv, HandOverInv
<1>5. BoundIsConnected' /\ OnlineIsReachable'
  BY DEF TypeOK, BoundIsConnected, OnlineIsReachable
<1> QED BY <1>1, <1>2, <1>3, <1>4, <1>5

\* In the beginning there is no entry, no agent, no gateplayer and no kick.
LEMMA InitHolds == Init => IInv
BY DEF Init, TypeOK, MgrInv, EntryInv, LoginInv, KickingInv, AgentInv, KicksInv, OwnSession,
       GateInv, PlayerInv, HandOverInv, BoundIsConnected, OnlineIsReachable

\* Every step of agentmgr, the agents, the gateways and the clients keeps the invariant.
LEMMA NextHolds == ASSUME IInv, [Next]_vars PROVE IInv'
<1>1. ASSUME NEW c \in Logins, LoginStep(c) PROVE IInv'
  BY <1>1, ReqLoginStep, OldKickedStep, OldGoneStep, CreatedStep, CreateFailsStep,
     SureAgentStep, ConfirmTrueStep, ConfirmFalseStep DEF LoginStep
<1>2. ASSUME NEW c \in Logins, KickStep(c) PROVE IInv'
  BY <1>2, AgentSavedStep, ReqKickStep, KickDoneStep, GateKickStep DEF KickStep
<1>3. CASE ClientStep
  BY <1>3, LoginSecondStep, DisconnectStep, ReconnectStep DEF ClientStep
<1>4. CASE Fire
  BY <1>4, TimerFiresStep DEF Fire
<1>5. CASE Shutdown
  BY <1>5, ShutdownStep
<1>6. ASSUME NEW g \in Gates, CacheFull(g) PROVE IInv'
  BY <1>6, CacheFullStep
<1>7. CASE UNCHANGED vars
  BY <1>7 DEF vars, TypeOK, MgrInv, EntryInv, LoginInv, KickingInv, AgentInv, KicksInv,
     OwnSession, GateInv, PlayerInv, HandOverInv, BoundIsConnected, OnlineIsReachable
<1> QED BY <1>1, <1>2, <1>3, <1>4, <1>5, <1>6, <1>7 DEF Next

\* The invariant holds of every reachable state.
THEOREM Invariance == Spec => []IInv
<1>1. Init => IInv
  BY InitHolds
<1>2. IInv /\ [Next]_vars => IInv'
  BY NextHolds
<1> QED BY <1>1, <1>2, PTL DEF Spec

\* The entry, the agents, the connections and the gateplayers stay well typed.
THEOREM TypeCorrect == Spec => []TypeOK
<1>1. IInv => TypeOK
  OBVIOUS
<1> QED BY <1>1, Invariance, PTL

\* confirm_login and the gateway's kick, which name a player and no login, hit the
\* session they were sent for (agentmgr confirm_login, reqkick; gateway sure_agent, kick).
THEOREM CallsHitTheirSession == Spec => []OwnSession
<1>1. IInv => OwnSession
  OBVIOUS
<1> QED BY <1>1, Invariance, PTL

\* The agent of a new login never works while one that played has yet to save, unless
\* the kick of the old one raised an error, which agentmgr ignores: it is the entry that
\* keeps them apart (agentmgr reqlogin, reqkick).
THEOREM NewLoadsAfterOldSaved == Spec => []LoadsAfterSave
<1>1. IInv => LoadsAfterSave
  BY DEF MgrInv, AgentInv, LoadsAfterSave
<1> QED BY <1>1, Invariance, PTL

\* disconnect and process_msg of the gateway, which index players without a test, find
\* the gateplayer of their connection, and a gateplayer's connection is its own.
THEOREM ConnectionsLeadToPlayers == Spec => []BoundIsConnected
<1>1. IInv => BoundIsConnected
  OBVIOUS
<1> QED BY <1>1, Invariance, PTL

\* A player agentmgr calls online has a working agent and a gateplayer leading to it
\* (agentmgr confirm_login, reqkick; gateway sure_agent, kick).
THEOREM OnlinePlayersAreReachable == Spec => []OnlineIsReachable
<1>1. IInv => OnlineIsReachable
  OBVIOUS
<1> QED BY <1>1, Invariance, PTL
=============================================================================
