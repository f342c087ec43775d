------------------------------ MODULE Session ------------------------------
(***************************************************************************)
(* The sessions of one player: agentmgr (its entry of the player and the   *)
(* coroutines of reqlogin, confirm_login and reqkick), the gateways (their *)
(* connections, gateplayer, disconnect timers) and the agents' life.       *)
(* Players share none of this, so one is enough.                           *)
(*                                                                         *)
(* A login is named after the connection it came over: that name stands    *)
(* for its login_version and for its agent, both of which are new for each *)
(* login.  A connection breaks once, so it names its disconnect_ver too.   *)
(*                                                                         *)
(* Calls yield and their answers come later; each piece of a handler up to *)
(* its next call is one action.  Messages from agentmgr to one node keep   *)
(* their order (one cluster channel, or one mailbox).  The time assumed:   *)
(* a disconnect timer (300 s) is longer than a confirm_login call.         *)
(* Handlers may raise an error, nodes and the channels between them do not *)
(* fail: neither the gateway's kick handler nor confirm_login has anything *)
(* that raises, newservice and the agent's kick have.                      *)
(***************************************************************************)
EXTENDS FiniteSets

CONSTANTS Conns,    \* connections
          Logins,   \* the connections over which the client logs in; over the
                    \* others it reconnects
          Gates,    \* gateways
          GateOf    \* the gateway of a connection

ASSUME SessionAssumption == Logins \subseteq Conns /\ GateOf \in [Conns -> Gates]

Nil == "nil"

ASSUME NilAssumption == Nil \notin Conns

VARIABLES
    \* agentmgr
    mgr,      \* players[playerid]: its status and login; "NONE" stands for no entry
    lp,       \* lp[c]: how far the login over c has come
    old,      \* old[c]: the login that c's reqlogin kicks
    asks,     \* reqkick requests on their way, by login_version
    kicking,  \* the logins whose reqkick waits for the agent
    kicks,    \* kick messages to gateways, by the login they are meant for
    \* agents
    agent,    \* agent[c]: the state of the agent of login c
    played,   \* history: the logins that were confirmed
    broken,   \* history: the logins whose agent's kick raised an error
    \* gateways
    conns,    \* conns[c]: "open" (from the start: a connection that has done nothing
              \* takes part in nothing), "bound" once it has a playerid
    players,  \* players[g]: the gateplayer of the player, if any
    timers    \* disconnect timers, with the disconnect_ver and login_version they hold

mgrVars == <<mgr, old, asks, kicking, played, broken>>
gateVars == <<conns, players, timers>>
vars == <<mgrVars, lp, kicks, agent, gateVars>>

NoEntry == [status |-> "NONE", login |-> Nil]
Entry(st, c) == [status |-> st, login |-> c]
NoPlayer == [login |-> Nil, conn |-> Nil, disconnect_ver |-> Nil]
-----------------------------------------------------------------------------
Init ==
    /\ mgr = NoEntry
    /\ lp = [c \in Logins |-> "none"]
    /\ old = [c \in Logins |-> Nil]
    /\ asks = {} /\ kicking = {} /\ kicks = {}
    /\ agent = [c \in Logins |-> "none"]
    /\ played = {} /\ broken = {}
    /\ conns = [c \in Conns |-> "open"]
    /\ players = [g \in Gates |-> NoPlayer]
    /\ timers = {}
-----------------------------------------------------------------------------
(* The agent. *)

\* s.resp.kick, up to the first wait.
Kick(c) == agent' = [agent EXCEPT ![c] = IF @ = "NORMAL" THEN "KICKING" ELSE @]

\* s.resp.kick: calls in progress have ended, match or room was left, data saved.
AgentSaved(c) ==
    /\ agent[c] = "KICKING" /\ c \notin broken
    /\ agent' = [agent EXCEPT ![c] = "KICKED"]
    /\ UNCHANGED <<mgrVars, lp, kicks, gateVars>>
\* The caller of s.resp.kick goes on: the agent has saved, or its handler has raised an
\* error, which leaves it KICKING for good and which the caller does not look at.
KickAnswered(d) ==
    \/ agent[d] = "KICKED" /\ UNCHANGED broken
    \/ agent[d] = "KICKING" /\ broken' = broken \cup {d}

\* variant: the caller does not wait for the answer.
KickNotAwaited(d) == UNCHANGED broken
-----------------------------------------------------------------------------
(* agentmgr. *)

\* players[playerid] = player and the call of newservice: the new agent loads.
StartAgent(c) ==
    /\ mgr' = Entry("LOGIN", c)
    /\ lp' = [lp EXCEPT ![c] = "creating"]
    /\ agent' = [agent EXCEPT ![c] = "LOADING"]
    /\ UNCHANGED kicks

\* variant: a login that meets another kick is not refused.
ReqLoginAlways(c) ==
    /\ lp[c] = "asking"
    /\ IF mgr # NoEntry
         THEN /\ mgr' = [mgr EXCEPT !.status = "LOGOUT"]
              /\ old' = [old EXCEPT ![c] = mgr.login]
              /\ Kick(mgr.login)
              /\ lp' = [lp EXCEPT ![c] = "kicking"]
              /\ UNCHANGED kicks
         ELSE StartAgent(c) /\ UNCHANGED old
    /\ UNCHANGED <<asks, kicking, played, broken, gateVars>>

\* s.resp.reqlogin, up to its first call.
ReqLogin(c) ==
    /\ lp[c] = "asking"
    /\ \/ /\ mgr.status \in {"LOGIN", "LOGOUT"}
          /\ lp' = [lp EXCEPT ![c] = "failed"]
          /\ UNCHANGED <<mgr, old, agent, kicks>>
       \/ /\ mgr.status = "GAME"
          /\ mgr' = [mgr EXCEPT !.status = "LOGOUT"]
          /\ old' = [old EXCEPT ![c] = mgr.login]
          /\ Kick(mgr.login)
          /\ lp' = [lp EXCEPT ![c] = "kicking"]
          /\ UNCHANGED kicks
       \/ /\ mgr = NoEntry
          /\ StartAgent(c)
          /\ UNCHANGED old
    /\ UNCHANGED <<asks, kicking, played, broken, gateVars>>

\* s.resp.reqlogin after the old agent's answer: the gateway is called.
OldKicked(c) ==
    /\ lp[c] = "kicking" /\ KickAnswered(old[c])
    /\ kicks' = kicks \cup {old[c]}
    /\ lp' = [lp EXCEPT ![c] = "gatekick"]
    /\ UNCHANGED <<mgr, old, asks, kicking, played, agent, gateVars>>

\* ... and after the gateway's answer.
OldGone(c) ==
    /\ lp[c] = "gatekick" /\ old[c] \notin kicks
    /\ StartAgent(c)
    /\ old' = [old EXCEPT ![c] = Nil]
    /\ UNCHANGED <<asks, kicking, played, broken, gateVars>>

\* newservice has to reach c's node, behind the kicks sent there.
Reached(c) == \A k \in kicks : GateOf[k] # GateOf[c]

\* s.resp.reqlogin after the answer of newservice.
Created(c) ==
    /\ lp[c] = "creating" /\ Reached(c)
    /\ agent' = [agent EXCEPT ![c] = "NORMAL"]
    /\ lp' = [lp EXCEPT ![c] = "created"]
    /\ UNCHANGED <<mgrVars, kicks, gateVars>>

\* variant: the entry is not removed.
CreateFailsOnly(c) ==
    /\ lp[c] = "creating" /\ Reached(c)
    /\ agent' = [agent EXCEPT ![c] = "KICKED"]
    /\ lp' = [lp EXCEPT ![c] = "failed"]
    /\ UNCHANGED <<mgrVars, kicks, gateVars>>

\* newservice raised: the launcher has removed the service, which is KICKED here.
CreateFails(c) ==
    /\ lp[c] = "creating" /\ Reached(c)
    /\ agent' = [agent EXCEPT ![c] = "KICKED"]
    /\ mgr' = NoEntry
    /\ lp' = [lp EXCEPT ![c] = "failed"]
    /\ UNCHANGED <<old, asks, kicking, played, broken, kicks, gateVars>>

\* s.resp.confirm_login with true.  The refusal, with what sure_agent does after it, is
\* never taken (OwnSession).
ConfirmTrue(c) ==
    /\ lp[c] = "yes"
    /\ IF mgr.status = "LOGIN"
         THEN /\ mgr' = [mgr EXCEPT !.status = "GAME"]
              /\ lp' = [lp EXCEPT ![c] = "ok"]
              /\ played' = played \cup {c}
              /\ UNCHANGED <<agent, conns, players>>
         ELSE /\ mgr' = NoEntry
              /\ IF mgr = NoEntry THEN UNCHANGED agent ELSE Kick(mgr.login)
              /\ lp' = [lp EXCEPT ![c] = "failed"]
              /\ players' = [players EXCEPT ![GateOf[c]] = NoPlayer]
              /\ conns' = [conns EXCEPT ![c] = "closed"]
              /\ UNCHANGED played
    /\ UNCHANGED <<old, asks, kicking, broken, kicks, timers>>

\* s.resp.confirm_login with false, up to the call of the agent: the entry goes first.
ConfirmFalse(c) ==
    /\ lp[c] = "no"
    /\ mgr' = NoEntry
    /\ IF mgr = NoEntry THEN UNCHANGED agent ELSE Kick(mgr.login)
    /\ lp' = [lp EXCEPT ![c] = "failed"]
    /\ UNCHANGED <<old, asks, kicking, played, broken, kicks, gateVars>>

\* variant: the entry is removed before the agent and the gateway were told.
ReqKickForgets(c) ==
    /\ c \in asks
    /\ asks' = asks \ {c}
    /\ IF mgr = Entry("GAME", c)
         THEN mgr' = NoEntry /\ Kick(c) /\ kicking' = kicking \cup {c}
         ELSE UNCHANGED <<mgr, agent, kicking>>
    /\ UNCHANGED <<old, played, broken, lp, kicks, gateVars>>

\* s.resp.reqkick, up to the call of the agent.
ReqKick(c) ==
    /\ c \in asks
    /\ asks' = asks \ {c}
    /\ IF mgr = Entry("GAME", c)
         THEN /\ mgr' = [mgr EXCEPT !.status = "LOGOUT"]
              /\ Kick(c)
              /\ kicking' = kicking \cup {c}
         ELSE UNCHANGED <<mgr, agent, kicking>>
    /\ UNCHANGED <<old, played, broken, lp, kicks, gateVars>>

\* s.resp.reqkick after the agent's answer: it does not wait for the gateway.
KickDone(c) ==
    /\ c \in kicking /\ KickAnswered(c)
    /\ kicking' = kicking \ {c}
    /\ kicks' = kicks \cup {c}
    /\ mgr' = NoEntry
    /\ UNCHANGED <<old, asks, played, lp, agent, gateVars>>

\* s.resp.shutdown: it takes the version from the entry it looks at.
Shutdown ==
    /\ mgr.status = "GAME"
    /\ asks' = asks \cup {mgr.login}
    /\ UNCHANGED <<mgr, old, kicking, played, broken, lp, kicks, agent, gateVars>>
-----------------------------------------------------------------------------
(* The gateways. *)

\* login_second, sent over an open connection: login calls reqlogin.
LoginSecond(c) ==
    /\ c \in Logins /\ conns[c] = "open" /\ lp[c] = "none"
    /\ lp' = [lp EXCEPT ![c] = "asking"]
    /\ UNCHANGED <<mgrVars, kicks, agent, gateVars>>

\* s.resp.sure_agent, up to the call of confirm_login.
SureAgent(c) ==
    /\ lp[c] = "created"
    /\ IF conns[c] # "closed"
         THEN /\ conns' = [conns EXCEPT ![c] = "bound"]
              /\ players' = [players EXCEPT ![GateOf[c]] =
                                [login |-> c, conn |-> c, disconnect_ver |-> Nil]]
              /\ lp' = [lp EXCEPT ![c] = "yes"]
         ELSE lp' = [lp EXCEPT ![c] = "no"] /\ UNCHANGED <<conns, players>>
    /\ UNCHANGED <<mgrVars, kicks, agent, timers>>

\* s.resp.kick
GateKick(k) ==
    /\ k \in kicks
    /\ kicks' = kicks \ {k}
    /\ LET c == players[GateOf[k]].conn IN
       conns' = IF c = Nil THEN conns ELSE [conns EXCEPT ![c] = "closed"]
    /\ players' = [players EXCEPT ![GateOf[k]] = NoPlayer]
    /\ UNCHANGED <<mgrVars, lp, agent, timers>>

\* variant: the break is not numbered.
DisconnectUnnumbered(c) ==
    /\ conns[c] \in {"open", "bound"}
    /\ conns' = [conns EXCEPT ![c] = "closed"]
    /\ IF conns[c] = "bound"
         THEN LET g == GateOf[c] IN
              /\ players' = [players EXCEPT ![g].conn = Nil]
              /\ timers' = timers \cup {<<c, players[g].login>>}
         ELSE UNCHANGED <<players, timers>>
    /\ UNCHANGED <<mgrVars, lp, kicks, agent>>

\* disconnect
Disconnect(c) ==
    /\ conns[c] \in {"open", "bound"}
    /\ conns' = [conns EXCEPT ![c] = "closed"]
    /\ IF conns[c] = "bound"
         THEN LET g == GateOf[c] IN
              /\ players' = [players EXCEPT ![g].conn = Nil, ![g].disconnect_ver = c]
              /\ timers' = timers \cup {<<c, players[g].login>>}
         ELSE UNCHANGED <<players, timers>>
    /\ UNCHANGED <<mgrVars, lp, kicks, agent>>

\* the timer of disconnect
TimerFires(t) ==
    /\ t \in timers
    /\ lp[t[2]] # "yes"
    /\ timers' = timers \ {t}
    /\ LET p == players[GateOf[t[1]]] IN
       asks' = IF p # NoPlayer /\ p.disconnect_ver = t[1] /\ p.conn = Nil
                 THEN asks \cup {t[2]} ELSE asks
    /\ UNCHANGED <<mgr, old, kicking, played, broken, lp, kicks, agent, conns,
                   players>>

\* s.resp.send with a full msgcache and no connection.
CacheFull(g) ==
    /\ players[g] # NoPlayer /\ players[g].conn = Nil
    /\ asks' = asks \cup {players[g].login}
    /\ UNCHANGED <<mgr, old, kicking, played, broken, lp, kicks, agent, gateVars>>

\* process_reconnect, when it is not refused: the client has the token of that login.
Reconnect(c) ==
    LET g == GateOf[c] IN
    /\ c \notin Logins /\ conns[c] = "open"
    /\ players[g] # NoPlayer /\ players[g].conn = Nil
    /\ lp[players[g].login] = "ok"
    /\ players' = [players EXCEPT ![g].conn = c]
    /\ conns' = [conns EXCEPT ![c] = "bound"]
    /\ UNCHANGED <<mgrVars, lp, kicks, agent, timers>>
-----------------------------------------------------------------------------
LoginStep(c) ==
    \/ ReqLogin(c) \/ OldKicked(c) \/ OldGone(c) \/ Created(c) \/ CreateFails(c)
    \/ SureAgent(c) \/ ConfirmTrue(c) \/ ConfirmFalse(c)

KickStep(c) == AgentSaved(c) \/ ReqKick(c) \/ KickDone(c) \/ GateKick(c)

ClientStep == \/ \E c \in Logins : LoginSecond(c)
              \/ \E c \in Conns : Disconnect(c) \/ Reconnect(c)

Fire == \E t \in timers : TimerFires(t)

Next ==
    \/ \E c \in Logins : LoginStep(c) \/ KickStep(c)
    \/ ClientStep
    \/ Fire
    \/ Shutdown
    \/ \E g \in Gates : CacheFull(g)

Spec == Init /\ [][Next]_vars

\* Calls are answered, messages arrive and timers fire; clients promise nothing.
FairSpec ==
    /\ Spec
    /\ WF_vars(Fire)
    /\ \A c \in Logins : /\ WF_vars(LoginStep(c)) /\ WF_vars(AgentSaved(c))
                        /\ WF_vars(ReqKick(c)) /\ WF_vars(KickDone(c)) /\ WF_vars(GateKick(c))
-----------------------------------------------------------------------------
(* Properties. *)

TypeOK ==
    /\ mgr \in [status : {"LOGIN", "GAME", "LOGOUT"}, login : Logins] \cup {NoEntry}
    /\ lp \in [Logins -> {"none", "asking", "kicking", "gatekick", "creating", "created",
                         "yes", "no", "ok", "failed"}]
    /\ old \in [Logins -> Logins \cup {Nil}]
    /\ asks \subseteq Logins /\ kicking \subseteq Logins /\ kicks \subseteq Logins
    /\ agent \in [Logins -> {"none", "LOADING", "NORMAL", "KICKING", "KICKED"}]
    /\ played \subseteq Logins /\ broken \subseteq Logins
    /\ conns \in [Conns -> {"open", "bound", "closed"}]
    /\ players \in [Gates -> [login : Logins, conn : Conns \cup {Nil},
                              disconnect_ver : Conns \cup {Nil}] \cup {NoPlayer}]
    /\ timers \subseteq Conns \X Logins

\* confirm_login and the gateway's kick carry a playerid and no version.  They hit the
\* session they were sent for all the same, whatever logins and kicks are under way.
OwnSession ==
    /\ \A k \in kicks : players[GateOf[k]].login \in {k, Nil}
    /\ \A c \in Logins : lp[c] \in {"created", "yes", "no"} => mgr = Entry("LOGIN", c)

\* An agent that has played has saved everything before the next one loads, unless its
\* kick raised an error: agentmgr ignores that one, and such an agent works no more.
LoadsAfterSave ==
    \A c, d \in Logins : c # d /\ d \in played /\ agent[d] # "KICKED"
        => agent[c] \notin {"LOADING", "NORMAL"} \/ (d \in broken /\ agent[d] = "KICKING")

\* A connection with a playerid is the connection of the gateplayer, and of no other:
\* disconnect and process_msg index players without a test.
BoundIsConnected ==
    \A c \in Conns : conns[c] = "bound" <=> players[GateOf[c]].conn = c

\* A player agentmgr calls online has a working agent, and a gateplayer that leads to it.
OnlineIsReachable ==
    mgr.status = "GAME" => /\ agent[mgr.login] = "NORMAL"
                           /\ players[GateOf[mgr.login]].login = mgr.login

\* Neither a failed creation nor a kick leaves the player locked out: LOGIN and LOGOUT,
\* which refuse every login, do not last.
NotLockedOut == mgr.status \in {"LOGIN", "LOGOUT"} ~> mgr.status \in {"NONE", "GAME"}

\* A player who does not come back is logged out, however often it broke and reconnected.
NoGhost == \A g \in Gates :
    players[g] # NoPlayer /\ players[g].conn = Nil
        ~> players[g] = NoPlayer \/ players[g].conn # Nil
=============================================================================
