------------------------ MODULE BattleGatewayProofs ------------------------
(***************************************************************************)
(* Proofs about the battle sessions, for any number of players, sessions   *)
(* and waiting messages, and about KCP, which the sessions talk over, for  *)
(* any messages, windows and segments on their way.                        *)
(***************************************************************************)
EXTENDS BattleGateway, Kcp, FiniteSetTheorems, SequenceTheorems, WellFoundedInduction, TLAPS

States == {"none", "WAIT_AUTH", "WAIT_READY", "ACTIVE", "RECONNECT_WAIT", "CLOSED"}
RoomMessage == [up : BOOLEAN, re : BOOLEAN]
RoomAnswer == [ok : BOOLEAN, re : BOOLEAN]

\* The types of what the tables of the gateway and the seats are.
TypeOK ==
    /\ sessions \subseteq Convs
    /\ players \in [Players -> Convs \cup {0}]
    /\ owner \in [Convs -> SUBSET Players]
    /\ state \in [Convs -> States]
    /\ has_joined \in [Convs -> BOOLEAN]
    /\ seat \in [Convs -> {"in", "leaving", "out"}]
    /\ ready \in [Convs -> BOOLEAN]
    /\ roomQ \in [Convs -> Seq(RoomMessage)]
    /\ answers \in [Convs -> Seq(RoomAnswer)]

\* The sessions are allocated one after the other.
Allocated == \E n \in 0..Cardinality(Convs) : \A c \in Convs : state[c] # "none" <=> c <= n

\* The session of a player is a session, and of nobody else.
Owners == \A p \in Players : players[p] # 0 =>
              owner[players[p]] = {p} /\ state[players[p]] # "none"

\* Nothing is known of a session, or is on its way to it, that is not allocated.
Fresh(c) == state[c] = "none" => /\ seat[c] = "out" /\ ~ready[c] /\ owner[c] = {}
                                 /\ roomQ[c] = <<>> /\ answers[c] = <<>>

\* Who is refused, or loses its session, has no seat any more.
Refused(c) == /\ c \in frees => seat[c] = "out" /\ state[c] # "none"
              /\ \A i \in DOMAIN answers[c] : ~answers[c][i].ok => seat[c] # "in"

Inv == /\ TypeOK /\ Allocated /\ Owners
       /\ \A c \in Convs : Fresh(c) /\ Refused(c)
       /\ OneSession /\ ReadyAgrees
-----------------------------------------------------------------------------
LEMMA ConvsAreNumbers ==
    /\ Cardinality(Convs) \in Nat
    /\ \A c \in Convs : c \in Nat \ {0}
BY GatewayAssumption, FS_CardinalityType

LEMMA Concatenation ==
    ASSUME NEW T, NEW a \in Seq(T), NEW b \in Seq(T), NEW j \in DOMAIN (a \o b)
    PROVE  \/ j \in DOMAIN a /\ (a \o b)[j] = a[j]
           \/ j - Len(a) \in DOMAIN b /\ (a \o b)[j] = b[j - Len(a)]
OBVIOUS

LEMMA AppendFacts ==
    ASSUME NEW T, NEW s \in Seq(T), NEW e \in T
    PROVE  /\ Append(s, e) \in Seq(T) /\ Append(s, e) # <<>>
           /\ Append(s, e)[Len(Append(s, e))] = e
           /\ \A j \in DOMAIN Append(s, e) :
                  \/ Append(s, e)[j] = e
                  \/ j \in DOMAIN s /\ Append(s, e)[j] = s[j]
OBVIOUS

LEMMA TailLast ==
    ASSUME NEW T, NEW s \in Seq(T), s # <<>>
    PROVE  IF Tail(s) = <<>> THEN s[Len(s)] = Head(s)
                             ELSE Tail(s)[Len(Tail(s))] = s[Len(s)]
<1>1. CASE Len(s) = 1
  <2>1. Tail(s) \in Seq(T) /\ Len(Tail(s)) = 0 BY <1>1
  <2>2. Tail(s) = <<>> BY <2>1, EmptySeq
  <2> QED BY <1>1, <2>2
<1>2. CASE Len(s) > 1
  <2>1. Len(Tail(s)) = Len(s) - 1 /\ Len(Tail(s)) \in 1..(Len(s) - 1) BY <1>2
  <2>2. Tail(s) # <<>>
    <3>1. Len(Tail(s)) # 0 BY <1>2, <2>1
    <3> QED BY <3>1, EmptySeq, Zenon
  <2>3. \A j \in 1..Len(Tail(s)) : Tail(s)[j] = s[j + 1] BY <1>2
  <2> QED BY <1>2, <2>1, <2>2, <2>3
<1>3. Len(s) \in Nat \ {0} BY EmptySeq
<1> QED BY <1>1, <1>2, <1>3

\* An element that is taken out of a sequence leaves the others.
LEMMA RemoveAtRange ==
    ASSUME NEW T, NEW s \in Seq(T), NEW i \in DOMAIN s
    PROVE  /\ RemoveAt(s, i) \in Seq(T)
           /\ \A j \in DOMAIN RemoveAt(s, i) : \E k \in DOMAIN s : RemoveAt(s, i)[j] = s[k]
<1>1. /\ SubSeq(s, 1, i - 1) \in Seq(T)
      /\ SubSeq(s, i + 1, Len(s)) \in Seq(T)
  OBVIOUS
<1>2. ASSUME NEW k \in DOMAIN SubSeq(s, 1, i - 1)
      PROVE  k \in DOMAIN s /\ SubSeq(s, 1, i - 1)[k] = s[k]
  OBVIOUS
<1>3. ASSUME NEW k \in DOMAIN SubSeq(s, i + 1, Len(s))
      PROVE  k + i \in DOMAIN s /\ SubSeq(s, i + 1, Len(s))[k] = s[k + i]
  OBVIOUS
<1>4. PICK a \in Seq(T), b \in Seq(T) :
          /\ a = SubSeq(s, 1, i - 1) /\ b = SubSeq(s, i + 1, Len(s))
          /\ RemoveAt(s, i) = a \o b
  BY <1>1 DEF RemoveAt
<1>5. ASSUME NEW j \in DOMAIN (a \o b) PROVE \E k \in DOMAIN s : (a \o b)[j] = s[k]
  <2>1. CASE j \in DOMAIN a /\ (a \o b)[j] = a[j] BY <1>2, <1>4, <2>1
  <2>2. CASE j - Len(a) \in DOMAIN b /\ (a \o b)[j] = b[j - Len(a)] BY <1>3, <1>4, <2>2
  <2> QED BY <2>1, <2>2, Concatenation
<1>6. a \o b \in Seq(T) BY <1>4
<1> QED BY <1>4, <1>5, <1>6

\* What holds of the tables when the sessions in cs are freed.
LEMMA FreeSession ==
    ASSUME Inv, NEW cs \in SUBSET Convs, free_session(cs),
           \A c \in cs : state[c] # "none"
    PROVE  /\ TypeOK!1' /\ TypeOK!2' /\ TypeOK!4'
           /\ owner' = owner /\ has_joined' = has_joined
           /\ Allocated' /\ Owners' /\ OneSession'
           /\ \A c \in Convs : state'[c] = IF c \in cs THEN "CLOSED" ELSE state[c]
<1>1. /\ sessions' = sessions \ cs
      /\ players' = [p \in Players |-> IF players[p] \in cs THEN 0 ELSE players[p]]
      /\ \A c \in Convs : state'[c] = IF c \in cs THEN "CLOSED" ELSE state[c]
      /\ owner' = owner /\ has_joined' = has_joined
      /\ state' \in [Convs -> States]
  BY DEF free_session, Inv, TypeOK, States
<1>2. players' \in [Players -> Convs \cup {0}] BY <1>1 DEF Inv, TypeOK
<1>3. Allocated'
  <2>1. \A c \in Convs : state'[c] # "none" <=> state[c] # "none" BY <1>1
  <2>2. PICK n \in 0..Cardinality(Convs) : \A c \in Convs : state[c] # "none" <=> c <= n
    BY DEF Inv, Allocated
  <2> QED BY <2>1, <2>2 DEF Allocated
<1>4. Owners'
  BY <1>1, <1>2 DEF Inv, Owners, TypeOK
<1>5. OneSession'
  <2> SUFFICES ASSUME NEW c \in Convs
               PROVE  /\ c \in sessions' <=> state'[c] \notin {"none", "CLOSED"}
                      /\ \A p \in owner'[c] : c \in sessions' <=> players'[p] = c
    BY DEF OneSession
  <2>1. c \in sessions' <=> state'[c] \notin {"none", "CLOSED"}
    BY <1>1 DEF Inv, OneSession
  <2>2. 0 \notin Convs BY ConvsAreNumbers
  <2>3. ASSUME NEW p \in owner'[c] PROVE c \in sessions' <=> players'[p] = c
    <3>1. p \in owner[c] /\ p \in Players BY <1>1 DEF Inv, TypeOK
    <3>2. c \in sessions <=> players[p] = c BY <3>1 DEF Inv, OneSession
    <3> QED BY <1>1, <2>2, <3>1, <3>2
  <2> QED BY <2>1, <2>3
<1> QED BY <1>1, <1>2, <1>3, <1>4, <1>5 DEF Inv, TypeOK

\* Sessions, seats and queues that did not change keep what holds of them.
LEMMA SameStates ==
    ASSUME Inv, \A c \in Convs : state'[c] # "none" <=> state[c] # "none"
    PROVE  Allocated'
<1>1. PICK n \in 0..Cardinality(Convs) : \A c \in Convs : state[c] # "none" <=> c <= n
  BY DEF Inv, Allocated
<1> QED BY <1>1 DEF Allocated

LEMMA AllocStep ==
    ASSUME Inv, NEW p \in Players, Alloc(p)
    PROVE  Inv'
<1>1. PICK n \in 0..Cardinality(Convs) : \A d \in Convs : state[d] # "none" <=> d <= n
  BY DEF Inv, Allocated
<1>2. {d \in Convs : state[d] # "none"} = 1..n
  BY <1>1, GatewayAssumption, ConvsAreNumbers
<1>3. Cardinality({d \in Convs : state[d] # "none"}) = n
  <2>1. n \in Nat BY ConvsAreNumbers
  <2>2. Cardinality(1..n) = n BY <2>1, FS_Interval
  <2> QED BY <1>2, <2>2
<1>4. PICK c \in Convs :
          /\ c = n + 1
          /\ \A d \in Convs : p \in owner[d] => seat[d] # "in"
          /\ sessions' = (sessions \ {players[p]}) \cup {c}
          /\ players' = [players EXCEPT ![p] = c]
          /\ owner' = [owner EXCEPT ![c] = {p}]
          /\ state' = [d \in Convs |-> CASE d = c -> "WAIT_AUTH"
                                         [] d = players[p] -> "CLOSED"
                                         [] OTHER -> state[d]]
          /\ seat' = [seat EXCEPT ![c] = "in"]
          /\ UNCHANGED <<has_joined, ready, roomQ, answers, frees>>
  BY <1>3 DEF Alloc, chanVars
<1>5. state[c] = "none" BY <1>1, <1>4, ConvsAreNumbers
<1>6. c # players[p] /\ \A q \in Players : players[q] # c
  BY <1>5, ConvsAreNumbers DEF Inv, Owners
<1>7. /\ state' \in [Convs -> States] /\ state'[c] = "WAIT_AUTH"
      /\ \A d \in Convs : d # c => state'[d] = IF d = players[p] THEN "CLOSED" ELSE state[d]
  BY <1>4, <1>6 DEF Inv, TypeOK, States
<1>8. /\ players' \in [Players -> Convs \cup {0}] /\ players'[p] = c
      /\ \A q \in Players : q # p => players'[q] = players[q]
      /\ owner' \in [Convs -> SUBSET Players] /\ owner'[c] = {p}
      /\ \A d \in Convs : d # c => owner'[d] = owner[d]
      /\ seat' \in [Convs -> {"in", "leaving", "out"}] /\ seat'[c] = "in"
      /\ \A d \in Convs : d # c => seat'[d] = seat[d]
  BY <1>4 DEF Inv, TypeOK
<1>9. TypeOK' BY <1>4, <1>7, <1>8 DEF Inv, TypeOK
<1>10. players[p] # 0 =>
           players[p] \in Convs /\ owner[players[p]] = {p} /\ state[players[p]] # "none"
  BY DEF Inv, TypeOK, Owners
<1>11. Allocated'
  <2>1. \A d \in Convs : state'[d] # "none" <=> d <= n + 1
    BY <1>1, <1>4, <1>7, <1>10, ConvsAreNumbers
  <2>2. n + 1 \in 0..Cardinality(Convs) BY <1>4, GatewayAssumption, ConvsAreNumbers
  <2> QED BY <2>1, <2>2 DEF Allocated
<1>12. Owners'
  <2> SUFFICES ASSUME NEW q \in Players, players'[q] # 0
               PROVE  owner'[players'[q]] = {q} /\ state'[players'[q]] # "none"
    BY DEF Owners
  <2>1. CASE q = p BY <1>7, <1>8, <2>1
  <2>2. CASE q # p
    <3>1. /\ players'[q] = players[q] /\ players[q] \in Convs /\ players[q] # c
          /\ owner[players[q]] = {q} /\ state[players[q]] # "none"
      BY <1>6, <1>8, <2>2 DEF Inv, TypeOK, Owners
    <3> QED BY <1>7, <1>8, <3>1
  <2> QED BY <2>1, <2>2
<1>13. OneSession'
  <2> SUFFICES ASSUME NEW d \in Convs
               PROVE  /\ d \in sessions' <=> state'[d] \notin {"none", "CLOSED"}
                      /\ \A q \in owner'[d] : d \in sessions' <=> players'[q] = d
    BY DEF OneSession
  <2>1. CASE d = c BY <1>4, <1>7, <1>8, <2>1
  <2>2. CASE d # c
    <3>1. d \in sessions' <=> d \in sessions /\ d # players[p] BY <1>4, <2>2
    <3>2. d \in sessions <=> state[d] \notin {"none", "CLOSED"} BY DEF Inv, OneSession
    <3>3. ASSUME NEW q \in owner'[d] PROVE d \in sessions' <=> players'[q] = d
      <4>1. q \in owner[d] /\ q \in Players BY <1>8, <2>2 DEF Inv, TypeOK
      <4>2. d \in sessions <=> players[q] = d BY <4>1 DEF Inv, OneSession
      <4>3. CASE q = p BY <1>8, <2>2, <3>1, <4>2, <4>3
      <4>4. CASE q # p
        <5>1. d # players[p] BY <1>10, <4>1, <4>4, ConvsAreNumbers
        <5> QED BY <1>8, <3>1, <4>1, <4>2, <4>4, <5>1
      <4> QED BY <4>3, <4>4
    <3> QED BY <1>7, <2>2, <3>1, <3>2, <3>3
  <2> QED BY <2>1, <2>2
<1>14. \A d \in Convs : Fresh(d)' /\ Refused(d)'
  <2> SUFFICES ASSUME NEW d \in Convs PROVE Fresh(d)' /\ Refused(d)'
    OBVIOUS
  <2>0. Fresh(d) /\ Refused(d) BY DEF Inv
  <2>1. CASE d = c
    <3>1. d \notin frees /\ answers[d] = <<>> BY <1>5, <2>0, <2>1 DEF Fresh, Refused
    <3> QED BY <1>4, <1>7, <2>1, <3>1 DEF Fresh, Refused
  <2>2. CASE d # c
    <3>1. state'[d] = "none" <=> state[d] = "none"
      BY <1>7, <1>10, <2>2, ConvsAreNumbers
    <3> QED BY <1>4, <1>8, <2>0, <2>2, <3>1 DEF Fresh, Refused
  <2> QED BY <2>1, <2>2
<1>15. ReadyAgrees'
  <2> SUFFICES ASSUME NEW d \in Convs, seat'[d] = "in"
               PROVE  LastWord(d)' <=> d \in sessions' /\ state'[d] = "ACTIVE"
    BY DEF ReadyAgrees
  <2>1. CASE d = c
    <3>1. roomQ[d] = <<>> /\ ~ready[d] BY <1>5, <2>1 DEF Inv, Fresh
    <3> QED BY <1>4, <1>7, <2>1, <3>1 DEF LastWord
  <2>2. CASE d # c
    <3>1. seat[d] = "in" /\ p \notin owner[d] BY <1>4, <1>8, <2>2
    <3>2. d # players[p] BY <1>10, <3>1, ConvsAreNumbers
    <3>3. LastWord(d) <=> d \in sessions /\ state[d] = "ACTIVE"
      BY <3>1 DEF Inv, ReadyAgrees
    <3> QED BY <1>4, <1>7, <2>2, <3>2, <3>3 DEF LastWord
  <2> QED BY <2>1, <2>2
<1> QED BY <1>9, <1>11, <1>12, <1>13, <1>14, <1>15 DEF Inv

\* A step that frees sessions and puts no message to room.
LEMMA FreeStep ==
    ASSUME Inv, NEW cs \in SUBSET Convs, free_session(cs),
           \A c \in cs : state[c] # "none" /\ (seat[c] = "in" => state[c] # "ACTIVE"),
           UNCHANGED <<roomVars, roomQ>>,
           answers' \in [Convs -> Seq(RoomAnswer)],
           \A c \in Convs : answers[c] = <<>> => answers'[c] = <<>>,
           \A c \in Convs : \A j \in DOMAIN answers'[c] :
               \E k \in DOMAIN answers[c] : answers'[c][j] = answers[c][k],
           frees' \subseteq frees
    PROVE  Inv'
<1>1. /\ TypeOK!1' /\ TypeOK!2' /\ TypeOK!4'
      /\ owner' = owner /\ has_joined' = has_joined
      /\ Allocated' /\ Owners' /\ OneSession'
      /\ \A c \in Convs : state'[c] = IF c \in cs THEN "CLOSED" ELSE state[c]
  BY FreeSession
<1>2. TypeOK' BY <1>1 DEF Inv, TypeOK, roomVars
<1>3. \A c \in Convs : state'[c] = "none" <=> state[c] = "none" BY <1>1
<1>4. ASSUME NEW c \in Convs PROVE Fresh(c)'
  BY <1>1, <1>3 DEF Inv, Fresh, roomVars
<1>5. ASSUME NEW c \in Convs PROVE Refused(c)'
  BY <1>3 DEF Inv, Refused, roomVars
<1>6. ReadyAgrees'
  <2> SUFFICES ASSUME NEW c \in Convs, seat'[c] = "in"
               PROVE  LastWord(c)' <=> c \in sessions' /\ state'[c] = "ACTIVE"
    BY DEF ReadyAgrees
  <2>1. LastWord(c)' <=> LastWord(c) BY DEF LastWord, roomVars
  <2>2. LastWord(c) <=> c \in sessions /\ state[c] = "ACTIVE"
    BY DEF Inv, ReadyAgrees, roomVars
  <2>3. c \in sessions' <=> c \in sessions /\ c \notin cs BY DEF free_session
  <2>4. c \in cs => state[c] # "ACTIVE" BY DEF roomVars
  <2> QED BY <1>1, <2>1, <2>2, <2>3, <2>4
<1> QED BY <1>1, <1>2, <1>4, <1>5, <1>6 DEF Inv

\* A step that changes the state of one session that stays, and tells room or not.
LEMMA SessionStep ==
    ASSUME Inv, NEW c \in sessions, NEW st \in States \ {"none", "CLOSED"},
           state' = [state EXCEPT ![c] = st],
           has_joined' \in [Convs -> BOOLEAN],
           UNCHANGED <<sessions, players, owner, roomVars, answers, frees>>,
           \/ state[c] # "ACTIVE" /\ st # "ACTIVE" /\ UNCHANGED roomQ
           \/ \E m \in RoomMessage : /\ roomQ' = [roomQ EXCEPT ![c] = Append(@, m)]
                                     /\ m.up <=> st = "ACTIVE"
    PROVE  Inv'
<1>1. /\ c \in Convs /\ state[c] \notin {"none", "CLOSED"} BY DEF Inv, TypeOK, OneSession
<1>2. /\ state'[c] = st /\ \A d \in Convs : d # c => state'[d] = state[d]
  BY <1>1 DEF Inv, TypeOK
<1>3. roomQ' \in [Convs -> Seq(RoomMessage)] /\ \A d \in Convs : d # c => roomQ'[d] = roomQ[d]
  <2>1. CASE UNCHANGED roomQ BY <2>1 DEF Inv, TypeOK
  <2>2. CASE ~UNCHANGED roomQ
    <3>1. PICK m \in RoomMessage : roomQ' = [roomQ EXCEPT ![c] = Append(@, m)] BY <2>2
    <3>2. Append(roomQ[c], m) \in Seq(RoomMessage) BY <1>1 DEF Inv, TypeOK
    <3> QED BY <1>1, <3>1, <3>2 DEF Inv, TypeOK
  <2> QED BY <2>1, <2>2
<1>4. TypeOK' BY <1>1, <1>3 DEF Inv, TypeOK, States, roomVars
<1>5. Allocated' BY <1>1, <1>2, SameStates
<1>6. Owners' BY <1>1, <1>2 DEF Inv, Owners, TypeOK
<1>7. OneSession' BY <1>1, <1>2 DEF Inv, OneSession
<1>8. ASSUME NEW d \in Convs PROVE Fresh(d)' /\ Refused(d)'
  BY <1>1, <1>2, <1>3 DEF Inv, Fresh, Refused, roomVars
<1>9. ReadyAgrees'
  <2> SUFFICES ASSUME NEW d \in Convs, seat'[d] = "in"
               PROVE  LastWord(d)' <=> d \in sessions' /\ state'[d] = "ACTIVE"
    BY DEF ReadyAgrees
  <2>1. LastWord(d) <=> d \in sessions /\ state[d] = "ACTIVE"
    BY DEF Inv, ReadyAgrees, roomVars
  <2>2. CASE d # c
    BY <1>1, <1>2, <1>3, <2>1, <2>2 DEF LastWord, roomVars
  <2>3. CASE d = c /\ UNCHANGED roomQ /\ state[c] # "ACTIVE" /\ st # "ACTIVE"
    BY <1>1, <1>2, <2>1, <2>3 DEF LastWord, roomVars
  <2>4. CASE d = c /\ ~(UNCHANGED roomQ /\ state[c] # "ACTIVE" /\ st # "ACTIVE")
    <3>1. PICK m \in RoomMessage : /\ roomQ' = [roomQ EXCEPT ![c] = Append(@, m)]
                                   /\ m.up <=> st = "ACTIVE"
      BY <2>4
    <3>2. roomQ'[c] = Append(roomQ[c], m) /\ roomQ[c] \in Seq(RoomMessage)
      BY <1>1, <3>1 DEF Inv, TypeOK
    <3>3. roomQ'[c] # <<>> /\ roomQ'[c][Len(roomQ'[c])] = m
      BY <3>2, AppendFacts
    <3>4. LastWord(c)' = m.up BY <3>3 DEF LastWord, Last
    <3> QED BY <1>2, <2>4, <3>1, <3>4
  <2> QED BY <2>2, <2>3, <2>4
<1> QED BY <1>4, <1>5, <1>6, <1>7, <1>8, <1>9 DEF Inv

\* A step of the room or the scene: no session changes.
LEMMA SeatStep ==
    ASSUME Inv, UNCHANGED sesVars,
           seat' \in [Convs -> {"in", "leaving", "out"}], ready' \in [Convs -> BOOLEAN],
           roomQ' \in [Convs -> Seq(RoomMessage)], answers' \in [Convs -> Seq(RoomAnswer)],
           \A c \in Convs : (Fresh(c) => Fresh(c)') /\ (Refused(c) => Refused(c)'),
           \A c \in Convs : seat'[c] = "in" => seat[c] = "in" /\ (LastWord(c)' <=> LastWord(c))
    PROVE  Inv'
<1>1. TypeOK' BY DEF Inv, TypeOK, sesVars
<1>2. Allocated' BY SameStates DEF sesVars
<1>3. Owners' /\ OneSession' BY DEF Inv, Owners, OneSession, sesVars
<1>4. ReadyAgrees' BY DEF Inv, ReadyAgrees, sesVars
<1> QED BY <1>1, <1>2, <1>3, <1>4 DEF Inv

LEMMA StepInv == Inv /\ [Next]_vars => Inv'
<1> SUFFICES ASSUME Inv, [Next]_vars PROVE Inv'
  OBVIOUS
<1> USE DEF chanVars, sceneVars
<1>1. ASSUME NEW p \in Players, Alloc(p) PROVE Inv' BY <1>1, AllocStep
<1>2. ASSUME NEW c \in Convs, Free(c) PROVE Inv'
  <2>1. CASE c \in sessions
    <3>1. state[c] # "none" /\ seat[c] # "in" BY <1>2 DEF Free, Inv, Refused
    <3>2. /\ free_session({c}) /\ UNCHANGED <<roomVars, roomQ>> /\ answers' = answers
          /\ frees' \subseteq frees
      BY <1>2, <2>1 DEF Free
    <3>3. answers' \in [Convs -> Seq(RoomAnswer)] BY <3>2 DEF Inv, TypeOK
    <3> QED BY <3>1, <3>2, <3>3, FreeStep
  <2>2. CASE c \notin sessions
    <3>1. UNCHANGED <<sesVars, seat, ready, roomQ, answers>> /\ frees' \subseteq frees
      BY <1>2, <2>2 DEF Free, roomVars
    <3> QED BY <3>1, SeatStep DEF Inv, TypeOK, Fresh, Refused, LastWord, sesVars
  <2> QED BY <2>1, <2>2
<1>3. ASSUME NEW c \in Convs, NEW i \in 1..MaxMsgs[c], Answered(c, i) PROVE Inv'
  <2>1. /\ i \in DOMAIN answers[c] /\ answers[c] \in Seq(RoomAnswer)
        /\ answers' = [answers EXCEPT ![c] = RemoveAt(@, i)]
        /\ IF answers[c][i].ok THEN UNCHANGED sesVars ELSE free_session({c})
        /\ UNCHANGED <<roomVars, roomQ, frees>>
    BY <1>3 DEF Answered, Inv, TypeOK
  <2>2. /\ answers'[c] \in Seq(RoomAnswer)
        /\ \A j \in DOMAIN answers'[c] : \E k \in DOMAIN answers[c] :
               answers'[c][j] = answers[c][k]
    BY <2>1, RemoveAtRange DEF Inv, TypeOK
  <2>3. /\ answers' \in [Convs -> Seq(RoomAnswer)]
        /\ \A d \in Convs : d # c => answers'[d] = answers[d]
    BY <2>1, <2>2 DEF Inv, TypeOK
  <2>4. answers[c] # <<>> /\ state[c] # "none" BY <2>1 DEF Inv, Fresh
  <2>5. \A d \in Convs : \A j \in DOMAIN answers'[d] :
            \E k \in DOMAIN answers[d] : answers'[d][j] = answers[d][k]
    BY <2>2, <2>3
  <2>6. CASE answers[c][i].ok
    <3>1. \A d \in Convs : /\ Fresh(d) => Fresh(d)'
                           /\ Refused(d) => Refused(d)'
                           /\ LastWord(d)' <=> LastWord(d)
      BY <2>1, <2>3, <2>4, <2>5, <2>6 DEF Fresh, Refused, LastWord, sesVars, roomVars
    <3>2. UNCHANGED <<sesVars, seat, ready, roomQ>> BY <2>1, <2>6 DEF roomVars
    <3> QED BY <2>3, <3>1, <3>2, SeatStep DEF Inv, TypeOK
  <2>7. CASE ~answers[c][i].ok
    <3>1. seat[c] # "in" BY <2>1, <2>7 DEF Inv, Refused
    <3>2. /\ free_session({c}) /\ UNCHANGED <<roomVars, roomQ>> /\ frees' \subseteq frees
          /\ \A d \in Convs : answers[d] = <<>> => answers'[d] = <<>>
      BY <2>1, <2>3, <2>4, <2>7
    <3> QED BY <2>3, <2>4, <2>5, <3>1, <3>2, FreeStep
  <2> QED BY <2>6, <2>7
<1>4. ASSUME NEW c \in Convs, Expire(c) PROVE Inv'
  <2>1. /\ free_session({c}) /\ UNCHANGED <<roomVars, roomQ>> /\ answers' = answers
        /\ frees' \subseteq frees /\ state[c] \notin {"none", "ACTIVE"}
    BY <1>4 DEF Expire, Shaking, Reconnecting
  <2>2. answers' \in [Convs -> Seq(RoomAnswer)] BY <2>1 DEF Inv, TypeOK
  <2> QED BY <2>1, <2>2, FreeStep
<1>5. ASSUME NEW c \in Convs, Lose(c) PROVE Inv'
  <2>1. [up |-> FALSE, re |-> FALSE] \in RoomMessage BY DEF RoomMessage
  <2> QED BY <1>5, <2>1, SessionStep DEF Lose, States, Inv, TypeOK
<1>6. ASSUME NEW c \in Convs, Auth(c) PROVE Inv'
  BY <1>6, SessionStep DEF Auth, States, Inv, TypeOK
<1>7. ASSUME NEW c \in Convs, Ack(c) PROVE Inv'
  <2>1. [up |-> TRUE, re |-> has_joined[c]] \in RoomMessage BY DEF RoomMessage, Inv, TypeOK
  <2> QED BY <1>7, <2>1, SessionStep DEF Ack, States, Inv, TypeOK
<1>8. ASSUME NEW c \in Convs, NEW accepted \in BOOLEAN, NEW starts \in BOOLEAN,
             BattleReady(c, accepted, starts)
      PROVE  Inv'
  <2>1. /\ roomQ[c] # <<>> /\ roomQ[c] \in Seq(RoomMessage)
        /\ roomQ' = [roomQ EXCEPT ![c] = Tail(@)]
        /\ accepted = FALSE => seat[c] # "in"
        /\ ready' = [ready EXCEPT ![c] = IF accepted THEN Head(roomQ[c]).up ELSE @]
        /\ answers' = IF Head(roomQ[c]).up
                      THEN [answers EXCEPT ![c] =
                               Append(@, [ok |-> accepted, re |-> Head(roomQ[c]).re])]
                      ELSE answers
        /\ UNCHANGED <<sesVars, seat, frees>>
    BY <1>8 DEF BattleReady, Inv, TypeOK
  <2>2. Head(roomQ[c]) \in RoomMessage /\ Tail(roomQ[c]) \in Seq(RoomMessage) BY <2>1
  <2>3. roomQ' \in [Convs -> Seq(RoomMessage)] /\ ready' \in [Convs -> BOOLEAN]
    BY <2>1, <2>2 DEF Inv, TypeOK, RoomMessage
  <2>4. \/ answers' = answers
        \/ \E a \in RoomAnswer : /\ a.ok = accepted
                                 /\ answers' = [answers EXCEPT ![c] = Append(@, a)]
    BY <2>1, <2>2 DEF RoomMessage, RoomAnswer
  <2>5. /\ answers' \in [Convs -> Seq(RoomAnswer)]
        /\ \A d \in Convs : d # c => answers'[d] = answers[d]
        /\ \A j \in DOMAIN answers'[c] :
               \/ answers'[c][j].ok = accepted
               \/ j \in DOMAIN answers[c] /\ answers'[c][j] = answers[c][j]
    <3>1. CASE answers' = answers BY <3>1 DEF Inv, TypeOK
    <3>2. CASE answers' # answers
      <4>1. PICK a \in RoomAnswer : /\ a.ok = accepted
                                    /\ answers' = [answers EXCEPT ![c] = Append(@, a)]
        BY <2>4, <3>2
      <4>2. answers[c] \in Seq(RoomAnswer) /\ answers'[c] = Append(answers[c], a)
        BY <4>1 DEF Inv, TypeOK
      <4>3. /\ Append(answers[c], a) \in Seq(RoomAnswer)
            /\ \A j \in DOMAIN Append(answers[c], a) :
                   \/ Append(answers[c], a)[j] = a
                   \/ j \in DOMAIN answers[c] /\ Append(answers[c], a)[j] = answers[c][j]
        BY <4>2, AppendFacts
      <4> QED BY <4>1, <4>2, <4>3 DEF Inv, TypeOK
    <3> QED BY <3>1, <3>2
  <2>6. state[c] # "none" BY <2>1 DEF Inv, Fresh
  <2>7. ASSUME NEW d \in Convs
        PROVE  /\ Fresh(d) => Fresh(d)'
               /\ Refused(d) => Refused(d)'
    <3>1. CASE d = c BY <2>1, <2>5, <2>6, <3>1 DEF Fresh, Refused, sesVars
    <3>2. CASE d # c
      <4>1. ready'[d] = ready[d] /\ roomQ'[d] = roomQ[d] BY <2>1, <3>2 DEF Inv, TypeOK
      <4> QED BY <2>1, <2>5, <3>2, <4>1 DEF Fresh, Refused, sesVars
    <3> QED BY <3>1, <3>2
  <2>8. ASSUME NEW d \in Convs, seat'[d] = "in" PROVE LastWord(d)' <=> LastWord(d)
    <3>1. CASE d # c BY <2>1, <3>1 DEF LastWord, Inv, TypeOK
    <3>2. CASE d = c
      <4>1. accepted BY <2>1, <2>8, <3>2
      <4>2. ready'[c] = Head(roomQ[c]).up /\ roomQ'[c] = Tail(roomQ[c])
        BY <2>1, <4>1 DEF Inv, TypeOK
      <4>3. IF Tail(roomQ[c]) = <<>> THEN Last(roomQ[c]) = Head(roomQ[c])
            ELSE Last(Tail(roomQ[c])) = Last(roomQ[c])
        BY <2>1, TailLast DEF Last
      <4> QED BY <2>1, <3>2, <4>2, <4>3 DEF LastWord
    <3> QED BY <3>1, <3>2
  <2> QED BY <2>1, <2>3, <2>5, <2>7, <2>8, SeatStep DEF Inv, TypeOK
<1>9. ASSUME NEW c \in Convs, NEW i \in 1..MaxMsgs[c], StartRefused(c, i) PROVE Inv'
  <2>1. /\ i \in DOMAIN answers[c] /\ seat[c] # "in"
        /\ UNCHANGED <<sesVars, seat, ready, roomQ, frees>>
    BY <1>9 DEF StartRefused, roomVars
  <2>2. answers[c] \in Seq(RoomAnswer) /\ answers[c][i] \in RoomAnswer
    BY <2>1 DEF Inv, TypeOK
  <2>3. PICK a \in RoomAnswer : a = [answers[c][i] EXCEPT !.ok = FALSE]
    BY <2>2 DEF RoomAnswer
  <2>4. answers' = [answers EXCEPT ![c] = [answers[c] EXCEPT ![i] = a]]
    BY <1>9, <2>3 DEF StartRefused
  <2>5. [answers[c] EXCEPT ![i] = a] \in Seq(RoomAnswer) BY <2>1, <2>2
  <2>6. /\ answers' \in [Convs -> Seq(RoomAnswer)]
        /\ \A d \in Convs : d # c => answers'[d] = answers[d]
    BY <2>4, <2>5 DEF Inv, TypeOK
  <2>7. state[c] # "none" BY <2>1 DEF Inv, Fresh
  <2>8. \A d \in Convs : /\ Fresh(d) => Fresh(d)'
                         /\ Refused(d) => Refused(d)'
                         /\ LastWord(d)' <=> LastWord(d)
    BY <2>1, <2>6, <2>7 DEF Fresh, Refused, LastWord, sesVars
  <2> QED BY <2>1, <2>6, <2>8, SeatStep DEF Inv, TypeOK
<1>10. ASSUME NEW c \in Convs, Leave(c) \/ Noticed(c) PROVE Inv'
  <2>1. UNCHANGED <<sesVars, ready, roomQ, answers, frees>> BY <1>10 DEF Leave, Noticed
  <2>2. /\ seat' \in [Convs -> {"in", "leaving", "out"}]
        /\ \A d \in Convs : \/ seat'[d] = seat[d]
                            \/ seat[d] = "in" /\ seat'[d] = "leaving"
    <3>1. CASE Leave(c) BY <3>1 DEF Leave, Inv, TypeOK
    <3>2. CASE Noticed(c) BY <3>2 DEF Noticed, Inv, TypeOK
    <3> QED BY <1>10, <3>1, <3>2
  <2>3. \A d \in Convs : /\ Fresh(d) => Fresh(d)'
                         /\ Refused(d) => Refused(d)'
                         /\ LastWord(d)' <=> LastWord(d)
    BY <2>1, <2>2 DEF Fresh, Refused, LastWord, sesVars
  <2> QED BY <2>1, <2>2, <2>3, SeatStep DEF Inv, TypeOK
<1>11. ASSUME NEW c \in Convs, FreeSeat(c) PROVE Inv'
  <2>1. /\ seat[c] = "leaving" /\ seat' = [seat EXCEPT ![c] = "out"]
        /\ ready' = [ready EXCEPT ![c] = FALSE] /\ frees' = frees \cup {c}
        /\ UNCHANGED <<sesVars, roomQ, answers>>
    BY <1>11 DEF FreeSeat
  <2>2. /\ seat' \in [Convs -> {"in", "leaving", "out"}] /\ ready' \in [Convs -> BOOLEAN]
        /\ seat'[c] = "out" /\ ~ready'[c]
        /\ \A d \in Convs : d # c => seat'[d] = seat[d] /\ ready'[d] = ready[d]
    BY <2>1 DEF Inv, TypeOK
  <2>3. state[c] # "none" BY <2>1 DEF Inv, Fresh
  <2>4. \A d \in Convs : /\ Fresh(d) => Fresh(d)'
                         /\ Refused(d) => Refused(d)'
                         /\ seat'[d] = "in" => seat[d] = "in" /\ (LastWord(d)' <=> LastWord(d))
    BY <2>1, <2>2, <2>3 DEF Fresh, Refused, LastWord, sesVars
  <2> QED BY <2>1, <2>2, <2>4, SeatStep DEF Inv, TypeOK
<1>12. ASSUME UNCHANGED <<sesVars, seat, ready, roomQ, answers, frees>> PROVE Inv'
  BY <1>12, SeatStep DEF Inv, TypeOK, Fresh, Refused, LastWord, sesVars
<1>13. ASSUME NEW c \in Convs,
              \/ Forward(c) \/ SceneStep(c) \/ Enter(c) \/ ClientGone(c) \/ StartRunning(c)
       PROVE  Inv'
  <2>1. UNCHANGED <<sesVars, seat, ready, roomQ, answers, frees>>
    BY <1>13 DEF Forward, SceneStep, Enter, ClientGone, StartRunning, roomVars
  <2> QED BY <1>12, <2>1
<1>14. CASE UNCHANGED vars BY <1>12, <1>14 DEF vars, roomVars
<1> QED
  BY <1>1, <1>2, <1>3, <1>4, <1>5, <1>6, <1>7, <1>8, <1>9, <1>10, <1>11, <1>13, <1>14
     DEF Next, Gateway, Others, Client, Game, Room, Answer

LEMMA InitInv == Init => Inv
<1> SUFFICES ASSUME Init PROVE Inv
  OBVIOUS
<1>1. TypeOK BY DEF Init, TypeOK, States
<1>2. Allocated
  <2>1. 0 \in 0..Cardinality(Convs) /\ \A c \in Convs : ~(c <= 0) BY ConvsAreNumbers
  <2> QED BY <2>1 DEF Init, Allocated
<1>3. Owners /\ OneSession BY DEF Init, Owners, OneSession
<1>4. \A c \in Convs : Fresh(c) /\ Refused(c) BY DEF Init, Fresh, Refused
<1>5. ReadyAgrees BY DEF Init, ReadyAgrees
<1> QED BY <1>1, <1>2, <1>3, <1>4, <1>5 DEF Inv

LEMMA Invariance == Spec => []Inv
BY InitInv, StepInv, PTL DEF Spec

\* The tables of the gateway and the seats of the rooms keep their types.
THEOREM TypeCorrect == Spec => []TypeOK
BY Invariance, PTL DEF Inv

\* A player has one session and the tables agree on it, whatever old answers and calls of
\* free arrive late, for any number of players and sessions.
THEOREM OneSessionEach == Spec => []OneSession
BY Invariance, PTL DEF Inv

\* Room and gateway come to agree on who is ready, whatever times out or is refused while
\* messages are on their way.
THEOREM ReadyStaysAgreed == Spec => []ReadyAgrees
BY Invariance, PTL DEF Inv
-----------------------------------------------------------------------------
(* KCP, which carries the messages of a session: it implements Stream.     *)

\* The number of fragments in the first j messages of s.
After(s, j) == IF j = 0 THEN 0 ELSE s[j][1] + Len(s[j])

\* The fragments of the messages in s are numbered one after the other.
Ordered(s) ==
    /\ \A j \in 1..Len(s) : /\ Len(s[j]) \in 1..(FragLimit - 1)
                            /\ \A i \in 1..Len(s[j]) : s[j][i] = After(s, j - 1) + i - 1
    /\ \A j, k \in 0..Len(s) : j < k => After(s, j) < After(s, k)

\* f is a fragment of a message in s, and knows how many of it follow.
Part(s, f) == \E j \in 1..Len(s) : /\ After(s, j - 1) <= f.data /\ f.data < After(s, j)
                                   /\ f.frg = After(s, j) - 1 - f.data

\* x carries the fragment that its serial number stands for.
Numbers(s, x) == x.sn = x.data /\ Part(s, x)

\* The fragments in que are those from number base on.
Consecutive(s, que, base) ==
    \A i \in 1..Len(que) : que[i].data = base + i - 1 /\ Part(s, que[i])

SendInv(p) ==
    /\ Ordered(sent[p])
    /\ After(sent[p], Len(sent[p])) = snd_nxt[p] + Len(snd_queue[p])
    /\ Consecutive(sent[p], snd_queue[p], snd_nxt[p])
    /\ \A x \in snd_buf[p] : Numbers(sent[p], x)
    /\ Len(sent[p]) <= Len(Sizes[p])
    /\ snd_nxt[p] + Len(snd_queue[p]) <= (FragLimit - 1) * Len(sent[p])

\* What p has received is a beginning of what s holds, and its queue goes on from there.
RecvInv(p, s) ==
    /\ \A i \in 1..Len(net[p]) : net[p][i].cmd = "PUSH" => Numbers(s, net[p][i])
    /\ \A x \in rcv_buf[p] : Numbers(s, x)
    /\ Len(rcv_queue[p]) <= RcvWnd
    /\ Len(got[p]) <= Len(s)
    /\ rcv_nxt[p] = After(s, Len(got[p])) + Len(rcv_queue[p])
    /\ Consecutive(s, rcv_queue[p], After(s, Len(got[p])))

Frags == [data : Nat, frg : Nat]
Kept == [sn : Nat, data : Nat, frg : Nat]
Segments == [cmd : {"PUSH", "ACK", "WASK", "WINS"}, sn : Nat, data : Nat, frg : Nat,
             wnd : Nat, una : Nat]

KcpTypeOK ==
    /\ snd_queue \in [Peers -> Seq(Frags)]
    /\ snd_buf \in [Peers -> SUBSET Kept] /\ rcv_buf \in [Peers -> SUBSET Kept]
    /\ snd_una \in [Peers -> Nat] /\ snd_nxt \in [Peers -> Nat] /\ rmt_wnd \in [Peers -> Nat]
    /\ rcv_queue \in [Peers -> Seq(Frags)] /\ rcv_nxt \in [Peers -> Nat]
    /\ acklist \in [Peers -> SUBSET Nat]
    /\ tell \in [Peers -> BOOLEAN] /\ probing \in [Peers -> BOOLEAN]
    /\ net \in [Peers -> Seq(Segments)]
    /\ sent \in [Peers -> Seq(Seq(Nat))] /\ got \in [Peers -> Seq(Seq(Nat))]
    /\ \A p \in Peers : IsFiniteSet(snd_buf[p]) /\ IsFiniteSet(acklist[p])

KcpInv == /\ KcpTypeOK
          /\ \A p \in Peers : SendInv(p) /\ RecvInv(p, sent[Other[p]])
-----------------------------------------------------------------------------
\* < on the natural numbers is well-founded, as a relation.
LEMMA LessRelation == \E R : IsWellFoundedOn(R, Nat) /\ \A x, y \in Nat : y < x => <<y, x>> \in R
<1>1. \A x, y \in Nat : y < x => <<y, x>> \in OpToRel(<, Nat)
  BY DEF OpToRel
<1> QED BY <1>1, NatLessThanWellFounded, Zenon

\* A set of natural numbers has a least one.
LEMMA LeastNumber ==
    ASSUME NEW T \in SUBSET Nat, T # {}
    PROVE  \E x \in T : \A y \in T : x <= y
<1>1. PICK R : IsWellFoundedOn(R, Nat) /\ \A x, y \in Nat : y < x => <<y, x>> \in R
  BY LessRelation
<1>2. PICK x \in T : \A y \in T : ~ (<<y, x>> \in R)
  BY <1>1, WFMin
<1>3. \A y \in T : ~ (y < x)
  BY <1>1, <1>2
<1> QED BY <1>3

\* Min of a set of natural numbers is its least one.
LEMMA MinFacts ==
    ASSUME NEW T \in SUBSET Nat, T # {}
    PROVE  Min(T) \in T /\ \A y \in T : Min(T) <= y
BY LeastNumber, Zenon DEF Min

\* What is assumed of the constants.
LEMMA Sizing == /\ FragLimit \in Nat /\ RcvWnd \in Nat /\ SndWnd \in Nat
                /\ \A p \in Peers : /\ Other[p] \in Peers /\ Other[Other[p]] = p
                                    /\ Sizes[p] \in Seq(Nat \ {0})
BY KcpAssumption

\* Where a message begins and ends.
LEMMA AfterFacts ==
    ASSUME NEW s \in Seq(Seq(Nat)), Ordered(s)
    PROVE  /\ \A j \in 0..Len(s) : After(s, j) \in Nat
           /\ \A j \in 1..Len(s) : After(s, j) = After(s, j - 1) + Len(s[j])
<1>1. ASSUME NEW j \in 1..Len(s)
      PROVE  Len(s[j]) \in Nat /\ s[j][1] \in Nat /\ s[j][1] = After(s, j - 1) + 1 - 1
  <2>1. s[j] \in Seq(Nat) /\ Len(s[j]) \in 1..(FragLimit - 1)
    BY DEF Ordered
  <2>2. 1 \in 1..Len(s[j]) /\ s[j][1] \in Nat
    BY <2>1
  <2>3. s[j][1] = After(s, j - 1) + 1 - 1
    BY <2>2 DEF Ordered
  <2> QED BY <2>1, <2>2, <2>3
<1>2. ASSUME NEW j \in 0..Len(s) PROVE After(s, j) \in Nat
  <2>1. CASE j = 0
    BY <2>1 DEF After
  <2>2. CASE j \in 1..Len(s)
    BY <1>1, <2>2 DEF After
  <2> QED BY <2>1, <2>2
<1>3. ASSUME NEW j \in 1..Len(s) PROVE After(s, j) = After(s, j - 1) + Len(s[j])
  <2>1. j - 1 \in 0..Len(s) /\ j # 0
    OBVIOUS
  <2>2. After(s, j - 1) \in Nat
    BY <1>2, <2>1
  <2>3. After(s, j) = s[j][1] + Len(s[j])
    BY <2>1 DEF After
  <2> QED BY <1>1, <2>2, <2>3
<1> QED BY <1>2, <1>3

\* The parts of Ordered.
LEMMA OrderedFacts ==
    ASSUME NEW s \in Seq(Seq(Nat)), Ordered(s)
    PROVE  /\ \A j \in 1..Len(s) : Len(s[j]) \in 1..(FragLimit - 1)
           /\ \A j \in 1..Len(s) : \A i \in 1..Len(s[j]) : s[j][i] = After(s, j - 1) + i - 1
           /\ \A j, k \in 0..Len(s) : j < k => After(s, j) < After(s, k)
BY Zenon DEF Ordered

\* Another message of n fragments.
LEMMA AnotherMessage ==
    ASSUME NEW s \in Seq(Seq(Nat)), Ordered(s), NEW n \in 1..(FragLimit - 1), NEW m \in Seq(Nat),
           Len(m) = n, \A i \in 1..n : m[i] = After(s, Len(s)) + i - 1
    PROVE  /\ Ordered(Append(s, m))
           /\ \A j \in 0..Len(s) : After(Append(s, m), j) = After(s, j)
           /\ After(Append(s, m), Len(s) + 1) = After(s, Len(s)) + n
           /\ \A f : Part(s, f) => Part(Append(s, m), f)
<1> DEFINE t == Append(s, m)
           L == Len(s)
           end == After(s, L)
<1>1. Len(t) = L + 1 /\ L \in Nat /\ t[L + 1] = m /\ \A j \in 1..L : t[j] = s[j]
  OBVIOUS
<1>2. end \in Nat /\ \A j \in 0..L : After(s, j) \in Nat
  BY AfterFacts
<1>n. n \in Nat /\ n >= 1 /\ L \in 0..L /\ \A i \in 1..n : m[i] = end + i - 1
  BY Sizing
<1>o. /\ \A j \in 1..L : Len(s[j]) \in 1..(FragLimit - 1)
      /\ \A j \in 1..L : \A i \in 1..Len(s[j]) : s[j][i] = After(s, j - 1) + i - 1
      /\ \A j, k \in 0..L : j < k => After(s, j) < After(s, k)
  BY OrderedFacts
<1>3. ASSUME NEW j \in 0..L PROVE After(t, j) = After(s, j)
  BY <1>1 DEF After
<1>4. After(t, L + 1) = end + n
  <2>1. L + 1 # 0 /\ 1 \in 1..n
    BY <1>1, <1>n
  <2>2. After(t, L + 1) = m[1] + Len(m)
    BY <1>1, <2>1, Zenon DEF After
  <2>3. m[1] = end + 1 - 1
    BY <1>n, <2>1, Zenon
  <2> HIDE DEF end, t, L
  <2> QED BY <1>2, <1>n, <2>2, <2>3
<1> HIDE DEF t, L, end
<1>5. Ordered(t)
  <2>1. ASSUME NEW j \in 1..L + 1
        PROVE  Len(t[j]) \in 1..(FragLimit - 1)
               /\ \A i \in 1..Len(t[j]) : t[j][i] = After(t, j - 1) + i - 1
    <3>1. CASE j = L + 1
      <4>1. t[j] = m /\ j - 1 = L
        BY <1>1, <3>1
      <4>2. After(t, j - 1) = end
        BY <1>3, <1>n, <4>1, Zenon DEF end
      <4>3. Len(t[j]) = n
        BY <4>1, Zenon
      <4> QED BY <1>n, <4>1, <4>2, <4>3, Zenon
    <3>2. CASE j \in 1..L
      <4>1. t[j] = s[j] /\ j - 1 \in 0..L
        BY <1>1, <3>2
      <4>2. After(t, j - 1) = After(s, j - 1)
        BY <1>3, <4>1, Zenon
      <4> QED BY <1>o, <3>2, <4>1, <4>2, Zenon
    <3> QED BY <1>1, <3>1, <3>2
  <2>2. ASSUME NEW j \in 0..L + 1, NEW k \in 0..L + 1, j < k
        PROVE  After(t, j) < After(t, k)
    <3>0. j \in 0..L /\ After(t, j) = After(s, j) /\ After(s, j) \in Nat
      BY <1>1, <1>2, <1>3, <2>2
    <3>1. CASE k = L + 1
      <4>1. j = L \/ (j < L /\ L \in 0..L)
        BY <1>1, <3>0
      <4>2. After(s, j) = end \/ After(s, j) < end
        BY <1>o, <3>0, <4>1, Zenon DEF end
      <4> QED BY <1>2, <1>4, <1>n, <3>0, <3>1, <4>2
    <3>2. CASE k \in 0..L
      <4>1. After(t, k) = After(s, k)
        BY <1>3, <3>2
      <4> QED BY <1>o, <2>2, <3>0, <3>2, <4>1, Zenon
    <3> QED BY <1>1, <3>1, <3>2
  <2> QED BY <1>1, <2>1, <2>2, Zenon DEF Ordered
<1>6. ASSUME NEW f, Part(s, f) PROVE Part(t, f)
  <2>1. PICK j \in 1..L : After(s, j - 1) <= f.data /\ f.data < After(s, j)
                               /\ f.frg = After(s, j) - 1 - f.data
    BY <1>6 DEF Part, L
  <2>2. j \in 1..L + 1 /\ j \in 0..L /\ j - 1 \in 0..L
    BY <1>1
  <2>3. After(t, j) = After(s, j) /\ After(t, j - 1) = After(s, j - 1)
    BY <1>3, <2>2, Zenon
  <2> QED BY <1>1, <2>1, <2>2, <2>3, Zenon DEF Part
<1> QED BY <1>3, <1>4, <1>5, <1>6 DEF t, L, end

\* The fragments that a queue begins with, behind g messages, are those of the next one.
LEMMA NextMessage ==
    ASSUME NEW s \in Seq(Seq(Nat)), Ordered(s), NEW g \in Nat, g <= Len(s),
           NEW que \in Seq(Frags), que # <<>>, Consecutive(s, que, After(s, g))
    PROVE  /\ g + 1 \in 1..Len(s)
           /\ que[1].frg = Len(s[g + 1]) - 1
           /\ \A i \in 1..Len(que) : i <= Len(s[g + 1]) =>
                 que[i].frg = Len(s[g + 1]) - i /\ que[i].data = s[g + 1][i]
<1> DEFINE L == Len(s)
           A(j) == After(s, j)
<1>1. /\ L \in Nat /\ \A j \in 0..L : A(j) \in Nat
      /\ \A j \in 1..L : A(j) = A(j - 1) + Len(s[j])
  BY AfterFacts
<1>o. /\ \A j \in 1..L : Len(s[j]) \in Nat /\ Len(s[j]) >= 1
      /\ \A j \in 1..L : \A i \in 1..Len(s[j]) : s[j][i] = A(j - 1) + i - 1
      /\ \A j, k \in 0..L : j < k => A(j) < A(k)
  BY OrderedFacts, Sizing
<1>2. \A i \in 1..Len(que) : que[i].data = A(g) + i - 1 /\ Part(s, que[i])
  BY DEF Consecutive
<1>q. 1 \in 1..Len(que)
  OBVIOUS
<1>g. g \in 0..L
  BY <1>1
<1>p. ASSUME NEW i \in 1..Len(que)
      PROVE  \E j \in 1..L : /\ A(j - 1) <= que[i].data /\ que[i].data < A(j)
                             /\ que[i].frg = A(j) - 1 - que[i].data
  BY <1>2 DEF Part
<1> HIDE DEF L, A
<1>3. PICK j \in 1..L : A(j - 1) <= que[1].data /\ que[1].data < A(j)
  BY <1>p, <1>q
<1>4. g < j
  <2>1. que[1].data = A(g) + 1 - 1
    BY <1>2, <1>q, Zenon
  <2>2. j \in 0..L /\ A(g) \in Nat /\ A(j) \in Nat
    BY <1>1, <1>g
  <2>3. A(g) < A(j)
    BY <1>3, <2>1, <2>2
  <2>4. j < g => A(j) < A(g)
    BY <1>o, <1>g, <2>2, Zenon
  <2>5. j # g
    BY <2>2, <2>3
  <2> QED BY <2>2, <2>3, <2>4, <2>5
<1>5. g + 1 \in 1..L
  BY <1>1, <1>4
<1>l. Len(s[g + 1]) \in Nat /\ Len(s[g + 1]) >= 1
  BY <1>o, <1>5, Zenon
<1>s. A(g + 1) = A(g) + Len(s[g + 1]) /\ A(g) \in Nat /\ g + 1 \in 0..L
  <2>1. A(g + 1) = A((g + 1) - 1) + Len(s[g + 1])
    BY <1>1, <1>5, Zenon
  <2>2. (g + 1) - 1 = g /\ g + 1 \in 0..L /\ A(g) \in Nat
    BY <1>1, <1>5, <1>g
  <2> QED BY <2>1, <2>2
<1>6. ASSUME NEW i \in 1..Len(que), i <= Len(s[g + 1])
      PROVE  que[i].frg = Len(s[g + 1]) - i /\ que[i].data = s[g + 1][i]
  <2>0. A(g) \in Nat /\ g \in Nat
    BY <1>s, Zenon
  <2>1. que[i].data = A(g) + i - 1 /\ i \in Nat /\ i >= 1
    BY <1>2
  <2>2. PICK k \in 1..L : /\ A(k - 1) <= que[i].data /\ que[i].data < A(k)
                          /\ que[i].frg = A(k) - 1 - que[i].data
    BY <1>p
  <2>3. k \in 0..L /\ k - 1 \in 0..L /\ k \in Int /\ A(k) \in Nat /\ A(k - 1) \in Nat
    BY <1>1
  <2>4. k = g + 1
    <3>1. k < g => A(k) < A(g)
      BY <1>o, <1>g, <2>3, Zenon
    <3>2. k = g => A(k) = A(g)
      OBVIOUS
    <3>3. g < k
      <4>1. A(g) < A(k)
        BY <2>0, <2>1, <2>2, <2>3
      <4>2. ~ (k < g) /\ k # g
        BY <2>0, <2>3, <3>1, <3>2, <4>1
      <4> QED BY <2>0, <2>3, <4>2
    <3>4. g + 1 < k - 1 => A(g + 1) < A(k - 1)
      BY <1>o, <1>s, <2>3, Zenon
    <3>5. g + 1 = k - 1 => A(g + 1) = A(k - 1)
      OBVIOUS
    <3>6. que[i].data < A(g + 1)
      BY <1>6, <1>s, <1>l, <2>1
    <3>7. k - 1 < g + 1
      <4>1. A(g + 1) \in Nat /\ g + 1 \in Int /\ k - 1 \in Int /\ que[i].data \in Nat
        <5>1. A(g + 1) \in Nat
          BY <1>1, <1>s, Zenon
        <5>2. que[i].data \in Nat
          BY <2>0, <2>1
        <5> QED BY <2>0, <2>3, <5>1, <5>2
      <4>2. A(k - 1) < A(g + 1)
        BY <2>2, <2>3, <3>6, <4>1
      <4>3. ~ (g + 1 < k - 1) /\ g + 1 # k - 1
        BY <2>3, <3>4, <3>5, <4>1, <4>2
      <4> QED BY <4>1, <4>3
    <3> QED BY <2>3, <3>3, <3>7
  <2>5. s[g + 1][i] = A((g + 1) - 1) + i - 1
    <3>1. i \in 1..Len(s[g + 1])
      BY <1>6, <1>l, <2>1
    <3> QED BY <1>o, <1>5, <3>1, Zenon
  <2>6. A((g + 1) - 1) = A(g)
    <3>1. (g + 1) - 1 = g
      OBVIOUS
    <3> QED BY <3>1
  <2>7. que[i].frg = A(g + 1) - 1 - que[i].data
    BY <2>2, <2>4
  <2>8. que[i].data = s[g + 1][i]
    BY <2>1, <2>5, <2>6, Zenon
  <2> DEFINE len == Len(s[g + 1])
  <2>9. A(g + 1) = A(g) + len /\ len \in Nat
    BY <1>s, <1>l, Zenon
  <2> HIDE DEF len
  <2>10. que[i].frg = len - i
    BY <2>0, <2>1, <2>7, <2>9
  <2> QED BY <2>8, <2>10 DEF len
<1> QED BY <1>5, <1>6, <1>l, <1>q DEF L

\* What the loop that moves available data may move, is there and fits.
LEMMA MovableFacts ==
    ASSUME NEW buf, NEW next \in Nat, NEW len \in Nat, len <= RcvWnd
    PROVE  LET k == Movable(buf, next, len)
           IN /\ k \in 0..RcvWnd /\ len + k <= RcvWnd
              /\ \A sn \in next..(next + k - 1) : \E seg \in buf : seg.sn = sn
<1> DEFINE Fits(k) == /\ len + k <= RcvWnd
                      /\ \A sn \in next..(next + k - 1) : \E seg \in buf : seg.sn = sn
           T == {k \in Nat : ~Fits(k)}
<1>1. RcvWnd \in Nat /\ RcvWnd + 1 \in T /\ 0 \notin T
  BY Sizing
<1>2. PICK m \in T : \A y \in T : m <= y
  BY <1>1, LeastNumber
<1>3. m \in Nat /\ m # 0 /\ m <= RcvWnd + 1
  BY <1>1, <1>2
<1>4. m - 1 \in 0..RcvWnd /\ m - 1 \in Nat /\ (m - 1) + 1 = m
  BY <1>1, <1>3
<1>5. m - 1 \notin T
  BY <1>2, <1>4
<1>6. Fits(m - 1) /\ ~Fits((m - 1) + 1)
  <2>1. \A k \in Nat : k \in T <=> ~Fits(k)
    BY Zenon
  <2> HIDE DEF Fits, T
  <2> QED BY <1>2, <1>3, <1>4, <1>5, <2>1
<1>7. Movable(buf, next, len) = CHOOSE k \in 0..RcvWnd : Fits(k) /\ ~Fits(k + 1)
  BY Zenon DEF Movable
<1>8. Movable(buf, next, len) \in 0..RcvWnd /\ Fits(Movable(buf, next, len))
  <2> HIDE DEF Fits
  <2> QED BY <1>4, <1>6, <1>7, Zenon
<1> QED BY <1>8, Zenon

\* The loop that moves available data, from a queue of the fragments from base on.
LEMMA MoveFacts ==
    ASSUME KcpTypeOK, NEW p \in Peers, NEW buf \in SUBSET Kept, NEW que \in Seq(Frags),
           NEW s, NEW base \in Nat, rcv_nxt[p] = base + Len(que), Len(que) <= RcvWnd,
           Consecutive(s, que, base), \A x \in buf : Numbers(s, x), MoveAvailable(p, buf, que)
    PROVE  /\ rcv_buf' \in [Peers -> SUBSET Kept]
           /\ rcv_queue' \in [Peers -> Seq(Frags)]
           /\ rcv_nxt' \in [Peers -> Nat]
           /\ \A q \in Peers \ {p} : /\ rcv_buf'[q] = rcv_buf[q] /\ rcv_queue'[q] = rcv_queue[q]
                                     /\ rcv_nxt'[q] = rcv_nxt[q]
           /\ rcv_buf'[p] \subseteq buf
           /\ Len(rcv_queue'[p]) <= RcvWnd
           /\ rcv_nxt'[p] = base + Len(rcv_queue'[p])
           /\ Consecutive(s, rcv_queue'[p], base)
<1> DEFINE next == rcv_nxt[p]
           k == Movable(buf, next, Len(que))
           moved == [i \in 1..k |-> LET seg == At(buf, next + i - 1)
                                    IN Fragment(seg.data, seg.frg)]
           rest == {seg \in buf : seg.sn >= next + k}
<1>1. /\ rcv_buf' = [rcv_buf EXCEPT ![p] = rest]
      /\ rcv_queue' = [rcv_queue EXCEPT ![p] = que \o moved]
      /\ rcv_nxt' = [rcv_nxt EXCEPT ![p] = next + k]
  BY Zenon DEF MoveAvailable
<1>2. next \in Nat /\ Len(que) \in Nat /\ next = base + Len(que)
  BY DEF KcpTypeOK
<1>3. /\ k \in 0..RcvWnd /\ Len(que) + k <= RcvWnd
      /\ \A sn \in next..(next + k - 1) : \E seg \in buf : seg.sn = sn
  BY <1>2, MovableFacts
<1>k. k \in Nat
  BY <1>3, Sizing
<1> HIDE DEF next, k
<1>4. ASSUME NEW i \in 1..k
      PROVE  /\ moved[i] \in Frags /\ moved[i].data = next + i - 1 /\ Part(s, moved[i])
  <2> DEFINE seg == At(buf, next + i - 1)
  <2>1. next + i - 1 \in next..(next + k - 1)
    BY <1>2, <1>k
  <2>2. PICK y \in buf : y.sn = next + i - 1
    BY <1>3, <2>1
  <2>3. seg \in buf /\ seg.sn = next + i - 1
    BY <2>2, Zenon DEF At
  <2>4. moved[i] = [data |-> seg.data, frg |-> seg.frg]
    BY Zenon DEF Fragment
  <2> HIDE DEF seg, moved
  <2>5. seg \in Kept /\ Numbers(s, seg)
    BY <2>3
  <2>6. moved[i] \in Frags /\ moved[i].data = seg.data /\ moved[i].frg = seg.frg
    BY <2>4, <2>5 DEF Frags, Kept
  <2> QED BY <2>3, <2>5, <2>6 DEF Numbers, Part
<1>5. moved \in Seq(Frags) /\ Len(moved) = k
  BY <1>4, <1>k
<1> HIDE DEF moved
<1>6. /\ que \o moved \in Seq(Frags) /\ Len(que \o moved) = Len(que) + k
      /\ \A i \in 1..Len(que) : (que \o moved)[i] = que[i]
      /\ \A i \in 1..Len(que \o moved) : i \notin 1..Len(que) =>
            i - Len(que) \in 1..k /\ (que \o moved)[i] = moved[i - Len(que)]
  BY <1>5, <1>2, <1>k
<1>7. Consecutive(s, que \o moved, base)
  <2> SUFFICES ASSUME NEW i \in 1..Len(que \o moved)
               PROVE  (que \o moved)[i].data = base + i - 1 /\ Part(s, (que \o moved)[i])
    BY DEF Consecutive
  <2>1. CASE i \in 1..Len(que)
    BY <1>6, <2>1 DEF Consecutive
  <2>2. CASE i \notin 1..Len(que)
    <3>1. i - Len(que) \in 1..k /\ (que \o moved)[i] = moved[i - Len(que)]
      BY <1>6, <2>2
    <3>2. moved[i - Len(que)].data = next + (i - Len(que)) - 1 /\ Part(s, moved[i - Len(que)])
      BY <1>4, <3>1
    <3>3. base + i - 1 = next + (i - Len(que)) - 1
      BY <1>2, <1>6
    <3> QED BY <3>1, <3>2, <3>3
  <2> QED BY <2>1, <2>2
<1>8. rest \in SUBSET Kept /\ rest \subseteq buf
  OBVIOUS
<1> HIDE DEF rest
<1>9. /\ rcv_buf' \in [Peers -> SUBSET Kept] /\ rcv_buf'[p] = rest
      /\ rcv_queue' \in [Peers -> Seq(Frags)] /\ rcv_queue'[p] = que \o moved
      /\ rcv_nxt' \in [Peers -> Nat] /\ rcv_nxt'[p] = next + k
      /\ \A q \in Peers \ {p} : /\ rcv_buf'[q] = rcv_buf[q] /\ rcv_queue'[q] = rcv_queue[q]
                                /\ rcv_nxt'[q] = rcv_nxt[q]
  <2>1. next + k \in Nat
    BY <1>2, <1>k
  <2> QED BY <1>1, <1>6, <1>8, <2>1 DEF KcpTypeOK
<1>10. Len(que \o moved) <= RcvWnd /\ next + k = base + Len(que \o moved)
  BY <1>2, <1>3, <1>6, <1>k
<1> QED BY <1>7, <1>8, <1>9, <1>10

\* Every element of a concatenation is of one of its parts.
LEMMA ConcatFacts ==
    ASSUME NEW T, NEW a \in Seq(T), NEW b \in Seq(T)
    PROVE  /\ a \o b \in Seq(T) /\ Len(a \o b) = Len(a) + Len(b)
           /\ \A j \in 1..Len(a \o b) : \/ j \in 1..Len(a) /\ (a \o b)[j] = a[j]
                                        \/ j - Len(a) \in 1..Len(b) /\ (a \o b)[j] = b[j - Len(a)]
OBVIOUS

\* The sequence made of a finite set holds its elements.
LEMMA SetToSeqFacts ==
    ASSUME NEW T, IsFiniteSet(T)
    PROVE  SetToSeq(T) \in Seq(T)
<1>1. Cardinality(T) \in Nat /\ ExistsBijection(1..Cardinality(T), T)
  BY FS_CardinalityType
<1>2. PICK f \in [1..Cardinality(T) -> T] : IsInjective(f)
  BY <1>1 DEF ExistsBijection, Bijection, Injection, Surjection, IsInjective
<1>3. SetToSeq(T) \in [1..Cardinality(T) -> T]
  BY <1>2, Zenon DEF SetToSeq
<1> QED BY <1>1, <1>3
-----------------------------------------------------------------------------
\* Multiplication: the next multiple, and that it grows.
LEMMA Products ==
    /\ \A a, b \in Nat : a * b \in Nat /\ a * (b + 1) = a * b + a
    /\ \A a, b, c \in Nat : b <= c => a * b <= a * c
<1>1. \A a, b \in Nat : a * b \in Nat /\ a * (b + 1) = a * b + a
  OBVIOUS
<1>2. ASSUME NEW a \in Nat, NEW b \in Nat, NEW c \in Nat, b <= c PROVE a * b <= a * c
  <2>1. PICK d \in Nat : c = b + d
    <3>1. c - b \in Nat /\ c = b + (c - b)
      BY <1>2
    <3> QED BY <3>1
  <2>2. a * c = a * b + a * d /\ a * d \in Nat /\ a * b \in Nat
    BY <2>1
  <2> QED BY <2>2
<1> QED BY <1>1, <1>2

\* What the invariant says of one peer.
LEMMA PeerFacts ==
    ASSUME KcpInv, NEW p \in Peers
    PROVE  /\ KcpTypeOK /\ SendInv(p) /\ Other[p] \in Peers /\ Other[Other[p]] = p
           /\ RecvInv(p, sent[Other[p]])
           /\ sent[p] \in Seq(Seq(Nat)) /\ snd_nxt[p] \in Nat /\ rcv_nxt[p] \in Nat
           /\ snd_queue[p] \in Seq(Frags) /\ rcv_queue[p] \in Seq(Frags) /\ got[p] \in Seq(Seq(Nat))
           /\ net[p] \in Seq(Segments) /\ snd_buf[p] \in SUBSET Kept /\ rcv_buf[p] \in SUBSET Kept
<1>1. KcpTypeOK /\ SendInv(p) /\ Other[p] \in Peers /\ Other[Other[p]] = p
      /\ RecvInv(p, sent[Other[p]])
  BY Sizing DEF KcpInv
<1> QED BY <1>1 DEF KcpTypeOK

\* Fragments in order stay so when more messages are sent.
LEMMA PartsLater ==
    ASSUME NEW s, NEW t, NEW que, NEW base, \A f : Part(s, f) => Part(t, f), Consecutive(s, que, base)
    PROVE  Consecutive(t, que, base)
BY Zenon DEF Consecutive

\* The receiving side of a peer is not disturbed when more messages are sent to it.
LEMMA RecvLater ==
    ASSUME NEW q, NEW s, NEW t, RecvInv(q, s),
           \A f : Part(s, f) => Part(t, f), Len(s) \in Nat, Len(t) \in Nat, Len(s) <= Len(t),
           Len(got[q]) \in Nat,
           \A j \in 0..Len(s) : After(t, j) = After(s, j)
    PROVE  RecvInv(q, t)
<1>1. After(t, Len(got[q])) = After(s, Len(got[q])) /\ Len(got[q]) <= Len(t)
  BY DEF RecvInv
<1>2. Consecutive(t, rcv_queue[q], After(t, Len(got[q])))
  BY <1>1, PartsLater DEF RecvInv
<1>3. \A x : Numbers(s, x) => Numbers(t, x)
  BY Zenon DEF Numbers
<1> QED BY <1>1, <1>2, <1>3 DEF RecvInv

\* ikcp_send: the fragments of a new message go on from the last one; a Send of the stream.
LEMMA SendStep ==
    ASSUME KcpInv, NEW p \in Peers, Send(p)
    PROVE  KcpInv' /\ \E m \in Message : S!Send(p, m)
<1> DEFINE s == sent[p]
           que == snd_queue[p]
           n == Sizes[p][Len(s) + 1]
           first == Len(que) + snd_nxt[p]
           frags == [i \in 1..n |-> Fragment(first + i - 1, n - i)]
           m == [i \in 1..n |-> frags[i].data]
           t == Append(s, m)
<1>1. /\ Len(s) < Len(Sizes[p]) /\ n < FragLimit
      /\ snd_queue' = [snd_queue EXCEPT ![p] = que \o frags]
      /\ sent' = [sent EXCEPT ![p] = t]
      /\ UNCHANGED <<snd_buf, snd_una, snd_nxt, rmt_wnd, probing, rcv_buf, rcv_queue, rcv_nxt,
                     acklist, tell, net, got>>
  BY DEF Send, rcvVars
<1>2. /\ KcpTypeOK /\ SendInv(p) /\ s \in Seq(Seq(Nat)) /\ que \in Seq(Frags) /\ snd_nxt[p] \in Nat
      /\ Len(s) \in Nat /\ Len(que) \in Nat /\ Ordered(s)
      /\ After(s, Len(s)) = first /\ first \in Nat
  BY PeerFacts DEF SendInv
<1>3. n \in Nat /\ n >= 1 /\ n \in 1..(FragLimit - 1) /\ FragLimit \in Nat /\ FragLimit - 1 \in Nat
      /\ Len(Sizes[p]) \in Nat
  <2>1. Sizes[p] \in Seq(Nat \ {0}) /\ FragLimit \in Nat \ {0, 1}
    BY Sizing, KcpAssumption
  <2>2. Len(Sizes[p]) \in Nat /\ Len(s) + 1 \in 1..Len(Sizes[p])
    <3>1. Len(s) \in Nat /\ Len(s) < Len(Sizes[p])
      BY <1>1, <1>2, Zenon
    <3>2. Len(Sizes[p]) \in Nat
      BY <2>1
    <3> HIDE DEF s
    <3> QED BY <3>1, <3>2
  <2>3. n \in Nat \ {0}
    BY <2>1, <2>2
  <2> HIDE DEF n
  <2> QED BY <1>1, <2>1, <2>2, <2>3
<1> HIDE DEF n, first, s, que
<1>4. ASSUME NEW i \in 1..n
      PROVE  /\ frags[i] \in Frags /\ frags[i].data = first + i - 1 /\ frags[i].frg = n - i
             /\ m[i] = first + i - 1 /\ m[i] \in Nat
  <2>1. first + i - 1 \in Nat /\ n - i \in Nat
    BY <1>2, <1>3
  <2>2. frags[i] = [data |-> first + i - 1, frg |-> n - i]
    BY Zenon DEF Fragment
  <2>3. m[i] = frags[i].data
    BY Zenon
  <2> HIDE DEF frags, m
  <2> QED BY <2>1, <2>2, <2>3 DEF Frags
<1>5. frags \in Seq(Frags) /\ Len(frags) = n /\ m \in Seq(Nat) /\ Len(m) = n
  <2>1. m \in [1..n -> Nat] /\ frags \in [1..n -> Frags]
    BY <1>4
  <2> HIDE DEF m, frags
  <2> QED BY <1>3, <2>1
<1> HIDE DEF frags, m
<1>6. /\ Ordered(t) /\ \A j \in 0..Len(s) : After(t, j) = After(s, j)
      /\ After(t, Len(s) + 1) = first + n
      /\ \A f : Part(s, f) => Part(t, f)
  BY <1>2, <1>3, <1>4, <1>5, AnotherMessage
<1>7. t \in Seq(Seq(Nat)) /\ Len(t) = Len(s) + 1
  BY <1>2, <1>5
<1> HIDE DEF t
<1>8. que \o frags \in Seq(Frags) /\ Len(que \o frags) = Len(que) + n
      /\ \A j \in 1..Len(que \o frags) :
            \/ j \in 1..Len(que) /\ (que \o frags)[j] = que[j]
            \/ j - Len(que) \in 1..n /\ (que \o frags)[j] = frags[j - Len(que)]
  BY <1>2, <1>5, ConcatFacts
<1>9. Consecutive(t, que \o frags, snd_nxt[p])
  <2> SUFFICES ASSUME NEW j \in 1..Len(que \o frags)
               PROVE  (que \o frags)[j].data = snd_nxt[p] + j - 1 /\ Part(t, (que \o frags)[j])
    BY DEF Consecutive
  <2>1. CASE j \in 1..Len(que) /\ (que \o frags)[j] = que[j]
    BY <1>2, <1>6, <2>1 DEF SendInv, Consecutive, que, s
  <2>2. CASE j - Len(que) \in 1..n /\ (que \o frags)[j] = frags[j - Len(que)]
    <3> DEFINE i == j - Len(que)
               f == frags[i]
    <3>1. i \in 1..n /\ f.data = first + i - 1 /\ f.frg = n - i
      BY <1>4, <2>2
    <3>2. j = Len(que) + i
      BY <1>2, <1>8
    <3> HIDE DEF i, f
    <3>3. f.data = snd_nxt[p] + j - 1
      BY <1>2, <3>1, <3>2 DEF first
    <3>4. After(t, (Len(s) + 1) - 1) = first
      <4>1. (Len(s) + 1) - 1 = Len(s) /\ Len(s) \in 0..Len(s)
        BY <1>2
      <4> QED BY <1>2, <1>6, <4>1
    <3>5. Part(t, f)
      <4>1. first <= f.data /\ f.data < first + n /\ f.frg = (first + n) - 1 - f.data
        BY <1>2, <1>3, <3>1
      <4>2. Len(s) + 1 \in 1..Len(t)
        BY <1>2, <1>7
      <4> QED BY <1>6, <3>4, <4>1, <4>2 DEF Part
    <3> QED BY <2>2, <3>3, <3>5 DEF f, i
  <2> QED BY <1>8, <2>1, <2>2
<1>10. KcpTypeOK'
  BY <1>1, <1>2, <1>7, <1>8 DEF KcpTypeOK
<1>11. /\ sent'[p] = t /\ snd_queue'[p] = que \o frags
       /\ \A q \in Peers \ {p} : sent'[q] = sent[q] /\ snd_queue'[q] = snd_queue[q]
  BY <1>1, <1>2 DEF KcpTypeOK
<1>12. first + n <= (FragLimit - 1) * Len(t)
  <2>1. first <= (FragLimit - 1) * Len(s)
    BY <1>2 DEF SendInv, first, s, que
  <2>2. (FragLimit - 1) * Len(t) = (FragLimit - 1) * Len(s) + (FragLimit - 1)
        /\ (FragLimit - 1) * Len(s) \in Nat
    BY <1>2, <1>3, <1>7, Products
  <2> QED BY <1>2, <1>3, <2>1, <2>2
<1>13. SendInv(p)'
  <2>1. After(t, Len(t)) = snd_nxt[p] + Len(que \o frags)
    BY <1>2, <1>3, <1>6, <1>7, <1>8 DEF first
  <2>2. \A x \in snd_buf[p] : Numbers(t, x)
    BY <1>2, <1>6 DEF SendInv, Numbers, s
  <2>3. Len(t) <= Len(Sizes[p])
    BY <1>1, <1>2, <1>3, <1>7
  <2>4. snd_nxt[p] + Len(que \o frags) <= (FragLimit - 1) * Len(t)
    BY <1>2, <1>3, <1>8, <1>12 DEF first
  <2> QED BY <1>1, <1>6, <1>9, <1>11, <2>1, <2>2, <2>3, <2>4 DEF SendInv
<1>14. ASSUME NEW q \in Peers PROVE SendInv(q)' /\ RecvInv(q, sent[Other[q]])'
  <2>1. SendInv(q)'
    <3>1. CASE q # p
      BY <1>1, <1>11, <3>1, PeerFacts DEF SendInv
    <3> QED BY <1>13, <3>1
  <2>2. RecvInv(q, sent[Other[q]]) /\ Other[q] \in Peers /\ Len(got[q]) \in Nat
    BY PeerFacts
  <2>3. RecvInv(q, sent'[Other[q]])
    <3>1. CASE Other[q] = p
      <4>1. RecvInv(q, s) /\ sent'[Other[q]] = t
        BY <1>11, <2>2, <3>1 DEF s
      <4>2. Len(s) \in Nat /\ Len(t) \in Nat /\ Len(s) <= Len(t)
        BY <1>2, <1>7
      <4>3. RecvInv(q, t)
        BY <1>6, <2>2, <4>1, <4>2, RecvLater, Zenon
      <4> QED BY <4>1, <4>3
    <3>2. CASE Other[q] # p
      BY <1>11, <2>2, <3>2
    <3> QED BY <3>1, <3>2
  <2>4. RecvInv(q, sent[Other[q]])'
    BY <1>1, <2>3 DEF RecvInv
  <2> QED BY <2>1, <2>4
<1>15. m \in Message
  <2> DEFINE D == 0..((FragLimit - 1) * Len(Sizes[p]))
             Data == UNION {0..((FragLimit - 1) * Len(Sizes[q])) : q \in Peers}
  <2>1. (FragLimit - 1) * Len(t) <= (FragLimit - 1) * Len(Sizes[p])
        /\ (FragLimit - 1) * Len(Sizes[p]) \in Nat /\ (FragLimit - 1) * Len(t) \in Nat
    <3>1. Len(t) <= Len(Sizes[p]) /\ Len(t) \in Nat
      BY <1>1, <1>2, <1>3, <1>7
    <3> QED BY <1>3, <3>1, Products
  <2>2. \A i \in 1..n : m[i] \in D
    <3> SUFFICES ASSUME NEW i \in 1..n PROVE m[i] \in D
      OBVIOUS
    <3> DEFINE top == (FragLimit - 1) * Len(Sizes[p])
               used == (FragLimit - 1) * Len(t)
    <3>1. used <= top /\ top \in Nat /\ used \in Nat /\ first + n <= used
      BY <1>12, <2>1
    <3> HIDE DEF top, used
    <3>2. m[i] = first + i - 1 /\ m[i] \in Nat /\ i \in Nat /\ i <= n
      BY <1>3, <1>4
    <3>3. m[i] <= first + n
      BY <1>2, <1>3, <3>2
    <3>4. m[i] \in 0..top
      <4> HIDE DEF first
      <4> QED BY <1>2, <1>3, <3>1, <3>2, <3>3
    <3> QED BY <3>4 DEF top
  <2>3. D \subseteq Data
    BY Zenon
  <2>4. m \in [1..n -> Data]
    <3>1. DOMAIN m = 1..n /\ m = [i \in 1..n |-> m[i]]
      BY DEF m
    <3> HIDE DEF m, D, Data
    <3> QED BY <2>2, <2>3, <3>1
  <2> HIDE DEF m
  <2> QED BY <1>3, <2>4 DEF Message
<1>16. S!Send(p, m)
  BY <1>1 DEF S!Send, t, s
<1> QED BY <1>10, <1>14, <1>15, <1>16 DEF KcpInv

\* What is left of a sequence without its first k.
LEMMA TailFacts ==
    ASSUME NEW T, NEW a \in Seq(T), NEW k \in Nat, k <= Len(a)
    PROVE  LET rest == SubSeq(a, k + 1, Len(a))
           IN /\ rest \in Seq(T) /\ Len(rest) = Len(a) - k
              /\ \A i \in 1..Len(rest) : rest[i] = a[k + i] /\ k + i \in 1..Len(a)
<1> DEFINE rest == SubSeq(a, k + 1, Len(a))
<1>1. rest \in Seq(T) /\ Len(rest) = Len(a) - k
  OBVIOUS
<1>2. ASSUME NEW i \in 1..(Len(a) - k) PROVE rest[i] = a[k + i] /\ k + i \in 1..Len(a)
  OBVIOUS
<1> QED BY <1>1, <1>2, Zenon

\* ikcp_recv: what it returns is the next message of the other side; a Recv of the stream.
LEMMA RecvStep ==
    ASSUME KcpInv, NEW p \in Peers, Recv(p)
    PROVE  KcpInv' /\ S!Recv(p)
<1> DEFINE s == sent[Other[p]]
           g == Len(got[p])
           que == rcv_queue[p]
           M == Len(s[g + 1])
           n == CHOOSE i \in 1..Len(que) :
                   que[i].frg = 0 /\ \A j \in 1..(i - 1) : que[j].frg # 0
           rest == SubSeq(que, n + 1, Len(que))
           m == [i \in 1..n |-> que[i].data]
           base == After(s, g + 1)
<1>1. /\ que # <<>> /\ (que[1].frg = 0 \/ Len(que) >= que[1].frg + 1)
      /\ got' = [got EXCEPT ![p] = Append(got[p], m)]
      /\ MoveAvailable(p, rcv_buf[p], rest)
      /\ UNCHANGED <<snd_queue, snd_buf, snd_una, snd_nxt, rmt_wnd, probing, acklist, net, sent>>
  BY DEF Recv, sndVars
<1>t. tell' \in [Peers -> BOOLEAN]
  BY DEF Recv, KcpInv, KcpTypeOK
<1>2. /\ KcpTypeOK /\ Other[p] \in Peers /\ s \in Seq(Seq(Nat)) /\ que \in Seq(Frags)
      /\ Len(s) \in Nat /\ g \in Nat /\ Len(que) \in Nat /\ got[p] \in Seq(Seq(Nat))
      /\ Ordered(s) /\ RecvInv(p, s)
  BY PeerFacts DEF SendInv
<1>3. /\ g <= Len(s) /\ Len(que) <= RcvWnd /\ Consecutive(s, que, After(s, g))
      /\ rcv_nxt[p] = After(s, g) + Len(que) /\ \A x \in rcv_buf[p] : Numbers(s, x)
  BY <1>2 DEF RecvInv
<1> HIDE DEF s, g, que, n, rest, m
<1>4. /\ g + 1 \in 1..Len(s) /\ que[1].frg = M - 1
      /\ \A i \in 1..Len(que) : i <= M => que[i].frg = M - i /\ que[i].data = s[g + 1][i]
  <2>1. que # <<>>
    BY <1>1, Zenon
  <2> QED BY <1>2, <1>3, <2>1, NextMessage
<1>5. M \in Nat /\ M >= 1 /\ s[g + 1] \in Seq(Nat)
  BY <1>2, <1>4, OrderedFacts
<1>6. /\ After(s, g + 1) = After(s, g) + M
      /\ After(s, g) \in Nat /\ After(s, g + 1) \in Nat
  <2>1. /\ g \in 0..Len(s) /\ g + 1 \in 0..Len(s) /\ (g + 1) - 1 = g
    <3>1. g \in Nat /\ Len(s) \in Nat /\ g + 1 \in 1..Len(s)
      BY <1>2, <1>4, Zenon
    <3> QED BY <3>1
  <2>2. After(s, g + 1) = After(s, (g + 1) - 1) + M
    BY <1>2, <1>4, AfterFacts
  <2> QED BY <1>2, <2>1, <2>2, AfterFacts
<1>q. que[1].frg = M - 1 /\ (que[1].frg = 0 \/ Len(que) >= que[1].frg + 1) /\ Len(que) >= 1
  <2>1. que # <<>>
    BY <1>1
  <2>2. Len(que) >= 1
    BY <1>2, <2>1
  <2> QED BY <1>1, <1>4, <2>2, Zenon
<1>i. \A i \in 1..Len(que) : i <= M => que[i].frg = M - i /\ que[i].data = s[g + 1][i]
  BY <1>4, Zenon
<1> HIDE DEF M
<1>7. M <= Len(que) /\ M \in 1..Len(que)
  BY <1>2, <1>5, <1>q
<1>8. n = M
  <2>1. que[M].frg = 0
    <3>1. que[M].frg = M - M
      BY <1>5, <1>7, <1>i
    <3> QED BY <1>5, <3>1
  <2>2. ASSUME NEW j \in 1..(M - 1) PROVE j \in 1..Len(que) /\ que[j].frg # 0
    <3>1. j \in 1..Len(que) /\ j <= M /\ M - j # 0
      BY <1>2, <1>5, <1>7
    <3>2. que[j].frg = M - j
      BY <1>i, <3>1, Zenon
    <3> QED BY <3>1, <3>2
  <2>3. ASSUME NEW i \in 1..Len(que), que[i].frg = 0, \A j \in 1..(i - 1) : que[j].frg # 0
        PROVE  i = M
    <3>1. ~ (i \in 1..(M - 1))
      BY <2>2, <2>3
    <3>2. ~ (M \in 1..(i - 1))
      BY <2>1, <2>3
    <3> QED BY <1>2, <1>5, <3>1, <3>2
  <2> QED BY <1>7, <2>1, <2>2, <2>3, Zenon DEF n
<1>9. m = s[g + 1]
  <2>1. s[g + 1] = [i \in 1..M |-> s[g + 1][i]]
    <3> DEFINE w == s[g + 1]
    <3>1. w \in Seq(Nat) /\ M = Len(w)
      BY <1>5, Zenon DEF M
    <3> HIDE DEF w
    <3>2. w = [i \in 1..M |-> w[i]]
      BY <3>1
    <3> QED BY <3>2 DEF w
  <2>2. ASSUME NEW i \in 1..M PROVE que[i].data = s[g + 1][i]
    <3>1. i \in 1..Len(que) /\ i <= M
      BY <1>2, <1>5, <1>7
    <3> QED BY <1>i, <3>1, Zenon
  <2>3. m = [i \in 1..M |-> que[i].data]
    BY <1>8, Zenon DEF m
  <2> QED BY <2>1, <2>2, <2>3
<1>10. /\ rest \in Seq(Frags) /\ Len(rest) = Len(que) - M
       /\ \A i \in 1..Len(rest) : rest[i] = que[M + i] /\ M + i \in 1..Len(que)
  <2>1. rest = SubSeq(que, M + 1, Len(que))
    BY <1>8, Zenon DEF rest
  <2> HIDE DEF rest
  <2> QED BY <1>2, <1>5, <1>7, <2>1, TailFacts
<1>11. /\ base \in Nat /\ rcv_nxt[p] = base + Len(rest) /\ Len(rest) <= RcvWnd
       /\ Consecutive(s, rest, base)
  <2>1. base \in Nat /\ rcv_nxt[p] = base + Len(rest) /\ Len(rest) <= RcvWnd
    <3>1. /\ Len(rest) = Len(que) - M /\ Len(que) \in Nat /\ M \in Nat /\ Len(que) <= RcvWnd
          /\ RcvWnd \in Nat /\ base = After(s, g) + M /\ base \in Nat /\ After(s, g) \in Nat
          /\ rcv_nxt[p] = After(s, g) + Len(que)
      BY <1>2, <1>3, <1>5, <1>6, <1>10, Sizing, Zenon
    <3> HIDE DEF base
    <3> QED BY <3>1
  <2>2. ASSUME NEW i \in 1..Len(rest) PROVE rest[i].data = base + i - 1 /\ Part(s, rest[i])
    <3>1. rest[i] = que[M + i] /\ M + i \in 1..Len(que)
      BY <1>10
    <3>2. que[M + i].data = After(s, g) + (M + i) - 1 /\ Part(s, que[M + i])
      BY <1>3, <3>1 DEF Consecutive
    <3>3. After(s, g) + (M + i) - 1 = base + i - 1
      BY <1>5, <1>6
    <3> QED BY <3>1, <3>2, <3>3
  <2> QED BY <2>1, <2>2 DEF Consecutive
<1>12. rcv_buf[p] \in SUBSET Kept
  BY <1>2 DEF KcpTypeOK
<1> HIDE DEF base
<1>13. /\ rcv_buf' \in [Peers -> SUBSET Kept]
       /\ rcv_queue' \in [Peers -> Seq(Frags)]
       /\ rcv_nxt' \in [Peers -> Nat]
       /\ \A q \in Peers \ {p} : /\ rcv_buf'[q] = rcv_buf[q] /\ rcv_queue'[q] = rcv_queue[q]
                                 /\ rcv_nxt'[q] = rcv_nxt[q]
       /\ rcv_buf'[p] \subseteq rcv_buf[p]
       /\ Len(rcv_queue'[p]) <= RcvWnd
       /\ rcv_nxt'[p] = base + Len(rcv_queue'[p])
       /\ Consecutive(s, rcv_queue'[p], base)
  BY <1>1, <1>2, <1>3, <1>10, <1>11, <1>12, MoveFacts
<1>14. /\ got' \in [Peers -> Seq(Seq(Nat))] /\ got'[p] = Append(got[p], m)
       /\ \A q \in Peers \ {p} : got'[q] = got[q]
       /\ Len(got'[p]) = g + 1
  <2>1. Append(got[p], m) \in Seq(Seq(Nat)) /\ Len(Append(got[p], m)) = g + 1
    BY <1>2, <1>5, <1>9 DEF g
  <2> QED BY <1>1, <1>2, <2>1 DEF KcpTypeOK
<1>15. KcpTypeOK'
  BY <1>1, <1>2, <1>t, <1>13, <1>14 DEF KcpTypeOK
<1>16. RecvInv(p, s)'
  <2>1. s' = s
    BY <1>1 DEF s
  <2>2. Len(got'[p]) <= Len(s) /\ After(s, Len(got'[p])) = base
    BY <1>2, <1>4, <1>14 DEF base
  <2> QED BY <1>1, <1>2, <1>13, <2>1, <2>2 DEF RecvInv
<1>17. ASSUME NEW q \in Peers PROVE SendInv(q)' /\ RecvInv(q, sent[Other[q]])'
  <2>1. SendInv(q)'
    BY <1>1, PeerFacts DEF SendInv
  <2>2. RecvInv(q, sent[Other[q]])'
    <3>1. CASE q = p
      BY <1>16, <3>1 DEF s
    <3>2. CASE q # p
      <4>1. RecvInv(q, sent[Other[q]])
        BY PeerFacts
      <4> QED BY <1>1, <1>13, <1>14, <3>2, <4>1 DEF RecvInv
    <3> QED BY <3>1, <3>2
  <2> QED BY <2>1, <2>2
<1>18. S!Recv(p)
  <2>1. Len(got[p]) < Len(sent[Other[p]]) /\ m = sent[Other[p]][Len(got[p]) + 1]
    BY <1>2, <1>4, <1>9 DEF s, g
  <2> QED BY <1>1, <2>1 DEF S!Recv
<1> QED BY <1>15, <1>17, <1>18 DEF KcpInv

\* What an acknowledgement leaves of snd_buf.
LEMMA AcknowledgeFacts ==
    ASSUME KcpTypeOK, NEW p \in Peers, NEW seg, Acknowledge(p, seg)
    PROVE  /\ snd_buf' \in [Peers -> SUBSET Kept] /\ snd_una' \in [Peers -> Nat]
           /\ snd_buf'[p] \subseteq snd_buf[p]
           /\ \A q \in Peers \ {p} : snd_buf'[q] = snd_buf[q]
           /\ \A q \in Peers : IsFiniteSet(snd_buf'[q])
<1> DEFINE buf == {x \in snd_buf[p] : x.sn >= seg.una /\ (seg.cmd = "ACK" => x.sn # seg.sn)}
           una == IF buf = {} THEN snd_nxt[p] ELSE Min({x.sn : x \in buf})
<1>1. snd_buf' = [snd_buf EXCEPT ![p] = buf] /\ snd_una' = [snd_una EXCEPT ![p] = una]
  BY Zenon DEF Acknowledge
<1>2. buf \subseteq snd_buf[p]
  OBVIOUS
<1> HIDE DEF buf
<1>3. buf \subseteq Kept /\ IsFiniteSet(buf)
  <2>1. snd_buf[p] \subseteq Kept /\ IsFiniteSet(snd_buf[p])
    BY DEF KcpTypeOK
  <2>2. buf \in SUBSET snd_buf[p]
    BY <1>2
  <2> QED BY <1>2, <2>1, <2>2, FS_Subset
<1>4. una \in Nat
  <2> DEFINE T == {x.sn : x \in buf}
  <2>1. T \in SUBSET Nat
    BY <1>3 DEF Kept
  <2>2. CASE buf = {}
    BY <2>2 DEF KcpTypeOK
  <2>3. CASE buf # {}
    <3>1. T # {}
      BY <2>3
    <3> HIDE DEF T
    <3>2. Min(T) \in T
      BY <2>1, <3>1, MinFacts
    <3> QED BY <2>1, <2>3, <3>2 DEF T
  <2> QED BY <2>2, <2>3
<1> HIDE DEF una
<1>5. snd_buf'[p] = buf /\ \A q \in Peers \ {p} : snd_buf'[q] = snd_buf[q]
  BY <1>1 DEF KcpTypeOK
<1>6. snd_buf' \in [Peers -> SUBSET Kept] /\ snd_una' \in [Peers -> Nat]
  BY <1>1, <1>3, <1>4 DEF KcpTypeOK
<1>7. \A q \in Peers : IsFiniteSet(snd_buf'[q])
  BY <1>3, <1>5 DEF KcpTypeOK
<1> QED BY <1>2, <1>5, <1>6, <1>7

\* What the receiving side keeps of a segment that arrives.
LEMMA AcceptFacts ==
    ASSUME KcpTypeOK, NEW p \in Peers, NEW s \in Seq(Seq(Nat)), Ordered(s), RecvInv(p, s),
           NEW seg \in Segments, seg.cmd = "PUSH" => Numbers(s, seg),
           IF seg.cmd = "PUSH" THEN Accept(p, seg)
           ELSE UNCHANGED <<acklist, rcv_buf, rcv_queue, rcv_nxt>>
    PROVE  /\ rcv_buf' \in [Peers -> SUBSET Kept]
           /\ rcv_queue' \in [Peers -> Seq(Frags)]
           /\ rcv_nxt' \in [Peers -> Nat]
           /\ acklist' \in [Peers -> SUBSET Nat]
           /\ \A q \in Peers : IsFiniteSet(acklist'[q])
           /\ \A q \in Peers \ {p} : /\ rcv_buf'[q] = rcv_buf[q] /\ rcv_queue'[q] = rcv_queue[q]
                                     /\ rcv_nxt'[q] = rcv_nxt[q]
           /\ \A x \in rcv_buf'[p] : Numbers(s, x)
           /\ Len(rcv_queue'[p]) <= RcvWnd
           /\ rcv_nxt'[p] = After(s, Len(got[p])) + Len(rcv_queue'[p])
           /\ Consecutive(s, rcv_queue'[p], After(s, Len(got[p])))
<1> DEFINE base == After(s, Len(got[p]))
<1>1. /\ \A x \in rcv_buf[p] : Numbers(s, x)
      /\ Len(rcv_queue[p]) <= RcvWnd /\ Len(got[p]) <= Len(s)
      /\ rcv_nxt[p] = base + Len(rcv_queue[p])
      /\ Consecutive(s, rcv_queue[p], base)
  BY DEF RecvInv
<1>2. /\ rcv_queue[p] \in Seq(Frags) /\ rcv_buf[p] \in SUBSET Kept /\ got[p] \in Seq(Seq(Nat))
      /\ \A q \in Peers : IsFiniteSet(acklist[q])
      /\ acklist \in [Peers -> SUBSET Nat]
      /\ rcv_buf \in [Peers -> SUBSET Kept] /\ rcv_queue \in [Peers -> Seq(Frags)]
      /\ rcv_nxt \in [Peers -> Nat]
  BY DEF KcpTypeOK
<1>3. base \in Nat
  <2>1. Len(got[p]) \in 0..Len(s)
    BY <1>1, <1>2
  <2> QED BY <2>1, AfterFacts
<1> HIDE DEF base
<1>4. CASE UNCHANGED <<acklist, rcv_buf, rcv_queue, rcv_nxt>>
  BY <1>1, <1>2, <1>4 DEF base
<1>5. CASE seg.cmd = "PUSH" /\ acklist' = [acklist EXCEPT ![p] = @ \cup {seg.sn}]
  <2>1. acklist' \in [Peers -> SUBSET Nat] /\ \A q \in Peers : IsFiniteSet(acklist'[q])
    <3>1. seg.sn \in Nat
      BY DEF Segments
    <3>2. IsFiniteSet(acklist[p] \cup {seg.sn})
      BY <1>2, FS_AddElement, Zenon
    <3>3. acklist' \in [Peers -> SUBSET Nat]
      BY <1>2, <1>5, <3>1
    <3>4. \A q \in Peers : acklist'[q] = IF q = p THEN acklist[p] \cup {seg.sn} ELSE acklist[q]
      BY <1>2, <1>5
    <3> QED BY <1>2, <3>2, <3>3, <3>4
  <2>2. CASE UNCHANGED <<rcv_buf, rcv_queue, rcv_nxt>>
    BY <1>1, <1>2, <2>1, <2>2 DEF base
  <2>3. ASSUME NEW buf, buf = rcv_buf[p] \/ buf = rcv_buf[p] \cup {Numbered(seg, seg.sn)},
               MoveAvailable(p, buf, rcv_queue[p])
        PROVE  /\ rcv_buf' \in [Peers -> SUBSET Kept]
               /\ rcv_queue' \in [Peers -> Seq(Frags)]
               /\ rcv_nxt' \in [Peers -> Nat]
               /\ \A q \in Peers \ {p} : /\ rcv_buf'[q] = rcv_buf[q]
                                         /\ rcv_queue'[q] = rcv_queue[q]
                                         /\ rcv_nxt'[q] = rcv_nxt[q]
               /\ rcv_buf'[p] \subseteq buf
               /\ \A x \in buf : Numbers(s, x)
               /\ Len(rcv_queue'[p]) <= RcvWnd
               /\ rcv_nxt'[p] = base + Len(rcv_queue'[p])
               /\ Consecutive(s, rcv_queue'[p], base)
    <3> DEFINE new == Numbered(seg, seg.sn)
    <3>1. new = [sn |-> seg.sn, data |-> seg.data, frg |-> seg.frg]
      BY Zenon DEF Numbered
    <3> HIDE DEF new
    <3>2. new \in Kept /\ new.sn = seg.sn /\ new.data = seg.data /\ new.frg = seg.frg
      BY <3>1 DEF Kept, Segments
    <3>3. Numbers(s, new)
      BY <1>5, <3>2 DEF Numbers, Part
    <3>4. buf \in SUBSET Kept /\ \A x \in buf : Numbers(s, x)
      BY <1>1, <1>2, <2>3, <3>2, <3>3 DEF new
    <3>5. /\ MoveAvailable(p, buf, rcv_queue[p]) /\ KcpTypeOK
          /\ rcv_nxt[p] = base + Len(rcv_queue[p]) /\ Len(rcv_queue[p]) <= RcvWnd
          /\ Consecutive(s, rcv_queue[p], base) /\ rcv_queue[p] \in Seq(Frags)
      BY <1>1, <1>2, <2>3
    <3>6. /\ rcv_buf' \in [Peers -> SUBSET Kept]
          /\ rcv_queue' \in [Peers -> Seq(Frags)]
          /\ rcv_nxt' \in [Peers -> Nat]
          /\ \A q \in Peers \ {p} : /\ rcv_buf'[q] = rcv_buf[q]
                                    /\ rcv_queue'[q] = rcv_queue[q]
                                    /\ rcv_nxt'[q] = rcv_nxt[q]
          /\ rcv_buf'[p] \subseteq buf
          /\ Len(rcv_queue'[p]) <= RcvWnd
          /\ rcv_nxt'[p] = base + Len(rcv_queue'[p])
          /\ Consecutive(s, rcv_queue'[p], base)
      BY <1>3, <3>4, <3>5, MoveFacts
    <3> QED BY <3>4, <3>6
  <2>4. UNCHANGED <<rcv_buf, rcv_queue, rcv_nxt>>
        \/ \E buf : /\ buf = rcv_buf[p] \/ buf = rcv_buf[p] \cup {Numbered(seg, seg.sn)}
                    /\ MoveAvailable(p, buf, rcv_queue[p])
    BY <1>5, Zenon DEF Accept
  <2> QED BY <2>1, <2>2, <2>3, <2>4 DEF base
<1>6. \/ UNCHANGED <<acklist, rcv_buf, rcv_queue, rcv_nxt>>
      \/ seg.cmd = "PUSH" /\ acklist' = [acklist EXCEPT ![p] = @ \cup {seg.sn}]
  BY Zenon DEF Accept
<1> QED BY <1>4, <1>5, <1>6

\* ikcp_input: whatever arrives, and in whatever order, nothing the application sees changes.
LEMMA InputStep ==
    ASSUME KcpInv, NEW p \in Peers, NEW i, Input(p, i)
    PROVE  KcpInv' /\ UNCHANGED S!vars
<1> DEFINE s == sent[Other[p]]
           seg == net[p][i]
<1>1. /\ i \in DOMAIN net[p]
      /\ net' = [net EXCEPT ![p] = RemoveAt(net[p], i)]
      /\ rmt_wnd' = [rmt_wnd EXCEPT ![p] = seg.wnd]
      /\ Acknowledge(p, seg)
      /\ IF seg.cmd = "PUSH" THEN Accept(p, seg)
         ELSE UNCHANGED <<acklist, rcv_buf, rcv_queue, rcv_nxt>>
      /\ UNCHANGED <<snd_queue, snd_nxt, probing, sent, got>>
  BY DEF Input
<1>t. tell' \in [Peers -> BOOLEAN]
  BY DEF Input, KcpInv, KcpTypeOK
<1>2. /\ KcpTypeOK /\ SendInv(p) /\ RecvInv(p, s) /\ Other[p] \in Peers
      /\ net[p] \in Seq(Segments) /\ s \in Seq(Seq(Nat))
  BY PeerFacts
<1>3. Ordered(s)
  BY <1>2, PeerFacts DEF SendInv
<1>4. i \in 1..Len(net[p]) /\ seg \in Segments
  BY <1>1, <1>2
<1>5. seg.cmd = "PUSH" => Numbers(s, seg)
  BY <1>2, <1>4 DEF RecvInv
<1> HIDE DEF seg, s
<1>6. /\ snd_buf' \in [Peers -> SUBSET Kept] /\ snd_una' \in [Peers -> Nat]
      /\ snd_buf'[p] \subseteq snd_buf[p]
      /\ \A q \in Peers \ {p} : snd_buf'[q] = snd_buf[q]
      /\ \A q \in Peers : IsFiniteSet(snd_buf'[q])
  BY <1>1, <1>2, AcknowledgeFacts
<1>7. /\ rcv_buf' \in [Peers -> SUBSET Kept]
      /\ rcv_queue' \in [Peers -> Seq(Frags)]
      /\ rcv_nxt' \in [Peers -> Nat]
      /\ acklist' \in [Peers -> SUBSET Nat]
      /\ \A q \in Peers : IsFiniteSet(acklist'[q])
      /\ \A q \in Peers \ {p} : /\ rcv_buf'[q] = rcv_buf[q] /\ rcv_queue'[q] = rcv_queue[q]
                                /\ rcv_nxt'[q] = rcv_nxt[q]
      /\ \A x \in rcv_buf'[p] : Numbers(s, x)
      /\ Len(rcv_queue'[p]) <= RcvWnd
      /\ rcv_nxt'[p] = After(s, Len(got[p])) + Len(rcv_queue'[p])
      /\ Consecutive(s, rcv_queue'[p], After(s, Len(got[p])))
  BY <1>1, <1>2, <1>3, <1>4, <1>5, AcceptFacts
<1>8. /\ RemoveAt(net[p], i) \in Seq(Segments)
      /\ \A j \in 1..Len(RemoveAt(net[p], i)) :
            \E k \in 1..Len(net[p]) : RemoveAt(net[p], i)[j] = net[p][k]
  <2> DEFINE left == RemoveAt(net[p], i)
  <2>1. left \in Seq(Segments) /\ \A j \in DOMAIN left : \E k \in DOMAIN net[p] : left[j] = net[p][k]
    BY <1>2, <1>4, RemoveAtRange
  <2> HIDE DEF left
  <2>2. DOMAIN left = 1..Len(left) /\ DOMAIN net[p] = 1..Len(net[p])
    BY <1>2, <2>1
  <2>3. left \in Seq(Segments) /\ \A j \in 1..Len(left) : \E k \in 1..Len(net[p]) : left[j] = net[p][k]
    BY <2>1, <2>2
  <2> QED BY <2>3 DEF left
<1>9. /\ net' \in [Peers -> Seq(Segments)] /\ net'[p] = RemoveAt(net[p], i)
      /\ \A q \in Peers \ {p} : net'[q] = net[q]
  BY <1>1, <1>2, <1>8 DEF KcpTypeOK
<1>10. rmt_wnd' \in [Peers -> Nat]
  <2>1. seg.wnd \in Nat
    BY <1>4 DEF Segments
  <2> QED BY <1>1, <1>2, <2>1 DEF KcpTypeOK
<1>11. KcpTypeOK'
  BY <1>1, <1>2, <1>t, <1>6, <1>7, <1>9, <1>10 DEF KcpTypeOK
<1>12. RecvInv(p, s)'
  <2>1. s' = s
    BY <1>1 DEF s
  <2>2. \A j \in 1..Len(net'[p]) : net'[p][j].cmd = "PUSH" => Numbers(s, net'[p][j])
    <3> SUFFICES ASSUME NEW j \in 1..Len(net'[p]), net'[p][j].cmd = "PUSH"
                 PROVE  Numbers(s, net'[p][j])
      OBVIOUS
    <3>1. PICK k \in 1..Len(net[p]) : net'[p][j] = net[p][k]
      BY <1>8, <1>9
    <3> QED BY <1>2, <3>1 DEF RecvInv
  <2> QED BY <1>1, <1>2, <1>7, <2>1, <2>2 DEF RecvInv
<1>13. ASSUME NEW q \in Peers PROVE SendInv(q)' /\ RecvInv(q, sent[Other[q]])'
  <2>1. SendInv(q)'
    <3>1. SendInv(q)
      BY PeerFacts
    <3>2. snd_buf'[q] \subseteq snd_buf[q]
      BY <1>6
    <3> QED BY <1>1, <3>1, <3>2 DEF SendInv
  <2>2. RecvInv(q, sent[Other[q]])'
    <3>1. CASE q = p
      BY <1>12, <3>1 DEF s
    <3>2. CASE q # p
      <4>1. RecvInv(q, sent[Other[q]])
        BY PeerFacts
      <4> QED BY <1>1, <1>7, <1>9, <3>2, <4>1 DEF RecvInv
    <3> QED BY <3>1, <3>2
  <2> QED BY <2>1, <2>2
<1> QED BY <1>1, <1>11, <1>13 DEF KcpInv, S!vars

\* How many fragments a flush admits.
LEMMA AdmittedFacts ==
    ASSUME KcpTypeOK, NEW p \in Peers
    PROVE  Admitted(p) \in Nat /\ Admitted(p) <= Len(snd_queue[p])
<1> DEFINE w == Min({SndWnd, rmt_wnd[p]})
           room == snd_una[p] + w - snd_nxt[p]
           L == Len(snd_queue[p])
<1>1. /\ SndWnd \in Nat /\ rmt_wnd[p] \in Nat /\ snd_una[p] \in Nat /\ snd_nxt[p] \in Nat
      /\ L \in Nat
  BY Sizing DEF KcpTypeOK
<1>2. w \in Nat
  <2>1. {SndWnd, rmt_wnd[p]} \in SUBSET Nat /\ {SndWnd, rmt_wnd[p]} # {}
    BY <1>1
  <2> QED BY <2>1, MinFacts
<1>3. Admitted(p) = IF room <= 0 THEN 0 ELSE Min({room, L})
  BY Zenon DEF Admitted
<1> HIDE DEF w, L
<1>4. room \in Int
  BY <1>1, <1>2
<1> HIDE DEF room
<1>5. CASE room <= 0
  BY <1>1, <1>3, <1>5 DEF L
<1>6. CASE ~ (room <= 0)
  <2>1. {room, L} \in SUBSET Nat /\ {room, L} # {}
    BY <1>1, <1>4, <1>6
  <2>2. Min({room, L}) \in {room, L} /\ \A y \in {room, L} : Min({room, L}) <= y
    BY <2>1, MinFacts
  <2> QED BY <1>3, <1>6, <2>1, <2>2 DEF L
<1> QED BY <1>5, <1>6

\* The segments that are new: fragments of snd_queue with their serial numbers.
LEMMA NewSegmentsFacts ==
    ASSUME KcpTypeOK, NEW p \in Peers, NEW s, Consecutive(s, snd_queue[p], snd_nxt[p])
    PROVE  /\ NewSegments(p) \subseteq Kept /\ IsFiniteSet(NewSegments(p))
           /\ \A x \in NewSegments(p) : Numbers(s, x)
<1> DEFINE k == Admitted(p)
           que == snd_queue[p]
           f == [i \in 1..k |-> Numbered(que[i], snd_nxt[p] + i - 1)]
<1>1. k \in Nat /\ k <= Len(que) /\ que \in Seq(Frags) /\ snd_nxt[p] \in Nat /\ Len(que) \in Nat
  <2>1. que \in Seq(Frags) /\ snd_nxt[p] \in Nat
    BY DEF KcpTypeOK
  <2>2. k \in Nat /\ k <= Len(que)
    BY AdmittedFacts, Zenon
  <2> HIDE DEF que, k
  <2> QED BY <2>1, <2>2
<1>2. NewSegments(p) = {f[i] : i \in 1..k}
  BY DEF NewSegments
<1> HIDE DEF k
<1>3. ASSUME NEW i \in 1..k PROVE f[i] \in Kept /\ Numbers(s, f[i])
  <2>1. i \in 1..Len(que) /\ snd_nxt[p] + i - 1 \in Nat
    BY <1>1
  <2>2. que[i] \in Frags
    BY <1>1, <2>1
  <2>3. que[i].data = snd_nxt[p] + i - 1 /\ Part(s, que[i])
    BY <2>1 DEF Consecutive
  <2>4. f[i] = [sn |-> snd_nxt[p] + i - 1, data |-> que[i].data, frg |-> que[i].frg]
    BY Zenon DEF Numbered
  <2> HIDE DEF f, que
  <2>5. f[i].sn = snd_nxt[p] + i - 1 /\ f[i].data = que[i].data /\ f[i].frg = que[i].frg
    BY <2>4
  <2>6. f[i] \in Kept
    BY <2>1, <2>2, <2>4 DEF Frags, Kept
  <2> QED BY <2>3, <2>5, <2>6 DEF Numbers, Part
<1>4. IsFiniteSet(NewSegments(p))
  <2>1. f \in Surjection(1..k, NewSegments(p))
    BY <1>2 DEF Surjection
  <2>2. IsFiniteSet(1..k)
    BY <1>1, FS_Interval
  <2> QED BY <2>1, <2>2, FS_Surjection
<1> HIDE DEF f
<1> QED BY <1>2, <1>3, <1>4

\* What a flush sends: segments, and the data in them is what their numbers stand for.
LEMMA OutputFacts ==
    ASSUME KcpTypeOK, NEW p \in Peers, NEW s, Consecutive(s, snd_queue[p], snd_nxt[p]),
           \A x \in snd_buf[p] : Numbers(s, x), NEW due, NEW again \in SUBSET snd_buf[p],
           NEW x \in Output(p, due, again)
    PROVE  x \in Segments /\ (x.cmd = "PUSH" => Numbers(s, x))
<1>1. /\ NewSegments(p) \subseteq Kept /\ snd_buf[p] \subseteq Kept
      /\ \A y \in NewSegments(p) \cup again : Numbers(s, y)
  BY NewSegmentsFacts DEF KcpTypeOK
<1>2. wnd_unused(p) \in Nat /\ rcv_nxt[p] \in Nat /\ acklist[p] \subseteq Nat
  <2>1. Len(rcv_queue[p]) \in Nat /\ RcvWnd \in Nat
    BY Sizing DEF KcpTypeOK
  <2>2. wnd_unused(p) \in Nat
    BY <2>1 DEF wnd_unused
  <2> QED BY <2>2 DEF KcpTypeOK
<1>3. ASSUME NEW cmd \in {"PUSH", "ACK", "WASK", "WINS"}, NEW sn \in Nat, NEW f,
             f.data \in Nat, f.frg \in Nat
      PROVE  /\ Segment(p, cmd, sn, f) \in Segments
             /\ Segment(p, cmd, sn, f).cmd = cmd /\ Segment(p, cmd, sn, f).sn = sn
             /\ Segment(p, cmd, sn, f).data = f.data /\ Segment(p, cmd, sn, f).frg = f.frg
  BY <1>2, <1>3 DEF Segment, Segments
<1>4. Empty.data \in Nat /\ Empty.frg \in Nat
  BY DEF Empty, Fragment
<1>5. \/ \E sn \in acklist[p] : x = Segment(p, "ACK", sn, Empty)
      \/ x = Segment(p, "WASK", 0, Empty) \/ x = Segment(p, "WINS", 0, Empty)
      \/ \E y \in NewSegments(p) \cup again : x = Segment(p, "PUSH", y.sn, y)
  <2> HIDE DEF Output
  <2>1. x \in Output(p, due, again)
    OBVIOUS
  <2> QED BY <2>1, Zenon DEF Output
<1>6. CASE \E sn \in acklist[p] : x = Segment(p, "ACK", sn, Empty)
  BY <1>2, <1>3, <1>4, <1>6
<1>7. CASE x = Segment(p, "WASK", 0, Empty) \/ x = Segment(p, "WINS", 0, Empty)
  <2>1. /\ Segment(p, "WASK", 0, Empty) \in Segments /\ Segment(p, "WINS", 0, Empty) \in Segments
        /\ Segment(p, "WASK", 0, Empty).cmd = "WASK" /\ Segment(p, "WINS", 0, Empty).cmd = "WINS"
    BY <1>3, <1>4
  <2> QED BY <1>7, <2>1
<1>8. CASE \E y \in NewSegments(p) \cup again : x = Segment(p, "PUSH", y.sn, y)
  <2>1. PICK y \in NewSegments(p) \cup again : x = Segment(p, "PUSH", y.sn, y)
    BY <1>8
  <2>2. y \in Kept /\ Numbers(s, y)
    BY <1>1
  <2>3. y.sn \in Nat /\ y.data \in Nat /\ y.frg \in Nat
    BY <2>2 DEF Kept
  <2>4. x \in Segments /\ x.sn = y.sn /\ x.data = y.data /\ x.frg = y.frg
    BY <1>3, <2>1, <2>3
  <2> QED BY <2>2, <2>4 DEF Numbers, Part
<1> QED BY <1>5, <1>6, <1>7, <1>8

\* A flush sends finitely many segments.
LEMMA OutputFinite ==
    ASSUME KcpTypeOK, NEW p \in Peers, NEW s, Consecutive(s, snd_queue[p], snd_nxt[p]),
           NEW due, NEW again \in SUBSET snd_buf[p]
    PROVE  IsFiniteSet(Output(p, due, again))
<1> DEFINE Acks == {Segment(p, "ACK", sn, Empty) : sn \in acklist[p]}
           Data == NewSegments(p) \cup again
           Pushes == {Segment(p, "PUSH", x.sn, x) : x \in Data}
           ack == [sn \in acklist[p] |-> Segment(p, "ACK", sn, Empty)]
           push == [x \in Data |-> Segment(p, "PUSH", x.sn, x)]
           Ask == IF due THEN {Segment(p, "WASK", 0, Empty)} ELSE {}
           Tell == IF tell[p] THEN {Segment(p, "WINS", 0, Empty)} ELSE {}
<1>1. IsFiniteSet(acklist[p]) /\ IsFiniteSet(snd_buf[p])
  BY DEF KcpTypeOK
<1>2. IsFiniteSet(Data)
  <2>1. IsFiniteSet(again) /\ IsFiniteSet(NewSegments(p))
    BY <1>1, FS_Subset, NewSegmentsFacts
  <2> QED BY <2>1, FS_Union
<1>3. IsFiniteSet(Acks)
  <2>1. ack \in Surjection(acklist[p], Acks)
    BY DEF Surjection
  <2> QED BY <1>1, <2>1, FS_Surjection
<1> HIDE DEF Data
<1>4. IsFiniteSet(Pushes)
  <2>1. push \in Surjection(Data, Pushes)
    BY DEF Surjection
  <2> QED BY <1>2, <2>1, FS_Surjection
<1>5. IsFiniteSet(Ask) /\ IsFiniteSet(Tell)
  BY FS_EmptySet, FS_Singleton
<1>6. Output(p, due, again) = ((Acks \cup Ask) \cup Tell) \cup Pushes
  BY Zenon DEF Output, Data
<1> HIDE DEF Acks, Ask, Tell, Pushes
<1>7. IsFiniteSet(Acks \cup Ask)
  BY <1>3, <1>5, FS_Union
<1>8. IsFiniteSet((Acks \cup Ask) \cup Tell)
  BY <1>5, <1>7, FS_Union
<1> QED BY <1>4, <1>6, <1>8, FS_Union

\* ikcp_flush: what is sent, and sent again, carries what its serial number stands for.
LEMMA FlushStep ==
    ASSUME KcpInv, NEW p \in Peers, NEW due \in BOOLEAN, NEW again, NEW kept,
           Flush(p, due, again, kept)
    PROVE  KcpInv' /\ UNCHANGED S!vars
<1> DEFINE s == sent[p]
           que == snd_queue[p]
           k == Admitted(p)
           rest == SubSeq(que, k + 1, Len(que))
           new == NewSegments(p)
           out == SetToSeq(kept)
           o == Other[p]
<1>1. /\ again \subseteq snd_buf[p] /\ kept \subseteq Output(p, due, again)
      /\ acklist' = [acklist EXCEPT ![p] = {}]
      /\ probing' = [probing EXCEPT ![p] = rmt_wnd[p] = 0]
      /\ tell' = [tell EXCEPT ![p] = FALSE]
      /\ snd_queue' = [snd_queue EXCEPT ![p] = rest]
      /\ snd_buf' = [snd_buf EXCEPT ![p] = snd_buf[p] \cup new]
      /\ snd_nxt' = [snd_nxt EXCEPT ![p] = snd_nxt[p] + k]
      /\ net' = [net EXCEPT ![o] = net[o] \o out]
      /\ UNCHANGED <<snd_una, rmt_wnd, rcv_buf, rcv_queue, rcv_nxt, sent, got>>
  BY DEF Flush
<1>2. /\ KcpTypeOK /\ SendInv(p) /\ s \in Seq(Seq(Nat)) /\ que \in Seq(Frags) /\ snd_nxt[p] \in Nat
      /\ o \in Peers /\ Other[o] = p /\ Len(que) \in Nat
      /\ net[o] \in Seq(Segments) /\ RecvInv(o, s)
  <2>1. /\ KcpTypeOK /\ SendInv(p) /\ s \in Seq(Seq(Nat)) /\ que \in Seq(Frags)
        /\ snd_nxt[p] \in Nat /\ o \in Peers /\ Other[o] = p
    BY PeerFacts
  <2>2. net[o] \in Seq(Segments) /\ RecvInv(o, sent[Other[o]])
    BY <2>1, PeerFacts
  <2> QED BY <2>1, <2>2
<1>3. k \in Nat /\ k <= Len(que)
  BY <1>2, AdmittedFacts
<1>4. /\ Consecutive(s, que, snd_nxt[p]) /\ \A x \in snd_buf[p] : Numbers(s, x)
      /\ IsFiniteSet(snd_buf[p]) /\ snd_buf[p] \subseteq Kept
  BY <1>2 DEF SendInv, KcpTypeOK
<1>5. new \subseteq Kept /\ IsFiniteSet(new) /\ \A x \in new : Numbers(s, x)
  BY <1>2, <1>4, NewSegmentsFacts
<1>6. \A x \in kept : x \in Segments /\ (x.cmd = "PUSH" => Numbers(s, x))
  BY <1>1, <1>2, <1>4, OutputFacts
<1>7. IsFiniteSet(kept)
  <2>1. IsFiniteSet(Output(p, due, again))
    BY <1>1, <1>2, <1>4, OutputFinite
  <2> QED BY <1>1, <2>1, FS_Subset
<1> HIDE DEF s, que, k, rest, new, out, o
<1>8. out \in Seq(Segments) /\ \A i \in 1..Len(out) : out[i].cmd = "PUSH" => Numbers(s, out[i])
  <2>1. out \in Seq(kept)
    BY <1>7, SetToSeqFacts DEF out
  <2>2. \A i \in 1..Len(out) : out[i] \in kept
    BY <2>1
  <2>3. Len(out) \in Nat /\ out \in [1..Len(out) -> kept]
    BY <2>1
  <2>4. out \in [1..Len(out) -> Segments]
    BY <1>6, <2>3
  <2>5. out \in Seq(Segments)
    BY <2>3, <2>4
  <2> QED BY <1>6, <2>2, <2>5
<1>9. /\ net[o] \o out \in Seq(Segments)
      /\ \A j \in 1..Len(net[o] \o out) :
            \/ j \in 1..Len(net[o]) /\ (net[o] \o out)[j] = net[o][j]
            \/ j - Len(net[o]) \in 1..Len(out) /\ (net[o] \o out)[j] = out[j - Len(net[o])]
  BY <1>2, <1>8, ConcatFacts
<1>10. /\ rest \in Seq(Frags) /\ Len(rest) = Len(que) - k
       /\ \A i \in 1..Len(rest) : rest[i] = que[k + i] /\ k + i \in 1..Len(que)
  BY <1>2, <1>3, TailFacts DEF rest
<1>11. Consecutive(s, rest, snd_nxt[p] + k)
  <2> SUFFICES ASSUME NEW i \in 1..Len(rest)
               PROVE  rest[i].data = (snd_nxt[p] + k) + i - 1 /\ Part(s, rest[i])
    BY DEF Consecutive
  <2>1. rest[i] = que[k + i] /\ k + i \in 1..Len(que)
    BY <1>10
  <2>2. que[k + i].data = snd_nxt[p] + (k + i) - 1 /\ Part(s, que[k + i])
    BY <1>4, <2>1 DEF Consecutive
  <2>3. snd_nxt[p] + (k + i) - 1 = (snd_nxt[p] + k) + i - 1
    BY <1>2, <1>3
  <2> QED BY <2>1, <2>2, <2>3
<1>12. /\ net' \in [Peers -> Seq(Segments)] /\ net'[o] = net[o] \o out
       /\ \A q \in Peers \ {o} : net'[q] = net[q]
  BY <1>1, <1>2, <1>9 DEF KcpTypeOK
<1>13. /\ snd_queue'[p] = rest /\ snd_buf'[p] = snd_buf[p] \cup new
       /\ snd_nxt'[p] = snd_nxt[p] + k
       /\ \A q \in Peers \ {p} : /\ snd_queue'[q] = snd_queue[q] /\ snd_buf'[q] = snd_buf[q]
                                 /\ snd_nxt'[q] = snd_nxt[q]
       /\ \A q \in Peers : acklist'[q] = IF q = p THEN {} ELSE acklist[q]
  BY <1>1, <1>2 DEF KcpTypeOK
<1>14. KcpTypeOK'
  <2>1. /\ snd_queue' \in [Peers -> Seq(Frags)] /\ snd_buf' \in [Peers -> SUBSET Kept]
        /\ snd_nxt' \in [Peers -> Nat] /\ acklist' \in [Peers -> SUBSET Nat]
    <3>1. snd_nxt[p] + k \in Nat /\ snd_buf[p] \cup new \in SUBSET Kept
      BY <1>2, <1>3, <1>4, <1>5
    <3> QED BY <1>1, <1>2, <1>10, <3>1 DEF KcpTypeOK
  <2>2. tell' \in [Peers -> BOOLEAN] /\ probing' \in [Peers -> BOOLEAN]
    <3>1. (rmt_wnd[p] = 0) \in BOOLEAN
      BY Zenon
    <3> QED BY <1>1, <1>2, <3>1, Zenon DEF KcpTypeOK
  <2>3. \A q \in Peers : IsFiniteSet(snd_buf'[q]) /\ IsFiniteSet(acklist'[q])
    <3> SUFFICES ASSUME NEW q \in Peers PROVE IsFiniteSet(snd_buf'[q]) /\ IsFiniteSet(acklist'[q])
      OBVIOUS
    <3>1. IsFiniteSet(snd_buf[p] \cup new)
      BY <1>4, <1>5, FS_Union
    <3>2. IsFiniteSet(snd_buf[q]) /\ IsFiniteSet(acklist[q])
      BY <1>2 DEF KcpTypeOK
    <3>3. CASE q = p
      BY <1>13, <3>1, <3>3, FS_EmptySet
    <3>4. CASE q # p
      BY <1>13, <3>2, <3>4
    <3> QED BY <3>3, <3>4
  <2> QED BY <1>1, <1>2, <1>12, <2>1, <2>2, <2>3 DEF KcpTypeOK
<1>15. SendInv(p)'
  <2>1. /\ Ordered(s) /\ After(s, Len(s)) = snd_nxt[p] + Len(que)
        /\ Len(s) <= Len(Sizes[p]) /\ snd_nxt[p] + Len(que) <= (FragLimit - 1) * Len(s)
    BY <1>2 DEF SendInv, s, que
  <2>2. (snd_nxt[p] + k) + Len(rest) = snd_nxt[p] + Len(que)
    BY <1>2, <1>3, <1>10
  <2>3. \A x \in snd_buf'[p] : Numbers(s, x)
    BY <1>4, <1>5, <1>13
  <2>4. sent'[p] = s
    BY <1>1 DEF s
  <2> QED BY <1>11, <1>13, <2>1, <2>2, <2>3, <2>4 DEF SendInv
<1>16. RecvInv(o, s)'
  <2>1. s' = s
    BY <1>1 DEF s
  <2>2. \A j \in 1..Len(net'[o]) : net'[o][j].cmd = "PUSH" => Numbers(s, net'[o][j])
    <3> SUFFICES ASSUME NEW j \in 1..Len(net'[o]), net'[o][j].cmd = "PUSH"
                 PROVE  Numbers(s, net'[o][j])
      OBVIOUS
    <3>1. CASE j \in 1..Len(net[o]) /\ net'[o][j] = net[o][j]
      BY <1>2, <3>1 DEF RecvInv
    <3>2. CASE j - Len(net[o]) \in 1..Len(out) /\ net'[o][j] = out[j - Len(net[o])]
      BY <1>8, <3>2
    <3> QED BY <1>9, <1>12, <3>1, <3>2
  <2>3. /\ rcv_buf' = rcv_buf /\ rcv_queue' = rcv_queue /\ rcv_nxt' = rcv_nxt /\ got' = got
        /\ o' = o
    BY <1>1 DEF o
  <2> QED BY <1>2, <2>1, <2>2, <2>3 DEF RecvInv
<1>17. ASSUME NEW q \in Peers PROVE SendInv(q)' /\ RecvInv(q, sent[Other[q]])'
  <2>1. SendInv(q)'
    <3>1. CASE q = p
      BY <1>15, <3>1
    <3>2. CASE q # p
      <4>1. SendInv(q)
        BY PeerFacts
      <4> QED BY <1>1, <1>13, <3>2, <4>1 DEF SendInv
    <3> QED BY <3>1, <3>2
  <2>2. RecvInv(q, sent[Other[q]])'
    <3>1. CASE q = o
      <4>1. (sent[Other[q]])' = s'
        BY <1>2, <3>1 DEF s
      <4> QED BY <1>16, <3>1, <4>1 DEF RecvInv
    <3>2. CASE q # o
      <4>1. RecvInv(q, sent[Other[q]])
        BY PeerFacts
      <4> QED BY <1>1, <1>12, <3>2, <4>1 DEF RecvInv
    <3> QED BY <3>1, <3>2
  <2> QED BY <2>1, <2>2
<1> QED BY <1>1, <1>14, <1>17 DEF KcpInv, S!vars

\* A new connection.
LEMMA KcpStarts == KcpInit => KcpInv /\ S!Init
<1> SUFFICES ASSUME KcpInit PROVE KcpInv /\ S!Init
  OBVIOUS
<1>1. /\ snd_queue = [p \in Peers |-> <<>>] /\ snd_buf = [p \in Peers |-> {}]
      /\ snd_una = [p \in Peers |-> 0] /\ snd_nxt = [p \in Peers |-> 0]
      /\ rmt_wnd = [p \in Peers |-> FragLimit] /\ rcv_buf = [p \in Peers |-> {}]
      /\ rcv_queue = [p \in Peers |-> <<>>] /\ rcv_nxt = [p \in Peers |-> 0]
      /\ acklist = [p \in Peers |-> {}]
      /\ tell = [p \in Peers |-> FALSE] /\ probing = [p \in Peers |-> FALSE]
      /\ net = [p \in Peers |-> <<>>]
      /\ sent = [p \in Peers |-> <<>>] /\ got = [p \in Peers |-> <<>>]
  BY DEF KcpInit
<1>2. KcpTypeOK
  BY <1>1, Sizing, FS_EmptySet DEF KcpTypeOK
<1>3. Ordered(<<>>) /\ After(<<>>, 0) = 0
  <2>1. Len(<<>>) = 0 /\ \A j \in 1..0 : FALSE
    OBVIOUS
  <2>2. \A j, k \in 0..0 : ~ (j < k)
    OBVIOUS
  <2> QED BY <2>1, <2>2 DEF Ordered, After
<1>4. ASSUME NEW s, NEW base PROVE Consecutive(s, <<>>, base)
  BY DEF Consecutive
<1>5. ASSUME NEW p \in Peers PROVE SendInv(p) /\ RecvInv(p, sent[Other[p]])
  <2>1. /\ sent[p] = <<>> /\ snd_queue[p] = <<>> /\ snd_nxt[p] = 0 /\ snd_buf[p] = {}
        /\ net[p] = <<>> /\ rcv_buf[p] = {} /\ rcv_queue[p] = <<>> /\ got[p] = <<>>
        /\ rcv_nxt[p] = 0 /\ Other[p] \in Peers
    BY <1>1, Sizing
  <2>2. sent[Other[p]] = <<>>
    BY <1>1, <2>1
  <2>3. Len(<<>>) = 0 /\ \A j \in 1..0 : FALSE
    OBVIOUS
  <2>4. (FragLimit - 1) * 0 = 0 /\ Len(Sizes[p]) \in Nat /\ RcvWnd \in Nat
    BY Sizing
  <2>5. SendInv(p)
    BY <1>3, <1>4, <2>1, <2>3, <2>4 DEF SendInv
  <2>6. RecvInv(p, sent[Other[p]])
    BY <1>3, <1>4, <2>1, <2>2, <2>3, <2>4 DEF RecvInv
  <2> QED BY <2>5, <2>6
<1>6. S!Init
  BY <1>1 DEF S!Init
<1> QED BY <1>2, <1>5, <1>6 DEF KcpInv

\* Every step keeps the invariant, and is a step of the stream or none.
LEMMA KcpSteps == KcpInv /\ [KcpNext]_kcpVars => KcpInv' /\ [S!Next]_(S!vars)
<1> SUFFICES ASSUME KcpInv, [KcpNext]_kcpVars PROVE KcpInv' /\ [S!Next]_(S!vars)
  OBVIOUS
<1>1. ASSUME NEW p \in Peers, Send(p) PROVE KcpInv' /\ [S!Next]_(S!vars)
  BY <1>1, SendStep, Zenon DEF S!Next
<1>2. ASSUME NEW p \in Peers, Recv(p) PROVE KcpInv' /\ [S!Next]_(S!vars)
  BY <1>2, RecvStep, Zenon DEF S!Next
<1>3. ASSUME NEW p \in Peers, InputAny(p) PROVE KcpInv' /\ [S!Next]_(S!vars)
  BY <1>3, InputStep DEF InputAny
<1>4. ASSUME NEW p \in Peers, FlushAny(p) PROVE KcpInv' /\ [S!Next]_(S!vars)
  BY <1>4, FlushStep DEF FlushAny
<1>5. CASE UNCHANGED kcpVars
  BY <1>5 DEF kcpVars, sndVars, rcvVars, KcpInv, KcpTypeOK, SendInv, RecvInv, S!vars
<1> QED BY <1>1, <1>2, <1>3, <1>4, <1>5 DEF KcpNext

\* KCP: whatever the network loses, sends again or reorders, the application receives the
\* messages of the other side whole, in order and once.
THEOREM KcpImplementsStream == KcpSpec => ImplementsStream
<1>1. KcpSpec => []KcpInv
  BY KcpStarts, KcpSteps, PTL DEF KcpSpec
<1>2. KcpSpec => S!Spec
  BY <1>1, KcpStarts, KcpSteps, PTL DEF KcpSpec, S!Spec
<1> QED BY <1>2 DEF ImplementsStream
=============================================================================
