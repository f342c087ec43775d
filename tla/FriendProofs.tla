---------------------------- MODULE FriendProofs ----------------------------
(***************************************************************************)
(* Proofs about the friend table, for any players, limits and requests.    *)
(***************************************************************************)
EXTENDS Friend, FiniteSetTheorems, TLAPS

\* A transaction has the locks its place says, and a player does not apply to himself.
TxInv ==
    \A r \in Requests :
        /\ pc[r] = "one" => lock[First(r)] = r
        /\ pc[r] \in {"both", "accept", "apply"} => lock[First(r)] = r /\ lock[Second(r)] = r
        /\ pc[r] # "idle" /\ req[r].kind = "add" => req[r].self # req[r].target

\* What a transaction has read still holds when it writes.
ViewInv ==
    \A r \in Requests, p, q \in Players : req[r].self = p /\ req[r].target = q =>
        /\ pc[r] = "accept" => CanAccept(p, q)
        /\ pc[r] = "apply" => req[r].kind = "add" /\ CanApply(p, q)

\* The inductive invariant.
IInv == TypeOK /\ TxInv /\ ViewInv /\ ApplicationsAreOneWay /\ LimitsHold

Tx == {"one", "both", "accept", "apply"}

USE FriendAssumption, FreeAssumption

\* First and Second are the two players of a request.
LEMMA FirstSecond ==
    ASSUME TypeOK, NEW r \in Requests, pc[r] # "idle"
    PROVE  /\ req[r] \in Reqs /\ First(r) \in Players /\ Second(r) \in Players
           /\ {First(r), Second(r)} = {req[r].self, req[r].target}
<1>1. req[r] \in Reqs
  BY DEF TypeOK
<1> QED BY <1>1 DEF First, Second, Reqs

\* Two transactions that have read share no player.
LEMMA Apart ==
    ASSUME TypeOK, TxInv, NEW r \in Requests, NEW s \in Requests, r # s,
           pc[r] \in {"accept", "apply"}, pc[s] \in {"both", "accept", "apply"}
    PROVE  {req[r].self, req[r].target} \cap {req[s].self, req[s].target} = {}
<1>1. lock[First(r)] = r /\ lock[Second(r)] = r /\ lock[First(s)] = s /\ lock[Second(s)] = s
  BY DEF TxInv
<1> QED BY <1>1, FirstSecond

\* Counting only looks at the player's own rows.
LEMMA CountSame ==
    ASSUME NEW p \in Players, NEW st, rows'[p] = rows[p]
    PROVE  Count(p, st)' = Count(p, st)
BY DEF Count

\* A number of rows of one kind is a natural number.
LEMMA CountType == \A p \in Players : \A st : Count(p, st) \in Nat
<1> TAKE p \in Players
<1> TAKE st
<1>1. IsFiniteSet({q \in Players : rows[p][q] = st})
  BY FS_Subset
<1> QED BY <1>1, FS_CardinalityType DEF Count

\* ... and stays one.
LEMMA CountTypeNext == \A p \in Players : \A st : Count(p, st)' \in Nat
<1> TAKE p \in Players
<1> TAKE st
<1>1. IsFiniteSet({q \in Players : rows'[p][q] = st})
  BY FS_Subset
<1> QED BY <1>1, FS_CardinalityType DEF Count

\* Rows that only disappear, or turn into another kind, do not raise a count.
LEMMA CountFewer ==
    ASSUME NEW p \in Players, NEW st, \A q \in Players : rows'[p][q] = st => rows[p][q] = st
    PROVE  Count(p, st)' <= Count(p, st)
<1> DEFINE A == {q \in Players : rows[p][q] = st}
           B == {q \in Players : rows'[p][q] = st}
<1>1. IsFiniteSet(A) /\ B \subseteq A
  BY FS_Subset
<1>2. Cardinality(B) <= Cardinality(A)
  BY <1>1, FS_Subset
<1> QED BY <1>2 DEF Count

\* One row more raises a count by one at most.
LEMMA CountOneMore ==
    ASSUME NEW p \in Players, NEW st, NEW x \in Players,
           \A q \in Players \ {x} : rows'[p][q] = st => rows[p][q] = st
    PROVE  Count(p, st)' <= Count(p, st) + 1
<1> DEFINE A == {q \in Players : rows[p][q] = st}
           B == {q \in Players : rows'[p][q] = st}
<1>1. IsFiniteSet(A) /\ B \subseteq A \cup {x}
  BY FS_Subset
<1> HIDE DEF A, B
<1>2. IsFiniteSet(A \cup {x})
      /\ Cardinality(A \cup {x}) = IF x \in A THEN Cardinality(A) ELSE Cardinality(A) + 1
  BY <1>1, FS_AddElement
<1>3. Cardinality(B) <= Cardinality(A \cup {x})
  BY <1>1, <1>2, FS_Subset
<1>4. Cardinality(A) \in Nat /\ Cardinality(B) \in Nat /\ Cardinality(A \cup {x}) \in Nat
  BY <1>1, <1>2, FS_CardinalityType, FS_Subset
<1>5. Cardinality(B) <= Cardinality(A) + 1
  BY <1>2, <1>3, <1>4
<1> QED BY <1>5 DEF Count, A, B

\* A decision depends on the rows of its two players.
LEMMA SameView ==
    ASSUME NEW p \in Players, NEW q \in Players, rows'[p] = rows[p], rows'[q] = rows[q]
    PROVE  CanAccept(p, q)' = CanAccept(p, q) /\ CanApply(p, q)' = CanApply(p, q)
<1>1. \A st : Count(p, st)' = Count(p, st) /\ Count(q, st)' = Count(q, st)
  BY CountSame
<1> QED BY <1>1 DEF CanAccept, CanApply, Already, HasRoom

\* Adding or removing one player keeps the agents' memory well typed.
LEMMA MemoryType ==
    ASSUME NEW f \in [Players -> SUBSET Players], NEW p \in Players, NEW q \in Players
    PROVE  /\ [f EXCEPT ![p] = f[p] \cup {q}] \in [Players -> SUBSET Players]
           /\ [f EXCEPT ![p] = f[p] \ {q}] \in [Players -> SUBSET Players]
OBVIOUS

\* Writing one cell of a table of players keeps its type, and all other cells.
LEMMA CellWritten ==
    ASSUME NEW T, NEW f \in [Players -> [Players -> T]], NEW p \in Players, NEW q \in Players,
           NEW v \in T
    PROVE  /\ [f EXCEPT ![p][q] = v] \in [Players -> [Players -> T]]
           /\ \A x, y \in Players :
                  [f EXCEPT ![p][q] = v][x][y] = IF x = p /\ y = q THEN v ELSE f[x][y]
OBVIOUS

\* Rows that agree everywhere are equal.
LEMMA SameRow ==
    ASSUME NEW T, NEW f \in [Players -> T], NEW g \in [Players -> T],
           \A q \in Players : f[q] = g[q]
    PROVE  f = g
<1>1. f = [q \in Players |-> f[q]] /\ g = [q \in Players |-> g[q]]
  OBVIOUS
<1>2. [q \in Players |-> f[q]] = [q \in Players |-> g[q]]
  OBVIOUS
<1> QED BY <1>1, <1>2

\* Whatever leaves the table, the locks and the transactions alone keeps the rest.
LEMMA Outside ==
    ASSUME IInv, TypeOK', UNCHANGED <<rows, lock>>,
           \A r \in Requests :
               /\ pc[r] \in Tx \/ pc'[r] \in Tx => pc'[r] = pc[r] /\ req'[r] = req[r]
               /\ pc'[r] # "idle" /\ req'[r].kind = "add" => req'[r].self # req'[r].target
    PROVE  IInv'
<1>1. TxInv'
  BY DEF IInv, TxInv, Tx, First, Second
<1>2. ViewInv'
  <2> SUFFICES ASSUME NEW r \in Requests, NEW p \in Players, NEW q \in Players,
                      req'[r].self = p, req'[r].target = q, pc'[r] \in {"accept", "apply"}
               PROVE  /\ pc'[r] = "accept" => CanAccept(p, q)'
                      /\ pc'[r] = "apply" => req'[r].kind = "add" /\ CanApply(p, q)'
    BY DEF ViewInv
  <2>1. pc'[r] = pc[r] /\ req'[r] = req[r]
    BY DEF Tx
  <2>2. CanAccept(p, q)' = CanAccept(p, q) /\ CanApply(p, q)' = CanApply(p, q)
    BY SameView
  <2> QED BY <2>1, <2>2 DEF IInv, ViewInv
<1>3. ApplicationsAreOneWay' /\ LimitsHold'
  BY DEF IInv, ApplicationsAreOneWay, LimitsHold, Count
<1> QED BY <1>1, <1>2, <1>3 DEF IInv

\* The initial table is within the limits and has no application between friends.
LEMMA InitHolds == Init => IInv
<1> SUFFICES ASSUME Init PROVE IInv
  OBVIOUS
<1> USE DEF Init
<1>1. rows \in [Players -> [Players -> {"none", "pending", "friend"}]]
  BY StartAssumption
<1>2. TypeOK
  BY <1>1 DEF TypeOK, Cmds
<1>3. TxInv /\ ViewInv
  BY DEF TxInv, ViewInv
<1>4. ApplicationsAreOneWay /\ LimitsHold
  BY StartAssumption DEF ApplicationsAreOneWay, LimitsHold, Count
<1> QED BY <1>2, <1>3, <1>4 DEF IInv

\* The agents' life touches memory and messages only.
LEMMA AgentStep ==
    ASSUME IInv, NEW p \in Players, Load(p) \/ Confirm(p) \/ Kick(p)
    PROVE  IInv'
<1>1. UNCHANGED <<rows, lock, pc, req>>
  BY DEF Load, Confirm, Kick
<1>2. /\ online' \in [Players -> {"out", "loading", "game"}]
      /\ friends' \in [Players -> SUBSET Players] /\ pending' \in [Players -> SUBSET Players]
  <2>1. CASE Load(p)  BY <2>1 DEF IInv, TypeOK, Load
  <2>2. CASE Confirm(p)  BY <2>2 DEF IInv, TypeOK, Confirm
  <2>3. CASE Kick(p)  BY <2>3 DEF IInv, TypeOK, Kick
  <2> QED BY <2>1, <2>2, <2>3
<1>3. notes' \in [Players -> [Players -> Seq(Cmds)]]
  <2>1. CASE Load(p) \/ Confirm(p)
    BY <2>1 DEF IInv, TypeOK, Load, Confirm
  <2>2. CASE Kick(p)
    <3>1. \A q \in Players : [notes[q] EXCEPT ![p] = <<>>] \in [Players -> Seq(Cmds)]
      BY DEF IInv, TypeOK
    <3> QED BY <2>2, <3>1 DEF Kick
  <2> QED BY <2>1, <2>2
<1>4. TypeOK'
  BY <1>1, <1>2, <1>3 DEF IInv, TypeOK
<1> QED BY <1>1, <1>4, Outside DEF IInv, TxInv

\* So does a notification.
LEMMA FriendNotifyStep ==
    ASSUME IInv, NEW p \in Players, NEW q \in Players, FriendNotify(p, q)
    PROVE  IInv'
<1>1. notes[p][q] \in Seq(Cmds)
  BY DEF IInv, TypeOK
<1>2. notes' \in [Players -> [Players -> Seq(Cmds)]]
  BY <1>1 DEF IInv, TypeOK, FriendNotify
<1>3. friends' \in [Players -> SUBSET Players] /\ pending' \in [Players -> SUBSET Players]
  BY DEF IInv, TypeOK, FriendNotify
<1>4. UNCHANGED <<rows, lock, online, pc, req>>
  BY DEF FriendNotify
<1>5. TypeOK'
  BY <1>2, <1>3, <1>4 DEF IInv, TypeOK, Reqs
<1> QED BY <1>4, <1>5, Outside DEF IInv, TxInv

\* A new request has no lock yet.
LEMMA RequestStep ==
    ASSUME IInv, NEW r \in Requests, NEW p \in Players, NEW q \in Players, Request(r, p, q)
    PROVE  IInv'
<1> USE DEF Begin
<1>1. PICK k \in {"add", "accept", "reject", "delete"}, place \in {"begin", "delete"} :
          /\ pc[r] = "idle"
          /\ req' = [req EXCEPT ![r] = [kind |-> k, self |-> p, target |-> q]]
          /\ pc' = [pc EXCEPT ![r] = place]
          /\ k = "add" => p # q
          /\ UNCHANGED <<rows, lock, online, notes>>
  BY DEF Request, FriendAdd, FriendDelete, FriendReject, FriendAccept
<1>2. friends' \in [Players -> SUBSET Players] /\ pending' \in [Players -> SUBSET Players]
  <2> USE DEF IInv, TypeOK
  <2>1. CASE FriendAdd(r, p, q)  BY <2>1 DEF FriendAdd
  <2>2. CASE FriendDelete(r, p, q)  BY <2>2 DEF FriendDelete
  <2>3. CASE FriendReject(r, p, q)  BY <2>3 DEF FriendReject
  <2>4. CASE FriendAccept(r, p, q)  BY <2>4 DEF FriendAccept
  <2> QED BY <2>1, <2>2, <2>3, <2>4 DEF Request
<1>3. TypeOK'
  BY <1>1, <1>2 DEF IInv, TypeOK, Reqs
<1>4. pc'[r] = place /\ req'[r].kind = k /\ req'[r].self = p /\ req'[r].target = q
      /\ \A s \in Requests \ {r} : pc'[s] = pc[s] /\ req'[s] = req[s]
  BY <1>1 DEF IInv, TypeOK
<1>5. \A s \in Requests :
          /\ pc[s] \in Tx \/ pc'[s] \in Tx => pc'[s] = pc[s] /\ req'[s] = req[s]
          /\ pc'[s] # "idle" /\ req'[s].kind = "add" => req'[s].self # req'[s].target
  BY <1>1, <1>4 DEF IInv, TxInv, Tx
<1> QED BY <1>1, <1>3, <1>5, Outside

\* The answer of the database, the undoing and the notification come after the unlocking.
LEMMA AnswerStep ==
    ASSUME IInv, NEW r \in Requests, Succeed(r) \/ Undo(r) \/ NotifyIfOnline(r)
    PROVE  IInv'
<1>1. /\ pc[r] \in {"accepted", "applied", "deleted", "failed"} \cup Cmds
      /\ UNCHANGED <<rows, lock, online, req>>
  BY DEF Succeed, Undo, NotifyIfOnline, memVars
<1>2. req[r] \in Reqs
  BY <1>1 DEF IInv, TypeOK, Cmds
<1>3. req[r].self \in Players /\ req[r].target \in Players
      /\ req[r].kind \in {"add", "accept", "reject", "delete"}
  BY <1>2 DEF Reqs
<1>4. PICK p \in Players, q \in Players : p = req[r].self /\ q = req[r].target
  BY <1>3
<1>5. /\ friends \in [Players -> SUBSET Players] /\ pending \in [Players -> SUBSET Players]
      /\ notes \in [Players -> [Players -> Seq(Cmds)]]
  BY DEF IInv, TypeOK
<1>6. friends' \in [Players -> SUBSET Players]
  <2>1. \/ friends' = friends
        \/ friends' = [friends EXCEPT ![p] = friends[p] \cup {q}]
        \/ friends' = [friends EXCEPT ![p] = friends[p] \ {q}]
    <3>1. CASE Succeed(r)  BY <1>4, <3>1 DEF Succeed
    <3>2. CASE Undo(r) /\ req[r].kind = "accept"  BY <1>4, <3>2 DEF Undo
    <3>3. CASE Undo(r) /\ req[r].kind = "delete"  BY <1>4, <3>3 DEF Undo
    <3>4. CASE Undo(r) /\ req[r].kind \in {"add", "reject"}  BY <3>4 DEF Undo
    <3>5. CASE NotifyIfOnline(r)  BY <3>5 DEF NotifyIfOnline, memVars
    <3> QED BY <1>3, <3>1, <3>2, <3>3, <3>4, <3>5
  <2> QED BY <1>5, <2>1, MemoryType
<1>7. pending' \in [Players -> SUBSET Players]
  <2>1. \/ pending' = pending
        \/ pending' = [pending EXCEPT ![p] = pending[p] \cup {q}]
        \/ pending' = [pending EXCEPT ![p] = pending[p] \ {q}]
    <3>1. CASE Succeed(r)  BY <1>4, <3>1 DEF Succeed
    <3>2. CASE Undo(r) /\ req[r].kind \in {"accept", "reject"}  BY <1>4, <3>2 DEF Undo
    <3>3. CASE Undo(r) /\ req[r].kind \in {"add", "delete"}  BY <3>3 DEF Undo
    <3>4. CASE NotifyIfOnline(r)  BY <3>4 DEF NotifyIfOnline, memVars
    <3> QED BY <1>3, <3>1, <3>2, <3>3, <3>4
  <2> QED BY <1>5, <2>1, MemoryType
<1>8. notes' \in [Players -> [Players -> Seq(Cmds)]]
  <2>1. CASE Succeed(r) \/ Undo(r)  BY <1>5, <2>1 DEF Succeed, Undo
  <2>2. CASE NotifyIfOnline(r)
    <3>1. pc[r] \in Cmds /\ notes[p][q] \in Seq(Cmds)
      BY <1>5, <2>2 DEF NotifyIfOnline
    <3>2. Append(notes[p][q], pc[r]) \in Seq(Cmds)
      BY <3>1
    <3>3. notes' = notes \/ notes' = [notes EXCEPT ![p][q] = Append(notes[p][q], pc[r])]
      BY <1>4, <2>2 DEF NotifyIfOnline
    <3>4. \A t \in Seq(Cmds) :
              [notes EXCEPT ![p][q] = t] \in [Players -> [Players -> Seq(Cmds)]]
      BY <1>5, CellWritten
    <3> QED BY <1>5, <3>2, <3>3, <3>4
  <2> QED BY <2>1, <2>2
<1>9. PICK place \in {"done"} \cup Cmds : pc' = [pc EXCEPT ![r] = place]
  <2>1. CASE Succeed(r)
    <3> USE <2>1, <1>3 DEF Succeed, Cmds
    <3>1. CASE req[r].kind = "add"
      BY <3>1
    <3> QED BY <3>1
  <2>2. CASE Undo(r) \/ NotifyIfOnline(r)
    BY <2>2 DEF Undo, NotifyIfOnline
  <2> QED BY <2>1, <2>2
<1>10. TypeOK'
  BY <1>1, <1>2, <1>6, <1>7, <1>8, <1>9, ZenonT(30) DEF IInv, TypeOK, Cmds
<1>11. pc'[r] = place /\ \A s \in Requests \ {r} : pc'[s] = pc[s]
  BY <1>9 DEF IInv, TypeOK
<1>12. pc[r] \notin Tx /\ place \notin Tx /\ pc[r] # "idle"
  BY <1>1 DEF Tx, Cmds
<1> QED BY <1>1, <1>10, <1>11, <1>12, Outside DEF IInv, TxInv

\* A transaction that ends, one way or the other, leaves its locks to nobody.
LEMMA Unlocked ==
    ASSUME IInv, NEW r \in Requests, NEW place \in {"accepted", "applied", "failed"},
           pc[r] \in {"begin", "one", "both", "accept", "apply", "delete"},
           pc' = [pc EXCEPT ![r] = place], Unlock(r), UNCHANGED <<memVars, req, notes>>,
           rows' \in [Players -> [Players -> {"none", "pending", "friend"}]]
    PROVE  TypeOK' /\ TxInv'
<1>1. pc'[r] = place /\ \A s \in Requests \ {r} : pc'[s] = pc[s]
  BY DEF IInv, TypeOK
<1>2. TypeOK'
  <2> USE DEF IInv, TypeOK
  <2>1. lock' \in [Players -> Requests \cup {Free}]
        /\ \A x \in Players : lock'[x] \in {lock[x], Free} \ {r}
    BY DEF Unlock
  <2>2. pc' \in [Requests -> {"idle", "begin", "one", "both", "accept", "apply", "delete",
                              "accepted", "applied", "deleted", "failed", "done"} \cup Cmds]
    OBVIOUS
  <2>3. \A s \in Requests : pc'[s] # "idle" => req[s] \in Reqs
    BY <1>1
  <2>4. \A x \in Players, s \in Requests : lock'[x] = s => lock[x] = s /\ s # r
    BY <2>1
  <2>5. \A x \in Players, s \in Requests : lock'[x] = s =>
            /\ pc'[s] \in {"one", "both", "accept", "apply"}
            /\ x \in {req[s].self, req[s].target}
    <3> SUFFICES ASSUME NEW x \in Players, NEW s \in Requests, lock'[x] = s
                 PROVE  pc'[s] \in {"one", "both", "accept", "apply"}
                        /\ x \in {req[s].self, req[s].target}
      OBVIOUS
    <3>1. lock[x] = s /\ s # r
      BY <2>4
    <3>2. pc[s] \in {"one", "both", "accept", "apply"} /\ x \in {req[s].self, req[s].target}
      BY <3>1
    <3> QED BY <1>1, <3>1, <3>2
  <2> QED BY <2>1, <2>2, <2>3, <2>5 DEF memVars
<1>3. TxInv'
  <2>1. \A s \in Requests \ {r} : \A x \in Players : lock[x] = s => lock'[x] = s
    BY DEF Unlock, IInv, TypeOK
  <2>2. \A s \in Requests : pc[s] # "idle" => First(s) \in Players /\ Second(s) \in Players
    BY FirstSecond DEF IInv
  <2>3. \A s \in Requests : First(s)' = First(s) /\ Second(s)' = Second(s)
    BY DEF First, Second
  <2>4. \A s \in Requests \ {r} :
            /\ pc'[s] = "one" => lock'[First(s)] = s
            /\ pc'[s] \in {"both", "accept", "apply"} =>
                   lock'[First(s)] = s /\ lock'[Second(s)] = s
    <3> TAKE s \in Requests \ {r}
    <3>1. pc'[s] = pc[s]
      BY <1>1
    <3>2. pc[s] = "one" => lock[First(s)] = s /\ First(s) \in Players
      BY <2>2 DEF IInv, TxInv
    <3>3. pc[s] \in {"both", "accept", "apply"} =>
              /\ lock[First(s)] = s /\ First(s) \in Players
              /\ lock[Second(s)] = s /\ Second(s) \in Players
      BY <2>2 DEF IInv, TxInv
    <3> QED BY <2>1, <3>1, <3>2, <3>3
  <2>5. \A s \in Requests : req[s].kind = "add" /\ pc'[s] # "idle" =>
            req[s].self # req[s].target
    BY <1>1 DEF IInv, TxInv
  <2> QED BY <1>1, <2>3, <2>4, <2>5 DEF TxInv
<1> QED BY <1>2, <1>3

\* Locks are taken when they are free.
LEMMA LockStep == ASSUME IInv, NEW r \in Requests, Lock(r) PROVE IInv'
<1>1. PICK step \in {<<"begin", First(r), "one">>, <<"one", Second(r), "both">>} :
          /\ pc[r] = step[1] /\ lock[step[2]] = Free
          /\ lock' = [lock EXCEPT ![step[2]] = r]
          /\ pc' = [pc EXCEPT ![r] = step[3]]
          /\ UNCHANGED <<rows, memVars, req, notes>>
  BY DEF Lock
<1>2. First(r) \in Players /\ Second(r) \in Players
      /\ {First(r), Second(r)} = {req[r].self, req[r].target}
  BY <1>1, FirstSecond DEF IInv
<1>3. TypeOK'
  <2>1. lock' \in [Players -> Requests \cup {Free}]
    BY <1>1, <1>2 DEF IInv, TypeOK
  <2>2. pc[r] \in {"begin", "one"} /\ req[r] \in Reqs /\ step[3] \in {"one", "both"}
    BY <1>1 DEF IInv, TypeOK
  <2>3. pc' \in [Requests -> {"idle", "begin", "one", "both", "accept", "apply", "delete",
                              "accepted", "applied", "deleted", "failed", "done"} \cup Cmds]
    BY <1>1, <2>2 DEF IInv, TypeOK
  <2>4. \A s \in Requests : pc'[s] # "idle" => req'[s] \in Reqs
    BY <1>1, <2>2 DEF IInv, TypeOK
  <2>5. step[2] \in {req[r].self, req[r].target}
    BY <1>1, <1>2
  <2>6. \A p \in Players, s \in Requests : lock'[p] = s =>
            /\ pc'[s] \in {"one", "both", "accept", "apply"}
            /\ p \in {req'[s].self, req'[s].target}
    BY <1>1, <2>2, <2>5 DEF IInv, TypeOK
  <2> QED BY <1>1, <2>1, <2>3, <2>4, <2>6 DEF IInv, TypeOK, memVars
<1>4. TxInv'
  BY <1>1, <1>2, FirstSecond DEF IInv, TypeOK, TxInv, First, Second
<1>5. ViewInv'
  <2> SUFFICES ASSUME NEW s \in Requests, NEW p \in Players, NEW q \in Players,
                      req[s].self = p, req[s].target = q, pc'[s] \in {"accept", "apply"}
               PROVE  /\ pc'[s] = "accept" => CanAccept(p, q)'
                      /\ pc'[s] = "apply" => req[s].kind = "add" /\ CanApply(p, q)'
    BY <1>1 DEF ViewInv
  <2>1. pc'[s] = pc[s]
    BY <1>1 DEF IInv, TypeOK
  <2>2. CanAccept(p, q)' = CanAccept(p, q) /\ CanApply(p, q)' = CanApply(p, q)
    BY <1>1, SameView
  <2> QED BY <2>1, <2>2 DEF IInv, ViewInv
<1>6. ApplicationsAreOneWay' /\ LimitsHold'
  BY <1>1 DEF IInv, ApplicationsAreOneWay, LimitsHold, Count
<1> QED BY <1>3, <1>4, <1>5, <1>6 DEF IInv

\* A transaction decides on rows it has locked, and gives its locks back otherwise.
LEMMA ReadStep == ASSUME IInv, NEW r \in Requests, Read(r) PROVE IInv'
<1>1. PICK p \in Players, q \in Players : p = req[r].self /\ q = req[r].target
  BY FirstSecond DEF IInv, Read, Reqs
<1>2. pc[r] = "both" /\ UNCHANGED <<rows, memVars, req, notes>>
  BY DEF Read
<1>3. PICK place \in {"accept", "apply", "failed"} : pc' = [pc EXCEPT ![r] = place]
  BY DEF Read
<1>4. pc'[r] = place /\ \A s \in Requests \ {r} : pc'[s] = pc[s]
  BY <1>3 DEF IInv, TypeOK
<1>5. \/ place = "accept" /\ CanAccept(p, q) /\ lock' = lock
      \/ place = "apply" /\ req[r].kind = "add" /\ CanApply(p, q) /\ lock' = lock
      \/ place = "failed" /\ Unlock(r)
  <2>1. ~(rows[p][q] = "pending" /\ Already(p, q))
    BY DEF IInv, ApplicationsAreOneWay, Already
  <2>2. \/ CanAccept(p, q) /\ pc' = [pc EXCEPT ![r] = "accept"] /\ lock' = lock
        \/ /\ req[r].kind = "add" /\ CanApply(p, q)
           /\ pc' = [pc EXCEPT ![r] = "apply"] /\ lock' = lock
        \/ pc' = [pc EXCEPT ![r] = "failed"] /\ Unlock(r)
    BY <1>1, <2>1 DEF Read
  <2>3. \A x : pc' = [pc EXCEPT ![r] = x] => x = place
    BY <1>4 DEF IInv, TypeOK
  <2> QED BY <2>2, <2>3
<1>6. TypeOK'
  <2> USE DEF IInv, TypeOK
  <2>1. lock' \in [Players -> Requests \cup {Free}]
        /\ \A x \in Players : lock'[x] \in {lock[x], Free}
                              /\ (place = "failed" => lock'[x] # r)
    BY <1>5 DEF Unlock
  <2>2. pc' \in [Requests -> {"idle", "begin", "one", "both", "accept", "apply", "delete",
                              "accepted", "applied", "deleted", "failed", "done"} \cup Cmds]
    BY <1>3
  <2>3. \A x \in Players, s \in Requests : lock'[x] = s =>
            /\ pc'[s] \in {"one", "both", "accept", "apply"}
            /\ x \in {req'[s].self, req'[s].target}
    <3> SUFFICES ASSUME NEW x \in Players, NEW s \in Requests, lock'[x] = s
                 PROVE  pc'[s] \in {"one", "both", "accept", "apply"}
                        /\ x \in {req[s].self, req[s].target}
      BY <1>2
    <3>1. lock[x] = s /\ (s = r => place \in {"accept", "apply"})
      BY <2>1
    <3>2. pc[s] \in {"one", "both", "accept", "apply"} /\ x \in {req[s].self, req[s].target}
      BY <3>1
    <3> QED BY <1>4, <3>1, <3>2
  <2> QED BY <1>2, <1>4, <2>1, <2>2, <2>3 DEF memVars
<1>7. TxInv'
  <2>1. \A s \in Requests \ {r} : \A x \in Players : lock[x] = s => lock'[x] = s
    BY <1>5 DEF Unlock
  <2>2. \A s \in Requests : pc[s] # "idle" => First(s) \in Players /\ Second(s) \in Players
    BY FirstSecond DEF IInv
  <2>3. \A s \in Requests : First(s)' = First(s) /\ Second(s)' = Second(s)
    BY <1>2 DEF First, Second
  <2> SUFFICES ASSUME NEW s \in Requests
               PROVE  /\ pc'[s] = "one" => lock'[First(s)] = s
                      /\ pc'[s] \in {"both", "accept", "apply"} =>
                             lock'[First(s)] = s /\ lock'[Second(s)] = s
                      /\ pc'[s] # "idle" /\ req'[s].kind = "add" =>
                             req'[s].self # req'[s].target
    BY <2>3 DEF TxInv
  <2>4. CASE s # r
    <3>1. pc'[s] = pc[s] /\ req'[s] = req[s]
      BY <1>2, <1>4, <2>4
    <3> QED BY <2>1, <2>2, <2>4, <3>1 DEF IInv, TxInv
  <2>5. CASE s = r
    <3> QED BY <1>2, <1>4, <1>5, <2>2, <2>5 DEF IInv, TxInv
  <2> QED BY <2>4, <2>5
<1>8. ViewInv'
  <2> SUFFICES ASSUME NEW s \in Requests, NEW x \in Players, NEW y \in Players,
                      req[s].self = x, req[s].target = y
               PROVE  /\ pc'[s] = "accept" => CanAccept(x, y)'
                      /\ pc'[s] = "apply" => req[s].kind = "add" /\ CanApply(x, y)'
    BY <1>2 DEF ViewInv
  <2>1. CanAccept(x, y)' = CanAccept(x, y) /\ CanApply(x, y)' = CanApply(x, y)
    BY <1>2, SameView
  <2> QED BY <1>1, <1>4, <1>5, <2>1 DEF IInv, ViewInv
<1>9. ApplicationsAreOneWay' /\ LimitsHold'
  BY <1>2 DEF IInv, ApplicationsAreOneWay, LimitsHold, Count
<1> QED BY <1>6, <1>7, <1>8, <1>9 DEF IInv

\* A transaction writes what it has read to be possible, and gives its locks back.
LEMMA WriteStep == ASSUME IInv, NEW r \in Requests, Write(r) PROVE IInv'
<1>1. pc[r] \in {"accept", "apply"} /\ Unlock(r) /\ UNCHANGED <<memVars, req, notes>>
  BY DEF Write
<1>2. PICK p \in Players, q \in Players : p = req[r].self /\ q = req[r].target
  BY <1>1, FirstSecond DEF IInv, Reqs
<1>3. PICK place \in {"accepted", "applied", "failed"} : pc' = [pc EXCEPT ![r] = place]
  BY DEF Write
<1>4. pc'[r] = place /\ \A s \in Requests \ {r} : pc'[s] = pc[s]
  BY <1>3 DEF IInv, TypeOK
<1>5. \/ CanAccept(p, q) /\ rows' = [rows EXCEPT ![p][q] = "friend", ![q][p] = "friend"]
      \/ CanApply(p, q) /\ p # q /\ rows' = [rows EXCEPT ![q][p] = "pending"]
  BY <1>1, <1>2 DEF Write, IInv, ViewInv, TxInv
<1>6. p # q
  BY <1>5 DEF IInv, ApplicationsAreOneWay, CanAccept
<1>7. rows \in [Players -> [Players -> {"none", "pending", "friend"}]]
  BY DEF IInv, TypeOK
<1>8. /\ rows' \in [Players -> [Players -> {"none", "pending", "friend"}]]
      /\ \A x \in Players \ {p, q} : rows'[x] = rows[x]
      /\ \A x, y \in Players :
            rows'[x][y] = rows[x][y] \/ (x = p /\ y = q) \/ (x = q /\ y = p)
      /\ \/ /\ CanAccept(p, q)
            /\ rows'[p][q] = "friend" /\ rows'[q][p] = "friend"
         \/ /\ CanApply(p, q)
            /\ rows'[q][p] = "pending" /\ rows'[p] = rows[p]
  BY <1>5, <1>6, <1>7
<1>9. TypeOK' /\ TxInv'
  BY <1>1, <1>3, <1>8, Unlocked
<1>10. ViewInv'
  <2> SUFFICES ASSUME NEW s \in Requests, NEW x \in Players, NEW y \in Players,
                      req[s].self = x, req[s].target = y, pc'[s] \in {"accept", "apply"}
               PROVE  /\ pc'[s] = "accept" => CanAccept(x, y)'
                      /\ pc'[s] = "apply" => req[s].kind = "add" /\ CanApply(x, y)'
    BY <1>1 DEF ViewInv
  <2>1. s # r /\ pc'[s] = pc[s]
    BY <1>4
  <2>2. {p, q} \cap {x, y} = {}
    BY <1>1, <1>2, <2>1, Apart DEF IInv
  <2>3. rows'[x] = rows[x] /\ rows'[y] = rows[y]
    BY <1>8, <2>2
  <2>4. CanAccept(x, y)' = CanAccept(x, y) /\ CanApply(x, y)' = CanApply(x, y)
    BY <2>3, SameView
  <2> QED BY <2>1, <2>4 DEF IInv, ViewInv
<1>11. ApplicationsAreOneWay'
  <2>1. CASE CanAccept(p, q) /\ rows'[p][q] = "friend" /\ rows'[q][p] = "friend"
    BY <1>8, <2>1 DEF IInv, ApplicationsAreOneWay
  <2>2. CASE CanApply(p, q) /\ rows'[q][p] = "pending" /\ rows'[p] = rows[p]
    <3>1. rows[p][q] = "none"
      BY <2>2 DEF CanApply
    <3> QED BY <1>8, <2>2, <3>1 DEF IInv, ApplicationsAreOneWay
  <2> QED BY <1>8, <2>1, <2>2
<1>12. LimitsHold'
  <2> SUFFICES ASSUME NEW x \in Players
               PROVE  Count(x, "friend")' <= MaxFriends /\ Count(x, "pending")' <= MaxPending
    BY DEF LimitsHold
  <2>0. /\ Count(x, "friend") \in Nat /\ Count(x, "pending") \in Nat
        /\ Count(x, "friend")' \in Nat /\ Count(x, "pending")' \in Nat
        /\ Count(x, "friend") <= MaxFriends /\ Count(x, "pending") <= MaxPending
    BY CountType, CountTypeNext DEF IInv, LimitsHold
  <2>1. CASE x \notin {p, q} \/ rows'[x] = rows[x]
    BY <1>8, <2>0, <2>1, CountSame
  <2>2. CASE x \in {p, q} /\ CanAccept(p, q) /\ rows'[p][q] = "friend" /\ rows'[q][p] = "friend"
    <3>1. PICK y \in {p, q} : {x, y} = {p, q}
      BY <2>2
    <3>2. \A z \in Players \ {y} : rows'[x][z] = rows[x][z]
      BY <1>6, <1>8, <2>2, <3>1
    <3>3. Count(x, "friend")' <= Count(x, "friend") + 1
      BY <3>1, <3>2, CountOneMore
    <3>4. Count(x, "friend") < MaxFriends
      BY <2>2 DEF CanAccept, HasRoom
    <3>5. Count(x, "pending")' <= Count(x, "pending")
      BY <2>2, <3>1, <3>2, CountFewer
    <3> QED BY <2>0, <3>3, <3>4, <3>5
  <2>3. CASE x = q /\ CanApply(p, q) /\ rows'[q][p] = "pending"
    <3>1. \A z \in Players \ {p} : rows'[x][z] = rows[x][z]
      BY <1>6, <1>8, <2>3
    <3>2. Count(x, "pending")' <= Count(x, "pending") + 1
      BY <3>1, CountOneMore
    <3>3. Count(x, "pending") < MaxPending
      BY <2>3 DEF CanApply
    <3>4. Count(x, "friend")' <= Count(x, "friend")
      BY <2>3, <3>1, CountFewer
    <3> QED BY <2>0, <3>2, <3>3, <3>4
  <2> QED BY <1>8, <2>1, <2>2, <2>3
<1> QED BY <1>9, <1>10, <1>11, <1>12 DEF IInv

\* A rollback gives back the locks.
LEMMA FailStep == ASSUME IInv, NEW r \in Requests, Fail(r) PROVE IInv'
<1>1. /\ pc[r] \in {"begin", "one", "both", "accept", "apply", "delete"}
      /\ pc' = [pc EXCEPT ![r] = "failed"] /\ Unlock(r)
      /\ UNCHANGED <<rows, memVars, req, notes>>
  BY DEF Fail
<1>2. pc'[r] = "failed" /\ \A s \in Requests \ {r} : pc'[s] = pc[s]
  BY <1>1 DEF IInv, TypeOK
<1>3. TypeOK' /\ TxInv'
  BY <1>1, Unlocked DEF IInv, TypeOK
<1>5. ViewInv'
  <2> SUFFICES ASSUME NEW s \in Requests, NEW x \in Players, NEW y \in Players,
                      req[s].self = x, req[s].target = y, pc'[s] \in {"accept", "apply"}
               PROVE  /\ pc'[s] = "accept" => CanAccept(x, y)'
                      /\ pc'[s] = "apply" => req[s].kind = "add" /\ CanApply(x, y)'
    BY <1>1 DEF ViewInv
  <2>1. pc'[s] = pc[s]
    BY <1>2
  <2>2. CanAccept(x, y)' = CanAccept(x, y) /\ CanApply(x, y)' = CanApply(x, y)
    BY <1>1, SameView
  <2> QED BY <2>1, <2>2 DEF IInv, ViewInv
<1>6. ApplicationsAreOneWay' /\ LimitsHold'
  BY <1>1 DEF IInv, ApplicationsAreOneWay, LimitsHold, Count
<1> QED BY <1>3, <1>5, <1>6 DEF IInv

\* A delete waits for rows a transaction has decided on, and only makes room.
LEMMA DeleteStep == ASSUME IInv, NEW r \in Requests, Delete(r) PROVE IInv'
<1>1. pc[r] = "delete" /\ UNCHANGED <<lock, memVars, req, notes>>
  BY DEF Delete
<1>2. PICK p \in Players, q \in Players : p = req[r].self /\ q = req[r].target
  BY <1>1, FirstSecond DEF IInv, Reqs
<1>3. PICK place \in {"deleted", "failed"} : pc' = [pc EXCEPT ![r] = place]
  BY DEF Delete
<1>4. pc'[r] = place /\ \A s \in Requests \ {r} : pc'[s] = pc[s]
  BY <1>3 DEF IInv, TypeOK
<1>5. /\ ~RowLocked(p, q)
      /\ \/ rows' = [rows EXCEPT ![p][q] = "none", ![q][p] = "none"] /\ ~RowLocked(q, p)
         \/ rows' = [rows EXCEPT ![p][q] = "none"]
  BY <1>2 DEF Delete
<1>6. /\ rows' \in [Players -> [Players -> {"none", "pending", "friend"}]]
      /\ \A x, y \in Players :
            \/ rows'[x][y] = rows[x][y]
            \/ rows'[x][y] = "none" /\ x = p /\ y = q
            \/ rows'[x][y] = "none" /\ x = q /\ y = p /\ ~RowLocked(q, p)
  <2>1. rows \in [Players -> [Players -> {"none", "pending", "friend"}]]
    BY DEF IInv, TypeOK
  <2>2. CASE rows' = [rows EXCEPT ![p][q] = "none", ![q][p] = "none"] /\ ~RowLocked(q, p)
    <3>1. PICK t : t = [rows EXCEPT ![p][q] = "none"]
      OBVIOUS
    <3>2. /\ t \in [Players -> [Players -> {"none", "pending", "friend"}]]
          /\ \A x, y \in Players : t[x][y] = IF x = p /\ y = q THEN "none" ELSE rows[x][y]
      BY <2>1, <3>1, CellWritten
    <3>3. PICK u : u = [t EXCEPT ![q][p] = "none"]
      OBVIOUS
    <3>4. /\ u \in [Players -> [Players -> {"none", "pending", "friend"}]]
          /\ \A x, y \in Players : u[x][y] = IF x = q /\ y = p THEN "none" ELSE t[x][y]
      <4>1. \A f \in [Players -> [Players -> {"none", "pending", "friend"}]] :
                /\ [f EXCEPT ![q][p] = "none"]
                       \in [Players -> [Players -> {"none", "pending", "friend"}]]
                /\ \A x, y \in Players :
                       [f EXCEPT ![q][p] = "none"][x][y] =
                           IF x = q /\ y = p THEN "none" ELSE f[x][y]
        BY CellWritten
      <4> QED BY <3>2, <3>3, <4>1
    <3>5. rows' = u
      BY <2>2, <3>1, <3>3
    <3>6. \A x, y \in Players :
              \/ u[x][y] = rows[x][y]
              \/ u[x][y] = "none" /\ x = p /\ y = q
              \/ u[x][y] = "none" /\ x = q /\ y = p
      <4> TAKE x \in Players, y \in Players
      <4>1. u[x][y] = IF x = q /\ y = p THEN "none" ELSE t[x][y]
        BY <3>4
      <4>2. t[x][y] = IF x = p /\ y = q THEN "none" ELSE rows[x][y]
        BY <3>2
      <4> QED BY <4>1, <4>2
    <3>7. \A x, y \in Players :
              \/ rows'[x][y] = rows[x][y]
              \/ rows'[x][y] = "none" /\ x = p /\ y = q
              \/ rows'[x][y] = "none" /\ x = q /\ y = p
      BY <3>5, <3>6
    <3>8. rows' \in [Players -> [Players -> {"none", "pending", "friend"}]]
      BY <3>4, <3>5
    <3>9. ~RowLocked(q, p)
      BY <2>2
    <3> QED BY <3>7, <3>8, <3>9
  <2>3. CASE rows' = [rows EXCEPT ![p][q] = "none"]
    <3>1. /\ rows' \in [Players -> [Players -> {"none", "pending", "friend"}]]
          /\ \A x, y \in Players : rows'[x][y] = IF x = p /\ y = q THEN "none" ELSE rows[x][y]
      BY <2>1, <2>3, CellWritten
    <3> QED BY <3>1
  <2> QED BY <1>5, <2>2, <2>3
<1>7. TypeOK'
  <2> USE DEF IInv, TypeOK
  <2>1. pc' \in [Requests -> {"idle", "begin", "one", "both", "accept", "apply", "delete",
                              "accepted", "applied", "deleted", "failed", "done"} \cup Cmds]
    BY <1>3
  <2>2. \A s \in Requests : pc'[s] # "idle" => req[s] \in Reqs
    BY <1>1, <1>4
  <2>3. \A x \in Players, s \in Requests : lock[x] = s =>
            /\ pc'[s] \in {"one", "both", "accept", "apply"}
            /\ x \in {req[s].self, req[s].target}
    BY <1>1, <1>4
  <2> QED BY <1>1, <1>6, <2>1, <2>2, <2>3 DEF memVars
<1>8. TxInv'
  BY <1>1, <1>3, <1>4 DEF IInv, TxInv, First, Second
<1>9. ViewInv'
  <2> SUFFICES ASSUME NEW s \in Requests, NEW x \in Players, NEW y \in Players,
                      req[s].self = x, req[s].target = y, pc'[s] \in {"accept", "apply"}
               PROVE  /\ pc'[s] = "accept" => CanAccept(x, y)'
                      /\ pc'[s] = "apply" => req[s].kind = "add" /\ CanApply(x, y)'
    BY <1>1 DEF ViewInv
  <2>1. pc'[s] = pc[s]
    BY <1>4
  <2>2. \A u \in {x, y}, v \in Players : rows'[u][v] = rows[u][v]
    <3> SUFFICES ASSUME NEW u \in {x, y}, NEW v \in Players, rows[u][v] # "none"
                 PROVE  rows'[u][v] = rows[u][v]
      BY <1>6
    <3>1. RowLocked(u, v)
      BY <2>1 DEF RowLocked
    <3>2. ~(u = p /\ v = q)
      BY <1>5, <3>1
    <3>3. ~(u = q /\ v = p /\ ~RowLocked(q, p))
      BY <3>1
    <3> QED BY <1>6, <3>2, <3>3
  <2>3. rows'[x] = rows[x] /\ rows'[y] = rows[y]
    <3>1. /\ rows[x] \in [Players -> {"none", "pending", "friend"}]
          /\ rows[y] \in [Players -> {"none", "pending", "friend"}]
          /\ rows'[x] \in [Players -> {"none", "pending", "friend"}]
          /\ rows'[y] \in [Players -> {"none", "pending", "friend"}]
      <4>1. rows \in [Players -> [Players -> {"none", "pending", "friend"}]]
        BY DEF IInv, TypeOK
      <4>2. rows' \in [Players -> [Players -> {"none", "pending", "friend"}]]
        BY <1>6, <4>1
      <4>3. x \in Players /\ y \in Players
        OBVIOUS
      <4> QED BY <4>1, <4>2, <4>3
    <3>2. \A v \in Players : rows'[x][v] = rows[x][v] /\ rows'[y][v] = rows[y][v]
      BY <2>2
    <3>3. \A f, g \in [Players -> {"none", "pending", "friend"}] :
              (\A v \in Players : f[v] = g[v]) => f = g
      BY SameRow
    <3>4. rows'[x] = rows[x]
      <4>1. PICK f, g : f = rows'[x] /\ g = rows[x]
        OBVIOUS
      <4>2. /\ f \in [Players -> {"none", "pending", "friend"}]
            /\ g \in [Players -> {"none", "pending", "friend"}]
        BY <3>1, <4>1
      <4>3. \A v \in Players : f[v] = g[v]
        BY <3>2, <4>1
      <4>4. f = g
        BY <3>3, <4>2, <4>3
      <4> QED BY <4>1, <4>4
    <3>5. rows'[y] = rows[y]
      <4>1. PICK f, g : f = rows'[y] /\ g = rows[y]
        OBVIOUS
      <4>2. /\ f \in [Players -> {"none", "pending", "friend"}]
            /\ g \in [Players -> {"none", "pending", "friend"}]
        BY <3>1, <4>1
      <4>3. \A v \in Players : f[v] = g[v]
        BY <3>2, <4>1
      <4>4. f = g
        BY <3>3, <4>2, <4>3
      <4> QED BY <4>1, <4>4
    <3> QED BY <3>4, <3>5
  <2>4. CanAccept(x, y)' = CanAccept(x, y) /\ CanApply(x, y)' = CanApply(x, y)
    BY <2>3, SameView
  <2> QED BY <2>1, <2>4 DEF IInv, ViewInv
<1>10. ApplicationsAreOneWay'
  BY <1>6 DEF IInv, ApplicationsAreOneWay
<1>11. LimitsHold'
  <2> SUFFICES ASSUME NEW x \in Players
               PROVE  Count(x, "friend")' <= MaxFriends /\ Count(x, "pending")' <= MaxPending
    BY DEF LimitsHold
  <2>1. Count(x, "friend")' <= Count(x, "friend") /\ Count(x, "pending")' <= Count(x, "pending")
    BY <1>6, CountFewer
  <2> QED BY <2>1, CountType, CountTypeNext DEF IInv, LimitsHold
<1> QED BY <1>7, <1>8, <1>9, <1>10, <1>11 DEF IInv

\* Every step keeps the invariant.
LEMMA NextHolds == ASSUME IInv, [Next]_vars PROVE IInv'
<1>1. ASSUME NEW p \in Players, Load(p) \/ Confirm(p) \/ Kick(p) PROVE IInv'
  BY <1>1, AgentStep
<1>2. ASSUME NEW p \in Players, NEW q \in Players, FriendNotify(p, q) PROVE IInv'
  BY <1>2, FriendNotifyStep
<1>3. ASSUME NEW r \in Requests, NEW p \in Players, NEW q \in Players, Request(r, p, q)
      PROVE  IInv'
  BY <1>3, RequestStep
<1>4. ASSUME NEW r \in Requests, Progress(r) \/ Fail(r) PROVE IInv'
  BY <1>4, LockStep, ReadStep, WriteStep, DeleteStep, AnswerStep, FailStep DEF Progress
<1>5. CASE UNCHANGED vars
  <2>1. TypeOK'
    BY <1>5 DEF vars, memVars, IInv, TypeOK
  <2> QED BY <1>5, <2>1, Outside DEF vars, memVars, IInv, TxInv
<1> QED BY <1>1, <1>2, <1>3, <1>4, <1>5 DEF Next

\* The invariant holds of every reachable state.
LEMMA Invariance == Spec => []IInv
<1>1. Init => IInv
  BY InitHolds
<1>2. IInv /\ [Next]_vars => IInv'
  BY NextHolds
<1> QED BY <1>1, <1>2, PTL DEF Spec

\* Table, locks, memory, requests and messages stay well typed; a lock belongs to a
\* transaction of that player (add_or_accept_atomic, accept_pending_atomic).
THEOREM TypeCorrect == Spec => []TypeOK
<1>1. IInv => TypeOK
  BY DEF IInv
<1> QED BY <1>1, Invariance, PTL

\* Nobody gets more than 50 friends or 20 applications (the checks of
\* add_or_accept_atomic and accept_pending_atomic), however requests cross.
THEOREM NobodyOverTheLimits == Spec => []LimitsHold
<1>1. IInv => LimitsHold
  BY DEF IInv
<1> QED BY <1>1, Invariance, PTL

\* No application both ways or between friends: accept_pending_atomic never takes the
\* return that leaves its transaction open.
THEOREM ApplicationsStayOneWay == Spec => []ApplicationsAreOneWay
<1>1. IInv => ApplicationsAreOneWay
  BY DEF IInv
<1> QED BY <1>1, Invariance, PTL
=============================================================================
