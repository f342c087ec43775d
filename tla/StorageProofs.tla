---------------------------- MODULE StorageProofs ----------------------------
(***************************************************************************)
(* Proofs about how players' data is stored, in two independent parts.     *)
(* Saving: what was saved is not lost and what dbsync brought to mysql     *)
(* stays, for any number of players, changes and faults.  MysqlProxy: the  *)
(* mysql proxy, for any pool, callers and length of transaction, and that  *)
(* the pool implements AtomicTx, which excepts the transactions whose      *)
(* connection the socket channel replaced by itself.                       *)
(***************************************************************************)
EXTENDS MysqlProxy, Saving, SequenceTheorems, TLAPS

(* Saving. *)

Resting == {"idle", "dead"}
Active(p, k) == saver[p][k].pc \in {"set", "marked"}

\* An agent that is gone holds nothing; saves carry what the memory holds or held, and
\* only the kick waits for dbsync.  Nothing changes once the kick saves.
AgentInv(p) ==
    /\ agent[p] = "out" => /\ mem[p] = None /\ ~flag[p]
                           /\ \A k \in Kinds : saver[p][k].pc = "idle"
    /\ agent[p] # "out" => mem[p] # None
    /\ \A k \in Kinds : saver[p][k].pc \notin Resting => saver[p][k].v \in 1..mem[p]
    /\ saver[p]["kick"].pc # "dead"
    /\ saver[p]["kick"].pc # "idle" =>
          /\ agent[p] \in {"kicking", "kicked"}
          /\ \A k \in Kinds : saver[p][k].pc \notin Resting => saver[p][k].v = mem[p]
    /\ agent[p] = "kicked" => saver[p]["kick"].pc \in {"saved", "waiting"}
    /\ \A k \in Kinds : saver[p][k].pc \in {"saved", "waiting"} => k = "kick"

\* Nobody holds a version that was not made.
NewestInv(p) ==
    /\ mem[p] <= newest[p] /\ redis[p] <= newest[p] /\ mysql[p] <= newest[p]
    /\ \A o \in orphan[p] : o <= newest[p]
    /\ \A i \in DOMAIN pipe : pipe[i].p = p => pipe[i].v <= newest[p]

\* What a stuck agent holds is older than every change of the one that followed it: so
\* redis is behind all saves under way, or behind none.
OrphanInv(p) == agent[p] = "normal" =>
    /\ flag[p] => \A o \in orphan[p] : o < mem[p]
    /\ \A k \in Kinds : saver[p][k].pc \notin Resting =>
          \A o \in orphan[p] : o < saver[p][k].v
    /\ \A k, l \in Kinds : Active(p, k) /\ Active(p, l) /\ redis[p] >= saver[p][k].v
                            => redis[p] >= saver[p][l].v

\* From the i-th update in the pipe s on, those of p carry at least version w.
From(s, p, i, w) == \A j \in DOMAIN s : j >= i /\ s[j].p = p => s[j].v >= w

\* Version w of p is in mysql and stays there.
Solid(p, w) == mysql[p] >= w /\ From(pipe, p, 1, w)

\* The batch has p in its snapshot, and does not take p out before w is in mysql.
BatchSafe(p, w) ==
    /\ p \in syncing /\ batch.pc # "del"
    /\ p \in batch.of => /\ batch.pc = "query"
                         /\ \A i \in DOMAIN pipe : pipe[i].by = "batch" => From(pipe, p, i, w)

Safe(p, w) == Solid(p, w) \/ (redis[p] >= w /\ (p \in dirty \/ BatchSafe(p, w)))

\* What the properties claim of a player without a fallback, and what they rest on.
SaveInv(p) == ~fallback[p] =>
    /\ agent[p] # "out" => due[p] <= mem[p]
    /\ redis[p] # None => redis[p] >= due[p]
    /\ \A k \in Kinds : Active(p, k) => redis[p] >= saver[p][k].v
    /\ saver[p]["kick"].pc \in {"saved", "waiting"} => due[p] = mem[p]
    /\ Safe(p, due[p])
    /\ \A k \in Kinds : saver[p][k].pc = "marked" => Safe(p, saver[p][k].v)
    /\ synced[p] => Solid(p, due[p])
    /\ \A i \in DOMAIN pipe : pipe[i].p = p /\ pipe[i].by = "kick" => From(pipe, p, i, due[p])

SyncInv(p) == synced[p] => agent[p] \in {"kicked", "out"}

\* One update at most is the batch's; a snapshot is deleted after it was put back.
BatchInv ==
    /\ \A i \in DOMAIN pipe :
          pipe[i].by = "batch" => batch.pc = "query" /\ batch.of = {pipe[i].p}
    /\ batch.pc = "query" => \E i \in DOMAIN pipe : pipe[i].by = "batch"
    /\ \A i, j \in DOMAIN pipe : pipe[i].by = "batch" /\ pipe[j].by = "batch" => i = j
    /\ batch.pc \in {"idle", "read", "del"} => batch.of = {}
    /\ batch.pc = "del" => syncing \subseteq dirty

\* A kicked agent waits for the update sent for it, and there is one.
KickInv == \A i \in DOMAIN pipe : pipe[i].by = "kick" =>
    /\ agent[pipe[i].p] = "kicking" /\ saver[pipe[i].p]["kick"].pc = "waiting"
    /\ \A j \in DOMAIN pipe : pipe[j].by = "kick" /\ pipe[j].p = pipe[i].p => i = j

PlayerInv(p) == AgentInv(p) /\ NewestInv(p) /\ OrphanInv(p) /\ SaveInv(p) /\ SyncInv(p)

SavingInv == /\ SavingTypeOK /\ BatchInv /\ KickInv
             /\ \A p \in Players : PlayerInv(p)
-----------------------------------------------------------------------------
LEMMA VersionNumbers ==
    /\ 1 \in Versions /\ 2 \in Versions /\ None = 0 /\ None \notin Versions
    /\ MaxVersion \in Nat
    /\ \A v \in Versions : v \in Nat /\ v >= 1 /\ v <= MaxVersion
    /\ \A v \in Versions : v < MaxVersion => v + 1 \in Versions
BY SavingAssumption DEF Versions, None

\* The sequence without its first element.
LEMMA RemoveFirstFacts ==
    ASSUME NEW S, NEW s \in Seq(S), s # <<>>
    PROVE  /\ s[1] \in S /\ 1 \in DOMAIN s
           /\ RemoveAt(s, 1) \in Seq(S)
           /\ DOMAIN RemoveAt(s, 1) = 1..(Len(s) - 1)
           /\ \A j \in DOMAIN RemoveAt(s, 1) : j + 1 \in DOMAIN s /\ RemoveAt(s, 1)[j] = s[j + 1]
<1>1. SubSeq(s, 1, 0) = <<>>
  OBVIOUS
<1>2. RemoveAt(s, 1) = Tail(s)
  BY <1>1 DEF RemoveAt
<1> QED BY <1>2

LEMMA Idling ==
    /\ Idle \in Saver
    /\ [Idle EXCEPT !.pc = "dead"] \in Saver /\ [Idle EXCEPT !.pc = "idle"] \in Saver
BY DEF Idle, Saver, None

LEMMA SaverSet ==
    ASSUME NEW f \in [Players -> [Kinds -> Saver]], NEW p \in Players, NEW k \in Kinds,
           NEW x \in Saver
    PROVE  [f EXCEPT ![p][k] = x] \in [Players -> [Kinds -> Saver]]
OBVIOUS

LEMMA GoneType ==
    ASSUME SavingTypeOK, NEW G \in SUBSET Players
    PROVE  /\ Gone(G) /\ orphan' = orphan => AgentTypeOK'
           /\ Stuck(G) /\ (\A p \in G : mem[p] # None) => AgentTypeOK'
<1> USE DEF SavingTypeOK, AgentTypeOK
<1>1. saver \in [Players -> [Kinds -> Saver]]
  OBVIOUS
<1>2. Gone(G) => /\ agent' \in [Players -> {"out", "normal", "kicking", "kicked"}]
                 /\ mem' \in [Players -> Versions \cup {None}]
                 /\ flag' \in [Players -> BOOLEAN]
  BY DEF Gone
<1>3. Gone(G) => saver' \in [Players -> [Kinds -> Saver]]
  BY <1>1, Idling DEF Gone
<1>4. Stuck(G) /\ (\A p \in G : mem[p] # None) => orphan' \in [Players -> SUBSET Versions]
  BY DEF Stuck
<1> QED BY <1>2, <1>3, <1>4 DEF Stuck

\* Somebody else's step: nothing of q is touched.
Untouched(q) ==
    /\ agent'[q] = agent[q] /\ mem'[q] = mem[q] /\ flag'[q] = flag[q]
    /\ saver'[q] = saver[q] /\ orphan'[q] = orphan[q] /\ redis'[q] = redis[q]
    /\ mysql'[q] = mysql[q] /\ newest'[q] = newest[q] /\ due'[q] = due[q]
    /\ fallback'[q] = fallback[q] /\ synced'[q] = synced[q]
    /\ q \in dirty' <=> q \in dirty
    /\ q \in syncing' <=> q \in syncing

LEMMA UntouchedKept ==
    ASSUME NEW q \in Players, PlayerInv(q), Untouched(q), UNCHANGED <<batch, pipe>>
    PROVE  PlayerInv(q)'
<1> USE DEF Untouched, PlayerInv
<1>1. AgentInv(q)'
  BY DEF AgentInv
<1>2. OrphanInv(q)'
  BY DEF OrphanInv, Active
<1>3. SaveInv(q)'
  BY DEF SaveInv, Safe, Solid, BatchSafe, Active
<1>4. SyncInv(q)'
  BY DEF SyncInv
<1>5. NewestInv(q)'
  BY DEF NewestInv
<1> QED BY <1>1, <1>2, <1>3, <1>4, <1>5

LEMMA PipeFacts ==
    ASSUME SavingTypeOK
    PROVE  /\ pipe \in Seq(Update) /\ DOMAIN pipe = 1..Len(pipe) /\ Len(pipe) \in Nat
           /\ \A i \in DOMAIN pipe : /\ pipe[i] \in Update /\ pipe[i].p \in Players
                                     /\ pipe[i].v \in Versions
                                     /\ pipe[i].by \in {"batch", "kick", "gone"}
<1>1. pipe \in Seq(Update)
  BY DEF SavingTypeOK
<1>2. \A i \in DOMAIN pipe : pipe[i] \in Update
  BY <1>1
<1> QED BY <1>1, <1>2 DEF Update

\* What a step of one agent has to show.
LEMMA OneAgentKeeps ==
    ASSUME SavingInv, NEW p \in Players, SavingTypeOK', PlayerInv(p)',
           \A q \in Players \ {p} : Untouched(q), UNCHANGED <<batch, pipe, syncing>>,
           dirty \subseteq dirty',
           agent[p] = "kicking" /\ saver[p]["kick"].pc = "waiting" =>
               agent'[p] = "kicking" /\ saver'[p]["kick"].pc = "waiting"
    PROVE  SavingInv'
<1>1. \A q \in Players : PlayerInv(q)'
  BY UntouchedKept DEF SavingInv
<1>2. BatchInv'
  BY DEF SavingInv, BatchInv
<1>3. KickInv'
  <2> SUFFICES ASSUME NEW i \in DOMAIN pipe, pipe[i].by = "kick"
               PROVE  agent'[pipe[i].p] = "kicking" /\ saver'[pipe[i].p]["kick"].pc = "waiting"
    BY DEF SavingInv, KickInv
  <2>1. pipe[i].p \in Players
    BY PipeFacts DEF SavingInv
  <2>2. agent[pipe[i].p] = "kicking" /\ saver[pipe[i].p]["kick"].pc = "waiting"
    BY DEF SavingInv, KickInv
  <2> QED BY <2>1, <2>2 DEF Untouched
<1> QED BY <1>1, <1>2, <1>3 DEF SavingInv

\* The values of one player.
LEMMA OfPlayer ==
    ASSUME SavingTypeOK, NEW p \in Players
    PROVE  /\ agent[p] \in {"out", "normal", "kicking", "kicked"}
           /\ mem[p] \in Nat /\ redis[p] \in Nat /\ mysql[p] \in Nat \ {0}
           /\ newest[p] \in Nat \ {0} /\ due[p] \in Nat \ {0}
           /\ flag[p] \in BOOLEAN /\ fallback[p] \in BOOLEAN /\ synced[p] \in BOOLEAN
           /\ \A k \in Kinds : saver[p][k].v \in Nat
           /\ \A o \in orphan[p] : o \in Nat \ {0}
BY VersionNumbers DEF SavingTypeOK, AgentTypeOK, Saver

LEMMA FaultType ==
    ASSUME SavingTypeOK, NEW cost \in Nat, Fine \/ Fault(cost)
    PROVE  faults' \in 0..MaxFaults
BY SavingAssumption DEF SavingTypeOK, Fine, Fault

LEMMA LoginStep ==
    ASSUME SavingInv, NEW p \in Players, Login(p)
    PROVE  SavingInv'
<1> USE DEF Login, agentVars, dbsyncVars
<1>1. SavingTypeOK'
  <2>1. AgentTypeOK /\ mem' \in [Players -> Versions \cup {None}]
              /\ agent' \in [Players -> {"out", "normal", "kicking", "kicked"}]
              /\ redis' \in [Players -> Versions \cup {None}]
              /\ synced' \in [Players -> BOOLEAN]
    BY DEF SavingInv, SavingTypeOK, AgentTypeOK
  <2> QED BY <2>1 DEF SavingInv, SavingTypeOK, AgentTypeOK, Fine
<1>2. \A q \in Players \ {p} : Untouched(q)
  BY DEF SavingInv, SavingTypeOK, AgentTypeOK, Untouched
<1>3. /\ agent[p] = "out" /\ agent'[p] = "normal" /\ mem[p] = None /\ ~flag[p]
      /\ mem'[p] = (IF redis[p] # None THEN redis[p] ELSE mysql[p])
      /\ redis'[p] = mem'[p] /\ ~synced'[p]
      /\ \A k \in Kinds : saver[p][k].pc = "idle"
  BY DEF SavingInv, SavingTypeOK, AgentTypeOK, PlayerInv, AgentInv
<1>4. PlayerInv(p)'
  <2> USE OfPlayer DEF SavingInv, PlayerInv, None, Resting
  <2>1. AgentInv(p)'
    BY <1>3 DEF AgentInv, Kinds
  <2>2. NewestInv(p)'
    BY <1>3 DEF NewestInv
  <2>3. OrphanInv(p)'
    BY <1>3 DEF OrphanInv, Active
  <2>4. SaveInv(p)'
    BY <1>3 DEF SaveInv, Active, Safe, Solid, BatchSafe, Kinds
  <2>5. SyncInv(p)'
    BY <1>3 DEF SyncInv
  <2> QED BY <2>1, <2>2, <2>3, <2>4, <2>5
<1> QED BY <1>1, <1>2, <1>3, <1>4, OneAgentKeeps DEF SavingInv

LEMMA ChangeStep ==
    ASSUME SavingInv, NEW p \in Players, Change(p)
    PROVE  SavingInv'
<1> USE DEF Change, Changed, stores, dbsyncVars, history
<1>1. SavingTypeOK'
  BY VersionNumbers DEF SavingInv, SavingTypeOK, AgentTypeOK, Fine
<1>2. \A q \in Players \ {p} : Untouched(q)
  BY DEF SavingInv, SavingTypeOK, AgentTypeOK, Untouched
<1>3. /\ agent[p] = "normal" /\ flag'[p] /\ mem'[p] = newest[p] + 1 /\ newest'[p] = newest[p] + 1
  BY DEF SavingInv, SavingTypeOK, AgentTypeOK
<1>4. PlayerInv(p)'
  <2> USE <1>3, OfPlayer DEF SavingInv, PlayerInv, None
  <2>1. AgentInv(p)'
    BY DEF AgentInv, NewestInv
  <2>2. NewestInv(p)'
    BY PipeFacts, VersionNumbers DEF NewestInv
  <2>3. OrphanInv(p)'
    BY DEF OrphanInv, NewestInv, Active
  <2>4. SaveInv(p)'
    BY DEF SaveInv, AgentInv, NewestInv, Active, Safe, Solid, BatchSafe, Kinds
  <2>5. SyncInv(p)'
    BY DEF SyncInv
  <2> QED BY <2>1, <2>2, <2>3, <2>4, <2>5
<1> QED BY <1>1, <1>2, <1>3, <1>4, OneAgentKeeps DEF SavingInv

\* What one save changes in the table of the saves.
LEMMA SaverFacts ==
    ASSUME SavingTypeOK, NEW p \in Players, NEW k \in Kinds, NEW x \in Saver,
           saver' = [saver EXCEPT ![p][k] = x]
    PROVE  /\ saver' \in [Players -> [Kinds -> Saver]]
           /\ saver'[p][k] = x
           /\ \A l \in Kinds \ {k} : saver'[p][l] = saver[p][l]
           /\ \A q \in Players \ {p} : saver'[q] = saver[q]
BY DEF SavingTypeOK, AgentTypeOK

\* save_base_data from a memory that is at least as new as all saves under way.
LEMMA SaveBeginFacts ==
    ASSUME SavingTypeOK, NEW p \in Players, NEW k \in Kinds, NEW v \in Versions, SaveBegin(p, k, v)
    PROVE  /\ saver' \in [Players -> [Kinds -> Saver]]
           /\ redis' \in [Players -> Versions \cup {None}]
           /\ fallback' \in [Players -> BOOLEAN]
           /\ faults' \in 0..MaxFaults
           /\ \A l \in Kinds \ {k} : saver'[p][l] = saver[p][l]
           /\ \A q \in Players \ {p} :
                 saver'[q] = saver[q] /\ redis'[q] = redis[q] /\ fallback'[q] = fallback[q]
           /\ \/ /\ saver'[p][k] = [pc |-> "set", v |-> v]
                 /\ redis'[p] = v /\ fallback'[p] = fallback[p]
              \/ /\ saver'[p][k] = [pc |-> "mysql", v |-> v]
                 /\ redis'[p] \in {redis[p], v} /\ fallback'[p]
<1>1. [pc |-> "set", v |-> v] \in Saver /\ [pc |-> "mysql", v |-> v] \in Saver
  BY DEF Saver
<1>2. faults' \in 0..MaxFaults
  BY FaultType DEF SaveBegin
<1>3. ASSUME redis' \in {redis, [redis EXCEPT ![p] = v]}
      PROVE  /\ redis' \in [Players -> Versions \cup {None}]
             /\ \A q \in Players \ {p} : redis'[q] = redis[q]
             /\ redis'[p] \in {redis[p], v}
  BY <1>3 DEF SavingTypeOK
<1>4. ASSUME fallback' \in {fallback, [fallback EXCEPT ![p] = TRUE]}
      PROVE  /\ fallback' \in [Players -> BOOLEAN]
             /\ \A q \in Players \ {p} : fallback'[q] = fallback[q]
  BY <1>4 DEF SavingTypeOK
<1>5. CASE saver' = [saver EXCEPT ![p][k] = [pc |-> "set", v |-> v]] /\ redis' = [redis EXCEPT ![p] = v]
           /\ UNCHANGED fallback
  <2>1. redis'[p] = v
    BY <1>5 DEF SavingTypeOK
  <2>2. /\ saver' \in [Players -> [Kinds -> Saver]]
        /\ saver'[p][k] = [pc |-> "set", v |-> v]
        /\ \A l \in Kinds \ {k} : saver'[p][l] = saver[p][l]
        /\ \A q \in Players \ {p} : saver'[q] = saver[q]
    BY <1>1, <1>5, SaverFacts
  <2> QED BY <1>2, <1>3, <1>4, <1>5, <2>1, <2>2
<1>6. CASE saver' = [saver EXCEPT ![p][k] = [pc |-> "mysql", v |-> v]]
           /\ redis' \in {redis, [redis EXCEPT ![p] = v]} /\ fallback' = [fallback EXCEPT ![p] = TRUE]
  <2>1. fallback'[p]
    BY <1>6 DEF SavingTypeOK
  <2>2. /\ saver' \in [Players -> [Kinds -> Saver]]
        /\ saver'[p][k] = [pc |-> "mysql", v |-> v]
        /\ \A l \in Kinds \ {k} : saver'[p][l] = saver[p][l]
        /\ \A q \in Players \ {p} : saver'[q] = saver[q]
    BY <1>1, <1>6, SaverFacts
  <2> QED BY <1>2, <1>3, <1>4, <1>6, <2>1, <2>2
<1> QED BY <1>5, <1>6 DEF SaveBegin

LEMMA AddCoinStep ==
    ASSUME SavingInv, NEW p \in Players, AddCoin(p)
    PROVE  SavingInv'
<1> USE DEF AddCoin, Changed, dbsyncVars
<1> DEFINE v == newest[p] + 1
<1>1. v \in Versions /\ "coin" \in Kinds /\ SavingTypeOK
  BY VersionNumbers DEF SavingInv, SavingTypeOK, Kinds
<1>2. /\ saver' \in [Players -> [Kinds -> Saver]]
      /\ redis' \in [Players -> Versions \cup {None}]
      /\ fallback' \in [Players -> BOOLEAN]
      /\ faults' \in 0..MaxFaults
      /\ \A l \in Kinds \ {"coin"} : saver'[p][l] = saver[p][l]
      /\ \A q \in Players \ {p} :
            saver'[q] = saver[q] /\ redis'[q] = redis[q] /\ fallback'[q] = fallback[q]
      /\ \/ /\ saver'[p]["coin"] = [pc |-> "set", v |-> v]
            /\ redis'[p] = v /\ fallback'[p] = fallback[p]
         \/ /\ saver'[p]["coin"] = [pc |-> "mysql", v |-> v]
            /\ redis'[p] \in {redis[p], v} /\ fallback'[p]
  BY <1>1, SaveBeginFacts
<1>3. SavingTypeOK'
  BY <1>1, <1>2 DEF SavingTypeOK, AgentTypeOK
<1>4. \A q \in Players \ {p} : Untouched(q)
  BY <1>1, <1>2 DEF SavingTypeOK, AgentTypeOK, Untouched
<1>5. /\ agent[p] = "normal" /\ saver[p]["coin"].pc = "idle"
      /\ flag'[p] /\ mem'[p] = v /\ newest'[p] = v
  BY <1>1 DEF SavingTypeOK, AgentTypeOK
<1>6. PlayerInv(p)'
  <2> USE <1>5, OfPlayer DEF SavingInv, PlayerInv, None
  <2>1. AgentInv(p)'
    BY <1>2, SMTT(20) DEF AgentInv, NewestInv, Kinds, Resting
  <2>2. NewestInv(p)'
    BY <1>2, PipeFacts, VersionNumbers DEF NewestInv
  <2>3. OrphanInv(p)'
    BY <1>2, SMTT(20) DEF OrphanInv, AgentInv, NewestInv, Active, Resting, Kinds
  <2>4. SaveInv(p)'
    BY <1>2 DEF SaveInv, AgentInv, NewestInv, Active, Resting, Safe, Solid, BatchSafe, Kinds
  <2>5. SyncInv(p)'
    BY DEF SyncInv
  <2> QED BY <2>1, <2>2, <2>3, <2>4, <2>5
<1> QED BY <1>3, <1>4, <1>5, <1>6, OneAgentKeeps

LEMMA TimerSaveStep ==
    ASSUME SavingInv, NEW p \in Players, TimerSave(p)
    PROVE  SavingInv'
<1> USE DEF TimerSave, dbsyncVars
<1> DEFINE v == mem[p]
<1>1. v \in Versions /\ "timer" \in Kinds /\ SavingTypeOK
  BY VersionNumbers DEF SavingInv, PlayerInv, AgentInv, SavingTypeOK, AgentTypeOK, Kinds
<1>2. /\ saver' \in [Players -> [Kinds -> Saver]]
      /\ redis' \in [Players -> Versions \cup {None}]
      /\ fallback' \in [Players -> BOOLEAN]
      /\ faults' \in 0..MaxFaults
      /\ \A l \in Kinds \ {"timer"} : saver'[p][l] = saver[p][l]
      /\ \A q \in Players \ {p} :
            saver'[q] = saver[q] /\ redis'[q] = redis[q] /\ fallback'[q] = fallback[q]
      /\ \/ /\ saver'[p]["timer"] = [pc |-> "set", v |-> v]
            /\ redis'[p] = v /\ fallback'[p] = fallback[p]
         \/ /\ saver'[p]["timer"] = [pc |-> "mysql", v |-> v]
            /\ redis'[p] \in {redis[p], v} /\ fallback'[p]
  BY <1>1, SaveBeginFacts
<1>3. SavingTypeOK'
  BY <1>1, <1>2 DEF SavingTypeOK, AgentTypeOK
<1>4. \A q \in Players \ {p} : Untouched(q)
  BY <1>1, <1>2 DEF SavingTypeOK, AgentTypeOK, Untouched
<1>5. agent[p] # "out" /\ saver[p]["timer"].pc = "idle" /\ flag[p]
  OBVIOUS
<1>6. PlayerInv(p)'
  <2> USE <1>5, OfPlayer DEF SavingInv, PlayerInv, None
  <2>1. AgentInv(p)'
    BY <1>1, <1>2, VersionNumbers DEF AgentInv, NewestInv, Kinds, Resting
  <2>2. NewestInv(p)'
    BY <1>2 DEF NewestInv
  <2>3. OrphanInv(p)'
    BY <1>2 DEF OrphanInv, AgentInv, NewestInv, Active, Resting, Kinds
  <2>4. SaveInv(p)'
    BY <1>2 DEF SaveInv, AgentInv, NewestInv, Active, Resting, Safe, Solid, BatchSafe, Kinds
  <2>5. SyncInv(p)'
    BY DEF SyncInv
  <2> QED BY <2>1, <2>2, <2>3, <2>4, <2>5
<1> QED BY <1>2, <1>3, <1>4, <1>5, <1>6, OneAgentKeeps DEF Kinds

LEMMA KickSaveStep ==
    ASSUME SavingInv, NEW p \in Players, KickSave(p)
    PROVE  SavingInv'
<1> USE DEF KickSave, dbsyncVars
<1> DEFINE v == mem[p]
<1>1. v \in Versions /\ "kick" \in Kinds /\ SavingTypeOK
  BY VersionNumbers DEF SavingInv, PlayerInv, AgentInv, SavingTypeOK, AgentTypeOK, Kinds
<1>2. /\ saver' \in [Players -> [Kinds -> Saver]]
      /\ redis' \in [Players -> Versions \cup {None}]
      /\ fallback' \in [Players -> BOOLEAN]
      /\ faults' \in 0..MaxFaults
      /\ \A l \in Kinds \ {"kick"} : saver'[p][l] = saver[p][l]
      /\ \A q \in Players \ {p} :
            saver'[q] = saver[q] /\ redis'[q] = redis[q] /\ fallback'[q] = fallback[q]
      /\ \/ /\ saver'[p]["kick"] = [pc |-> "set", v |-> v]
            /\ redis'[p] = v /\ fallback'[p] = fallback[p]
         \/ /\ saver'[p]["kick"] = [pc |-> "mysql", v |-> v]
            /\ redis'[p] \in {redis[p], v} /\ fallback'[p]
  BY <1>1, SaveBeginFacts
<1>3. SavingTypeOK'
  BY <1>1, <1>2 DEF SavingTypeOK, AgentTypeOK
<1>4. \A q \in Players \ {p} : Untouched(q)
  BY <1>1, <1>2 DEF SavingTypeOK, AgentTypeOK, Untouched
<1>5. /\ agent[p] = "kicking" /\ saver[p]["kick"].pc = "idle" /\ flag'[p]
      /\ \A k \in Kinds : saver[p][k].pc \in Resting \/ saver[p][k].v = v
  BY <1>1 DEF Settled, SavingTypeOK, AgentTypeOK, Kinds, Resting
<1>6. PlayerInv(p)'
  <2> USE <1>5, OfPlayer DEF SavingInv, PlayerInv, None
  <2>1. AgentInv(p)'
    BY <1>1, <1>2, VersionNumbers DEF AgentInv, NewestInv, Kinds, Resting
  <2>2. NewestInv(p)'
    BY <1>2 DEF NewestInv
  <2>3. OrphanInv(p)'
    BY DEF OrphanInv
  <2>4. SaveInv(p)'
    BY <1>2 DEF SaveInv, AgentInv, NewestInv, Active, Resting, Safe, Solid, BatchSafe, Kinds
  <2>5. SyncInv(p)'
    BY DEF SyncInv
  <2> QED BY <2>1, <2>2, <2>3, <2>4, <2>5
<1> QED BY <1>3, <1>4, <1>5, <1>6, OneAgentKeeps

LEMMA MarkStep ==
    ASSUME SavingInv, NEW p \in Players, NEW k \in Kinds, Mark(p, k)
    PROVE  SavingInv'
<1> USE DEF Mark, dbsyncVars, history
<1>1. SavingTypeOK /\ [saver[p][k] EXCEPT !.pc = "marked"] \in Saver
  <2>1. SavingTypeOK /\ saver[p][k] \in Saver
    BY DEF SavingInv, SavingTypeOK, AgentTypeOK
  <2> QED BY <2>1 DEF Saver
<1>2. /\ saver' \in [Players -> [Kinds -> Saver]]
      /\ saver'[p][k] = [saver[p][k] EXCEPT !.pc = "marked"]
      /\ \A l \in Kinds \ {k} : saver'[p][l] = saver[p][l]
      /\ \A q \in Players \ {p} : saver'[q] = saver[q]
  BY <1>1 DEF SavingTypeOK, AgentTypeOK
<1>3. SavingTypeOK'
  BY <1>1, <1>2 DEF SavingTypeOK, AgentTypeOK, Fine
<1>4. \A q \in Players \ {p} : Untouched(q)
  BY <1>1, <1>2 DEF SavingTypeOK, AgentTypeOK, Untouched
<1>5. /\ saver[p][k].pc = "set" /\ saver'[p][k].pc = "marked" /\ saver'[p][k].v = saver[p][k].v
      /\ p \in dirty'
  BY <1>1, <1>2 DEF SavingTypeOK, AgentTypeOK, Saver
<1>6. PlayerInv(p)'
  <2> USE <1>2, <1>5, OfPlayer DEF SavingInv, PlayerInv, None
  <2>1. AgentInv(p)'
    BY DEF AgentInv, Resting, Kinds
  <2>2. NewestInv(p)'
    BY DEF NewestInv
  <2>3. OrphanInv(p)'
    BY DEF OrphanInv, Active, Resting
  <2>4. SaveInv(p)'
    BY DEF SaveInv, AgentInv, Active, Resting, Safe, Solid, BatchSafe, Kinds
  <2>5. SyncInv(p)'
    BY DEF SyncInv
  <2> QED BY <2>1, <2>2, <2>3, <2>4, <2>5
<1> QED BY <1>2, <1>3, <1>4, <1>5, <1>6, OneAgentKeeps DEF Kinds

\* An agent that ended, or is stuck in its kick.
LEMMA EndedAgent ==
    ASSUME SavingInv, NEW p \in Players, Gone({p}), NewestInv(p)',
           UNCHANGED <<redis, syncing, mysql, dbsyncVars, newest, due, fallback, synced>>,
           dirty' \in {dirty, dirty \cup {p}}
    PROVE  /\ \A q \in Players \ {p} : agent'[q] = agent[q] /\ mem'[q] = mem[q]
                                       /\ flag'[q] = flag[q] /\ saver'[q] = saver[q]
           /\ PlayerInv(p)'
<1> USE DEF dbsyncVars
<1>1. /\ agent'[p] = "out" /\ mem'[p] = None /\ ~flag'[p]
      /\ \A k \in Kinds : saver'[p][k] = Idle
  BY DEF Gone
<1>2. \A q \in Players \ {p} : agent'[q] = agent[q] /\ mem'[q] = mem[q]
                                       /\ flag'[q] = flag[q] /\ saver'[q] = saver[q]
  BY DEF Gone, SavingInv, SavingTypeOK, AgentTypeOK
<1>3. PlayerInv(p)'
  <2> USE <1>1, OfPlayer DEF SavingInv, PlayerInv, None, Idle
  <2>1. AgentInv(p)'
    BY DEF AgentInv, Resting, Kinds
  <2>3. OrphanInv(p)'
    BY DEF OrphanInv
  <2>4. SaveInv(p)'
    BY DEF SaveInv, AgentInv, Active, Resting, Safe, Solid, BatchSafe, Kinds
  <2>5. SyncInv(p)'
    BY DEF SyncInv
  <2> QED BY <2>1, <2>3, <2>4, <2>5
<1> QED BY <1>2, <1>3

LEMMA MarkFailsStep ==
    ASSUME SavingInv, NEW p \in Players, NEW k \in Kinds, MarkFails(p, k)
    PROVE  SavingInv'
<1> USE DEF MarkFails, dbsyncVars, history
<1>1. /\ SavingTypeOK /\ PlayerInv(p) /\ faults' \in 0..MaxFaults /\ dirty' \in SUBSET Players
      /\ saver[p][k].pc = "set" /\ agent[p] # "out" /\ mem[p] # None
  <2>1. SavingTypeOK /\ PlayerInv(p) /\ saver[p][k].pc = "set"
    BY DEF SavingInv
  <2>2. faults' \in 0..MaxFaults
    BY <2>1, FaultType
  <2>3. agent[p] # "out" /\ mem[p] # None
    BY <2>1 DEF PlayerInv, AgentInv
  <2> QED BY <2>1, <2>2, <2>3 DEF SavingTypeOK
<1>2. CASE k = "kick" /\ Stuck({p})
  <2>1. Gone({p}) /\ AgentTypeOK'
    BY <1>1, <1>2, GoneType DEF Stuck
  <2>2. SavingTypeOK'
    BY <1>1, <2>1 DEF SavingTypeOK
  <2>3. /\ \A q \in Players \ {p} : orphan'[q] = orphan[q]
        /\ orphan'[p] \subseteq orphan[p] \cup {mem[p]}
        /\ mem'[p] = None
    BY <1>1, <1>2 DEF Stuck, Gone, SavingTypeOK, AgentTypeOK
  <2>4. NewestInv(p)'
    BY <1>1, <2>3, OfPlayer DEF PlayerInv, NewestInv, None
  <2>5. PlayerInv(p)' /\ \A q \in Players \ {p} : Untouched(q)
    BY <2>1, <2>3, <2>4, EndedAgent DEF Untouched
  <2> QED BY <1>1, <1>2, <2>2, <2>5, OneAgentKeeps
<1>3. CASE k # "kick" /\ UNCHANGED <<agent, mem, flag, orphan>>
           /\ saver' = [saver EXCEPT ![p][k] =
                [Idle EXCEPT !.pc = IF k = "timer" THEN "dead" ELSE "idle"]]
  <2> DEFINE x == [Idle EXCEPT !.pc = IF k = "timer" THEN "dead" ELSE "idle"]
  <2>1. x \in Saver /\ x.pc \in Resting
    BY Idling DEF Idle, Resting
  <2>6. saver' = [saver EXCEPT ![p][k] = x]
    BY <1>3
  <2> HIDE DEF x
  <2>2. /\ saver' \in [Players -> [Kinds -> Saver]]
        /\ saver'[p][k] = x
        /\ \A l \in Kinds \ {k} : saver'[p][l] = saver[p][l]
        /\ \A q \in Players \ {p} : saver'[q] = saver[q]
    BY <1>1, <2>1, <2>6, SaverFacts
  <2>3. SavingTypeOK'
    BY <1>1, <1>3, <2>2 DEF SavingTypeOK, AgentTypeOK
  <2>4. \A q \in Players \ {p} : Untouched(q)
    BY <1>1, <1>3, <2>2 DEF Untouched
  <2>5. PlayerInv(p)'
    <3> USE <1>1, <1>3, <2>1, <2>2, OfPlayer DEF PlayerInv, None
    <3>1. AgentInv(p)'
      BY DEF AgentInv, Resting, Kinds
    <3>2. NewestInv(p)'
      BY DEF NewestInv
    <3>3. OrphanInv(p)'
      BY DEF OrphanInv, Active, Resting
    <3>4. SaveInv(p)'
      BY DEF SaveInv, AgentInv, Active, Resting, Safe, Solid, BatchSafe, Kinds
    <3>5. SyncInv(p)'
      BY DEF SyncInv
    <3> QED BY <3>1, <3>2, <3>3, <3>4, <3>5
  <2> QED BY <1>1, <1>3, <2>2, <2>3, <2>4, <2>5, OneAgentKeeps DEF Kinds
<1> QED BY <1>2, <1>3

\* What the agent does with the result of a save.
LEMMA SavedFacts ==
    ASSUME SavingTypeOK, NEW p \in Players, NEW k \in Kinds, NEW ok \in BOOLEAN, Saved(p, k, ok)
    PROVE  /\ saver' \in [Players -> [Kinds -> Saver]]
           /\ flag' \in [Players -> BOOLEAN] /\ flag'[p] = ~ok
           /\ k = "kick" => saver'[p][k].pc = "saved" /\ saver'[p][k].v = saver[p][k].v
           /\ k # "kick" => saver'[p][k].pc = "idle"
           /\ \A l \in Kinds \ {k} : saver'[p][l] = saver[p][l]
           /\ \A q \in Players \ {p} : saver'[q] = saver[q] /\ flag'[q] = flag[q]
<1> DEFINE x == IF k = "kick" THEN [saver[p][k] EXCEPT !.pc = "saved"] ELSE Idle
<1>1. saver' = [saver EXCEPT ![p][k] = x]
  BY DEF Saved, SavingTypeOK, AgentTypeOK
<1>2. saver[p][k] \in Saver
  BY DEF SavingTypeOK, AgentTypeOK
<1>3. /\ x \in Saver
      /\ k # "kick" => x.pc = "idle"
      /\ k = "kick" => x.pc = "saved" /\ x.v = saver[p][k].v
  BY <1>2, Idling DEF Saver, Idle
<1> HIDE DEF x
<1>4. /\ saver' \in [Players -> [Kinds -> Saver]] /\ saver'[p][k] = x
      /\ \A l \in Kinds \ {k} : saver'[p][l] = saver[p][l]
      /\ \A q \in Players \ {p} : saver'[q] = saver[q]
  BY <1>1, <1>3, SaverFacts, Zenon
<1>5. flag' \in [Players -> BOOLEAN] /\ flag'[p] = ~ok /\ \A q \in Players \ {p} : flag'[q] = flag[q]
  BY DEF Saved, SavingTypeOK, AgentTypeOK
<1> QED BY <1>3, <1>4, <1>5

LEMMA SaveReturnStep ==
    ASSUME SavingInv, NEW p \in Players, NEW k \in Kinds, SaveReturn(p, k)
    PROVE  SavingInv'
<1> USE DEF SaveReturn, stores, dbsyncVars
<1> DEFINE v == saver[p][k].v
<1>1. SavingTypeOK /\ PlayerInv(p) /\ agent[p] # "out" /\ saver[p][k].pc = "marked"
      /\ v \in Versions /\ v <= mem[p] /\ v \in Nat
  <2>1. SavingTypeOK /\ PlayerInv(p) /\ saver[p][k].pc = "marked"
    BY DEF SavingInv
  <2>2. v \in 1..mem[p] /\ agent[p] # "out"
    BY <2>1 DEF PlayerInv, AgentInv, Resting
  <2>3. saver[p][k] \in Saver /\ mem[p] \in Nat
    BY <2>1, OfPlayer DEF SavingTypeOK, AgentTypeOK
  <2>4. v \in Versions \cup {None}
    BY <2>3 DEF Saver
  <2> QED BY <2>1, <2>2, <2>3, <2>4 DEF None
<1>2. /\ saver' \in [Players -> [Kinds -> Saver]]
      /\ flag' \in [Players -> BOOLEAN] /\ ~flag'[p]
      /\ k = "kick" => saver'[p][k].pc = "saved" /\ saver'[p][k].v = v
      /\ k # "kick" => saver'[p][k].pc = "idle"
      /\ \A l \in Kinds \ {k} : saver'[p][l] = saver[p][l]
      /\ \A q \in Players \ {p} : saver'[q] = saver[q] /\ flag'[q] = flag[q]
  BY <1>1, SavedFacts
<1>3. /\ due' \in [Players -> Versions] /\ fallback' \in [Players -> BOOLEAN]
      /\ \A q \in Players \ {p} : due'[q] = due[q] /\ fallback'[q] = fallback[q]
      /\ due'[p] = IF fallback[p] THEN v ELSE Later(due[p], v)
      /\ fallback'[p] = (fallback[p] /\ ~ (/\ redis[p] >= v /\ p \in dirty
                                           /\ k = "kick" \/ agent[p] = "normal"))
  BY <1>1 DEF SavingTypeOK, Later
<1>7. UNCHANGED <<agent, mem, orphan, redis, dirty, syncing, mysql, batch, pipe, newest, synced,
                  faults>>
  BY DEF Fine
<1> HIDE DEF v, SaveReturn
<1>4. SavingTypeOK'
  BY <1>1, <1>2, <1>3, <1>7 DEF SavingTypeOK, AgentTypeOK
<1>5. \A q \in Players \ {p} : Untouched(q)
  BY <1>1, <1>2, <1>3, <1>7 DEF Untouched
<1>6. PlayerInv(p)'
  <2> USE <1>1, <1>2, <1>3, <1>7, OfPlayer DEF PlayerInv, None
  <2>1. AgentInv(p)'
    BY DEF AgentInv, Resting, Kinds, v
  <2>2. NewestInv(p)'
    BY DEF NewestInv
  <2>3. OrphanInv(p)'
    <3>1. agent[p] = "normal" => k # "kick"
      BY DEF AgentInv
    <3>2. \A l \in Kinds : agent[p] = "normal" /\ saver'[p][l].pc \notin Resting =>
             saver'[p][l] = saver[p][l]
      BY <3>1 DEF Resting
    <3>3. OrphanInv(p) /\ ~flag'[p] /\ agent' = agent /\ mem' = mem /\ orphan' = orphan
          /\ redis' = redis
      OBVIOUS
    <3>4. \A l \in Kinds : agent[p] = "normal" /\ saver'[p][l].pc \in {"set", "marked"} =>
             saver'[p][l] = saver[p][l]
      BY <3>2 DEF Resting
    <3> HIDE <1>1, <1>2, <1>3, <1>7, OfPlayer
    <3> QED BY <3>2, <3>3, <3>4, SMTT(20) DEF OrphanInv, Active
  <2>4. SaveInv(p)'
    <3>1. CASE ~fallback[p]
      <4> USE <3>1
      <4>1. ~fallback'[p] /\ due'[p] \in {due[p], v} /\ due'[p] >= v /\ due'[p] >= due[p]
            /\ due[p] \in Nat /\ due'[p] \in Nat /\ mem[p] \in Nat
        BY DEF Later
      <4>2. Safe(p, due'[p]) /\ due'[p] <= mem[p] /\ redis[p] >= v
            /\ (redis[p] # None => redis[p] >= due[p])
        BY <4>1 DEF SaveInv, Active, v
      <4>3. \A l \in Kinds : saver'[p][l].pc \in {"set", "marked"} => saver'[p][l] = saver[p][l]
        OBVIOUS
      <4>9. saver[p]["kick"].pc \in {"saved", "waiting"} => due'[p] = mem[p] /\ due[p] = mem[p]
        <5>1. saver[p]["kick"].pc \in {"saved", "waiting"} => due[p] = mem[p]
          BY DEF SaveInv
        <5>2. due'[p] \in Nat /\ mem[p] \in Nat /\ due'[p] <= mem[p] /\ due'[p] >= due[p]
          BY <4>1, <4>2
        <5> HIDE <1>1, <1>2, <1>3, <1>7, <3>1, OfPlayer
        <5> QED BY <5>1, <5>2
      <4>4. saver'[p]["kick"].pc \in {"saved", "waiting"} => due'[p] = mem[p]
        <5>1. CASE k = "kick"
          <6>1. v = mem[p]
            BY <5>1 DEF AgentInv, Resting, Kinds, v
          <6>2. due'[p] \in Nat /\ mem[p] \in Nat /\ due'[p] <= mem[p] /\ due'[p] >= v
            BY <4>1, <4>2
          <6> HIDE <1>1, <1>2, <1>3, <1>7, <3>1, OfPlayer
          <6> QED BY <6>1, <6>2
        <5>2. CASE k # "kick"
          BY <4>9, <5>2 DEF Kinds
        <5> QED BY <5>1, <5>2
      <4>5. ASSUME synced[p] PROVE due'[p] = due[p]
        <5>1. saver[p]["kick"].pc \in {"saved", "waiting"}
          BY <4>5 DEF SyncInv, AgentInv
        <5> QED BY <4>9, <5>1
      <4>6. ASSUME NEW i \in DOMAIN pipe, pipe[i].p = p, pipe[i].by = "kick" PROVE due'[p] = due[p]
        <5>1. saver[p]["kick"].pc \in {"saved", "waiting"}
          BY <4>6 DEF KickInv, SavingInv
        <5> QED BY <4>9, <5>1
      <4>7. Safe(p, due[p])'
        BY <4>2 DEF Safe, Solid, BatchSafe
      <4>8. \A l \in Kinds : saver'[p][l].pc = "marked" => Safe(p, saver[p][l].v)'
        <5> SUFFICES ASSUME NEW l \in Kinds, saver'[p][l].pc = "marked"
                     PROVE  Safe(p, saver[p][l].v)'
          OBVIOUS
        <5>1. saver'[p][l] = saver[p][l]
          BY <4>3
        <5>2. Safe(p, saver[p][l].v)
          BY <5>1 DEF SaveInv
        <5> QED BY <5>1, <5>2 DEF Safe, Solid, BatchSafe
      <4> QED BY <4>1, <4>2, <4>3, <4>4, <4>5, <4>6, <4>7, <4>8 DEF SaveInv, Active, Solid
    <3>2. CASE fallback[p] /\ fallback'[p]
      BY <3>2, Zenon DEF SaveInv
    <3>3. CASE fallback[p] /\ ~fallback'[p]
      <4> USE <3>3
      <4>1. redis[p] >= v /\ p \in dirty /\ due'[p] = v /\ (k = "kick" \/ agent[p] = "normal")
        OBVIOUS
      <4>2. agent[p] = "normal" => k # "kick" /\ saver[p]["kick"].pc = "idle"
        BY DEF AgentInv
      <4>3. k = "kick" => v = mem[p]
        BY DEF AgentInv, Resting, Kinds, v
      <4>4. \A l \in Kinds : saver'[p][l].pc \in {"set", "marked"} =>
               saver'[p][l] = saver[p][l] /\ redis[p] >= saver[p][l].v
        <5> SUFFICES ASSUME NEW l \in Kinds, saver'[p][l].pc \in {"set", "marked"}
                     PROVE  saver'[p][l] = saver[p][l] /\ redis[p] >= saver[p][l].v
          OBVIOUS
        <5>1. saver'[p][l] = saver[p][l]
          OBVIOUS
        <5>2. CASE k = "kick"
          <6>1. saver[p][l].v = mem[p]
            BY <5>1, <5>2 DEF AgentInv, Resting
          <6> QED BY <4>1, <4>3, <5>1, <5>2, <6>1
        <5>3. CASE agent[p] = "normal"
          BY <4>1, <5>1, <5>3 DEF OrphanInv, Active, v
        <5> QED BY <4>1, <5>1, <5>2, <5>3
      <4>5. saver'[p]["kick"].pc \in {"saved", "waiting"} => v = mem[p]
        BY <4>1, <4>2, <4>3 DEF Kinds
      <4>6. ~ (saver[p]["kick"].pc \in {"saved", "waiting"})
        BY <4>1, <4>2
      <4>7. ~synced[p]
        BY <4>6 DEF SyncInv, AgentInv
      <4>8. \A i \in DOMAIN pipe : ~ (pipe[i].p = p /\ pipe[i].by = "kick")
        BY <4>6 DEF KickInv, SavingInv
      <4>9. Safe(p, due[p])'
        BY <4>1 DEF Safe
      <4>10. \A l \in Kinds : saver'[p][l].pc = "marked" => Safe(p, saver[p][l].v)'
        BY <4>1, <4>4 DEF Safe
      <4> QED BY <4>1, <4>4, <4>5, <4>7, <4>8, <4>9, <4>10 DEF SaveInv, Active
    <3> QED BY <3>1, <3>2, <3>3
  <2>5. SyncInv(p)'
    BY DEF SyncInv
  <2> QED BY <2>1, <2>2, <2>3, <2>4, <2>5
<1> QED BY <1>1, <1>2, <1>3, <1>4, <1>5, <1>6, <1>7, OneAgentKeeps DEF Kinds

LEMMA FallbackStep ==
    ASSUME SavingInv, NEW p \in Players, NEW k \in Kinds, Fallback(p, k)
    PROVE  SavingInv'
<1> DEFINE v == saver[p][k].v
<1>1. SavingTypeOK /\ PlayerInv(p) /\ agent[p] # "out" /\ saver[p][k].pc = "mysql"
      /\ v \in Versions /\ v <= mem[p] /\ v \in Nat
  <2>1. SavingTypeOK /\ PlayerInv(p) /\ saver[p][k].pc = "mysql"
    BY DEF SavingInv, Fallback
  <2>2. v \in 1..mem[p] /\ agent[p] # "out"
    BY <2>1 DEF PlayerInv, AgentInv, Resting
  <2>3. saver[p][k] \in Saver /\ mem[p] \in Nat
    BY <2>1, OfPlayer DEF SavingTypeOK, AgentTypeOK
  <2>4. v \in Versions \cup {None}
    BY <2>3 DEF Saver
  <2> QED BY <2>1, <2>2, <2>3, <2>4 DEF None
<1>2. PICK ok \in BOOLEAN : Saved(p, k, ok)
  BY DEF Fallback
<1>3. /\ saver' \in [Players -> [Kinds -> Saver]]
      /\ flag' \in [Players -> BOOLEAN]
      /\ k = "kick" => saver'[p][k].pc = "saved" /\ saver'[p][k].v = v
      /\ k # "kick" => saver'[p][k].pc = "idle"
      /\ \A l \in Kinds \ {k} : saver'[p][l] = saver[p][l]
      /\ \A q \in Players \ {p} : saver'[q] = saver[q] /\ flag'[q] = flag[q]
  BY <1>1, <1>2, SavedFacts
<1>4. /\ due' \in [Players -> Versions] /\ fallback' \in [Players -> BOOLEAN]
      /\ mysql' \in [Players -> Versions] /\ faults' \in 0..MaxFaults
      /\ \A q \in Players \ {p} : due'[q] = due[q] /\ fallback'[q] = fallback[q]
                                  /\ mysql'[q] = mysql[q]
      /\ fallback'[p] /\ mysql'[p] \in {mysql[p], v}
  <2>1. /\ due' \in {due, [due EXCEPT ![p] = Later(@, v)]}
        /\ mysql' \in {mysql, [mysql EXCEPT ![p] = v]}
        /\ fallback' = [fallback EXCEPT ![p] = TRUE]
    BY DEF Fallback
  <2>2. faults' \in 0..MaxFaults
    BY <1>1, FaultType DEF Fallback
  <2> HIDE DEF v
  <2> QED BY <1>1, <2>1, <2>2 DEF SavingTypeOK, Later
<1>5. UNCHANGED <<agent, mem, orphan, redis, dirty, syncing, batch, pipe, newest, synced>>
  BY DEF Fallback, dbsyncVars
<1> HIDE DEF v
<1>6. SavingTypeOK'
  BY <1>1, <1>3, <1>4, <1>5 DEF SavingTypeOK, AgentTypeOK
<1>7. \A q \in Players \ {p} : Untouched(q)
  BY <1>3, <1>4, <1>5 DEF Untouched
<1>8. PlayerInv(p)'
  <2> USE <1>1, <1>3, <1>4, <1>5, OfPlayer DEF PlayerInv, None
  <2>1. AgentInv(p)'
    BY DEF AgentInv, Resting, Kinds, v
  <2>2. NewestInv(p)'
    BY DEF NewestInv
  <2>3. OrphanInv(p)'
    <3>1. agent[p] = "normal" => k # "kick"
      BY DEF AgentInv
    <3>2. \A l \in Kinds : agent[p] = "normal" /\ saver'[p][l].pc \notin Resting =>
             saver'[p][l] = saver[p][l]
      BY <3>1 DEF Resting
    <3>3. mem[p] \in Nat /\ \A o \in orphan[p] : o \in Nat
      OBVIOUS
    <3>4. agent[p] = "normal" => \A o \in orphan[p] : o < v
      BY DEF OrphanInv, Resting, v
    <3>5. agent[p] = "normal" => \A o \in orphan[p] : o < mem[p]
      BY <3>3, <3>4
    <3>6. \A l \in Kinds : agent[p] = "normal" /\ saver'[p][l].pc \notin Resting =>
             \A o \in orphan[p] : o < saver'[p][l].v
      BY <3>2 DEF OrphanInv
    <3>7. ASSUME NEW l \in Kinds, NEW m \in Kinds, agent[p] = "normal",
                 redis[p] >= saver'[p][l].v,
                 saver'[p][l].pc \in {"set", "marked"}, saver'[p][m].pc \in {"set", "marked"}
          PROVE  redis[p] >= saver'[p][m].v
      <4>1. OrphanInv(p)
        OBVIOUS
      <4>2. saver'[p][l] = saver[p][l] /\ saver'[p][m] = saver[p][m]
        BY <3>2, <3>7 DEF Resting
      <4> HIDE <1>1, <1>3, <1>4, OfPlayer
      <4>3. Active(p, l) /\ Active(p, m) /\ redis[p] >= saver[p][l].v
        BY <3>7, <4>2 DEF Active
      <4>4. redis[p] >= saver[p][m].v
        BY <3>7, <4>1, <4>3 DEF OrphanInv
      <4> QED BY <4>2, <4>4
    <3> HIDE <1>1, <1>3, <1>4, OfPlayer
    <3> QED BY <3>5, <3>6, <3>7 DEF OrphanInv, Active
  <2>4. SaveInv(p)'
    BY DEF SaveInv
  <2>5. SyncInv(p)'
    BY DEF SyncInv
  <2> QED BY <2>1, <2>2, <2>3, <2>4, <2>5
<1> QED BY <1>1, <1>3, <1>5, <1>6, <1>7, <1>8, OneAgentKeeps DEF Kinds

LEMMA KickStep ==
    ASSUME SavingInv, NEW p \in Players, Kick(p)
    PROVE  SavingInv'
<1> USE DEF Kick, stores, dbsyncVars, history
<1>1. SavingTypeOK'
  BY DEF SavingInv, SavingTypeOK, AgentTypeOK, Fine
<1>2. \A q \in Players \ {p} : Untouched(q)
  BY DEF SavingInv, SavingTypeOK, AgentTypeOK, Untouched
<1>3. agent[p] = "normal" /\ agent'[p] = "kicking"
  BY DEF SavingInv, SavingTypeOK, AgentTypeOK
<1>4. PlayerInv(p)'
  <2> USE <1>3 DEF SavingInv, PlayerInv
  <2>1. AgentInv(p)'
    BY DEF AgentInv
  <2>2. NewestInv(p)'
    BY DEF NewestInv
  <2>3. OrphanInv(p)'
    BY DEF OrphanInv
  <2>4. SaveInv(p)'
    BY DEF SaveInv, Active, Safe, Solid, BatchSafe
  <2>5. SyncInv(p)'
    BY DEF SyncInv
  <2> QED BY <2>1, <2>2, <2>3, <2>4, <2>5
<1> QED BY <1>1, <1>2, <1>3, <1>4, OneAgentKeeps

LEMMA ExitStep ==
    ASSUME SavingInv, NEW p \in Players, Exit(p)
    PROVE  SavingInv'
<1> USE DEF Exit, stores, dbsyncVars
<1>1. SavingTypeOK /\ PlayerInv(p) /\ mem[p] \in Versions /\ agent[p] = "kicked" /\ Gone({p})
      /\ saver[p]["kick"].pc \in {"saved", "waiting"}
  BY VersionNumbers DEF SavingInv, PlayerInv, AgentInv, SavingTypeOK, AgentTypeOK
<1>2. /\ due' \in [Players -> Versions] /\ \A q \in Players \ {p} : due'[q] = due[q]
      /\ ~fallback[p] => due'[p] = due[p]
  BY <1>1, OfPlayer DEF SavingTypeOK, Later, PlayerInv, SaveInv
<1>3. AgentTypeOK'
  BY <1>1, GoneType
<1>4. SavingTypeOK'
  BY <1>1, <1>2, <1>3 DEF SavingTypeOK, Fine
<1>5. /\ agent'[p] = "out" /\ mem'[p] = None /\ ~flag'[p]
      /\ \A k \in Kinds : saver'[p][k] = Idle
  BY <1>1 DEF Gone
<1>6. \A q \in Players \ {p} : Untouched(q)
  BY <1>1, <1>2 DEF Gone, SavingTypeOK, AgentTypeOK, Untouched
<1>7. PlayerInv(p)'
  <2> USE <1>1, <1>2, <1>5, OfPlayer DEF PlayerInv, None, Idle
  <2>1. AgentInv(p)'
    BY DEF AgentInv, Resting, Kinds
  <2>2. NewestInv(p)'
    BY DEF NewestInv
  <2>3. OrphanInv(p)'
    BY DEF OrphanInv
  <2>4. SaveInv(p)'
    BY DEF SaveInv, Active, Safe, Solid, BatchSafe, Kinds
  <2>5. SyncInv(p)'
    BY DEF SyncInv
  <2> QED BY <2>1, <2>2, <2>3, <2>4, <2>5
<1> QED BY <1>1, <1>4, <1>6, <1>7, OneAgentKeeps

LEMMA OrphanSaveStep ==
    ASSUME SavingInv, NEW p \in Players, OrphanSave(p)
    PROVE  SavingInv'
<1>1. PICK o \in orphan[p] :
        /\ orphan' = [orphan EXCEPT ![p] = @ \ {o}]
        /\ redis' = [redis EXCEPT ![p] = o]
        /\ dirty' = dirty \cup {p}
        /\ fallback' = [fallback EXCEPT ![p] = TRUE]
        /\ UNCHANGED <<agent, mem, flag, saver, syncing, mysql, batch, pipe, newest, due,
                       synced, faults>>
  BY DEF OrphanSave, dbsyncVars, Fine
<1>2. SavingTypeOK /\ PlayerInv(p) /\ o \in Versions /\ o \in Nat
  BY VersionNumbers DEF SavingInv, SavingTypeOK, AgentTypeOK
<1>3. SavingTypeOK'
  BY <1>1, <1>2 DEF SavingTypeOK, AgentTypeOK
<1>4. \A q \in Players \ {p} : Untouched(q)
  BY <1>1, <1>2 DEF SavingTypeOK, AgentTypeOK, Untouched
<1>5. fallback'[p] /\ redis'[p] = o /\ orphan'[p] \subseteq orphan[p]
  BY <1>1, <1>2 DEF SavingTypeOK, AgentTypeOK
<1>6. PlayerInv(p)'
  <2> USE <1>1, <1>2, <1>5, OfPlayer DEF PlayerInv
  <2>1. AgentInv(p)'
    BY DEF AgentInv
  <2>2. NewestInv(p)'
    BY DEF NewestInv
  <2>3. OrphanInv(p)'
    BY DEF OrphanInv, Active, Resting
  <2>4. SaveInv(p)'
    BY DEF SaveInv
  <2>5. SyncInv(p)'
    BY DEF SyncInv
  <2> QED BY <2>1, <2>2, <2>3, <2>4, <2>5
<1> QED BY <1>1, <1>3, <1>4, <1>6, OneAgentKeeps

\* The value in redis is not older than w.
Ready(p, w) == redis[p] # None => redis[p] >= w

\* What a step on the pipe, the batch or mysql has to show for a player.
LEMMA SaveInvKept ==
    ASSUME SavingTypeOK, NEW p \in Players, SaveInv(p),
           fallback'[p] = fallback[p], redis'[p] = redis[p], due'[p] = due[p],
           \A k \in Kinds : Active(p, k)' => saver'[p][k] = saver[p][k],
           agent'[p] # "out" => agent[p] # "out" /\ mem'[p] = mem[p],
           saver'[p]["kick"].pc \in {"saved", "waiting"} =>
               saver[p]["kick"].pc \in {"saved", "waiting"} /\ mem'[p] = mem[p],
           \A w \in Nat : Ready(p, w) /\ Safe(p, w) => Safe(p, w)',
           synced'[p] /\ ~fallback[p] => Solid(p, due[p])',
           \A i \in DOMAIN pipe' : pipe'[i].p = p /\ pipe'[i].by = "kick" /\ ~fallback[p]
                                   => From(pipe', p, i, due[p])
    PROVE  SaveInv(p)'
<1> SUFFICES ASSUME ~fallback[p] PROVE SaveInv(p)'
  BY DEF SaveInv
<1>1. due[p] \in Nat /\ \A k \in Kinds : saver[p][k].v \in Nat
  BY OfPlayer
<1>2. Ready(p, due[p]) /\ Safe(p, due[p])
  BY DEF SaveInv, Ready
<1>3. Safe(p, due[p])'
  <2>1. \A w \in Nat : w = due[p] => Safe(p, w)'
    BY <1>2
  <2> QED BY <1>1, <2>1
<1>4. ASSUME NEW k \in Kinds, saver'[p][k].pc = "marked"
      PROVE  Safe(p, saver[p][k].v)'
  <2>1. saver'[p][k] = saver[p][k]
    BY <1>4 DEF Active
  <2>2. Ready(p, saver[p][k].v) /\ Safe(p, saver[p][k].v)
    BY <1>4, <2>1 DEF SaveInv, Ready, Active
  <2>3. \A w \in Nat : w = saver[p][k].v => Safe(p, w)'
    BY <2>2
  <2> QED BY <1>1, <2>1, <2>3
<1> QED BY <1>3, <1>4 DEF SaveInv, Active

LEMMA FromAppend ==
    ASSUME NEW s \in Seq(Update), NEW e \in Update, NEW q, NEW i \in Nat, NEW w \in Nat,
           From(s, q, i, w), e.p = q => e.v >= w
    PROVE  From(Append(s, e), q, i, w)
BY DEF From

LEMMA FromRemove ==
    ASSUME NEW s \in Seq(Update), s # <<>>, NEW q, NEW i \in Nat, NEW w \in Nat,
           From(s, q, i + 1, w) \/ (From(s, q, i, w) /\ i >= 1)
    PROVE  From(RemoveAt(s, 1), q, i, w)
<1> SUFFICES ASSUME NEW j \in DOMAIN RemoveAt(s, 1), j >= i, RemoveAt(s, 1)[j].p = q
             PROVE  RemoveAt(s, 1)[j].v >= w
  BY DEF From
<1>1. /\ DOMAIN RemoveAt(s, 1) = 1..(Len(s) - 1)
      /\ \A k \in DOMAIN RemoveAt(s, 1) : k + 1 \in DOMAIN s /\ RemoveAt(s, 1)[k] = s[k + 1]
  BY RemoveFirstFacts, Zenon
<1>2. j + 1 \in DOMAIN s /\ RemoveAt(s, 1)[j] = s[j + 1]
  BY <1>1, Zenon
<1>3. j \in Nat /\ j + 1 >= i + 1 /\ j + 1 >= i
  BY <1>1
<1>4. s[j + 1].p = q
  BY <1>2
<1>5. s[j + 1].v >= w
  <2>1. CASE From(s, q, i + 1, w)
    BY <1>2, <1>3, <1>4, <2>1, Zenon DEF From
  <2>2. CASE From(s, q, i, w)
    BY <1>2, <1>3, <1>4, <2>2, Zenon DEF From
  <2> QED BY <2>1, <2>2
<1> QED BY <1>2, <1>5

LEMMA FromLater ==
    ASSUME NEW s \in Seq(Update), NEW q, NEW i \in Nat, NEW j \in Nat, NEW w \in Nat,
           From(s, q, i, w), j >= i
    PROVE  From(s, q, j, w)
BY DEF From

\* The player's versions are ready to be read.
LEMMA DueReady ==
    ASSUME NEW p \in Players, SaveInv(p), ~fallback[p]
    PROVE  Ready(p, due[p])
BY DEF SaveInv, Ready

LEMMA ExpireStep ==
    ASSUME SavingInv, NEW p \in Players, Expire(p)
    PROVE  SavingInv'
<1> USE DEF Expire, agentVars, dbsyncVars
<1>1. SavingTypeOK /\ PlayerInv(p)
  BY DEF SavingInv
<1>2. /\ redis' \in [Players -> Versions \cup {None}]
      /\ fallback' \in [Players -> BOOLEAN] /\ faults' \in 0..MaxFaults
      /\ \A q \in Players \ {p} : redis'[q] = redis[q] /\ fallback'[q] = fallback[q]
      /\ redis'[p] = None
      /\ \/ p \notin dirty \cup syncing /\ fallback'[p] = fallback[p]
         \/ fallback'[p]
  BY <1>1, FaultType DEF SavingTypeOK
<1>3. SavingTypeOK'
  BY <1>1, <1>2 DEF SavingTypeOK, AgentTypeOK
<1>4. \A q \in Players \ {p} : Untouched(q)
  BY <1>2 DEF Untouched
<1>5. PlayerInv(p)'
  <2> USE <1>1, <1>2, OfPlayer DEF PlayerInv, None
  <2>1. AgentInv(p)'
    BY DEF AgentInv
  <2>2. NewestInv(p)'
    BY DEF NewestInv
  <2>3. OrphanInv(p)'
    BY DEF OrphanInv, Active
  <2>4. SaveInv(p)'
    BY DEF SaveInv, Active, Safe, Solid, BatchSafe
  <2>5. SyncInv(p)'
    BY DEF SyncInv
  <2> QED BY <2>1, <2>2, <2>3, <2>4, <2>5
<1> QED BY <1>3, <1>4, <1>5, OneAgentKeeps

LEMMA CrashStep ==
    ASSUME SavingInv, NEW p \in Players, Crash(p)
    PROVE  SavingInv'
<1> USE DEF Crash, stores, history
<1>1. SavingTypeOK /\ PlayerInv(p) /\ Gone({p}) /\ orphan' = orphan /\ faults' \in 0..MaxFaults
  BY FaultType DEF SavingInv
<1>2. /\ pipe' \in Seq(Update) /\ DOMAIN pipe' = DOMAIN pipe
      /\ \A i \in DOMAIN pipe : /\ pipe'[i].p = pipe[i].p /\ pipe'[i].v = pipe[i].v
                                /\ pipe'[i].by = "batch" <=> pipe[i].by = "batch"
                                /\ pipe'[i].by = "kick" => pipe[i].by = "kick" /\ pipe[i].p # p
  <2>1. \A i \in DOMAIN pipe : [pipe[i] EXCEPT !.by = "gone"] \in Update
    BY <1>1, PipeFacts DEF Update
  <2>2. \A i \in DOMAIN pipe : pipe'[i] \in Update
    BY <1>1, <2>1, PipeFacts
  <2>3. DOMAIN pipe' = 1..Len(pipe) /\ Len(pipe) \in Nat
    BY <1>1, PipeFacts
  <2>4. pipe' \in Seq(Update)
    BY <1>1, <2>2, <2>3, PipeFacts
  <2>5. ASSUME NEW i \in DOMAIN pipe
        PROVE  /\ pipe'[i].p = pipe[i].p /\ pipe'[i].v = pipe[i].v
               /\ pipe'[i].by = "batch" <=> pipe[i].by = "batch"
               /\ pipe'[i].by = "kick" => pipe[i].by = "kick" /\ pipe[i].p # p
    <3>1. pipe[i] \in Update
      BY <1>1, PipeFacts
    <3>2. pipe'[i] = IF pipe[i].p = p /\ pipe[i].by = "kick"
                     THEN [pipe[i] EXCEPT !.by = "gone"] ELSE pipe[i]
      BY Zenon
    <3> HIDE DEF Crash
    <3> QED BY <3>1, <3>2 DEF Update
  <2> QED BY <1>1, <2>3, <2>4, <2>5, PipeFacts
<1>3. AgentTypeOK'
  BY <1>1, GoneType
<1>4. SavingTypeOK'
  BY <1>1, <1>2, <1>3 DEF SavingTypeOK
<1>5. /\ agent'[p] = "out" /\ mem'[p] = None /\ ~flag'[p]
      /\ \A k \in Kinds : saver'[p][k] = Idle
      /\ \A q \in Players \ {p} : agent'[q] = agent[q] /\ mem'[q] = mem[q]
                                  /\ flag'[q] = flag[q] /\ saver'[q] = saver[q]
  <2>1. /\ agent'[p] = "out" /\ mem'[p] = None /\ ~flag'[p]
        /\ \A k \in Kinds : saver'[p][k] = Idle
    BY <1>1 DEF Gone
  <2>2. \A q \in Players \ {p} : agent'[q] = agent[q] /\ mem'[q] = mem[q]
                                  /\ flag'[q] = flag[q] /\ saver'[q] = saver[q]
    BY <1>1 DEF Gone, SavingTypeOK, AgentTypeOK
  <2> QED BY <2>1, <2>2
<1>6. UNCHANGED <<redis, dirty, syncing, mysql, batch, newest, due, fallback, synced, orphan>>
  OBVIOUS
<1> HIDE DEF Crash
<1>7. \A q, i, w : From(pipe', q, i, w) <=> From(pipe, q, i, w)
  BY <1>2 DEF From
<1>8. ASSUME NEW q \in Players PROVE SaveInv(q)'
  <2>1. SaveInv(q)
    BY DEF SavingInv, PlayerInv
  <2>2. \A w \in Nat : Safe(q, w) => Safe(q, w)'
    BY <1>2, <1>6, <1>7 DEF Safe, Solid, BatchSafe
  <2>3. synced'[q] /\ ~fallback[q] => Solid(q, due[q])'
    BY <1>6, <1>7, <2>1 DEF SaveInv, Solid
  <2>4. \A i \in DOMAIN pipe' : pipe'[i].p = q /\ pipe'[i].by = "kick" /\ ~fallback[q]
                                   => From(pipe', q, i, due[q])
    BY <1>2, <1>7, <2>1 DEF SaveInv
  <2>5. \A k \in Kinds : Active(q, k)' => saver'[q][k] = saver[q][k]
    BY <1>5 DEF Active, Idle
  <2>6. /\ agent'[q] # "out" => agent[q] # "out" /\ mem'[q] = mem[q]
        /\ saver'[q]["kick"].pc \in {"saved", "waiting"} =>
               saver[q]["kick"].pc \in {"saved", "waiting"} /\ mem'[q] = mem[q]
    BY <1>5 DEF Idle, Kinds
  <2> QED BY <1>1, <1>6, <2>1, <2>2, <2>3, <2>4, <2>5, <2>6, SaveInvKept
<1>9. ASSUME NEW q \in Players PROVE PlayerInv(q)'
  <2> USE <1>1, <1>2, <1>5, <1>6, OfPlayer DEF SavingInv, PlayerInv, None, Idle
  <2>1. AgentInv(q)'
    BY SMTT(20) DEF AgentInv, Resting, Kinds
  <2>2. NewestInv(q)'
    BY DEF NewestInv
  <2>3. OrphanInv(q)'
    BY DEF OrphanInv, Active
  <2>5. SyncInv(q)'
    BY DEF SyncInv
  <2> QED BY <1>8, <2>1, <2>2, <2>3, <2>5
<1>10. BatchInv'
  BY <1>2, <1>6 DEF SavingInv, BatchInv
<1>11. KickInv'
  BY <1>1, <1>2, <1>5, PipeFacts DEF SavingInv, KickInv
<1> QED BY <1>4, <1>9, <1>10, <1>11 DEF SavingInv

\* A step of the batch that only moves players between the sets.
LEMMA BatchMoves ==
    ASSUME SavingInv, SavingTypeOK', BatchInv',
           UNCHANGED <<agentVars, redis, mysql, pipe, newest, history>>,
           \A q \in Players : \A w \in Nat : Safe(q, w) => Safe(q, w)'
    PROVE  SavingInv'
<1> USE DEF agentVars, history
<1>1. ASSUME NEW q \in Players PROVE PlayerInv(q)'
  <2>1. SavingTypeOK /\ PlayerInv(q)
    BY DEF SavingInv
  <2>2. AgentInv(q)' /\ NewestInv(q)' /\ OrphanInv(q)' /\ SyncInv(q)'
    BY <2>1 DEF PlayerInv, AgentInv, NewestInv, OrphanInv, SyncInv, Active
  <2>3. synced'[q] /\ ~fallback[q] => Solid(q, due[q])'
    BY <2>1 DEF PlayerInv, SaveInv, Solid
  <2>4. \A i \in DOMAIN pipe' : pipe'[i].p = q /\ pipe'[i].by = "kick" /\ ~fallback[q]
                                   => From(pipe', q, i, due[q])
    BY <2>1 DEF PlayerInv, SaveInv
  <2>5. SaveInv(q)'
    BY <2>1, <2>3, <2>4, SaveInvKept DEF PlayerInv, Active
  <2> QED BY <2>2, <2>5 DEF PlayerInv
<1>2. KickInv'
  BY DEF SavingInv, KickInv
<1> QED BY <1>1, <1>2 DEF SavingInv

LEMMA BatchStartStep ==
    ASSUME SavingInv, BatchStart
    PROVE  SavingInv'
<1> USE DEF BatchStart, agentVars, history
<1>1. SavingTypeOK /\ BatchInv /\ batch.pc = "idle" /\ batch.of = {}
  BY DEF SavingInv, BatchInv
<1>2. batch'.pc = "read" /\ batch'.of = {} /\ syncing' \in SUBSET Players /\ dirty' \in SUBSET Players
  BY <1>1 DEF SavingTypeOK
<1>3. SavingTypeOK'
  BY <1>1, <1>2 DEF SavingTypeOK, AgentTypeOK, Fine
<1>4. BatchInv'
  BY <1>1, <1>2 DEF BatchInv
<1>5. \A q \in Players : \A w \in Nat : Safe(q, w) => Safe(q, w)'
  BY <1>1, <1>2 DEF Safe, Solid, BatchSafe
<1> QED BY <1>3, <1>4, <1>5, BatchMoves

LEMMA BatchSremStep ==
    ASSUME SavingInv, BatchSrem
    PROVE  SavingInv'
<1> USE DEF BatchSrem, agentVars, history
<1>1. SavingTypeOK /\ BatchInv /\ batch.pc = "srem"
  BY DEF SavingInv
<1>2. batch'.pc = "read" /\ batch'.of = {}
  BY <1>1 DEF SavingTypeOK
<1>3. SavingTypeOK'
  BY <1>1, <1>2 DEF SavingTypeOK, AgentTypeOK, Fine
<1>4. BatchInv'
  BY <1>1, <1>2 DEF BatchInv
<1>5. \A q \in Players : \A w \in Nat : Safe(q, w) => Safe(q, w)'
  BY <1>1, <1>2 DEF Safe, Solid, BatchSafe
<1> QED BY <1>3, <1>4, <1>5, BatchMoves

LEMMA BatchPutBackStep ==
    ASSUME SavingInv, BatchPutBack
    PROVE  SavingInv'
<1> USE DEF BatchPutBack, agentVars, history
<1>1. SavingTypeOK /\ BatchInv /\ batch.pc = "read" /\ batch.of = {}
  BY DEF SavingInv, BatchInv
<1>2. batch'.pc = "del" /\ batch'.of = {}
  BY <1>1 DEF SavingTypeOK
<1>3. SavingTypeOK'
  BY <1>1, <1>2 DEF SavingTypeOK, AgentTypeOK, Fine
<1>4. BatchInv'
  BY <1>1, <1>2 DEF BatchInv
<1>5. \A q \in Players : \A w \in Nat : Safe(q, w) => Safe(q, w)'
  BY <1>1, <1>2 DEF Safe, Solid, BatchSafe
<1> QED BY <1>3, <1>4, <1>5, BatchMoves

LEMMA BatchDelStep ==
    ASSUME SavingInv, BatchDel
    PROVE  SavingInv'
<1> USE DEF BatchDel, agentVars, history
<1>1. SavingTypeOK /\ BatchInv /\ batch.pc = "del" /\ batch.of = {}
  BY DEF SavingInv, BatchInv
<1>2. batch'.pc = "idle" /\ batch'.of = {}
  BY <1>1 DEF SavingTypeOK
<1>3. SavingTypeOK'
  BY <1>1, <1>2 DEF SavingTypeOK, AgentTypeOK, Fine
<1>4. BatchInv'
  BY <1>1, <1>2 DEF BatchInv
<1>5. \A q \in Players : \A w \in Nat : Safe(q, w) => Safe(q, w)'
  BY <1>1, <1>2 DEF Safe, Solid, BatchSafe
<1> QED BY <1>3, <1>4, <1>5, BatchMoves

LEMMA BatchAbortsStep ==
    ASSUME SavingInv, BatchAborts
    PROVE  SavingInv'
<1> USE DEF BatchAborts, agentVars, stores, history
<1>1. SavingTypeOK /\ BatchInv /\ batch.pc \in {"read", "srem", "del"} /\ faults' \in 0..MaxFaults
  BY FaultType DEF SavingInv
<1>2. batch'.pc = "idle" /\ batch'.of = {}
  OBVIOUS
<1>3. SavingTypeOK'
  BY <1>1, <1>2 DEF SavingTypeOK, AgentTypeOK
<1>4. BatchInv'
  BY <1>1, <1>2 DEF BatchInv
<1>5. \A q \in Players : \A w \in Nat : Safe(q, w) => Safe(q, w)'
  BY <1>1, <1>2 DEF Safe, Solid, BatchSafe
<1> QED BY <1>3, <1>4, <1>5, BatchMoves

\* What dbsync's answers and its end do to the agent of q: the kick goes on, or the agent
\* is gone or stuck.
KickGoesOn(q) ==
    /\ agent[q] = "kicking" /\ agent'[q] \in {"kicking", "kicked"}
    /\ mem'[q] = mem[q] /\ flag'[q] = flag[q] /\ orphan'[q] = orphan[q]
    /\ saver[q]["kick"].pc \in {"saved", "waiting"}
    /\ saver'[q]["kick"].pc \in {"saved", "waiting"}
    /\ saver'[q]["kick"].v = saver[q]["kick"].v
    /\ \A k \in Kinds \ {"kick"} : saver'[q][k] = saver[q][k]

Ends(q) ==
    /\ agent'[q] = "out" /\ mem'[q] = None /\ ~flag'[q]
    /\ \A k \in Kinds : saver'[q][k] = Idle
    /\ orphan'[q] \subseteq orphan[q] \cup {mem[q]}

AgentSame(q) ==
    /\ agent'[q] = agent[q] /\ mem'[q] = mem[q] /\ flag'[q] = flag[q]
    /\ saver'[q] = saver[q] /\ orphan'[q] = orphan[q]

LEMMA DbsyncMoves ==
    ASSUME SavingTypeOK, NEW q \in Players, PlayerInv(q),
           AgentSame(q) \/ KickGoesOn(q) \/ Ends(q),
           redis'[q] = redis[q], newest'[q] = newest[q], due'[q] = due[q],
           fallback'[q] = fallback[q],
           mysql'[q] <= newest[q],
           \A i \in DOMAIN pipe' : pipe'[i].p = q => pipe'[i].v <= newest[q],
           synced'[q] => synced[q] \/ agent'[q] = "kicked",
           \A w \in Nat : Ready(q, w) /\ Safe(q, w) => Safe(q, w)',
           synced'[q] /\ ~fallback[q] => Solid(q, due[q])',
           \A i \in DOMAIN pipe' : pipe'[i].p = q /\ pipe'[i].by = "kick" /\ ~fallback[q]
                                   => From(pipe', q, i, due[q])
    PROVE  PlayerInv(q)'
<1> USE DEF AgentSame, KickGoesOn, Ends, PlayerInv
<1>1. AgentInv(q)'
  <2>1. CASE AgentSame(q)
    BY <2>1 DEF AgentInv
  <2>2. CASE KickGoesOn(q)
    BY <2>2 DEF AgentInv, Resting, Kinds
  <2>3. CASE Ends(q)
    BY <2>3 DEF AgentInv, Resting, Kinds, Idle
  <2> QED BY <2>1, <2>2, <2>3
<1>2. NewestInv(q)'
  BY OfPlayer DEF NewestInv, None
<1>3. OrphanInv(q)'
  <2>1. CASE AgentSame(q)
    BY <2>1 DEF OrphanInv, Active
  <2>2. CASE ~AgentSame(q)
    BY <2>2 DEF OrphanInv
  <2> QED BY <2>1, <2>2
<1>4. SaveInv(q)'
  <2>1. \A k \in Kinds : Active(q, k)' => saver'[q][k] = saver[q][k]
    BY DEF Active, Idle
  <2>2. agent'[q] # "out" => agent[q] # "out" /\ mem'[q] = mem[q]
    OBVIOUS
  <2>3. saver'[q]["kick"].pc \in {"saved", "waiting"} =>
               saver[q]["kick"].pc \in {"saved", "waiting"} /\ mem'[q] = mem[q]
    BY DEF Kinds, Idle
  <2> QED BY <2>1, <2>2, <2>3, SaveInvKept
<1>5. SyncInv(q)'
  BY DEF SyncInv
<1> QED BY <1>1, <1>2, <1>3, <1>4, <1>5

\* The agents of G end stuck.
LEMMA StuckEnds ==
    ASSUME SavingTypeOK, NEW G \in SUBSET Players, Stuck(G)
    PROVE  /\ \A q \in G : Ends(q)
           /\ \A q \in Players \ G : AgentSame(q)
<1> USE DEF SavingTypeOK, AgentTypeOK, Stuck, Gone, Ends, AgentSame
<1>1. ASSUME NEW q \in G PROVE Ends(q)
  <2>1. agent'[q] = "out" /\ mem'[q] = None /\ ~flag'[q]
    OBVIOUS
  <2>2. \A k \in Kinds : saver'[q][k] = Idle
    OBVIOUS
  <2>3. orphan'[q] \subseteq orphan[q] \cup {mem[q]}
    OBVIOUS
  <2> QED BY <2>1, <2>2, <2>3
<1>2. ASSUME NEW q \in Players \ G PROVE AgentSame(q)
  OBVIOUS
<1> HIDE DEF SavingTypeOK, AgentTypeOK, Stuck, Gone, Ends, AgentSame
<1> QED BY <1>1, <1>2

\* dbsync sends what it read of a player; it is not older than what the player may
\* count on.
LEMMA SentFacts ==
    ASSUME SavingTypeOK, NEW p \in Players, redis[p] # None, NEW by \in {"batch", "kick"},
           pipe' = Sent(p, by)
    PROVE  /\ pipe' \in Seq(Update) /\ DOMAIN pipe' = 1..(Len(pipe) + 1)
           /\ \A i \in DOMAIN pipe : pipe'[i] = pipe[i]
           /\ \A i \in DOMAIN pipe' : i \in DOMAIN pipe \/ i = Len(pipe) + 1
           /\ pipe'[Len(pipe) + 1] = [p |-> p, v |-> redis[p], by |-> by]
           /\ \A q \in Players : \A i, w \in Nat :
                 Ready(q, w) /\ From(pipe, q, i, w) => From(pipe', q, i, w)
           /\ \A q \in Players : \A w \in Nat :
                 Ready(q, w) => From(pipe', q, Len(pipe) + 1, w)
<1> DEFINE e == [p |-> p, v |-> redis[p], by |-> by]
<1>1. e \in Update /\ e.p = p /\ e.v = redis[p]
  BY DEF Update, SavingTypeOK
<1>2. pipe' = Append(pipe, e) /\ pipe \in Seq(Update) /\ Len(pipe) \in Nat
      /\ DOMAIN pipe = 1..Len(pipe)
  BY PipeFacts DEF Sent
<1> HIDE DEF e
<1>3. /\ pipe' \in Seq(Update) /\ DOMAIN pipe' = 1..(Len(pipe) + 1)
      /\ \A i \in DOMAIN pipe : pipe'[i] = pipe[i]
      /\ pipe'[Len(pipe) + 1] = e
  BY <1>1, <1>2
<1>4. ASSUME NEW q \in Players, NEW i \in Nat, NEW w \in Nat, Ready(q, w), From(pipe, q, i, w)
      PROVE  From(pipe', q, i, w)
  <2>1. e.p = q => e.v >= w
    BY <1>1, <1>4 DEF Ready
  <2> QED BY <1>1, <1>2, <1>4, <2>1, FromAppend
<1>5. ASSUME NEW q \in Players, NEW w \in Nat, Ready(q, w)
      PROVE  From(pipe', q, Len(pipe) + 1, w)
  <2>1. e.p = q => e.v >= w
    BY <1>1, <1>5 DEF Ready
  <2> QED BY <1>2, <1>3, <2>1 DEF From
<1>6. \A i \in DOMAIN pipe' : i \in DOMAIN pipe \/ i = Len(pipe) + 1
  BY <1>2, <1>3
<1> QED BY <1>3, <1>4, <1>5, <1>6 DEF e

LEMMA BatchReadStep ==
    ASSUME SavingInv, NEW p \in Players, BatchRead(p)
    PROVE  SavingInv'
<1>1. SavingTypeOK /\ BatchInv /\ KickInv /\ batch.pc = "read" /\ batch.of = {}
      /\ faults' \in 0..MaxFaults
      /\ UNCHANGED <<agent, mem, flag, saver, orphan, redis, dirty, syncing, mysql, newest, due,
                     fallback, synced>>
  BY FaultType DEF SavingInv, BatchInv, BatchRead, agentVars, stores, history
<1>2. CASE redis[p] # None /\ pipe' = Sent(p, "batch")
           /\ batch' = [pc |-> "query", ids |-> batch.ids \ {p}, of |-> {p}]
  <2>1. batch'.pc = "query" /\ batch'.of = {p} /\ batch'.ids \in SUBSET Players
    BY <1>1, <1>2 DEF SavingTypeOK
  <2>2. /\ pipe' \in Seq(Update) /\ DOMAIN pipe' = 1..(Len(pipe) + 1)
        /\ \A i \in DOMAIN pipe : pipe'[i] = pipe[i]
        /\ \A i \in DOMAIN pipe' : i \in DOMAIN pipe \/ i = Len(pipe) + 1
        /\ pipe'[Len(pipe) + 1] = [p |-> p, v |-> redis[p], by |-> "batch"]
        /\ \A q \in Players : \A i, w \in Nat :
              Ready(q, w) /\ From(pipe, q, i, w) => From(pipe', q, i, w)
        /\ \A q \in Players : \A w \in Nat :
              Ready(q, w) => From(pipe', q, Len(pipe) + 1, w)
    BY <1>1, <1>2, SentFacts
  <2>3. Len(pipe) \in Nat /\ DOMAIN pipe = 1..Len(pipe) /\ \A i \in DOMAIN pipe : pipe[i].by # "batch"
    BY <1>1, PipeFacts DEF BatchInv
  <2>4. SavingTypeOK'
    BY <1>1, <1>2, <2>2, <2>1 DEF SavingTypeOK, AgentTypeOK
  <2>5. BatchInv'
    BY <2>1, <2>2, <2>3 DEF BatchInv
  <2>6. KickInv'
    BY <1>1, <2>2, <2>3 DEF KickInv
  <2>7. ASSUME NEW q \in Players PROVE PlayerInv(q)'
    <3>1. PlayerInv(q) /\ NewestInv(q) /\ SaveInv(q)
      BY DEF SavingInv, PlayerInv
    <3>2. \A i \in DOMAIN pipe' : pipe'[i].p = q => pipe'[i].v <= newest[q]
      BY <2>2, <3>1 DEF NewestInv
    <3>3. ASSUME NEW w \in Nat, Ready(q, w), Safe(q, w) PROVE Safe(q, w)'
      <4>1. CASE Solid(q, w)
        BY <1>1, <2>2, <3>3, <4>1 DEF Safe, Solid
      <4>2. CASE redis[q] >= w /\ q \in dirty
        BY <1>1, <4>2 DEF Safe
      <4>3. CASE redis[q] >= w /\ BatchSafe(q, w)
        <5>1. \A i \in DOMAIN pipe' : pipe'[i].by = "batch" => i = Len(pipe) + 1
          BY <2>2, <2>3
        <5>2. \A i \in DOMAIN pipe' : pipe'[i].by = "batch" => From(pipe', q, i, w)
          BY <2>2, <3>3, <5>1
        <5> QED BY <1>1, <2>1, <4>3, <5>2 DEF Safe, BatchSafe
      <4> QED BY <3>3, <4>1, <4>2, <4>3 DEF Safe
    <3>4. due[q] \in Nat /\ (~fallback[q] => Ready(q, due[q]))
      BY <1>1, <3>1, OfPlayer, DueReady
    <3>5. synced'[q] /\ ~fallback[q] => Solid(q, due[q])'
      BY <1>1, <2>2, <3>1, <3>4 DEF SaveInv, Solid
    <3>6. ASSUME NEW i \in DOMAIN pipe', pipe'[i].p = q, pipe'[i].by = "kick", ~fallback[q]
          PROVE  From(pipe', q, i, due[q])
      <4>1. i \in DOMAIN pipe /\ pipe[i] = pipe'[i] /\ i \in Nat
        BY <2>2, <2>3, <3>6
      <4> QED BY <2>2, <3>1, <3>4, <3>6, <4>1 DEF SaveInv
    <3>7. AgentSame(q) /\ mysql'[q] <= newest[q] /\ redis'[q] = redis[q] /\ newest'[q] = newest[q]
          /\ due'[q] = due[q] /\ fallback'[q] = fallback[q] /\ synced'[q] = synced[q]
      BY <1>1, <3>1 DEF NewestInv, AgentSame
    <3> QED BY <1>1, <3>1, <3>2, <3>3, <3>5, <3>6, <3>7, DbsyncMoves
  <2> QED BY <2>4, <2>5, <2>6, <2>7 DEF SavingInv
<1>3. CASE batch' = [batch EXCEPT !.ids = @ \ {p}] /\ UNCHANGED pipe
  <2>1. batch'.pc = batch.pc /\ batch'.of = batch.of
    BY <1>1, <1>3 DEF SavingTypeOK
  <2>2. SavingTypeOK'
    BY <1>1, <1>3 DEF SavingTypeOK, AgentTypeOK
  <2>3. BatchInv'
    BY <1>1, <1>3, <2>1 DEF BatchInv
  <2>4. \A q \in Players : \A w \in Nat : Safe(q, w) => Safe(q, w)'
    BY <1>1, <1>3, <2>1 DEF Safe, Solid, BatchSafe
  <2> QED BY <1>1, <1>3, <2>2, <2>3, <2>4, BatchMoves DEF agentVars, history
<1> QED BY <1>2, <1>3 DEF BatchRead

\* A step of the kick's side of dbsync leaves the batch as it is.
LEMMA SyncReadStep ==
    ASSUME SavingInv, NEW p \in Players, SyncRead(p)
    PROVE  SavingInv'
<1>1. SavingTypeOK /\ BatchInv /\ KickInv /\ PlayerInv(p) /\ faults' \in 0..MaxFaults
      /\ saver[p]["kick"].pc = "saved" /\ agent[p] = "kicking" /\ mem[p] # None
      /\ UNCHANGED <<redis, dirty, syncing, mysql, batch, newest, due, fallback, synced>>
  <2>1. SavingTypeOK /\ PlayerInv(p) /\ agent[p] = "kicking"
    BY DEF SavingInv, SyncRead
  <2>2. mem[p] # None
    BY <2>1 DEF PlayerInv, AgentInv
  <2>3. faults' \in 0..MaxFaults
    BY <2>1, FaultType DEF SyncRead
  <2> QED BY <2>1, <2>2, <2>3 DEF SavingInv, SyncRead, stores, history
<1>2. \A i \in DOMAIN pipe : pipe[i].by = "kick" => pipe[i].p # p
  BY <1>1 DEF KickInv
<1>3. CASE redis[p] # None /\ pipe' = Sent(p, "kick") /\ UNCHANGED <<agent, mem, flag, orphan>>
           /\ saver' = [saver EXCEPT ![p]["kick"].pc = "waiting"]
  <2>1. /\ pipe' \in Seq(Update) /\ DOMAIN pipe' = 1..(Len(pipe) + 1)
        /\ \A i \in DOMAIN pipe : pipe'[i] = pipe[i]
        /\ \A i \in DOMAIN pipe' : i \in DOMAIN pipe \/ i = Len(pipe) + 1
        /\ pipe'[Len(pipe) + 1] = [p |-> p, v |-> redis[p], by |-> "kick"]
        /\ \A q \in Players : \A i, w \in Nat :
              Ready(q, w) /\ From(pipe, q, i, w) => From(pipe', q, i, w)
        /\ \A q \in Players : \A w \in Nat :
              Ready(q, w) => From(pipe', q, Len(pipe) + 1, w)
    BY <1>1, <1>3, SentFacts
  <2>2. Len(pipe) \in Nat /\ DOMAIN pipe = 1..Len(pipe) /\ "kick" \in Kinds
    BY <1>1, PipeFacts DEF Kinds
  <2>3. saver[p]["kick"] \in Saver
    BY <1>1, <2>2 DEF SavingTypeOK, AgentTypeOK
  <2>4. [saver[p]["kick"] EXCEPT !.pc = "waiting"] \in Saver
    BY <2>3 DEF Saver
  <2>5. saver' = [saver EXCEPT ![p]["kick"] = [saver[p]["kick"] EXCEPT !.pc = "waiting"]]
    BY <1>3, <1>1 DEF SavingTypeOK, AgentTypeOK
  <2>6. /\ saver' \in [Players -> [Kinds -> Saver]]
        /\ saver'[p]["kick"] = [saver[p]["kick"] EXCEPT !.pc = "waiting"]
        /\ \A l \in Kinds \ {"kick"} : saver'[p][l] = saver[p][l]
        /\ \A q \in Players \ {p} : saver'[q] = saver[q]
    BY <1>1, <2>2, <2>4, <2>5, SaverFacts
  <2>7. saver'[p]["kick"].pc = "waiting" /\ saver'[p]["kick"].v = saver[p]["kick"].v
    BY <2>3, <2>6 DEF Saver
  <2>8. SavingTypeOK'
    BY <1>1, <1>3, <2>1, <2>6 DEF SavingTypeOK, AgentTypeOK
  <2>9. BatchInv'
    BY <1>1, <2>1, <2>2 DEF BatchInv
  <2>10. KickInv'
    <3>1. ASSUME NEW i \in DOMAIN pipe', pipe'[i].by = "kick"
          PROVE  agent'[pipe'[i].p] = "kicking" /\ saver'[pipe'[i].p]["kick"].pc = "waiting"
      <4>1. CASE i \in DOMAIN pipe
        <5>1. pipe'[i] = pipe[i] /\ pipe[i].p \in Players \ {p}
          BY <1>1, <1>2, <2>1, <3>1, <4>1, PipeFacts
        <5> QED BY <1>1, <1>3, <2>6, <3>1, <4>1, <5>1 DEF KickInv
      <4>2. CASE i = Len(pipe) + 1
        BY <1>1, <1>3, <2>1, <2>7, <4>2
      <4> QED BY <2>1, <4>1, <4>2
    <3>2. ASSUME NEW i \in DOMAIN pipe', NEW j \in DOMAIN pipe', pipe'[i].by = "kick",
                 pipe'[j].by = "kick", pipe'[j].p = pipe'[i].p
          PROVE  i = j
      <4>1. \A m \in DOMAIN pipe' : pipe'[m].by = "kick" /\ m # Len(pipe) + 1 =>
                m \in DOMAIN pipe /\ pipe'[m] = pipe[m] /\ pipe'[m].p # p
        BY <1>2, <2>1
      <4>2. pipe'[Len(pipe) + 1].p = p
        BY <2>1
      <4> QED BY <1>1, <3>2, <4>1, <4>2 DEF KickInv
    <3> QED BY <3>1, <3>2 DEF KickInv
  <2>11. ASSUME NEW q \in Players PROVE PlayerInv(q)'
    <3>1. PlayerInv(q) /\ NewestInv(q) /\ SaveInv(q)
      BY DEF SavingInv, PlayerInv
    <3>2. \A i \in DOMAIN pipe' : pipe'[i].p = q => pipe'[i].v <= newest[q]
      BY <2>1, <3>1 DEF NewestInv
    <3>3. ASSUME NEW w \in Nat, Ready(q, w), Safe(q, w) PROVE Safe(q, w)'
      <4>1. CASE Solid(q, w)
        BY <1>1, <2>1, <3>3, <4>1 DEF Safe, Solid
      <4>2. CASE redis[q] >= w /\ q \in dirty
        BY <1>1, <4>2 DEF Safe
      <4>3. CASE redis[q] >= w /\ BatchSafe(q, w)
        <5>1. ASSUME NEW i \in DOMAIN pipe', pipe'[i].by = "batch", q \in batch.of
              PROVE  From(pipe', q, i, w)
          <6>1. i \in DOMAIN pipe /\ pipe[i].by = "batch" /\ i \in Nat
            BY <2>1, <2>2, <5>1
          <6> QED BY <2>1, <3>3, <4>3, <5>1, <6>1 DEF BatchSafe
        <5> QED BY <1>1, <4>3, <5>1 DEF Safe, BatchSafe
      <4> QED BY <3>3, <4>1, <4>2, <4>3 DEF Safe
    <3>4. due[q] \in Nat /\ (~fallback[q] => Ready(q, due[q]))
      BY <1>1, <3>1, OfPlayer, DueReady
    <3>5. synced'[q] /\ ~fallback[q] => Solid(q, due[q])'
      BY <1>1, <2>1, <3>1, <3>4 DEF SaveInv, Solid
    <3>6. ASSUME NEW i \in DOMAIN pipe', pipe'[i].p = q, pipe'[i].by = "kick", ~fallback[q]
          PROVE  From(pipe', q, i, due[q])
      <4>1. CASE i \in DOMAIN pipe
        <5>1. pipe[i] = pipe'[i] /\ i \in Nat
          BY <2>1, <2>2, <4>1
        <5> QED BY <2>1, <3>1, <3>4, <3>6, <4>1, <5>1 DEF SaveInv
      <4>2. CASE i = Len(pipe) + 1
        BY <2>1, <3>4, <3>6, <4>2
      <4> QED BY <2>1, <4>1, <4>2
    <3>7. AgentSame(q) \/ KickGoesOn(q)
      BY <1>1, <1>3, <2>6, <2>7 DEF AgentSame, KickGoesOn
    <3>8. mysql'[q] <= newest[q] /\ redis'[q] = redis[q] /\ newest'[q] = newest[q]
          /\ due'[q] = due[q] /\ fallback'[q] = fallback[q] /\ synced'[q] = synced[q]
      BY <1>1, <3>1 DEF NewestInv
    <3> QED BY <1>1, <3>1, <3>2, <3>3, <3>5, <3>6, <3>7, <3>8, DbsyncMoves
  <2> QED BY <2>8, <2>9, <2>10, <2>11 DEF SavingInv
<1>4. ASSUME UNCHANGED pipe, AgentTypeOK', KickGoesOn(p),
             \A q \in Players \ {p} : AgentSame(q)
      PROVE  SavingInv'
  <2>1. SavingTypeOK'
    BY <1>1, <1>4 DEF SavingTypeOK
  <2>2. \A q \in Players \ {p} : Untouched(q)
    BY <1>1, <1>4 DEF AgentSame, Untouched
  <2>3. /\ \A w \in Nat : Safe(p, w) => Safe(p, w)'
        /\ synced'[p] /\ ~fallback[p] => Solid(p, due[p])'
        /\ \A i \in DOMAIN pipe' : pipe'[i].p = p /\ pipe'[i].by = "kick" /\ ~fallback[p]
                                   => From(pipe', p, i, due[p])
    BY <1>1, <1>4 DEF PlayerInv, SaveInv, Safe, Solid, BatchSafe
  <2>4. mysql'[p] <= newest[p] /\ \A i \in DOMAIN pipe' : pipe'[i].p = p => pipe'[i].v <= newest[p]
    BY <1>1, <1>4 DEF PlayerInv, NewestInv
  <2>5. PlayerInv(p)'
    BY <1>1, <1>4, <2>3, <2>4, DbsyncMoves
  <2> QED BY <1>1, <1>4, <2>1, <2>2, <2>5, OneAgentKeeps
<1>5. CASE agent' = [agent EXCEPT ![p] = "kicked"] /\ UNCHANGED <<mem, flag, saver, orphan, pipe>>
  <2>1. AgentTypeOK' /\ KickGoesOn(p) /\ \A q \in Players \ {p} : AgentSame(q)
    BY <1>1, <1>5 DEF SavingTypeOK, AgentTypeOK, KickGoesOn, AgentSame
  <2> QED BY <1>4, <1>5, <2>1
<1> QED BY <1>3, <1>5 DEF SyncRead

LEMMA WriteStep ==
    ASSUME SavingInv, Write
    PROVE  SavingInv'
<1> DEFINE e == pipe[1]
<1>1. /\ SavingTypeOK /\ BatchInv /\ KickInv /\ pipe # <<>> /\ faults' \in 0..MaxFaults
      /\ UNCHANGED <<redis, dirty, syncing, newest, due, fallback>>
  BY FaultType DEF SavingInv, Write, WriteOf
<1>2. PICK ok \in BOOLEAN :
         /\ UpdateAnswered(e, ok)
         /\ mysql' \in {mysql, [mysql EXCEPT ![e.p] = e.v]}
         /\ ok => mysql' = [mysql EXCEPT ![e.p] = e.v]
  BY DEF Write, WriteOf
<1>3. /\ pipe \in Seq(Update) /\ DOMAIN pipe = 1..Len(pipe) /\ Len(pipe) \in Nat
      /\ e \in Update /\ 1 \in DOMAIN pipe /\ e.p \in Players /\ e.v \in Versions /\ e.v \in Nat
      /\ e.by \in {"batch", "kick", "gone"}
      /\ pipe' \in Seq(Update) /\ DOMAIN pipe' = 1..(Len(pipe) - 1)
      /\ \A j \in DOMAIN pipe' : j + 1 \in DOMAIN pipe /\ pipe'[j] = pipe[j + 1]
  <2>1. pipe' = RemoveAt(pipe, 1)
    BY DEF Write, WriteOf
  <2>2. pipe \in Seq(Update)
    BY <1>1, PipeFacts
  <2>3. 1 \in DOMAIN pipe /\ pipe' \in Seq(Update) /\ DOMAIN pipe' = 1..(Len(pipe) - 1)
        /\ \A j \in DOMAIN pipe' : j + 1 \in DOMAIN pipe /\ pipe'[j] = pipe[j + 1]
    BY <1>1, <2>1, <2>2, RemoveFirstFacts
  <2> QED BY <1>1, <2>3, PipeFacts, VersionNumbers
<1>4. ASSUME NEW q \in Players, NEW i \in Nat, NEW w \in Nat,
             From(pipe, q, i + 1, w) \/ (From(pipe, q, i, w) /\ i >= 1)
      PROVE  From(pipe', q, i, w)
  <2>1. pipe' = RemoveAt(pipe, 1)
    BY DEF Write, WriteOf
  <2> QED BY <1>1, <1>3, <1>4, <2>1, FromRemove
<1>5. \A q \in Players : mysql'[q] = (IF q = e.p THEN mysql'[e.p] ELSE mysql[q])
      /\ mysql'[e.p] \in {mysql[e.p], e.v} /\ (ok => mysql'[e.p] = e.v)
      /\ mysql' \in [Players -> Versions]
  BY <1>1, <1>2, <1>3 DEF SavingTypeOK
<1>6. /\ batch' = IF e.by # "batch" THEN batch
                  ELSE [batch EXCEPT !.pc = IF ok THEN "srem" ELSE "read",
                                     !.of = IF ok THEN @ ELSE {}]
      /\ synced' = IF e.by = "kick" /\ ok THEN [synced EXCEPT ![e.p] = TRUE] ELSE synced
      /\ \/ e.by = "kick" /\ agent' = [agent EXCEPT ![e.p] = "kicked"]
            /\ UNCHANGED <<mem, flag, saver, orphan>>
         \/ e.by # "kick" /\ UNCHANGED <<agent, mem, flag, saver, orphan>>
  BY <1>2, Zenon DEF UpdateAnswered, agentVars
<1> HIDE DEF e
<1>7. /\ e.by # "batch" => batch' = batch
      /\ e.by = "batch" => /\ batch.pc = "query" /\ batch.of = {e.p}
                           /\ ok => batch'.pc = "srem" /\ batch'.of = batch.of
                           /\ ~ok => batch'.pc = "read" /\ batch'.of = {}
      /\ batch' \in [pc : {"idle", "read", "query", "srem", "rest", "del"},
                     ids : SUBSET Players, of : SUBSET Players]
  <2>1. e.by = "batch" => batch.pc = "query" /\ batch.of = {e.p}
    BY <1>1, <1>3 DEF BatchInv, e
  <2> QED BY <1>1, <1>6, <2>1 DEF SavingTypeOK
<1>8. e.by = "kick" => agent[e.p] = "kicking" /\ saver[e.p]["kick"].pc = "waiting" /\ mem[e.p] # None
  <2>1. e.by = "kick" => agent[e.p] = "kicking" /\ saver[e.p]["kick"].pc = "waiting"
    BY <1>1, <1>3 DEF KickInv, e
  <2>2. agent[e.p] = "kicking" => mem[e.p] # None
    BY <1>3 DEF SavingInv, PlayerInv, AgentInv
  <2> QED BY <2>1, <2>2
<1>9. /\ AgentTypeOK'
      /\ \A q \in Players : q # e.p \/ e.by # "kick" => AgentSame(q)
      /\ e.by = "kick" => KickGoesOn(e.p)
      /\ e.by = "kick" /\ ok => agent'[e.p] = "kicked"
  <2>1. CASE e.by = "kick" /\ agent' = [agent EXCEPT ![e.p] = "kicked"]
             /\ UNCHANGED <<mem, flag, saver, orphan>>
    BY <1>1, <1>3, <1>8, <2>1 DEF SavingTypeOK, AgentTypeOK, AgentSame, KickGoesOn
  <2>2. CASE e.by # "kick" /\ UNCHANGED <<agent, mem, flag, saver, orphan>>
    BY <1>1, <2>2 DEF SavingTypeOK, AgentTypeOK, AgentSame
  <2> QED BY <1>6, <2>1, <2>2
<1>10. /\ synced' \in [Players -> BOOLEAN]
       /\ \A q \in Players : synced'[q] => synced[q] \/ (q = e.p /\ e.by = "kick" /\ ok)
  BY <1>1, <1>3, <1>6 DEF SavingTypeOK
<1>11. SavingTypeOK'
  BY <1>1, <1>3, <1>5, <1>7, <1>9, <1>10 DEF SavingTypeOK
<1>12. BatchInv'
  <2>1. CASE e.by = "batch"
    <3>1. \A j \in DOMAIN pipe' : pipe'[j].by # "batch"
      <4> SUFFICES ASSUME NEW j \in DOMAIN pipe', pipe'[j].by = "batch" PROVE FALSE
        OBVIOUS
      <4>1. j + 1 \in DOMAIN pipe /\ pipe[j + 1].by = "batch" /\ j \in Nat /\ j >= 1
        BY <1>3
      <4>2. j + 1 = 1
        BY <1>1, <1>3, <2>1, <4>1 DEF BatchInv, e
      <4> QED BY <4>1, <4>2
    <3>2. batch'.pc \in {"srem", "read"} /\ (batch'.pc = "read" => batch'.of = {})
      BY <1>7, <2>1
    <3> QED BY <3>1, <3>2 DEF BatchInv
  <2>2. CASE e.by # "batch"
    <3>1. batch' = batch
      BY <1>7, <2>2
    <3>2. ASSUME batch.pc = "query" PROVE \E i \in DOMAIN pipe' : pipe'[i].by = "batch"
      <4>1. PICK i \in DOMAIN pipe : pipe[i].by = "batch"
        BY <1>1, <3>2 DEF BatchInv
      <4>2. i # 1
        BY <2>2, <4>1 DEF e
      <4>3. i - 1 \in DOMAIN pipe' /\ (i - 1) + 1 = i
        BY <1>3, <4>2
      <4>4. pipe'[i - 1] = pipe[i]
        BY <1>3, <4>3
      <4> QED BY <4>1, <4>3, <4>4
    <3>3. \A j \in DOMAIN pipe' : pipe'[j].by = "batch" => batch.pc = "query" /\ batch.of = {pipe'[j].p}
      BY <1>1, <1>3 DEF BatchInv
    <3>4. ASSUME NEW i \in DOMAIN pipe', NEW j \in DOMAIN pipe', pipe'[i].by = "batch",
                 pipe'[j].by = "batch"
          PROVE  i = j
      <4>1. i + 1 = j + 1
        BY <1>1, <1>3, <3>4 DEF BatchInv
      <4> QED BY <1>3, <4>1
    <3> QED BY <1>1, <3>1, <3>2, <3>3, <3>4 DEF BatchInv
  <2> QED BY <2>1, <2>2
<1>13. KickInv'
  <2>1. ASSUME NEW j \in DOMAIN pipe', pipe'[j].by = "kick"
        PROVE  agent'[pipe'[j].p] = "kicking" /\ saver'[pipe'[j].p]["kick"].pc = "waiting"
    <3>1. j + 1 \in DOMAIN pipe /\ pipe'[j] = pipe[j + 1] /\ j \in Nat /\ j >= 1
      BY <1>3
    <3>2. agent[pipe'[j].p] = "kicking" /\ saver[pipe'[j].p]["kick"].pc = "waiting"
      BY <1>1, <2>1, <3>1 DEF KickInv
    <3>3. pipe'[j].p \in Players
      BY <1>1, <3>1, PipeFacts
    <3>4. e.by = "kick" => pipe'[j].p # e.p
      <4>1. j + 1 # 1
        BY <3>1
      <4> QED BY <1>1, <1>3, <2>1, <3>1, <4>1 DEF KickInv, e
    <3>5. AgentSame(pipe'[j].p)
      BY <1>9, <3>3, <3>4
    <3> QED BY <3>2, <3>5 DEF AgentSame
  <2>2. ASSUME NEW i \in DOMAIN pipe', NEW j \in DOMAIN pipe', pipe'[i].by = "kick",
               pipe'[j].by = "kick", pipe'[j].p = pipe'[i].p
        PROVE  i = j
    <3>1. i + 1 = j + 1
      BY <1>1, <1>3, <2>2 DEF KickInv
    <3> QED BY <1>3, <3>1
  <2> QED BY <2>1, <2>2 DEF KickInv
<1>14. ASSUME NEW q \in Players PROVE PlayerInv(q)'
  <2>1. PlayerInv(q) /\ NewestInv(q) /\ SaveInv(q) /\ mysql[q] \in Nat /\ newest[q] \in Nat /\ due[q] \in Nat
    BY <1>1, OfPlayer DEF SavingInv, PlayerInv
  <2>2. mysql'[q] <= newest[q]
    BY <1>3, <1>5, <2>1 DEF NewestInv, e
  <2>3. \A i \in DOMAIN pipe' : pipe'[i].p = q => pipe'[i].v <= newest[q]
    BY <1>3, <2>1 DEF NewestInv
  <2>4. ASSUME NEW w \in Nat, From(pipe, q, 1, w), mysql[q] >= w \/ (q = e.p /\ ok)
        PROVE  Solid(q, w)'
    <3>1. From(pipe', q, 1, w)
      BY <1>4, <2>4
    <3>2. q = e.p => e.v >= w
      BY <1>3, <2>4 DEF From, e
    <3>3. mysql'[q] >= w
      BY <1>5, <2>4, <3>2
    <3> QED BY <3>1, <3>3 DEF Solid
  <2>5. ASSUME NEW w \in Nat, Safe(q, w) PROVE Safe(q, w)'
    <3>1. CASE Solid(q, w)
      BY <2>4, <3>1 DEF Solid, Safe
    <3>2. CASE redis[q] >= w /\ q \in dirty
      BY <1>1, <3>2 DEF Safe
    <3>3. CASE redis[q] >= w /\ BatchSafe(q, w) /\ e.by = "batch" /\ ok /\ q = e.p
      <4>1. From(pipe, q, 1, w)
        BY <1>3, <1>7, <3>3 DEF BatchSafe, e
      <4> QED BY <2>4, <3>3, <4>1 DEF Safe
    <3>4. CASE redis[q] >= w /\ BatchSafe(q, w) /\ e.by = "batch" /\ ~ (ok /\ q = e.p)
      <4>1. q \notin batch'.of /\ batch'.pc # "del"
        BY <1>7, <3>4
      <4> QED BY <1>1, <3>4, <4>1 DEF Safe, BatchSafe
    <3>5. CASE redis[q] >= w /\ BatchSafe(q, w) /\ e.by # "batch"
      <4>1. batch' = batch
        BY <1>7, <3>5
      <4>2. ASSUME q \in batch.of, NEW i \in DOMAIN pipe', pipe'[i].by = "batch"
            PROVE  From(pipe', q, i, w)
        <5>1. i + 1 \in DOMAIN pipe /\ pipe[i + 1].by = "batch" /\ i \in Nat
          BY <1>3, <4>2
        <5>2. From(pipe, q, i + 1, w)
          BY <3>5, <4>2, <5>1 DEF BatchSafe
        <5> QED BY <1>4, <5>1, <5>2
      <4> QED BY <1>1, <3>5, <4>1, <4>2 DEF Safe, BatchSafe
    <3> QED BY <2>5, <3>1, <3>2, <3>3, <3>4, <3>5 DEF Safe
  <2>6. ASSUME synced'[q], ~fallback[q] PROVE Solid(q, due[q])'
    <3>1. CASE synced[q]
      <4>1. Solid(q, due[q])
        BY <2>1, <2>6, <3>1 DEF SaveInv
      <4>2. \A w \in Nat : w = due[q] => Solid(q, w)'
        BY <2>4, <4>1 DEF Solid
      <4>3. due'[q] = due[q]
        BY <1>1
      <4> QED BY <2>1, <4>2, <4>3
    <3>2. CASE q = e.p /\ e.by = "kick" /\ ok
      <4>1. From(pipe, q, 1, due[q])
        BY <1>3, <2>1, <2>6, <3>2 DEF SaveInv, e
      <4>2. \A w \in Nat : w = due[q] => Solid(q, w)'
        BY <2>4, <3>2, <4>1
      <4>3. due'[q] = due[q]
        BY <1>1
      <4> QED BY <2>1, <4>2, <4>3
    <3> QED BY <1>10, <2>6, <3>1, <3>2
  <2>7. ASSUME NEW i \in DOMAIN pipe', pipe'[i].p = q, pipe'[i].by = "kick", ~fallback[q]
        PROVE  From(pipe', q, i, due[q])
    <3>1. i + 1 \in DOMAIN pipe /\ pipe[i + 1] = pipe'[i] /\ i \in Nat
      BY <1>3, <2>7
    <3>2. From(pipe, q, i + 1, due[q])
      BY <2>1, <2>7, <3>1 DEF SaveInv
    <3> QED BY <1>4, <2>1, <3>1, <3>2
  <2>8. AgentSame(q) \/ KickGoesOn(q) \/ Ends(q)
    BY <1>9
  <2>9. /\ redis'[q] = redis[q] /\ newest'[q] = newest[q] /\ due'[q] = due[q]
        /\ fallback'[q] = fallback[q]
        /\ synced'[q] => synced[q] \/ agent'[q] = "kicked"
    BY <1>1, <1>9, <1>10
  <2> QED BY <1>1, <2>1, <2>2, <2>3, <2>5, <2>6, <2>7, <2>8, <2>9, DbsyncMoves
<1> QED BY <1>11, <1>12, <1>13, <1>14 DEF SavingInv

LEMMA DbsyncCrashStep ==
    ASSUME SavingInv, DbsyncCrash
    PROVE  SavingInv'
<1> DEFINE G == {p \in Players : saver[p]["kick"].pc \in {"saved", "waiting"}
                                 /\ agent[p] = "kicking"}
<1>1. /\ SavingTypeOK /\ pipe' = <<>> /\ batch' = [pc |-> "idle", ids |-> {}, of |-> {}]
      /\ faults' \in 0..MaxFaults /\ Stuck(G) /\ G \in SUBSET Players
      /\ UNCHANGED <<redis, dirty, syncing, mysql, newest, due, fallback, synced>>
  BY FaultType DEF SavingInv, DbsyncCrash, stores, history
<1>2. \A q \in G : mem[q] # None
  BY DEF SavingInv, PlayerInv, AgentInv
<1> HIDE DEF G
<1>3. AgentTypeOK'
  BY <1>1, <1>2, GoneType
<1>4. SavingTypeOK'
  BY <1>1, <1>3 DEF SavingTypeOK
<1>5. BatchInv' /\ KickInv'
  BY <1>1 DEF BatchInv, KickInv
<1>6. ASSUME NEW q \in Players PROVE PlayerInv(q)'
  <2>1. PlayerInv(q) /\ NewestInv(q) /\ SaveInv(q) /\ (AgentSame(q) \/ Ends(q))
    BY <1>1, StuckEnds DEF SavingInv, PlayerInv
  <2>2. \A w : From(pipe', q, 1, w)
    BY <1>1 DEF From
  <2>3. \A w \in Nat : Safe(q, w) => Safe(q, w)'
    BY <1>1, <2>2 DEF Safe, Solid, BatchSafe
  <2>4. synced'[q] /\ ~fallback[q] => Solid(q, due[q])'
    BY <1>1, <2>1, <2>2 DEF SaveInv, Solid
  <2>5. \A i \in DOMAIN pipe' : FALSE
    BY <1>1
  <2>6. mysql'[q] <= newest[q]
    BY <1>1, <2>1 DEF NewestInv
  <2> QED BY <1>1, <2>1, <2>3, <2>4, <2>5, <2>6, DbsyncMoves
<1> QED BY <1>4, <1>5, <1>6 DEF SavingInv

LEMMA InitStep == SavingInit => SavingInv
<1> SUFFICES ASSUME SavingInit PROVE SavingInv
  OBVIOUS
<1> USE DEF SavingInit
<1>1. SavingTypeOK
  <2>1. agent \in [Players -> {"out", "normal", "kicking", "kicked"}]
        /\ mem \in [Players -> Versions \cup {None}] /\ flag \in [Players -> BOOLEAN]
        /\ saver \in [Players -> [Kinds -> Saver]] /\ orphan \in [Players -> SUBSET Versions]
    BY Idling
  <2>2. redis \in [Players -> Versions \cup {None}] /\ mysql \in [Players -> Versions]
        /\ newest \in [Players -> Versions] /\ due \in [Players -> Versions]
    BY VersionNumbers
  <2> QED BY <2>1, <2>2, SavingAssumption DEF SavingTypeOK, AgentTypeOK
<1>2. BatchInv /\ KickInv
  BY DEF BatchInv, KickInv
<1>3. ASSUME NEW p \in Players PROVE PlayerInv(p)
  <2>1. /\ agent[p] = "out" /\ mem[p] = None /\ ~flag[p] /\ orphan[p] = {} /\ ~synced[p]
        /\ \A k \in Kinds : saver[p][k] = Idle
        /\ mysql[p] = 1 /\ newest[p] = due[p] /\ due[p] \in {1, 2}
        /\ \/ p \in Away /\ redis[p] = 2 /\ due[p] = 2 /\ p \in dirty
           \/ p \notin Away /\ redis[p] = None /\ due[p] = 1
        /\ pipe = <<>>
    OBVIOUS
  <2> HIDE DEF SavingInit
  <2> USE <2>1 DEF None, Idle
  <2>2. AgentInv(p)
    BY DEF AgentInv, Resting, Kinds
  <2>3. NewestInv(p)
    BY DEF NewestInv
  <2>4. OrphanInv(p)
    BY DEF OrphanInv
  <2>5. SaveInv(p)
    BY DEF SaveInv, Active, Safe, Solid, From, Kinds
  <2>6. SyncInv(p)
    BY DEF SyncInv
  <2> QED BY <2>2, <2>3, <2>4, <2>5, <2>6 DEF PlayerInv
<1> QED BY <1>1, <1>2, <1>3 DEF SavingInv

LEMMA NextStep == SavingInv /\ [SavingNext]_savingVars => SavingInv'
<1> SUFFICES ASSUME SavingInv, [SavingNext]_savingVars PROVE SavingInv'
  OBVIOUS
<1>1. ASSUME NEW p \in Players, Login(p) \/ Change(p) \/ AddCoin(p) \/ TimerSave(p) \/ KickSave(p)
      PROVE  SavingInv'
  BY <1>1, LoginStep, ChangeStep, AddCoinStep, TimerSaveStep, KickSaveStep
<1>2. ASSUME NEW p \in Players, NEW k \in Kinds,
             Mark(p, k) \/ SaveReturn(p, k) \/ Fallback(p, k) \/ MarkFails(p, k)
      PROVE  SavingInv'
  BY <1>2, MarkStep, SaveReturnStep, FallbackStep, MarkFailsStep
<1>3. ASSUME NEW p \in Players, SyncRead(p) \/ BatchRead(p)
      PROVE  SavingInv'
  BY <1>3, SyncReadStep, BatchReadStep
<1>4. ASSUME NEW p \in Players, Kick(p) \/ Exit(p) \/ OrphanSave(p) \/ Crash(p) \/ Expire(p)
      PROVE  SavingInv'
  BY <1>4, KickStep, ExitStep, OrphanSaveStep, CrashStep, ExpireStep
<1>5. CASE BatchStep \/ BatchAborts
  BY <1>5, BatchStartStep, BatchSremStep, BatchPutBackStep, BatchDelStep, BatchAbortsStep
     DEF BatchStep
<1>6. CASE Write \/ DbsyncCrash
  BY <1>6, WriteStep, DbsyncCrashStep
<1>7. CASE UNCHANGED savingVars
  <2> USE <1>7 DEF savingVars, agentVars, stores, dbsyncVars, history
  <2>1. SavingTypeOK' /\ BatchInv' /\ KickInv'
    BY DEF SavingInv, SavingTypeOK, AgentTypeOK, BatchInv, KickInv
  <2>2. ASSUME NEW q \in Players PROVE PlayerInv(q)'
    BY UntouchedKept DEF SavingInv, Untouched
  <2> QED BY <2>1, <2>2 DEF SavingInv
<1> QED BY <1>1, <1>2, <1>3, <1>4, <1>5, <1>6, <1>7 DEF SavingNext, AgentStep

\* An agent starts by its login.
LEMMA OnlyLoginEnters ==
    ASSUME SavingInv, SavingNext, NEW p \in Players, agent[p] = "out", agent'[p] # "out"
    PROVE  Login(p)
<1> SUFFICES ASSUME ~Login(p) PROVE agent'[p] = "out"
  OBVIOUS
<1> USE DEF agentVars
<1>1. agent \in [Players -> {"out", "normal", "kicking", "kicked"}] /\ SavingTypeOK
  BY DEF SavingInv, SavingTypeOK, AgentTypeOK
<1>2. \A G \in SUBSET Players : Gone(G) \/ Stuck(G) => agent'[p] = "out"
  BY DEF Gone, Stuck
<1>3. ASSUME NEW q \in Players, Login(q) \/ Kick(q) \/ SyncRead(q) PROVE agent'[p] = "out"
  <2>1. CASE q # p
    BY <1>1, <1>2, <1>3, <2>1 DEF Login, Kick, SyncRead
  <2>2. CASE q = p
    BY <1>2, <1>3, <2>2 DEF Kick, SyncRead
  <2> QED BY <2>1, <2>2
<1>4. ASSUME NEW q \in Players,
             Change(q) \/ AddCoin(q) \/ TimerSave(q) \/ KickSave(q) \/ OrphanSave(q)
             \/ BatchRead(q) \/ Expire(q)
      PROVE  agent'[p] = "out"
  BY <1>4 DEF Change, AddCoin, TimerSave, KickSave, OrphanSave, BatchRead, Expire
<1>5. ASSUME NEW q \in Players, NEW k \in Kinds,
             Mark(q, k) \/ SaveReturn(q, k) \/ Fallback(q, k) \/ MarkFails(q, k)
      PROVE  agent'[p] = "out"
  <2>1. CASE Mark(q, k) \/ SaveReturn(q, k) \/ Fallback(q, k)
    <3>1. agent' = agent
      BY <2>1, Zenon DEF Mark, SaveReturn, Fallback
    <3> QED BY <3>1
  <2>2. CASE MarkFails(q, k)
    <3>1. Stuck({q}) \/ agent' = agent
      BY <2>2, Zenon DEF MarkFails
    <3> QED BY <1>2, <3>1
  <2> QED BY <1>5, <2>1, <2>2
<1>6. ASSUME NEW q \in Players, Exit(q) \/ Crash(q) PROVE agent'[p] = "out"
  BY <1>2, <1>6 DEF Exit, Crash
<1>7. CASE BatchStep \/ BatchAborts
  BY <1>7 DEF BatchStep, BatchStart, BatchSrem, BatchPutBack, BatchDel, BatchAborts
<1>8. CASE DbsyncCrash
  BY <1>2, <1>8 DEF DbsyncCrash
<1>9. CASE Write
  <2>1. 1 \in DOMAIN pipe /\ pipe[1].p \in Players
    BY <1>1, <1>9, PipeFacts DEF Write
  <2>2. pipe[1].by = "kick" => pipe[1].p # p
    BY <2>1 DEF SavingInv, KickInv
  <2>3. PICK ok \in BOOLEAN : UpdateAnswered(pipe[1], ok)
    BY <1>9 DEF Write, WriteOf
  <2> QED BY <1>1, <1>2, <2>1, <2>2, <2>3 DEF UpdateAnswered
<1> QED BY <1>3, <1>4, <1>5, <1>6, <1>7, <1>8, <1>9 DEF SavingNext, AgentStep

LEMMA SavingInvariance == SavingSpec => []SavingInv
BY InitStep, NextStep, PTL DEF SavingSpec

\* The state of the saves keeps its shape; only values that redis had are on their way
\* to mysql.
THEOREM SavingTypeCorrect == SavingSpec => []SavingTypeOK
<1>1. SavingInv => SavingTypeOK
  BY DEF SavingInv
<1> QED BY <1>1, SavingInvariance, PTL

\* For every number of players, changes and faults: a save that was reported as done is
\* in mysql, or in redis with the player in one of the batch's two sets, whatever fails
\* or restarts in between; unless the fallback to mysql stood in for it.
THEOREM SavedIsKeptHolds == SavingSpec => []SavedIsKept
<1>1. SavingInv => SavedIsKept
  <2> SUFFICES ASSUME SavingInv, NEW p \in Players, ~fallback[p]
               PROVE  mysql[p] >= due[p] \/ (redis[p] >= due[p] /\ p \in dirty \cup syncing)
    BY DEF SavedIsKept
  <2>1. Safe(p, due[p])
    BY DEF SavingInv, PlayerInv, SaveInv
  <2> QED BY <2>1 DEF Safe, Solid, BatchSafe
<1> QED BY <1>1, SavingInvariance, PTL

\* Nothing that dbsync still sends to mysql, for a batch or for a kick, is older than what
\* sync_player brought there, so it stays.
THEOREM SyncedStaysHolds == SavingSpec => []SyncedStays
<1>1. SavingInv => SyncedStays
  BY DEF SyncedStays, SavingInv, PlayerInv, SaveInv, Solid
<1> QED BY <1>1, SavingInvariance, PTL

\* An agent that starts finds in redis, or in mysql when redis has forgotten, at least what
\* its player left with or what was saved before a crash.
THEOREM LoadsNewestHolds == SavingSpec => LoadsNewest
<1> DEFINE A == \A p \in Players : agent[p] = "out" /\ agent'[p] # "out" =>
                    fallback[p] \/ mem'[p] >= due[p]
<1>1. ASSUME SavingInv, SavingNext PROVE A
  <2> SUFFICES ASSUME NEW p \in Players, agent[p] = "out", agent'[p] # "out", ~fallback[p]
               PROVE  mem'[p] >= due[p]
    OBVIOUS
  <2>1. SavingTypeOK /\ SaveInv(p) /\ PlayerInv(p)
    BY <1>1 DEF SavingInv, PlayerInv
  <2>2. Login(p)
    BY <1>1, OnlyLoginEnters
  <2>3. mem'[p] = (IF redis[p] # None THEN redis[p] ELSE mysql[p])
    BY <2>1, <2>2 DEF Login, SavingTypeOK, AgentTypeOK
  <2> QED BY <2>1, <2>3, OfPlayer DEF SaveInv, Safe, Solid, None
<1>2. SavingInv /\ [SavingNext]_savingVars => [A]_savingVars
  BY <1>1
<1>3. SavingSpec => [][A]_savingVars
  BY <1>2, SavingInvariance, PTL DEF SavingSpec
<1> QED BY <1>3 DEF LoadsNewest
-----------------------------------------------------------------------------
(* MysqlProxy. *)

\* The slot of a caller is marked as taken, and the record of a transaction agrees
\* with it.
SlotInv(c) ==
    /\ Busy(c) => state[slot[c]] # "FREE"
    /\ txs[c] # NoSlot => pc[c] \in {"tx", "rollback"} /\ txs[c] = slot[c]
    /\ pc[c] = "tx" => txs[c] = slot[c]
    /\ pc[c] \in {"start", "tx", "rollback", "committing", "rolling"} => c \notin Singles

\* Before and outside a transaction the connection has none open.
CleanInv(c) ==
    /\ pc[c] \in {"single", "start"} => slot[c] \notin open /\ written[slot[c]] = {}
    /\ pc[c] \in {"call", "single", "start"} => done[c] = 0

\* A transaction that is still wanted is open on its connection, with exactly the
\* statements that were answered, as long as the connection works and is the one that
\* began it.
Answers(c, n) == {c} \X (1..n)
OpenInv(c) ==
    /\ pc[c] \in {"tx", "committing"} => written[slot[c]] \subseteq Statements(c)
    /\ pc[c] \in {"tx", "committing"} /\ c \notin slipped /\ link[slot[c]] = "up" =>
          slot[c] \in open /\ written[slot[c]] = Answers(c, done[c])
    /\ pc[c] = "committing" => done[c] = TxLen

\* Before the commit nothing of a transaction is in the database; a caller that was
\* told of success finds everything, and one that still waits was told nothing.  A
\* transaction whose connection was replaced is excepted.
ResultInv(c) ==
    /\ c \notin slipped /\ (Busy(c) \/ pc[c] = "call") => Statements(c) \cap db = {}
    /\ c \notin slipped /\ told[c] = "ok" => Statements(c) \subseteq db
    /\ pc[c] = "done" <=> told[c] # "nothing"
    /\ c \notin slipped => Statements(c) \subseteq db \/ Statements(c) \cap db = {}

CInv(c) == SlotInv(c) /\ CleanInv(c) /\ OpenInv(c) /\ ResultInv(c)

IInv == TypeOK /\ OneUser /\ FreeIsClean /\ \A c \in Clients : CInv(c)

USE ProxyAssumption, NoSlotAssumption DEF NoSlot

\* What a statement on one connection can change.
ConnType == /\ link \in [Slots -> {"up", "lost", "closed"}] /\ open \subseteq Slots
            /\ written \in [Slots -> SUBSET (Clients \X (1..TxLen))]
            /\ db \subseteq Clients \X (1..TxLen)
Elsewhere(s) == \A t \in Slots : t # s =>
                    /\ t \in open' <=> t \in open
                    /\ written'[t] = written[t] /\ link'[t] = link[t]

\* What a statement of c may bring to the database.
Brought(c) == \E D \in SUBSET Statements(c) :
                  db' = db \cup D /\ (c \in slipped \/ D = {} \/ D = Statements(c))

\* What the caller sees of a step, and the database of the caller.
Effect(c) ==
    /\ told[c] = "nothing" /\ slipped' = slipped
    /\ Brought(c)
    /\ \/ told' = told
       \/ told' = [told EXCEPT ![c] = "failed"]
       \/ told' = [told EXCEPT ![c] = "ok"] /\ (c \in slipped \/ Statements(c) \subseteq db')

\* A statement that was executed and answered.
LEMMA AnsweredStep ==
    ASSUME TypeOK, NEW s \in Slots, NEW W \in SUBSET (Clients \X (1..TxLen)),
           NEW st \in {"start", "write", "commit", "rollback"}, Answered(s, st, W)
    PROVE  /\ ConnType' /\ Elsewhere(s) /\ link[s] = "up" /\ link'[s] = "up"
           /\ st = "start" => s \in open' /\ written'[s] = {} /\ db' = db
           /\ st = "write" /\ s \in open =>
                 s \in open' /\ written'[s] = written[s] \cup W /\ db' = db
           /\ st = "write" /\ s \notin open =>
                 s \notin open' /\ written'[s] = written[s] /\ db' = db \cup W
           /\ st = "commit" => s \notin open' /\ written'[s] = {} /\ db' = db \cup written[s]
           /\ st = "rollback" => s \notin open' /\ written'[s] = {} /\ db' = db
<1>1. CASE st = "start"
  BY <1>1 DEF TypeOK, ConnType, Elsewhere, Answered, Executed
<1>2. CASE st = "commit"
  BY <1>2 DEF TypeOK, ConnType, Elsewhere, Answered, Executed
<1>3. CASE st = "rollback"
  BY <1>3 DEF TypeOK, ConnType, Elsewhere, Answered, Executed
<1>4. CASE st = "write" /\ s \in open
  BY <1>4 DEF TypeOK, ConnType, Elsewhere, Answered, Executed
<1>5. CASE st = "write" /\ s \notin open
  BY <1>5 DEF TypeOK, ConnType, Elsewhere, Answered, Executed
<1> QED BY <1>1, <1>2, <1>3, <1>4, <1>5

\* A statement that was refused, or lost with its connection.
LEMMA FailedStep ==
    ASSUME TypeOK, NEW s \in Slots, NEW W \in SUBSET (Clients \X (1..TxLen)),
           NEW st \in {"start", "write"},
           Failed(s, st, W)
    PROVE  /\ ConnType' /\ Elsewhere(s)
           /\ s \in open' => s \in open /\ written'[s] = written[s]
           /\ written'[s] \in {written[s], {}}
           /\ \/ db' = db
              \/ st = "write" /\ s \notin open /\ link[s] = "up" /\ db' = db \cup W
BY DEF TypeOK, ConnType, Elsewhere, Failed, Refused, Reconnected, connection

\* The last statement of a transaction, lost with its connection.
LEMMA ReconnectedStep ==
    ASSUME TypeOK, NEW s \in Slots, NEW st \in {"commit", "rollback"},
           Reconnected(s, st, {})
    PROVE  /\ ConnType' /\ Elsewhere(s)
           /\ s \notin open' /\ written'[s] = {}
           /\ db' = db \/ (st = "commit" /\ link[s] = "up" /\ db' = db \cup written[s])
BY DEF TypeOK, ConnType, Elsewhere, Reconnected

\* A step of one caller on its own connection leaves the others as they are.
LEMMA OthersKept ==
    ASSUME IInv, NEW c \in Clients, Busy(c), Elsewhere(slot[c]),
           \E D \in SUBSET Statements(c) : db' = db \cup D,
           \A d \in Clients : d # c => (d \in slipped' <=> d \in slipped),
           \A t \in Slots : t # slot[c] => state'[t] = state[t],
           \A d \in Clients : d # c => /\ pc'[d] = pc[d] /\ txs'[d] = txs[d] /\ slot'[d] = slot[d]
                                      /\ done'[d] = done[d] /\ told'[d] = told[d]
    PROVE  \A d \in Clients : d # c => CInv(d)'
<1> SUFFICES ASSUME NEW d \in Clients, d # c PROVE CInv(d)'
  OBVIOUS
<1>1. CInv(d) /\ (Busy(d)' <=> Busy(d))
  BY DEF IInv, Busy
<1>2. Busy(d) => slot[d] \in Slots /\ slot[d] # slot[c]
  BY DEF IInv, OneUser, TypeOK
<1>3. Statements(d) \cap Statements(c) = {}
  BY DEF Statements
<1>4. SlotInv(d)'
  BY <1>1, <1>2 DEF CInv, SlotInv
<1>5. CleanInv(d)'
  BY <1>1, <1>2 DEF CInv, CleanInv, Elsewhere, Busy
<1>6. OpenInv(d)'
  BY <1>1, <1>2 DEF CInv, OpenInv, Elsewhere, Busy, Answers, Statements
<1>7. ResultInv(d)'
  <2>1. /\ Statements(d) \subseteq db => Statements(d) \subseteq db'
        /\ Statements(d) \cap db = {} => Statements(d) \cap db' = {}
    BY <1>3
  <2>2. Statements(d)' = Statements(d)
    BY DEF Statements
  <2> QED BY <1>1, <2>1, <2>2 DEF CInv, ResultInv
<1> QED BY <1>4, <1>5, <1>6, <1>7 DEF CInv

\* A caller with a free slot gets it for itself.
LEMMA AcquireStep ==
    ASSUME IInv, NEW c \in Clients, NEW s \in Slots, Acquire(c, s)
    PROVE  IInv'
<1>1. TypeOK'
  BY DEF IInv, TypeOK, Acquire, Busy, connection
<1>2. \A d \in Clients : Busy(d) => slot[d] # s
  BY DEF IInv, CInv, SlotInv, Acquire
<1>3. /\ slot'[c] = s /\ state'[s] # "FREE" /\ pc[c] = "call" /\ pc'[c] \in {"single", "start"}
      /\ pc'[c] = "start" => c \notin Singles
      /\ \A d \in Clients : d # c => pc'[d] = pc[d] /\ slot'[d] = slot[d] /\ (Busy(d)' <=> Busy(d))
      /\ \A t \in Slots : t # s => state'[t] = state[t]
      /\ UNCHANGED <<txs, link, open, written, db, done, told, slipped>>
  BY DEF IInv, TypeOK, Acquire, Busy, connection
<1>4. s \notin open /\ written[s] = {}
  BY DEF IInv, FreeIsClean, Acquire
<1>5. OneUser'
  BY <1>2, <1>3 DEF IInv, OneUser
<1>6. FreeIsClean'
  BY <1>3 DEF IInv, FreeIsClean
<1>7. \A d \in Clients : d # c => CInv(d)'
  <2> SUFFICES ASSUME NEW d \in Clients, d # c PROVE CInv(d)'
    OBVIOUS
  <2>1. SlotInv(d)'
    BY <1>2, <1>3 DEF IInv, TypeOK, CInv, SlotInv
  <2>2. CleanInv(d)' /\ OpenInv(d)'
    BY <1>3 DEF IInv, CInv, CleanInv, OpenInv, Answers, Statements
  <2>3. ResultInv(d)'
    BY <1>3 DEF IInv, CInv, ResultInv, Statements
  <2> QED BY <2>1, <2>2, <2>3 DEF CInv
<1>8. CInv(c)'
  <2>1. SlotInv(c)'
    BY <1>3 DEF IInv, CInv, SlotInv
  <2>2. CleanInv(c)' /\ OpenInv(c)'
    BY <1>3, <1>4 DEF IInv, CInv, CleanInv, OpenInv
  <2>3. ResultInv(c)'
    BY <1>3 DEF IInv, CInv, ResultInv, Statements, Busy
  <2> QED BY <2>1, <2>2, <2>3 DEF CInv
<1> QED BY <1>1, <1>5, <1>6, <1>7, <1>8 DEF IInv

\* A caller that goes on or stops keeps its slot to itself.
LEMMA SlotsKept ==
    ASSUME OneUser, UNCHANGED slot, \A d \in Clients : Busy(d)' => Busy(d)
    PROVE  OneUser'
BY DEF OneUser

\* A slot that is given back is clean if the statement before made it so.
LEMMA CleanKept ==
    ASSUME FreeIsClean, NEW s \in Slots, Elsewhere(s),
           state' = [state EXCEPT ![s] = "FREE"] => s \notin open' /\ written'[s] = {},
           state' = state => state[s] # "FREE",
           state' = state \/ state' = [state EXCEPT ![s] = "FREE"], TypeOK
    PROVE  FreeIsClean'
BY DEF FreeIsClean, Elsewhere, TypeOK

\* The end of a single query: its effects, all or none, and a clean connection.
LEMMA SingleDoneStep ==
    ASSUME IInv, NEW c \in Clients, SingleDone(c)
    PROVE  IInv' /\ Effect(c)
<1>0. Busy(c) /\ slot[c] \in Slots /\ CInv(c) /\ TypeOK /\ state[slot[c]] # "FREE"
  BY DEF IInv, TypeOK, Busy, CInv, SlotInv, SingleDone
<1>1. /\ ConnType' /\ Elsewhere(slot[c])
      /\ slot[c] \notin open' /\ written'[slot[c]] = {}
      /\ db' = db \/ db' = db \cup Statements(c)
      /\ told'[c] = "ok" => db' = db \cup Statements(c)
      /\ told'[c] \in {"ok", "failed"}
  <2>1. slot[c] \notin open /\ written[slot[c]] = {} /\ Statements(c) \in SUBSET (Clients \X (1..TxLen))
    BY <1>0 DEF CInv, CleanInv, SingleDone, Statements
  <2>2. CASE Answered(slot[c], "write", Statements(c)) /\ told' = [told EXCEPT ![c] = "ok"]
    BY <1>0, <2>1, <2>2, AnsweredStep DEF TypeOK
  <2>3. CASE Failed(slot[c], "write", Statements(c)) /\ told' = [told EXCEPT ![c] = "failed"]
    <3> PICK W \in SUBSET (Clients \X (1..TxLen)) : W = Statements(c)
      BY <2>1
    <3>1. Failed(slot[c], "write", W)
      BY <2>3
    <3>2. /\ ConnType' /\ Elsewhere(slot[c])
          /\ slot[c] \notin open' /\ written'[slot[c]] = {}
          /\ db' = db \/ db' = db \cup W
      BY <1>0, <2>1, <3>1, FailedStep
    <3> QED BY <1>0, <2>3, <3>2 DEF TypeOK
  <2> QED BY <2>2, <2>3 DEF SingleDone
<1>2. /\ state' = [state EXCEPT ![slot[c]] = "FREE"] /\ UNCHANGED <<txs, slot, done, slipped>>
      /\ pc[c] = "single" /\ pc'[c] = "done" /\ ~Busy(c)'
      /\ \A d \in Clients : d # c => pc'[d] = pc[d] /\ told'[d] = told[d] /\ (Busy(d)' <=> Busy(d))
      /\ \A d \in Clients : Busy(d)' => Busy(d)
      /\ \A t \in Slots : t # slot[c] => state'[t] = state[t]
  BY <1>0 DEF SingleDone, Release, TypeOK, Busy
<1>3. TypeOK'
  BY <1>0, <1>1, <1>2 DEF TypeOK, ConnType, SingleDone
<1>4. Brought(c)
  BY <1>1 DEF Brought
<1>7. CInv(c)'
  BY <1>0, <1>1, <1>2 DEF CInv, SlotInv, CleanInv, OpenInv, ResultInv, Statements
<1>8. OneUser'
  BY <1>2, SlotsKept DEF IInv
<1>9. FreeIsClean'
  BY <1>0, <1>1, <1>2, CleanKept DEF IInv
<1>10. \A d \in Clients : d # c => CInv(d)'
  BY <1>0, <1>1, <1>2, <1>4, OthersKept DEF IInv, Brought
<1>11. Effect(c)
  BY <1>0, <1>1, <1>2, <1>4 DEF Effect, CInv, ResultInv, SingleDone
<1> QED BY <1>3, <1>7, <1>8, <1>9, <1>10, <1>11 DEF IInv

\* A transaction begins on a clean connection, or the slot goes back clean.
LEMMA BegunStep ==
    ASSUME IInv, NEW c \in Clients, Begun(c)
    PROVE  IInv' /\ Effect(c)
<1>0. Busy(c) /\ slot[c] \in Slots /\ CInv(c) /\ TypeOK /\ state[slot[c]] # "FREE"
  BY DEF IInv, TypeOK, Busy, CInv, SlotInv, Begun
<1>a. slot[c] \notin open /\ written[slot[c]] = {} /\ pc[c] = "start" /\ UNCHANGED <<slot, done, slipped>>
  BY <1>0 DEF CInv, CleanInv, Begun
<1>b. done[c] = 0
  BY <1>0, <1>a DEF CInv, CleanInv
<1>c. db' = db => Brought(c)
  BY DEF Brought
<1>4. CASE Begun(c) /\ pc'[c] = "tx"
  <2>1. Answered(slot[c], "start", {}) /\ txs' = [txs EXCEPT ![c] = slot[c]]
          /\ pc' = [pc EXCEPT ![c] = "tx"] /\ UNCHANGED <<state, told>>
    BY <1>4, <1>0 DEF Begun, TypeOK
  <2>2. /\ ConnType' /\ Elsewhere(slot[c]) /\ db' = db
        /\ slot[c] \in open' /\ written'[slot[c]] = {}
    BY <1>0, <2>1, AnsweredStep
  <2>3. TypeOK'
    BY <1>0, <1>a, <2>1, <2>2 DEF TypeOK, ConnType, Busy
  <2>4. \A d \in Clients : Busy(d)' => Busy(d)
    BY <1>0, <1>a, <2>1 DEF TypeOK, Busy
  <2>5. OneUser'
    BY <1>a, <2>4, SlotsKept DEF IInv
  <2>6. FreeIsClean'
    BY <1>0, <2>1, <2>2 DEF IInv, FreeIsClean, Elsewhere
  <2>7. \A d \in Clients : d # c => CInv(d)'
    BY <1>0, <1>a, <1>c, <2>1, <2>2, OthersKept DEF TypeOK, Brought
  <2>8. CInv(c)'
    <3>1. SlotInv(c)' /\ CleanInv(c)'
      BY <1>0, <1>a, <2>1 DEF CInv, SlotInv, CleanInv, TypeOK
    <3>2. OpenInv(c)'
      BY <1>0, <1>a, <1>b, <2>1, <2>2 DEF OpenInv, Answers, TypeOK
    <3>3. ResultInv(c)'
      BY <1>0, <1>a, <2>1, <2>2 DEF CInv, ResultInv, Statements, TypeOK
    <3> QED BY <3>1, <3>2, <3>3 DEF CInv
  <2>9. Effect(c)
    BY <1>0, <1>a, <1>c, <2>1, <2>2 DEF Effect, CInv, ResultInv
  <2> QED BY <2>3, <2>5, <2>6, <2>7, <2>8, <2>9 DEF IInv
<1>5. CASE Begun(c) /\ pc'[c] # "tx"
  <2>0. /\ Failed(slot[c], "start", {}) /\ UNCHANGED txs
        /\ state' = [state EXCEPT ![slot[c]] = "FREE"]
        /\ pc' = [pc EXCEPT ![c] = "done"] /\ told' = [told EXCEPT ![c] = "failed"]
    BY <1>0, <1>5 DEF Begun, Release, TypeOK
  <2>1. /\ ConnType' /\ Elsewhere(slot[c]) /\ db' = db
        /\ slot[c] \notin open' /\ written'[slot[c]] = {}
    BY <1>0, <1>a, <2>0, FailedStep
  <2>2. /\ pc'[c] = "done" /\ ~Busy(c)' /\ told'[c] = "failed"
        /\ \A d \in Clients : d # c => pc'[d] = pc[d] /\ told'[d] = told[d]
        /\ \A d \in Clients : Busy(d)' => Busy(d)
        /\ \A t \in Slots : t # slot[c] => state'[t] = state[t]
    BY <1>0, <1>a, <2>0 DEF TypeOK, Busy
  <2>3. TypeOK'
    BY <1>0, <1>a, <2>0, <2>1, <2>2 DEF TypeOK, ConnType
  <2>4. CInv(c)'
    BY <1>0, <1>a, <2>0, <2>1, <2>2 DEF CInv, SlotInv, CleanInv, OpenInv, ResultInv, Statements
  <2>5. OneUser'
    BY <1>a, <2>2, SlotsKept DEF IInv
  <2>6. FreeIsClean'
    BY <1>0, <2>0, <2>1, CleanKept DEF IInv
  <2>7. \A d \in Clients : d # c => CInv(d)'
    BY <1>0, <1>a, <1>c, <2>0, <2>1, <2>2, OthersKept DEF Brought
  <2>8. Effect(c)
    BY <1>0, <1>a, <1>c, <2>0, <2>1 DEF Effect, CInv, ResultInv
  <2> QED BY <2>3, <2>4, <2>5, <2>6, <2>7, <2>8 DEF IInv
<1> QED BY <1>4, <1>5

\* A statement of a transaction: on its open connection, or the caller turns to rollback.
LEMMA QueryTxStep ==
    ASSUME IInv, NEW c \in Clients, QueryTx(c)
    PROVE  IInv' /\ Effect(c)
<1>0. /\ Busy(c) /\ slot[c] \in Slots /\ CInv(c) /\ TypeOK /\ state[slot[c]] # "FREE"
      /\ txs[c] = slot[c] /\ pc[c] = "tx" /\ done[c] \in 0..TxLen /\ done[c] < TxLen
      /\ written[slot[c]] \subseteq Statements(c)
      /\ c \notin slipped /\ link[slot[c]] = "up" =>
            slot[c] \in open /\ written[slot[c]] = Answers(c, done[c])
  BY DEF IInv, TypeOK, Busy, CInv, SlotInv, OpenInv, QueryTx
<1>a. PICK W \in SUBSET (Clients \X (1..TxLen)) :
            W = {<<c, done[c] + 1>>} /\ W \subseteq Statements(c)
  <2>1. done[c] + 1 \in 1..TxLen
    BY <1>0
  <2>2. {<<c, done[c] + 1>>} \in SUBSET (Clients \X (1..TxLen))
    BY <2>1
  <2>3. {<<c, done[c] + 1>>} \subseteq {c} \X (1..TxLen)
    BY <2>1
  <2> QED BY <2>2, <2>3 DEF Statements
<1>1. /\ ConnType' /\ Elsewhere(slot[c])
      /\ db' = db \/ (c \in slipped /\ db' = db \cup W)
      /\ written'[slot[c]] \subseteq Statements(c)
      /\ \/ /\ pc'[c] = "rollback" /\ done' = done
            /\ pc' = [pc EXCEPT ![c] = "rollback"]
         \/ /\ pc' = pc /\ done' = [done EXCEPT ![c] = @ + 1]
            /\ c \notin slipped => /\ slot[c] \in open'
                                  /\ written'[slot[c]] = Answers(c, done[c] + 1)
  <2>1. CASE /\ Answered(slot[c], "write", {<<c, done[c] + 1>>})
             /\ done' = [done EXCEPT ![c] = @ + 1] /\ UNCHANGED pc
    <3>1. Answers(c, done[c]) \cup W = Answers(c, done[c] + 1)
      BY <1>0, <1>a DEF Answers
    <3>2. Answered(slot[c], "write", W)
      BY <1>a, <2>1
    <3>3. /\ ConnType' /\ Elsewhere(slot[c]) /\ link[slot[c]] = "up"
          /\ slot[c] \in open =>
                slot[c] \in open' /\ written'[slot[c]] = written[slot[c]] \cup W /\ db' = db
          /\ slot[c] \notin open =>
                written'[slot[c]] = written[slot[c]] /\ db' = db \cup W
      BY <1>0, <3>2, AnsweredStep
    <3> QED BY <1>0, <1>a, <2>1, <3>1, <3>3
  <2>2. CASE /\ Failed(slot[c], "write", {<<c, done[c] + 1>>})
             /\ pc' = [pc EXCEPT ![c] = "rollback"] /\ UNCHANGED done
    <3>0. Failed(slot[c], "write", W)
      BY <1>a, <2>2
    <3>1. /\ ConnType' /\ Elsewhere(slot[c])
          /\ written'[slot[c]] \in {written[slot[c]], {}}
          /\ \/ db' = db
             \/ slot[c] \notin open /\ link[slot[c]] = "up" /\ db' = db \cup W
      BY <1>0, <3>0, FailedStep
    <3> QED BY <1>0, <2>2, <3>1 DEF TypeOK
  <2> QED BY <1>0, <2>1, <2>2 DEF QueryTx
<1>2. /\ UNCHANGED <<state, txs, slot, told, slipped>>
      /\ pc'[c] \in {"tx", "rollback"} /\ Busy(c)'
      /\ \A d \in Clients : d # c => pc'[d] = pc[d] /\ done'[d] = done[d]
      /\ \A d \in Clients : Busy(d)' => Busy(d)
      /\ done'[c] = (IF pc'[c] = "tx" THEN done[c] + 1 ELSE done[c])
  BY <1>0, <1>1 DEF QueryTx, TypeOK, Busy
<1>3. TypeOK'
  BY <1>0, <1>1, <1>2 DEF TypeOK, ConnType
<1>4. Brought(c)
  BY <1>a, <1>1 DEF Brought
<1>7. CInv(c)'
  <2>1. SlotInv(c)' /\ CleanInv(c)' /\ ResultInv(c)'
    BY <1>0, <1>1, <1>2 DEF CInv, SlotInv, CleanInv, ResultInv, Statements
  <2>2. OpenInv(c)'
    <3>1. written'[slot'[c]] \subseteq Statements(c)'
      BY <1>1, <1>2 DEF Statements
    <3>2. pc'[c] # "committing"
      BY <1>2
    <3>3. c \notin slipped /\ pc'[c] = "tx" =>
             slot[c] \in open' /\ written'[slot[c]] = Answers(c, done'[c])
      BY <1>0, <1>1, <1>2 DEF TypeOK
    <3>4. Answers(c, done[c])' = Answers(c, done'[c])
      BY DEF Answers
    <3> QED BY <1>2, <3>1, <3>2, <3>3, <3>4 DEF OpenInv
  <2> QED BY <2>1, <2>2 DEF CInv
<1>8. OneUser'
  BY <1>2, SlotsKept DEF IInv
<1>9. FreeIsClean'
  BY <1>0, <1>1, <1>2 DEF IInv, FreeIsClean, Elsewhere
<1>10. \A d \in Clients : d # c => CInv(d)'
  BY <1>0, <1>1, <1>2, <1>4, OthersKept DEF Brought
<1>11. Effect(c)
  BY <1>0, <1>2, <1>4 DEF Effect, CInv, ResultInv
<1> QED BY <1>3, <1>7, <1>8, <1>9, <1>10, <1>11 DEF IInv

\* The record of a transaction is deleted before its last statement.
LEMMA FinishStep ==
    ASSUME IInv, NEW c \in Clients, Commit(c) \/ Rollback(c)
    PROVE  IInv' /\ Effect(c)
<1>1. /\ UNCHANGED <<state, slot, done, link, open, written, db, slipped>>
      /\ \A d \in Clients : d # c => pc'[d] = pc[d] /\ txs'[d] = txs[d] /\ told'[d] = told[d]
      /\ \A d \in Clients : Busy(d)' => Busy(d)
      /\ \A d \in Clients : d # c => (Busy(d)' <=> Busy(d))
  BY DEF IInv, TypeOK, Commit, Rollback, Busy, connection
<1>2. TypeOK'
  BY <1>1 DEF IInv, TypeOK, Commit, Rollback
<1>3. OneUser' /\ FreeIsClean'
  BY <1>1 DEF IInv, OneUser, FreeIsClean
<1>a. Brought(c)
  BY <1>1 DEF Brought
<1>4. ASSUME NEW d \in Clients, d # c PROVE CInv(d)'
  BY <1>1, <1>4 DEF IInv, CInv, SlotInv, CleanInv, OpenInv, ResultInv, Statements, Answers
<1>5. CASE Commit(c)
  <2>1. /\ pc[c] = "tx" /\ done[c] = TxLen /\ pc'[c] = "committing" /\ txs'[c] = NoSlot
        /\ UNCHANGED told
    BY <1>5 DEF IInv, TypeOK, Commit
  <2>2. CInv(c)'
    BY <1>1, <2>1 DEF IInv, CInv, SlotInv, CleanInv, OpenInv, ResultInv, Statements, Answers, Busy
  <2>3. Effect(c)
    BY <1>1, <1>a, <2>1, <1>5 DEF IInv, CInv, ResultInv, Effect, TypeOK, Commit, Rollback
  <2> QED BY <1>2, <1>3, <1>4, <2>2, <2>3 DEF IInv
<1>6. CASE Rollback(c) /\ txs[c] = NoSlot
  <2>1. /\ pc[c] = "rollback" /\ pc'[c] = "done" /\ txs'[c] = NoSlot
        /\ told'[c] = "failed"
    BY <1>6 DEF IInv, TypeOK, Rollback
  <2>2. CInv(c)'
    BY <1>1, <2>1 DEF IInv, CInv, SlotInv, CleanInv, OpenInv, ResultInv, Statements, Answers, Busy
  <2>3. Effect(c)
    BY <1>1, <1>a, <2>1, <1>6 DEF IInv, CInv, ResultInv, Effect, TypeOK, Commit, Rollback
  <2> QED BY <1>2, <1>3, <1>4, <2>2, <2>3 DEF IInv
<1>7. CASE Rollback(c) /\ txs[c] # NoSlot
  <2>1. /\ pc[c] = "rollback" /\ pc'[c] = "rolling" /\ txs'[c] = NoSlot
        /\ UNCHANGED told
    BY <1>7 DEF IInv, TypeOK, Rollback
  <2>2. CInv(c)'
    BY <1>1, <1>7, <2>1 DEF IInv, CInv, SlotInv, CleanInv, OpenInv, ResultInv, Statements, Answers, Busy
  <2>3. Effect(c)
    BY <1>1, <1>a, <2>1, <1>7 DEF IInv, CInv, ResultInv, Effect, TypeOK, Commit, Rollback
  <2> QED BY <1>2, <1>3, <1>4, <2>2, <2>3 DEF IInv
<1> QED BY <1>5, <1>6, <1>7

\* The last statement of a transaction: after it the connection is clean, and what it
\* wrote is in the database whole or not at all.
LEMMA FinishedStep ==
    ASSUME IInv, NEW c \in Clients, Committed(c) \/ RolledBack(c)
    PROVE  IInv' /\ Effect(c)
<1>0. /\ Busy(c) /\ slot[c] \in Slots /\ CInv(c) /\ TypeOK /\ state[slot[c]] # "FREE"
      /\ pc[c] \in {"committing", "rolling"} /\ txs[c] = NoSlot
  BY DEF IInv, TypeOK, Busy, CInv, SlotInv, Committed, RolledBack
<1>a. pc[c] = "committing" =>
        /\ written[slot[c]] \subseteq Statements(c)
        /\ c \notin slipped /\ link[slot[c]] = "up" => written[slot[c]] = Statements(c)
  BY <1>0 DEF CInv, OpenInv, Statements, Answers
<1>1. /\ ConnType' /\ Elsewhere(slot[c])
      /\ slot[c] \notin open' /\ written'[slot[c]] = {}
      /\ Brought(c)
      /\ \/ /\ pc'[c] = "done" /\ told' = [told EXCEPT ![c] = "ok"]
            /\ c \in slipped \/ Statements(c) \subseteq db'
         \/ pc'[c] = "done" /\ told' = [told EXCEPT ![c] = "failed"]
         \/ pc'[c] = "rollback" /\ told' = told
  <2>0. db' = db => Brought(c)
    BY DEF Brought
  <2>1. CASE Committed(c) /\ Answered(slot[c], "commit", {})
                /\ pc' = [pc EXCEPT ![c] = "done"] /\ told' = [told EXCEPT ![c] = "ok"]
    <3>1. /\ ConnType' /\ Elsewhere(slot[c]) /\ link[slot[c]] = "up"
          /\ slot[c] \notin open' /\ written'[slot[c]] = {} /\ db' = db \cup written[slot[c]]
      BY <1>0, <2>1, AnsweredStep
    <3>2. pc[c] = "committing" /\ pc'[c] = "done"
      BY <1>0, <2>1 DEF Committed, TypeOK
    <3>3. Brought(c) /\ (c \in slipped \/ Statements(c) \subseteq db')
      BY <1>a, <3>1, <3>2 DEF Brought
    <3> QED BY <2>1, <3>1, <3>2, <3>3
  <2>2. CASE Committed(c) /\ Answered(slot[c], "rollback", {})
                /\ pc' = [pc EXCEPT ![c] = "rollback"] /\ UNCHANGED told
    BY <1>0, <2>0, <2>2, AnsweredStep DEF TypeOK
  <2>3. CASE Committed(c) /\ Reconnected(slot[c], "commit", {})
                /\ pc' = [pc EXCEPT ![c] = "rollback"] /\ UNCHANGED told
    <3>1. /\ ConnType' /\ Elsewhere(slot[c])
          /\ slot[c] \notin open' /\ written'[slot[c]] = {}
          /\ db' = db \/ (link[slot[c]] = "up" /\ db' = db \cup written[slot[c]])
      BY <1>0, <2>3, ReconnectedStep
    <3>2. pc[c] = "committing" /\ pc'[c] = "rollback"
      BY <1>0, <2>3 DEF Committed, TypeOK
    <3>3. Brought(c)
      BY <1>a, <3>1, <3>2 DEF Brought
    <3> QED BY <2>3, <3>1, <3>2, <3>3
  <2>4. CASE RolledBack(c) /\ Answered(slot[c], "rollback", {})
    BY <1>0, <2>0, <2>4, AnsweredStep DEF TypeOK, RolledBack
  <2>5. CASE RolledBack(c) /\ Reconnected(slot[c], "rollback", {})
    BY <1>0, <2>0, <2>5, ReconnectedStep DEF TypeOK, RolledBack
  <2> QED BY <2>1, <2>2, <2>3, <2>4, <2>5 DEF Committed, RolledBack
<1>2. /\ state' = [state EXCEPT ![slot[c]] = "FREE"] /\ UNCHANGED <<txs, slot, done, slipped>>
      /\ \A d \in Clients : d # c => pc'[d] = pc[d] /\ told'[d] = told[d]
      /\ \A d \in Clients : Busy(d)' => Busy(d)
      /\ ~Busy(c)'
      /\ \A t \in Slots : t # slot[c] => state'[t] = state[t]
  BY <1>0, <1>1 DEF Committed, RolledBack, Release, TypeOK, Busy
<1>3. TypeOK'
  BY <1>0, <1>1, <1>2 DEF TypeOK, ConnType, Committed, RolledBack
<1>7. CInv(c)'
  <2>1. SlotInv(c)' /\ CleanInv(c)' /\ OpenInv(c)'
    BY <1>0, <1>1, <1>2 DEF CInv, SlotInv, CleanInv, OpenInv
  <2>2. ResultInv(c)'
    <3>1. c \notin slipped => Statements(c) \cap db = {}
      BY <1>0 DEF CInv, ResultInv
    <3>2. c \notin slipped => Statements(c) \subseteq db' \/ Statements(c) \cap db' = {}
      BY <1>1, <3>1 DEF Brought
    <3>3. told[c] = "nothing"
      BY <1>0 DEF CInv, ResultInv
    <3>4. pc'[c] = "done" <=> told'[c] # "nothing"
      BY <1>0, <1>1, <3>3 DEF TypeOK
    <3>5. c \notin slipped /\ told'[c] = "ok" => Statements(c) \subseteq db'
      BY <1>0, <1>1, <3>3 DEF TypeOK
    <3>6. Statements(c)' = Statements(c)
      BY DEF Statements
    <3>7. pc'[c] # "call"
      BY <1>1
    <3> QED BY <1>2, <3>2, <3>4, <3>5, <3>6, <3>7 DEF ResultInv
  <2> QED BY <2>1, <2>2 DEF CInv
<1>8. OneUser'
  BY <1>2, SlotsKept DEF IInv
<1>9. FreeIsClean'
  BY <1>0, <1>1, <1>2, CleanKept DEF IInv
<1>10. \A d \in Clients : d # c => CInv(d)'
  BY <1>0, <1>1, <1>2, OthersKept DEF IInv, Brought
<1>11. Effect(c)
  BY <1>0, <1>1, <1>2 DEF Effect, CInv, ResultInv
<1> QED BY <1>3, <1>7, <1>8, <1>9, <1>10, <1>11 DEF IInv

\* A connection that is lost between two statements takes its transaction with it, and
\* nothing else changes.
LEMMA DropStep ==
    ASSUME IInv, NEW s \in Slots, Drop(s)
    PROVE  IInv' /\ db' = db /\ told' = told /\ slipped' = slipped
<1>1. /\ UNCHANGED <<state, txs, db, pc, slot, done, told, slipped>> /\ Elsewhere(s)
      /\ link'[s] = "lost" /\ written'[s] = {} /\ s \notin open' /\ ConnType'
  BY DEF IInv, TypeOK, ConnType, Drop, Elsewhere
<1>2. TypeOK'
  BY <1>1 DEF IInv, TypeOK, ConnType, Busy
<1>3. OneUser' /\ FreeIsClean'
  BY <1>1 DEF IInv, OneUser, FreeIsClean, Elsewhere, Busy
<1>4. ASSUME NEW c \in Clients PROVE CInv(c)'
  <2>1. CInv(c) /\ (Busy(c)' <=> Busy(c)) /\ (Busy(c) => slot[c] \in Slots)
    BY <1>1 DEF IInv, TypeOK, Busy
  <2>2. SlotInv(c)' /\ ResultInv(c)'
    BY <1>1, <2>1 DEF CInv, SlotInv, ResultInv, Statements
  <2>3. CleanInv(c)'
    BY <1>1, <2>1 DEF CInv, CleanInv, Elsewhere, Busy
  <2>4. OpenInv(c)'
    BY <1>1, <2>1 DEF CInv, OpenInv, Elsewhere, Busy, Answers, Statements
  <2> QED BY <2>2, <2>3, <2>4 DEF CInv
<1> QED BY <1>1, <1>2, <1>3, <1>4 DEF IInv

\* The channel connects again: in the middle of a transaction that marks its caller.
LEMMA ReopenStep ==
    ASSUME IInv, NEW c \in Clients, Reopen(c)
    PROVE  /\ IInv' /\ db' = db /\ told' = told
           /\ slipped' = slipped \/ (slipped' = slipped \cup {c} /\ told[c] = "nothing")
<1>0. Busy(c) /\ slot[c] \in Slots /\ CInv(c) /\ TypeOK /\ link[slot[c]] = "lost"
  BY DEF IInv, TypeOK, Busy, Reopen, InTx
<1>1. /\ UNCHANGED <<state, txs, open, written, db, pc, slot, done, told>> /\ Elsewhere(slot[c])
      /\ link' = [link EXCEPT ![slot[c]] = "up"]
      /\ slipped' = (IF InTx(c) THEN slipped \cup {c} ELSE slipped)
      /\ \A d \in Clients : d # c => (d \in slipped' <=> d \in slipped)
      /\ \A d \in Clients : Busy(d)' <=> Busy(d)
  BY <1>0 DEF Reopen, Elsewhere, TypeOK, Busy
<1>2. told[c] = "nothing" /\ (InTx(c) => c \notin Singles)
  BY <1>0 DEF CInv, ResultInv, SlotInv, InTx, Busy
<1>3. TypeOK'
  BY <1>0, <1>1, <1>2 DEF TypeOK
<1>4. OneUser' /\ FreeIsClean'
  BY <1>1 DEF IInv, OneUser, FreeIsClean
<1>5. \A d \in Clients : d # c => CInv(d)'
  <2>1. {} \in SUBSET Statements(c) /\ db' = db \cup {}
    BY <1>1
  <2>2. \E D \in SUBSET Statements(c) : db' = db \cup D
    BY <2>1
  <2> QED BY <1>0, <1>1, <2>2, OthersKept
<1>6. CInv(c)'
  <2>1. SlotInv(c)' /\ CleanInv(c)' /\ ResultInv(c)'
    BY <1>0, <1>1 DEF CInv, SlotInv, CleanInv, ResultInv, Statements
  <2>2. InTx(c) => c \in slipped'
    BY <1>1
  <2>3. pc[c] \in {"tx", "committing"} => InTx(c)
    BY DEF Reopen, InTx
  <2>4. OpenInv(c)'
    BY <1>0, <1>1, <2>2, <2>3 DEF CInv, OpenInv, Statements
  <2> QED BY <2>1, <2>4 DEF CInv
<1> QED BY <1>1, <1>2, <1>3, <1>4, <1>5, <1>6 DEF IInv

\* No slot is taken and nothing is written at the start.
LEMMA InitHolds == Init => IInv
BY DEF Init, IInv, TypeOK, OneUser, FreeIsClean, CInv, SlotInv, CleanInv, OpenInv, ResultInv,
       Busy, Statements

\* Every step keeps the invariant.
LEMMA StepKeeps == IInv /\ [Next]_vars => IInv'
<1> SUFFICES ASSUME IInv, [Next]_vars PROVE IInv'
  OBVIOUS
<1>1. CASE UNCHANGED vars
  BY <1>1 DEF IInv, TypeOK, OneUser, FreeIsClean, CInv, SlotInv, CleanInv, OpenInv, ResultInv,
              Busy, Statements, Answers, vars, connection
<1>2. CASE \E c \in Clients : Get(c)
  BY <1>2, AcquireStep DEF Get
<1>3. CASE \E c \in Clients : Step(c)
  BY <1>3, SingleDoneStep, BegunStep, QueryTxStep, FinishStep, FinishedStep DEF Step
<1>4. CASE \E c \in Clients : Reopen(c)
  BY <1>4, ReopenStep
<1>5. CASE \E s \in Slots : Drop(s)
  BY <1>5, DropStep
<1> QED BY <1>1, <1>2, <1>3, <1>4, <1>5 DEF Next

\* The invariant, from which the properties below follow.
LEMMA Invariance == Spec => []IInv
<1>1. Init => IInv
  BY InitHolds
<1>2. IInv /\ [Next]_vars => IInv'
  BY StepKeeps
<1> QED BY <1>1, <1>2, PTL DEF Spec

\* How much of a transaction is in the database is a matter of its own statements, and
\* never less than before.
LEMMA InDbStep ==
    ASSUME NEW c \in Clients, Brought(c)
    PROVE  /\ \A d \in Clients : d # c => InDb(d)' = InDb(d)
           /\ \E e \in {"none", "part", "all"} :
                 /\ InDb(c)' = e
                 /\ \/ e \in {InDb(c), "all"}
                    \/ c \in slipped /\ InDb(c) = "none" /\ e = "part"
           /\ Statements(c) \subseteq db' => InDb(c)' = "all"
<1> PICK D \in SUBSET Statements(c) : /\ db' = db \cup D
                                      /\ c \in slipped \/ D = {} \/ D = Statements(c)
  BY DEF Brought
<1>1. \A d \in Clients : Statements(d)' = Statements(d)
  BY DEF Statements
<1>2. ASSUME NEW d \in Clients, d # c PROVE InDb(d)' = InDb(d)
  <2>1. Statements(d) \cap Statements(c) = {}
    BY <1>2 DEF Statements
  <2>2. /\ Statements(d) \subseteq db' <=> Statements(d) \subseteq db
        /\ Statements(d) \cap db' = {} <=> Statements(d) \cap db = {}
    BY <2>1
  <2> QED BY <1>1, <2>2 DEF InDb
<1>3. /\ Statements(c) \subseteq db => Statements(c) \subseteq db'
      /\ Statements(c) \cap db' = {} => Statements(c) \cap db = {}
      /\ D = {} => db' = db
      /\ D = Statements(c) => Statements(c) \subseteq db'
  OBVIOUS
<1>4. InDb(c)' = (CASE Statements(c) \subseteq db' -> "all"
                    [] Statements(c) \cap db' = {} -> "none"
                    [] OTHER -> "part")
  BY <1>1 DEF InDb
<1>5. Statements(c) # {}
  <2>1. <<c, 1>> \in Statements(c)
    BY DEF Statements
  <2> QED BY <2>1
<1>6. /\ Statements(c) \subseteq db' => InDb(c)' = "all"
      /\ ~(Statements(c) \subseteq db') /\ Statements(c) \cap db' = {} => InDb(c)' = "none"
      /\ ~(Statements(c) \subseteq db') /\ Statements(c) \cap db' # {} => InDb(c)' = "part"
  BY <1>4, <1>5
<1>7. /\ Statements(c) \subseteq db => InDb(c) = "all"
      /\ ~(Statements(c) \subseteq db) /\ Statements(c) \cap db = {} => InDb(c) = "none"
      /\ ~(Statements(c) \subseteq db) /\ Statements(c) \cap db # {} => InDb(c) = "part"
  BY <1>5 DEF InDb
<1>8. \/ InDb(c)' \in {InDb(c), "all"}
      \/ c \in slipped /\ InDb(c) = "none" /\ InDb(c)' = "part"
  BY <1>3, <1>6, <1>7
<1>9. InDb(c)' \in {"none", "part", "all"}
  BY <1>6
<1> QED BY <1>2, <1>6, <1>8, <1>9

\* At the start nothing is in the database and nobody was told.
LEMMA AbstractInit == Init => Abstract!Init
<1> SUFFICES ASSUME Init PROVE Abstract!Init
  OBVIOUS
<1>1. ASSUME NEW c \in Clients PROVE InDb(c) = "none"
  <2>1. <<c, 1>> \in Statements(c)
    BY DEF Statements
  <2>2. ~(Statements(c) \subseteq db) /\ Statements(c) \cap db = {}
    BY <2>1 DEF Init
  <2> QED BY <2>2 DEF InDb
<1> QED BY <1>1 DEF Init, Abstract!Init

\* Every step of the pool is one of AtomicTx, or none.
LEMMA AbstractStep == IInv /\ [Next]_vars => [Abstract!Next]_Abstract!vars
<1> SUFFICES ASSUME IInv, [Next]_vars PROVE [Abstract!Next]_Abstract!vars
  OBVIOUS
<1> DEFINE eff == [d \in Clients |-> InDb(d)]
<1>0. ASSUME db' = db PROVE eff' = eff
  BY <1>0 DEF InDb, Statements
<1>1. CASE db' = db /\ told' = told /\ slipped' = slipped
  BY <1>0, <1>1 DEF Abstract!vars
<1>2. ASSUME NEW c \in Clients, Effect(c) PROVE [Abstract!Next]_Abstract!vars
  <2>1. /\ \A d \in Clients : d # c => InDb(d)' = InDb(d)
        /\ \/ InDb(c)' \in {InDb(c), "all"}
           \/ c \in slipped /\ InDb(c) = "none" /\ InDb(c)' = "part"
        /\ Statements(c) \subseteq db' => InDb(c)' = "all"
    BY <1>2, InDbStep DEF Effect
  <2>2. eff' = [eff EXCEPT ![c] = InDb(c)']
    BY <2>1
  <2>3. InDb(c)' \in Abstract!Grown(c)
    BY <2>1 DEF Abstract!Grown
  <2>4. CASE told' = told
    <3>1. Abstract!Apply(c)
      BY <1>2, <2>2, <2>3, <2>4 DEF Effect, Abstract!Apply
    <3> QED BY <3>1 DEF Abstract!Next
  <2>5. CASE told' = [told EXCEPT ![c] = "failed"]
    <3>1. Abstract!Tell(c, "failed")
      BY <1>2, <2>2, <2>3, <2>5 DEF Effect, Abstract!Tell
    <3> QED BY <3>1 DEF Abstract!Next
  <2>6. CASE told' = [told EXCEPT ![c] = "ok"] /\ (c \in slipped \/ Statements(c) \subseteq db')
    <3>1. Abstract!Tell(c, "ok")
      BY <1>2, <2>1, <2>2, <2>3, <2>6 DEF Effect, Abstract!Tell
    <3> QED BY <3>1 DEF Abstract!Next
  <2> QED BY <1>2, <2>4, <2>5, <2>6 DEF Effect
<1>3. CASE \E c \in Clients : Get(c)
  BY <1>1, <1>3 DEF Get, Acquire, connection
<1>4. CASE \E c \in Clients : Step(c)
  BY <1>2, <1>4, SingleDoneStep, BegunStep, QueryTxStep, FinishStep, FinishedStep DEF Step
<1>5. ASSUME NEW c \in Clients, Reopen(c) PROVE [Abstract!Next]_Abstract!vars
  <2>1. /\ db' = db /\ told' = told
        /\ slipped' = slipped \/ (slipped' = slipped \cup {c} /\ told[c] = "nothing")
    BY <1>5, ReopenStep
  <2>2. CASE slipped' = slipped
    BY <1>1, <2>1, <2>2
  <2>3. CASE slipped' = slipped \cup {c} /\ told[c] = "nothing"
    <3>1. Abstract!Slip(c)
      BY <1>0, <2>1, <2>3 DEF Abstract!Slip
    <3> QED BY <3>1 DEF Abstract!Next
  <2> QED BY <2>1, <2>2, <2>3
<1>6. CASE \E s \in Slots : Drop(s)
  BY <1>1, <1>6, DropStep
<1>7. CASE UNCHANGED vars
  BY <1>1, <1>7 DEF vars, connection
<1> QED BY <1>3, <1>4, <1>5, <1>6, <1>7 DEF Next

\* The pool of connections implements the transactions of AtomicTx: whatever breaks, a
\* caller told of success finds all its effects, and nothing appears after a failure was
\* told; only a transaction in the middle of which the socket channel connected again is
\* worse off, and no other caller suffers from it.
THEOREM PoolImplementsAtomicTx == Spec => ImplementsAtomicTx
<1>1. Init => Abstract!Init
  BY AbstractInit
<1>2. IInv /\ [Next]_vars => [Abstract!Next]_Abstract!vars
  BY AbstractStep
<1> QED BY <1>1, <1>2, Invariance, PTL DEF Spec, ImplementsAtomicTx, Abstract!Spec

\* The proxy's variables keep their types, for any pool and callers.
THEOREM TypeCorrect == Spec => []TypeOK
<1>1. IInv => TypeOK
  BY DEF IInv
<1> QED BY <1>1, Invariance, PTL

\* A connection serves one caller at a time, whatever breaks and whoever waits.
THEOREM ConnectionForOne == Spec => []OneUser
<1>1. IInv => OneUser
  BY DEF IInv
<1> QED BY <1>1, Invariance, PTL

\* A connection in the pool has no transaction left open.
THEOREM FreeConnectionsClean == Spec => []FreeIsClean
<1>1. IInv => FreeIsClean
  BY DEF IInv
<1> QED BY <1>1, Invariance, PTL

\* The effects of a transaction of any length are in the database together or not at
\* all, although query_on_slot reconnects in the middle of it; the channel's own
\* reconnection inside a transaction is the exception that AllOrNothing names.
THEOREM TransactionsAtomic == Spec => []AllOrNothing
<1>1. IInv => AllOrNothing
  BY DEF IInv, CInv, ResultInv, AllOrNothing
<1> QED BY <1>1, Invariance, PTL
=============================================================================
