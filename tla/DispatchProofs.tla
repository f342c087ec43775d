--------------------------- MODULE DispatchProofs ---------------------------
(***************************************************************************)
(* Proofs about Skynet's kernel, for any number of services, messages,     *)
(* threads and any weights: references are counted, a queue is in one      *)
(* place, none is stranded, nothing is used after it was freed.            *)
(***************************************************************************)
EXTENDS Dispatch, FiniteSetTheorems, SequenceTheorems, TLAPS

\* The part of a dispatch in which the worker has a reference to its service.
Using == {"first", "pop", "length", "run", "end", "back"}
Memory == {"none", "live", "freed"}

TypeOK ==
    /\ slot \in [Services -> {"free", "taken", "retired"}]
    /\ ref \in [Services -> Int]
    /\ ctx \in [Services -> Memory] /\ mq \in [Services -> Memory]
    /\ queue \in [Services -> Seq(Message)]
    /\ release \in [Services -> BOOLEAN] /\ in_global \in [Services -> BOOLEAN]
    /\ globalmq \in Seq(Services)
    /\ pc \in [Workers -> Using \cup {"loop", "grab", "gone", "next", "lock", "waiting",
                                      "woken", "stopped"}]
    /\ q \in [Workers -> Services \cup {Nil}] /\ nq \in [Workers -> Services \cup {Nil}]
    /\ cur \in [Workers -> Message \cup {Nil}]
    /\ send \in [Threads -> {NoSend} \cup [to : Services, msg : Message]]
    /\ rel \in [Threads -> {NoCall} \cup [svc : Services, at : {"dec", "mark", "free"}]]
    /\ drop \in [Threads -> Services \cup {Nil}]
    /\ launch \in [Threads -> {NoCall} \cup
                                  [svc : Services, at : {"init", "retire", "mqrelease"}]]

\* A worker in a dispatch has a queue, a next queue while it puts that back, and a message
\* while it serves one.
Loops == \A w \in Workers :
    /\ q[w] = Nil => pc[w] \notin Using \cup {"grab", "gone"}
    /\ nq[w] # Nil => pc[w] = "back"
    /\ cur[w] # Nil <=> pc[w] \in {"length", "run"}

\* Who holds a reference to s: the handle table (in the place of the timer thread), and
\* threads, each at most one of a kind.
Kinds == {"table", "rel", "send", "launch", "work"}
Holds(k, t, s) ==
    \/ k = "table" /\ t = Timer /\ slot[s] = "taken"
    \/ k = "rel" /\ rel[t].svc = s /\ rel[t].at = "dec"
    \/ k = "send" /\ send[t].to = s
    \/ k = "launch" /\ launch[t].svc = s /\ launch[t].at = "init"
    \/ k = "work" /\ t \in Workers /\ q[t] = s /\ pc[t] \in Using
Holders(s) == {x \in Kinds \X Threads : Holds(x[1], x[2], s)}
Referred(s) == \E k \in Kinds, t \in Threads : Holds(k, t, s)

\* ctx->ref counts them.
Refs == \A s \in Services : IsFiniteSet(Holders(s)) /\ ref[s] = Cardinality(Holders(s))

\* The life of a service: what is referred to is there, a queue is marked only when nobody
\* refers to its service any more, and dropped only when it is marked.
Lives == \A s \in Services :
    /\ slot[s] = "free" => /\ ctx[s] = "none" /\ mq[s] = "none"
                           /\ queue[s] = <<>> /\ ~release[s] /\ ~in_global[s]
    /\ Referred(s) => ctx[s] = "live" /\ mq[s] = "live" /\ ~release[s]
    /\ release[s] => slot[s] = "retired"
    /\ \A t \in Threads : drop[t] = s => release[s]

\* One thread deletes a context, when nobody refers to it.
Deletes(t, s) == rel[t].svc = s /\ rel[t].at \in {"mark", "free"}
Deaths == \A s \in Services, t \in Threads : Deletes(t, s) =>
    /\ slot[s] = "retired" /\ ctx[s] = "live" /\ ~Referred(s)
    /\ rel[t].at = "mark" => mq[s] = "live" /\ ~release[s]
    /\ rel[t].at = "free" => release[s]
    /\ \A u \in Threads : Deletes(u, s) => u = t

\* A queue is in the global queue or in one hand of one thread.
Hands == {"q", "nq", "drop", "launch"}
In(k, t, s) ==
    \/ k = "q" /\ t \in Workers /\ q[t] = s
    \/ k = "nq" /\ t \in Workers /\ nq[t] = s
    \/ k = "drop" /\ drop[t] = s
    \/ k = "launch" /\ launch[t].svc = s
InHand(s) == \E k \in Hands, t \in Threads : In(k, t, s)
Has(g, s) == \E i \in DOMAIN g : g[i] = s
Distinct(g) == \A i, j \in DOMAIN g : g[i] = g[j] => i = j

OnePlace == \A s \in Services, k \in Hands, t \in Threads : In(k, t, s) =>
    /\ ~Has(globalmq, s)
    /\ \A l \in Hands, u \in Threads : In(l, u, s) => k = l /\ t = u

\* It is in some place if in_global says so, or it is marked.
Belongs(s) == mq[s] = "live" /\ (in_global[s] \/ release[s])
Placed == \A s \in Services : Has(globalmq, s) \/ InHand(s) <=> Belongs(s)
Filled == \A s \in Services : queue[s] # <<>> /\ mq[s] = "live" => Belongs(s)

PlaceInv == Distinct(globalmq) /\ OnePlace /\ Placed
IInv == TypeOK /\ Loops /\ Refs /\ Lives /\ Deaths /\ PlaceInv /\ Filled
-----------------------------------------------------------------------------
(* References. *)

LEMMA TimerIsThread == Timer \in Threads
BY DispatchAssumption DEF Threads

LEMMA RefSame ==
    ASSUME Refs, UNCHANGED ref,
           \A k \in Kinds, t \in Threads, s \in Services : Holds(k, t, s)' <=> Holds(k, t, s)
    PROVE  Refs'
<1>1. \A s \in Services : Holders(s)' = Holders(s)
  BY DEF Holders
<1> QED BY <1>1 DEF Refs

\* A holder comes, or goes, or hands its reference to another one.
Gains(a, j, b) == \A k \in Kinds, t \in Threads, s \in Services :
    Holds(k, t, s)' <=> Holds(k, t, s) \/ (k = j /\ t = b /\ s = a)
Loses(a, j, b) == \A k \in Kinds, t \in Threads, s \in Services :
    Holds(k, t, s)' <=> Holds(k, t, s) /\ ~(k = j /\ t = b /\ s = a)
HandsOn(a, j, b, l, c) == \A k \in Kinds, t \in Threads, s \in Services :
    Holds(k, t, s)' <=> \/ Holds(k, t, s) /\ ~(k = j /\ t = b /\ s = a)
                        \/ k = l /\ t = c /\ s = a

LEMMA RefAdd ==
    ASSUME Refs, ref \in [Services -> Int], NEW a \in Services, NEW j \in Kinds,
           NEW b \in Threads, ~Holds(j, b, a), ref' = [ref EXCEPT ![a] = @ + 1],
           Gains(a, j, b)
    PROVE  Refs'
<1>1. \A s \in Services : s # a => Holders(s)' = Holders(s)
  BY DEF Holders, Gains
<1>2. Holders(a)' = Holders(a) \cup {<<j, b>>} /\ <<j, b>> \notin Holders(a)
  BY DEF Holders, Gains
<1>3. IsFiniteSet(Holders(a)') /\ Cardinality(Holders(a)') = Cardinality(Holders(a)) + 1
  BY <1>2, FS_AddElement DEF Refs
<1> QED BY <1>1, <1>3 DEF Refs

LEMMA RefDrop ==
    ASSUME Refs, ref \in [Services -> Int], NEW a \in Services, NEW j \in Kinds,
           NEW b \in Threads, Holds(j, b, a), ref' = [ref EXCEPT ![a] = @ - 1],
           Loses(a, j, b)
    PROVE  Refs'
<1>1. \A s \in Services : s # a => Holders(s)' = Holders(s)
  BY DEF Holders, Loses
<1>2. Holders(a)' = Holders(a) \ {<<j, b>>} /\ <<j, b>> \in Holders(a)
  BY DEF Holders, Loses
<1>3. IsFiniteSet(Holders(a)') /\ Cardinality(Holders(a)') = Cardinality(Holders(a)) - 1
  BY <1>2, FS_RemoveElement DEF Refs
<1> QED BY <1>1, <1>3 DEF Refs

LEMMA RefMove ==
    ASSUME Refs, UNCHANGED ref, NEW a \in Services, NEW j \in Kinds, NEW b \in Threads,
           NEW l \in Kinds, NEW c \in Threads, Holds(j, b, a), ~Holds(l, c, a),
           HandsOn(a, j, b, l, c)
    PROVE  Refs'
<1> DEFINE rest == Holders(a) \ {<<j, b>>}
<1>1. \A s \in Services : s # a => Holders(s)' = Holders(s)
  BY DEF Holders, HandsOn
<1>2. <<j, b>> \in Holders(a) /\ <<l, c>> \notin Holders(a)
  BY DEF Holders, HandsOn
<1>3. Holders(a)' = rest \cup {<<l, c>>}
  BY <1>2 DEF Holders, HandsOn
<1>4. IsFiniteSet(rest) /\ Cardinality(rest) = Cardinality(Holders(a)) - 1
  BY <1>2, FS_RemoveElement DEF Refs
<1>5. IsFiniteSet(Holders(a)') /\ Cardinality(Holders(a)') = Cardinality(rest) + 1
  <2>1. <<l, c>> \notin rest
    BY <1>2
  <2> HIDE DEF rest
  <2> QED BY <1>3, <1>4, <2>1, FS_AddElement
<1>6. Cardinality(Holders(a)) \in Nat
  BY FS_CardinalityType DEF Refs
<1> QED BY <1>1, <1>4, <1>5, <1>6 DEF Refs

\* The first two references, of the handle table and of the one who launches.
LEMMA RefNew ==
    ASSUME Refs, ref \in [Services -> Int], NEW a \in Services, NEW b \in Threads,
           ~Referred(a), ref' = [ref EXCEPT ![a] = 2],
           \A k \in Kinds, t \in Threads, s \in Services :
               Holds(k, t, s)' <=>
                   \/ Holds(k, t, s)
                   \/ s = a /\ ((k = "table" /\ t = Timer) \/ (k = "launch" /\ t = b))
    PROVE  Refs'
<1>1. \A s \in Services : s # a => Holders(s)' = Holders(s)
  BY DEF Holders
<1>2. Holders(a)' = {<<"table", Timer>>} \cup {<<"launch", b>>}
  BY TimerIsThread DEF Holders, Referred, Kinds
<1>3. IsFiniteSet({<<"table", Timer>>}) /\ Cardinality({<<"table", Timer>>}) = 1
  BY FS_Singleton
<1>4. <<"launch", b>> \notin {<<"table", Timer>>}
  OBVIOUS
<1>5. IsFiniteSet(Holders(a)') /\ Cardinality(Holders(a)') = 1 + 1
  BY <1>2, <1>3, <1>4, FS_AddElement
<1> QED BY <1>1, <1>5 DEF Refs

\* Who holds the last reference is alone.
LEMMA LastRef ==
    ASSUME Refs, NEW a \in Services, NEW j \in Kinds, NEW b \in Threads, Holds(j, b, a),
           ref[a] = 1, NEW k \in Kinds, NEW t \in Threads, Holds(k, t, a)
    PROVE  k = j /\ t = b
<1>1. PICK x : Holders(a) = {x}
  BY FS_Singleton DEF Refs
<1>2. <<j, b>> \in Holders(a) /\ <<k, t>> \in Holders(a)
  BY DEF Holders
<1> QED BY <1>1, <1>2
-----------------------------------------------------------------------------
(* Places. *)

LEMMA AppendHas ==
    ASSUME NEW S, NEW g \in Seq(S), NEW a \in S
    PROVE  /\ Append(g, a) \in Seq(S)
           /\ \A s : Has(Append(g, a), s) <=> Has(g, s) \/ s = a
           /\ Distinct(g) /\ ~Has(g, a) => Distinct(Append(g, a))
<1>1. /\ Append(g, a) \in Seq(S) /\ Len(Append(g, a)) = Len(g) + 1
      /\ \A i \in 1..Len(g) : Append(g, a)[i] = g[i]
      /\ Append(g, a)[Len(g) + 1] = a
  BY AppendProperties
<1>2. /\ DOMAIN g = 1..Len(g) /\ Len(g) \in Nat
      /\ DOMAIN Append(g, a) = 1..(Len(g) + 1)
  BY <1>1, LenProperties
<1>3. \A s : Has(Append(g, a), s) <=> Has(g, s) \/ s = a
  BY <1>1, <1>2 DEF Has
<1>4. Distinct(g) /\ ~Has(g, a) => Distinct(Append(g, a))
  BY <1>1, <1>2 DEF Has, Distinct
<1> QED BY <1>1, <1>3, <1>4

LEMMA TailHas ==
    ASSUME NEW S, NEW g \in Seq(S), g # <<>>
    PROVE  /\ Head(g) \in S /\ Tail(g) \in Seq(S) /\ Has(g, Head(g))
           /\ Distinct(g) => /\ Distinct(Tail(g))
                            /\ \A s : Has(Tail(g), s) <=> Has(g, s) /\ s # Head(g)
<1>1. /\ Head(g) \in S /\ Tail(g) \in Seq(S) /\ Len(Tail(g)) = Len(g) - 1
      /\ \A i \in 1..Len(Tail(g)) : Tail(g)[i] = g[i + 1]
  BY HeadTailProperties
<1>2. DOMAIN g = 1..Len(g) /\ Len(g) \in Nat \ {0} /\ DOMAIN Tail(g) = 1..(Len(g) - 1)
  BY <1>1, LenProperties, EmptySeq
<1>3. Head(g) = g[1] /\ 1 \in DOMAIN g
  BY <1>2
<1>4. Has(g, Head(g))
  BY <1>3 DEF Has
<1>5. ASSUME Distinct(g) PROVE Distinct(Tail(g))
  BY <1>1, <1>2, <1>5 DEF Distinct
<1>6. ASSUME Distinct(g), NEW s PROVE Has(Tail(g), s) <=> Has(g, s) /\ s # Head(g)
  <2>1. ASSUME Has(Tail(g), s) PROVE Has(g, s) /\ s # Head(g)
    BY <1>1, <1>2, <1>3, <1>6, <2>1 DEF Has, Distinct
  <2>2. ASSUME Has(g, s), s # Head(g) PROVE Has(Tail(g), s)
    <3>1. PICK i \in DOMAIN g : g[i] = s
      BY <2>2 DEF Has
    <3>2. i # 1 /\ i - 1 \in DOMAIN Tail(g) /\ Tail(g)[i - 1] = s
      BY <1>1, <1>2, <1>3, <2>2, <3>1
    <3> QED BY <3>2 DEF Has
  <2> QED BY <2>1, <2>2
<1> QED BY <1>1, <1>4, <1>5, <1>6

\* The hands: a queue comes into one, leaves the hands of all threads, passes from one
\* to another, or goes while its worker keeps the next one.
Comes(a, j, b) == \A k \in Hands, t \in Threads, s \in Services :
    In(k, t, s)' <=> In(k, t, s) \/ (k = j /\ t = b /\ s = a)
Leaves(a) == \A k \in Hands, t \in Threads, s \in Services :
    In(k, t, s)' <=> In(k, t, s) /\ s # a
Passes(a, l, c) == \A k \in Hands, t \in Threads, s \in Services :
    In(k, t, s)' <=> (In(k, t, s) /\ s # a) \/ (k = l /\ t = c /\ s = a)
Swaps(a, b) == \A k \in Hands, t \in Threads, s \in Services :
    In(k, t, s)' <=> \/ In(k, t, s) /\ s # a /\ ~(k = "nq" /\ t = b)
                     \/ k = "q" /\ t = b /\ In("nq", b, s)
Keeps == \A k \in Hands, t \in Threads, s \in Services : In(k, t, s)' <=> In(k, t, s)

\* Which queues are to be in some place stays the same, or changes for one.
SamePlaced == \A s \in Services : Belongs(s)' <=> Belongs(s)
MorePlaced(a) == \A s \in Services : Belongs(s)' <=> Belongs(s) \/ s = a
FewerPlaced(a) == \A s \in Services : Belongs(s)' <=> Belongs(s) /\ s # a

LEMMA PlaceSame ==
    ASSUME PlaceInv, UNCHANGED globalmq, SamePlaced, Keeps
    PROVE  PlaceInv'
BY DEF PlaceInv, OnePlace, Placed, InHand, Keeps, SamePlaced

\* A queue goes from the global queue to a hand ...
LEMMA PlaceTake ==
    ASSUME PlaceInv, globalmq \in Seq(Services), globalmq # <<>>, globalmq' = Tail(globalmq),
           NEW j \in Hands, NEW b \in Threads,
           SamePlaced, Comes(Head(globalmq), j, b)
    PROVE  PlaceInv'
<1>1. PICK a \in Services : a = Head(globalmq) /\ Has(globalmq, a)
  BY TailHas
<1>2. Distinct(globalmq') /\ \A s : Has(globalmq, s)' <=> Has(globalmq, s) /\ s # a
  BY <1>1, TailHas DEF PlaceInv
<1>3. \A k \in Hands, t \in Threads : ~In(k, t, a)
  BY <1>1 DEF PlaceInv, OnePlace, Comes
<1>4. OnePlace'
  BY <1>1, <1>2, <1>3 DEF PlaceInv, OnePlace, Comes
<1>5. Placed'
  BY <1>1, <1>2 DEF PlaceInv, Placed, InHand, Comes, SamePlaced
<1> QED BY <1>2, <1>4, <1>5 DEF PlaceInv

\* ... and back from a hand, or ...
LEMMA PlacePut ==
    ASSUME PlaceInv, globalmq \in Seq(Services), NEW a \in Services,
           globalmq' = Append(globalmq, a),
           NEW j \in Hands, NEW b \in Threads, In(j, b, a),
           SamePlaced, Leaves(a)
    PROVE  PlaceInv'
<1>1. ~Has(globalmq, a)
  BY DEF PlaceInv, OnePlace
<1>2. Distinct(globalmq') /\ \A s : Has(globalmq, s)' <=> Has(globalmq, s) \/ s = a
  BY <1>1, AppendHas DEF PlaceInv
<1>3. OnePlace'
  BY <1>2 DEF PlaceInv, OnePlace, Leaves
<1>4. Placed'
  BY <1>2 DEF PlaceInv, Placed, InHand, Leaves, SamePlaced
<1> QED BY <1>2, <1>3, <1>4 DEF PlaceInv

\* ... from nowhere; from one hand to another; to nowhere.
LEMMA PlaceLink ==
    ASSUME PlaceInv, globalmq \in Seq(Services), NEW a \in Services,
           globalmq' = Append(globalmq, a), ~Belongs(a),
           MorePlaced(a), Keeps
    PROVE  PlaceInv'
<1>1. ~Has(globalmq, a) /\ \A k \in Hands, t \in Threads : ~In(k, t, a)
  BY DEF PlaceInv, Placed, InHand, Keeps, MorePlaced
<1>2. Distinct(globalmq') /\ \A s : Has(globalmq, s)' <=> Has(globalmq, s) \/ s = a
  BY <1>1, AppendHas DEF PlaceInv
<1>3. OnePlace'
  BY <1>1, <1>2 DEF PlaceInv, OnePlace, Keeps
<1>4. Placed'
  BY <1>2 DEF PlaceInv, Placed, InHand, Keeps, MorePlaced
<1> QED BY <1>2, <1>3, <1>4 DEF PlaceInv

LEMMA PlaceHand ==
    ASSUME PlaceInv, UNCHANGED globalmq, NEW a \in Services,
           NEW j \in Hands, NEW b \in Threads, In(j, b, a),
           NEW l \in Hands, NEW c \in Threads,
           SamePlaced, Passes(a, l, c)
    PROVE  PlaceInv'
<1>1. ~Has(globalmq, a)
  BY DEF PlaceInv, OnePlace, Passes
<1>2. OnePlace'
  BY <1>1 DEF PlaceInv, OnePlace, Passes
<1>3. Placed'
  BY DEF PlaceInv, Placed, InHand, Passes, SamePlaced
<1> QED BY <1>2, <1>3 DEF PlaceInv

LEMMA PlaceLeave ==
    ASSUME PlaceInv, UNCHANGED globalmq, NEW a \in Services,
           NEW j \in Hands, NEW b \in Threads, In(j, b, a),
           FewerPlaced(a), Leaves(a)
    PROVE  PlaceInv'
<1>1. ~Has(globalmq, a)
  BY DEF PlaceInv, OnePlace
<1>2. OnePlace'
  BY DEF PlaceInv, OnePlace, Leaves
<1>3. Placed'
  BY <1>1 DEF PlaceInv, Placed, InHand, Leaves, FewerPlaced
<1> QED BY <1>2, <1>3 DEF PlaceInv

\* A queue that is new, in the hand of the one who launches.
LEMMA PlaceNew ==
    ASSUME PlaceInv, UNCHANGED globalmq, NEW a \in Services, ~Belongs(a),
           NEW j \in Hands, NEW b \in Threads,
           MorePlaced(a), Comes(a, j, b)
    PROVE  PlaceInv'
<1>1. ~Has(globalmq, a) /\ \A k \in Hands, t \in Threads : ~In(k, t, a)
  BY DEF PlaceInv, Placed, InHand, Comes, MorePlaced
<1>2. OnePlace'
  BY <1>1 DEF PlaceInv, OnePlace, Comes
<1>3. Placed'
  BY <1>1 DEF PlaceInv, Placed, InHand, Comes, MorePlaced
<1> QED BY <1>2, <1>3 DEF PlaceInv

\* A queue goes back while its worker keeps the next one.
LEMMA PlaceSwap ==
    ASSUME PlaceInv, globalmq \in Seq(Services), NEW a \in Services, NEW b \in Workers,
           globalmq' = Append(globalmq, a), In("q", b, a),
           SamePlaced, Swaps(a, b)
    PROVE  PlaceInv'
<1>1. b \in Threads /\ "q" \in Hands /\ "nq" \in Hands
  BY DEF Threads, Hands
<1>2. ~Has(globalmq, a) /\ ~In("nq", b, a)
  BY <1>1 DEF PlaceInv, OnePlace, Swaps
<1>3. Distinct(globalmq') /\ \A s : Has(globalmq, s)' <=> Has(globalmq, s) \/ s = a
  BY <1>2, AppendHas DEF PlaceInv
<1>4. OnePlace'
  BY <1>1, <1>2, <1>3 DEF PlaceInv, OnePlace, Swaps
<1>5. \A s \in Services : InHand(s)' <=> InHand(s) /\ s # a
  BY <1>1, <1>2 DEF InHand, Swaps
<1>6. Placed'
  BY <1>1, <1>3, <1>5 DEF PlaceInv, Placed, InHand, SamePlaced
<1> QED BY <1>3, <1>4, <1>6 DEF PlaceInv
(* What the steps have in common. *)

USE NilAssumption DEF NoCall, Call, NoSend, Sending

\* A step that reads and moves a program counter, or goes on with a launch.
LEMMA Quiet ==
    ASSUME IInv, TypeOK', Loops',
           UNCHANGED <<slot, ref, ctx, mq, queue, release, in_global, globalmq, q, nq,
                       send, rel, drop>>,
           \A w \in Workers : pc'[w] \in Using <=> pc[w] \in Using,
           \A t \in Threads : /\ launch'[t].svc = launch[t].svc
                              /\ launch'[t].at = "init" <=> launch[t].at = "init"
    PROVE  IInv'
<1>1. \A k \in Kinds, t \in Threads, s \in Services : Holds(k, t, s)' <=> Holds(k, t, s)
  BY DEF Holds
<1>2. Refs'
  BY <1>1, RefSame DEF IInv
<1>3. \A s \in Services : Referred(s)' <=> Referred(s)
  BY <1>1 DEF Referred
<1>4. Lives' /\ Deaths'
  BY <1>3 DEF IInv, Lives, Deaths, Deletes
<1>5. PlaceInv' /\ Filled'
  BY DEF IInv, PlaceInv, OnePlace, Placed, InHand, In, Has, Distinct, Belongs, Filled
<1> QED BY <1>2, <1>4, <1>5 DEF IInv

\* A step that gives life to no service and ends none.
LEMMA LivesSame ==
    ASSUME Lives, Deaths, UNCHANGED <<ctx, mq, release>>,
           \A s \in Services :
               /\ slot'[s] = "free" => /\ slot[s] = "free" /\ queue'[s] = queue[s]
                                       /\ in_global'[s] = in_global[s]
               /\ slot[s] = "retired" => slot'[s] = "retired"
               /\ Referred(s)' => Referred(s)
               /\ \A t \in Threads : /\ drop'[t] = s => drop[t] = s \/ release[s]
                                     /\ Deletes(t, s)' => Deletes(t, s) /\ rel'[t] = rel[t]
    PROVE  Lives' /\ Deaths'
<1>1. Lives'
  BY DEF Lives
<1>2. Deaths'
  BY DEF Deaths
<1> QED BY <1>1, <1>2

\* A thread that is free to go on, in its calls.
LEMMA ReleaseType ==
    ASSUME TypeOK, NEW t \in Threads, NEW s \in Services, Release(t, s)
    PROVE  rel' \in [Threads -> {NoCall} \cup [svc : Services, at : {"dec", "mark", "free"}]]
BY DEF TypeOK, Release

LEMMA NilIsNoService == Nil \notin Services /\ Nil \notin Message
BY NilAssumption
-----------------------------------------------------------------------------
(* skynet_context_release. *)

LEMMA ReleaseDecKeeps ==
    ASSUME IInv, NEW t \in Threads, ReleaseDec(t)
    PROVE  IInv'
<1>1. PICK s \in Services : rel[t].svc = s /\ rel[t].at = "dec"
  BY DEF IInv, TypeOK, ReleaseDec
<1>2. /\ ref' = [ref EXCEPT ![s] = @ - 1]
      /\ rel' = [rel EXCEPT ![t] = IF ref[s] = 1 THEN Call(s, "mark") ELSE NoCall]
      /\ UNCHANGED <<slot, ctx, mq, queue, release, in_global, globalmq, pc, q, nq, cur,
                     send, drop, launch>>
  BY <1>1 DEF ReleaseDec, workerVars
<1>3. TypeOK' /\ Loops'
  BY <1>2 DEF IInv, TypeOK, Loops
<1>4. Loses(s, "rel", t)
  BY <1>1, <1>2 DEF IInv, TypeOK, Holds, Loses
<1>5. "rel" \in Kinds /\ Holds("rel", t, s)
  BY <1>1 DEF Kinds, Holds
<1>6. Refs'
  <2>1. Refs /\ ref \in [Services -> Int] /\ ref' = [ref EXCEPT ![s] = @ - 1]
    BY <1>2 DEF IInv, TypeOK
  <2> QED BY <1>4, <1>5, <2>1, RefDrop
<1>7. Referred(s) /\ \A x \in Services : Referred(x)' => Referred(x)
  BY <1>4, <1>5 DEF Referred, Loses
<1>8. Lives'
  BY <1>2, <1>7 DEF IInv, Lives
<1>9. \A u \in Threads, x \in Services :
          Deletes(u, x)' <=> Deletes(u, x) \/ (ref[s] = 1 /\ u = t /\ x = s)
  BY <1>1, <1>2 DEF IInv, TypeOK, Deletes
<1>10. ref[s] = 1 => ~Referred(s)' /\ slot[s] = "retired"
  <2>1. ref[s] = 1 => \A k \in Kinds, u \in Threads : Holds(k, u, s) => k = "rel" /\ u = t
    BY <1>5, LastRef DEF IInv
  <2>2. ref[s] = 1 => ~Referred(s)'
    BY <1>4, <2>1 DEF Referred, Loses
  <2>3. ref[s] = 1 => slot[s] # "taken"
    BY <2>1, TimerIsThread DEF Holds, Kinds
  <2>4. slot[s] # "free"
    BY <1>7 DEF IInv, Lives
  <2> QED BY <2>2, <2>3, <2>4 DEF IInv, TypeOK
<1>11. \A u \in Threads : ~Deletes(u, s)
  BY <1>7 DEF IInv, Deaths
<1>12. Deaths'
  <2> SUFFICES ASSUME NEW x \in Services, NEW u \in Threads, Deletes(u, x)'
               PROVE  /\ slot'[x] = "retired" /\ ctx'[x] = "live" /\ ~Referred(x)'
                      /\ rel'[u].at = "mark" => mq'[x] = "live" /\ ~release'[x]
                      /\ rel'[u].at = "free" => release'[x]
                      /\ \A v \in Threads : Deletes(v, x)' => v = u
    BY DEF Deaths
  <2>1. CASE Deletes(u, x)
    BY <1>1, <1>2, <1>7, <1>9, <1>11, <2>1 DEF IInv, TypeOK, Deaths, Deletes
  <2>2. CASE ref[s] = 1 /\ u = t /\ x = s
    BY <1>2, <1>7, <1>9, <1>10, <1>11, <2>2 DEF IInv, TypeOK, Lives
  <2> QED BY <1>9, <2>1, <2>2
<1>13. PlaceInv' /\ Filled'
  BY <1>2 DEF IInv, PlaceInv, OnePlace, Placed, InHand, In, Has, Distinct, Belongs, Filled
<1> QED BY <1>3, <1>6, <1>8, <1>12, <1>13 DEF IInv

LEMMA ReleaseMarkKeeps ==
    ASSUME IInv, NEW t \in Threads, ReleaseMark(t)
    PROVE  IInv'
<1>1. PICK s \in Services : rel[t].svc = s /\ rel[t].at = "mark"
  BY DEF IInv, TypeOK, ReleaseMark
<1>2. /\ release' = [release EXCEPT ![s] = TRUE]
      /\ globalmq' = IF in_global[s] THEN globalmq ELSE Append(globalmq, s)
      /\ rel' = [rel EXCEPT ![t] = Call(s, "free")]
      /\ UNCHANGED <<slot, ref, ctx, mq, queue, in_global, pc, q, nq, cur, send, drop,
                     launch>>
  BY <1>1 DEF ReleaseMark, workerVars
<1>3. TypeOK' /\ Loops'
  BY <1>2, AppendHas DEF IInv, TypeOK, Loops
<1>4. \A k \in Kinds, u \in Threads, x \in Services : Holds(k, u, x)' <=> Holds(k, u, x)
  BY <1>1, <1>2 DEF IInv, TypeOK, Holds
<1>5. Refs'
  BY <1>2, <1>4, RefSame DEF IInv
<1>6. /\ slot[s] = "retired" /\ ctx[s] = "live" /\ mq[s] = "live" /\ ~Referred(s)
      /\ ~release[s] /\ \A u \in Threads : Deletes(u, s) => u = t
  BY <1>1 DEF IInv, Deaths, Deletes
<1>7. \A x \in Services : Referred(x)' <=> Referred(x)
  BY <1>4 DEF Referred
<1>8. Lives'
  BY <1>2, <1>6, <1>7 DEF IInv, TypeOK, Lives
<1>9. \A u \in Threads, x \in Services : Deletes(u, x)' <=> Deletes(u, x)
  BY <1>1, <1>2 DEF IInv, TypeOK, Deletes
<1>10. Deaths'
  BY <1>1, <1>2, <1>6, <1>7, <1>9 DEF IInv, TypeOK, Deaths, Deletes
<1>11. Keeps
  BY <1>2 DEF Keeps, In
<1>12. MorePlaced(s)
  BY <1>2, <1>6 DEF IInv, TypeOK, Belongs, MorePlaced
<1>13. PlaceInv'
  <2>1. CASE in_global[s]
    BY <1>2, <1>6, <1>11, <1>12, <2>1, PlaceSame DEF IInv, Belongs, SamePlaced, MorePlaced
  <2>2. CASE ~in_global[s]
    <3>1. ~Belongs(s)
      BY <1>6, <2>2 DEF Belongs
    <3> QED BY <1>2, <1>11, <1>12, <2>2, <3>1, PlaceLink DEF IInv, TypeOK
  <2> QED BY <2>1, <2>2
<1>14. Filled'
  BY <1>2, <1>12 DEF IInv, Filled, MorePlaced
<1> QED BY <1>3, <1>5, <1>8, <1>10, <1>13, <1>14 DEF IInv

LEMMA ReleaseFreeKeeps ==
    ASSUME IInv, NEW t \in Threads, ReleaseFree(t)
    PROVE  IInv'
<1>1. PICK s \in Services : rel[t].svc = s /\ rel[t].at = "free"
  <2>1. rel[t].at = "free"
    BY DEF ReleaseFree
  <2>2. rel[t] \in {NoCall} \cup [svc : Services, at : {"dec", "mark", "free"}]
    BY DEF IInv, TypeOK
  <2> QED BY <2>1, <2>2
<1>2. /\ ctx' = [ctx EXCEPT ![s] = "freed"]
      /\ rel' = [rel EXCEPT ![t] = NoCall]
      /\ UNCHANGED <<slot, ref, mq, queue, release, in_global, globalmq, pc, q, nq, cur,
                     send, drop, launch>>
  BY <1>1 DEF ReleaseFree, workerVars
<1>3. TypeOK' /\ Loops'
  BY <1>2 DEF IInv, TypeOK, Loops, Memory
<1>4. \A k \in Kinds, u \in Threads, x \in Services : Holds(k, u, x)' <=> Holds(k, u, x)
  BY <1>1, <1>2 DEF IInv, TypeOK, Holds
<1>5. Refs'
  BY <1>2, <1>4, RefSame DEF IInv
<1>6. slot[s] = "retired" /\ ~Referred(s) /\ \A u \in Threads : Deletes(u, s) => u = t
  BY <1>1 DEF IInv, Deaths, Deletes
<1>7. \A x \in Services : Referred(x)' <=> Referred(x)
  BY <1>4 DEF Referred
<1>8. Lives'
  BY <1>2, <1>6, <1>7 DEF IInv, TypeOK, Lives
<1>9. \A u \in Threads, x \in Services : Deletes(u, x)' <=> Deletes(u, x) /\ x # s
  BY <1>1, <1>2, <1>6 DEF IInv, TypeOK, Deletes
<1>10. Deaths'
  BY <1>1, <1>2, <1>7, <1>9 DEF IInv, TypeOK, Deaths, Deletes
<1>11. PlaceInv' /\ Filled'
  BY <1>2 DEF IInv, PlaceInv, OnePlace, Placed, InHand, In, Has, Distinct, Belongs, Filled
<1> QED BY <1>3, <1>5, <1>8, <1>10, <1>11 DEF IInv
(* skynet_send, and the queues of the dead. *)

LEMMA SendPushKeeps ==
    ASSUME IInv, NEW t \in Threads, SendPush(t)
    PROVE  IInv'
<1>1. PICK s \in Services, m \in Message : send[t] = Sending(s, m) /\ rel[t] = NoCall
  BY DEF IInv, TypeOK, SendPush
<1>2. /\ queue' = [queue EXCEPT ![s] = Append(@, m)]
      /\ in_global' = [in_global EXCEPT ![s] = TRUE]
      /\ globalmq' = IF in_global[s] THEN globalmq ELSE Append(globalmq, s)
      /\ send' = [send EXCEPT ![t] = NoSend]
      /\ rel' = [rel EXCEPT ![t] = Call(s, "dec")]
      /\ UNCHANGED <<slot, ref, ctx, mq, release, pc, q, nq, cur, drop, launch>>
  BY <1>1 DEF SendPush, Release, workerVars
<1>3. TypeOK' /\ Loops'
  <2>1. Append(queue[s], m) \in Seq(Message) /\ globalmq' \in Seq(Services)
    BY <1>2, AppendHas DEF IInv, TypeOK
  <2> QED BY <1>2, <2>1 DEF IInv, TypeOK, Loops
<1>4. /\ Holds("send", t, s) /\ ~Holds("rel", t, s) /\ "send" \in Kinds /\ "rel" \in Kinds
      /\ HandsOn(s, "send", t, "rel", t)
  BY <1>1, <1>2 DEF IInv, TypeOK, Holds, HandsOn, Kinds
<1>5. Refs'
  BY <1>2, <1>4, RefMove DEF IInv
<1>6. Referred(s) /\ \A x \in Services : Referred(x)' => Referred(x)
  BY <1>4 DEF Referred, HandsOn
<1>7. mq[s] = "live" /\ ~release[s] /\ slot[s] # "free"
  BY <1>6 DEF IInv, Lives
<1>8. Lives' /\ Deaths'
  BY <1>1, <1>2, <1>6, <1>7, LivesSame DEF IInv, TypeOK, Deletes
<1>9. Keeps /\ MorePlaced(s)
  BY <1>2, <1>7 DEF IInv, TypeOK, Keeps, In, MorePlaced, Belongs
<1>10. PlaceInv'
  <2>1. CASE in_global[s]
    BY <1>2, <1>7, <1>9, <2>1, PlaceSame DEF IInv, SamePlaced, MorePlaced, Belongs
  <2>2. CASE ~in_global[s]
    <3>1. ~Belongs(s)
      BY <1>7, <2>2 DEF Belongs
    <3> QED BY <1>2, <1>9, <2>2, <3>1, PlaceLink DEF IInv, TypeOK
  <2> QED BY <2>1, <2>2
<1>11. Filled'
  BY <1>2, <1>9 DEF IInv, TypeOK, Filled, MorePlaced
<1> QED BY <1>3, <1>5, <1>8, <1>10, <1>11 DEF IInv

\* A service that is in the table is grabbed, for a message to it.
LEMMA GrabSends ==
    ASSUME IInv, NEW t \in Threads, NEW a \in Services, NEW m \in Message,
           Grab(a), send[t] = NoSend, send' = [send EXCEPT ![t] = Sending(a, m)],
           UNCHANGED <<slot, ctx, mq, release, in_global, globalmq, pc, q, nq, cur, rel,
                       drop, launch>>,
           queue' \in [Services -> Seq(Message)],
           \A s \in Services : queue'[s] = queue[s] \/ release[s]
    PROVE  IInv'
<1>1. slot[a] = "taken" /\ ref' = [ref EXCEPT ![a] = @ + 1]
  BY DEF Grab
<1>2. TypeOK' /\ Loops'
  BY <1>1 DEF IInv, TypeOK, Loops
<1>3. "send" \in Kinds /\ ~Holds("send", t, a) /\ Gains(a, "send", t)
  BY DEF IInv, TypeOK, Holds, Gains, Kinds
<1>4. Refs'
  BY <1>1, <1>3, RefAdd DEF IInv, TypeOK
<1>5. Holds("table", Timer, a) /\ "table" \in Kinds /\ Timer \in Threads
  BY <1>1, TimerIsThread DEF Holds, Kinds
<1>6. \A x \in Services : Referred(x)' => Referred(x)
  BY <1>3, <1>5 DEF Referred, Gains
<1>7. Lives' /\ Deaths'
  BY <1>6, LivesSame DEF IInv, Lives, Deletes
<1>8. Keeps /\ SamePlaced
  BY DEF Keeps, In, SamePlaced, Belongs
<1>9. PlaceInv' /\ Filled'
  BY <1>8, PlaceSame DEF IInv, SamePlaced, Filled, Belongs
<1> QED BY <1>2, <1>4, <1>7, <1>9 DEF IInv

LEMMA DropOneKeeps ==
    ASSUME IInv, NEW t \in Threads, DropOne(t)
    PROVE  IInv'
<1>1. PICK s \in Services : drop[t] = s
  BY DEF IInv, TypeOK, DropOne, InDrop
<1>2. PICK m \in Message : m = Head(queue[s]) /\ queue[s] # <<>>
  BY <1>1, HeadTailProperties DEF IInv, TypeOK, DropOne
<1>3. /\ queue' = [queue EXCEPT ![s] = Tail(@)]
      /\ UNCHANGED <<slot, ctx, mq, release, in_global, globalmq, pc, q, nq, cur, rel, drop,
                     launch>>
      /\ send[t] = NoSend
  BY <1>1 DEF DropOne, InDrop, Free, workerVars
<1>4. queue' \in [Services -> Seq(Message)] /\ release[s] /\ slot[s] = "retired"
  <2>1. Tail(queue[s]) \in Seq(Message)
    BY <1>2, HeadTailProperties DEF IInv, TypeOK
  <2> QED BY <1>1, <1>3, <2>1 DEF IInv, TypeOK, Lives
<1>5. CASE m.src # Nil /\ slot[m.src] = "taken"
  <2>1. PICK a \in Services : a = m.src
    BY <1>5 DEF Message
  <2>2. ErrorOf(s, m) \in Message
    BY DEF ErrorOf, Message
  <2>3. Grab(a) /\ send' = [send EXCEPT ![t] = Sending(a, ErrorOf(s, m))]
    BY <1>1, <1>2, <1>5, <2>1 DEF DropOne
  <2> QED BY <1>3, <1>4, <2>2, <2>3, GrabSends
<1>6. CASE ~(m.src # Nil /\ slot[m.src] = "taken")
  <2>1. UNCHANGED <<ref, send>>
    BY <1>1, <1>2, <1>6 DEF DropOne
  <2>2. TypeOK' /\ Loops'
    BY <1>3, <1>4, <2>1 DEF IInv, TypeOK, Loops
  <2>3. \A k \in Kinds, u \in Threads, x \in Services : Holds(k, u, x)' <=> Holds(k, u, x)
    BY <1>3, <2>1 DEF Holds
  <2>4. Refs' /\ \A x \in Services : Referred(x)' <=> Referred(x)
    BY <2>1, <2>3, RefSame DEF IInv, Referred
  <2>5. Lives' /\ Deaths'
    BY <1>3, <1>4, <2>4, LivesSame DEF IInv, TypeOK, Deletes
  <2>6. Keeps /\ SamePlaced
    BY <1>3 DEF Keeps, In, SamePlaced, Belongs
  <2>7. PlaceInv' /\ Filled'
    BY <1>3, <1>4, <2>6, PlaceSame DEF IInv, TypeOK, SamePlaced, Filled, Belongs
  <2> QED BY <2>2, <2>4, <2>5, <2>7 DEF IInv
<1> QED BY <1>5, <1>6

LEMMA DropEndKeeps ==
    ASSUME IInv, NEW t \in Threads, DropEnd(t)
    PROVE  IInv'
<1>1. PICK s \in Services : drop[t] = s
  BY DEF IInv, TypeOK, DropEnd, InDrop
<1>2. /\ in_global' = [in_global EXCEPT ![s] = FALSE]
      /\ mq' = [mq EXCEPT ![s] = "freed"]
      /\ drop' = [drop EXCEPT ![t] = Nil]
      /\ UNCHANGED <<slot, ref, ctx, queue, release, globalmq, pc, q, nq, cur, send, rel,
                     launch>>
  BY <1>1 DEF DropEnd, workerVars
<1>3. TypeOK' /\ Loops'
  BY <1>2 DEF IInv, TypeOK, Loops, Memory
<1>4. \A k \in Kinds, u \in Threads, x \in Services : Holds(k, u, x)' <=> Holds(k, u, x)
  BY <1>2 DEF Holds
<1>5. Refs' /\ \A x \in Services : Referred(x)' <=> Referred(x)
  BY <1>2, <1>4, RefSame DEF IInv, Referred
<1>6. release[s] /\ slot[s] = "retired" /\ ~Referred(s)
  BY <1>1 DEF IInv, Lives
<1>7. Lives'
  BY <1>2, <1>5, <1>6, NilIsNoService DEF IInv, TypeOK, Lives
<1>8. Deaths'
  BY <1>2, <1>5, <1>6 DEF IInv, TypeOK, Deaths, Deletes
<1>9. In("drop", t, s) /\ "drop" \in Hands
  BY <1>1 DEF In, Hands
<1>10. Leaves(s)
  <2>1. \A k \in Hands, u \in Threads : In(k, u, s) => k = "drop" /\ u = t
    BY <1>9 DEF IInv, PlaceInv, OnePlace
  <2> QED BY <1>1, <1>2, <2>1, NilIsNoService DEF IInv, TypeOK, Leaves, In
<1>11. FewerPlaced(s)
  BY <1>2 DEF IInv, TypeOK, FewerPlaced, Belongs
<1>12. PlaceInv'
  BY <1>2, <1>9, <1>10, <1>11, PlaceLeave DEF IInv
<1>13. Filled'
  BY <1>2, <1>11 DEF IInv, TypeOK, Filled, FewerPlaced
<1> QED BY <1>3, <1>5, <1>7, <1>8, <1>12, <1>13 DEF IInv

LEMMA SendGrabKeeps ==
    ASSUME IInv, NEW t \in Threads, NEW id \in Msgs, NEW s \in Services, SendGrab(t, id, s)
    PROVE  IInv'
<1>1. send[t] = NoSend /\ Source(t) \in Services \cup {Nil}
  BY DEF IInv, TypeOK, SendGrab, MaySend, InCallback, InInit, InLoop, InLaunch, Free,
         Source, Threads
<1>2. /\ UNCHANGED <<slot, ctx, mq, release, in_global, globalmq, queue, pc, q, nq, cur, rel,
                     drop, launch>>
      /\ queue' \in [Services -> Seq(Message)]
  BY DEF SendGrab, workerVars, IInv, TypeOK
<1> DEFINE m == [id |-> id, kind |-> "request", src |-> Source(t)]
<1>3. m \in Message
  BY <1>1 DEF Message
<1>4. CASE Grab(s) /\ send' = [send EXCEPT ![t] = Sending(s, m)]
  BY <1>1, <1>2, <1>3, <1>4, GrabSends
<1>5. CASE UNCHANGED <<ref, send>>
  <2>1. TypeOK' /\ Loops'
    BY <1>2, <1>5 DEF IInv, TypeOK, Loops
  <2> QED BY <1>2, <1>5, <2>1, Quiet
<1> QED BY <1>4, <1>5 DEF SendGrab
(* Retiring and launching. *)

LEMMA RetireKeeps ==
    ASSUME IInv, NEW t \in Threads, NEW s \in Services,
           Free(t), slot[s] = "taken", Retire(t, s),
           UNCHANGED <<ref, ctx, mq, queue, release, in_global, globalmq, pc, q, nq, cur,
                       send, drop>>,
           launch' \in [Threads -> {NoCall} \cup
                                   [svc : Services, at : {"init", "retire", "mqrelease"}]],
           \A u \in Threads : /\ launch'[u].svc = launch[u].svc
                              /\ launch'[u].at = "init" <=> launch[u].at = "init"
    PROVE  IInv'
<1>1. /\ slot' = [slot EXCEPT ![s] = "retired"]
      /\ rel' = [rel EXCEPT ![t] = Call(s, "dec")]
      /\ rel[t] = NoCall
  BY DEF Retire, Release, Free
<1>2. TypeOK' /\ Loops'
  BY <1>1 DEF IInv, TypeOK, Loops
<1>3. /\ Holds("table", Timer, s) /\ ~Holds("rel", t, s)
      /\ "table" \in Kinds /\ "rel" \in Kinds /\ Timer \in Threads
      /\ HandsOn(s, "table", Timer, "rel", t)
  BY <1>1, TimerIsThread DEF IInv, TypeOK, Holds, HandsOn, Kinds
<1>4. Refs'
  BY <1>3, RefMove DEF IInv
<1>5. \A x \in Services : Referred(x)' => Referred(x)
  BY <1>3 DEF Referred, HandsOn
<1>6. Lives' /\ Deaths'
  BY <1>1, <1>5, LivesSame DEF IInv, TypeOK, Deletes
<1>7. Keeps /\ SamePlaced
  BY DEF Keeps, In, SamePlaced, Belongs
<1>8. PlaceInv' /\ Filled'
  BY <1>7, PlaceSame DEF IInv, SamePlaced, Filled, Belongs
<1> QED BY <1>2, <1>4, <1>6, <1>8 DEF IInv

LEMMA KillKeeps ==
    ASSUME IInv, NEW w \in Workers, NEW s \in Services, Kill(w, s)
    PROVE  IInv'
<1>1. w \in Threads /\ Free(w) /\ slot[s] = "taken" /\ Retire(w, s)
  BY DEF Kill, InCallback, InLoop, Threads
<1>2. UNCHANGED <<ref, ctx, mq, queue, release, in_global, globalmq, pc, q, nq, cur, send,
                  drop, launch>>
  BY DEF Kill, workerVars
<1> QED BY <1>1, <1>2, RetireKeeps DEF IInv, TypeOK

\* A thread in a launch.
LEMMA LaunchOf ==
    ASSUME TypeOK, NEW w \in Workers, InLaunch(w)
    PROVE  /\ w \in Threads /\ rel[w] = NoCall /\ drop[w] = Nil
           /\ launch[w].svc \in Services
           /\ launch[w].at \in {"init", "retire", "mqrelease"}
           /\ launch[w] = Call(launch[w].svc, launch[w].at)
<1>1. w \in Threads /\ rel[w] = NoCall /\ drop[w] = Nil /\ launch[w] # NoCall
  BY DEF InLaunch, Free, Threads
<1>2. launch[w] \in [svc : Services, at : {"init", "retire", "mqrelease"}]
  BY <1>1 DEF TypeOK
<1> QED BY <1>1, <1>2

\* It goes on to its next part.
LEMMA LaunchGoesOn ==
    ASSUME TypeOK, NEW w \in Workers, InLaunch(w), NEW place,
           launch' = [launch EXCEPT ![w].at = place]
    PROVE  launch' = [launch EXCEPT ![w] = Call(launch[w].svc, place)]
<1>1. PICK s, at : launch[w] = Call(s, at)
  BY LaunchOf
<1>2. [Call(s, at) EXCEPT !.at = place] = Call(s, place) /\ launch[w].svc = s
  BY <1>1
<1>3. launch' = [launch EXCEPT ![w] = [launch[w] EXCEPT !.at = place]]
  OBVIOUS
<1> QED BY <1>1, <1>2, <1>3

LEMMA LaunchRetireKeeps ==
    ASSUME IInv, NEW w \in Workers, LaunchRetire(w)
    PROVE  IInv'
<1>1. /\ w \in Threads /\ Free(w) /\ launch[w].svc \in Services /\ launch[w].at = "retire"
  BY LaunchOf DEF IInv, LaunchRetire, InLaunch
<1>2. PICK s \in Services : s = launch[w].svc
  BY <1>1
<1>3. /\ UNCHANGED <<ref, ctx, mq, queue, release, in_global, globalmq, pc, q, nq, cur, send,
                     drop>>
      /\ launch' = [launch EXCEPT ![w] = Call(s, "mqrelease")]
      /\ Retire(w, s)
  BY <1>2, LaunchGoesOn DEF IInv, LaunchRetire, workerVars
<1>4. /\ launch' \in [Threads -> {NoCall} \cup
                                 [svc : Services, at : {"init", "retire", "mqrelease"}]]
      /\ \A u \in Threads : /\ launch'[u].svc = launch[u].svc
                            /\ launch'[u].at = "init" <=> launch[u].at = "init"
  BY <1>1, <1>2, <1>3 DEF IInv, TypeOK
<1>5. CASE slot[s] = "taken"
  BY <1>1, <1>3, <1>4, <1>5, RetireKeeps
<1>6. CASE slot[s] # "taken"
  <2>1. UNCHANGED <<slot, rel>>
    BY <1>3, <1>6 DEF Retire
  <2>2. TypeOK' /\ Loops'
    BY <1>3, <1>4, <2>1 DEF IInv, TypeOK, Loops
  <2> QED BY <1>3, <1>4, <2>1, <2>2, Quiet
<1> QED BY <1>5, <1>6

LEMMA LaunchBeginKeeps ==
    ASSUME IInv, NEW w \in Workers, NEW s \in Services, LaunchBegin(w, s)
    PROVE  IInv'
<1>1. /\ w \in Threads /\ launch[w] = NoCall /\ slot[s] = "free"
      /\ slot' = [slot EXCEPT ![s] = "taken"]
      /\ ref' = [ref EXCEPT ![s] = 2]
      /\ ctx' = [ctx EXCEPT ![s] = "live"]
      /\ mq' = [mq EXCEPT ![s] = "live"]
      /\ in_global' = [in_global EXCEPT ![s] = TRUE]
      /\ launch' = [launch EXCEPT ![w] = Call(s, "init")]
      /\ UNCHANGED <<queue, release, globalmq, pc, q, nq, cur, send, rel, drop>>
  BY DEF LaunchBegin, InCallback, InLoop, Threads, workerVars
<1>2. TypeOK' /\ Loops'
  BY <1>1 DEF IInv, TypeOK, Loops, Memory
<1>3. mq[s] = "none" /\ queue[s] = <<>> /\ ~release[s] /\ ~Referred(s)
  BY <1>1 DEF IInv, Lives
<1>4. \A k \in Kinds, t \in Threads, x \in Services :
          Holds(k, t, x)' <=>
              \/ Holds(k, t, x)
              \/ x = s /\ ((k = "table" /\ t = Timer) \/ (k = "launch" /\ t = w))
  BY <1>1 DEF IInv, TypeOK, Holds
<1>5. Refs'
  BY <1>1, <1>3, <1>4, RefNew DEF IInv, TypeOK
<1>6. \A x \in Services : x # s => (Referred(x)' <=> Referred(x))
  BY <1>4 DEF Referred
<1>7. Lives'
  BY <1>1, <1>3, <1>6 DEF IInv, TypeOK, Lives
<1>8. Deaths'
  BY <1>1, <1>6 DEF IInv, TypeOK, Deaths, Deletes
<1>9. ~Belongs(s) /\ MorePlaced(s)
  BY <1>1, <1>3 DEF IInv, TypeOK, Belongs, MorePlaced
<1>10. "launch" \in Hands /\ Comes(s, "launch", w)
  BY <1>1, NilIsNoService DEF IInv, TypeOK, Comes, In, Hands
<1>11. PlaceInv'
  BY <1>1, <1>9, <1>10, PlaceNew DEF IInv
<1>12. Filled'
  BY <1>1, <1>9 DEF IInv, TypeOK, Filled, MorePlaced
<1> QED BY <1>2, <1>5, <1>7, <1>8, <1>11, <1>12 DEF IInv

LEMMA LaunchDoneKeeps ==
    ASSUME IInv, NEW w \in Workers, LaunchDone(w)
    PROVE  IInv'
<1>1. PICK s \in Services : /\ launch[w] = Call(s, "init") /\ w \in Threads
                            /\ rel[w] = NoCall
  BY LaunchOf DEF IInv, LaunchDone, InInit
<1>2. /\ globalmq' = Append(globalmq, s)
      /\ launch' = [launch EXCEPT ![w] = NoCall]
      /\ rel' = [rel EXCEPT ![w] = Call(s, "dec")]
      /\ UNCHANGED <<slot, ref, ctx, mq, queue, release, in_global, pc, q, nq, cur, send,
                     drop>>
  BY <1>1 DEF LaunchDone, Release, workerVars
<1>3. TypeOK' /\ Loops'
  <2>1. globalmq' \in Seq(Services)
    BY <1>2, AppendHas DEF IInv, TypeOK
  <2> QED BY <1>2, <2>1 DEF IInv, TypeOK, Loops
<1>4. /\ Holds("launch", w, s) /\ ~Holds("rel", w, s) /\ "launch" \in Kinds /\ "rel" \in Kinds
      /\ HandsOn(s, "launch", w, "rel", w)
  BY <1>1, <1>2 DEF IInv, TypeOK, Holds, HandsOn, Kinds
<1>5. Refs'
  BY <1>1, <1>2, <1>4, RefMove DEF IInv
<1>6. \A x \in Services : Referred(x)' => Referred(x)
  BY <1>1, <1>4 DEF Referred, HandsOn
<1>7. Lives' /\ Deaths'
  BY <1>1, <1>2, <1>6, LivesSame DEF IInv, TypeOK, Deletes
<1>8. In("launch", w, s) /\ "launch" \in Hands /\ SamePlaced
  BY <1>1, <1>2 DEF In, Hands, SamePlaced, Belongs
<1>9. Leaves(s)
  <2>1. \A k \in Hands, u \in Threads : In(k, u, s) => k = "launch" /\ u = w
    BY <1>1, <1>8 DEF IInv, PlaceInv, OnePlace
  <2> QED BY <1>1, <1>2, <2>1, NilIsNoService DEF IInv, TypeOK, Leaves, In
<1>10. PlaceInv'
  BY <1>1, <1>2, <1>8, <1>9, PlacePut DEF IInv, TypeOK
<1>11. Filled'
  BY <1>2 DEF IInv, Filled, Belongs
<1> QED BY <1>3, <1>5, <1>7, <1>10, <1>11 DEF IInv

LEMMA LaunchFailsKeeps ==
    ASSUME IInv, NEW w \in Workers, LaunchFails(w)
    PROVE  IInv'
<1>1. PICK s \in Services : /\ launch[w] = Call(s, "init") /\ w \in Threads
                            /\ rel[w] = NoCall
  BY LaunchOf DEF IInv, LaunchFails, InInit
<1>2. /\ launch' = [launch EXCEPT ![w] = Call(s, "retire")]
      /\ rel' = [rel EXCEPT ![w] = Call(s, "dec")]
      /\ UNCHANGED <<slot, ref, ctx, mq, queue, release, in_global, globalmq, pc, q, nq, cur,
                     send, drop>>
  <2>1. InLaunch(w) /\ launch' = [launch EXCEPT ![w].at = "retire"]
    BY DEF LaunchFails, InInit
  <2>2. launch' = [launch EXCEPT ![w] = Call(launch[w].svc, "retire")]
    BY <2>1, LaunchGoesOn DEF IInv
  <2>3. launch[w].svc = s
    BY <1>1
  <2>4. UNCHANGED kernelVars /\ UNCHANGED workerVars /\ UNCHANGED <<send, drop>>
    BY DEF LaunchFails
  <2>5. rel' = [rel EXCEPT ![w] = Call(s, "dec")]
    BY <2>3 DEF LaunchFails, Release
  <2> QED BY <2>2, <2>3, <2>4, <2>5 DEF workerVars, kernelVars
<1>3. TypeOK' /\ Loops'
  BY <1>2 DEF IInv, TypeOK, Loops
<1>4. /\ Holds("launch", w, s) /\ ~Holds("rel", w, s) /\ "launch" \in Kinds /\ "rel" \in Kinds
      /\ HandsOn(s, "launch", w, "rel", w)
  BY <1>1, <1>2 DEF IInv, TypeOK, Holds, HandsOn, Kinds
<1>5. Refs'
  BY <1>1, <1>2, <1>4, RefMove DEF IInv
<1>6. \A x \in Services : Referred(x)' => Referred(x)
  BY <1>1, <1>4 DEF Referred, HandsOn
<1>7. Lives' /\ Deaths'
  BY <1>1, <1>2, <1>6, LivesSame DEF IInv, TypeOK, Deletes
<1>8. Keeps /\ SamePlaced
  BY <1>1, <1>2 DEF IInv, TypeOK, Keeps, In, SamePlaced, Belongs
<1>9. PlaceInv' /\ Filled'
  BY <1>2, <1>8, PlaceSame DEF IInv, SamePlaced, Filled, Belongs
<1> QED BY <1>3, <1>5, <1>7, <1>9 DEF IInv

LEMMA MqReleaseType ==
    ASSUME TypeOK, NEW t \in Threads, NEW s \in Services, MqRelease(t, s)
    PROVE  globalmq' \in Seq(Services) /\ drop' \in [Threads -> Services \cup {Nil}]
<1>1. Append(globalmq, s) \in Seq(Services)
  BY AppendHas DEF TypeOK
<1>2. CASE release[s]
  <2>1. drop' = [drop EXCEPT ![t] = s] /\ globalmq' = globalmq
    BY <1>2 DEF MqRelease
  <2> QED BY <2>1 DEF TypeOK
<1>3. CASE ~release[s]
  BY <1>1, <1>3 DEF TypeOK, MqRelease
<1> QED BY <1>2, <1>3

LEMMA LaunchMqReleaseKeeps ==
    ASSUME IInv, NEW w \in Workers, LaunchMqRelease(w)
    PROVE  IInv'
<1>1. PICK s \in Services : /\ launch[w] = Call(s, "mqrelease") /\ w \in Threads
                            /\ drop[w] = Nil
  BY LaunchOf DEF IInv, LaunchMqRelease
<1>2. /\ MqRelease(w, s)
      /\ launch' = [launch EXCEPT ![w] = NoCall]
      /\ UNCHANGED <<slot, ref, ctx, mq, queue, release, in_global, pc, q, nq, cur, send, rel>>
  BY <1>1 DEF LaunchMqRelease, workerVars
<1>3. TypeOK' /\ Loops'
  <2>1. globalmq' \in Seq(Services) /\ drop' \in [Threads -> Services \cup {Nil}]
    BY <1>1, <1>2, MqReleaseType DEF IInv
  <2> QED BY <1>1, <1>2, <2>1 DEF IInv, TypeOK, Loops
<1>4. \A k \in Kinds, u \in Threads, x \in Services : Holds(k, u, x)' <=> Holds(k, u, x)
  BY <1>1, <1>2 DEF IInv, TypeOK, Holds
<1>5. Refs' /\ \A x \in Services : Referred(x)' <=> Referred(x)
  BY <1>2, <1>4, RefSame DEF IInv, Referred
<1>6. Lives' /\ Deaths'
  BY <1>1, <1>2, <1>5, LivesSame DEF IInv, TypeOK, Deletes, MqRelease
<1>7. In("launch", w, s) /\ "launch" \in Hands /\ "drop" \in Hands /\ SamePlaced
  BY <1>1, <1>2 DEF In, Hands, SamePlaced, Belongs
<1>8. \A k \in Hands, u \in Threads : In(k, u, s) => k = "launch" /\ u = w
  BY <1>1, <1>7 DEF IInv, PlaceInv, OnePlace
<1>9. CASE release[s]
  <2>1. drop' = [drop EXCEPT ![w] = s] /\ UNCHANGED globalmq
    BY <1>2, <1>9 DEF MqRelease
  <2>2. Passes(s, "drop", w)
    BY <1>1, <1>2, <1>8, <2>1, NilIsNoService DEF IInv, TypeOK, Passes, In
  <2>3. PlaceInv'
    BY <1>1, <1>7, <2>1, <2>2, PlaceHand DEF IInv
  <2> QED BY <1>2, <1>3, <1>5, <1>6, <2>3 DEF IInv, Filled, Belongs
<1>10. CASE ~release[s]
  <2>1. globalmq' = Append(globalmq, s) /\ UNCHANGED drop
    BY <1>2, <1>10 DEF MqRelease
  <2>2. Leaves(s)
    BY <1>1, <1>2, <1>8, <2>1, NilIsNoService DEF IInv, TypeOK, Leaves, In
  <2>3. PlaceInv'
    BY <1>1, <1>7, <2>1, <2>2, PlacePut DEF IInv, TypeOK
  <2> QED BY <1>2, <1>3, <1>5, <1>6, <2>3 DEF IInv, Filled, Belongs
<1> QED BY <1>9, <1>10
(* The dispatch of messages. *)

\* The worker's own steps leave these alone.
WorkerSame == UNCHANGED <<slot, ctx, mq, release, send, launch>>

LEMMA PopGlobalKeeps ==
    ASSUME IInv, NEW w \in Workers, PopGlobal(w)
    PROVE  IInv'
<1>1. /\ q[w] = Nil /\ pc[w] \in {"next", "loop"} /\ w \in Threads /\ WorkerSame
      /\ UNCHANGED <<ref, queue, in_global, nq, cur, rel, drop>>
  BY DEF PopGlobal, subVars, Threads, WorkerSame
<1>2. CASE pc' = [pc EXCEPT ![w] = "lock"] /\ UNCHANGED <<globalmq, q>>
  <2>1. TypeOK' /\ Loops'
    BY <1>1, <1>2 DEF IInv, TypeOK, Loops, Using, WorkerSame
  <2>2. \A v \in Workers : pc'[v] \in Using <=> pc[v] \in Using
    BY <1>1, <1>2 DEF IInv, TypeOK, Using
  <2> QED BY <1>1, <1>2, <2>1, <2>2, Quiet DEF WorkerSame
<1>3. CASE /\ globalmq # <<>> /\ globalmq' = Tail(globalmq)
           /\ pc' = [pc EXCEPT ![w] = IF pc[w] = "loop" THEN "grab" ELSE "loop"]
           /\ q' = [q EXCEPT ![w] = Head(globalmq)]
  <2>1. /\ Head(globalmq) \in Services /\ Tail(globalmq) \in Seq(Services)
    BY <1>3, TailHas DEF IInv, TypeOK
  <2>2. TypeOK' /\ Loops'
    BY <1>1, <1>3, <2>1, NilIsNoService DEF IInv, TypeOK, Loops, Using, WorkerSame
  <2>3. \A k \in Kinds, t \in Threads, s \in Services : Holds(k, t, s)' <=> Holds(k, t, s)
    BY <1>1, <1>3 DEF IInv, TypeOK, Holds, Using, WorkerSame
  <2>4. Refs' /\ \A s \in Services : Referred(s)' <=> Referred(s)
    BY <1>1, <2>3, RefSame DEF IInv, Referred
  <2>5. Lives' /\ Deaths'
    BY <1>1, <2>4, LivesSame DEF IInv, Deletes, WorkerSame
  <2>6. "q" \in Hands /\ Comes(Head(globalmq), "q", w) /\ SamePlaced
    BY <1>1, <1>3, NilIsNoService
       DEF IInv, TypeOK, Comes, In, Hands, SamePlaced, Belongs, WorkerSame
  <2>7. PlaceInv'
    BY <1>1, <1>3, <2>6, PlaceTake DEF IInv, TypeOK
  <2> QED BY <1>1, <2>2, <2>4, <2>5, <2>7 DEF IInv, Filled, Belongs, WorkerSame
<1> QED BY <1>2, <1>3 DEF PopGlobal, Goto

LEMMA DispatchGrabKeeps ==
    ASSUME IInv, NEW w \in Workers, DispatchGrab(w)
    PROVE  IInv'
<1>1. PICK s \in Services : q[w] = s /\ slot[s] = "taken" /\ ref' = [ref EXCEPT ![s] = @ + 1]
  BY DEF IInv, TypeOK, DispatchGrab, AtGrab, Grab
<1>2. /\ pc[w] \in {"grab", "loop"} /\ pc' = [pc EXCEPT ![w] = "first"]
      /\ w \in Threads /\ WorkerSame
      /\ UNCHANGED <<queue, in_global, globalmq, q, nq, cur, rel, drop>>
  BY DEF DispatchGrab, AtGrab, Goto, subVars, Threads, WorkerSame
<1>3. TypeOK' /\ Loops'
  BY <1>1, <1>2, NilIsNoService DEF IInv, TypeOK, Loops, Using, WorkerSame
<1>4. "work" \in Kinds /\ ~Holds("work", w, s) /\ Gains(s, "work", w)
  BY <1>1, <1>2 DEF IInv, TypeOK, Holds, Gains, Kinds, Using, WorkerSame
<1>5. Refs'
  BY <1>1, <1>2, <1>4, RefAdd DEF IInv, TypeOK
<1>6. Holds("table", Timer, s) /\ "table" \in Kinds /\ Timer \in Threads
  BY <1>1, TimerIsThread DEF Holds, Kinds
<1>7. \A x \in Services : Referred(x)' => Referred(x)
  BY <1>4, <1>6 DEF Referred, Gains
<1>8. Lives' /\ Deaths'
  BY <1>2, <1>7, LivesSame DEF IInv, Deletes, WorkerSame
<1>9. Keeps /\ SamePlaced
  BY <1>2 DEF Keeps, In, SamePlaced, Belongs, WorkerSame
<1>10. PlaceInv' /\ Filled'
  BY <1>2, <1>9, PlaceSame DEF IInv, SamePlaced, Filled, WorkerSame
<1> QED BY <1>3, <1>5, <1>8, <1>10 DEF IInv

LEMMA DispatchGoneKeeps ==
    ASSUME IInv, NEW w \in Workers, DispatchGone(w)
    PROVE  IInv'
<1>1. /\ pc[w] \in {"grab", "loop"} /\ q[w] # Nil /\ pc' = [pc EXCEPT ![w] = "gone"]
      /\ WorkerSame
      /\ UNCHANGED <<ref, queue, in_global, globalmq, q, nq, cur, rel, drop>>
  BY DEF DispatchGone, AtGrab, Goto, kernelVars, subVars, WorkerSame
<1>2. TypeOK' /\ Loops'
  BY <1>1 DEF IInv, TypeOK, Loops, Using, WorkerSame
<1>3. \A v \in Workers : pc'[v] \in Using <=> pc[v] \in Using
  BY <1>1 DEF IInv, TypeOK, Using
<1> QED BY <1>1, <1>2, <1>3, Quiet DEF WorkerSame

LEMMA DispatchMqReleaseKeeps ==
    ASSUME IInv, NEW w \in Workers, DispatchMqRelease(w)
    PROVE  IInv'
<1>1. PICK s \in Services : q[w] = s
  BY DEF IInv, TypeOK, Loops, DispatchMqRelease
<1>2. /\ pc[w] = "gone" /\ drop[w] = Nil /\ w \in Threads /\ WorkerSame
      /\ MqRelease(w, s)
      /\ q' = [q EXCEPT ![w] = Nil] /\ pc' = [pc EXCEPT ![w] = "next"]
      /\ UNCHANGED <<ref, queue, in_global, nq, cur, rel>>
  BY <1>1 DEF DispatchMqRelease, InLoop, Goto, Threads, WorkerSame
<1>3. TypeOK' /\ Loops'
  <2>1. globalmq' \in Seq(Services) /\ drop' \in [Threads -> Services \cup {Nil}]
    BY <1>1, <1>2, MqReleaseType DEF IInv
  <2> QED BY <1>1, <1>2, <2>1 DEF IInv, TypeOK, Loops, Using, WorkerSame
<1>4. \A k \in Kinds, t \in Threads, x \in Services : Holds(k, t, x)' <=> Holds(k, t, x)
  BY <1>1, <1>2 DEF IInv, TypeOK, Holds, Using, WorkerSame
<1>5. Refs' /\ \A x \in Services : Referred(x)' <=> Referred(x)
  BY <1>2, <1>4, RefSame DEF IInv, Referred
<1>6. Lives' /\ Deaths'
  BY <1>1, <1>2, <1>5, LivesSame DEF IInv, TypeOK, Deletes, MqRelease, WorkerSame
<1>7. In("q", w, s) /\ "q" \in Hands /\ "drop" \in Hands /\ SamePlaced
  BY <1>1, <1>2 DEF In, Hands, SamePlaced, Belongs, WorkerSame
<1>8. \A k \in Hands, u \in Threads : In(k, u, s) => k = "q" /\ u = w
  BY <1>2, <1>7 DEF IInv, PlaceInv, OnePlace
<1>9. CASE release[s]
  <2>1. drop' = [drop EXCEPT ![w] = s] /\ UNCHANGED globalmq
    BY <1>2, <1>9 DEF MqRelease
  <2>2. Passes(s, "drop", w)
    BY <1>1, <1>2, <1>8, <2>1, NilIsNoService DEF IInv, TypeOK, Passes, In, WorkerSame
  <2>3. PlaceInv'
    BY <1>2, <1>7, <2>1, <2>2, PlaceHand DEF IInv
  <2> QED BY <1>2, <1>3, <1>5, <1>6, <2>3 DEF IInv, Filled, Belongs, WorkerSame
<1>10. CASE ~release[s]
  <2>1. globalmq' = Append(globalmq, s) /\ UNCHANGED drop
    BY <1>2, <1>10 DEF MqRelease
  <2>2. Leaves(s)
    BY <1>1, <1>2, <1>8, <2>1, NilIsNoService DEF IInv, TypeOK, Leaves, In, WorkerSame
  <2>3. PlaceInv'
    BY <1>2, <1>7, <2>1, <2>2, PlacePut DEF IInv, TypeOK
  <2> QED BY <1>2, <1>3, <1>5, <1>6, <2>3 DEF IInv, Filled, Belongs, WorkerSame
<1> QED BY <1>9, <1>10

\* A worker that is in the dispatch has a queue, and refers to its service.
LEMMA WorkerHolds ==
    ASSUME IInv, NEW w \in Workers, pc[w] \in Using, NEW s \in Services, q[w] = s
    PROVE  /\ w \in Threads /\ "work" \in Kinds /\ Holds("work", w, s) /\ Referred(s)
           /\ mq[s] = "live" /\ ~release[s] /\ slot[s] # "free"
           /\ "q" \in Hands /\ In("q", w, s)
           /\ \A k \in Hands, u \in Threads : In(k, u, s) => k = "q" /\ u = w
<1>1. w \in Threads /\ "work" \in Kinds /\ Holds("work", w, s)
  BY DEF Threads, Kinds, Holds
<1>2. Referred(s)
  BY <1>1 DEF Referred
<1>3. mq[s] = "live" /\ ~release[s] /\ slot[s] # "free"
  BY <1>2 DEF IInv, Lives
<1>4. "q" \in Hands /\ In("q", w, s)
  BY DEF Hands, In
<1> QED BY <1>1, <1>2, <1>3, <1>4 DEF IInv, PlaceInv, OnePlace

LEMMA PopEmptyStep ==
    ASSUME IInv, NEW w \in Workers, PopEmpty(w)
    PROVE  IInv'
<1>1. PICK s \in Services : q[w] = s
  BY DEF IInv, TypeOK, Loops, PopEmpty, Using
<1>2. /\ pc[w] \in {"first", "pop"} /\ queue[s] = <<>> /\ rel[w] = NoCall /\ WorkerSame
      /\ in_global' = [in_global EXCEPT ![s] = FALSE]
      /\ rel' = [rel EXCEPT ![w] = Call(s, "dec")]
      /\ q' = [q EXCEPT ![w] = Nil] /\ pc' = [pc EXCEPT ![w] = "next"]
      /\ UNCHANGED <<ref, queue, globalmq, nq, cur, drop>>
  BY <1>1 DEF PopEmpty, InLoop, Free, Release, Goto, WorkerSame
<1>3. TypeOK' /\ Loops'
  BY <1>1, <1>2 DEF IInv, TypeOK, Loops, Using, Threads, WorkerSame
<1>4. pc[w] \in Using
  BY <1>2 DEF Using
<1>5. "rel" \in Kinds /\ ~Holds("rel", w, s) /\ HandsOn(s, "work", w, "rel", w)
  BY <1>1, <1>2, <1>4 DEF IInv, TypeOK, Holds, HandsOn, Kinds, Using, Threads, WorkerSame
<1>6. Refs'
  BY <1>1, <1>2, <1>4, <1>5, WorkerHolds, RefMove DEF IInv
<1>7. \A x \in Services : Referred(x)' => Referred(x)
  BY <1>1, <1>4, <1>5, WorkerHolds DEF Referred, HandsOn
<1>8. Lives' /\ Deaths'
  BY <1>1, <1>2, <1>4, <1>7, WorkerHolds, LivesSame, ZenonT(30)
     DEF IInv, TypeOK, Deletes, Threads, WorkerSame
<1>9. FewerPlaced(s)
  BY <1>1, <1>2, <1>4, WorkerHolds DEF IInv, TypeOK, FewerPlaced, Belongs, WorkerSame
<1>10. Leaves(s)
  BY <1>1, <1>2, <1>4, WorkerHolds, NilIsNoService DEF IInv, TypeOK, Leaves, In, WorkerSame
<1>11. PlaceInv'
  BY <1>1, <1>2, <1>4, <1>9, <1>10, WorkerHolds, PlaceLeave DEF IInv
<1>12. Filled'
  BY <1>2, <1>9 DEF IInv, Filled, FewerPlaced, WorkerSame
<1> QED BY <1>3, <1>6, <1>8, <1>11, <1>12 DEF IInv

LEMMA PopMessageKeeps ==
    ASSUME IInv, NEW w \in Workers, PopMessage(w)
    PROVE  IInv'
<1>1. PICK s \in Services : q[w] = s
  BY DEF IInv, TypeOK, Loops, PopMessage, Using
<1>2. /\ pc[w] \in {"first", "pop"} /\ queue[s] # <<>> /\ WorkerSame
      /\ cur' = [cur EXCEPT ![w] = Head(queue[s])]
      /\ queue' = [queue EXCEPT ![s] = Tail(@)]
      /\ pc' = [pc EXCEPT ![w] = "length"] \/ pc' = [pc EXCEPT ![w] = "run"]
      /\ UNCHANGED <<ref, in_global, globalmq, q, nq, rel, drop>>
  BY <1>1 DEF PopMessage, Goto, subVars, WorkerSame
<1>3. Head(queue[s]) \in Message /\ Tail(queue[s]) \in Seq(Message)
  BY <1>2, HeadTailProperties DEF IInv, TypeOK
<1>4. TypeOK' /\ Loops'
  BY <1>1, <1>2, <1>3, NilIsNoService DEF IInv, TypeOK, Loops, Using, WorkerSame
<1>5. pc[w] \in Using /\ \A v \in Workers : pc'[v] \in Using <=> pc[v] \in Using
  BY <1>2 DEF IInv, TypeOK, Using
<1>6. \A k \in Kinds, t \in Threads, x \in Services : Holds(k, t, x)' <=> Holds(k, t, x)
  BY <1>2, <1>5 DEF Holds, WorkerSame
<1>7. Refs' /\ \A x \in Services : Referred(x)' <=> Referred(x)
  BY <1>2, <1>6, RefSame DEF IInv, Referred
<1>8. Lives' /\ Deaths'
  BY <1>1, <1>2, <1>5, <1>7, WorkerHolds, LivesSame DEF IInv, TypeOK, Deletes, WorkerSame
<1>9. Keeps /\ SamePlaced
  BY <1>2 DEF Keeps, In, SamePlaced, Belongs, WorkerSame
<1>10. PlaceInv'
  BY <1>2, <1>9, PlaceSame DEF IInv
<1>11. Filled'
  BY <1>2, <1>9 DEF IInv, TypeOK, Filled, SamePlaced, WorkerSame
<1> QED BY <1>4, <1>7, <1>8, <1>10, <1>11 DEF IInv
\* The steps that only go to another place, or take a message out of hand.
LEMMA MovesKeep ==
    ASSUME IInv, UNCHANGED <<kernelVars, q, nq, subVars>>,
           NEW w \in Workers,
           \/ BatchLength(w) \/ CallbackEnds(w) \/ Sleep(w) \/ WakeUp(w)
           \/ WorkerQuits(w) \/ SpuriousWakeup(w)
    PROVE  IInv'
<1>1. PICK place \in Using \cup {"loop", "waiting", "woken", "stopped"} :
          /\ pc' = [pc EXCEPT ![w] = place]
          /\ place \in Using <=> pc[w] \in Using
          /\ pc[w] # "back" /\ place # "back"
          /\ place \notin {"first", "grab", "gone"}
          /\ \/ cur' = cur /\ (place \in {"length", "run"} <=> pc[w] \in {"length", "run"})
             \/ cur' = [cur EXCEPT ![w] = Nil] /\ place \notin {"length", "run"}
  <2>1. CASE BatchLength(w)
    BY <2>1 DEF BatchLength, Goto, Using
  <2>2. CASE CallbackEnds(w)
    <3>1. /\ pc' = [pc EXCEPT ![w] = "pop"] \/ pc' = [pc EXCEPT ![w] = "end"]
          /\ pc[w] = "run" /\ cur' = [cur EXCEPT ![w] = Nil]
      BY <2>2 DEF CallbackEnds, InCallback, Goto
    <3> QED BY <3>1 DEF Using
  <2>3. CASE Sleep(w)
    <3>1. /\ pc' = [pc EXCEPT ![w] = "loop"] \/ pc' = [pc EXCEPT ![w] = "waiting"]
          /\ pc[w] = "lock" /\ cur' = cur
      BY <2>3 DEF Sleep, Goto
    <3> QED BY <3>1 DEF Using
  <2>4. CASE WakeUp(w) \/ WorkerQuits(w) \/ SpuriousWakeup(w)
    BY <2>4 DEF WakeUp, WorkerQuits, SpuriousWakeup, Goto, Using
  <2> QED BY <2>1, <2>2, <2>3, <2>4
<1>2. TypeOK'
  BY <1>1 DEF IInv, TypeOK, kernelVars, subVars
<1>3. Loops'
  BY <1>1, NilIsNoService DEF IInv, TypeOK, Loops, Using
<1>4. \A v \in Workers : pc'[v] \in Using <=> pc[v] \in Using
  BY <1>1 DEF IInv, TypeOK
<1> QED BY <1>2, <1>3, <1>4, Quiet DEF kernelVars, subVars

\* The timer and the socket thread wake workers, one or all.
LEMMA WakingKeeps ==
    ASSUME IInv, TimerWakeup \/ SocketWakeup \/ TimerQuits
    PROVE  IInv'
<1>1. /\ UNCHANGED <<slot, ref, ctx, mq, queue, release, in_global, globalmq, q, nq, cur,
                     subVars>>
      /\ pc' \in [Workers -> Using \cup {"loop", "grab", "gone", "next", "lock", "waiting",
                                         "woken", "stopped"}]
      /\ \A v \in Workers : pc'[v] = pc[v] \/ (pc[v] = "waiting" /\ pc'[v] = "woken")
  <2>1. CASE TimerQuits
    BY <2>1 DEF TimerQuits, IInv, TypeOK
  <2>2. CASE TimerWakeup \/ SocketWakeup
    BY <2>2 DEF TimerWakeup, SocketWakeup, Wakeup, Goto, kernelVars, IInv, TypeOK
  <2> QED BY <2>1, <2>2
<1>2. TypeOK' /\ Loops'
  BY <1>1 DEF IInv, TypeOK, Loops, Using, subVars
<1>3. \A v \in Workers : pc'[v] \in Using <=> pc[v] \in Using
  BY <1>1 DEF Using
<1> QED BY <1>1, <1>2, <1>3, Quiet DEF subVars

LEMMA BatchEndsKeeps ==
    ASSUME IInv, NEW w \in Workers, BatchEnds(w)
    PROVE  IInv'
<1>1. PICK s \in Services : q[w] = s
  BY DEF IInv, TypeOK, Loops, BatchEnds, Using
<1>2. /\ pc[w] = "end" /\ rel[w] = NoCall /\ WorkerSame /\ nq[w] = Nil
      /\ UNCHANGED <<ref, queue, in_global, q, cur, drop>>
  BY DEF BatchEnds, InLoop, Free, WorkerSame, IInv, Loops
<1>3. pc[w] \in Using /\ w \in Threads
  BY <1>2 DEF Using, Threads
<1>4. CASE /\ rel' = [rel EXCEPT ![w] = Call(s, "dec")]
           /\ pc' = [pc EXCEPT ![w] = "loop"] /\ UNCHANGED <<globalmq, nq>>
  <2>1. TypeOK' /\ Loops'
    BY <1>1, <1>2, <1>4 DEF IInv, TypeOK, Loops, Using, WorkerSame
  <2>2. "rel" \in Kinds /\ ~Holds("rel", w, s) /\ HandsOn(s, "work", w, "rel", w)
    BY <1>1, <1>2, <1>3, <1>4 DEF IInv, TypeOK, Holds, HandsOn, Kinds, Using, WorkerSame
  <2>3. Refs'
    BY <1>1, <1>2, <1>3, <2>2, WorkerHolds, RefMove DEF IInv
  <2>4. \A x \in Services : Referred(x)' => Referred(x)
    BY <1>1, <1>3, <2>2, WorkerHolds DEF Referred, HandsOn
  <2>5. Lives' /\ Deaths'
    BY <1>2, <1>3, <1>4, <2>4, LivesSame DEF IInv, TypeOK, Deletes, WorkerSame
  <2>6. Keeps /\ SamePlaced
    BY <1>2, <1>4 DEF Keeps, In, SamePlaced, Belongs, WorkerSame
  <2>7. PlaceInv' /\ Filled'
    BY <1>2, <1>4, <2>6, PlaceSame DEF IInv, SamePlaced, Filled, WorkerSame
  <2> QED BY <2>1, <2>3, <2>5, <2>7 DEF IInv
<1>5. CASE /\ globalmq # <<>> /\ globalmq' = Tail(globalmq)
           /\ nq' = [nq EXCEPT ![w] = Head(globalmq)]
           /\ pc' = [pc EXCEPT ![w] = "back"] /\ UNCHANGED rel
  <2>1. Head(globalmq) \in Services /\ Tail(globalmq) \in Seq(Services)
    BY <1>5, TailHas DEF IInv, TypeOK
  <2>2. TypeOK' /\ Loops'
    BY <1>1, <1>2, <1>5, <2>1, NilIsNoService DEF IInv, TypeOK, Loops, Using, WorkerSame
  <2>3. \A k \in Kinds, t \in Threads, x \in Services : Holds(k, t, x)' <=> Holds(k, t, x)
    BY <1>2, <1>5 DEF IInv, TypeOK, Holds, Using, WorkerSame
  <2>4. Refs' /\ \A x \in Services : Referred(x)' <=> Referred(x)
    BY <1>2, <2>3, RefSame DEF IInv, Referred
  <2>5. Lives' /\ Deaths'
    BY <1>2, <1>5, <2>4, LivesSame DEF IInv, Deletes, WorkerSame
  <2>6. "nq" \in Hands /\ Comes(Head(globalmq), "nq", w) /\ SamePlaced
    BY <1>2, <1>5, NilIsNoService
       DEF IInv, TypeOK, Comes, In, Hands, SamePlaced, Belongs, WorkerSame
  <2>7. PlaceInv'
    BY <1>3, <1>5, <2>6, PlaceTake DEF IInv, TypeOK
  <2> QED BY <1>2, <2>2, <2>4, <2>5, <2>7 DEF IInv, Filled, Belongs, WorkerSame
<1> QED BY <1>1, <1>4, <1>5 DEF BatchEnds, Goto, Release

LEMMA PushBackKeeps ==
    ASSUME IInv, NEW w \in Workers, PushBack(w)
    PROVE  IInv'
<1>1. PICK s \in Services : q[w] = s
  BY DEF IInv, TypeOK, Loops, PushBack, Using
<1>2. /\ pc[w] = "back" /\ rel[w] = NoCall /\ WorkerSame
      /\ globalmq' = Append(globalmq, s)
      /\ rel' = [rel EXCEPT ![w] = Call(s, "dec")]
      /\ q' = [q EXCEPT ![w] = nq[w]] /\ nq' = [nq EXCEPT ![w] = Nil]
      /\ pc' = [pc EXCEPT ![w] = "loop"]
      /\ UNCHANGED <<ref, queue, in_global, cur, drop>>
  BY <1>1 DEF PushBack, InLoop, Free, Release, Goto, WorkerSame
<1>3. pc[w] \in Using /\ w \in Threads
  BY <1>2 DEF Using, Threads
<1>4. TypeOK' /\ Loops'
  <2>1. globalmq' \in Seq(Services)
    BY <1>2, AppendHas DEF IInv, TypeOK
  <2> QED BY <1>1, <1>2, <2>1 DEF IInv, TypeOK, Loops, Using, WorkerSame
<1>5. "rel" \in Kinds /\ ~Holds("rel", w, s) /\ HandsOn(s, "work", w, "rel", w)
  BY <1>1, <1>2, <1>3 DEF IInv, TypeOK, Holds, HandsOn, Kinds, Using, WorkerSame
<1>6. Refs'
  BY <1>1, <1>2, <1>3, <1>5, WorkerHolds, RefMove DEF IInv
<1>7. \A x \in Services : Referred(x)' => Referred(x)
  BY <1>1, <1>3, <1>5, WorkerHolds DEF Referred, HandsOn
<1>8. Lives' /\ Deaths'
  BY <1>2, <1>3, <1>7, LivesSame DEF IInv, TypeOK, Deletes, WorkerSame
<1>9. SamePlaced
  BY <1>2 DEF SamePlaced, Belongs, WorkerSame
<1>10. Swaps(s, w)
  BY <1>1, <1>2, <1>3, WorkerHolds, NilIsNoService
     DEF IInv, TypeOK, Swaps, In, Hands, WorkerSame
<1>11. PlaceInv'
  BY <1>1, <1>2, <1>3, <1>9, <1>10, WorkerHolds, PlaceSwap DEF IInv, TypeOK
<1>12. Filled'
  BY <1>2 DEF IInv, Filled, Belongs, WorkerSame
<1> QED BY <1>4, <1>6, <1>8, <1>11, <1>12 DEF IInv
-----------------------------------------------------------------------------
LEMMA InitIInv == Init => IInv
<1> SUFFICES ASSUME Init PROVE IInv
  OBVIOUS
<1>1. TypeOK /\ Loops
  BY DispatchAssumption DEF Init, TypeOK, Loops, Memory, Using
<1>2. Boot \in Services /\ Timer \in Threads
  BY DispatchAssumption, TimerIsThread
<1>3. \A k \in Kinds, t \in Threads, s \in Services :
          Holds(k, t, s) <=> k = "table" /\ t = Timer /\ s = Boot
  BY DEF Init, Holds, Threads
<1>4. Refs
  <2>1. Holders(Boot) = {<<"table", Timer>>} /\ ref[Boot] = 1
    BY <1>2, <1>3 DEF Holders, Kinds, Init
  <2>2. \A s \in Services : s # Boot => Holders(s) = {} /\ ref[s] = 0
    BY <1>3 DEF Holders, Init
  <2>3. IsFiniteSet(Holders(Boot)) /\ Cardinality(Holders(Boot)) = 1
    BY <2>1, FS_Singleton
  <2>4. \A s \in Services : s # Boot => /\ IsFiniteSet(Holders(s))
                                        /\ Cardinality(Holders(s)) = 0
    BY <2>2, FS_EmptySet
  <2> QED BY <2>1, <2>2, <2>3, <2>4 DEF Refs
<1>5. \A s \in Services : Referred(s) => s = Boot
  BY <1>3 DEF Referred
<1>6. Lives /\ Deaths
  BY <1>5 DEF Init, Lives, Deaths, Deletes
<1>7. \A s : Has(globalmq, s) <=> s = Boot
  BY DEF Init, Has
<1>8. \A k \in Hands, t \in Threads, s \in Services : ~In(k, t, s)
  BY DEF Init, In, Threads
<1>9. \A s \in Services : Belongs(s) <=> s = Boot
  BY <1>2 DEF Init, Belongs
<1>10. PlaceInv
  BY <1>7, <1>8, <1>9 DEF Init, PlaceInv, Distinct, OnePlace, Placed, InHand
<1>11. Filled
  BY DEF Init, Filled
<1> QED BY <1>1, <1>4, <1>6, <1>10, <1>11 DEF IInv

LEMMA StepKeeps == ASSUME IInv, [Next]_vars PROVE IInv'
<1>1. CASE \E t \in Threads : ReleaseStep(t)
  BY <1>1, ReleaseDecKeeps, ReleaseMarkKeeps, ReleaseFreeKeeps DEF ReleaseStep
<1>2. CASE \E t \in Threads : SendPush(t) \/ DropStep(t)
  BY <1>2, SendPushKeeps, DropOneKeeps, DropEndKeeps DEF DropStep
<1>3. CASE \E w \in Workers : LaunchStep(w)
  BY <1>3, LaunchDoneKeeps, LaunchFailsKeeps, LaunchRetireKeeps, LaunchMqReleaseKeeps
     DEF LaunchStep
<1>4. CASE \E w \in Workers : DispatchStep(w) \/ SpuriousWakeup(w)
  <2>1. PICK w \in Workers : DispatchStep(w) \/ SpuriousWakeup(w)
    BY <1>4
  <2>2. CASE \/ BatchLength(w) \/ CallbackEnds(w) \/ Sleep(w) \/ WakeUp(w)
             \/ WorkerQuits(w) \/ SpuriousWakeup(w)
    <3>1. UNCHANGED <<kernelVars, q, nq, subVars>>
      BY <2>2 DEF BatchLength, CallbackEnds, Sleep, WakeUp, WorkerQuits, SpuriousWakeup
    <3> QED BY <2>2, <3>1, MovesKeep
  <2>3. CASE PopGlobal(w) \/ DispatchGrab(w) \/ DispatchGone(w) \/ DispatchMqRelease(w)
    BY <2>3, PopGlobalKeeps, DispatchGrabKeeps, DispatchGoneKeeps, DispatchMqReleaseKeeps
  <2>4. CASE PopEmpty(w) \/ PopMessage(w) \/ BatchEnds(w) \/ PushBack(w)
    BY <2>4, PopEmptyStep, PopMessageKeeps, BatchEndsKeeps, PushBackKeeps
  <2> QED BY <2>1, <2>2, <2>3, <2>4 DEF DispatchStep
<1>5. CASE \E t \in Threads, m \in Msgs, s \in Services : SendGrab(t, m, s)
  BY <1>5, SendGrabKeeps
<1>6. CASE \E w \in Workers, s \in Services : Kill(w, s) \/ LaunchBegin(w, s)
  BY <1>6, KillKeeps, LaunchBeginKeeps
<1>7. CASE TimerWakeup \/ SocketWakeup \/ TimerQuits
  BY <1>7, WakingKeeps
<1>8. CASE UNCHANGED vars
  <2>1. TypeOK' /\ Loops'
    BY <1>8 DEF vars, kernelVars, workerVars, subVars, IInv, TypeOK, Loops
  <2> QED BY <1>8, <2>1, Quiet DEF vars, kernelVars, workerVars, subVars
<1> QED BY <1>1, <1>2, <1>3, <1>4, <1>5, <1>6, <1>7, <1>8 DEF Next, Step, Joined

LEMMA Invariance == Spec => []IInv
<1>1. IInv /\ [Next]_vars => IInv'
  BY StepKeeps
<1> QED BY InitIInv, <1>1, PTL DEF Spec
-----------------------------------------------------------------------------
\* The kernel's variables keep their types: no list is corrupted, for any number of
\* services and threads.
THEOREM TypeCorrect == Spec => []TypeOK
<1>1. IInv => TypeOK
  BY DEF IInv
<1> QED BY <1>1, Invariance, PTL

\* skynet_mq.c links a queue once, or one thread has it: no assertion of
\* skynet_globalmq_push fails, and no two workers run one service.
THEOREM QueuesInOnePlace == Spec => []QueueInOnePlace
<1>1. IInv => QueueInOnePlace
  <2> SUFFICES ASSUME IInv PROVE QueueInOnePlace
    OBVIOUS
  <2>1. \A i, j \in DOMAIN globalmq : globalmq[i] = globalmq[j] => i = j
    BY DEF IInv, PlaceInv, Distinct
  <2>2. \A s \in Services, t \in Threads : Held(t, s) => \E k \in Hands : In(k, t, s)
    BY DEF Held, In, Hands
  <2>3. ASSUME NEW s \in Services, NEW t \in Threads, NEW u \in Threads, Held(t, s)
        PROVE  ~Queued(s) /\ (Held(u, s) => t = u)
    BY <2>2, <2>3 DEF IInv, PlaceInv, OnePlace, Queued, Has
  <2>4. ASSUME NEW w \in Workers, q[w] = nq[w], q[w] # Nil PROVE FALSE
    <3>1. PICK s \in Services : q[w] = s
      BY <2>4 DEF IInv, TypeOK
    <3>2. In("q", w, s) /\ In("nq", w, s) /\ "q" \in Hands /\ "nq" \in Hands /\ w \in Threads
      BY <2>4, <3>1 DEF In, Hands, Threads
    <3> QED BY <3>2 DEF IInv, PlaceInv, OnePlace
  <2> QED BY <2>1, <2>3, <2>4 DEF QueueInOnePlace
<1> QED BY <1>1, Invariance, PTL

\* The protocol of in_global between push, pop, mark and release strands no queue.
THEOREM QueuesAreFound == Spec => []NoneStranded
<1>1. IInv => NoneStranded
  <2> SUFFICES ASSUME IInv, NEW s \in Services, mq[s] = "live",
                      queue[s] # <<>> \/ release[s]
               PROVE  Queued(s) \/ \E t \in Threads : Held(t, s)
    BY DEF NoneStranded
  <2>1. Belongs(s)
    BY DEF IInv, Filled, Belongs
  <2>2. Has(globalmq, s) \/ InHand(s)
    BY <2>1 DEF IInv, PlaceInv, Placed
  <2> QED BY <2>2 DEF Has, Queued, InHand, In, Held
<1> QED BY <1>1, Invariance, PTL

\* Counting references is enough: whoever uses a context or a queue finds it alive, though
\* any thread may drop the last reference at any moment.
THEOREM MemoryIsAlive == Spec => []NoUseAfterFree
<1>1. IInv => NoUseAfterFree
  <2> SUFFICES ASSUME IInv, NEW s \in Services
               PROVE  /\ slot[s] = "taken" => ctx[s] = "live"
                      /\ \A t \in Threads : UsesContext(t, s) =>
                            ctx[s] = "live" /\ (mq[s] = "live" \/ rel[t] = Call(s, "free"))
                      /\ Queued(s) \/ (\E t \in Threads : Held(t, s)) => mq[s] = "live"
    BY DEF NoUseAfterFree
  <2>1. slot[s] = "taken" => Referred(s)
    BY TimerIsThread DEF Referred, Holds, Kinds
  <2>2. ASSUME NEW t \in Threads, UsesContext(t, s)
        PROVE  Referred(s) \/ Deletes(t, s)
    <3>1. CASE rel[t].svc = s
      <4>1. rel[t].at \in {"dec", "mark", "free"}
        BY <3>1 DEF IInv, TypeOK
      <4> QED BY <3>1, <4>1 DEF Referred, Holds, Kinds, Deletes
    <3>2. CASE rel[t].svc # s
      BY <2>2, <3>2 DEF UsesContext, Referred, Holds, Kinds, Using
    <3> QED BY <3>1, <3>2
  <2>3. Referred(s) => ctx[s] = "live" /\ mq[s] = "live"
    BY DEF IInv, Lives
  <2>4. ASSUME NEW t \in Threads, Deletes(t, s)
        PROVE  ctx[s] = "live" /\ (mq[s] = "live" \/ rel[t] = Call(s, "free"))
    BY <2>4 DEF IInv, TypeOK, Deaths, Deletes
  <2>5. Queued(s) \/ (\E t \in Threads : Held(t, s)) => mq[s] = "live"
    BY DEF IInv, PlaceInv, Placed, Belongs, Queued, Has, Held, InHand, In, Hands
  <2> QED BY <2>1, <2>2, <2>3, <2>4, <2>5
<1> QED BY <1>1, Invariance, PTL
(* The kernel implements Actors. *)

\* The message that is served is the one that a worker, and only one, serves.
ServingRight == \A s \in Services :
    /\ \A w \in Workers : Runs(w, s) => serving[s] = cur[w]
    /\ (\A w \in Workers : ~Runs(w, s)) => serving[s] = Nil

LEMMA ServingIs == IInv => ServingRight
<1> SUFFICES ASSUME IInv, NEW s \in Services
             PROVE  /\ \A w \in Workers : Runs(w, s) => serving[s] = cur[w]
                    /\ (\A w \in Workers : ~Runs(w, s)) => serving[s] = Nil
  BY DEF ServingRight
<1>1. ASSUME NEW v \in Workers, NEW w \in Workers, Runs(v, s), Runs(w, s) PROVE v = w
  <2>1. In("q", v, s) /\ In("q", w, s) /\ "q" \in Hands /\ v \in Threads /\ w \in Threads
    BY <1>1 DEF Runs, In, Hands, Threads
  <2> QED BY <2>1 DEF IInv, PlaceInv, OnePlace
<1>2. ASSUME NEW w \in Workers, Runs(w, s) PROVE serving[s] = cur[w]
  <2>1. (CHOOSE v \in Workers : Runs(v, s)) = w
    BY <1>1, <1>2
  <2> QED BY <1>2, <2>1 DEF serving
<1>3. (\A w \in Workers : ~Runs(w, s)) => serving[s] = Nil
  BY DEF serving
<1> QED BY <1>2, <1>3

LEMMA ServingWillBe == IInv' => ServingRight'
BY ServingIs, PTL

\* A worker that serves refers to its service.
LEMMA RunsRefers ==
    ASSUME IInv, NEW w \in Workers, NEW s \in Services, Runs(w, s)
    PROVE  Referred(s) /\ pc[w] \in {"length", "run"}
<1>1. pc[w] \in {"length", "run"} /\ q[w] = s
  BY DEF IInv, Loops, Runs
<1> QED BY <1>1, WorkerHolds DEF Using

LEMMA ServingSame ==
    ASSUME IInv, IInv', UNCHANGED cur,
           \A w \in Workers : q'[w] = q[w] \/ cur[w] = Nil
    PROVE  serving' = serving
<1>1. \A s \in Services, w \in Workers : Runs(w, s)' <=> Runs(w, s)
  BY DEF Runs
<1>2. \A s \in Services : serving'[s] = serving[s]
  BY <1>1, ServingIs, ServingWillBe DEF ServingRight
<1> QED BY <1>2 DEF serving

\* The life of a service changes with its slot and its mark only.
LEMMA LifeSame == ASSUME UNCHANGED <<slot, release>> PROVE life' = life
BY DEF life

LEMMA Stutters ==
    ASSUME IInv, IInv', UNCHANGED <<slot, release, queue, send, cur>>,
           \A w \in Workers : q'[w] = q[w] \/ cur[w] = Nil
    PROVE  UNCHANGED A!vars
BY ServingSame, LifeSame DEF A!vars

LEMMA MapsLaunchBegin ==
    ASSUME IInv, IInv', NEW w \in Workers, NEW s \in Services, LaunchBegin(w, s)
    PROVE  A!Open(s)
<1>1. /\ slot[s] = "free" /\ slot' = [slot EXCEPT ![s] = "taken"]
      /\ UNCHANGED <<release, queue, send, q, cur>>
  BY DEF LaunchBegin, workerVars
<1>2. life[s] = "none" /\ life' = [life EXCEPT ![s] = "open"]
  <2>1. \A x \in Services : life'[x] = IF x = s THEN "open" ELSE life[x]
    BY <1>1 DEF IInv, TypeOK, life
  <2>2. life[s] = "none"
    BY <1>1 DEF life
  <2> QED BY <2>1, <2>2 DEF life
<1>3. serving' = serving
  BY <1>1, ServingSame
<1> QED BY <1>1, <1>2, <1>3 DEF A!Open

LEMMA MapsRetire ==
    ASSUME IInv, IInv', NEW t \in Threads, NEW s \in Services, Retire(t, s),
           UNCHANGED <<release, queue, send, q, cur>>
    PROVE  A!Kill(s) \/ UNCHANGED A!vars
<1>1. CASE slot[s] = "taken"
  <2>1. slot' = [slot EXCEPT ![s] = "retired"]
    BY <1>1 DEF Retire
  <2>2. ~release[s]
    BY <1>1 DEF IInv, Lives
  <2>3. life[s] = "open" /\ life' = [life EXCEPT ![s] = "killed"]
    <3>1. \A x \in Services : life'[x] = IF x = s THEN "killed" ELSE life[x]
      BY <1>1, <2>1, <2>2 DEF IInv, TypeOK, life
    <3>2. life[s] = "open"
      BY <1>1 DEF life
    <3> QED BY <3>1, <3>2 DEF life
  <2> QED BY <2>3, ServingSame DEF A!Kill
<1>2. CASE slot[s] # "taken"
  BY <1>2, Stutters DEF Retire
<1> QED BY <1>1, <1>2

LEMMA MapsReleaseMark ==
    ASSUME IInv, IInv', NEW t \in Threads, ReleaseMark(t)
    PROVE  \E s \in Services : A!Close(s)
<1>1. PICK s \in Services : rel[t].svc = s /\ rel[t].at = "mark"
  BY DEF IInv, TypeOK, ReleaseMark
<1>2. /\ release' = [release EXCEPT ![s] = TRUE]
      /\ UNCHANGED <<slot, queue, send, q, cur>>
  BY <1>1 DEF ReleaseMark, workerVars
<1>3. slot[s] = "retired" /\ ~release[s] /\ ~Referred(s)
  BY <1>1 DEF IInv, Deaths, Deletes
<1>4. life[s] = "killed" /\ life' = [life EXCEPT ![s] = "closed"]
  BY <1>2, <1>3 DEF IInv, TypeOK, life
<1>5. serving[s] = Nil
  BY <1>3, RunsRefers, ServingIs DEF ServingRight
<1>6. \A u \in Threads : send[u].to # s
  BY <1>3 DEF Referred, Holds, Kinds
<1> QED BY <1>2, <1>4, <1>5, <1>6, ServingSame DEF A!Close

LEMMA MapsSendGrab ==
    ASSUME IInv, IInv', NEW t \in Threads, NEW id \in Msgs, NEW s \in Services,
           SendGrab(t, id, s)
    PROVE  UNCHANGED A!vars \/ \E m \in Message : A!Post(t, s, m)
<1> DEFINE m == [id |-> id, kind |-> "request", src |-> Source(t)]
<1>1. send[t] = NoSend /\ Source(t) \in Services \cup {Nil}
  BY DEF IInv, TypeOK, SendGrab, MaySend, InCallback, InInit, InLoop, InLaunch, Free,
         Source, Threads
<1>2. UNCHANGED <<slot, release, queue, q, cur>>
  BY DEF SendGrab, workerVars
<1>3. CASE send' = [send EXCEPT ![t] = Sending(s, m)] /\ slot[s] = "taken"
  <2>1. m \in Message
    BY <1>1 DEF Message
  <2>2. life[s] = "open"
    BY <1>3 DEF life
  <2>3. life' = life /\ serving' = serving
    BY <1>2, LifeSame, ServingSame
  <2>4. A!Post(t, s, m)
    BY <1>1, <1>2, <1>3, <2>2, <2>3 DEF A!Post, A!NoPost
  <2> QED BY <2>1, <2>4
<1>4. CASE UNCHANGED send
  BY <1>2, <1>4, Stutters
<1> QED BY <1>3, <1>4 DEF SendGrab, Grab

LEMMA MapsSendPush ==
    ASSUME IInv, IInv', NEW t \in Threads, SendPush(t)
    PROVE  \E s \in Services : A!Accept(t, s)
<1>1. PICK s \in Services, m \in Message : send[t] = Sending(s, m)
  BY DEF IInv, TypeOK, SendPush
<1>2. /\ queue' = [queue EXCEPT ![s] = Append(@, m)] /\ send' = [send EXCEPT ![t] = NoSend]
      /\ UNCHANGED <<slot, release, q, cur>>
  BY <1>1 DEF SendPush, workerVars
<1>3. life' = life /\ serving' = serving
  BY <1>2, LifeSame, ServingSame
<1>4. send[t].to = s /\ send[t].msg = m
  BY <1>1
<1> QED BY <1>2, <1>3, <1>4 DEF A!Accept, A!NoPost

LEMMA MapsPopMessage ==
    ASSUME IInv, IInv', NEW w \in Workers, PopMessage(w)
    PROVE  \E s \in Services : A!Begin(s)
<1>1. PICK s \in Services : q[w] = s
  BY DEF IInv, TypeOK, Loops, PopMessage, Using
<1>2. /\ pc[w] \in {"first", "pop"} /\ queue[s] # <<>>
      /\ cur' = [cur EXCEPT ![w] = Head(queue[s])]
      /\ queue' = [queue EXCEPT ![s] = Tail(@)]
      /\ UNCHANGED <<slot, release, send, q>>
  BY <1>1 DEF PopMessage, subVars
<1>3. Head(queue[s]) \in Message
  BY <1>2, HeadTailProperties DEF IInv, TypeOK
<1>4. /\ slot[s] # "free" /\ ~release[s]
      /\ \A k \in Hands, u \in Threads : In(k, u, s) => k = "q" /\ u = w
  BY <1>1, <1>2, WorkerHolds DEF Using
<1>5. life[s] \in {"open", "killed"}
  BY <1>4 DEF life
<1>6. cur[w] = Nil
  BY <1>2 DEF IInv, Loops
<1>7. \A v \in Workers : ~Runs(v, s)
  BY <1>4, <1>6 DEF Runs, In, Hands, Threads
<1>8. Runs(w, s)' /\ cur'[w] = Head(queue[s])
  BY <1>1, <1>2, <1>3, NilIsNoService DEF IInv, TypeOK, Runs
<1>9. \A x \in Services, v \in Workers : x # s => (Runs(v, x)' <=> Runs(v, x))
  BY <1>1, <1>2 DEF IInv, TypeOK, Runs
<1>10. \A v \in Workers : v # w => cur'[v] = cur[v]
  BY <1>2 DEF IInv, TypeOK
<1>11. \A x \in Services : x # s => serving'[x] = serving[x]
  <2> SUFFICES ASSUME NEW x \in Services, x # s PROVE serving'[x] = serving[x]
    OBVIOUS
  <2>1. CASE \E v \in Workers : Runs(v, x)
    <3>1. PICK v \in Workers : Runs(v, x)
      BY <2>1
    <3>2. v # w
      BY <1>1, <3>1 DEF Runs
    <3> QED BY <1>9, <1>10, <3>1, <3>2, ServingIs, ServingWillBe DEF ServingRight
  <2>2. CASE ~\E v \in Workers : Runs(v, x)
    BY <1>9, <2>2, ServingIs, ServingWillBe DEF ServingRight
  <2> QED BY <2>1, <2>2
<1>12. serving[s] = Nil /\ serving'[s] = Head(queue[s])
  BY <1>7, <1>8, ServingIs, ServingWillBe DEF ServingRight
<1>13. serving' = [serving EXCEPT ![s] = Head(queue[s])]
  BY <1>11, <1>12 DEF serving
<1> QED BY <1>2, <1>5, <1>12, <1>13, LifeSame DEF A!Begin

LEMMA MapsCallbackEnds ==
    ASSUME IInv, IInv', NEW w \in Workers, CallbackEnds(w)
    PROVE  \E s \in Services : A!End(s)
<1>1. PICK s \in Services : q[w] = s
  BY DEF IInv, TypeOK, Loops, CallbackEnds, InCallback, Using
<1>2. /\ pc[w] = "run" /\ cur' = [cur EXCEPT ![w] = Nil]
      /\ UNCHANGED <<slot, release, queue, send, q>>
  BY DEF CallbackEnds, InCallback, kernelVars, subVars
<1>3. Runs(w, s) /\ cur[w] # Nil
  BY <1>1, <1>2 DEF IInv, Loops, Runs
<1>4. \A k \in Hands, u \in Threads : In(k, u, s) => k = "q" /\ u = w
  BY <1>1, <1>2, WorkerHolds DEF Using
<1>5. \A v \in Workers : ~Runs(v, s)'
  BY <1>2, <1>4 DEF IInv, TypeOK, Runs, In, Hands, Threads
<1>6. \A x \in Services, v \in Workers : x # s =>
          /\ Runs(v, x)' <=> Runs(v, x)
          /\ Runs(v, x) => cur'[v] = cur[v]
  BY <1>1, <1>2 DEF IInv, TypeOK, Runs
<1>7. \A x \in Services : x # s => serving'[x] = serving[x]
  BY <1>6, ServingIs, ServingWillBe DEF ServingRight
<1>8. serving[s] # Nil /\ serving'[s] = Nil
  BY <1>3, <1>5, ServingIs, ServingWillBe DEF ServingRight
<1>9. serving' = [serving EXCEPT ![s] = Nil]
  BY <1>7, <1>8 DEF serving
<1> QED BY <1>2, <1>8, <1>9, LifeSame DEF A!End

LEMMA MapsDropOne ==
    ASSUME IInv, IInv', NEW t \in Threads, DropOne(t)
    PROVE  \E s \in Services : A!Bounce(t, s)
<1>1. PICK s \in Services : drop[t] = s
  BY DEF IInv, TypeOK, DropOne, InDrop
<1>2. PICK m \in Message : m = Head(queue[s]) /\ queue[s] # <<>>
  BY <1>1, HeadTailProperties DEF IInv, TypeOK, DropOne
<1>3. /\ queue' = [queue EXCEPT ![s] = Tail(@)]
      /\ UNCHANGED <<slot, release, q, cur>>
      /\ send[t] = NoSend
  BY <1>1 DEF DropOne, InDrop, Free, workerVars
<1>4. life[s] = "closed"
  BY <1>1 DEF IInv, Lives, life
<1>5. send' = IF m.src # Nil /\ slot[m.src] = "taken"
              THEN [send EXCEPT ![t] = Sending(m.src, ErrorOf(s, m))] ELSE send
  BY <1>1, <1>2 DEF DropOne
<1>6. m.src # Nil /\ slot[m.src] = "taken" <=> m.src \in Services /\ life[m.src] = "open"
  BY NilIsNoService DEF Message, life
<1>7. life' = life /\ serving' = serving
  BY <1>3, LifeSame, ServingSame
<1>8. A!ErrorOf(s, m) = ErrorOf(s, m)
  BY DEF A!ErrorOf, ErrorOf
<1> QED BY <1>2, <1>3, <1>4, <1>5, <1>6, <1>7, <1>8 DEF A!Bounce, A!NoPost
LEMMA ActorsInit == Init => A!Init
<1> SUFFICES ASSUME Init PROVE A!Init
  OBVIOUS
<1>1. life \in [Services -> {"none", "open"}]
  BY DEF Init, life
<1>2. serving = [s \in Services |-> Nil]
  BY DEF Init, serving, Runs
<1> QED BY <1>1, <1>2 DEF Init, A!Init, A!NoPost

LEMMA ActorsStep == ASSUME IInv, IInv', [Next]_vars PROVE [A!Next]_(A!vars)
<1>1. CASE \E t \in Threads : ReleaseStep(t)
  <2>1. PICK t \in Threads : ReleaseStep(t)
    BY <1>1
  <2>2. CASE ReleaseMark(t)
    BY <2>2, MapsReleaseMark DEF A!Next
  <2>3. CASE ReleaseDec(t) \/ ReleaseFree(t)
    BY <2>3, Stutters DEF ReleaseDec, ReleaseFree, workerVars
  <2> QED BY <2>1, <2>2, <2>3 DEF ReleaseStep
<1>2. CASE \E t \in Threads : SendPush(t)
  BY <1>2, MapsSendPush DEF A!Next
<1>3. CASE \E t \in Threads : DropOne(t)
  BY <1>3, MapsDropOne DEF A!Next
<1>4. CASE \E t \in Threads : DropEnd(t)
  BY <1>4, Stutters DEF DropEnd, workerVars
<1>5. CASE \E w \in Workers : LaunchStep(w)
  <2>1. PICK w \in Workers : LaunchStep(w)
    BY <1>5
  <2>2. CASE LaunchDone(w) \/ LaunchFails(w) \/ LaunchMqRelease(w)
    BY <2>2, Stutters DEF LaunchDone, LaunchFails, LaunchMqRelease, workerVars, kernelVars
  <2>3. CASE LaunchRetire(w)
    <3>1. launch[w].svc \in Services /\ w \in Threads
      BY <2>3, LaunchOf DEF IInv, LaunchRetire
    <3>2. A!Kill(launch[w].svc) \/ UNCHANGED A!vars
      BY <2>3, <3>1, MapsRetire DEF LaunchRetire, workerVars
    <3> QED BY <3>1, <3>2 DEF A!Next
  <2> QED BY <2>1, <2>2, <2>3 DEF LaunchStep
<1>6. CASE \E w \in Workers : DispatchStep(w) \/ SpuriousWakeup(w)
  <2>1. PICK w \in Workers : DispatchStep(w) \/ SpuriousWakeup(w)
    BY <1>6
  <2>2. CASE PopMessage(w)
    BY <2>2, MapsPopMessage DEF A!Next
  <2>3. CASE CallbackEnds(w)
    BY <2>3, MapsCallbackEnds DEF A!Next
  <2>4. CASE \/ BatchLength(w) \/ Sleep(w) \/ WakeUp(w) \/ WorkerQuits(w) \/ SpuriousWakeup(w)
             \/ DispatchGrab(w) \/ DispatchGone(w) \/ BatchEnds(w)
    <3>1. UNCHANGED <<slot, release, queue, send, cur, q>>
      BY <2>4 DEF BatchLength, Sleep, WakeUp, WorkerQuits, SpuriousWakeup, DispatchGrab,
                  DispatchGone, BatchEnds, kernelVars, subVars
    <3> QED BY <3>1, Stutters
  <2>5. CASE PopGlobal(w) \/ DispatchMqRelease(w) \/ PopEmpty(w) \/ PushBack(w)
    <3>1. /\ UNCHANGED <<slot, release, queue, send, cur>>
          /\ pc[w] \notin {"length", "run"}
          /\ \A v \in Workers : v # w => q'[v] = q[v]
      BY <2>5 DEF PopGlobal, DispatchMqRelease, PopEmpty, PushBack, subVars, IInv, TypeOK
    <3>2. cur[w] = Nil
      BY <3>1 DEF IInv, Loops
    <3> QED BY <3>1, <3>2, Stutters
  <2> QED BY <2>1, <2>2, <2>3, <2>4, <2>5 DEF DispatchStep
<1>7. CASE \E t \in Threads, m \in Msgs, s \in Services : SendGrab(t, m, s)
  BY <1>7, MapsSendGrab DEF A!Next
<1>8. CASE \E w \in Workers, s \in Services : Kill(w, s) \/ LaunchBegin(w, s)
  <2>1. PICK w \in Workers, s \in Services : Kill(w, s) \/ LaunchBegin(w, s)
    BY <1>8
  <2>2. CASE Kill(w, s)
    <3>1. A!Kill(s) \/ UNCHANGED A!vars
      BY <2>2, MapsRetire DEF Kill, workerVars, Threads
    <3> QED BY <3>1 DEF A!Next
  <2>3. CASE LaunchBegin(w, s)
    BY <2>3, MapsLaunchBegin DEF A!Next
  <2> QED BY <2>1, <2>2, <2>3
<1>9. CASE TimerWakeup \/ SocketWakeup \/ TimerQuits
  <2>1. UNCHANGED <<slot, release, queue, send, cur, q>>
    BY <1>9 DEF TimerWakeup, SocketWakeup, Wakeup, TimerQuits, kernelVars, subVars
  <2> QED BY <2>1, Stutters
<1>10. CASE UNCHANGED vars
  BY <1>10, Stutters DEF vars, kernelVars, workerVars, subVars
<1> QED BY <1>1, <1>2, <1>3, <1>4, <1>5, <1>6, <1>7, <1>8, <1>9, <1>10
        DEF Next, Step, DropStep, Joined

\* skynet_context_message_dispatch, skynet_send, _drop_queue and the rest give every service
\* what Actors states: one message at a time, in order, and an error for each that was
\* not served, whatever threads there are.
THEOREM KernelImplementsActors == Spec => ImplementsActors
<1>1. Init => A!Init
  BY ActorsInit
<1>2. IInv /\ IInv' /\ [Next]_vars => [A!Next]_(A!vars)
  BY ActorsStep
<1> QED BY <1>1, <1>2, Invariance, PTL DEF Spec, ImplementsActors, A!Spec
=============================================================================
