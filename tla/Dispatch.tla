------------------------------ MODULE Dispatch ------------------------------
(***************************************************************************)
(* The kernel of Skynet that runs the services: worker threads take        *)
(* message queues from a global queue and dispatch their messages to the   *)
(* services; any thread may send; services are launched and retired while  *)
(* others hold a reference to them; idle workers sleep on a condition that *)
(* the timer thread signals.  A step is one critical section of a lock or  *)
(* one atomic operation.                                                   *)
(*                                                                         *)
(* A service stands for its handle, its skynet_context and its queue: a    *)
(* handle is not given again (skynet_handle_register counts up).           *)
(*                                                                         *)
(* Left out: a context without a callback, which drops its messages        *)
(* without an error.  Every module sets one in its init function; a snlua  *)
(* service has none from the moment its script failed to load, and nobody  *)
(* but its launcher was told its handle by then.                           *)
(***************************************************************************)
EXTENDS Integers, Sequences, FiniteSets

CONSTANTS Services, Boot,    \* services; the one launched before the threads start
          Msgs,              \* the requests that are sent
          Workers, Others,   \* worker threads; the threads of the timer and the socket
          Timer,             \* the timer thread
          Weight,            \* the weight of a worker
          Nil                \* NULL, and the address 0

ASSUME DispatchAssumption ==
    /\ Boot \in Services
    /\ Workers \cap Others = {} /\ Timer \in Others
    /\ Weight \in [Workers -> Nat \cup {-1}]

Threads == Workers \cup Others
Message == [id : Msgs, kind : {"request", "error"}, src : Services \cup {Nil}]

ASSUME NilAssumption == Nil \notin Services \cup Message

VARIABLES
    slot,        \* the handle table: "free", "taken", "retired"
    ref,         \* ctx->ref
    ctx, mq,     \* the memory of the context and of its queue: "none", "live", "freed"
    queue,       \* the messages in a queue
    release,     \* q->release
    in_global,   \* q->in_global
    globalmq,    \* the global queue of queues
    total,       \* G_NODE.total
    quit,        \* m->quit
    used,        \* history: the requests that were sent
    \* threads
    pc, q, nq, cur, more,   \* a worker: its place, queue, next queue, message, and how
                            \* many messages of the batch come after it
    send,        \* skynet_send under way: the context is grabbed, the message not pushed
    rel,         \* skynet_context_release under way
    drop,        \* _drop_queue under way
    launch       \* skynet_context_new under way

kernelVars == <<slot, ref, ctx, mq, queue, release, in_global, globalmq, total, quit, used>>
workerVars == <<pc, q, nq, cur, more>>
subVars == <<send, rel, drop, launch>>
vars == <<kernelVars, workerVars, subVars>>

NoCall == [svc |-> Nil, at |-> "none"]
Call(s, at) == [svc |-> s, at |-> at]
NoSend == [to |-> Nil, msg |-> Nil]
Sending(s, m) == [to |-> s, msg |-> m]

\* A thread runs the innermost call first: release, send, drop, launch, its own loop.
Free(t) == rel[t] = NoCall /\ send[t] = NoSend
InDrop(t) == Free(t) /\ drop[t] # Nil
InLaunch(t) == Free(t) /\ drop[t] = Nil /\ launch[t] # NoCall
InLoop(w) == Free(w) /\ drop[w] = Nil /\ launch[w] = NoCall

\* m->sleep counts the workers from their ++sleep to their --sleep.
sleep == Cardinality({w \in Workers : pc[w] \in {"waiting", "woken"}})
-----------------------------------------------------------------------------
Init ==
    /\ slot = [s \in Services |-> IF s = Boot THEN "taken" ELSE "free"]
    /\ ref = [s \in Services |-> IF s = Boot THEN 1 ELSE 0]
    /\ ctx = [s \in Services |-> IF s = Boot THEN "live" ELSE "none"]
    /\ mq = ctx
    /\ queue = [s \in Services |-> <<>>]
    /\ release = [s \in Services |-> FALSE]
    /\ in_global = [s \in Services |-> s = Boot]
    /\ globalmq = <<Boot>>
    /\ total = 1 /\ quit = FALSE /\ used = {}
    /\ pc = [w \in Workers |-> "loop"]
    /\ q = [w \in Workers |-> Nil] /\ nq = q /\ cur = q
    /\ more = [w \in Workers |-> 0]
    /\ send = [t \in Threads |-> NoSend]
    /\ rel = [t \in Threads |-> NoCall]
    /\ drop = [t \in Threads |-> Nil]
    /\ launch = [t \in Threads |-> NoCall]
-----------------------------------------------------------------------------
(* Handles, contexts and queues. *)

\* skynet_handle_grab found the service.
Grab(s) == /\ slot[s] = "taken"
           /\ ref' = [ref EXCEPT ![s] = @ + 1]

\* The thread goes on with skynet_context_release(s).
Release(t, s) == rel' = [rel EXCEPT ![t] = Call(s, "dec")]

\* skynet_context_release: the last one deletes the context.
ReleaseDec(t) ==
    LET s == rel[t].svc
    IN /\ rel[t].at = "dec"
       /\ ref' = [ref EXCEPT ![s] = @ - 1]
       /\ rel' = [rel EXCEPT ![t] = IF ref[s] = 1 THEN Call(s, "mark") ELSE NoCall]
       /\ UNCHANGED <<slot, ctx, mq, queue, release, in_global, globalmq, total, quit, used,
                      workerVars, send, drop, launch>>

\* variant: the queue is marked and left where nobody looks.
ReleaseMarkOnly(t) ==
    LET s == rel[t].svc
    IN /\ rel[t].at = "mark"
       /\ release' = [release EXCEPT ![s] = TRUE]
       /\ rel' = [rel EXCEPT ![t] = Call(s, "free")]
       /\ UNCHANGED <<slot, ref, ctx, mq, queue, in_global, globalmq, total, quit, used,
                      workerVars, send, drop, launch>>

\* skynet_mq_mark_release, called by delete_context.
ReleaseMark(t) ==
    LET s == rel[t].svc
    IN /\ rel[t].at = "mark"
       /\ release' = [release EXCEPT ![s] = TRUE]
       /\ globalmq' = IF in_global[s] THEN globalmq ELSE Append(globalmq, s)
       /\ rel' = [rel EXCEPT ![t] = Call(s, "free")]
       /\ UNCHANGED <<slot, ref, ctx, mq, queue, in_global, total, quit, used,
                      workerVars, send, drop, launch>>

\* The end of delete_context: skynet_free and context_dec.
ReleaseFree(t) ==
    LET s == rel[t].svc
    IN /\ rel[t].at = "free"
       /\ ctx' = [ctx EXCEPT ![s] = "freed"]
       /\ total' = total - 1
       /\ rel' = [rel EXCEPT ![t] = NoCall]
       /\ UNCHANGED <<slot, ref, mq, queue, release, in_global, globalmq, quit, used,
                      workerVars, send, drop, launch>>

\* skynet_handle_retire, up to its skynet_context_release.
Retire(t, s) ==
    IF slot[s] = "taken"
    THEN slot' = [slot EXCEPT ![s] = "retired"] /\ Release(t, s)
    ELSE UNCHANGED <<slot, rel>>

\* skynet_mq_push under the grabbed reference, then its release.
SendPush(t) ==
    LET s == send[t].to
    IN /\ rel[t] = NoCall /\ send[t] # NoSend
       /\ queue' = [queue EXCEPT ![s] = Append(@, send[t].msg)]
       /\ in_global' = [in_global EXCEPT ![s] = TRUE]
       /\ globalmq' = IF in_global[s] THEN globalmq ELSE Append(globalmq, s)
       /\ send' = [send EXCEPT ![t] = NoSend]
       /\ Release(t, s)
       /\ UNCHANGED <<slot, ref, ctx, mq, release, total, quit, used,
                      workerVars, drop, launch>>

\* drop_message: PTYPE_ERROR in the name of s.
ErrorOf(s, m) == [id |-> m.id, kind |-> "error", src |-> s]

\* variant: the messages of a dead service are dropped without a word.
DropOneSilent(t) ==
    /\ InDrop(t) /\ queue[drop[t]] # <<>>
    /\ queue' = [queue EXCEPT ![drop[t]] = Tail(@)]
    /\ UNCHANGED <<slot, ref, ctx, mq, release, in_global, globalmq, total, quit, used,
                   workerVars, send, rel, drop, launch>>

\* _drop_queue: one message after another goes back as an error, if its source is there.
\* No other thread reaches this queue, so its pop needs no step of its own.
DropOne(t) ==
    /\ InDrop(t) /\ queue[drop[t]] # <<>>
    /\ queue' = [queue EXCEPT ![drop[t]] = Tail(@)]
    /\ \E m \in {Head(queue[drop[t]])} :
           IF m.src # Nil /\ slot[m.src] = "taken"
           THEN /\ Grab(m.src)
                /\ send' = [send EXCEPT ![t] = Sending(m.src, ErrorOf(drop[t], m))]
           ELSE UNCHANGED <<ref, send>>
    /\ UNCHANGED <<slot, ctx, mq, release, in_global, globalmq, total, quit, used,
                   workerVars, rel, drop, launch>>

\* The end of _drop_queue: the queue is freed.
DropEnd(t) ==
    /\ InDrop(t) /\ queue[drop[t]] = <<>>
    /\ in_global' = [in_global EXCEPT ![drop[t]] = FALSE]
    /\ mq' = [mq EXCEPT ![drop[t]] = "freed"]
    /\ drop' = [drop EXCEPT ![t] = Nil]
    /\ UNCHANGED <<slot, ref, ctx, queue, release, globalmq, total, quit, used,
                   workerVars, send, rel, launch>>

\* skynet_mq_release: drop the queue of a deleted context, or put it back for now.
MqRelease(t, s) ==
    IF release[s]
    THEN drop' = [drop EXCEPT ![t] = s] /\ UNCHANGED globalmq
    ELSE globalmq' = Append(globalmq, s) /\ UNCHANGED drop
-----------------------------------------------------------------------------
(* What a callback, an init function, the timer and the socket thread do. *)

\* On whose behalf a thread sends; the source of timer and socket messages is 0.
Source(t) == IF t \in Others THEN Nil
             ELSE IF launch[t] # NoCall THEN launch[t].svc ELSE q[t]

InCallback(w) == InLoop(w) /\ pc[w] = "run"
InInit(w) == InLaunch(w) /\ launch[w].at = "init"
MaySend(t) == IF t \in Others THEN Free(t) /\ ~quit ELSE InCallback(t) \/ InInit(t)

\* skynet_send: the target is grabbed, or the send is refused.
SendGrab(t, m, s) ==
    /\ MaySend(t) /\ m \notin used /\ slot[s] # "free"
    /\ used' = used \cup {m}
    /\ \/ /\ Grab(s)
          /\ send' = [send EXCEPT ![t] =
                         Sending(s, [id |-> m, kind |-> "request", src |-> Source(t)])]
       \/ slot[s] # "taken" /\ UNCHANGED <<ref, send>>
    /\ UNCHANGED <<slot, ctx, mq, queue, release, in_global, globalmq, total, quit,
                   workerVars, rel, drop, launch>>

\* KILL and EXIT: handle_exit.
Kill(w, s) ==
    /\ InCallback(w) /\ slot[s] = "taken"
    /\ Retire(w, s)
    /\ UNCHANGED <<ref, ctx, mq, queue, release, in_global, globalmq, total, quit, used,
                   workerVars, send, drop, launch>>

\* variant: the init function runs without a reference of its own.
LaunchBeginRef1(w, s) ==
    /\ InCallback(w) /\ slot[s] = "free"
    /\ slot' = [slot EXCEPT ![s] = "taken"]
    /\ ref' = [ref EXCEPT ![s] = 1]
    /\ ctx' = [ctx EXCEPT ![s] = "live"]
    /\ mq' = [mq EXCEPT ![s] = "live"]
    /\ in_global' = [in_global EXCEPT ![s] = TRUE]
    /\ total' = total + 1
    /\ launch' = [launch EXCEPT ![w] = Call(s, "init")]
    /\ UNCHANGED <<queue, release, globalmq, quit, used, workerVars, send, rel, drop>>

\* LAUNCH: skynet_context_new up to the init function.  Registering the handle and
\* creating the queue are one step: only skynet_handle_retireall could come between, it
\* gives back the reference of the table, and the second one keeps the context.
LaunchBegin(w, s) ==
    /\ InCallback(w) /\ slot[s] = "free"
    /\ slot' = [slot EXCEPT ![s] = "taken"]
    /\ ref' = [ref EXCEPT ![s] = 2]
    /\ ctx' = [ctx EXCEPT ![s] = "live"]
    /\ mq' = [mq EXCEPT ![s] = "live"]
    /\ in_global' = [in_global EXCEPT ![s] = TRUE]
    /\ total' = total + 1
    /\ launch' = [launch EXCEPT ![w] = Call(s, "init")]
    /\ UNCHANGED <<queue, release, globalmq, quit, used, workerVars, send, rel, drop>>

\* The init function succeeded: the queue goes to the global queue.
LaunchDone(w) ==
    /\ InInit(w)
    /\ globalmq' = Append(globalmq, launch[w].svc)
    /\ launch' = [launch EXCEPT ![w] = NoCall]
    /\ Release(w, launch[w].svc)
    /\ UNCHANGED <<slot, ref, ctx, mq, queue, release, in_global, total, quit, used,
                   workerVars, send, drop>>

\* It failed: release, retire the handle, then release or put back the queue.
LaunchFails(w) ==
    /\ InInit(w)
    /\ launch' = [launch EXCEPT ![w].at = "retire"]
    /\ Release(w, launch[w].svc)
    /\ UNCHANGED <<kernelVars, workerVars, send, drop>>

LaunchRetire(w) ==
    /\ InLaunch(w) /\ launch[w].at = "retire"
    /\ launch' = [launch EXCEPT ![w].at = "mqrelease"]
    /\ Retire(w, launch[w].svc)
    /\ UNCHANGED <<ref, ctx, mq, queue, release, in_global, globalmq, total, quit, used,
                   workerVars, send, drop>>

LaunchMqRelease(w) ==
    /\ InLaunch(w) /\ launch[w].at = "mqrelease"
    /\ MqRelease(w, launch[w].svc)
    /\ launch' = [launch EXCEPT ![w] = NoCall]
    /\ UNCHANGED <<slot, ref, ctx, mq, queue, release, in_global, total, quit, used,
                   workerVars, send, rel>>
-----------------------------------------------------------------------------
(* thread_worker and skynet_context_message_dispatch. *)

Goto(w, place) == pc' = [pc EXCEPT ![w] = place]

\* The loop condition, with a queue in hand or before the global queue is asked.
WorkerQuits(w) ==
    /\ InLoop(w) /\ pc[w] = "loop" /\ quit
    /\ Goto(w, "stopped")
    /\ UNCHANGED <<kernelVars, q, nq, cur, more, subVars>>

\* skynet_globalmq_pop without a queue in hand: at the start of a dispatch ("loop"), or at
\* its end ("next").  With nothing to do the worker goes to sleep.
PopGlobal(w) ==
    /\ InLoop(w) /\ q[w] = Nil
    /\ pc[w] = "next" \/ (pc[w] = "loop" /\ ~quit)
    /\ \/ /\ globalmq = <<>>
          /\ Goto(w, "lock")
          /\ UNCHANGED <<globalmq, q>>
       \/ /\ globalmq # <<>>
          /\ Goto(w, IF pc[w] = "loop" THEN "grab" ELSE "loop")
          /\ q' = [q EXCEPT ![w] = Head(globalmq)]
          /\ globalmq' = Tail(globalmq)
    /\ UNCHANGED <<slot, ref, ctx, mq, queue, release, in_global, total, quit, used,
                   nq, cur, more, subVars>>

AtGrab(w) == InLoop(w) /\ q[w] # Nil /\ (pc[w] = "grab" \/ (pc[w] = "loop" /\ ~quit))

DispatchGrab(w) ==
    /\ AtGrab(w)
    /\ Grab(q[w])
    /\ Goto(w, "first")
    /\ UNCHANGED <<slot, ctx, mq, queue, release, in_global, globalmq, total, quit, used,
                   q, nq, cur, more, subVars>>

DispatchGone(w) ==
    /\ AtGrab(w)
    /\ slot[q[w]] # "taken"
    /\ Goto(w, "gone")
    /\ UNCHANGED <<kernelVars, q, nq, cur, more, subVars>>

DispatchMqRelease(w) ==
    /\ InLoop(w) /\ pc[w] = "gone"
    /\ MqRelease(w, q[w])
    /\ q' = [q EXCEPT ![w] = Nil]
    /\ Goto(w, "next")
    /\ UNCHANGED <<slot, ref, ctx, mq, queue, release, in_global, total, quit, used,
                   nq, cur, more, send, rel, launch>>

\* variant: in_global stays set when the queue is found empty.
PopEmptyKeeps(w) ==
    /\ InLoop(w) /\ pc[w] \in {"first", "pop"} /\ queue[q[w]] = <<>>
    /\ Release(w, q[w])
    /\ q' = [q EXCEPT ![w] = Nil]
    /\ more' = [more EXCEPT ![w] = 0]
    /\ Goto(w, "next")
    /\ UNCHANGED <<slot, ref, ctx, mq, queue, release, in_global, globalmq, total, quit,
                   used, nq, cur, send, drop, launch>>

\* skynet_mq_pop.  An empty queue leaves the worker's hands, and in_global says so.
PopEmpty(w) ==
    /\ InLoop(w) /\ pc[w] \in {"first", "pop"} /\ queue[q[w]] = <<>>
    /\ in_global' = [in_global EXCEPT ![q[w]] = FALSE]
    /\ Release(w, q[w])
    /\ q' = [q EXCEPT ![w] = Nil]
    /\ more' = [more EXCEPT ![w] = 0]
    /\ Goto(w, "next")
    /\ UNCHANGED <<slot, ref, ctx, mq, queue, release, globalmq, total, quit, used,
                   nq, cur, send, drop, launch>>

PopMessage(w) ==
    /\ InLoop(w) /\ pc[w] \in {"first", "pop"} /\ queue[q[w]] # <<>>
    /\ cur' = [cur EXCEPT ![w] = Head(queue[q[w]])]
    /\ queue' = [queue EXCEPT ![q[w]] = Tail(@)]
    /\ Goto(w, IF pc[w] = "first" /\ Weight[w] >= 0 THEN "length" ELSE "run")
    /\ UNCHANGED <<slot, ref, ctx, mq, release, in_global, globalmq, total, quit, used,
                   q, nq, more, subVars>>

\* n = skynet_mq_length(q) >> weight; the message in hand is the first of the n.
BatchLength(w) ==
    LET n == Len(queue[q[w]]) \div (2 ^ Weight[w])
    IN /\ InLoop(w) /\ pc[w] = "length"
       /\ more' = [more EXCEPT ![w] = IF n > 1 THEN n - 1 ELSE 0]
       /\ Goto(w, "run")
       /\ UNCHANGED <<kernelVars, q, nq, cur, subVars>>

\* The callback returns.
CallbackEnds(w) ==
    /\ InCallback(w)
    /\ cur' = [cur EXCEPT ![w] = Nil]
    /\ more' = [more EXCEPT ![w] = IF @ > 0 THEN @ - 1 ELSE 0]
    /\ Goto(w, IF more[w] > 0 THEN "pop" ELSE "end")
    /\ UNCHANGED <<kernelVars, q, nq, subVars>>

\* The batch is over: another queue is taken, if there is one, before this one is put back.
BatchEnds(w) ==
    /\ InLoop(w) /\ pc[w] = "end"
    /\ \/ /\ globalmq = <<>>
          /\ Release(w, q[w])
          /\ Goto(w, "loop")
          /\ UNCHANGED <<globalmq, nq>>
       \/ /\ globalmq # <<>>
          /\ nq' = [nq EXCEPT ![w] = Head(globalmq)]
          /\ globalmq' = Tail(globalmq)
          /\ Goto(w, "back")
          /\ UNCHANGED rel
    /\ UNCHANGED <<slot, ref, ctx, mq, queue, release, in_global, total, quit, used,
                   q, cur, more, send, drop, launch>>

\* variant: the queue whose batch is over is not put back.
PushBackNot(w) ==
    /\ InLoop(w) /\ pc[w] = "back"
    /\ Release(w, q[w])
    /\ q' = [q EXCEPT ![w] = nq[w]]
    /\ nq' = [nq EXCEPT ![w] = Nil]
    /\ Goto(w, "loop")
    /\ UNCHANGED <<slot, ref, ctx, mq, queue, release, in_global, globalmq, total, quit,
                   used, cur, more, send, drop, launch>>

PushBack(w) ==
    /\ InLoop(w) /\ pc[w] = "back"
    /\ globalmq' = Append(globalmq, q[w])
    /\ Release(w, q[w])
    /\ q' = [q EXCEPT ![w] = nq[w]]
    /\ nq' = [nq EXCEPT ![w] = Nil]
    /\ Goto(w, "loop")
    /\ UNCHANGED <<slot, ref, ctx, mq, queue, release, in_global, total, quit, used,
                   cur, more, send, drop, launch>>

\* variant: quit is not read again under the mutex.
SleepAnyway(w) ==
    /\ InLoop(w) /\ pc[w] = "lock"
    /\ Goto(w, "waiting")
    /\ UNCHANGED <<kernelVars, q, nq, cur, more, subVars>>

\* ++sleep and pthread_cond_wait, in one critical section of m->mutex.
Sleep(w) ==
    /\ InLoop(w) /\ pc[w] = "lock"
    /\ Goto(w, IF quit THEN "loop" ELSE "waiting")
    /\ UNCHANGED <<kernelVars, q, nq, cur, more, subVars>>

\* The mutex is taken again and sleep counted down.
WakeUp(w) ==
    /\ InLoop(w) /\ pc[w] = "woken"
    /\ Goto(w, "loop")
    /\ UNCHANGED <<kernelVars, q, nq, cur, more, subVars>>
-----------------------------------------------------------------------------
(* thread_timer and thread_socket. *)

\* wakeup: pthread_cond_signal, which wakes a waiting worker, if there is one.
Wakeup(busy) ==
    /\ ~quit
    /\ sleep >= Cardinality(Workers) - busy
    /\ \E w \in Workers : pc[w] = "waiting" /\ Goto(w, "woken")
    /\ UNCHANGED <<kernelVars, q, nq, cur, more, subVars>>

\* One turn of the timer thread: a signal as soon as one worker sleeps.
TimerWakeup == Free(Timer) /\ total > 0 /\ Wakeup(Cardinality(Workers) - 1)

\* The socket thread signals when all of them sleep.
SocketWakeup == Wakeup(0)

\* CHECK_ABORT of the timer thread, then quit and pthread_cond_broadcast.
TimerQuits ==
    /\ Free(Timer) /\ total = 0 /\ ~quit
    /\ quit' = TRUE
    /\ pc' = [w \in Workers |-> IF pc[w] = "waiting" THEN "woken" ELSE pc[w]]
    /\ UNCHANGED <<slot, ref, ctx, mq, queue, release, in_global, globalmq, total, used,
                   q, nq, cur, more, subVars>>

\* A "spurious wakeup" is harmless, says thread_worker.
SpuriousWakeup(w) ==
    /\ pc[w] = "waiting"
    /\ Goto(w, "woken")
    /\ UNCHANGED <<kernelVars, q, nq, cur, more, subVars>>

\* pthread_join: all workers have returned.
Joined == (\A w \in Workers : pc[w] = "stopped") /\ UNCHANGED vars
-----------------------------------------------------------------------------
\* What a thread does by itself once it is under way.
ReleaseStep(t) == ReleaseDec(t) \/ ReleaseMark(t) \/ ReleaseFree(t)
DropStep(t) == DropOne(t) \/ DropEnd(t)
LaunchStep(w) == \/ LaunchDone(w) \/ LaunchFails(w) \/ LaunchRetire(w) \/ LaunchMqRelease(w)
DispatchStep(w) ==
    \/ WorkerQuits(w) \/ PopGlobal(w)
    \/ DispatchGrab(w) \/ DispatchGone(w) \/ DispatchMqRelease(w)
    \/ PopEmpty(w) \/ PopMessage(w) \/ BatchLength(w) \/ CallbackEnds(w)
    \/ BatchEnds(w) \/ PushBack(w) \/ Sleep(w) \/ WakeUp(w)

Step(t) == \/ ReleaseStep(t) \/ SendPush(t) \/ DropStep(t)
           \/ t \in Workers /\ (LaunchStep(t) \/ DispatchStep(t))

Next ==
    \/ \E t \in Threads : Step(t)
    \/ \E t \in Threads, m \in Msgs, s \in Services : SendGrab(t, m, s)
    \/ \E w \in Workers, s \in Services : Kill(w, s) \/ LaunchBegin(w, s)
    \/ TimerWakeup \/ SocketWakeup \/ TimerQuits
    \/ \E w \in Workers : SpuriousWakeup(w)
    \/ Joined

Spec == Init /\ [][Next]_vars

\* Threads are scheduled, callbacks and init functions return, the timer thread ticks.
FairSpec == /\ Spec
            /\ \A t \in Threads : WF_vars(Step(t))
            /\ WF_vars(TimerWakeup) /\ WF_vars(TimerQuits)
-----------------------------------------------------------------------------
(* Correctness. *)

\* Where a queue is: in the global queue, or with a thread.
Queued(s) == \E i \in DOMAIN globalmq : globalmq[i] = s
Held(t, s) == \/ t \in Workers /\ s \in {q[t], nq[t]}
              \/ drop[t] = s
              \/ launch[t].svc = s

\* A queue is in one place: linking it twice would break the global queue (the assertion
\* queue->next == NULL of skynet_globalmq_push), and two workers would run one service.
QueueInOnePlace ==
    /\ \A i, j \in DOMAIN globalmq : globalmq[i] = globalmq[j] => i = j
    /\ \A s \in Services, t, u \in Threads :
           Held(t, s) => ~Queued(s) /\ (Held(u, s) => t = u)
    /\ \A w \in Workers : q[w] = nq[w] => q[w] = Nil

\* A queue with messages, or one that is to be freed, is where a worker will find it: the
\* protocol of in_global between skynet_mq_push, _pop, _mark_release and _release.
NoneStranded ==
    \A s \in Services :
        mq[s] = "live" /\ (queue[s] # <<>> \/ release[s]) =>
            Queued(s) \/ \E t \in Threads : Held(t, s)

\* The threads that use the context of s through a reference of their own.
UsesContext(t, s) ==
    \/ rel[t].svc = s
    \/ send[t].to = s
    \/ launch[t] = Call(s, "init")
    \/ t \in Workers /\ q[t] = s /\ pc[t] \in {"first", "pop", "length", "run", "end", "back"}

\* Nobody uses a context or a queue that was freed: a context in the handle table or in
\* use is live with its queue (deleting it comes last, when its queue may be gone), and
\* a queue in some place is live.
NoUseAfterFree ==
    \A s \in Services :
        /\ slot[s] = "taken" => ctx[s] = "live"
        /\ \A t \in Threads : UsesContext(t, s) =>
               ctx[s] = "live" /\ (mq[s] = "live" \/ rel[t] = Call(s, "free"))
        /\ Queued(s) \/ (\E t \in Threads : Held(t, s)) => mq[s] = "live"

\* The mailbox of s is its queue, and it serves what a worker runs its callback with.
Runs(w, s) == q[w] = s /\ cur[w] # Nil
life == [s \in Services |-> IF slot[s] = "free" THEN "none"
                            ELSE IF slot[s] = "taken" THEN "open"
                            ELSE IF release[s] THEN "closed" ELSE "killed"]
serving == [s \in Services |->
               IF \E w \in Workers : Runs(w, s)
               THEN cur[CHOOSE w \in Workers : Runs(w, s)] ELSE Nil]
A == INSTANCE Actors WITH Messages <- Message, Senders <- Threads, mailbox <- queue,
                          posted <- send

\* With any number of workers, with services launched and killed while others send to
\* them, each service serves one message at a time in order, and what it does not serve
\* goes back to its sender.
ImplementsActors == A!Spec

InSomeQueue(id, kind) ==
    \E s \in Services : \E i \in DOMAIN queue[s] :
        queue[s][i].id = id /\ queue[s][i].kind = kind

\* A message in a queue is served or sent back, though nobody who pushes it signals a
\* worker: the timer thread does.
EverySettled ==
    \A id \in Msgs, kind \in {"request", "error"} :
        InSomeQueue(id, kind) ~> quit \/ ~InSomeQueue(id, kind)

\* The queue of a retired service is freed, whoever holds the last reference.
Reclaimed == \A s \in Services : slot[s] = "retired" ~> quit \/ mq[s] = "freed"

\* Once the last service is gone, the threads end.
AllStop == total = 0 ~> \A w \in Workers : pc[w] = "stopped"
=============================================================================
