----------------------------- MODULE QueueLogging -----------------------------
(***************************************************************************)
(* Non-blocking logging with handlers.py: QueueHandlers put records on a    *)
(* queue.Queue, a QueueListener's thread takes them off and offers each to  *)
(* its handlers, and the application starts and stops the listener.         *)
(*                                                                         *)
(* An emit is one step: its only shared effect is one put_nowait.  The      *)
(* listener thread takes a step per handler.  The queue's own methods are   *)
(* atomic, as they hold its mutex.                                          *)
(***************************************************************************)
EXTENDS Integers, Sequences, FiniteSets

CONSTANTS
    Records,        \* the records the application logs
    Threads,        \* the listener threads start() may make, one per call
    NumHandlers,    \* the handlers given to the QueueListener
    Wanted,         \* the pairs <<h, r>> that respect_handler_level lets through
    Faulty,         \* the pairs <<h, r>> for which handler h raises
    Unformattable,  \* the records whose formatting in prepare() raises
    Capacity,       \* maxsize of the queue; 0 is no limit
    Sentinel,       \* QueueListener._sentinel
    None            \* Python's None

HandlerIds == 1 .. NumHandlers

ASSUME QueueAssumption ==
    /\ IsFiniteSet(Threads)
    /\ NumHandlers \in Nat
    /\ Capacity \in Nat
    /\ Sentinel \notin Records
    /\ None \notin Threads
    /\ Wanted \subseteq (1 .. NumHandlers) \X Records
    /\ Faulty \subseteq Wanted
    /\ Unformattable \subseteq Records

VARIABLES
    queue,       \* the items of the queue.Queue, oldest first
    unfinished,  \* its unfinished_tasks: puts without a task_done yet
    emitted,     \* what became of each record: "new", "queued" or "lost"
    monitor,     \* the state of each listener thread in _monitor
    thread,      \* QueueListener._thread
    control,     \* where the application is: "idle", "stopping" or "joining"
    paired,      \* history: whether start() has only been called with no
                 \* listener and stop() only with one
    puts,        \* history: every item ever put, in order
    taken,       \* history: how many items have been taken off
    delivered    \* history: the positions in puts handled by each handler

vars == <<queue, unfinished, emitted, monitor, thread, control, paired, puts,
          taken, delivered>>

Items == Records \cup {Sentinel}
Full == Capacity > 0 /\ Len(queue) >= Capacity

(* A thread is in dequeue(), in handle() with the item at position pos and  *)
(* next handler at, or finished: by the sentinel or by an exception.        *)
Unborn        == [pc |-> "unborn",   pos |-> 0, at |-> 0]
Waiting       == [pc |-> "waiting",  pos |-> 0, at |-> 0]
Ended         == [pc |-> "ended",    pos |-> 0, at |-> 0]
Handling(k,h) == [pc |-> "handling", pos |-> k, at |-> h]
Died(k,h)     == [pc |-> "died",     pos |-> k, at |-> h]

Alive(t) == monitor[t].pc \in {"waiting", "handling"}

Init ==
    /\ queue = <<>>
    /\ unfinished = 0
    /\ emitted = [r \in Records |-> "new"]
    /\ monitor = [t \in Threads |-> Unborn]
    /\ thread = None
    /\ control = "idle"
    /\ paired = TRUE
    /\ puts = <<>>
    /\ taken = 0
    /\ delivered = [h \in HandlerIds |-> <<>>]

-----------------------------------------------------------------------------
Put(item) ==
    /\ queue' = Append(queue, item)
    /\ puts' = Append(puts, item)
    /\ unfinished' = unfinished + 1

(* QueueHandler.emit: an exception of prepare() or queue.Full goes to       *)
(* handleError, which leaves the record lost.                               *)
EmitQueued(r) ==
    /\ emitted[r] = "new" /\ r \notin Unformattable /\ ~ Full
    /\ emitted' = [emitted EXCEPT ![r] = "queued"]
    /\ Put(r)
    /\ UNCHANGED <<monitor, thread, control, taken, delivered>>

EmitLost(r) ==
    /\ emitted[r] = "new" /\ (r \in Unformattable \/ Full)
    /\ emitted' = [emitted EXCEPT ![r] = "lost"]
    /\ UNCHANGED <<queue, unfinished, monitor, thread, control, puts, taken,
                   delivered>>

-----------------------------------------------------------------------------
(* _monitor: dequeue(True) returns a record, ...                            *)
TakeRecord(t) ==
    /\ monitor[t] = Waiting /\ queue # <<>> /\ Head(queue) # Sentinel
    /\ queue' = Tail(queue)
    /\ taken' = taken + 1
    /\ monitor' = [monitor EXCEPT ![t] = Handling(taken + 1, 1)]
    /\ UNCHANGED <<unfinished, emitted, thread, control, puts, delivered>>

(* Mutant: no task_done for the sentinel.                                   *)
TakeSentinelNotDone(t) ==
    /\ monitor[t] = Waiting /\ queue # <<>> /\ Head(queue) = Sentinel
    /\ queue' = Tail(queue)
    /\ taken' = taken + 1
    /\ monitor' = [monitor EXCEPT ![t] = Ended]
    /\ UNCHANGED <<unfinished, emitted, thread, control, puts, delivered>>

(* ... or the sentinel, which ends the thread.                              *)
TakeSentinel(t) ==
    /\ monitor[t] = Waiting /\ queue # <<>> /\ Head(queue) = Sentinel
    /\ queue' = Tail(queue)
    /\ taken' = taken + 1
    /\ unfinished' = unfinished - 1
    /\ monitor' = [monitor EXCEPT ![t] = Ended]
    /\ UNCHANGED <<emitted, thread, control, puts, delivered>>

(* handle(): the record is offered to the next handler that wants it.       *)
Current(t) == <<monitor[t].at, puts[monitor[t].pos]>>

(* Mutant: the loop over the handlers ends at the first.                    *)
OfferFirstOnly(t) ==
    /\ monitor[t].pc = "handling" /\ monitor[t].at <= NumHandlers
    /\ Current(t) \notin Faulty
    /\ monitor' = [monitor EXCEPT ![t] = Handling(@.pos, NumHandlers + 1)]
    /\ delivered' =
          IF Current(t) \in Wanted
          THEN [delivered EXCEPT ![monitor[t].at] = Append(@, monitor[t].pos)]
          ELSE delivered
    /\ UNCHANGED <<queue, unfinished, emitted, thread, control, puts, taken>>

Offer(t) ==
    /\ monitor[t].pc = "handling" /\ monitor[t].at <= NumHandlers
    /\ Current(t) \notin Faulty
    /\ monitor' = [monitor EXCEPT ![t] = Handling(@.pos, @.at + 1)]
    /\ delivered' =
          IF Current(t) \in Wanted
          THEN [delivered EXCEPT ![monitor[t].at] = Append(@, monitor[t].pos)]
          ELSE delivered
    /\ UNCHANGED <<queue, unfinished, emitted, thread, control, puts, taken>>

(* An exception of a handler is not queue.Empty: it leaves _monitor.        *)
HandlerRaises(t) ==
    /\ monitor[t].pc = "handling" /\ monitor[t].at <= NumHandlers
    /\ Current(t) \in Faulty
    /\ monitor' = [monitor EXCEPT ![t] = Died(@.pos, @.at)]
    /\ UNCHANGED <<queue, unfinished, emitted, thread, control, puts, taken,
                   delivered>>

TaskDone(t) ==
    /\ monitor[t].pc = "handling" /\ monitor[t].at > NumHandlers
    /\ unfinished' = unfinished - 1
    /\ monitor' = [monitor EXCEPT ![t] = Waiting]
    /\ UNCHANGED <<queue, emitted, thread, control, puts, taken, delivered>>

Monitor(t) ==
    TakeRecord(t) \/ TakeSentinel(t) \/ Offer(t) \/ HandlerRaises(t) \/ TaskDone(t)

-----------------------------------------------------------------------------
(* QueueListener.start, whatever _thread holds.                             *)
Start(t) ==
    /\ control = "idle" /\ monitor[t] = Unborn
    /\ thread' = t
    /\ monitor' = [monitor EXCEPT ![t] = Waiting]
    /\ paired' = (paired /\ thread = None)
    /\ UNCHANGED <<queue, unfinished, emitted, control, puts, taken, delivered>>

(* QueueListener.stop: enqueue_sentinel, then _thread.join().               *)
CallStop ==
    /\ control = "idle"
    /\ control' = "stopping"
    /\ paired' = (paired /\ thread # None)
    /\ UNCHANGED <<queue, unfinished, emitted, monitor, thread, puts, taken,
                   delivered>>

(* put_nowait raises queue.Full out of stop().                              *)
StopRaises ==
    /\ control = "stopping" /\ Full
    /\ control' = "idle"
    /\ UNCHANGED <<queue, unfinished, emitted, monitor, thread, puts, taken,
                   delivered>>

(* Mutant: stop() joins without a sentinel.                                 *)
PutNoSentinel ==
    /\ control = "stopping" /\ ~ Full
    /\ control' = IF thread = None THEN "idle" ELSE "joining"
    /\ UNCHANGED <<queue, puts, unfinished, emitted, monitor, thread, taken,
                   delivered>>

(* With no thread to join, None.join() raises after the sentinel is put.    *)
PutSentinel ==
    /\ control = "stopping" /\ ~ Full
    /\ Put(Sentinel)
    /\ control' = IF thread = None THEN "idle" ELSE "joining"
    /\ UNCHANGED <<emitted, monitor, thread, taken, delivered>>

(* Mutant: stop() does not wait for the thread.                             *)
JoinAtOnce ==
    /\ control = "joining"
    /\ thread' = None
    /\ control' = "idle"
    /\ UNCHANGED <<queue, unfinished, emitted, monitor, puts, taken, delivered>>

Join ==
    /\ control = "joining" /\ ~ Alive(thread)
    /\ thread' = None
    /\ control' = "idle"
    /\ UNCHANGED <<queue, unfinished, emitted, monitor, puts, taken, delivered>>

Stop == StopRaises \/ PutSentinel \/ Join

-----------------------------------------------------------------------------
Others ==
    \/ \E r \in Records : EmitQueued(r) \/ EmitLost(r)
    \/ \E t \in Threads : Monitor(t)
    \/ Stop

Next ==
    \/ Others /\ UNCHANGED paired
    \/ CallStop
    \/ \E t \in Threads : Start(t)

Spec == Init /\ [][Next]_vars

(* CPython schedules every runnable thread, so a listener thread that can   *)
(* go on does, and so does a call of stop() that can.                       *)
Fairness ==
    /\ \A t \in Threads : WF_vars(Monitor(t) /\ UNCHANGED paired)
    /\ WF_vars(Stop /\ UNCHANGED paired)

FairSpec == Spec /\ Fairness

-----------------------------------------------------------------------------
TypeOK ==
    /\ queue \in Seq(Items)
    /\ unfinished \in Nat
    /\ emitted \in [Records -> {"new", "queued", "lost"}]
    /\ monitor \in [Threads ->
          [pc : {"unborn", "waiting", "handling", "ended", "died"},
           pos : Nat, at : Nat]]
    /\ thread \in Threads \cup {None}
    /\ control \in {"idle", "stopping", "joining"}
    /\ paired \in BOOLEAN
    /\ puts \in Seq(Items)
    /\ taken \in 0 .. Len(puts)
    /\ delivered \in [HandlerIds -> Seq(1 .. taken)]

(* What a handler has received of the item at position k.                   *)
Received(h, k) == \E i \in 1 .. Len(delivered[h]) : delivered[h][i] = k

(* The thread that has the item at position k but has not offered it to h.  *)
Pending(h, k) ==
    \E t \in Threads : /\ monitor[t].pc \in {"handling", "died"}
                       /\ monitor[t].pos = k /\ monitor[t].at <= h

(* Every record taken off the queue reaches every handler that wants it,    *)
(* however many listeners run, unless its thread is still at work on it or  *)
(* was ended by an exception there; and no handler gets an item it does not *)
(* want or an item still due to it.                                         *)
EveryTakenRecordDelivered ==
    \A h \in HandlerIds, k \in 1 .. taken :
        Received(h, k) <=> <<h, puts[k]>> \in Wanted /\ ~ Pending(h, k)

(* queue.join() counts an item until its handlers are done with it, or for  *)
(* ever when one of them raises.                                            *)
UnfinishedCounts ==
    unfinished = Len(queue)
        + Cardinality({t \in Threads : monitor[t].pc \in {"handling", "died"}})

(* With one listener at a time each handler sees the records in the order   *)
(* they were queued.                                                        *)
InOrder ==
    \A h \in HandlerIds : \A i, j \in 1 .. Len(delivered[h]) :
        i < j => delivered[h][i] < delivered[h][j]

DeliveredInOrder == paired => InOrder

(* The sentinel of the stop() that is joining, and its return.              *)
LastSentinel ==
    CHOOSE k \in 1 .. Len(puts) : /\ puts[k] = Sentinel
                                  /\ \A j \in k + 1 .. Len(puts) : puts[j] # Sentinel

StopEnds == control = "joining" /\ control' = "idle"

Drained ==
    \A k \in 1 .. LastSentinel : \A h \in HandlerIds :
        <<h, puts[k]>> \in Wanted => Received(h, k)

(* stop() "asks the thread to terminate, and then waits for it to do so":   *)
(* when it returns, all that was queued before its sentinel is handled, ... *)
StopAlwaysDrains == [][StopEnds => Drained]_vars

(* ... as long as starts and stops are paired and no handler has raised.    *)
Sound == paired /\ \A t \in Threads : monitor[t].pc # "died"

StopDrains == [][StopEnds /\ Sound => Drained]_vars

(* However stop() is left, the listener is no longer running.               *)
StopEndsListener ==
    [][control # "idle" /\ control' = "idle" =>
          \A t \in Threads : ~ Alive(t)]_vars

(* A stop() that has put its sentinel returns, also from a listener that a  *)
(* handler has ended.                                                       *)
StopReturns == paired /\ control = "joining" ~> control = "idle"
==============================================================================
