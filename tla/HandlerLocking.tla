---------------------------- MODULE HandlerLocking ----------------------------
(***************************************************************************)
(* Threads that log through C++ handlers.  Every handler has a recursive    *)
(* mutex (handler.cxx), and every thread runs this code with the            *)
(* interpreter's global lock, the GIL.  The mutex is locked without letting *)
(* go of the GIL; what runs under it (a Python emit, the stream's write and *)
(* flush) may let go of the GIL when it is Python code or waits for a file. *)
(***************************************************************************)
EXTENDS Integers, FiniteSets

CONSTANTS
    Threads,
    Handlers,
    Wirings,    \* the applications: each a set of pairs <<t, h>> of a thread
                \* and a handler it calls
    Yielding,   \* the handlers whose emit or flush may let go of the GIL
    Flushable,  \* the handlers whose stream has a flush method
    Nobody      \* no thread; of a thread out of calls, no method or handler

ASSUME LockingAssumption ==
    /\ Nobody \notin Threads
    /\ Wirings \subseteq SUBSET (Threads \X Handlers)
    /\ Yielding \subseteq Handlers
    /\ Flushable \subseteq Handlers

VARIABLES
    uses,   \* the application's pairs: which thread calls which handler
    gil,    \* the thread that has the GIL
    owner,  \* the owner of each handler's recursive_mutex
    depth,  \* how many times its owner has locked it
    pc,     \* where each thread is: "python" outside the handlers, ...
    op,     \* the method it has called, "handle" or "flush", ...
    on      \* and the handler it has called it on

lockVars == <<uses, gil, owner, depth, pc, op, on>>

LockInit ==
    /\ uses \in Wirings
    /\ gil = Nobody
    /\ owner = [h \in Handlers |-> Nobody]
    /\ depth = [h \in Handlers |-> 0]
    /\ pc = [t \in Threads |-> "python"]
    /\ op = [t \in Threads |-> Nobody]
    /\ on = [t \in Threads |-> Nobody]

-----------------------------------------------------------------------------
Goto(t, label) == pc' = [pc EXCEPT ![t] = label]

(* Mutant: no mutual exclusion.                                             *)
LockMutexAnyway(t, h) ==
    /\ owner' = [owner EXCEPT ![h] = t]
    /\ depth' = [depth EXCEPT ![h] = @ + 1]

LockMutex(t, h) ==
    /\ owner[h] \in {Nobody, t}
    /\ owner' = [owner EXCEPT ![h] = t]
    /\ depth' = [depth EXCEPT ![h] = @ + 1]

(* Mutant: the last unlock does not free the mutex.                         *)
UnlockMutexKept(t, h) ==
    /\ depth' = [depth EXCEPT ![h] = @ - 1]
    /\ owner' = owner

UnlockMutex(t, h) ==
    /\ depth' = [depth EXCEPT ![h] = @ - 1]
    /\ owner' = [owner EXCEPT ![h] = IF depth[h] = 1 THEN Nobody ELSE t]

(* Mutant: every handler lets go of the GIL under its mutex.                *)
MayYieldUnderMutex(t) == pc[t] \in {"python", "emit", "flush"}

(* The interpreter passes the GIL on between bytecodes and around blocking  *)
(* system calls, so only from the code a handler runs under its mutex if    *)
(* that code is Python or blocks.                                           *)
MayYield(t) ==
    \/ pc[t] = "python"
    \/ pc[t] \in {"emit", "flush"} /\ on[t] \in Yielding

DropGil(t) ==
    /\ gil = t /\ MayYield(t)
    /\ gil' = Nobody
    /\ UNCHANGED <<owner, depth, pc, op, on>>

TakeGil(t) ==
    /\ gil = Nobody
    /\ gil' = t
    /\ UNCHANGED <<owner, depth, pc, op, on>>

-----------------------------------------------------------------------------
(* Handler.handle of a record that passes the filters: lock, emit, unlock.  *)
CallHandle(t, h) ==
    /\ gil = t /\ pc[t] = "python"
    /\ Goto(t, "lock")
    /\ op' = [op EXCEPT ![t] = "handle"]
    /\ on' = [on EXCEPT ![t] = h]
    /\ UNCHANGED <<gil, owner, depth>>

Lock(t) ==
    /\ gil = t /\ pc[t] = "lock"
    /\ LockMutex(t, on[t])
    /\ Goto(t, "emit")
    /\ UNCHANGED <<gil, op, on>>

(* StreamHandler.emit: format, write, and flush if the stream has a flush.  *)
Write(t) ==
    /\ gil = t /\ pc[t] = "emit"
    /\ Goto(t, IF on[t] \in Flushable THEN "acquire" ELSE "unlock")
    /\ UNCHANGED <<gil, owner, depth, op, on>>

(* An exception of format or write goes on after the unlock.                *)
EmitFails(t) ==
    /\ gil = t /\ pc[t] = "emit"
    /\ Goto(t, "unlock")
    /\ UNCHANGED <<gil, owner, depth, op, on>>

Unlock(t) ==
    /\ gil = t /\ pc[t] = "unlock"
    /\ UnlockMutex(t, on[t])
    /\ Goto(t, "python")
    /\ UNCHANGED <<gil, op, on>>

(* flush, from emit, from StreamHandler.flush or at the start of setStream: *)
(* acquire, flush the stream, release; an exception of the stream does not  *)
(* skip the release.                                                        *)
CallFlush(t, h) ==
    /\ gil = t /\ pc[t] = "python" /\ h \in Flushable
    /\ Goto(t, "acquire")
    /\ op' = [op EXCEPT ![t] = "flush"]
    /\ on' = [on EXCEPT ![t] = h]
    /\ UNCHANGED <<gil, owner, depth>>

Acquire(t) ==
    /\ gil = t /\ pc[t] = "acquire"
    /\ LockMutex(t, on[t])
    /\ Goto(t, "flush")
    /\ UNCHANGED <<gil, op, on>>

Release(t) ==
    /\ gil = t /\ pc[t] = "flush"
    /\ UnlockMutex(t, on[t])
    /\ Goto(t, IF op[t] = "handle" THEN "unlock" ELSE "python")
    /\ UNCHANGED <<gil, op, on>>

-----------------------------------------------------------------------------
InCall(t) == Lock(t) \/ Write(t) \/ EmitFails(t) \/ Unlock(t) \/ Acquire(t)
             \/ Release(t)

Step(t) ==
    \/ DropGil(t)
    \/ TakeGil(t)
    \/ \E h \in Handlers : <<t, h>> \in uses /\ (CallHandle(t, h) \/ CallFlush(t, h))
    \/ InCall(t)

LockNext == (\E t \in Threads : Step(t)) /\ uses' = uses

LockSpec == LockInit /\ [][LockNext]_lockVars

(* A thread that gets the GIL again and again gets on with its call; the    *)
(* interpreter honours a request to drop the GIL at the next bytecode; and  *)
(* the operating system wakes every thread that waits for the GIL.          *)
Fairness ==
    \A t \in Threads : /\ SF_lockVars(InCall(t) /\ uses' = uses)
                       /\ SF_lockVars(DropGil(t) /\ uses' = uses)
                       /\ SF_lockVars(TakeGil(t) /\ uses' = uses)

FairSpec == LockSpec /\ Fairness

-----------------------------------------------------------------------------
(* How often t has locked h's mutex: in handle(), and again in flush().     *)
InHandle(t, h) ==
    on[t] = h /\ \/ pc[t] \in {"emit", "unlock"}
                 \/ pc[t] \in {"acquire", "flush"} /\ op[t] = "handle"

InFlush(t, h) == on[t] = h /\ pc[t] = "flush"

Held(t, h) == (IF InHandle(t, h) THEN 1 ELSE 0) + (IF InFlush(t, h) THEN 1 ELSE 0)

LockTypeOK ==
    /\ uses \in Wirings
    /\ gil \in Threads \cup {Nobody}
    /\ owner \in [Handlers -> Threads \cup {Nobody}]
    /\ depth \in [Handlers -> Nat]
    /\ pc \in [Threads -> {"python", "lock", "emit", "acquire", "flush", "unlock"}]
    /\ op \in [Threads -> {Nobody, "handle", "flush"}]
    /\ on \in [Threads -> Handlers \cup {Nobody}]

(* Two threads are never both writing to or flushing one handler's stream.  *)
Emitting(t, h) == on[t] = h /\ pc[t] \in {"emit", "flush"}

OneWriter ==
    \A h \in Handlers : \A t, u \in Threads :
        Emitting(t, h) /\ Emitting(u, h) => t = u

(* The application shares no handler that may let go of the GIL.            *)
NoSharedYielding ==
    \A h \in Yielding : \A t, u \in Threads :
        <<t, h>> \in uses /\ <<u, h>> \in uses => t = u

(* No thread of such an application waits for a mutex with the GIL while    *)
(* the owner of the mutex needs the GIL to go on: Handler_handle and        *)
(* Handler_acquire wait with it.                                            *)
Blocked(t) == pc[t] \in {"lock", "acquire"} /\ owner[on[t]] \notin {Nobody, t}

NoGilDeadlock == NoSharedYielding => \A t \in Threads : gil = t => ~ Blocked(t)

(* Every handle() and flush() call of such an application returns.          *)
ApartCallsReturn ==
    \A t \in Threads : NoSharedYielding /\ pc[t] # "python" ~> pc[t] = "python"

(* Every handle() and flush() call of any application returns.              *)
CallsReturn == \A t \in Threads : pc[t] # "python" ~> pc[t] = "python"
==============================================================================
