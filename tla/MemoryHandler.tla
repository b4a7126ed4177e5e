----------------------------- MODULE MemoryHandler -----------------------------
(***************************************************************************)
(* handlers.py: BufferingHandler and MemoryHandler.  Records are buffered   *)
(* and handed to a target handler when the buffer is full, when a severe    *)
(* record comes, or on flush() and close().                                 *)
(*                                                                         *)
(* The handler's mutex keeps other threads out of a call; within one call   *)
(* flush() hands the records over one at a time, the target may raise at    *)
(* any of them, and a target whose code logs to this same handler comes     *)
(* back to it through the recursive mutex in the middle of the loop.        *)
(***************************************************************************)
EXTENDS Integers, Sequences, FiniteSets

CONSTANTS
    Records,
    Severe,        \* the records whose level is flushLevel or above
    Capacity,
    FlushOnClose,
    Targets,
    Unreliable,    \* the targets whose handle() may raise
    Chatty,        \* the targets whose handle() may log to this handler
    MaxFailures,   \* a bound on how often targets raise
    None

ASSUME MemoryAssumption ==
    /\ Severe \subseteq Records
    /\ Capacity \in Nat
    /\ MaxFailures \in Nat
    /\ FlushOnClose \in BOOLEAN
    /\ Unreliable \subseteq Targets
    /\ Chatty \subseteq Targets
    /\ None \notin Targets

VARIABLES
    buffer,     \* self.buffer
    target,     \* self.target
    frames,     \* the flush() loops in progress, the outermost first
    accepted,   \* history: the records emit() has appended, in order
    delivered,  \* history: the records targets have been given, in order
    failures,   \* history: how often a target has raised
    closed      \* history: whether the application's last call was close()

vars == <<buffer, target, frames, accepted, delivered, failures, closed>>

(* A flush() loop: who called it, the index of the record it is at, and     *)
(* whether the target is at work on that record.                            *)
Frame(caller) == [caller |-> caller, at |-> 1, inTarget |-> FALSE]

AtRest == frames = <<>>
Top == frames[Len(frames)]
Outer == SubSeq(frames, 1, Len(frames) - 1)
Within(frame) == Append(Outer, frame)

Init ==
    /\ buffer = <<>>
    /\ target \in Targets \cup {None}
    /\ frames = <<>>
    /\ accepted = <<>>
    /\ delivered = <<>>
    /\ failures = 0
    /\ closed = FALSE

-----------------------------------------------------------------------------
(* flush(): nothing without a target.                                       *)
BeginFlush(caller) ==
    frames' = IF target = None THEN frames ELSE Append(frames, Frame(caller))

(* The list iterator looks at the buffer as it is now.                      *)
HasNext == ~ AtRest /\ ~ Top.inTarget /\ Top.at <= Len(buffer)

Hand ==
    /\ HasNext
    /\ delivered' = Append(delivered, buffer[Top.at])
    /\ frames' = Within([Top EXCEPT !.inTarget = TRUE])
    /\ UNCHANGED <<buffer, target, accepted, failures, closed>>

TargetReturns ==
    /\ ~ AtRest /\ Top.inTarget
    /\ frames' = Within([Top EXCEPT !.inTarget = FALSE, !.at = @ + 1])
    /\ UNCHANGED <<buffer, target, accepted, delivered, failures, closed>>

(* close() puts the target away in a finally clause.                        *)
TargetAfter(caller) == IF caller = "close" THEN None ELSE target

(* Mutant: the buffer is cleared in a finally clause too.                   *)
TargetRaisesClears ==
    /\ HasNext \/ (~ AtRest /\ Top.inTarget)
    /\ target \in Unreliable /\ failures < MaxFailures
    /\ frames' = Outer
    /\ target' = TargetAfter(Top.caller)
    /\ failures' = failures + 1
    /\ buffer' = <<>>
    /\ UNCHANGED <<accepted, delivered, closed>>

(* An exception of the target leaves the loop before the buffer is cleared. *)
TargetRaises ==
    /\ HasNext \/ (~ AtRest /\ Top.inTarget)
    /\ target \in Unreliable /\ failures < MaxFailures
    /\ frames' = Outer
    /\ target' = TargetAfter(Top.caller)
    /\ failures' = failures + 1
    /\ UNCHANGED <<buffer, accepted, delivered, closed>>

(* Mutant: the buffer is not cleared.                                       *)
EndFlushKeeps ==
    /\ ~ AtRest /\ ~ Top.inTarget /\ Top.at > Len(buffer)
    /\ frames' = Outer
    /\ target' = TargetAfter(Top.caller)
    /\ UNCHANGED <<buffer, accepted, delivered, failures, closed>>

EndFlush ==
    /\ ~ AtRest /\ ~ Top.inTarget /\ Top.at > Len(buffer)
    /\ buffer' = <<>>
    /\ frames' = Outer
    /\ target' = TargetAfter(Top.caller)
    /\ UNCHANGED <<accepted, delivered, failures, closed>>

-----------------------------------------------------------------------------
(* Handler.handle and MemoryHandler.emit, called by the application or by a *)
(* target in the middle of a flush().                                       *)
Callable == AtRest \/ (~ AtRest /\ Top.inTarget /\ target \in Chatty)

ShouldFlush(r) == Len(buffer) + 1 >= Capacity \/ r \in Severe

Fresh(r) == \A i \in 1 .. Len(accepted) : accepted[i] # r

Emit(r) ==
    /\ Callable /\ Fresh(r)
    /\ buffer' = Append(buffer, r)
    /\ accepted' = Append(accepted, r)
    /\ IF ShouldFlush(r) THEN BeginFlush("emit") ELSE frames' = frames
    /\ closed' = (closed /\ ~ AtRest)
    /\ UNCHANGED <<target, delivered, failures>>

Flush ==
    /\ AtRest
    /\ BeginFlush("flush")
    /\ closed' = FALSE
    /\ UNCHANGED <<buffer, target, accepted, delivered, failures>>

SetTarget(t) ==
    /\ AtRest
    /\ target' = t
    /\ closed' = FALSE
    /\ UNCHANGED <<buffer, frames, accepted, delivered, failures>>

(* The flush() of BufferingHandler.close comes after the target is put away *)
(* and so does nothing: a buffer that close() does not flush stays.         *)
Close ==
    /\ AtRest
    /\ IF FlushOnClose /\ target # None
       THEN BeginFlush("close") /\ target' = target
       ELSE frames' = frames /\ target' = None
    /\ closed' = TRUE
    /\ UNCHANGED <<buffer, accepted, delivered, failures>>

Next ==
    \/ \E r \in Records : Emit(r)
    \/ \E t \in Targets \cup {None} : SetTarget(t)
    \/ Flush \/ Close
    \/ Hand \/ TargetReturns \/ TargetRaises \/ EndFlush

Spec == Init /\ [][Next]_vars

-----------------------------------------------------------------------------
TypeOK ==
    /\ buffer \in Seq(Records)
    /\ target \in Targets \cup {None}
    /\ frames \in Seq([caller : {"emit", "flush", "close"},
                       at : Nat, inTarget : BOOLEAN])
    /\ accepted \in Seq(Records)
    /\ delivered \in Seq(Records)
    /\ failures \in 0 .. MaxFailures
    /\ closed \in BOOLEAN

(* With targets that do not log here, and until one raises, each record     *)
(* reaches a target once and in order, or waits in the buffer, whatever     *)
(* calls of setTarget, flush and close come between.                        *)
Fifo == AtRest /\ failures = 0 => accepted = delivered \o buffer

(* A record that has been accepted is in the buffer or has been handed over *)
(* ("flushing means just sending the buffered records to the target"), also *)
(* when targets raise.                                                      *)
NothingLost ==
    \A i \in 1 .. Len(accepted) :
        \/ \E j \in 1 .. Len(buffer) : buffer[j] = accepted[i]
        \/ \E j \in 1 .. Len(delivered) : delivered[j] = accepted[i]

(* close(): "set the target to None and lose the buffer".                   *)
CloseLosesBuffer == closed /\ AtRest => buffer = <<>>
==============================================================================
