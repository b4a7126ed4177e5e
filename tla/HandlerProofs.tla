---------------------------- MODULE HandlerProofs ----------------------------
(***************************************************************************)
(* Proofs about two parts of a handler: HandlerLocking, its mutex under the *)
(* GIL, for any threads and handlers; and MemoryHandler, its buffer under   *)
(* that mutex, for any records, capacity and targets.                       *)
(***************************************************************************)
EXTENDS HandlerLocking, MemoryHandler, SequenceTheorems, TLAPS

(***************************************************************************)
(* HandlerLocking.                                                          *)
(***************************************************************************)
(* A mutex is locked exactly as often as the call its owner is in says:     *)
(* no way out of a call, with an exception or without, leaves it locked.    *)
LockFollowsCalls ==
    \A h \in Handlers :
        /\ \A t \in Threads : Held(t, h) > 0 => owner[h] = t
        /\ depth[h] = IF owner[h] = Nobody THEN 0 ELSE Held(owner[h], h)
        /\ owner[h] # Nobody => depth[h] > 0

(* A call is on a handler its thread uses, and a thread without the GIL is  *)
(* in Python or at one of the places a handler lets go of it.               *)
CallsPlaced ==
    \A t \in Threads :
        /\ pc[t] # "python" => on[t] \in Handlers /\ <<t, on[t]>> \in uses
        /\ pc[t] \in {"lock", "emit", "unlock"} => op[t] = "handle"
        /\ gil # t => MayYield(t)

LockInv == LockTypeOK /\ LockFollowsCalls /\ CallsPlaced

LEMMA InitLock == LockInit => LockInv
  BY LockingAssumption
     DEF LockInit, LockInv, LockTypeOK, LockFollowsCalls, CallsPlaced, Held, InHandle, InFlush, MayYield

(* A step of t that takes depth[h] along with what t holds of h, and leaves *)
(* the other threads and the other handlers alone.                          *)
LEMMA MutexStep ==
    ASSUME LockInv, NEW t \in Threads, NEW h \in Handlers, on[t] = h, on' = on,
           LockTypeOK',
           \A u \in Threads \ {t} : pc'[u] = pc[u] /\ op'[u] = op[u],
           \A g \in Handlers \ {h} : owner'[g] = owner[g] /\ depth'[g] = depth[g],
           owner[h] \in {Nobody, t},
           depth'[h] = Held(t, h)',
           owner'[h] = IF Held(t, h)' > 0 THEN t ELSE Nobody
    PROVE  LockFollowsCalls'
  <1>1. \A u \in Threads, g \in Handlers :
           Held(u, g) \in 0 .. 2 /\ Held(u, g)' \in 0 .. 2
    BY DEF Held
  <1>2. \A u \in Threads, g \in Handlers :
           u # t \/ g # h => Held(u, g)' = Held(u, g)
    BY DEF Held, InHandle, InFlush
  <1> SUFFICES ASSUME NEW g \in Handlers
               PROVE  /\ \A u \in Threads :
                            /\ Held(u, g)' > 0 => owner'[g] = u
                            /\ owner'[g] = u => depth'[g] = Held(u, g)'
                      /\ owner'[g] = Nobody => depth'[g] = 0
                      /\ owner'[g] # Nobody => depth'[g] > 0
    BY DEF LockFollowsCalls, LockTypeOK
  <1>3. CASE g # h
    <2>1. owner'[g] = owner[g] /\ depth'[g] = depth[g]
          /\ owner[g] \in Threads \cup {Nobody}
      BY <1>3 DEF LockInv, LockTypeOK
    <2>2. \A u \in Threads : Held(u, g)' = Held(u, g)
      BY <1>2, <1>3
    <2>3. /\ \A u \in Threads : /\ Held(u, g) > 0 => owner[g] = u
                                /\ owner[g] = u => depth[g] = Held(u, g)
          /\ owner[g] = Nobody => depth[g] = 0
          /\ owner[g] # Nobody => depth[g] > 0
      BY LockingAssumption DEF LockInv, LockFollowsCalls
    <2> QED
      BY <2>1, <2>2, <2>3
  <1>4. CASE g = h
    <2>1. \A u \in Threads \ {t} : Held(u, h)' = Held(u, h) /\ Held(u, h) = 0
      BY <1>1, <1>2, LockingAssumption DEF LockInv, LockFollowsCalls
    <2>2. Held(t, h)' \in 0 .. 2 /\ t # Nobody
      BY <1>1, LockingAssumption
    <2> QED
      BY <1>4, <2>1, <2>2
  <1> QED
    BY <1>3, <1>4

LEMMA NextLock == LockInv /\ [LockNext]_lockVars => LockInv'
  <1> SUFFICES ASSUME LockInv, [LockNext]_lockVars
               PROVE  LockInv'
    OBVIOUS
  <1>1. CASE UNCHANGED lockVars
    BY <1>1 DEF lockVars, LockInv, LockTypeOK, LockFollowsCalls, CallsPlaced, Held, InHandle, InFlush, MayYield
  <1>2. ASSUME NEW t \in Threads, DropGil(t) \/ TakeGil(t), uses' = uses
        PROVE  LockInv'
    <2>1. UNCHANGED <<owner, depth, pc, op, on>> /\ gil' \in Threads \cup {Nobody}
      BY <1>2 DEF DropGil, TakeGil
    <2>2. LockTypeOK' /\ LockFollowsCalls'
      BY <1>2, <2>1 DEF LockInv, LockTypeOK, LockFollowsCalls, Held, InHandle, InFlush
    <2>3. CallsPlaced'
      BY <1>2, <2>1, LockingAssumption
         DEF LockInv, CallsPlaced, MayYield, DropGil, TakeGil
    <2> QED
      BY <2>2, <2>3 DEF LockInv
  <1>3. ASSUME NEW t \in Threads, NEW h \in Handlers, <<t, h>> \in uses,
               CallHandle(t, h) \/ CallFlush(t, h), uses' = uses
        PROVE  LockInv'
    <2>1. LockTypeOK'
      BY <1>3 DEF CallHandle, CallFlush, Goto, LockInv, LockTypeOK
    <2>2. /\ gil' = gil /\ gil = t /\ pc[t] = "python"
          /\ pc'[t] \in {"lock", "acquire"} /\ on'[t] = h
          /\ pc'[t] = "acquire" => op'[t] = "flush"
          /\ pc'[t] = "lock" => op'[t] = "handle"
          /\ \A u \in Threads \ {t} : /\ pc'[u] = pc[u] /\ op'[u] = op[u]
                                      /\ on'[u] = on[u]
          /\ UNCHANGED <<owner, depth>>
      BY <1>3 DEF CallHandle, CallFlush, Goto, LockInv, LockTypeOK
    <2>3. \A u \in Threads, g \in Handlers : Held(u, g)' = Held(u, g)
      BY <2>2 DEF Held, InHandle, InFlush
    <2>4. LockFollowsCalls'
      <3> SUFFICES ASSUME NEW g \in Handlers
                   PROVE  /\ \A u \in Threads :
                                /\ Held(u, g)' > 0 => owner'[g] = u
                                /\ owner'[g] = u => depth'[g] = Held(u, g)'
                          /\ owner'[g] = Nobody => depth'[g] = 0
                          /\ owner'[g] # Nobody => depth'[g] > 0
        BY <2>1 DEF LockFollowsCalls, LockTypeOK
      <3>1. /\ \A u \in Threads : /\ Held(u, g) > 0 => owner[g] = u
                                  /\ owner[g] = u => depth[g] = Held(u, g)
            /\ owner[g] = Nobody => depth[g] = 0
            /\ owner[g] # Nobody => depth[g] > 0
        BY LockingAssumption DEF LockInv, LockFollowsCalls
      <3> QED
        BY <2>2, <2>3, <3>1
    <2>5. CallsPlaced'
      BY <1>3, <2>2 DEF LockInv, CallsPlaced, MayYield
    <2> QED
      BY <2>1, <2>4, <2>5 DEF LockInv
  <1>4. ASSUME NEW t \in Threads, InCall(t), uses' = uses
        PROVE  LockInv'
    <2> DEFINE h == on[t]
    <2>1. /\ gil' = gil /\ gil = t /\ pc[t] # "python" /\ op' = op /\ on' = on
          /\ h \in Handlers /\ <<t, h>> \in uses
      BY <1>4 DEF InCall, Lock, Write, EmitFails, Unlock, Acquire, Release,
                  LockInv, CallsPlaced
    <2>2. \A u \in Threads \ {t} : pc'[u] = pc[u]
      BY <1>4 DEF InCall, Lock, Write, EmitFails, Unlock, Acquire, Release,
                  Goto, LockInv, LockTypeOK
    <2>3. CallsPlaced'
      <3>1. pc'[t] \in {"lock", "emit", "unlock"} => op[t] = "handle"
        BY <1>4, <2>1 DEF InCall, Lock, Write, EmitFails, Unlock, Acquire, Release,
                          Goto, LockInv, CallsPlaced, LockTypeOK
      <3> QED
        BY <1>4, <2>1, <2>2, <3>1 DEF LockInv, CallsPlaced, MayYield
    <2>4. /\ owner[h] \in Threads \cup {Nobody} /\ depth[h] \in Nat
          /\ Held(t, h) > 0 => owner[h] = t
          /\ depth[h] = IF owner[h] = Nobody THEN 0 ELSE Held(owner[h], h)
          /\ owner[h] # Nobody => depth[h] > 0
      BY <2>1 DEF LockInv, LockFollowsCalls, LockTypeOK
    <2>5. ASSUME Lock(t) \/ Acquire(t)
          PROVE  LockTypeOK' /\ LockFollowsCalls'
      <3>1. /\ owner[h] \in {Nobody, t} /\ pc[t] \in {"lock", "acquire"}
            /\ owner' = [owner EXCEPT ![h] = t]
            /\ depth' = [depth EXCEPT ![h] = @ + 1]
            /\ pc' = [pc EXCEPT ![t] = IF pc[t] = "lock" THEN "emit" ELSE "flush"]
        BY <2>5 DEF Lock, Acquire, LockMutex, Goto
      <3>2. LockTypeOK'
        BY <1>4, <2>1, <2>4, <3>1 DEF LockInv, LockTypeOK
      <3>3. Held(t, h)' = Held(t, h) + 1 /\ Held(t, h) \in Nat
        BY <2>1, <3>1 DEF Held, InHandle, InFlush, LockInv, LockTypeOK
      <3>4. depth[h] = Held(t, h)
        BY <2>4, <3>1, <3>3, LockingAssumption
      <3>5. depth'[h] = Held(t, h)' /\ owner'[h] = t /\ Held(t, h)' > 0
        BY <2>1, <3>1, <3>3, <3>4 DEF LockInv, LockTypeOK
      <3> QED
        BY <2>1, <2>2, <3>1, <3>2, <3>5, MutexStep DEF LockInv, LockTypeOK
    <2>6. ASSUME Unlock(t) \/ Release(t)
          PROVE  LockTypeOK' /\ LockFollowsCalls'
      <3>1. /\ pc[t] \in {"unlock", "flush"}
            /\ owner' = [owner EXCEPT ![h] = IF depth[h] = 1 THEN Nobody ELSE t]
            /\ depth' = [depth EXCEPT ![h] = @ - 1]
            /\ pc' = [pc EXCEPT ![t] = IF pc[t] = "flush" /\ op[t] = "handle"
                                       THEN "unlock" ELSE "python"]
        BY <2>6 DEF Unlock, Release, UnlockMutex, Goto
      <3>2. Held(t, h)' = Held(t, h) - 1 /\ Held(t, h) \in {1, 2}
        BY <2>1, <3>1 DEF Held, InHandle, InFlush, LockInv, LockTypeOK
      <3>3. owner[h] = t /\ depth[h] = Held(t, h)
        BY <2>4, <3>2, LockingAssumption
      <3>4. LockTypeOK'
        BY <1>4, <2>1, <3>1, <3>2, <3>3 DEF LockInv, LockTypeOK
      <3>5. /\ depth'[h] = Held(t, h)'
            /\ owner'[h] = IF Held(t, h)' > 0 THEN t ELSE Nobody
        BY <2>1, <3>1, <3>2, <3>3 DEF LockInv, LockTypeOK
      <3> QED
        BY <2>1, <2>2, <3>1, <3>3, <3>4, <3>5, MutexStep DEF LockInv, LockTypeOK
    <2>7. ASSUME Write(t) \/ EmitFails(t)
          PROVE  LockTypeOK' /\ LockFollowsCalls'
      <3>1. /\ pc[t] = "emit" /\ UNCHANGED <<owner, depth>>
            /\ \/ pc' = [pc EXCEPT ![t] = "unlock"]
               \/ pc' = [pc EXCEPT ![t] = "acquire"]
        BY <2>7 DEF Write, EmitFails, Goto
      <3>2. op[t] = "handle"
        BY <3>1 DEF LockInv, CallsPlaced
      <3>3. LockTypeOK'
        BY <1>4, <2>1, <3>1 DEF LockInv, LockTypeOK
      <3>4. Held(t, h)' = Held(t, h) /\ Held(t, h) = 1
        BY <2>1, <3>1, <3>2 DEF Held, InHandle, InFlush, LockInv, LockTypeOK
      <3>5. owner[h] = t /\ depth[h] = 1
        BY <2>4, <3>4, LockingAssumption
      <3> QED
        BY <2>1, <2>2, <3>1, <3>3, <3>4, <3>5, MutexStep DEF LockInv, LockTypeOK
    <2> QED
      BY <1>4, <2>3, <2>5, <2>6, <2>7 DEF InCall, LockInv
  <1> QED
    BY <1>1, <1>2, <1>3, <1>4 DEF LockNext, Step

(* The mutexes are locked as the calls in progress say, whatever may let go *)
(* of the GIL: no error path leaves a handler locked.                       *)
THEOREM LockInvariant == LockSpec => []LockInv
  BY InitLock, NextLock, PTL DEF LockSpec

THEOREM LocksHold == LockSpec => [](LockTypeOK /\ LockFollowsCalls)
  <1>1. LockInv => LockTypeOK /\ LockFollowsCalls
    BY DEF LockInv
  <1> QED
    BY <1>1, LockInvariant, PTL

(* The mutex keeps the writes and flushes of one handler apart.             *)
THEOREM OneWriterHolds == LockSpec => []OneWriter
  <1>1. LockInv => OneWriter
    <2> SUFFICES ASSUME LockInv, NEW h \in Handlers, NEW t \in Threads,
                        NEW u \in Threads, Emitting(t, h), Emitting(u, h)
                 PROVE  t = u
      BY DEF OneWriter
    <2>1. Held(t, h) > 0 /\ Held(u, h) > 0
      BY DEF Emitting, Held, InHandle, InFlush
    <2> QED
      BY <2>1 DEF LockInv, LockFollowsCalls
  <1> QED
    BY <1>1, LockInvariant, PTL

(* An application in which no two threads share a handler that may let go   *)
(* of the GIL cannot deadlock in the handlers.                              *)
THEOREM NoGilDeadlockHolds == LockSpec => []NoGilDeadlock
  <1>1. LockInv => NoGilDeadlock
    <2> SUFFICES ASSUME LockInv, NoSharedYielding, NEW t \in Threads, gil = t,
                        Blocked(t)
                 PROVE  FALSE
      BY DEF NoGilDeadlock
    <2> DEFINE h == on[t]
               u == owner[h]
    <2>1. /\ h \in Handlers /\ <<t, h>> \in uses
          /\ u \in Threads /\ u # t
      BY DEF Blocked, LockInv, CallsPlaced, LockTypeOK
    <2>2. Held(u, h) > 0
      BY <2>1, LockingAssumption DEF LockInv, LockFollowsCalls
    <2>3. on[u] = h /\ pc[u] # "python"
      BY <2>2 DEF Held, InHandle, InFlush
    <2>4. <<u, h>> \in uses /\ h \in Yielding
      BY <2>1, <2>3 DEF LockInv, CallsPlaced, MayYield
    <2> QED
      BY <2>1, <2>4 DEF NoSharedYielding
  <1> QED
    BY <1>1, LockInvariant, PTL

(***************************************************************************)
(* MemoryHandler.                                                           *)
(***************************************************************************)
FrameType == [caller : {"emit", "flush", "close"}, at : Nat, inTarget : BOOLEAN]

(* How many records of the buffer the target has been given.                *)
GivenBy(fs) == IF fs = <<>> THEN 0
               ELSE IF fs[1].inTarget THEN fs[1].at ELSE fs[1].at - 1

Given == GivenBy(frames)

(* Without a chatty target there is at most one flush() loop, and it has    *)
(* not passed the end of the buffer.                                        *)
OneLoop ==
    /\ Len(frames) <= 1
    /\ Given \in 0 .. Len(buffer)

MemoryBase == TypeOK /\ OneLoop

LEMMA SingleFrame ==
    ASSUME NEW f \in FrameType
    PROVE  /\ <<f>> \in Seq(FrameType) /\ Len(<<f>>) = 1 /\ <<f>> # <<>>
           /\ <<f>>[1] = f
           /\ GivenBy(<<f>>) = IF f.inTarget THEN f.at ELSE f.at - 1
  BY DEF GivenBy

LEMMA NextFrame ==
    ASSUME NEW f \in FrameType
    PROVE  LET g == [f EXCEPT !.inTarget = FALSE, !.at = @ + 1]
           IN  g \in FrameType /\ ~ g.inTarget /\ g.at = f.at + 1 /\ f.at \in Nat
  <1>1. f.at \in Nat /\ f.at + 1 \in Nat
    BY DEF FrameType
  <1> QED
    BY <1>1 DEF FrameType

LEMMA NoFrame == <<>> \in Seq(FrameType) /\ Len(<<>>) = 0 /\ GivenBy(<<>>) = 0
  BY DEF GivenBy

(* One stack of at most one frame, as the actions read and change it.       *)
LEMMA OneFrame ==
    ASSUME frames \in Seq(FrameType), Len(frames) <= 1, ~ AtRest
    PROVE  /\ Len(frames) = 1 /\ Top = frames[1] /\ Top \in FrameType
           /\ Given = IF Top.inTarget THEN Top.at ELSE Top.at - 1
           /\ Outer = <<>>
           /\ \A f : Within(f) = <<f>>
  <1>1. Len(frames) = 1 /\ frames[1] \in FrameType
    <2>1. Len(frames) \in Nat /\ Len(frames) # 0
      BY EmptySeq DEF AtRest
    <2>2. \A n \in Nat : n <= 1 /\ n # 0 => n = 1
      OBVIOUS
    <2>3. Len(frames) = 1
      BY <2>1, <2>2
    <2>4. 1 \in 1 .. Len(frames)
      BY <2>3
    <2> QED
      BY <2>3, <2>4, ElementOfSeq
  <1>2. Outer = <<>>
    BY <1>1 DEF Outer
  <1>3. \A f : Within(f) = <<f>>
    BY <1>2 DEF Within
  <1>4. Top = frames[1]
    BY <1>1 DEF Top
  <1> QED
    BY <1>1, <1>2, <1>3, <1>4 DEF Given, GivenBy, AtRest

LEMMA InitBase == Init => MemoryBase
  <1> SUFFICES ASSUME Init
               PROVE  MemoryBase
    OBVIOUS
  <1>1. TypeOK
    <2>1. /\ <<>> \in Seq(Records)
          /\ <<>> \in Seq([caller : {"emit", "flush", "close"}, at : Nat, inTarget : BOOLEAN])
      BY EmptySeq
    <2>2. 0 \in 0 .. MaxFailures
      BY MemoryAssumption
    <2> QED
      BY <2>1, <2>2 DEF Init, TypeOK
  <1>2. OneLoop
    BY NoFrame DEF Init, OneLoop, Given
  <1> QED
    BY <1>1, <1>2 DEF MemoryBase

LEMMA NextBase ==
    ASSUME Chatty = {}, MemoryBase, [Next]_vars
    PROVE  MemoryBase'
  <1>1. /\ buffer \in Seq(Records) /\ Len(buffer) \in Nat
        /\ frames \in Seq(FrameType) /\ Len(frames) <= 1
        /\ target \in Targets \cup {None}
        /\ Given \in 0 .. Len(buffer)
        /\ accepted \in Seq(Records) /\ delivered \in Seq(Records)
        /\ failures \in 0 .. MaxFailures /\ closed \in BOOLEAN
    <2>1. /\ buffer \in Seq(Records) /\ frames \in Seq(FrameType)
          /\ target \in Targets \cup {None}
          /\ accepted \in Seq(Records) /\ delivered \in Seq(Records)
          /\ failures \in 0 .. MaxFailures /\ closed \in BOOLEAN
      BY DEF MemoryBase, TypeOK, FrameType
    <2>2. Len(frames) <= 1 /\ Given \in 0 .. Len(buffer)
      BY DEF MemoryBase, OneLoop
    <2> QED
      BY <2>1, <2>2
  <1>2. ASSUME frames' \in Seq(FrameType), Len(frames') <= 1,
               GivenBy(frames') \in 0 .. Len(buffer'),
               buffer' \in Seq(Records), target' \in Targets \cup {None},
               accepted' \in Seq(Records), delivered' \in Seq(Records),
               failures' \in 0 .. MaxFailures, closed' \in BOOLEAN
        PROVE  MemoryBase'
    BY <1>2 DEF MemoryBase, TypeOK, OneLoop, Given, FrameType
  <1>3. CASE UNCHANGED vars
    BY <1>1, <1>2, <1>3 DEF vars, Given
  <1>4. \A c \in {"emit", "flush", "close"} :
           /\ <<Frame(c)>> \in Seq(FrameType) /\ Len(<<Frame(c)>>) = 1
           /\ GivenBy(<<Frame(c)>>) = 0
           /\ Append(<<>>, Frame(c)) = <<Frame(c)>>
    <2> TAKE c \in {"emit", "flush", "close"}
    <2>1. Frame(c) \in FrameType /\ Frame(c).at = 1 /\ Frame(c).inTarget = FALSE
      BY DEF Frame, FrameType
    <2> QED
      BY <2>1, SingleFrame
  <1>5. ASSUME \/ frames' = <<>>
               \/ \E c \in {"emit", "flush", "close"} : frames' = <<Frame(c)>>
        PROVE  frames' \in Seq(FrameType) /\ Len(frames') <= 1 /\ GivenBy(frames') = 0
    <2>1. CASE frames' = <<>>
      BY <2>1, NoFrame
    <2>2. CASE \E c \in {"emit", "flush", "close"} : frames' = <<Frame(c)>>
      BY <2>2, <1>4
    <2> QED
      BY <1>5, <2>1, <2>2
  <1>6. ASSUME NEW r \in Records, Emit(r)
        PROVE  MemoryBase'
    <2>1. /\ buffer' = Append(buffer, r) /\ accepted' = Append(accepted, r)
          /\ UNCHANGED <<target, delivered, failures>> /\ closed' \in BOOLEAN
          /\ \/ frames' = <<>>
             \/ \E c \in {"emit", "flush", "close"} : frames' = <<Frame(c)>>
      BY <1>4, <1>6 DEF Emit, Callable, BeginFlush, AtRest
    <2>2. buffer' \in Seq(Records) /\ accepted' \in Seq(Records) /\ Len(buffer') \in Nat
      BY <1>1, <2>1
    <2> QED
      BY <1>1, <1>2, <1>5, <2>1, <2>2
  <1>7. CASE \/ Flush \/ Close \/ \E t \in Targets \cup {None} : SetTarget(t)
    <2>1. /\ UNCHANGED <<buffer, accepted, delivered, failures>>
          /\ target' \in Targets \cup {None} /\ closed' \in BOOLEAN
          /\ \/ frames' = <<>>
             \/ \E c \in {"emit", "flush", "close"} : frames' = <<Frame(c)>>
      BY <1>1, <1>4, <1>7 DEF Flush, Close, SetTarget, BeginFlush, AtRest
    <2> QED
      BY <1>1, <1>2, <1>5, <2>1
  <1>8. CASE Hand
    <2>1. ~ AtRest /\ ~ Top.inTarget /\ Top.at <= Len(buffer)
      BY <1>8 DEF Hand, HasNext
    <2>2. Top \in FrameType /\ Given = Top.at - 1 /\ \A f : Within(f) = <<f>>
      BY <1>1, <2>1, OneFrame
    <2> DEFINE f == [Top EXCEPT !.inTarget = TRUE]
    <2>3. f \in FrameType /\ f.inTarget /\ f.at = Top.at /\ Top.at \in Nat
      BY <2>2 DEF FrameType
    <2>4. /\ delivered' = Append(delivered, buffer[Top.at])
          /\ frames' = <<f>>
          /\ UNCHANGED <<buffer, target, accepted, failures, closed>>
      BY <1>8, <2>2 DEF Hand
    <2> HIDE DEF f
    <2>5. /\ frames' \in Seq(FrameType) /\ Len(frames') = 1
          /\ GivenBy(frames') = Top.at
      BY <2>3, <2>4, SingleFrame
    <2>6. Top.at \in 1 .. Len(buffer)
      BY <1>1, <2>1, <2>2, <2>3
    <2>7. delivered' \in Seq(Records)
      BY <1>1, <2>4, <2>6
    <2> QED
      BY <1>1, <1>2, <2>4, <2>5, <2>6, <2>7
  <1>9. CASE TargetReturns
    <2>1. ~ AtRest /\ Top.inTarget
      BY <1>9 DEF TargetReturns
    <2>2. Top \in FrameType /\ Given = Top.at /\ \A f : Within(f) = <<f>>
      BY <1>1, <2>1, OneFrame
    <2> DEFINE f == [Top EXCEPT !.inTarget = FALSE, !.at = @ + 1]
    <2>3. f \in FrameType /\ ~ f.inTarget /\ f.at = Top.at + 1 /\ Top.at \in Nat
      BY <2>2, NextFrame
    <2>4. /\ frames' = <<f>>
          /\ UNCHANGED <<buffer, target, accepted, delivered, failures, closed>>
      BY <1>9, <2>2 DEF TargetReturns
    <2> HIDE DEF f
    <2>5. /\ frames' \in Seq(FrameType) /\ Len(frames') = 1
          /\ GivenBy(frames') = Given
      BY <2>2, <2>3, <2>4, SingleFrame
    <2> QED
      BY <1>1, <1>2, <2>4, <2>5
  <1>10. CASE TargetRaises \/ EndFlush
    <2>1. ~ AtRest
      BY <1>10 DEF TargetRaises, EndFlush, HasNext
    <2>2. Outer = <<>>
      BY <1>1, <2>1, OneFrame
    <2>3. /\ frames' = <<>> /\ target' \in Targets \cup {None}
          /\ UNCHANGED <<accepted, delivered, closed>>
          /\ failures' \in 0 .. MaxFailures
          /\ buffer' \in Seq(Records)
      <3>1. CASE TargetRaises
        <4>1. failures' \in 0 .. MaxFailures
          BY <1>1, <3>1, MemoryAssumption DEF TargetRaises
        <4> QED
          BY <1>1, <2>2, <3>1, <4>1 DEF TargetRaises, TargetAfter
      <3>2. CASE EndFlush
        BY <1>1, <2>2, <3>2, EmptySeq DEF EndFlush, TargetAfter
      <3> QED
        BY <1>10, <3>1, <3>2
    <2>4. Len(buffer') \in Nat
      BY <2>3
    <2> QED
      BY <1>1, <1>2, <2>3, <2>4, NoFrame
  <1> QED
    BY <1>3, <1>6, <1>7, <1>8, <1>9, <1>10 DEF Next

-----------------------------------------------------------------------------
(* What a step does to the records, in terms of how many of the buffer the  *)
(* target has been given.                                                   *)
Accepts ==
    \E r \in Records : /\ Given = 0 /\ Given' = 0
                       /\ buffer' = Append(buffer, r)
                       /\ accepted' = Append(accepted, r)
                       /\ delivered' = delivered

Hands ==
    /\ Given' = Given + 1 /\ Given + 1 \in 1 .. Len(buffer)
    /\ delivered' = Append(delivered, buffer[Given + 1])
    /\ UNCHANGED <<buffer, accepted>>

Keeps == Given' = Given /\ UNCHANGED <<buffer, accepted, delivered>>

StartsAgain ==
    failures' > 0 /\ Given' = 0 /\ UNCHANGED <<buffer, accepted, delivered>>

Clears ==
    /\ Given = Len(buffer) /\ Given' = 0
    /\ buffer' = <<>> /\ UNCHANGED <<accepted, delivered>>

LEMMA QuietEffects ==
    ASSUME Chatty = {}, MemoryBase, [Next]_vars
    PROVE  Accepts \/ Hands \/ Keeps \/ StartsAgain \/ Clears
  <1>1. /\ frames \in Seq(FrameType) /\ Len(frames) <= 1
        /\ Given \in 0 .. Len(buffer) /\ Len(buffer) \in Nat
    BY DEF MemoryBase, TypeOK, OneLoop, FrameType
  <1>2. AtRest => Given = 0
    BY NoFrame DEF AtRest, Given
  <1>3. Given' = GivenBy(frames')
    BY DEF Given
  <1>4. \A c \in {"emit", "flush", "close"} : GivenBy(<<Frame(c)>>) = 0
    <2> TAKE c \in {"emit", "flush", "close"}
    <2>1. Frame(c) \in FrameType /\ Frame(c).at = 1 /\ Frame(c).inTarget = FALSE
      BY DEF Frame, FrameType
    <2> QED
      BY <2>1, SingleFrame
  <1>5. ASSUME frames = <<>>, NEW c \in {"emit", "flush", "close"},
               BeginFlush(c) \/ frames' = frames
        PROVE  GivenBy(frames') = 0
    <2>1. frames' = <<>> \/ frames' = <<Frame(c)>>
      BY <1>5 DEF BeginFlush
    <2> QED
      BY <1>4, <2>1, NoFrame
  <1>6. CASE UNCHANGED vars
    BY <1>3, <1>6 DEF vars, Keeps, Given
  <1>7. ASSUME NEW r \in Records, Emit(r)
        PROVE  Accepts
    <2>1. /\ AtRest /\ (BeginFlush("emit") \/ frames' = frames)
          /\ buffer' = Append(buffer, r) /\ accepted' = Append(accepted, r)
          /\ delivered' = delivered
      BY <1>7 DEF Emit, Callable
    <2> QED
      BY <1>2, <1>3, <1>5, <2>1 DEF Accepts, AtRest
  <1>8. CASE \/ Flush \/ Close \/ \E t \in Targets \cup {None} : SetTarget(t)
    <2>1. /\ AtRest /\ UNCHANGED <<buffer, accepted, delivered>>
          /\ BeginFlush("flush") \/ BeginFlush("close") \/ frames' = frames
      BY <1>8 DEF Flush, Close, SetTarget
    <2>2. GivenBy(frames') = 0
      BY <1>5, <2>1 DEF AtRest
    <2> QED
      BY <1>2, <1>3, <2>1, <2>2 DEF Keeps
  <1>9. CASE Hand
    <2>1. ~ AtRest /\ ~ Top.inTarget /\ Top.at <= Len(buffer)
      BY <1>9 DEF Hand, HasNext
    <2>2. Top \in FrameType /\ Given = Top.at - 1 /\ \A f : Within(f) = <<f>>
      BY <1>1, <2>1, OneFrame
    <2> DEFINE f == [Top EXCEPT !.inTarget = TRUE]
    <2>3. f \in FrameType /\ f.inTarget /\ f.at = Top.at /\ Top.at \in Nat
      BY <2>2 DEF FrameType
    <2>4. /\ delivered' = Append(delivered, buffer[Top.at])
          /\ frames' = <<f>> /\ UNCHANGED <<buffer, accepted>>
      BY <1>9, <2>2 DEF Hand
    <2> HIDE DEF f
    <2>5. Given' = Top.at
      BY <1>3, <2>3, <2>4, SingleFrame
    <2>6. Top.at = Given + 1 /\ Given + 1 \in 1 .. Len(buffer)
      BY <1>1, <2>1, <2>2, <2>3
    <2> QED
      BY <2>4, <2>5, <2>6 DEF Hands
  <1>10. CASE TargetReturns
    <2>1. ~ AtRest /\ Top.inTarget
      BY <1>10 DEF TargetReturns
    <2>2. Top \in FrameType /\ Given = Top.at /\ \A f : Within(f) = <<f>>
      BY <1>1, <2>1, OneFrame
    <2> DEFINE f == [Top EXCEPT !.inTarget = FALSE, !.at = @ + 1]
    <2>3. f \in FrameType /\ ~ f.inTarget /\ f.at = Top.at + 1 /\ Top.at \in Nat
      BY <2>2, NextFrame
    <2>4. frames' = <<f>> /\ UNCHANGED <<buffer, accepted, delivered>>
      BY <1>10, <2>2 DEF TargetReturns
    <2> HIDE DEF f
    <2>5. Given' = Given
      BY <1>3, <2>2, <2>3, <2>4, SingleFrame
    <2> QED
      BY <2>4, <2>5 DEF Keeps
  <1>11. CASE TargetRaises
    <2>1. ~ AtRest
      BY <1>11 DEF TargetRaises, HasNext
    <2>2. frames' = <<>>
      BY <1>1, <1>11, <2>1, OneFrame DEF TargetRaises
    <2>3. Given' = 0
      BY <1>3, <2>2, NoFrame
    <2>4. failures' > 0
      BY <1>11, MemoryAssumption DEF TargetRaises, MemoryBase, TypeOK
    <2> QED
      BY <1>11, <2>3, <2>4 DEF TargetRaises, StartsAgain
  <1>12. CASE EndFlush
    <2>1. /\ ~ AtRest /\ ~ Top.inTarget /\ Top.at > Len(buffer)
          /\ buffer' = <<>> /\ UNCHANGED <<accepted, delivered>>
      BY <1>12 DEF EndFlush
    <2>2. frames' = <<>> /\ Given = Top.at - 1 /\ Top.at \in Nat
      BY <1>1, <1>12, <2>1, OneFrame DEF EndFlush, FrameType
    <2>3. Given' = 0 /\ Given = Len(buffer)
      BY <1>1, <1>3, <2>1, <2>2, NoFrame
    <2> QED
      BY <2>1, <2>3 DEF Clears
  <1> QED
    BY <1>6, <1>7, <1>8, <1>9, <1>10, <1>11, <1>12 DEF Next

-----------------------------------------------------------------------------
(* Nothing is lost: what the target has been given of the buffer is among   *)
(* the records delivered, so clearing the buffer loses nothing.             *)
HandedOver ==
    \A i \in 1 .. Given : \E j \in 1 .. Len(delivered) : delivered[j] = buffer[i]

KeepInv == MemoryBase /\ HandedOver /\ NothingLost

LEMMA NextKeep ==
    ASSUME Chatty = {}, KeepInv, [Next]_vars
    PROVE  KeepInv'
  <1>1. MemoryBase'
    BY NextBase DEF KeepInv
  <1>2. /\ buffer \in Seq(Records) /\ accepted \in Seq(Records)
        /\ delivered \in Seq(Records) /\ Given \in 0 .. Len(buffer)
    BY DEF KeepInv, MemoryBase, TypeOK, OneLoop
  <1>3. Accepts \/ Hands \/ Keeps \/ StartsAgain \/ Clears
    BY QuietEffects DEF KeepInv
  <1>4. CASE Accepts
    <2>1. PICK r \in Records : /\ Given' = 0 /\ delivered' = delivered
                               /\ buffer' = Append(buffer, r)
                               /\ accepted' = Append(accepted, r)
      BY <1>4 DEF Accepts
    <2>2. /\ Len(buffer') = Len(buffer) + 1 /\ Len(accepted') = Len(accepted) + 1
          /\ Len(buffer) \in Nat /\ Len(accepted) \in Nat
          /\ buffer'[Len(buffer) + 1] = r /\ accepted'[Len(accepted) + 1] = r
          /\ \A i \in 1 .. Len(buffer) : buffer'[i] = buffer[i]
          /\ \A i \in 1 .. Len(accepted) : accepted'[i] = accepted[i]
      BY <1>2, <2>1
    <2>3. HandedOver'
      BY <2>1 DEF HandedOver
    <2>4. NothingLost'
      BY <2>1, <2>2 DEF KeepInv, NothingLost
    <2> QED
      BY <1>1, <2>3, <2>4 DEF KeepInv
  <1>5. CASE Hands
    <2>1. /\ Given' = Given + 1 /\ Given + 1 \in 1 .. Len(buffer)
          /\ delivered' = Append(delivered, buffer[Given + 1])
          /\ UNCHANGED <<buffer, accepted>>
      BY <1>5 DEF Hands
    <2>2. /\ Len(delivered') = Len(delivered) + 1 /\ Len(delivered) \in Nat
          /\ delivered'[Len(delivered) + 1] = buffer[Given + 1]
          /\ \A i \in 1 .. Len(delivered) : delivered'[i] = delivered[i]
      BY <1>2, <2>1
    <2>3. \A i \in 1 .. Given' : i = Given + 1 \/ i \in 1 .. Given
      BY <1>2, <2>1
    <2>4. HandedOver'
      <3>1. ASSUME NEW i \in 1 .. Given + 1
            PROVE  \E j \in 1 .. Len(delivered) + 1 : delivered'[j] = buffer[i]
        <4>1. CASE i = Given + 1
          <5>1. Len(delivered) + 1 \in 1 .. Len(delivered) + 1
            BY <2>2
          <5> QED
            BY <2>2, <4>1, <5>1
        <4>2. CASE i \in 1 .. Given
          <5>1. PICK j \in 1 .. Len(delivered) : delivered[j] = buffer[i]
            BY <4>2 DEF KeepInv, HandedOver
          <5>2. j \in 1 .. Len(delivered) + 1
            BY <2>2
          <5> QED
            BY <2>2, <5>1, <5>2
        <4> QED
          BY <2>1, <2>3, <4>1, <4>2
      <3> QED
        BY <2>1, <2>2, <3>1 DEF HandedOver
    <2>5. NothingLost'
      BY <2>1, <2>2 DEF KeepInv, NothingLost
    <2> QED
      BY <1>1, <2>4, <2>5 DEF KeepInv
  <1>6. CASE Keeps \/ StartsAgain
    BY <1>1, <1>6 DEF Keeps, StartsAgain, KeepInv, HandedOver, NothingLost
  <1>7. CASE Clears
    <2>1. /\ Given = Len(buffer) /\ Given' = 0
          /\ buffer' = <<>> /\ UNCHANGED <<accepted, delivered>>
      BY <1>7 DEF Clears
    <2>2. HandedOver'
      BY <2>1 DEF HandedOver
    <2>3. NothingLost'
      BY <2>1 DEF KeepInv, HandedOver, NothingLost
    <2> QED
      BY <1>1, <2>2, <2>3 DEF KeepInv
  <1> QED
    BY <1>3, <1>4, <1>5, <1>6, <1>7

LEMMA InitKeep == Init => KeepInv
  <1> SUFFICES ASSUME Init
               PROVE  KeepInv
    OBVIOUS
  <1>1. MemoryBase /\ Given = 0
    BY InitBase, NoFrame DEF Init, Given
  <1>2. HandedOver /\ NothingLost
    BY <1>1 DEF Init, HandedOver, NothingLost
  <1> QED
    BY <1>1, <1>2 DEF KeepInv

(* As long as no target logs to the handler it serves, the buffer and the   *)
(* loops of flush() in progress stay well typed.                            *)
THEOREM MemoryTypesHold ==
    ASSUME Chatty = {}
    PROVE  Spec => []TypeOK
  <1>1. KeepInv /\ [Next]_vars => KeepInv'
    BY NextKeep
  <1>2. KeepInv => TypeOK
    BY DEF KeepInv, MemoryBase
  <1> QED
    BY <1>1, <1>2, InitKeep, PTL DEF Spec

(* As long as no target logs to the handler it serves, an accepted record   *)
(* is in the buffer or has been handed over, however often targets raise.   *)
THEOREM NothingLostHolds ==
    ASSUME Chatty = {}
    PROVE  Spec => []NothingLost
  <1>1. KeepInv /\ [Next]_vars => KeepInv'
    BY NextKeep
  <1>2. KeepInv => NothingLost
    BY DEF KeepInv
  <1> QED
    BY <1>1, <1>2, InitKeep, PTL DEF Spec

-----------------------------------------------------------------------------
(* What has been accepted is what has been delivered and then the rest of   *)
(* the buffer.                                                              *)
Aligned ==
    /\ Len(accepted) = Len(delivered) + Len(buffer) - Given
    /\ \A i \in 1 .. Len(delivered) : accepted[i] = delivered[i]
    /\ \A i \in Given + 1 .. Len(buffer) :
          accepted[Len(delivered) + i - Given] = buffer[i]

FifoInv == MemoryBase /\ (failures = 0 => Aligned)

LEMMA FailuresStay ==
    ASSUME MemoryBase, [Next]_vars, failures' = 0
    PROVE  failures = 0
  <1>1. failures \in Nat
    BY MemoryAssumption DEF MemoryBase, TypeOK
  <1>2. failures' = failures \/ failures' = failures + 1
    BY DEF Next, vars, Emit, SetTarget, Flush, Close, Hand, TargetReturns,
           TargetRaises, EndFlush
  <1> QED
    BY <1>1, <1>2

LEMMA NextFifo ==
    ASSUME Chatty = {}, FifoInv, [Next]_vars
    PROVE  FifoInv'
  <1>1. MemoryBase'
    BY NextBase DEF FifoInv
  <1> SUFFICES ASSUME failures' = 0
               PROVE  Aligned'
    BY <1>1 DEF FifoInv
  <1>0. failures = 0 /\ Aligned
    BY FailuresStay DEF FifoInv
  <1>2. /\ buffer \in Seq(Records) /\ accepted \in Seq(Records)
        /\ delivered \in Seq(Records) /\ Given \in 0 .. Len(buffer)
        /\ Len(buffer) \in Nat /\ Len(delivered) \in Nat /\ Len(accepted) \in Nat
    BY DEF FifoInv, MemoryBase, TypeOK, OneLoop
  <1>3. Accepts \/ Hands \/ Keeps \/ Clears
    BY QuietEffects DEF FifoInv, StartsAgain
  <1>4. CASE Accepts
    <2>1. PICK r \in Records : /\ Given = 0 /\ Given' = 0 /\ delivered' = delivered
                               /\ buffer' = Append(buffer, r)
                               /\ accepted' = Append(accepted, r)
      BY <1>4 DEF Accepts
    <2>2. /\ Len(buffer') = Len(buffer) + 1 /\ Len(accepted') = Len(accepted) + 1
          /\ buffer'[Len(buffer) + 1] = r /\ accepted'[Len(accepted) + 1] = r
          /\ \A i \in 1 .. Len(buffer) : buffer'[i] = buffer[i]
          /\ \A i \in 1 .. Len(accepted) : accepted'[i] = accepted[i]
      BY <1>2, <2>1
    <2>3. Len(accepted) = Len(delivered) + Len(buffer)
      BY <1>0, <1>2, <2>1 DEF Aligned
    <2>4. \A i \in 1 .. Len(delivered) : i \in 1 .. Len(accepted)
      BY <1>2, <2>3
    <2>5. \A i \in 1 .. Len(buffer) : Len(delivered) + i - 0 \in 1 .. Len(accepted)
      BY <1>2, <2>3
    <2>6. ASSUME NEW i \in 1 .. Len(buffer) + 1
          PROVE  accepted'[Len(delivered) + i - 0] = buffer'[i]
      <3>1. CASE i = Len(buffer) + 1
        BY <1>2, <2>2, <2>3, <3>1
      <3>2. CASE i # Len(buffer) + 1
        <4>1. i \in 1 .. Len(buffer) /\ i \in 0 + 1 .. Len(buffer)
          BY <1>2, <3>2
        <4> QED
          BY <1>0, <2>1, <2>2, <2>5, <4>1 DEF Aligned
      <3> QED
        BY <3>1, <3>2
    <2>7. Aligned'
      BY <1>0, <1>2, <2>1, <2>2, <2>3, <2>4, <2>6 DEF Aligned
    <2> QED
      BY <2>7
  <1>5. CASE Hands
    <2>1. /\ Given' = Given + 1 /\ Given + 1 \in 1 .. Len(buffer)
          /\ delivered' = Append(delivered, buffer[Given + 1])
          /\ UNCHANGED <<buffer, accepted>>
      BY <1>5 DEF Hands
    <2>2. /\ Len(delivered') = Len(delivered) + 1
          /\ delivered'[Len(delivered) + 1] = buffer[Given + 1]
          /\ \A i \in 1 .. Len(delivered) : delivered'[i] = delivered[i]
      BY <1>2, <2>1
    <2>3. accepted[Len(delivered) + 1] = buffer[Given + 1]
      <3>1. Given + 1 \in Given + 1 .. Len(buffer)
            /\ Len(delivered) + (Given + 1) - Given = Len(delivered) + 1
        BY <1>2, <2>1
      <3> QED
        BY <1>0, <3>1 DEF Aligned
    <2>4. \A i \in 1 .. Len(delivered) + 1 : accepted[i] = delivered'[i]
      <3>1. \A i \in 1 .. Len(delivered) : accepted[i] = delivered[i]
        BY <1>0 DEF Aligned
      <3>2. \A i \in 1 .. Len(delivered) + 1 :
               i = Len(delivered) + 1 \/ i \in 1 .. Len(delivered)
        BY <1>2
      <3> QED
        BY <2>2, <2>3, <3>1, <3>2
    <2>5. \A i \in Given + 1 + 1 .. Len(buffer) :
             /\ i \in Given + 1 .. Len(buffer)
             /\ Len(delivered) + 1 + i - (Given + 1) = Len(delivered) + i - Given
      BY <1>2
    <2>6. \A i \in Given + 1 + 1 .. Len(buffer) :
             accepted[Len(delivered) + 1 + i - (Given + 1)] = buffer[i]
      BY <1>0, <2>5 DEF Aligned
    <2>7. Len(accepted) = Len(delivered) + 1 + Len(buffer) - (Given + 1)
      BY <1>0, <1>2 DEF Aligned
    <2>8. Aligned'
      BY <1>0, <2>1, <2>2, <2>4, <2>6, <2>7 DEF Aligned
    <2> QED
      BY <2>8
  <1>6. CASE Keeps
    BY <1>0, <1>1, <1>6 DEF Keeps, Aligned
  <1>7. CASE Clears
    <2>1. /\ Given = Len(buffer) /\ Given' = 0
          /\ buffer' = <<>> /\ UNCHANGED <<accepted, delivered>>
      BY <1>7 DEF Clears
    <2>2. Aligned'
      BY <1>0, <1>2, <2>1 DEF Aligned
    <2> QED
      BY <2>2
  <1> QED
    BY <1>3, <1>4, <1>5, <1>6, <1>7

LEMMA InitFifo == Init => FifoInv
  <1> SUFFICES ASSUME Init
               PROVE  FifoInv
    OBVIOUS
  <1>1. MemoryBase /\ Given = 0
    BY InitBase, NoFrame DEF Init, Given
  <1>2. Aligned
    BY <1>1 DEF Init, Aligned
  <1> QED
    BY <1>1, <1>2 DEF FifoInv

LEMMA FifoFromAligned == FifoInv => Fifo
  <1> SUFFICES ASSUME FifoInv, AtRest, failures = 0
               PROVE  accepted = delivered \o buffer
    BY DEF Fifo
  <1>1. /\ buffer \in Seq(Records) /\ accepted \in Seq(Records)
        /\ delivered \in Seq(Records) /\ Given = 0
        /\ Len(buffer) \in Nat /\ Len(delivered) \in Nat
    BY NoFrame DEF FifoInv, MemoryBase, TypeOK, AtRest, Given
  <1>2. /\ delivered \o buffer \in Seq(Records)
        /\ Len(delivered \o buffer) = Len(delivered) + Len(buffer)
        /\ \A i \in 1 .. Len(delivered) + Len(buffer) :
              (delivered \o buffer)[i] =
                  IF i <= Len(delivered) THEN delivered[i] ELSE buffer[i - Len(delivered)]
    BY <1>1, ConcatProperties
  <1>3. Len(accepted) = Len(delivered) + Len(buffer)
    BY <1>1 DEF FifoInv, Aligned
  <1>4. ASSUME NEW i \in 1 .. Len(accepted)
        PROVE  accepted[i] = (delivered \o buffer)[i]
    <2>1. CASE i <= Len(delivered)
      <3>1. i \in 1 .. Len(delivered) /\ i \in 1 .. Len(delivered) + Len(buffer)
        BY <1>1, <1>3, <2>1
      <3> QED
        BY <1>2, <2>1, <3>1 DEF FifoInv, Aligned
    <2>2. CASE ~ i <= Len(delivered)
      <3> DEFINE k == i - Len(delivered)
      <3>1. /\ k \in 0 + 1 .. Len(buffer) /\ Len(delivered) + k - 0 = i
            /\ i \in 1 .. Len(delivered) + Len(buffer)
        BY <1>1, <1>3, <2>2
      <3>2. accepted[Len(delivered) + k - 0] = buffer[k]
        BY <1>1, <3>1 DEF FifoInv, Aligned
      <3> QED
        BY <1>2, <2>2, <3>1, <3>2
    <2> QED
      BY <2>1, <2>2
  <1> QED
    BY <1>1, <1>2, <1>3, <1>4, SeqEqual

(* With targets that do not log back, and for as long as none has raised,   *)
(* the handler is a queue: every record comes once, in order, across all    *)
(* calls.                                                                   *)
THEOREM FifoHolds ==
    ASSUME Chatty = {}
    PROVE  Spec => []Fifo
  <1>1. FifoInv /\ [Next]_vars => FifoInv'
    BY NextFifo
  <1> QED
    BY <1>1, InitFifo, FifoFromAligned, PTL DEF Spec
==============================================================================
