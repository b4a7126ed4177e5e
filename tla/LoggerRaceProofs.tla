--------------------------- MODULE LoggerRaceProofs ---------------------------
(***************************************************************************)
(* Proofs about LoggerRace for any names, threads and number of calls.      *)
(***************************************************************************)
EXTENDS LoggerRace, TLAPS

(* What a thread has in its locals.                                         *)
Locals ==
    [name : Names \cup {None}, rv : Loggers \cup {None},
     ph : Placeholders \cup {None}, todo : SUBSET Names,
     seen : SUBSET Loggers,
     size : {0} \cup {Cardinality(S) : S \in SUBSET Loggers},
     child : Loggers \cup {None}]

Making(t) == pc[t] \notin {"idle", "check"}

(* Where a thread is in its call: the logger it makes has the name asked    *)
(* for and is its own; the placeholder it has read is that of the name, or  *)
(* of the prefix it has climbed to; the child it moves is below the name.   *)
CallFits(t) ==
    /\ pc[t] # "idle" =>
          /\ self[t].name \in Names /\ self[t].todo \subseteq Above[self[t].name]
          /\ calls[t] \in 1 .. MaxCalls
    /\ Making(t) => self[t].rv = Logger(self[t].name, t, calls[t])
    /\ pc[t] = "store" /\ self[t].ph # None =>
          self[t].ph \in Placeholders /\ self[t].ph.name = self[t].name
    /\ pc[t] \in {"children", "move", "lift", "adopt"} =>
          self[t].ph \in Placeholders /\ self[t].ph.name = self[t].name
    /\ pc[t] \in {"lift", "adopt"} =>
          self[t].child \in Loggers /\ self[t].name \in Above[self[t].child.name]
    /\ pc[t] \in {"plant", "append"} => self[t].todo # {}
    /\ pc[t] = "append" =>
          self[t].ph \in Placeholders /\ self[t].ph.name = Prefix(t)

(* A logger's link leads upwards, or the call that made it is not over: in  *)
(* between _fixupChildren may give it a parent that is not above it, when   *)
(* another call has moved the child since its parent was compared.          *)
LinkedUp(o) ==
    \/ parent[o] = RootLogger
    \/ parent[o] \in Loggers /\ parent[o].name \in Above[o.name]

Sound(o) == LinkedUp(o) \/ \E t \in Threads : Making(t) /\ self[t].rv = o

RaceInv ==
    /\ TypeOK
    /\ self \in [Threads -> Locals]
    /\ \A t \in Threads : CallFits(t)
    /\ \A n \in Names : loggerDict[n] # None =>
          loggerDict[n].name = n /\ (loggerDict[n] \in Loggers => Sound(loggerDict[n]))
    /\ \A p \in Placeholders : \A c \in loggerMap[p] : p.name \in Above[c.name]
    /\ \A r \in returned : r[2].name = r[1] /\ Sound(r[2])
    /\ \A o \in Loggers : parent[o] # None => o \in children[parent[o]]

LEMMA RaceObjects ==
    /\ MaxCalls \in Nat
    /\ None \notin Loggers /\ None \notin Placeholders
    /\ RootLogger # None
    /\ \A o \in Loggers : o.name \in Names /\ o \notin Placeholders
    /\ \A p \in Placeholders : p.name \in Names
    /\ \A n \in Names, t \in Threads, k \in 1 .. MaxCalls :
          Logger(n, t, k) \in Loggers /\ Logger(n, t, k).name = n
    /\ \A n \in Names, o \in Loggers :
          Placeholder(n, o) \in Placeholders
          /\ Placeholder(n, o).name = n
    /\ \A e \in Loggers : Holds(e, "logger")
    /\ \A e \in Placeholders \cup {None} : ~ Holds(e, "logger")
  <1>1. /\ MaxCalls \in Nat
        /\ None \notin Loggers /\ None \notin Placeholders
        /\ RootLogger # None
    BY RaceAssumption
  <1>2. \A o \in Loggers : o.kind = "logger" /\ o.name \in Names
    BY DEF Loggers, Logger
  <1>3. \A p \in Placeholders : p.kind = "placeholder" /\ p.name \in Names
    BY DEF Placeholders, Placeholder
  <1>4. \A o \in Loggers : o \notin Placeholders
    BY <1>2, <1>3
  <1>5. \A n \in Names, t \in Threads, k \in 1 .. MaxCalls :
            Logger(n, t, k) \in Loggers /\ Logger(n, t, k).name = n
    BY DEF Loggers, Logger
  <1>6. \A n \in Names, o \in Loggers :
            Placeholder(n, o) \in Placeholders /\ Placeholder(n, o).name = n
    BY DEF Placeholders, Placeholder
  <1>7. /\ \A e \in Loggers : Holds(e, "logger")
        /\ \A e \in Placeholders \cup {None} : ~ Holds(e, "logger")
    BY <1>1, <1>2, <1>3 DEF Holds
  <1> QED
    BY <1>1, <1>2, <1>3, <1>4, <1>5, <1>6, <1>7

LEMMA SoundKept ==
    ASSUME NEW t \in Threads,
           \A u \in Threads : u # t => pc'[u] = pc[u] /\ self'[u] = self[u],
           \A o : Making(t) /\ self[t].rv = o =>
                    (Making(t)' /\ self'[t].rv = o) \/ LinkedUp(o)',
           NEW o,
           \/ parent'[o] = parent[o]
           \/ LinkedUp(o)' \/ (Making(t)' /\ self'[t].rv = o),
           Sound(o)
    PROVE  Sound(o)'
  <1>1. CASE LinkedUp(o)
    BY <1>1 DEF LinkedUp, Sound
  <1>2. ASSUME NEW u \in Threads, Making(u), self[u].rv = o
        PROVE  Sound(o)'
    <2>1. CASE u = t
      BY <1>2, <2>1 DEF Sound
    <2>2. CASE u # t
      BY <1>2, <2>2 DEF Sound, Making
    <2> QED
      BY <2>1, <2>2
  <1> QED
    BY <1>1, <1>2 DEF Sound

(* The step of one thread.                                                  *)
LEMMA RaceStep ==
    ASSUME RaceInv, NEW t \in Threads,
           TypeOK', self' \in [Threads -> Locals],
           \A u \in Threads : u # t =>
              pc'[u] = pc[u] /\ self'[u] = self[u] /\ calls'[u] = calls[u],
           CallFits(t)',
           \A o : Making(t) /\ self[t].rv = o =>
                    (Making(t)' /\ self'[t].rv = o) \/ LinkedUp(o)',
           \A o \in Loggers :
              \/ parent'[o] = parent[o]
              \/ /\ parent'[o] # None => o \in children'[parent'[o]]
                 /\ LinkedUp(o)' \/ (Making(t)' /\ self'[t].rv = o),
           \A p \in Loggers \cup {RootLogger} :
              children[p] \subseteq children'[p],
           \A n \in Names :
              \/ loggerDict'[n] = loggerDict[n]
              \/ loggerDict'[n] \in Placeholders /\ loggerDict'[n].name = n
              \/ loggerDict'[n].name = n /\ Making(t)' /\ self'[t].rv = loggerDict'[n],
           \A p \in Placeholders : \A c \in loggerMap'[p] :
              c \in loggerMap[p] \/ p.name \in Above[c.name],
           \A r \in returned' : r \in returned \/ (r[2].name = r[1] /\ Sound(r[2])')
    PROVE  RaceInv'
  <1>1. \A u \in Threads : CallFits(u)'
    <2> SUFFICES ASSUME NEW u \in Threads, u # t
                 PROVE  CallFits(u)'
      OBVIOUS
    <2>1. CallFits(u)
      BY DEF RaceInv
    <2>2. pc'[u] = pc[u] /\ self'[u] = self[u] /\ calls'[u] = calls[u]
      OBVIOUS
    <2> QED
      BY <2>1, <2>2 DEF CallFits, Making, Prefix
  <1>2. \A o \in Loggers : Sound(o) => Sound(o)'
    BY SoundKept
  <1>3. ASSUME NEW n \in Names, loggerDict'[n] # None
        PROVE  /\ loggerDict'[n].name = n
               /\ loggerDict'[n] \in Loggers => Sound(loggerDict[n])'
    <2>0. PICK e : e = loggerDict'[n]
      OBVIOUS
    <2>1. CASE e = loggerDict[n]
      <3>1. e.name = n /\ (e \in Loggers => Sound(e))
        BY <1>3, <2>0, <2>1 DEF RaceInv
      <3>2. e \in Loggers => Sound(e)'
        BY <1>2, <3>1
      <3> QED
        BY <2>0, <3>1, <3>2 DEF Sound, LinkedUp
    <2>2. CASE e \in Placeholders /\ e.name = n
      BY <2>0, <2>2, RaceObjects
    <2>3. CASE e.name = n /\ Making(t)' /\ self'[t].rv = e
      BY <2>0, <2>3 DEF Sound
    <2> QED
      BY <2>0, <2>1, <2>2, <2>3
  <1>4. \A p \in Placeholders : \A c \in loggerMap'[p] : p.name \in Above[c.name]
    BY DEF RaceInv
  <1>5. ASSUME NEW r \in returned'
        PROVE  r[2].name = r[1] /\ Sound(r[2])'
    <2>1. CASE r \in returned
      <3>1. r[2] \in Loggers
        BY <2>1 DEF RaceInv, TypeOK
      <3> QED
        BY <1>2, <2>1, <3>1 DEF RaceInv
    <2> QED
      BY <1>5, <2>1
  <1>6. ASSUME NEW o \in Loggers, parent'[o] # None
        PROVE  o \in children'[parent'[o]]
    <2>1. CASE parent'[o] = parent[o]
      <3>1. parent[o] \in Loggers \cup {RootLogger}
        BY <1>6, <2>1 DEF RaceInv, TypeOK
      <3> QED
        BY <1>6, <2>1, <3>1 DEF RaceInv
    <2> QED
      BY <1>6, <2>1
  <1> QED
    BY <1>1, <1>3, <1>4, <1>5, <1>6 DEF RaceInv

RaceLabels ==
    {"idle", "check", "store", "children", "move", "lift", "adopt", "climb", "plant",
     "append", "raised"}

(* A step in which the thread touches its locals only.                      *)
LEMMA LocalStep ==
    ASSUME RaceInv, NEW t \in Threads,
           UNCHANGED <<hierarchy, returned, history>>,
           NEW label \in RaceLabels, pc' = [pc EXCEPT ![t] = label],
           self' \in [Threads -> Locals],
           \A u \in Threads : u # t => self'[u] = self[u],
           CallFits(t)',
           Making(t) => Making(t)' /\ self'[t].rv = self[t].rv
    PROVE  RaceInv'
  <1>1. /\ UNCHANGED <<loggerDict, loggerMap, parent, children>>
        /\ UNCHANGED <<returned, calls, overlapped>>
    BY DEF hierarchy, history
  <1>2. TypeOK'
    BY <1>1 DEF RaceInv, TypeOK, RaceLabels
  <1>3. \A u \in Threads : u # t =>
            pc'[u] = pc[u] /\ self'[u] = self[u] /\ calls'[u] = calls[u]
    BY <1>1 DEF RaceInv, TypeOK
  <1> QED
    BY <1>1, <1>2, <1>3, RaceStep

LEMMA PrefixFacts ==
    ASSUME RaceInv, NEW t \in Threads, pc[t] # "idle", self[t].todo # {}
    PROVE  /\ Prefix(t) \in self[t].todo /\ Prefix(t) \in Names
           /\ Prefix(t) \in Above[self[t].name]
  <1>1. self[t].name \in Names /\ self[t].todo \in SUBSET Above[self[t].name]
    BY DEF RaceInv, CallFits
  <1>2. Above[self[t].name] \subseteq Names
    BY <1>1, NamesAssumption
  <1>3. Longest(self[t].todo) \in self[t].todo
    <2>1. PICK n \in Names : n = self[t].name
      BY <1>1
    <2>2. PICK S \in SUBSET Above[n] : S = self[t].todo
      BY <1>1, <2>1
    <2>3. Longest(S) \in S
      BY <2>1, <2>2, NamesAssumption, SMTT(30) DEF Longest
    <2> QED
      BY <2>2, <2>3
  <1> QED
    BY <1>1, <1>2, <1>3 DEF Prefix

LEMMA CallStep ==
    ASSUME RaceInv, NEW t \in Threads, NEW n \in Names,
           Call(t, n)
    PROVE  RaceInv'
  <1>1. /\ pc[t] = "idle" /\ pc' = [pc EXCEPT ![t] = "check"]
        /\ calls[t] < MaxCalls /\ calls' = [calls EXCEPT ![t] = calls[t] + 1]
        /\ self' = [self EXCEPT ![t] =
                       [NoLocals EXCEPT !.name = n, !.todo = Above[n]]]
        /\ UNCHANGED <<loggerDict, loggerMap, parent, children, returned>>
    BY DEF Call, Goto, hierarchy
  <1>2. /\ pc \in [Threads -> RaceLabels] /\ calls \in [Threads -> 0 .. MaxCalls]
        /\ self \in [Threads -> Locals] /\ MaxCalls \in Nat
        /\ overlapped \in BOOLEAN
    BY RaceObjects DEF RaceInv, TypeOK, RaceLabels
  <1>3. /\ calls'[t] \in 1 .. MaxCalls /\ calls' \in [Threads -> 0 .. MaxCalls]
        /\ pc' \in [Threads -> RaceLabels] /\ pc'[t] = "check"
    BY <1>1, <1>2 DEF RaceLabels
  <1>4. PICK s : s = [NoLocals EXCEPT !.name = n, !.todo = Above[n]]
    OBVIOUS
  <1>5. s \in Locals /\ s.name = n /\ s.todo = Above[n]
    BY <1>4, NamesAssumption DEF NoLocals, Locals
  <1>6. self' \in [Threads -> Locals] /\ self'[t] = s
    BY <1>1, <1>2, <1>4, <1>5
  <1>7. \A u \in Threads : u # t =>
            pc'[u] = pc[u] /\ self'[u] = self[u] /\ calls'[u] = calls[u]
    BY <1>1, <1>2
  <1>8. CallFits(t)'
    BY <1>3, <1>5, <1>6 DEF CallFits, Making
  <1>9. ~ Making(t)
    BY <1>1 DEF Making
  <1>10. overlapped' \in BOOLEAN
    BY DEF Call
  <1>11. TypeOK'
    BY <1>1, <1>3, <1>10 DEF RaceInv, TypeOK, RaceLabels
  <1> QED
    BY <1>1, <1>6, <1>7, <1>8, <1>9, <1>11, RaceStep

LEMMA CheckStep ==
    ASSUME RaceInv, NEW t \in Threads, Check(t)
    PROVE  RaceInv'
  <1>1. PICK e : e = loggerDict[self[t].name]
    OBVIOUS
  <1>2. /\ pc[t] = "check" /\ CallFits(t) /\ self[t] \in Locals
        /\ pc \in [Threads -> RaceLabels] /\ self \in [Threads -> Locals]
        /\ self[t].name \in Names /\ calls[t] \in 1 .. MaxCalls
    BY DEF Check, RaceInv, TypeOK, CallFits, RaceLabels
  <1>3. /\ UNCHANGED <<hierarchy, history>>
        /\ UNCHANGED <<loggerDict, loggerMap, parent, children, calls, overlapped>>
    BY DEF Check, hierarchy, history
  <1>4. /\ e \in Loggers \cup Placeholders \cup {None}
        /\ e # None => e.name = self[t].name
        /\ e \in Loggers => Sound(e)
    <2>1. None \notin Loggers
      BY RaceObjects
    <2>2. PICK n \in Names : n = self[t].name /\ e = loggerDict[n]
      BY <1>1, <1>2
    <2> QED
      BY <2>1, <2>2 DEF RaceInv, TypeOK
  <1>5. ~ Making(t)
    BY <1>2 DEF Making
  <1>6. CASE Holds(e, "logger")
    <2>1. e \in Loggers
      BY <1>4, <1>6, RaceObjects
    <2>2. /\ pc' = [pc EXCEPT ![t] = "idle"] /\ self' = [self EXCEPT ![t] = NoLocals]
          /\ returned' = returned \cup {<<self[t].name, e>>}
      BY <1>1, <1>6 DEF Check, Finish, Goto
    <2>3. NoLocals \in Locals
      BY DEF NoLocals, Locals
    <2>4. /\ self' \in [Threads -> Locals] /\ pc'[t] = "idle"
          /\ \A u \in Threads : u # t =>
                pc'[u] = pc[u] /\ self'[u] = self[u] /\ calls'[u] = calls[u]
      BY <1>2, <1>3, <2>2, <2>3
    <2>5. CallFits(t)'
      BY <2>4 DEF CallFits, Making
    <2>6. TypeOK'
      BY <1>2, <1>3, <2>1, <2>2 DEF RaceInv, TypeOK, RaceLabels
    <2>7. Sound(e)'
      BY <1>3, <1>4, <1>5, <2>1, <2>4, SoundKept
    <2>8. \A r \in returned' : r \in returned \/ (r[2].name = r[1] /\ Sound(r[2])')
      <3> SUFFICES ASSUME NEW r \in returned', r \notin returned
                   PROVE  r[2].name = r[1] /\ Sound(r[2])'
        OBVIOUS
      <3>1. r[1] = self[t].name /\ r[2] = e
        BY <2>2
      <3>2. e.name = self[t].name
        BY <1>4, <2>1, RaceObjects
      <3> QED
        BY <2>7, <3>1, <3>2
    <2> QED
      BY <1>3, <1>5, <2>4, <2>5, <2>6, <2>8, RaceStep
  <1>7. CASE ~ Holds(e, "logger")
    <2>1. e = None \/ (e \in Placeholders /\ e.name = self[t].name)
      BY <1>4, <1>7, RaceObjects
    <2>2. /\ pc' = [pc EXCEPT ![t] = "store"] /\ returned' = returned
          /\ self' = [self EXCEPT ![t] =
                         [self[t] EXCEPT !.ph = e,
                                         !.rv = Logger(self[t].name, t, calls[t])]]
      BY <1>1, <1>2, <1>7 DEF Check, Goto, Locals
    <2>3. PICK o : o = Logger(self[t].name, t, calls[t])
      OBVIOUS
    <2>4. o \in Loggers
      BY <1>2, <2>3, RaceObjects
    <2>5. /\ self'[t] \in Locals /\ self'[t].rv = o /\ self'[t].ph = e
          /\ self'[t].name = self[t].name /\ self'[t].todo = self[t].todo
          /\ self' \in [Threads -> Locals] /\ pc'[t] = "store"
          /\ \A u \in Threads : u # t => self'[u] = self[u]
      BY <1>2, <2>1, <2>2, <2>3, <2>4 DEF Locals
    <2>6. CallFits(t)'
      BY <1>2, <1>3, <2>1, <2>3, <2>5 DEF CallFits, Making
    <2> QED
      BY <1>3, <1>5, <2>2, <2>5, <2>6, LocalStep DEF RaceLabels
  <1> QED
    BY <1>6, <1>7

LEMMA StoreStep ==
    ASSUME RaceInv, NEW t \in Threads, Store(t)
    PROVE  RaceInv'
  <1>1. PICK label \in {"climb", "children"} :
            /\ pc' = [pc EXCEPT ![t] = label]
            /\ label = "children" => self[t].ph # None
    BY DEF Store, Goto
  <1>2. /\ pc[t] = "store" /\ CallFits(t) /\ Making(t)
        /\ pc \in [Threads -> RaceLabels] /\ self \in [Threads -> Locals]
        /\ self[t].name \in Names /\ calls[t] \in 1 .. MaxCalls
        /\ self[t].rv = Logger(self[t].name, t, calls[t])
    BY DEF Store, RaceInv, TypeOK, CallFits, RaceLabels, Making
  <1>3. self[t].rv \in Loggers /\ self[t].rv.name = self[t].name
    BY <1>2, RaceObjects
  <1>4. /\ loggerDict' = [loggerDict EXCEPT ![self[t].name] = self[t].rv]
        /\ UNCHANGED <<loggerMap, parent, children, self, returned, calls, overlapped>>
    BY DEF Store, history
  <1>5. TypeOK'
    BY <1>1, <1>2, <1>3, <1>4 DEF RaceInv, TypeOK, RaceLabels
  <1>6. /\ pc'[t] = label
        /\ \A u \in Threads : u # t =>
              pc'[u] = pc[u] /\ self'[u] = self[u] /\ calls'[u] = calls[u]
    BY <1>1, <1>2, <1>4
  <1>7. Making(t)' /\ self'[t] = self[t]
    BY <1>4, <1>6 DEF Making
  <1>8. CallFits(t)'
    BY <1>1, <1>2, <1>4, <1>6 DEF CallFits, Making
  <1>9. \A n \in Names :
            \/ loggerDict'[n] = loggerDict[n]
            \/ loggerDict'[n].name = n /\ Making(t)' /\ self'[t].rv = loggerDict'[n]
    BY <1>2, <1>3, <1>4, <1>7 DEF RaceInv, TypeOK
  <1> QED
    BY <1>2, <1>4, <1>5, <1>6, <1>7, <1>8, <1>9, RaceStep DEF RaceInv

LEMMA ChildrenSteps ==
    ASSUME RaceInv, NEW t \in Threads,
           \/ StartChildren(t) \/ TestChild(t) \/ TestRaises(t)
           \/ EndChildren(t)
    PROVE  RaceInv'
  <1>1. /\ pc[t] \in {"children", "move"} /\ CallFits(t) /\ Making(t)
        /\ self \in [Threads -> Locals] /\ pc \in [Threads -> RaceLabels]
        /\ self[t].ph \in Placeholders /\ self[t].ph.name = self[t].name
        /\ UNCHANGED <<hierarchy, returned, history>>
        /\ calls' = calls
    BY DEF StartChildren, TestChild, TestRaises, EndChildren,
           Raise, RaceInv, TypeOK, CallFits, RaceLabels, Making, history
  <1>2. /\ loggerMap[self[t].ph] \in SUBSET Loggers
        /\ \A c \in loggerMap[self[t].ph] : self[t].name \in Above[c.name]
    BY <1>1 DEF RaceInv, TypeOK
  <1>3. CASE StartChildren(t)
    <2>1. PICK k : k = Cardinality(loggerMap[self[t].ph])
      OBVIOUS
    <2>2. /\ pc' = [pc EXCEPT ![t] = "move"]
          /\ self' = [self EXCEPT ![t] = [self[t] EXCEPT !.size = k]]
      BY <1>3, <2>1 DEF StartChildren, Goto, Remembered
    <2>3. k \in {0} \cup {Cardinality(S) : S \in SUBSET Loggers}
      BY <1>2, <2>1
    <2>4. /\ self'[t] \in Locals /\ self'[t].rv = self[t].rv /\ self'[t].ph = self[t].ph
          /\ self'[t].name = self[t].name /\ self'[t].todo = self[t].todo
          /\ self' \in [Threads -> Locals] /\ pc'[t] = "move"
          /\ \A u \in Threads : u # t => self'[u] = self[u]
      BY <1>1, <2>2, <2>3 DEF Locals
    <2>5. CallFits(t)' /\ Making(t)'
      BY <1>1, <2>4 DEF CallFits, Making
    <2> QED
      BY <1>1, <2>2, <2>4, <2>5, LocalStep DEF RaceLabels
  <1>4. CASE TestChild(t)
    <2>0. PICK c \in Unseen(t) :
              /\ self' = [self EXCEPT ![t].seen = @ \cup {c}, ![t].child = c]
              /\ \E label \in {"lift", "move"} : pc' = [pc EXCEPT ![t] = label]
      BY <1>4 DEF TestChild, Goto
    <2>1. /\ self' = [self EXCEPT ![t] =
                         [self[t] EXCEPT !.seen = self[t].seen \cup {c}, !.child = c]]
          /\ \E label \in {"lift", "move"} : pc' = [pc EXCEPT ![t] = label]
      BY <1>1, <2>0 DEF Locals
    <2>2. PICK label \in {"lift", "move"} : pc' = [pc EXCEPT ![t] = label]
      BY <2>1
    <2>3. c \in Loggers /\ self[t].name \in Above[c.name]
      BY <1>2 DEF Unseen, Remembered
    <2>4. /\ self'[t] \in Locals /\ self'[t].rv = self[t].rv /\ self'[t].ph = self[t].ph
          /\ self'[t].name = self[t].name /\ self'[t].todo = self[t].todo
          /\ self'[t].child = c
          /\ self' \in [Threads -> Locals] /\ pc'[t] = label
          /\ \A u \in Threads : u # t => self'[u] = self[u]
      <3>1. PICK s : s = [self[t] EXCEPT !.seen = self[t].seen \cup {c}, !.child = c]
        OBVIOUS
      <3>2. self[t] \in Locals /\ self[t].seen \cup {c} \in SUBSET Loggers
        BY <1>1, <2>3 DEF Locals
      <3>3. /\ s \in Locals /\ s.rv = self[t].rv /\ s.ph = self[t].ph
            /\ s.name = self[t].name /\ s.todo = self[t].todo /\ s.child = c
        BY <2>3, <3>1, <3>2 DEF Locals
      <3>4. self' = [self EXCEPT ![t] = s]
        BY <2>1, <3>1
      <3> QED
        BY <1>1, <2>2, <3>3, <3>4
    <2>5. CallFits(t)' /\ Making(t)'
      BY <1>1, <2>3, <2>4 DEF CallFits, Making
    <2> QED
      BY <1>1, <2>2, <2>4, <2>5, LocalStep DEF RaceLabels
  <1>5. CASE TestRaises(t) \/ EndChildren(t)
    <2>1. PICK label \in {"climb", "raised"} : pc' = [pc EXCEPT ![t] = label]
      BY <1>5 DEF TestRaises, Raise, EndChildren, Goto
    <2>2. self' = self /\ pc'[t] = label
      BY <1>1, <1>5, <2>1 DEF TestRaises, Raise, EndChildren
    <2>3. CallFits(t)' /\ Making(t)'
      BY <1>1, <2>2 DEF CallFits, Making
    <2> QED
      BY <1>1, <2>1, <2>2, <2>3, LocalStep DEF RaceLabels
  <1> QED
    BY <1>3, <1>4, <1>5

(* Giving a logger a parent.                                                *)
LEMMA ParentStep ==
    ASSUME RaceInv, NEW o \in Loggers,
           NEW p \in Loggers \cup {RootLogger, None},
           SetParent(o, p)
    PROVE  /\ parent' \in [Loggers \cup {RootLogger} ->
                                  Loggers \cup {RootLogger, None}]
           /\ children' \in [Loggers \cup {RootLogger} -> SUBSET Loggers]
           /\ parent'[o] = p
           /\ \A q \in Loggers : q # o => parent'[q] = parent[q]
           /\ p # None => o \in children'[p]
           /\ \A q \in Loggers \cup {RootLogger} :
                 children[q] \subseteq children'[q]
  <1>1. /\ parent \in [Loggers \cup {RootLogger} ->
                              Loggers \cup {RootLogger, None}]
        /\ children \in [Loggers \cup {RootLogger} -> SUBSET Loggers]
    BY DEF RaceInv, TypeOK
  <1>2. /\ parent' = [parent EXCEPT ![o] = p]
        /\ children' = [children EXCEPT ![p] = children[p] \cup {o}]
    BY DEF SetParent
  <1>3. \A q \in Loggers \cup {RootLogger} :
            children'[q] = IF q = p THEN children[q] \cup {o} ELSE children[q]
    BY <1>1, <1>2
  <1> QED
    BY <1>1, <1>2, <1>3

LEMMA MoveSteps ==
    ASSUME RaceInv, NEW t \in Threads,
           Lift(t) \/ Adopt(t)
    PROVE  RaceInv'
  <1>1. PICK label \in {"adopt", "move"} : pc' = [pc EXCEPT ![t] = label]
    BY DEF Lift, Adopt, Goto
  <1>2. /\ pc[t] \in {"lift", "adopt"} /\ CallFits(t) /\ Making(t)
        /\ self \in [Threads -> Locals] /\ pc \in [Threads -> RaceLabels]
        /\ UNCHANGED <<loggerDict, loggerMap, self, returned, calls, overlapped>>
    BY DEF Lift, Adopt, history, RaceInv, TypeOK, CallFits,
           RaceLabels, Making
  <1>3. /\ self[t].name \in Names /\ calls[t] \in 1 .. MaxCalls
        /\ self[t].rv = Logger(self[t].name, t, calls[t])
        /\ self[t].child \in Loggers /\ self[t].name \in Above[self[t].child.name]
    BY <1>2 DEF CallFits
  <1>4. self[t].rv \in Loggers /\ self[t].rv.name = self[t].name
    BY <1>3, RaceObjects
  <1>5. /\ pc'[t] = label /\ Making(t)'
        /\ \A u \in Threads : u # t =>
              pc'[u] = pc[u] /\ self'[u] = self[u] /\ calls'[u] = calls[u]
    BY <1>1, <1>2 DEF Making
  <1>6. CallFits(t)'
    BY <1>2, <1>5 DEF CallFits, Making, Prefix
  <1>7. PICK o \in Loggers, p \in Loggers \cup {RootLogger, None} :
            /\ SetParent(o, p)
            /\ o = self[t].rv \/ (p \in Loggers /\ p.name \in Above[o.name])
    <2>1. CASE Lift(t)
      <3>1. parent[self[t].child] \in Loggers \cup {RootLogger, None}
        BY <1>3 DEF RaceInv, TypeOK
      <3> QED
        BY <1>4, <2>1, <3>1 DEF Lift
    <2>2. CASE Adopt(t)
      BY <1>3, <1>4, <2>2 DEF Adopt
    <2> QED
      BY <2>1, <2>2
  <1>8. /\ parent' \in [Loggers \cup {RootLogger} ->
                               Loggers \cup {RootLogger, None}]
        /\ children' \in [Loggers \cup {RootLogger} -> SUBSET Loggers]
        /\ parent'[o] = p
        /\ \A q \in Loggers : q # o => parent'[q] = parent[q]
        /\ p # None => o \in children'[p]
        /\ \A q \in Loggers \cup {RootLogger} :
              children[q] \subseteq children'[q]
    BY <1>7, ParentStep
  <1>9. TypeOK'
    BY <1>1, <1>2, <1>8 DEF RaceInv, TypeOK, RaceLabels
  <1>10. LinkedUp(o)' \/ (Making(t)' /\ self'[t].rv = o)
    BY <1>2, <1>5, <1>7, <1>8 DEF LinkedUp
  <1>11. \A q \in Loggers :
            \/ parent'[q] = parent[q]
            \/ /\ parent'[q] # None => q \in children'[parent'[q]]
               /\ LinkedUp(q)' \/ (Making(t)' /\ self'[t].rv = q)
    BY <1>8, <1>10
  <1>12. self' \in [Threads -> Locals] /\ \A q : Making(t) /\ self[t].rv = q =>
            (Making(t)' /\ self'[t].rv = q) \/ LinkedUp(q)'
    BY <1>2, <1>5
  <1>13. \A q \in Placeholders : \A c \in loggerMap'[q] : c \in loggerMap[q]
    BY <1>2
  <1> QED
    BY <1>2, <1>5, <1>6, <1>8, <1>9, <1>11, <1>12, <1>13, RaceStep

(* The climb: the next prefix is looked up, ...                             *)
LEMMA LookStep ==
    ASSUME RaceInv, NEW t \in Threads, Look(t)
    PROVE  RaceInv'
  <1>1. PICK e : e = loggerDict[Prefix(t)]
    OBVIOUS
  <1>2. /\ pc[t] = "climb" /\ CallFits(t) /\ Making(t) /\ self[t].todo # {}
        /\ self \in [Threads -> Locals] /\ pc \in [Threads -> RaceLabels]
        /\ UNCHANGED <<hierarchy, returned, history>> /\ calls' = calls
        /\ ~ Holds(e, "logger")
    BY <1>1 DEF Look, Climbing, Entry, history, RaceInv, TypeOK,
                RaceLabels, Making
  <1>3. Prefix(t) \in Names
    BY <1>2, PrefixFacts
  <1>4. e = None \/ (e \in Placeholders /\ e.name = Prefix(t))
    <2>1. /\ e \in Loggers \cup Placeholders \cup {None}
          /\ e # None => e.name = Prefix(t)
      BY <1>1, <1>3 DEF RaceInv, TypeOK
    <2> QED
      BY <1>2, <2>1, RaceObjects
  <1>5. PICK label \in {"plant", "append"} :
            /\ pc' = [pc EXCEPT ![t] = label]
            /\ label = "append" => e # None
            /\ self' = [self EXCEPT ![t] = [self[t] EXCEPT !.ph = e]]
    BY <1>1 DEF Look, Entry, Goto
  <1>6. /\ self'[t] \in Locals /\ self'[t].rv = self[t].rv /\ self'[t].ph = e
        /\ self'[t].name = self[t].name /\ self'[t].todo = self[t].todo
        /\ self' \in [Threads -> Locals] /\ pc'[t] = label
        /\ \A u \in Threads : u # t => self'[u] = self[u]
    BY <1>2, <1>4, <1>5 DEF Locals
  <1>7. Prefix(t)' = Prefix(t)
    BY <1>6 DEF Prefix
  <1>8. CallFits(t)' /\ Making(t)'
    BY <1>2, <1>4, <1>5, <1>6, <1>7 DEF CallFits, Making
  <1> QED
    BY <1>2, <1>5, <1>6, <1>8, LocalStep DEF RaceLabels

(* ... and given a placeholder, or one that is there remembers the logger.  *)
LEMMA RememberSteps ==
    ASSUME RaceInv, NEW t \in Threads,
           Plant(t) \/ AppendTo(t)
    PROVE  RaceInv'
  <1>1. /\ pc[t] \in {"plant", "append"} /\ CallFits(t) /\ Making(t)
        /\ self \in [Threads -> Locals] /\ pc \in [Threads -> RaceLabels]
        /\ self[t].todo # {}
        /\ UNCHANGED <<parent, children, returned, calls, overlapped>>
    BY DEF Plant, AppendTo, history, RaceInv, TypeOK, CallFits,
           RaceLabels, Making
  <1>2. PICK m : m = Prefix(t)
    OBVIOUS
  <1>3. m \in self[t].todo /\ m \in Names /\ m \in Above[self[t].name]
    BY <1>1, <1>2, PrefixFacts
  <1>4. /\ self[t].name \in Names /\ calls[t] \in 1 .. MaxCalls
        /\ self[t].rv = Logger(self[t].name, t, calls[t])
    BY <1>1 DEF CallFits
  <1>5. self[t].rv \in Loggers /\ self[t].rv.name = self[t].name
    BY <1>4, RaceObjects
  <1>6. /\ pc' = [pc EXCEPT ![t] = "climb"]
        /\ self' = [self EXCEPT ![t] = [self[t] EXCEPT !.todo = self[t].todo \ {m}]]
    BY <1>2 DEF Plant, AppendTo, Goto
  <1>7. /\ self'[t] \in Locals /\ self'[t].rv = self[t].rv
        /\ self'[t].name = self[t].name /\ self'[t].todo = self[t].todo \ {m}
        /\ self' \in [Threads -> Locals] /\ pc'[t] = "climb"
        /\ \A u \in Threads : u # t =>
              pc'[u] = pc[u] /\ self'[u] = self[u] /\ calls'[u] = calls[u]
    <2>1. self[t] \in Locals /\ self[t].todo \ {m} \in SUBSET Names
      BY <1>1 DEF Locals
    <2>2. PICK s : s = [self[t] EXCEPT !.todo = self[t].todo \ {m}]
      OBVIOUS
    <2>3. /\ s \in Locals /\ s.rv = self[t].rv /\ s.name = self[t].name
          /\ s.todo = self[t].todo \ {m}
      BY <2>1, <2>2 DEF Locals
    <2>4. self' = [self EXCEPT ![t] = s]
      BY <1>6, <2>2
    <2> QED
      BY <1>1, <1>6, <2>3, <2>4
  <1>8. CallFits(t)' /\ Making(t)'
    BY <1>1, <1>7 DEF CallFits, Making
  <1>9. PICK p \in Placeholders :
            /\ p.name = m
            /\ loggerMap' = [loggerMap EXCEPT ![p] = loggerMap'[p]]
            /\ loggerMap'[p] \subseteq loggerMap[p] \cup {self[t].rv}
            /\ \/ loggerDict' = loggerDict
               \/ loggerDict' = [loggerDict EXCEPT ![m] = p]
    <2>1. CASE Plant(t)
      <3>1. PICK p : p = Placeholder(m, self[t].rv)
        OBVIOUS
      <3>2. p \in Placeholders /\ p.name = m
        BY <1>3, <1>5, <3>1, RaceObjects
      <3>3. /\ loggerDict' = [loggerDict EXCEPT ![m] = p]
            /\ loggerMap' = [loggerMap EXCEPT ![p] = {self[t].rv}]
        BY <1>2, <2>1, <3>1 DEF Plant
      <3> QED
        BY <3>2, <3>3 DEF RaceInv, TypeOK
    <2>2. CASE AppendTo(t)
      <3>1. pc[t] = "append"
        BY <2>2 DEF AppendTo
      <3>2. self[t].ph \in Placeholders /\ self[t].ph.name = m
        BY <1>1, <1>2, <3>1 DEF CallFits
      <3>3. /\ loggerMap' = [loggerMap EXCEPT ![self[t].ph] = loggerMap[self[t].ph] \cup {self[t].rv}]
            /\ loggerDict' = loggerDict
        BY <2>2 DEF AppendTo
      <3> QED
        BY <3>2, <3>3 DEF RaceInv, TypeOK
    <2> QED
      BY <2>1, <2>2
  <1>10. /\ loggerMap' \in [Placeholders -> SUBSET Loggers]
         /\ \A q \in Placeholders : \A c \in loggerMap'[q] :
               c \in loggerMap[q] \/ q.name \in Above[c.name]
    <2>1. loggerMap \in [Placeholders -> SUBSET Loggers]
      BY DEF RaceInv, TypeOK
    <2>2. loggerMap'[p] \in SUBSET Loggers
      BY <1>5, <1>9, <2>1
    <2>3. \A q \in Placeholders : q # p => loggerMap'[q] = loggerMap[q]
      BY <1>9, <2>1
    <2>4. \A c \in loggerMap'[p] : c \in loggerMap[p] \/ p.name \in Above[c.name]
      BY <1>3, <1>5, <1>9
    <2> QED
      BY <1>9, <2>1, <2>2, <2>3, <2>4
  <1>11. /\ loggerDict' \in [Names -> Loggers \cup Placeholders \cup {None}]
         /\ \A n \in Names :
               \/ loggerDict'[n] = loggerDict[n]
               \/ loggerDict'[n] \in Placeholders /\ loggerDict'[n].name = n
    BY <1>3, <1>9 DEF RaceInv, TypeOK
  <1>12. TypeOK'
    BY <1>1, <1>6, <1>10, <1>11 DEF RaceInv, TypeOK, RaceLabels
  <1> QED
    BY <1>1, <1>7, <1>8, <1>10, <1>11, <1>12, RaceStep

(* The call ends by linking the logger it has made.                         *)
LEMMA LinkSteps ==
    ASSUME RaceInv, NEW t \in Threads,
           Link(t) \/ LinkRoot(t)
    PROVE  RaceInv'
  <1>1. /\ pc[t] = "climb" /\ CallFits(t) /\ Making(t)
        /\ self \in [Threads -> Locals] /\ pc \in [Threads -> RaceLabels]
    BY DEF Link, LinkRoot, Climbing, RaceInv, TypeOK, RaceLabels,
           Making
  <1>2. /\ self[t].name \in Names /\ calls[t] \in 1 .. MaxCalls
        /\ self[t].rv = Logger(self[t].name, t, calls[t])
    BY <1>1 DEF CallFits
  <1>3. PICK o : o = self[t].rv
    OBVIOUS
  <1>4. o \in Loggers /\ o.name = self[t].name
    BY <1>2, <1>3, RaceObjects
  <1>5. PICK p \in Loggers \cup {RootLogger} :
            /\ LinkTo(t, p)
            /\ p = RootLogger \/ (p \in Loggers /\ p.name \in Above[o.name])
    <2>1. CASE Link(t)
      <3>1. self[t].todo # {} /\ Holds(loggerDict[Prefix(t)], "logger")
        BY <2>1 DEF Link, Climbing, Entry
      <3>2. Prefix(t) \in Names /\ Prefix(t) \in Above[o.name]
        BY <1>1, <1>4, <3>1, PrefixFacts
      <3>3. PICK e : e = loggerDict[Prefix(t)]
        OBVIOUS
      <3>4. /\ e \in Loggers \cup Placeholders \cup {None}
            /\ e # None => e.name = Prefix(t)
        BY <3>2, <3>3 DEF RaceInv, TypeOK
      <3>5. e \in Loggers
        BY <3>1, <3>3, <3>4, RaceObjects
      <3>6. e.name = Prefix(t)
        BY <3>4, <3>5, RaceObjects
      <3> QED
        BY <2>1, <3>2, <3>3, <3>5, <3>6 DEF Link, Entry
    <2>2. CASE LinkRoot(t)
      BY <2>2 DEF LinkRoot
    <2> QED
      BY <2>1, <2>2
  <1>6. /\ SetParent(o, p)
        /\ pc' = [pc EXCEPT ![t] = "idle"] /\ self' = [self EXCEPT ![t] = NoLocals]
        /\ returned' = returned \cup {<<self[t].name, o>>}
        /\ UNCHANGED <<loggerDict, loggerMap, calls, overlapped>>
    BY <1>3, <1>5 DEF LinkTo, Finish, Goto, history
  <1>7. /\ parent' \in [Loggers \cup {RootLogger} ->
                               Loggers \cup {RootLogger, None}]
        /\ children' \in [Loggers \cup {RootLogger} -> SUBSET Loggers]
        /\ parent'[o] = p
        /\ \A q \in Loggers : q # o => parent'[q] = parent[q]
        /\ p # None => o \in children'[p]
        /\ \A q \in Loggers \cup {RootLogger} :
              children[q] \subseteq children'[q]
    BY <1>4, <1>5, <1>6, ParentStep
  <1>8. NoLocals \in Locals
    BY DEF NoLocals, Locals
  <1>9. /\ self' \in [Threads -> Locals] /\ pc'[t] = "idle"
        /\ \A u \in Threads : u # t =>
              pc'[u] = pc[u] /\ self'[u] = self[u] /\ calls'[u] = calls[u]
    BY <1>1, <1>6, <1>8
  <1>10. CallFits(t)'
    BY <1>9 DEF CallFits, Making
  <1>11. TypeOK'
    BY <1>1, <1>2, <1>4, <1>6, <1>7 DEF RaceInv, TypeOK, RaceLabels
  <1>12. LinkedUp(o)'
    BY <1>5, <1>7 DEF LinkedUp
  <1>13. \A r \in returned' : r \in returned \/ (r[2].name = r[1] /\ Sound(r[2])')
    <2> SUFFICES ASSUME NEW r \in returned', r \notin returned
                 PROVE  r[2].name = r[1] /\ Sound(r[2])'
      OBVIOUS
    <2>1. r[1] = self[t].name /\ r[2] = o
      BY <1>6
    <2>2. Sound(o)'
      BY <1>12 DEF Sound
    <2> QED
      BY <1>4, <2>1, <2>2
  <1>14. \A q \in Loggers :
            \/ parent'[q] = parent[q]
            \/ /\ parent'[q] # None => q \in children'[parent'[q]]
               /\ LinkedUp(q)' \/ (Making(t)' /\ self'[t].rv = q)
    BY <1>7, <1>12
  <1>15. \A q : Making(t) /\ self[t].rv = q =>
            (Making(t)' /\ self'[t].rv = q) \/ LinkedUp(q)'
    BY <1>3, <1>12
  <1>16. /\ \A n \in Names : loggerDict'[n] = loggerDict[n]
         /\ \A q \in Placeholders : \A c \in loggerMap'[q] : c \in loggerMap[q]
    BY <1>6
  <1> QED
    BY <1>7, <1>9, <1>10, <1>11, <1>13, <1>14, <1>15, <1>16, RaceStep

LEMMA RaceInvariant == Spec => []RaceInv
  <1>1. Init => RaceInv
    <2> SUFFICES ASSUME Init
                 PROVE  RaceInv
      OBVIOUS
    <2>1. NoLocals \in Locals
      BY DEF NoLocals, Locals
    <2>2. MaxCalls \in Nat
      BY RaceObjects
    <2>3. TypeOK /\ self \in [Threads -> Locals]
      <3>1. /\ pc \in [Threads -> RaceLabels] /\ calls \in [Threads -> 0 .. MaxCalls]
            /\ self \in [Threads -> Locals]
        BY <2>1, <2>2 DEF Init, RaceLabels
      <3>2. /\ loggerDict \in [Names -> Loggers \cup Placeholders \cup {None}]
            /\ loggerMap \in [Placeholders -> SUBSET Loggers]
        BY DEF Init
      <3>3. parent \in [Loggers \cup {RootLogger} ->
                               Loggers \cup {RootLogger, None}]
        BY DEF Init
      <3>4. children \in [Loggers \cup {RootLogger} -> SUBSET Loggers]
        BY DEF Init
      <3>5. returned \subseteq Names \X Loggers /\ overlapped \in BOOLEAN
        BY DEF Init
      <3> QED
        BY <3>1, <3>2, <3>3, <3>4, <3>5 DEF TypeOK, RaceLabels
    <2>4. \A t \in Threads : CallFits(t)
      BY DEF Init, CallFits, Making
    <2> QED
      BY <2>3, <2>4 DEF Init, RaceInv
  <1>2. RaceInv /\ [Next]_vars => RaceInv'
    <2> SUFFICES ASSUME RaceInv, [Next]_vars
                 PROVE  RaceInv'
      OBVIOUS
    <2>1. CASE UNCHANGED vars
      BY <2>1 DEF vars, hierarchy, history, RaceInv, TypeOK,
                  CallFits, Making, Prefix, Sound, LinkedUp
    <2>2. ASSUME NEW t \in Threads, Step(t)
          PROVE  RaceInv'
      BY <2>2, CheckStep, StoreStep, ChildrenSteps, MoveSteps, LookStep, RememberSteps,
         LinkSteps DEF Step
    <2> QED
      BY <2>1, <2>2, CallStep DEF Next
  <1> QED
    BY <1>1, <1>2, PTL DEF Spec

(* Types, however many threads call getLogger for whatever names.           *)
THEOREM RaceTypesHold == Spec => []TypeOK
  <1>1. RaceInv => TypeOK
    BY DEF RaceInv
  <1> QED
    BY <1>1, RaceInvariant, PTL

(* However getLogger calls have overlapped: when all have returned, the     *)
(* parent of every logger a call returned is the root or a logger above it, *)
(* and has it among its children.                                           *)
THEOREM RacingLinksDescend == Spec => []RestingLinksDescend
  <1>1. RaceInv => RestingLinksDescend
    <2> SUFFICES ASSUME RaceInv, Between, NEW r \in returned
                 PROVE  /\ parent[r[2]] # None
                        /\ \/ parent[r[2]] = RootLogger
                           \/ parent[r[2]].name \in Above[r[1]]
                        /\ r[2] \in children[parent[r[2]]]
      BY DEF RestingLinksDescend
    <2>1. r[2] \in Loggers /\ r[2].name = r[1] /\ Sound(r[2])
      BY DEF RaceInv, TypeOK
    <2>2. \A t \in Threads : ~ Making(t)
      BY DEF Between, Making
    <2>3. LinkedUp(r[2])
      BY <2>1, <2>2 DEF Sound
    <2>4. parent[r[2]] # None
      BY <2>3, RaceObjects DEF LinkedUp
    <2> QED
      BY <2>1, <2>3, <2>4 DEF LinkedUp, RaceInv
  <1> QED
    BY <1>1, RaceInvariant, PTL

-----------------------------------------------------------------------------
(***************************************************************************)
(* A call that no other overlaps: how far it has come with the hierarchy it *)
(* found, and that what it leaves is what LoggerTree's single step makes.   *)
(***************************************************************************)
Objects == Loggers \cup {RootLogger}

(* The loggers that have entries.                                           *)
Used(d) == {o \in Loggers : d[o.name] = o}

(* A hierarchy that no call is changing: the loggers that have entries are  *)
(* linked upwards, and nothing leads to others.                             *)
Rests(d, m, p, c) ==
    /\ d \in [Names -> Loggers \cup Placeholders \cup {None}]
    /\ m \in [Placeholders -> SUBSET Loggers]
    /\ p \in [Objects -> Objects \cup {None}]
    /\ c \in [Objects -> SUBSET Loggers]
    /\ \A n \in Names : d[n] # None => d[n].name = n
    /\ \A n \in Names : d[n] \in Placeholders =>
          \A o \in m[d[n]] : o \in Used(d) /\ n \in Above[o.name]
    /\ \A o \in Used(d) : \/ p[o] = RootLogger
                          \/ p[o] \in Used(d) /\ p[o].name \in Above[o.name]
    /\ p[RootLogger] = None
    /\ \A o \in Objects : c[o] \subseteq Used(d)
    /\ \A o \in Loggers \ Used(d) : c[o] = {}

(* The loggers that the placeholder of a name remembers, and those of a set *)
(* that move below a logger of that name.                                   *)
Below(d, m, n) == IF d[n] = None THEN {} ELSE m[d[n]]
ToMove(p, S, n) == {c \in S : p[c].name \notin TextExt[n]}

(* What a call has made of the links and of the entries: the new logger o   *)
(* has been put above some loggers, is the parent of some, and some         *)
(* prefixes of its name have been passed.                                   *)
LinkedBy(p, c, o, lifted, adopted) ==
    /\ \A x \in Objects \ {o} : parent[x] = IF x \in adopted THEN o ELSE p[x]
    /\ \A x \in Objects :
          children[x] = IF x = o THEN adopted
                        ELSE c[x] \cup (IF \E y \in lifted : p[y] = x THEN {o} ELSE {})

EnteredBy(d, m, n, o, passed) ==
    /\ loggerDict = [x \in Names |-> IF x = n THEN o
                                     ELSE IF x \in passed /\ d[x] = None
                                          THEN Placeholder(x, o)
                                     ELSE d[x]]
    /\ \A x \in Names :
          /\ d[x] \in Placeholders =>
                loggerMap[d[x]] = m[d[x]] \cup (IF x \in passed THEN {o} ELSE {})
          /\ d[x] = None /\ x \in passed => loggerMap[Placeholder(x, o)] = {o}

Done(t) == Above[self[t].name] \ self[t].todo

FixingChildren(t) == pc[t] \in {"children", "move", "lift", "adopt"}
FixingParents(t) == pc[t] \in {"climb", "plant", "append"}
InHand(t, labels) == IF pc[t] \in labels THEN {self[t].child} ELSE {}

(* How far a call has come with the hierarchy that it found.                *)
Progress(t, d, m, p, c) ==
    LET n == self[t].name
        o == self[t].rv
        moving == ToMove(p, self[t].seen, n)
    IN  /\ pc[t] \in {"check", "store"} =>
              loggerDict = d /\ loggerMap = m /\ parent = p /\ children = c
        /\ pc[t] # "check" => d[n] \notin Loggers
        /\ pc[t] = "store" \/ FixingChildren(t) => self[t].ph = d[n]
        /\ ~ FixingParents(t) => self[t].todo = Above[n]
        /\ pc[t] \in {"check", "store", "children"} => self[t].seen = {}
        /\ FixingChildren(t) => self[t].seen \subseteq Below(d, m, n)
        /\ FixingParents(t) => self[t].seen = Below(d, m, n)
        /\ pc[t] \in {"lift", "adopt"} => self[t].child \in moving
        /\ FixingChildren(t) \/ FixingParents(t) =>
              /\ EnteredBy(d, m, n, o, Done(t))
              /\ LinkedBy(p, c, o, moving \ InHand(t, {"lift"}),
                                   moving \ InHand(t, {"lift", "adopt"}))
        /\ \A a \in Done(t) : d[a] \notin Loggers /\ self[t].todo \subseteq Above[a]
        /\ pc[t] = "plant" => d[Prefix(t)] = None
        /\ pc[t] = "append" => self[t].ph = d[Prefix(t)]

(* As long as no call has overlapped another there is one at most, and the  *)
(* hierarchy is what it has made of the one it found, or is at rest.        *)
SoloInv ==
    ~ overlapped =>
        /\ \A t, u \in Threads : pc[t] # "idle" /\ pc[u] # "idle" => t = u
        /\ Between => Rests(loggerDict, loggerMap, parent, children)
        /\ ~ Between => Rests(before[1], before[2], before[3], before[4])
        /\ \A t \in Threads : pc[t] \notin {"idle", "raised"} =>
              Progress(t, before[1], before[2], before[3], before[4])

-----------------------------------------------------------------------------
(* What the lemmas below need of the call and what it found.                *)
LEMMA CallFacts ==
    ASSUME RaceInv, NEW t \in Threads, NEW d, NEW m, NEW p, NEW c,
           Rests(d, m, p, c), Progress(t, d, m, p, c), Making(t), pc[t] # "raised"
    PROVE  LET n == self[t].name
               o == self[t].rv
               moving == ToMove(p, self[t].seen, n)
           IN  /\ n \in Names /\ o \in Loggers /\ o.name = n
               /\ o \notin Used(d) /\ d[n] \notin Loggers
               /\ self[t] \in Locals
               /\ self[t].todo \subseteq Above[n] /\ Above[n] \subseteq Names
               /\ Below(d, m, n) \subseteq Used(d)
               /\ \A x \in Below(d, m, n) : n \in Above[x.name]
               /\ \A x \in Used(d) : p[x] \in Objects /\ p[x] # o /\ x # o
               /\ c[o] = {}
               /\ self[t].seen \subseteq Below(d, m, n)
  <1> DEFINE n == self[t].name
             o == self[t].rv
  <1>1. /\ n \in Names /\ self[t].todo \subseteq Above[n] /\ self[t] \in Locals
        /\ o = Logger(n, t, calls[t]) /\ calls[t] \in 1 .. MaxCalls
    BY DEF RaceInv, CallFits, Making
  <1>2. o \in Loggers /\ o.name = n
    BY <1>1, RaceObjects
  <1>3. d[n] \notin Loggers /\ d[n] \in Loggers \cup Placeholders \cup {None}
    BY <1>1 DEF Progress, Rests, Making
  <1>4. o \notin Used(d)
    BY <1>2, <1>3 DEF Used
  <1>5. c[o] = {}
    BY <1>2, <1>4 DEF Rests
  <1>6. /\ Below(d, m, n) \subseteq Used(d)
        /\ \A x \in Below(d, m, n) : n \in Above[x.name]
    BY <1>1, <1>3 DEF Below, Rests
  <1>7. \A x \in Used(d) : p[x] \in Objects /\ p[x] # o /\ x # o
    <2> SUFFICES ASSUME NEW x \in Used(d)
                 PROVE  p[x] \in Objects /\ p[x] # o /\ x # o
      OBVIOUS
    <2>1. p[x] = RootLogger \/ p[x] \in Used(d)
      BY DEF Rests
    <2>2. o # RootLogger
      BY <1>1, <1>2, NamesAssumption DEF RootLogger
    <2>3. Used(d) \subseteq Loggers
      BY DEF Used
    <2> QED
      BY <1>4, <2>1, <2>2, <2>3 DEF Objects
  <1>8. self[t].seen \subseteq Below(d, m, n)
    <2>1. pc[t] \in RaceLabels
      BY DEF RaceInv, TypeOK, RaceLabels
    <2> QED
      BY <2>1 DEF Progress, FixingChildren, FixingParents, RaceLabels, Making
  <1>9. Above[n] \subseteq Names
    BY <1>1, NamesAssumption
  <1> QED
    BY <1>1, <1>2, <1>3, <1>4, <1>5, <1>6, <1>7, <1>8, <1>9

LEMMA StoreProgress ==
    ASSUME RaceInv, NEW t \in Threads, NEW d, NEW m, NEW p, NEW c,
           Rests(d, m, p, c), Progress(t, d, m, p, c), Store(t)
    PROVE  Progress(t, d, m, p, c)'
  <1> DEFINE n == self[t].name
             o == self[t].rv
  <1>1. /\ pc[t] = "store" /\ loggerDict' = [loggerDict EXCEPT ![n] = o]
        /\ pc' = [pc EXCEPT ![t] = IF self[t].ph = None THEN "climb" ELSE "children"]
        /\ UNCHANGED <<loggerMap, parent, children, self>>
        /\ pc'[t] = IF self[t].ph = None THEN "climb" ELSE "children"
    BY DEF Store, Goto, RaceInv, TypeOK
  <1>2. /\ n \in Names /\ o \in Loggers /\ c[o] = {} /\ d[n] \notin Loggers
        /\ Above[n] \subseteq Names
    BY <1>1, CallFacts DEF Making
  <1>3. /\ loggerDict = d /\ loggerMap = m /\ parent = p /\ children = c
        /\ self[t].ph = d[n] /\ self[t].todo = Above[n] /\ self[t].seen = {}
    BY <1>1 DEF Progress, FixingParents
  <1>4. Done(t) = {} /\ Done(t)' = {}
    BY <1>1, <1>3 DEF Done
  <1>5. ToMove(p, self[t].seen, n) = {}
    BY <1>3 DEF ToMove
  <1>6. EnteredBy(d, m, n, o, {})'
    BY <1>1, <1>2, <1>3 DEF EnteredBy, Rests
  <1>7. LinkedBy(p, c, o, {}, {})'
    BY <1>1, <1>2, <1>3 DEF LinkedBy, Rests
  <1>8. self[t].ph = None => Below(d, m, n) = {}
    BY <1>3 DEF Below
  <1> QED
    BY <1>1, <1>2, <1>3, <1>4, <1>5, <1>6, <1>7, <1>8
    DEF Progress, FixingChildren, FixingParents, InHand

LEMMA EnteredKept ==
    ASSUME NEW d, NEW m, NEW n, NEW o, NEW passed, EnteredBy(d, m, n, o, passed),
           UNCHANGED <<loggerDict, loggerMap>>
    PROVE  EnteredBy(d, m, n, o, passed)'
  BY DEF EnteredBy

LEMMA LinkedKept ==
    ASSUME NEW p, NEW c, NEW o, NEW lifted, NEW adopted, LinkedBy(p, c, o, lifted, adopted),
           UNCHANGED <<parent, children>>
    PROVE  LinkedBy(p, c, o, lifted, adopted)'
  BY DEF LinkedBy

(* While children are fixed, no prefix has been passed and the placeholder  *)
(* remembers what it remembered.                                            *)
LEMMA FixingFacts ==
    ASSUME RaceInv, NEW t \in Threads, NEW d, NEW m, NEW p, NEW c,
           Rests(d, m, p, c), Progress(t, d, m, p, c), FixingChildren(t),
           NEW n, n = self[t].name, NEW o, o = self[t].rv
    PROVE  /\ EnteredBy(d, m, n, o, {})
           /\ self[t].ph = d[n] /\ self[t].todo = Above[n]
           /\ Remembered(t) = Below(d, m, n)
           /\ d[n] \notin Loggers /\ Done(t) = {}
  <1>1. /\ self[t].ph = d[n] /\ self[t].todo = Above[n]
        /\ d[n] \notin Loggers /\ EnteredBy(d, m, n, o, Done(t))
    BY DEF Progress, FixingParents, FixingChildren
  <1>2. Done(t) = {}
    BY <1>1 DEF Done
  <1>3. EnteredBy(d, m, n, o, {})
    BY <1>1, <1>2
  <1>4. n \in Names /\ d[n] \in Placeholders
    BY <1>1 DEF RaceInv, CallFits, FixingChildren
  <1>5. d[n] # None
    BY <1>4, RaceObjects
  <1>6. loggerMap[d[n]] = m[d[n]]
    BY <1>3, <1>4 DEF EnteredBy
  <1> QED
    BY <1>1, <1>2, <1>3, <1>5, <1>6 DEF Remembered, Below

(* What is to be shown of a step in which the call stays what it is.        *)
LEMMA FixingProgress ==
    ASSUME NEW t \in Threads, NEW d, NEW m, NEW p, NEW c,
           NEW n, self'[t].name = n, NEW o, self'[t].rv = o, d[n] \notin Loggers,
           self'[t].todo = Above[n], self'[t].ph = d[n],
           NEW S, self'[t].seen = S, S \subseteq Below(d, m, n),
           EnteredBy(d, m, n, o, {})', NEW e, self'[t].child = e,
           \/ /\ pc'[t] = "move"
              /\ LinkedBy(p, c, o, ToMove(p, S, n), ToMove(p, S, n))'
           \/ /\ pc'[t] \in {"lift", "adopt"} /\ e \in ToMove(p, S, n)
              /\ pc'[t] = "lift" =>
                    LinkedBy(p, c, o, ToMove(p, S, n) \ {e}, ToMove(p, S, n) \ {e})'
              /\ pc'[t] = "adopt" =>
                    LinkedBy(p, c, o, ToMove(p, S, n), ToMove(p, S, n) \ {e})'
    PROVE  Progress(t, d, m, p, c)'
  <1>1. Done(t)' = {}
    BY DEF Done
  <1>2. /\ pc'[t] = "move" \/ pc'[t] = "lift" \/ pc'[t] = "adopt"
        /\ FixingChildren(t)' /\ ~ FixingParents(t)'
    BY DEF FixingChildren, FixingParents
  <1>3. PICK lifted, adopted :
            /\ lifted = ToMove(p, S, n) \ InHand(t, {"lift"})'
            /\ adopted = ToMove(p, S, n) \ InHand(t, {"lift", "adopt"})'
            /\ LinkedBy(p, c, o, lifted, adopted)'
    <2>1. CASE pc'[t] = "move"
      BY <2>1 DEF InHand
    <2>2. CASE pc'[t] = "lift"
      BY <2>2 DEF InHand
    <2>3. CASE pc'[t] = "adopt"
      BY <2>3 DEF InHand
    <2> QED
      BY <1>2, <2>1, <2>2, <2>3
  <1> QED
    BY <1>1, <1>2, <1>3 DEF Progress

(* The next child is looked at, and moves or does not.                      *)
LEMMA ChildrenProgress ==
    ASSUME RaceInv, NEW t \in Threads, NEW d, NEW m, NEW p, NEW c,
           Rests(d, m, p, c), Progress(t, d, m, p, c),
           StartChildren(t) \/ TestChild(t)
    PROVE  Progress(t, d, m, p, c)'
  <1>1. /\ pc[t] \in {"children", "move"} /\ FixingChildren(t) /\ Making(t) /\ pc[t] # "raised"
        /\ UNCHANGED <<loggerDict, loggerMap, parent, children>>
        /\ self \in [Threads -> Locals] /\ pc \in [Threads -> RaceLabels]
    BY DEF StartChildren, TestChild, FixingChildren, Making, hierarchy, RaceInv, TypeOK, RaceLabels
  <1>2. PICK n, o, S, moving :
            /\ n = self[t].name /\ o = self[t].rv /\ S = self[t].seen
            /\ moving = ToMove(p, S, n)
    OBVIOUS
  <1>3. /\ n \in Names /\ o \in Loggers /\ o \notin Used(d) /\ self[t] \in Locals
        /\ Below(d, m, n) \subseteq Used(d) /\ S \subseteq Below(d, m, n)
    BY <1>1, <1>2, CallFacts
  <1>4. /\ EnteredBy(d, m, n, o, {}) /\ self[t].ph = d[n] /\ self[t].todo = Above[n]
        /\ Remembered(t) = Below(d, m, n) /\ d[n] \notin Loggers
    BY <1>1, <1>2, FixingFacts
  <1>5. EnteredBy(d, m, n, o, {})'
    BY <1>1, <1>4, EnteredKept
  <1>6. LinkedBy(p, c, o, moving, moving)
    BY <1>1, <1>2 DEF Progress, InHand
  <1>7. LinkedBy(p, c, o, moving, moving)'
    BY <1>1, <1>6, LinkedKept
  <1>8. CASE StartChildren(t)
    <2>1. /\ pc'[t] = "move" /\ self'[t].seen = S /\ self'[t].name = n
          /\ self'[t].rv = o /\ self'[t].ph = self[t].ph /\ self'[t].todo = self[t].todo
      BY <1>1, <1>2, <1>3, <1>8 DEF StartChildren, Goto, Locals, RaceLabels
    <2> QED
      BY <1>2, <1>3, <1>4, <1>5, <1>7, <2>1, FixingProgress
  <1>9. CASE TestChild(t)
    <2>1. PICK e \in Unseen(t) :
              /\ self' = [self EXCEPT ![t].seen = self[t].seen \cup {e}, ![t].child = e]
              /\ pc' = [pc EXCEPT ![t] = IF parent[e].name \notin TextExt[n]
                                         THEN "lift" ELSE "move"]
      BY <1>2, <1>9 DEF TestChild, Goto
    <2>2. /\ self'[t].seen = S \cup {e} /\ self'[t].child = e
          /\ self'[t].name = n /\ self'[t].rv = o /\ self'[t].ph = self[t].ph
          /\ self'[t].todo = self[t].todo
          /\ pc'[t] = IF parent[e].name \notin TextExt[n] THEN "lift" ELSE "move"
      BY <1>1, <1>2, <1>3, <2>1 DEF Locals, RaceLabels
    <2>3. e \in Below(d, m, n) /\ e \notin S
      BY <1>2, <1>4, <2>1 DEF Unseen
    <2>4. parent[e] = p[e]
      <3>1. e \in Objects \ {o} /\ e \notin moving
        BY <1>2, <1>3, <2>3 DEF Used, Objects, ToMove
      <3> QED
        BY <1>6, <3>1 DEF LinkedBy
    <2>5. CASE p[e].name \notin TextExt[n]
      <3>1. ToMove(p, S \cup {e}, n) \ {e} = moving /\ e \in ToMove(p, S \cup {e}, n)
        BY <1>2, <2>3, <2>5 DEF ToMove
      <3>2. pc'[t] = "lift"
        BY <2>2, <2>4, <2>5
      <3>3. LinkedBy(p, c, o, ToMove(p, S \cup {e}, n) \ {e}, ToMove(p, S \cup {e}, n) \ {e})'
        BY <1>7, <3>1
      <3> QED
        BY <1>3, <1>4, <1>5, <2>2, <2>3, <3>1, <3>2, <3>3, FixingProgress
    <2>6. CASE p[e].name \in TextExt[n]
      <3>1. ToMove(p, S \cup {e}, n) = moving
        BY <1>2, <2>6 DEF ToMove
      <3>2. pc'[t] = "move"
        BY <2>2, <2>4, <2>6
      <3>3. LinkedBy(p, c, o, ToMove(p, S \cup {e}, n), ToMove(p, S \cup {e}, n))'
        BY <1>7, <3>1
      <3> QED
        BY <1>3, <1>4, <1>5, <2>2, <2>3, <3>2, <3>3, FixingProgress
    <2> QED
      BY <2>5, <2>6
  <1> QED
    BY <1>8, <1>9

(* Lift puts the new logger below the child's parent, Adopt the child below *)
(* the new logger.                                                          *)
LEMMA MoveProgress ==
    ASSUME RaceInv, NEW t \in Threads, NEW d, NEW m, NEW p, NEW c,
           Rests(d, m, p, c), Progress(t, d, m, p, c),
           Lift(t) \/ Adopt(t)
    PROVE  Progress(t, d, m, p, c)'
  <1>1. /\ pc[t] \in {"lift", "adopt"} /\ FixingChildren(t) /\ Making(t) /\ pc[t] # "raised"
        /\ UNCHANGED <<loggerDict, loggerMap, self>>
        /\ pc \in [Threads -> RaceLabels]
        /\ parent \in [Objects -> Objects \cup {None}]
        /\ children \in [Objects -> SUBSET Loggers]
    BY DEF Lift, Adopt, FixingChildren, Making, RaceInv, TypeOK, RaceLabels, Objects
  <1>2. PICK n, o, S, e, moving, rest :
            /\ n = self[t].name /\ o = self[t].rv /\ S = self[t].seen /\ e = self[t].child
            /\ moving = ToMove(p, S, n) /\ rest = moving \ {e}
    OBVIOUS
  <1>3. /\ n \in Names /\ o \in Loggers /\ o \notin Used(d)
        /\ Below(d, m, n) \subseteq Used(d) /\ S \subseteq Below(d, m, n)
        /\ \A x \in Used(d) : p[x] \in Objects /\ p[x] # o /\ x # o
        /\ Used(d) \subseteq Loggers
    BY <1>1, <1>2, CallFacts DEF Used
  <1>4. /\ EnteredBy(d, m, n, o, {}) /\ self[t].ph = d[n] /\ self[t].todo = Above[n]
        /\ d[n] \notin Loggers
    BY <1>1, <1>2, FixingFacts
  <1>5. EnteredBy(d, m, n, o, {})'
    BY <1>1, <1>4, EnteredKept
  <1>6. /\ e \in moving
        /\ pc[t] = "lift" => LinkedBy(p, c, o, rest, rest)
        /\ pc[t] = "adopt" => LinkedBy(p, c, o, moving, rest)
    <2>1. PICK lifted, adopted :
              /\ e \in moving /\ LinkedBy(p, c, o, lifted, adopted)
              /\ lifted = moving \ InHand(t, {"lift"})
              /\ adopted = moving \ InHand(t, {"lift", "adopt"})
      BY <1>1, <1>2 DEF Progress
    <2>2. /\ pc[t] = "lift" => lifted = rest
          /\ pc[t] = "adopt" => lifted = moving
          /\ adopted = rest
      BY <1>1, <1>2, <2>1 DEF InHand
    <2> QED
      BY <2>1, <2>2
  <1>7. e \in Used(d) /\ e \in Objects \ {o} /\ e \notin rest /\ rest \cup {e} = moving
    BY <1>2, <1>3, <1>6 DEF ToMove, Objects
  <1>8. CASE Lift(t)
    <2>1. /\ pc[t] = "lift" /\ pc'[t] = "adopt"
          /\ parent' = [parent EXCEPT ![o] = parent[e]]
          /\ children' = [children EXCEPT ![parent[e]] = children[parent[e]] \cup {o}]
      BY <1>1, <1>2, <1>8 DEF Lift, Goto, SetParent, RaceLabels
    <2>2. LinkedBy(p, c, o, rest, rest)
      BY <1>6, <2>1
    <2>3. parent[e] = p[e] /\ p[e] \in Objects /\ p[e] # o
      BY <1>3, <1>7, <2>2 DEF LinkedBy
    <2>4. \A x \in Objects \ {o} : parent'[x] = IF x \in rest THEN o ELSE p[x]
      BY <1>1, <2>1, <2>2 DEF LinkedBy
    <2>5. \A x \in Objects :
              children'[x] = IF x = o THEN rest
                  ELSE c[x] \cup (IF \E y \in moving : p[y] = x THEN {o} ELSE {})
      BY <1>1, <1>7, <2>1, <2>2, <2>3 DEF LinkedBy
    <2>6. LinkedBy(p, c, o, moving, rest)'
      BY <2>4, <2>5 DEF LinkedBy
    <2> QED
      BY <1>1, <1>2, <1>3, <1>4, <1>5, <1>6, <2>1, <2>6, FixingProgress
  <1>9. CASE Adopt(t)
    <2>1. /\ pc[t] = "adopt" /\ pc'[t] = "move"
          /\ parent' = [parent EXCEPT ![e] = o]
          /\ children' = [children EXCEPT ![o] = children[o] \cup {e}]
      BY <1>1, <1>2, <1>9 DEF Adopt, Goto, SetParent, RaceLabels
    <2>2. LinkedBy(p, c, o, moving, rest)
      BY <1>6, <2>1
    <2>3. \A x \in Objects \ {o} : parent'[x] = IF x \in moving THEN o ELSE p[x]
      BY <1>1, <1>7, <2>1, <2>2 DEF LinkedBy
    <2>4. \A x \in Objects :
              children'[x] = IF x = o THEN moving
                  ELSE c[x] \cup (IF \E y \in moving : p[y] = x THEN {o} ELSE {})
      BY <1>1, <1>3, <1>7, <2>1, <2>2 DEF LinkedBy, Objects
    <2>5. LinkedBy(p, c, o, moving, moving)'
      BY <2>3, <2>4 DEF LinkedBy
    <2> QED
      BY <1>1, <1>2, <1>3, <1>4, <1>5, <2>1, <2>5, FixingProgress
  <1> QED
    BY <1>8, <1>9

LEMMA EndChildrenProgress ==
    ASSUME RaceInv, NEW t \in Threads, NEW d, NEW m, NEW p, NEW c,
           Rests(d, m, p, c), Progress(t, d, m, p, c), EndChildren(t)
    PROVE  Progress(t, d, m, p, c)'
  <1>1. /\ pc[t] = "move" /\ FixingChildren(t) /\ Making(t) /\ Unseen(t) = {}
        /\ UNCHANGED <<loggerDict, loggerMap, parent, children, self>>
        /\ pc'[t] = "climb"
    BY DEF EndChildren, Goto, FixingChildren, Making, hierarchy, RaceInv, TypeOK
  <1>2. PICK n, o, S :
            /\ n = self[t].name /\ o = self[t].rv /\ S = self[t].seen
    OBVIOUS
  <1>3. /\ EnteredBy(d, m, n, o, {}) /\ self[t].ph = d[n] /\ self[t].todo = Above[n]
        /\ d[n] \notin Loggers /\ Remembered(t) = Below(d, m, n) /\ Done(t) = {}
    BY <1>1, <1>2, FixingFacts
  <1>4. S = Below(d, m, n)
    <2>1. S \subseteq Below(d, m, n)
      BY <1>1, <1>2, CallFacts
    <2> QED
      BY <1>1, <1>2, <1>3, <2>1 DEF Unseen
  <1>5. LinkedBy(p, c, o, ToMove(p, S, n), ToMove(p, S, n))
    BY <1>1, <1>2 DEF Progress, InHand
  <1>6. EnteredBy(d, m, n, o, {})' /\ LinkedBy(p, c, o, ToMove(p, S, n), ToMove(p, S, n))'
    BY <1>1, <1>3, <1>5, EnteredKept, LinkedKept
  <1>7. Done(t)' = {}
    BY <1>1, <1>3 DEF Done
  <1> QED
    BY <1>1, <1>2, <1>3, <1>4, <1>6, <1>7
    DEF Progress, FixingChildren, FixingParents, InHand

(* The same for the climb over the prefixes.                                *)
ClimbsAt(t, d, m, p, c, n, o, T) ==
    /\ EnteredBy(d, m, n, o, Above[n] \ T)
    /\ LinkedBy(p, c, o, ToMove(p, Below(d, m, n), n), ToMove(p, Below(d, m, n), n))
    /\ self[t].seen = Below(d, m, n) /\ d[n] \notin Loggers
    /\ \A a \in Above[n] \ T : d[a] \notin Loggers /\ T \subseteq Above[a]
    /\ n \in Names /\ o \in Loggers /\ o.name = n /\ T \subseteq Above[n]
    /\ Above[n] \subseteq Names /\ n \notin Above[n] /\ self[t] \in Locals
    /\ pc[t] = "plant" => d[Longest(T)] = None
    /\ pc[t] = "append" => self[t].ph = d[Longest(T)]

LEMMA ClimbFacts ==
    ASSUME RaceInv, NEW t \in Threads, NEW d, NEW m, NEW p, NEW c,
           Rests(d, m, p, c), Progress(t, d, m, p, c), FixingParents(t),
           NEW n, n = self[t].name, NEW o, o = self[t].rv, NEW T, T = self[t].todo
    PROVE  ClimbsAt(t, d, m, p, c, n, o, T)
  <1>1. Making(t) /\ pc[t] # "raised" /\ pc[t] # "check"
    BY DEF FixingParents, Making
  <1>2. /\ n \in Names /\ o \in Loggers /\ o.name = n /\ T \subseteq Above[n]
        /\ Above[n] \subseteq Names /\ self[t] \in Locals
    BY <1>1, CallFacts
  <1>3. Above[n] \ T = Done(t)
    BY DEF Done
  <1>4. pc[t] \notin {"lift", "adopt"}
    BY DEF FixingParents
  <1>5. InHand(t, {"lift"}) = {} /\ InHand(t, {"lift", "adopt"}) = {}
    BY <1>4 DEF InHand
  <1>6. /\ EnteredBy(d, m, n, o, Done(t)) /\ self[t].seen = Below(d, m, n)
        /\ LinkedBy(p, c, o, ToMove(p, self[t].seen, n), ToMove(p, self[t].seen, n))
        /\ \A a \in Done(t) : d[a] \notin Loggers /\ T \subseteq Above[a]
        /\ d[n] \notin Loggers
    BY <1>1, <1>5 DEF Progress
  <1>7. n \notin Above[n]
    BY <1>2, NamesAssumption
  <1>8. /\ pc[t] = "plant" => d[Longest(T)] = None
        /\ pc[t] = "append" => self[t].ph = d[Longest(T)]
    BY DEF Progress, Prefix
  <1> QED
    BY <1>2, <1>3, <1>6, <1>7, <1>8 DEF ClimbsAt

LEMMA ClimbingProgress ==
    ASSUME NEW t \in Threads, NEW d, NEW m, NEW p, NEW c,
           NEW n, self'[t].name = n, NEW o, self'[t].rv = o, d[n] \notin Loggers,
           NEW T, self'[t].todo = T, self'[t].seen = Below(d, m, n),
           EnteredBy(d, m, n, o, Above[n] \ T)',
           LinkedBy(p, c, o, ToMove(p, Below(d, m, n), n), ToMove(p, Below(d, m, n), n))',
           \A a \in Above[n] \ T : d[a] \notin Loggers /\ T \subseteq Above[a],
           pc'[t] \in {"climb", "plant", "append"},
           pc'[t] = "plant" => d[Longest(T)] = None,
           pc'[t] = "append" => self'[t].ph = d[Longest(T)]
    PROVE  Progress(t, d, m, p, c)'
  <1>1. PICK passed, moving : /\ passed = Above[n] \ T
                              /\ moving = ToMove(p, Below(d, m, n), n)
    OBVIOUS
  <1>2. Done(t)' = passed
    BY <1>1 DEF Done
  <1>3. /\ InHand(t, {"lift"})' = {} /\ InHand(t, {"lift", "adopt"})' = {}
        /\ FixingParents(t)' /\ ~ FixingChildren(t)'
        /\ pc'[t] \notin {"check", "store", "children", "lift", "adopt"}
    BY DEF InHand, FixingParents, FixingChildren
  <1>4. EnteredBy(d, m, n, o, passed)' /\ LinkedBy(p, c, o, moving, moving)'
    BY <1>1
  <1>5. moving \ {} = moving
    OBVIOUS
  <1> QED
    BY <1>1, <1>2, <1>3, <1>4, <1>5 DEF Progress, Prefix

LEMMA LookProgress ==
    ASSUME RaceInv, NEW t \in Threads, NEW d, NEW m, NEW p, NEW c,
           Rests(d, m, p, c), Progress(t, d, m, p, c), Look(t)
    PROVE  Progress(t, d, m, p, c)'
  <1>1. PICK n, o, T, e, x :
            /\ n = self[t].name /\ o = self[t].rv /\ T = self[t].todo
            /\ x = Longest(T) /\ e = loggerDict[x]
    OBVIOUS
  <1>2. /\ pc[t] = "climb" /\ T # {} /\ FixingParents(t)
        /\ self' = [self EXCEPT ![t].ph = e]
        /\ pc' = [pc EXCEPT ![t] = IF e = None THEN "plant" ELSE "append"]
        /\ UNCHANGED <<loggerDict, loggerMap, parent, children>>
        /\ self \in [Threads -> Locals] /\ pc \in [Threads -> RaceLabels]
    BY <1>1 DEF Look, Climbing, Prefix, Entry, Goto, FixingParents, hierarchy, RaceInv,
                TypeOK, RaceLabels
  <1>3. /\ EnteredBy(d, m, n, o, Above[n] \ T)
        /\ LinkedBy(p, c, o, ToMove(p, Below(d, m, n), n), ToMove(p, Below(d, m, n), n))
        /\ self[t].seen = Below(d, m, n) /\ d[n] \notin Loggers
        /\ \A a \in Above[n] \ T : d[a] \notin Loggers /\ T \subseteq Above[a]
        /\ self[t] \in Locals /\ n \notin Above[n]
    <2>1. ClimbsAt(t, d, m, p, c, n, o, T)
      BY <1>1, <1>2, ClimbFacts
    <2> QED
      BY <1>1, <2>1 DEF ClimbsAt
  <1>4. /\ self'[t].name = n /\ self'[t].rv = o /\ self'[t].todo = T
        /\ self'[t].seen = Below(d, m, n) /\ self'[t].ph = e
        /\ pc'[t] = IF e = None THEN "plant" ELSE "append"
    BY <1>1, <1>2, <1>3 DEF Locals, RaceLabels
  <1>5. x \in T /\ x \in Names /\ x \in Above[n]
    BY <1>1, <1>2, PrefixFacts DEF Prefix
  <1>6. e = d[x]
    BY <1>1, <1>3, <1>5 DEF EnteredBy
  <1>7. /\ EnteredBy(d, m, n, o, Above[n] \ T)'
        /\ LinkedBy(p, c, o, ToMove(p, Below(d, m, n), n), ToMove(p, Below(d, m, n), n))'
    BY <1>2, <1>3, EnteredKept, LinkedKept
  <1> QED
    BY <1>1, <1>3, <1>4, <1>6, <1>7, ClimbingProgress

(* A prefix is passed: it gets a placeholder, or its placeholder one more   *)
(* logger to remember.                                                      *)
LEMMA PassProgress ==
    ASSUME RaceInv, NEW t \in Threads, NEW d, NEW m, NEW p, NEW c,
           Rests(d, m, p, c), Progress(t, d, m, p, c), Plant(t) \/ AppendTo(t)
    PROVE  Progress(t, d, m, p, c)'
  <1>1. PICK n, o, T, x :
            /\ n = self[t].name /\ o = self[t].rv /\ T = self[t].todo
            /\ x = Longest(T) /\ x = Prefix(t)
    BY DEF Prefix
  <1>2. /\ pc[t] \in {"plant", "append"} /\ FixingParents(t) /\ T # {}
        /\ self' = [self EXCEPT ![t].todo = self[t].todo \ {x}]
        /\ pc' = [pc EXCEPT ![t] = "climb"]
        /\ UNCHANGED <<parent, children>>
        /\ self \in [Threads -> Locals] /\ pc \in [Threads -> RaceLabels]
        /\ loggerMap \in [Placeholders -> SUBSET Loggers]
        /\ loggerDict \in [Names -> Loggers \cup Placeholders \cup {None}]
    BY <1>1 DEF Plant, AppendTo, Goto, FixingParents, RaceInv, TypeOK, RaceLabels, CallFits
  <1>3. /\ EnteredBy(d, m, n, o, Above[n] \ T)
        /\ LinkedBy(p, c, o, ToMove(p, Below(d, m, n), n), ToMove(p, Below(d, m, n), n))
        /\ self[t].seen = Below(d, m, n) /\ d[n] \notin Loggers
        /\ \A a \in Above[n] \ T : d[a] \notin Loggers /\ T \subseteq Above[a]
        /\ self[t] \in Locals /\ n \notin Above[n] /\ Above[n] \subseteq Names
        /\ n \in Names /\ o \in Loggers /\ T \subseteq Above[n]
        /\ pc[t] = "plant" => d[x] = None
        /\ pc[t] = "append" => self[t].ph = d[x]
    <2>1. ClimbsAt(t, d, m, p, c, n, o, T)
      BY <1>1, <1>2, ClimbFacts
    <2> QED
      BY <1>1, <2>1 DEF ClimbsAt
  <1>4. /\ self'[t].name = n /\ self'[t].rv = o /\ self'[t].todo = T \ {x}
        /\ self'[t].seen = Below(d, m, n) /\ pc'[t] = "climb"
    BY <1>1, <1>2, <1>3 DEF Locals, RaceLabels
  <1>5. x \in T /\ x \in Names /\ x \in Above[n] /\ x # n
    BY <1>1, <1>2, <1>3, PrefixFacts DEF FixingParents
  <1>6. T \ {x} \subseteq Above[x]
    <2>1. \E y \in T : T \ {y} \subseteq Above[y]
      BY <1>2, <1>3, NamesAssumption
    <2> QED
      BY <1>1, <2>1 DEF Longest
  <1>7. LinkedBy(p, c, o, ToMove(p, Below(d, m, n), n), ToMove(p, Below(d, m, n), n))'
    BY <1>2, <1>3, LinkedKept
  <1>8. Above[n] \ (T \ {x}) = (Above[n] \ T) \cup {x}
    BY <1>5
  <1>9. d[x] \notin Loggers
    BY <1>2, <1>3, <1>5, RaceObjects DEF RaceInv, CallFits
  <1>10. PICK passed : passed = Above[n] \ T
    OBVIOUS
  <1>11. EnteredBy(d, m, n, o, passed) /\ x \notin passed
    BY <1>3, <1>5, <1>10
  <1>12. EnteredBy(d, m, n, o, passed \cup {x})'
    <2>0. \A y \in Names : y # x /\ d[y] \in Placeholders => d[y].name = y
      BY RaceObjects DEF Rests
    <2>1. CASE Plant(t)
      <3>1. PICK q : q = Placeholder(x, o)
        OBVIOUS
      <3>2. /\ d[x] = None /\ q \in Placeholders /\ q.name = x
            /\ loggerDict' = [loggerDict EXCEPT ![x] = q]
            /\ loggerMap' = [loggerMap EXCEPT ![q] = {o}]
        BY <1>1, <1>3, <1>5, <2>1, <3>1, RaceObjects DEF Plant
      <3>3. loggerDict' = [y \in Names |-> IF y = n THEN o
                               ELSE IF y \in passed \cup {x} /\ d[y] = None
                                    THEN Placeholder(y, o)
                               ELSE d[y]]
        BY <1>2, <1>5, <1>11, <3>1, <3>2 DEF EnteredBy
      <3>4. ASSUME NEW y \in Names
            PROVE  /\ d[y] \in Placeholders =>
                         loggerMap'[d[y]] = m[d[y]] \cup (IF y \in passed \cup {x} THEN {o} ELSE {})
                   /\ d[y] = None /\ y \in passed \cup {x} => loggerMap'[Placeholder(y, o)] = {o}
        <4>1. CASE y = x
          BY <1>2, <3>1, <3>2, <4>1, RaceObjects
        <4>2. CASE y # x
          <5>1. Placeholder(y, o) # q /\ Placeholder(y, o) \in Placeholders
            BY <1>3, <3>2, <4>2, RaceObjects
          <5>2. d[y] \in Placeholders => d[y] # q
            BY <2>0, <3>2, <4>2
          <5> QED
            BY <1>2, <1>11, <3>2, <4>2, <5>1, <5>2 DEF EnteredBy
        <4> QED
          BY <4>1, <4>2
      <3> QED
        BY <3>3, <3>4 DEF EnteredBy
    <2>2. CASE AppendTo(t)
      <3>1. /\ d[x] \in Placeholders /\ loggerDict' = loggerDict
            /\ loggerMap' = [loggerMap EXCEPT ![d[x]] = loggerMap[d[x]] \cup {o}]
        BY <1>1, <1>3, <2>2 DEF AppendTo, RaceInv, CallFits
      <3>2. d[x] # None /\ d[x].name = x
        BY <1>5, <3>1, RaceObjects DEF Rests
      <3>3. ASSUME NEW y \in Names
            PROVE  /\ d[y] \in Placeholders =>
                         loggerMap'[d[y]] = m[d[y]] \cup (IF y \in passed \cup {x} THEN {o} ELSE {})
                   /\ d[y] = None /\ y \in passed \cup {x} => loggerMap'[Placeholder(y, o)] = {o}
        <4>1. CASE y = x
          BY <1>2, <1>11, <3>1, <3>2, <4>1 DEF EnteredBy
        <4>2. CASE y # x
          <5>1. Placeholder(y, o) # d[x] /\ Placeholder(y, o) \in Placeholders
            BY <1>3, <3>2, <4>2, RaceObjects
          <5>2. d[y] \in Placeholders => d[y] # d[x]
            BY <2>0, <3>2, <4>2
          <5> QED
            BY <1>2, <1>11, <3>1, <4>2, <5>1, <5>2 DEF EnteredBy
        <4> QED
          BY <4>1, <4>2
      <3>4. loggerDict' = [y \in Names |-> IF y = n THEN o
                               ELSE IF y \in passed \cup {x} /\ d[y] = None
                                    THEN Placeholder(y, o)
                               ELSE d[y]]
        BY <1>11, <3>1, <3>2 DEF EnteredBy
      <3> QED
        BY <3>3, <3>4 DEF EnteredBy
    <2> QED
      BY <2>1, <2>2
  <1>13. EnteredBy(d, m, n, o, Above[n] \ (T \ {x}))'
    BY <1>8, <1>10, <1>12
  <1>14. \A a \in Above[n] \ (T \ {x}) : d[a] \notin Loggers /\ T \ {x} \subseteq Above[a]
    BY <1>3, <1>6, <1>8, <1>9
  <1> QED
    BY <1>3, <1>4, <1>7, <1>13, <1>14, ClimbingProgress

-----------------------------------------------------------------------------
(* A call begins with the hierarchy it finds, ...                           *)
LEMMA CallProgress ==
    ASSUME RaceInv, NEW t \in Threads, NEW n \in Names, Call(t, n),
           NEW d, NEW m, NEW p, NEW c,
           d = loggerDict, m = loggerMap, p = parent, c = children
    PROVE  Progress(t, d, m, p, c)'
  <1>1. /\ pc'[t] = "check" /\ self'[t].name = n /\ self'[t].todo = Above[n]
        /\ self'[t].seen = {}
        /\ UNCHANGED <<loggerDict, loggerMap, parent, children>>
    BY DEF Call, Goto, NoLocals, hierarchy, RaceInv, TypeOK
  <1>2. Done(t)' = {}
    BY <1>1 DEF Done
  <1>3. ~ FixingChildren(t)' /\ ~ FixingParents(t)'
    BY <1>1 DEF FixingChildren, FixingParents
  <1> QED
    BY <1>1, <1>2, <1>3 DEF Progress

(* ... and goes on when no logger has the name.                             *)
LEMMA CheckProgress ==
    ASSUME RaceInv, NEW t \in Threads, NEW d, NEW m, NEW p, NEW c,
           Progress(t, d, m, p, c), Check(t), pc'[t] # "idle"
    PROVE  Progress(t, d, m, p, c)'
  <1>1. PICK n, e : n = self[t].name /\ e = loggerDict[n]
    OBVIOUS
  <1>2. /\ pc[t] = "check" /\ n \in Names
        /\ self \in [Threads -> Locals] /\ self[t] \in Locals /\ pc \in [Threads -> RaceLabels]
        /\ e \in Loggers \cup Placeholders \cup {None}
    BY <1>1 DEF Check, RaceInv, TypeOK, RaceLabels, CallFits
  <1>3. ~ Holds(e, "logger")
    BY <1>1, <1>2 DEF Check, Finish, Goto
  <1>4. e \notin Loggers
    BY <1>3, RaceObjects
  <1>5. /\ pc' = [pc EXCEPT ![t] = "store"]
        /\ self' = [self EXCEPT ![t].ph = e, ![t].rv = Logger(n, t, calls[t])]
        /\ UNCHANGED <<loggerDict, loggerMap, parent, children>>
    BY <1>1, <1>3 DEF Check, Goto, hierarchy
  <1>6. /\ pc'[t] = "store" /\ self'[t].name = n /\ self'[t].ph = e
        /\ self'[t].todo = self[t].todo /\ self'[t].seen = self[t].seen
    BY <1>1, <1>2, <1>5 DEF Locals, RaceLabels
  <1>7. /\ loggerDict = d /\ loggerMap = m /\ parent = p /\ children = c
        /\ self[t].todo = Above[n] /\ self[t].seen = {}
    BY <1>1, <1>2 DEF Progress, FixingParents
  <1>8. Done(t)' = {}
    BY <1>6, <1>7 DEF Done
  <1>9. ~ FixingChildren(t)' /\ ~ FixingParents(t)'
    BY <1>6 DEF FixingChildren, FixingParents
  <1> QED
    BY <1>1, <1>4, <1>5, <1>6, <1>7, <1>8, <1>9 DEF Progress

(* What a call that is over has made of the hierarchy.                      *)
Made(d, m, p, c, n, o, up, passed) ==
    LET moving == ToMove(p, Below(d, m, n), n)
    IN  /\ EnteredBy(d, m, n, o, passed)
        /\ \A x \in Objects :
              parent[x] = IF x = o THEN up ELSE IF x \in moving THEN o ELSE p[x]
        /\ \A x \in Objects :
              children[x] = (IF x = o THEN moving ELSE c[x])
                  \cup (IF x = up \/ \E y \in moving : p[y] = x THEN {o} ELSE {})

(* The parent and the prefixes passed on the way to it are those of the     *)
(* hierarchy: the names above n, up to the first that is a logger.          *)
PassedTo(d, n, up, passed) ==
    /\ passed \subseteq Above[n] /\ \A a \in passed : d[a] \notin Loggers
    /\ \/ up = RootLogger /\ passed = Above[n]
       \/ \E x \in Above[n] : /\ up = d[x] /\ d[x] \in Loggers
                              /\ \A a \in passed : x \in Above[a]
                              /\ \A a \in Above[n] \ passed : a = x \/ a \in Above[x]

LEMMA LinkMakes ==
    ASSUME RaceInv, NEW t \in Threads, NEW d, NEW m, NEW p, NEW c,
           Rests(d, m, p, c), Progress(t, d, m, p, c), Link(t) \/ LinkRoot(t)
    PROVE  \E n \in Names, o \in Loggers : \E up, passed :
              /\ o.name = n /\ d[n] \notin Loggers
              /\ PassedTo(d, n, up, passed)
              /\ Made(d, m, p, c, n, o, up, passed)'
  <1>1. PICK n, o, T, x, passed, moving :
            /\ n = self[t].name /\ o = self[t].rv /\ T = self[t].todo
            /\ x = Longest(T) /\ x = Prefix(t) /\ passed = Above[n] \ T
            /\ moving = ToMove(p, Below(d, m, n), n)
    BY DEF Prefix
  <1>2. pc[t] = "climb" /\ FixingParents(t) /\ Making(t) /\ pc[t] # "raised"
    BY DEF Link, LinkRoot, Climbing, FixingParents, Making
  <1>3. ClimbsAt(t, d, m, p, c, n, o, T)
    BY <1>1, <1>2, ClimbFacts
  <1>4. /\ EnteredBy(d, m, n, o, passed) /\ LinkedBy(p, c, o, moving, moving)
        /\ \A a \in passed : d[a] \notin Loggers /\ T \subseteq Above[a]
        /\ n \in Names /\ o \in Loggers /\ o.name = n /\ T \subseteq Above[n]
        /\ Above[n] \subseteq Names /\ n \notin Above[n] /\ d[n] \notin Loggers
    BY <1>1, <1>3 DEF ClimbsAt
  <1>5. PICK up :
            /\ up \in Objects
            /\ parent' = [parent EXCEPT ![o] = up]
            /\ children' = [children EXCEPT ![up] = children[up] \cup {o}]
            /\ UNCHANGED <<loggerDict, loggerMap>>
            /\ PassedTo(d, n, up, passed)
    <2>1. CASE Link(t)
      <3>1. /\ T # {} /\ Holds(loggerDict[x], "logger")
            /\ parent' = [parent EXCEPT ![o] = loggerDict[x]]
            /\ children' = [children EXCEPT ![loggerDict[x]] = children[loggerDict[x]] \cup {o}]
            /\ UNCHANGED <<loggerDict, loggerMap>>
        BY <1>1, <2>1 DEF Link, LinkTo, SetParent, Climbing, Entry
      <3>2. T \ {x} \subseteq Above[x] /\ x \in T
        <4>1. \E y \in T : T \ {y} \subseteq Above[y]
          BY <1>4, <3>1, NamesAssumption
        <4> QED
          BY <1>1, <4>1 DEF Longest
      <3>3. x \in Above[n] /\ x \in Names /\ x # n /\ x \notin passed
        BY <1>1, <1>4, <3>2
      <3>4. loggerDict[x] = d[x]
        BY <1>4, <3>3 DEF EnteredBy
      <3>5. d[x] \in Loggers
        BY <3>1, <3>3, <3>4, RaceObjects DEF Rests
      <3>6. PassedTo(d, n, d[x], passed)
        BY <1>1, <1>4, <3>2, <3>3, <3>5 DEF PassedTo
      <3> QED
        BY <3>1, <3>4, <3>5, <3>6 DEF Objects
    <2>2. CASE LinkRoot(t)
      <3>1. /\ T = {}
            /\ parent' = [parent EXCEPT ![o] = RootLogger]
            /\ children' = [children EXCEPT ![RootLogger] = children[RootLogger] \cup {o}]
            /\ UNCHANGED <<loggerDict, loggerMap>>
        BY <1>1, <2>2 DEF LinkRoot, LinkTo, SetParent
      <3>2. PassedTo(d, n, RootLogger, passed)
        BY <1>1, <1>4, <3>1 DEF PassedTo
      <3> QED
        BY <3>1, <3>2 DEF Objects
    <2> QED
      BY <2>1, <2>2
  <1>6. /\ parent \in [Objects -> Objects \cup {None}]
        /\ children \in [Objects -> SUBSET Loggers]
        /\ o \in Objects
    BY <1>4 DEF RaceInv, TypeOK, Objects
  <1>7. /\ \A y \in Used(d) : p[y] \in Objects /\ p[y] # o /\ y # o
        /\ moving \subseteq Used(d) /\ o \notin Used(d)
    BY <1>1, <1>2, CallFacts DEF ToMove
  <1>8. up # o
    <2>1. CASE up = RootLogger
      BY <1>4, <2>1, NamesAssumption DEF RootLogger
    <2>2. ASSUME NEW y \in Above[n], up = d[y], d[y] \in Loggers
          PROVE  up # o
      BY <1>4, <2>2, RaceObjects DEF Rests
    <2> QED
      BY <1>5, <2>1, <2>2 DEF PassedTo
  <1>9. EnteredBy(d, m, n, o, passed)'
    BY <1>4, <1>5, EnteredKept
  <1>10. \A y \in Objects :
              parent'[y] = IF y = o THEN up ELSE IF y \in moving THEN o ELSE p[y]
    BY <1>4, <1>5, <1>6 DEF LinkedBy
  <1>11. \A y \in Objects :
              children'[y] = (IF y = o THEN moving ELSE c[y])
                  \cup (IF y = up \/ \E z \in moving : p[z] = y THEN {o} ELSE {})
    <2> SUFFICES ASSUME NEW y \in Objects
                 PROVE  children'[y] = (IF y = o THEN moving ELSE c[y])
                            \cup (IF y = up \/ \E z \in moving : p[z] = y THEN {o} ELSE {})
      OBVIOUS
    <2>1. children[y] = IF y = o THEN moving
                        ELSE c[y] \cup (IF \E z \in moving : p[z] = y THEN {o} ELSE {})
      BY <1>4 DEF LinkedBy
    <2>2. children'[y] = children[y] \cup (IF y = up THEN {o} ELSE {})
      BY <1>5, <1>6
    <2>3. ~ \E z \in moving : p[z] = o
      BY <1>7
    <2> QED
      BY <1>8, <2>1, <2>2, <2>3
  <1>12. Made(d, m, p, c, n, o, up, passed)'
    BY <1>1, <1>9, <1>10, <1>11 DEF Made
  <1> QED
    BY <1>4, <1>5, <1>12

(* Such a hierarchy is at rest again.                                       *)
LEMMA MadeRests ==
    ASSUME TypeOK', NEW d, NEW m, NEW p, NEW c, Rests(d, m, p, c),
           NEW n \in Names, NEW o \in Loggers, NEW up, NEW passed,
           o.name = n, d[n] \notin Loggers, PassedTo(d, n, up, passed),
           Made(d, m, p, c, n, o, up, passed)'
    PROVE  Rests(loggerDict, loggerMap, parent, children)'
  <1>1. PICK moving : moving = ToMove(p, Below(d, m, n), n)
    OBVIOUS
  <1>2. /\ loggerDict' \in [Names -> Loggers \cup Placeholders \cup {None}]
        /\ loggerMap' \in [Placeholders -> SUBSET Loggers]
        /\ parent' \in [Objects -> Objects \cup {None}]
        /\ children' \in [Objects -> SUBSET Loggers]
    BY DEF TypeOK, Objects
  <1>3. /\ loggerDict' = [x \in Names |-> IF x = n THEN o
                              ELSE IF x \in passed /\ d[x] = None THEN Placeholder(x, o)
                              ELSE d[x]]
        /\ \A x \in Names :
              /\ d[x] \in Placeholders =>
                    loggerMap'[d[x]] = m[d[x]] \cup (IF x \in passed THEN {o} ELSE {})
              /\ d[x] = None /\ x \in passed => loggerMap'[Placeholder(x, o)] = {o}
    BY DEF Made, EnteredBy
  <1>4. /\ \A x \in Objects :
              parent'[x] = IF x = o THEN up ELSE IF x \in moving THEN o ELSE p[x]
        /\ \A x \in Objects :
              children'[x] = (IF x = o THEN moving ELSE c[x])
                  \cup (IF x = up \/ \E y \in moving : p[y] = x THEN {o} ELSE {})
    BY <1>1 DEF Made
  <1>5. /\ d \in [Names -> Loggers \cup Placeholders \cup {None}]
        /\ d[n] \in Placeholders \/ d[n] = None
        /\ Above[n] \subseteq Names /\ n \notin Above[n]
    BY NamesAssumption DEF Rests
  <1>6. o \notin Used(d) /\ Used(d) \subseteq Loggers
    BY DEF Used
  <1>7. Used(d)' = Used(d) /\ Used(loggerDict') = Used(d) \cup {o}
    <2>1. ASSUME NEW q \in Loggers
          PROVE  loggerDict'[q.name] = q <=> q = o \/ d[q.name] = q
      <3>1. q.name \in Names /\ q \notin Placeholders
        BY RaceObjects
      <3>2. CASE q.name = n
        BY <1>3, <3>1, <3>2
      <3>3. CASE q.name # n
        BY <1>3, <3>1, <3>3, RaceObjects
      <3> QED
        BY <3>2, <3>3
    <2> QED
      BY <2>1 DEF Used
  <1>8. moving \subseteq Used(d) /\ \A y \in moving : n \in Above[y.name]
    BY <1>1, <1>5 DEF ToMove, Below, Rests
  <1>9. up = RootLogger \/ (up \in Used(d) /\ up.name \in Above[n])
    BY <1>5, RaceObjects DEF PassedTo, Rests, Used
  <1>10. \A x \in Names : loggerDict'[x] # None => loggerDict'[x].name = x
    BY <1>3, RaceObjects DEF Rests
  <1>11. ASSUME NEW x \in Names, loggerDict'[x] \in Placeholders,
                NEW q \in loggerMap'[loggerDict'[x]]
         PROVE  q \in Used(loggerDict') /\ x \in Above[q.name]
    <2>1. x # n /\ Above[n] \subseteq Names
      BY <1>3, <1>5, <1>11, RaceObjects
    <2>2. CASE x \in passed /\ d[x] = None
      <3>1. q = o
        BY <1>3, <1>11, <2>1, <2>2
      <3> QED
        BY <1>7, <2>2, <3>1 DEF PassedTo
    <2>3. CASE ~ (x \in passed /\ d[x] = None)
      <3>1. loggerDict'[x] = d[x] /\ d[x] \in Placeholders
        BY <1>3, <1>11, <2>1, <2>3
      <3>2. q \in m[d[x]] \/ (q = o /\ x \in passed)
        BY <1>3, <1>11, <3>1
      <3> QED
        BY <1>7, <3>1, <3>2 DEF PassedTo, Rests
    <2> QED
      BY <2>2, <2>3
  <1>12. ASSUME NEW q \in Used(loggerDict')
         PROVE  \/ parent'[q] = RootLogger
                \/ parent'[q] \in Used(loggerDict') /\ parent'[q].name \in Above[q.name]
    <2>1. CASE q = o
      BY <1>4, <1>7, <1>9, <2>1 DEF Objects
    <2>2. CASE q # o
      BY <1>4, <1>6, <1>7, <1>8, <2>2 DEF Objects, Rests
    <2> QED
      BY <2>1, <2>2
  <1>13. parent'[RootLogger] = None
    <2>1. RootLogger # o /\ RootLogger \notin Loggers
      BY RaceObjects, NamesAssumption DEF RootLogger
    <2> QED
      BY <1>4, <1>6, <1>8, <2>1 DEF Objects, Rests
  <1>14. \A q \in Objects : children'[q] \subseteq Used(loggerDict')
    BY <1>4, <1>7, <1>8 DEF Rests
  <1>15. ASSUME NEW q \in Loggers \ Used(loggerDict')
         PROVE  children'[q] = {}
    <2>1. RootLogger \notin Loggers
      BY RaceObjects, NamesAssumption DEF RootLogger
    <2>2. q # o /\ q \notin Used(d) /\ q # up
      BY <1>7, <1>9, <2>1
    <2>3. \A y \in moving : p[y] # q
      BY <1>8, <2>1, <2>2 DEF Rests
    <2>4. c[q] = {}
      BY <2>2 DEF Rests
    <2> QED
      BY <1>4, <2>2, <2>3, <2>4 DEF Objects
  <1>16. PICK d2, m2, p2, c2 : /\ d2 = loggerDict' /\ m2 = loggerMap'
                               /\ p2 = parent' /\ c2 = children'
    OBVIOUS
  <1>17. Rests(d2, m2, p2, c2)
    BY <1>2, <1>10, <1>11, <1>12, <1>13, <1>14, <1>15, <1>16 DEF Rests
  <1> QED
    BY <1>16, <1>17

-----------------------------------------------------------------------------
Unwatched == UNCHANGED <<dict, maps, prnt, chld>>

(* What a step does to a call that is alone, and to the hierarchy as it is  *)
(* between calls.                                                           *)
LEMMA SoloContinues ==
    ASSUME TypeOK, SoloInv, ~ overlapped, NEW t \in Threads, pc[t] # "idle",
           NEW l, pc' = [pc EXCEPT ![t] = l], l # "idle",
           UNCHANGED <<overlapped, before>>,
           l = "raised" \/ \A d, m, p, c :
              /\ d = before[1] /\ m = before[2] /\ p = before[3] /\ c = before[4]
              => Progress(t, d, m, p, c)'
    PROVE  SoloInv' /\ Unwatched
  <1>1. /\ pc'[t] = l /\ \A u \in Threads : u # t => pc[u] = "idle" /\ pc'[u] = "idle"
        /\ ~ Between /\ ~ Between'
    BY DEF TypeOK, SoloInv, Between
  <1>2. PICK d, m, p, c :
            d = before[1] /\ m = before[2] /\ p = before[3] /\ c = before[4]
    OBVIOUS
  <1>3. Rests(d, m, p, c)
    BY <1>1, <1>2 DEF SoloInv
  <1>4. d = before'[1] /\ m = before'[2] /\ p = before'[3] /\ c = before'[4]
    BY <1>2
  <1>5. Rests(before'[1], before'[2], before'[3], before'[4])
    BY <1>3, <1>4
  <1>6. l # "raised" => Progress(t, before[1], before[2], before[3], before[4])'
    <2>1. l # "raised" => Progress(t, d, m, p, c)'
      BY <1>2
    <2> QED
      BY <1>4, <2>1
  <1>7. SoloInv'
    BY <1>1, <1>5, <1>6 DEF SoloInv, Rests
  <1> QED
    BY <1>1, <1>7 DEF Unwatched, dict, maps, prnt, chld

LEMMA SoloCall ==
    ASSUME RaceInv, SoloInv, NEW t \in Threads, NEW n \in Names, Call(t, n), ~ overlapped'
    PROVE  SoloInv' /\ Unwatched
  <1>1. /\ ~ overlapped /\ Between /\ pc[t] = "idle"
        /\ pc' = [pc EXCEPT ![t] = "check"] /\ pc'[t] = "check"
        /\ before' = hierarchy
        /\ UNCHANGED <<loggerDict, loggerMap, parent, children>>
    BY DEF Call, Goto, hierarchy, RaceInv, TypeOK
  <1>2. PICK d, m, p, c :
            d = loggerDict /\ m = loggerMap /\ p = parent /\ c = children
    OBVIOUS
  <1>3. d = before'[1] /\ m = before'[2] /\ p = before'[3] /\ c = before'[4]
    BY <1>1, <1>2 DEF hierarchy
  <1>4. Rests(d, m, p, c)
    BY <1>1, <1>2 DEF SoloInv
  <1>5. Rests(before'[1], before'[2], before'[3], before'[4])
    BY <1>3, <1>4
  <1>6. Progress(t, before[1], before[2], before[3], before[4])'
    <2>1. Progress(t, d, m, p, c)'
      BY <1>2, CallProgress
    <2> QED
      BY <1>3, <2>1
  <1>7. ~ Between' /\ \A u \in Threads : u # t => pc'[u] = "idle"
    BY <1>1 DEF Between
  <1>8. SoloInv'
    BY <1>1, <1>5, <1>6, <1>7 DEF SoloInv, Rests
  <1> QED
    BY <1>1, <1>2, <1>3, <1>7, <1>8 DEF Unwatched, dict, maps, prnt, chld

(* A step within the call.                                                  *)
LEMMA SoloGoesOn ==
    ASSUME RaceInv, SoloInv, ~ overlapped, NEW t \in Threads,
           Step(t), pc'[t] # "idle"
    PROVE  SoloInv' /\ Unwatched
  <1>1. /\ pc \in [Threads -> RaceLabels] /\ TypeOK /\ pc[t] # "idle"
        /\ ~ Link(t) /\ ~ LinkRoot(t)
    BY DEF Step, Check, Store, StartChildren, TestChild, TestRaises, Lift, Adopt,
           EndChildren, Look, Plant, AppendTo, Link, LinkRoot, Climbing, LinkTo,
           Finish, Goto, RaceInv, TypeOK, RaceLabels
  <1>2. UNCHANGED <<overlapped, before>>
    BY DEF Step, Check, Store, StartChildren, TestChild, TestRaises, Raise, Lift, Adopt,
           EndChildren, Look, Plant, AppendTo, Link, LinkRoot, LinkTo, history
  <1>3. PICK l : pc' = [pc EXCEPT ![t] = l]
    BY DEF Step, Check, Store, StartChildren, TestChild, TestRaises, Raise, Lift, Adopt,
           EndChildren, Look, Plant, AppendTo, Link, LinkRoot, LinkTo, Finish, Goto
  <1>4. l = pc'[t]
    BY <1>1, <1>3
  <1>5. ASSUME l # "raised", NEW d, NEW m, NEW p, NEW c,
               d = before[1], m = before[2], p = before[3], c = before[4]
        PROVE  Progress(t, d, m, p, c)'
    <2>1. ~ TestRaises(t)
      BY <1>1, <1>4, <1>5 DEF TestRaises, Raise, Goto, RaceLabels
    <2>2. ~ Between /\ pc[t] # "raised"
      BY <1>1 DEF Between, Step, Check, Store, StartChildren, TestChild, TestRaises, Lift,
             Adopt, EndChildren, Look, Climbing, Plant, AppendTo
    <2>3. Rests(d, m, p, c) /\ Progress(t, d, m, p, c)
      <3>1. Rests(before[1], before[2], before[3], before[4])
        BY <2>2 DEF SoloInv
      <3>2. Progress(t, before[1], before[2], before[3], before[4])
        BY <1>1, <2>2 DEF SoloInv
      <3> QED
        BY <1>5, <3>1, <3>2
    <2>4. CASE Check(t)
      BY <2>3, <2>4, CheckProgress
    <2>5. CASE Store(t)
      BY <2>3, <2>5, StoreProgress
    <2>6. CASE StartChildren(t) \/ TestChild(t)
      BY <2>3, <2>6, ChildrenProgress
    <2>7. CASE Lift(t) \/ Adopt(t)
      BY <2>3, <2>7, MoveProgress
    <2>8. CASE EndChildren(t)
      BY <2>3, <2>8, EndChildrenProgress
    <2>9. CASE Look(t)
      BY <2>3, <2>9, LookProgress
    <2>10. CASE Plant(t) \/ AppendTo(t)
      BY <2>3, <2>10, PassProgress
    <2> QED
      BY <1>1, <2>1, <2>4, <2>5, <2>6, <2>7, <2>8, <2>9, <2>10 DEF Step
  <1> QED
    BY <1>1, <1>2, <1>3, <1>4, <1>5, SoloContinues

(* The hierarchy between calls has grown by one logger.                     *)
Grows ==
    \E d, m, p, c : \E n \in Names, o \in Loggers : \E up, passed :
        /\ d = dict /\ m = maps /\ p = prnt /\ c = chld
        /\ Rests(d, m, p, c)
        /\ o.name = n /\ d[n] \notin Loggers
        /\ PassedTo(d, n, up, passed)
        /\ Made(d, m, p, c, n, o, up, passed)'
        /\ Between'

LEMMA SoloEnds ==
    ASSUME RaceInv, TypeOK', SoloInv, ~ overlapped, NEW t \in Threads,
           Step(t), pc'[t] = "idle"
    PROVE  SoloInv' /\ (Unwatched \/ Grows)
  <1>1. /\ pc \in [Threads -> RaceLabels] /\ pc[t] # "idle" /\ pc[t] # "raised"
        /\ Check(t) \/ Link(t) \/ LinkRoot(t)
    BY DEF Step, Check, Store, StartChildren, TestChild, TestRaises, Raise, Lift, Adopt,
           EndChildren, Look, Plant, AppendTo, Link, LinkRoot, Climbing, LinkTo,
           Finish, Goto, RaceInv, TypeOK, RaceLabels
  <1>2. UNCHANGED <<overlapped, before>>
    BY <1>1 DEF Check, Link, LinkRoot, LinkTo, history
  <1>3. ~ Between /\ Between' /\ \A u \in Threads : pc'[u] = "idle"
    <2>1. \A u \in Threads : u # t => pc'[u] = pc[u]
      BY <1>1 DEF Check, Link, LinkRoot, LinkTo, Finish, Goto, RaceInv, TypeOK
    <2> QED
      BY <1>1, <2>1 DEF Between, SoloInv
  <1>4. PICK d, m, p, c :
            d = before[1] /\ m = before[2] /\ p = before[3] /\ c = before[4]
    OBVIOUS
  <1>5. Rests(d, m, p, c) /\ Progress(t, d, m, p, c)
    <2>1. Rests(before[1], before[2], before[3], before[4])
      BY <1>3 DEF SoloInv
    <2>2. Progress(t, before[1], before[2], before[3], before[4])
      BY <1>1 DEF SoloInv
    <2> QED
      BY <1>4, <2>1, <2>2
  <1>6. /\ d = dict /\ m = maps /\ p = prnt /\ c = chld
        /\ dict' = loggerDict' /\ maps' = loggerMap'
        /\ prnt' = parent' /\ chld' = children'
    BY <1>3, <1>4 DEF dict, maps, prnt, chld
  <1>7. CASE Check(t)
    <2>1. UNCHANGED <<loggerDict, loggerMap, parent, children>> /\ pc[t] = "check"
      BY <1>7 DEF Check, hierarchy
    <2>2. loggerDict = d /\ loggerMap = m /\ parent = p /\ children = c
      BY <1>5, <2>1 DEF Progress
    <2>3. Rests(loggerDict', loggerMap', parent', children')
      BY <1>5, <2>1, <2>2
    <2>4. SoloInv'
      BY <1>3, <2>3 DEF SoloInv, Rests
    <2> QED
      BY <1>6, <2>1, <2>2, <2>4 DEF Unwatched
  <1>8. CASE Link(t) \/ LinkRoot(t)
    <2>1. PICK n \in Names, o \in Loggers : \E up, passed :
              /\ o.name = n /\ d[n] \notin Loggers
              /\ PassedTo(d, n, up, passed)
              /\ Made(d, m, p, c, n, o, up, passed)'
      BY <1>5, <1>8, LinkMakes
    <2>2. PICK up, passed :
              /\ o.name = n /\ d[n] \notin Loggers
              /\ PassedTo(d, n, up, passed)
              /\ Made(d, m, p, c, n, o, up, passed)'
      BY <2>1
    <2>3. Rests(loggerDict, loggerMap, parent, children)'
      BY <1>5, <2>2, MadeRests
    <2>4. SoloInv'
      BY <1>3, <2>3 DEF SoloInv
    <2>5. Grows
      BY <1>3, <1>5, <1>6, <2>2 DEF Grows
    <2> QED
      BY <2>4, <2>5
  <1> QED
    BY <1>1, <1>7, <1>8

LEMMA ProgressKept ==
    ASSUME NEW t \in Threads, NEW d, NEW m, NEW p, NEW c, Progress(t, d, m, p, c),
           UNCHANGED <<loggerDict, loggerMap, parent, children, pc, self>>
    PROVE  Progress(t, d, m, p, c)'
  <1>1. PICK n, o, passed, lifted, adopted :
            /\ n = self[t].name /\ o = self[t].rv /\ passed = Done(t)
            /\ lifted = ToMove(p, self[t].seen, n) \ InHand(t, {"lift"})
            /\ adopted = ToMove(p, self[t].seen, n) \ InHand(t, {"lift", "adopt"})
    OBVIOUS
  <1>2. /\ EnteredBy(d, m, n, o, passed) => EnteredBy(d, m, n, o, passed)'
        /\ LinkedBy(p, c, o, lifted, adopted) => LinkedBy(p, c, o, lifted, adopted)'
    BY EnteredKept, LinkedKept
  <1>3. /\ n = self'[t].name /\ o = self'[t].rv /\ passed = Done(t)'
        /\ lifted = ToMove(p, self'[t].seen, n) \ InHand(t, {"lift"})'
        /\ adopted = ToMove(p, self'[t].seen, n) \ InHand(t, {"lift", "adopt"})'
    BY <1>1 DEF Done, InHand
  <1>4. /\ FixingChildren(t)' = FixingChildren(t) /\ FixingParents(t)' = FixingParents(t)
        /\ Prefix(t)' = Prefix(t)
    BY DEF FixingChildren, FixingParents, Prefix
  <1> QED
    BY <1>1, <1>2, <1>3, <1>4 DEF Progress

LEMMA SoloStep ==
    ASSUME RaceInv, TypeOK', SoloInv, [Next]_vars, ~ overlapped'
    PROVE  SoloInv' /\ (Unwatched \/ Grows)
  <1>1. CASE UNCHANGED vars
    <2>1. UNCHANGED <<loggerDict, loggerMap, parent, children, pc, self, calls,
                      overlapped, before, Between>>
      BY <1>1 DEF vars, hierarchy, history, Between
    <2>2. Unwatched
      BY <2>1 DEF Unwatched, dict, maps, prnt, chld
    <2>3. PICK d, m, p, c :
              d = before[1] /\ m = before[2] /\ p = before[3] /\ c = before[4]
      OBVIOUS
    <2>4. /\ d = before'[1] /\ m = before'[2] /\ p = before'[3] /\ c = before'[4]
          /\ ~ overlapped /\ pc' = pc /\ Between' = Between
      BY <2>1, <2>3
    <2>5. ASSUME NEW t \in Threads, pc'[t] \notin {"idle", "raised"}
          PROVE  Progress(t, before[1], before[2], before[3], before[4])'
      <3>1. Progress(t, before[1], before[2], before[3], before[4])
        BY <2>4, <2>5 DEF SoloInv
      <3>2. Progress(t, d, m, p, c)
        BY <2>3, <3>1
      <3>3. Progress(t, d, m, p, c)'
        BY <2>1, <3>2, ProgressKept
      <3> QED
        BY <2>4, <3>3
    <2>6. /\ ~ Between => Rests(d, m, p, c)
          /\ Between => Rests(loggerDict, loggerMap, parent, children)
      <3>1. ~ Between => Rests(before[1], before[2], before[3], before[4])
        BY <2>4 DEF SoloInv
      <3> QED
        BY <2>3, <2>4, <3>1 DEF SoloInv
    <2>7. ~ Between' => Rests(before'[1], before'[2], before'[3], before'[4])
      BY <2>4, <2>6
    <2>8. Between' => Rests(loggerDict', loggerMap', parent', children')
      BY <2>1, <2>4, <2>6
    <2>9. SoloInv'
      BY <2>4, <2>5, <2>7, <2>8 DEF SoloInv, Rests
    <2> QED
      BY <2>2, <2>9
  <1>2. ASSUME NEW t \in Threads, NEW n \in Names, Call(t, n)
        PROVE  SoloInv' /\ Unwatched
    BY <1>2, SoloCall
  <1>3. ASSUME NEW t \in Threads, Step(t)
        PROVE  SoloInv' /\ (Unwatched \/ Grows)
    <2>1. ~ overlapped
      BY <1>3 DEF Step, Check, Store, StartChildren, TestChild, TestRaises, Raise, Lift,
             Adopt, EndChildren, Look, Plant, AppendTo, Link, LinkRoot, LinkTo, history
    <2> QED
      BY <1>3, <2>1, SoloGoesOn, SoloEnds
  <1> QED
    BY <1>1, <1>2, <1>3 DEF Next

LEMMA SoloInit == Init => SoloInv
  <1> SUFFICES ASSUME Init
               PROVE  SoloInv
    OBVIOUS
  <1>1. /\ \A t \in Threads : pc[t] = "idle"
        /\ Between
    BY DEF Init, Between
  <1>2. Used(loggerDict) = {}
    BY RaceObjects DEF Init, Used
  <1>3. Rests(loggerDict, loggerMap, parent, children)
    BY <1>2, RaceObjects DEF Init, Rests, Objects
  <1> QED
    BY <1>1, <1>3 DEF SoloInv

-----------------------------------------------------------------------------
(* The hierarchy between calls by names.                                    *)
LEMMA KindFacts ==
    ASSUME NEW x
    PROVE  /\ dict[x] = None => Kind(x) = "absent"
           /\ dict[x] \in Placeholders => Kind(x) = "placeholder"
           /\ dict[x] \in Loggers => Kind(x) = "logger"
  <1>1. \A o \in Loggers : o.kind = "logger"
    BY DEF Loggers, Logger
  <1>2. \A q \in Placeholders : q.kind = "placeholder"
    BY DEF Placeholders, Placeholder
  <1> QED
    BY <1>1, <1>2, RaceObjects DEF Kind

LEMMA ViewFacts ==
    ASSUME NEW d, NEW m, NEW p, NEW c, Rests(d, m, p, c),
           d = dict, m = maps, p = prnt, c = chld
    PROVE  /\ Tree!Live = {x \in Names : d[x] \in Loggers}
           /\ Used(d) = {d[x] : x \in Tree!Live}
           /\ Tree!Loggers = Tree!Live \cup {Root}
           /\ \A x \in Nodes : IsLogger(x) <=> x \in Tree!Loggers
           /\ \A x \in Tree!Live : Object(x) = d[x] /\ d[x] \in Used(d) /\ d[x].name = x
           /\ Object(Root) = RootLogger
           /\ \A q \in Used(d) : q \in Loggers /\ q.name \in Tree!Live /\ d[q.name] = q
  <1>1. \A x \in Names : Kind(x) = "logger" <=> d[x] \in Loggers
    BY KindFacts DEF Rests
  <1>2. Tree!Live = {x \in Names : d[x] \in Loggers}
    BY <1>1 DEF Tree!Live
  <1>3. Root \notin Names
    BY NamesAssumption
  <1>4. \A q \in Used(d) : q \in Loggers /\ q.name \in Tree!Live /\ d[q.name] = q
    BY <1>2, RaceObjects DEF Used
  <1>5. \A x \in Tree!Live : Object(x) = d[x] /\ d[x] \in Used(d) /\ d[x].name = x
    BY <1>2, <1>3, RaceObjects DEF Object, Rests, Used
  <1> QED
    BY <1>1, <1>2, <1>3, <1>4, <1>5 DEF Tree!Loggers, IsLogger, Object, Nodes

(* Every logger inherits the root's level.                                  *)
LEMMA ViewLevels ==
    ASSUME NEW d, NEW m, NEW p, NEW c, Rests(d, m, p, c),
           d = dict, m = maps, p = prnt, c = chld, NEW x \in Tree!Loggers
    PROVE  Tree!FindEffectiveLevel(x) = WARNING
  <1>1. PICK lvl, up, vis, ends :
            /\ lvl = [y \in Nodes |-> IF y = Root THEN WARNING ELSE NOTSET]
            /\ up = [y \in Nodes |->
                        IF IsLogger(y) /\ prnt[Object(y)] # None
                        THEN prnt[Object(y)].name ELSE None]
            /\ vis = Tree!Visited(x)
            /\ ends = {y \in vis : Tree!ScanEnds(y)}
    OBVIOUS
  <1>2. /\ Tree!Live \subseteq Names /\ Tree!Loggers = Tree!Live \cup {Root}
        /\ Tree!Loggers \subseteq Nodes /\ Root \notin Names
    BY ViewFacts, NamesAssumption DEF Nodes
  <1>3. /\ up[Root] = None
        /\ \A y \in Tree!Live : /\ up[y] = Root \/ (up[y] \in Above[y] /\ up[y] \in Tree!Live)
                                /\ up[y] # None
    <2>1. up[Root] = None
      BY <1>1, ViewFacts DEF Rests, Nodes
    <2>2. ASSUME NEW y \in Tree!Live
          PROVE  /\ up[y] = Root \/ (up[y] \in Above[y] /\ up[y] \in Tree!Live)
                 /\ up[y] # None
      <3>1. /\ d[y] \in Used(d) /\ d[y].name = y /\ Object(y) = d[y] /\ IsLogger(y)
            /\ y \in Nodes
        BY <1>2, ViewFacts
      <3>2. \/ p[d[y]] = RootLogger
            \/ p[d[y]] \in Used(d) /\ p[d[y]].name \in Above[y]
        BY <3>1 DEF Rests
      <3>3. p[d[y]] # None
        BY <3>2, RaceObjects DEF Used
      <3>4. up[y] = p[d[y]].name
        BY <1>1, <3>1, <3>3
      <3>5. up[y] = Root \/ (up[y] \in Above[y] /\ up[y] \in Tree!Live)
        BY <3>2, <3>4, ViewFacts DEF RootLogger
      <3> QED
        BY <1>2, <3>5, NamesAssumption
    <2> QED
      BY <2>1, <2>2
  <1>4. vis = {y \in Nodes : \A S \in SUBSET Nodes : x \in S
                  /\ (\A z \in S : lvl[z] = NOTSET /\ up[z] # None => up[z] \in S) => y \in S}
    BY <1>1 DEF Tree!Visited, Tree!ScanClosed, Tree!Nodes, Nodes, Tree!NOTSET, NOTSET
  <1>5. vis \subseteq Tree!Loggers
    <2>1. \A z \in Tree!Loggers : up[z] # None => up[z] \in Tree!Loggers
      BY <1>2, <1>3
    <2> QED
      BY <1>2, <1>4, <2>1
  <1>6. Root \in vis
    <2> SUFFICES ASSUME NEW S \in SUBSET Nodes, x \in S,
                        \A z \in S : lvl[z] = NOTSET /\ up[z] # None => up[z] \in S,
                        Root \notin S
                 PROVE  FALSE
      BY <1>4 DEF Nodes
    <2>1. PICK y \in S \cap Tree!Live : Above[y] \cap (S \cap Tree!Live) = {}
      BY <1>2, NamesAssumption
    <2>2. lvl[y] = NOTSET
      BY <1>1, <1>2, <2>1
    <2> QED
      BY <1>3, <2>1, <2>2
  <1>7. \A y \in Tree!Loggers : Tree!ScanEnds(y) <=> y = Root
    <2>1. \A y \in Nodes : Tree!ScanEnds(y) <=> lvl[y] > NOTSET \/ up[y] = None
      BY <1>1 DEF Tree!ScanEnds, Tree!NOTSET, NOTSET
    <2>2. \A y \in Nodes : lvl[y] > NOTSET <=> y = Root
      BY <1>1 DEF NOTSET, WARNING
    <2> QED
      BY <1>2, <1>3, <2>1, <2>2
  <1>8. (CHOOSE y \in Tree!Visited(x) : Tree!ScanEnds(y)) = Root
    BY <1>1, <1>5, <1>6, <1>7
  <1>9. lvl[Root] = WARNING
    BY <1>1 DEF Nodes
  <1> QED
    BY <1>1, <1>8, <1>9 DEF Tree!FindEffectiveLevel

(* The prefixes passed, the parent and the loggers moved are those of       *)
(* LoggerTree.                                                              *)
LEMMA ViewPassed ==
    ASSUME NEW d, NEW m, NEW p, NEW c, Rests(d, m, p, c),
           d = dict, m = maps, p = prnt, c = chld,
           NEW n \in Names, NEW up, NEW passed, PassedTo(d, n, up, passed)
    PROVE  /\ Tree!Passed(n) = passed
           /\ Tree!NearestLogger(n) = up.name
           /\ up = RootLogger \/ (up \in Used(d) /\ up.name \in Tree!Live)
  <1>1. PICK live, above : live = Tree!Live /\ above = Above[n] \cap live
    OBVIOUS
  <1>2. /\ live = {x \in Names : d[x] \in Loggers} /\ above = Tree!LiveAbove(n)
        /\ Above[n] \subseteq Names
        /\ Tree!Passed(n) = {a \in Above[n] \ live : above \subseteq Above[a]}
    BY <1>1, ViewFacts, NamesAssumption DEF Tree!Passed, Tree!LiveAbove
  <1>3. passed \subseteq Above[n] /\ \A a \in passed : a \notin live
    BY <1>2 DEF PassedTo
  <1>4. CASE up = RootLogger /\ passed = Above[n]
    <2>1. above = {}
      BY <1>1, <1>3, <1>4
    <2>2. Tree!Passed(n) = passed
      BY <1>2, <1>3, <1>4, <2>1
    <2>3. Tree!NearestLogger(n) = Root
      BY <1>2, <2>1 DEF Tree!NearestLogger
    <2> QED
      BY <1>4, <2>2, <2>3 DEF RootLogger
  <1>5. ASSUME NEW x \in Above[n], up = d[x], d[x] \in Loggers,
               \A a \in passed : x \in Above[a],
               \A a \in Above[n] \ passed : a = x \/ a \in Above[x]
        PROVE  /\ Tree!Passed(n) = passed
               /\ Tree!NearestLogger(n) = up.name
               /\ up \in Used(d) /\ up.name \in Tree!Live
    <2>1. x \in live /\ x \in above /\ x \in Names
      BY <1>1, <1>2, <1>5
    <2>2. above \ {x} \subseteq Above[x]
      BY <1>1, <1>3, <1>5
    <2>3. \A a \in passed : above \subseteq Above[a]
      BY <1>2, <1>3, <1>5, <2>2, NamesAssumption
    <2>4. ASSUME NEW a \in Above[n] \ live, above \subseteq Above[a]
          PROVE  a \in passed
      <3>1. a \in Names /\ x \in Above[a] /\ a # x
        BY <1>2, <2>1, <2>4
      <3>2. a \notin Above[x]
        BY <2>1, <3>1, NamesAssumption
      <3> QED
        BY <1>5, <3>1, <3>2
    <2>5. Tree!Passed(n) = passed
      BY <1>2, <1>3, <2>3, <2>4
    <2>6. \A y \in above : above \ {y} \subseteq Above[y] => y = x
      BY <1>1, <1>2, <2>1, <2>2, NamesAssumption
    <2>7. (CHOOSE y \in above : above \ {y} \subseteq Above[y]) = x
      BY <2>1, <2>2, <2>6
    <2>8. Tree!NearestLogger(n) = x
      BY <1>2, <2>1, <2>7 DEF Tree!NearestLogger, Tree!Longest
    <2>9. up \in Used(d) /\ up.name = x
      BY <1>1, <1>5, <2>1, ViewFacts
    <2> QED
      BY <1>1, <2>1, <2>5, <2>8, <2>9
  <1> QED
    BY <1>4, <1>5 DEF PassedTo

(* The parents and children of loggers by names.                            *)
LEMMA ViewLinks ==
    ASSUME NEW d, NEW m, NEW p, NEW c, Rests(d, m, p, c),
           d = dict, m = maps, p = prnt, c = chld,
           NEW up, up = [y \in Nodes |->
                            IF IsLogger(y) /\ prnt[Object(y)] # None
                            THEN prnt[Object(y)].name ELSE None]
    PROVE  /\ up[Root] = None
           /\ \A y \in Names \ Tree!Live : up[y] = None
           /\ \A q \in Used(d) : /\ up[q.name] = p[q].name
                                 /\ p[q] # None /\ up[q.name] \in Tree!Loggers
  <1>1. up[Root] = None
    BY ViewFacts DEF Rests, Nodes
  <1>2. \A y \in Names \ Tree!Live : up[y] = None
    BY ViewFacts, NamesAssumption DEF Nodes
  <1>3. ASSUME NEW q \in Used(d)
        PROVE  /\ up[q.name] = p[q].name
               /\ p[q] # None /\ up[q.name] \in Tree!Loggers
    <2>1. /\ q.name \in Tree!Live /\ d[q.name] = q /\ Object(q.name) = q /\ IsLogger(q.name)
          /\ q.name \in Nodes
      BY ViewFacts DEF Nodes
    <2>2. p[q] = RootLogger \/ p[q] \in Used(d)
      BY DEF Rests
    <2>3. p[q] # None
      BY <2>2, RaceObjects DEF Used
    <2>4. p[q].name \in Tree!Loggers
      BY <2>2, ViewFacts DEF RootLogger
    <2> QED
      BY <2>1, <2>3, <2>4
  <1> QED
    BY <1>1, <1>2, <1>3

LEMMA ViewMoved ==
    ASSUME NEW d, NEW m, NEW p, NEW c, Rests(d, m, p, c),
           d = dict, m = maps, p = prnt, c = chld,
           NEW n \in Names, d[n] \notin Loggers
    PROVE  /\ Tree!Moved(n) = NamesOf(ToMove(p, Below(d, m, n), n))
           /\ ToMove(p, Below(d, m, n), n) \subseteq Used(d)
  <1>1. PICK up, moving :
            /\ up = [y \in Nodes |-> IF IsLogger(y) /\ prnt[Object(y)] # None
                                     THEN prnt[Object(y)].name ELSE None]
            /\ moving = ToMove(p, Below(d, m, n), n)
    OBVIOUS
  <1>2. d[n] = None \/ d[n] \in Placeholders
    BY DEF Rests
  <1>3. Below(d, m, n) \subseteq Used(d)
    BY <1>2 DEF Below, Rests
  <1>4. (IF Kind(n) = "placeholder" THEN NamesOf(maps[dict[n]]) ELSE {})
            = NamesOf(Below(d, m, n))
    BY <1>2, KindFacts, RaceObjects DEF Below, NamesOf
  <1>5. Tree!Moved(n) = {x \in NamesOf(Below(d, m, n)) : up[x] \notin TextExt[n]}
    BY <1>1, <1>4 DEF Tree!Moved
  <1>6. \A q \in Below(d, m, n) : up[q.name] = p[q].name
    BY <1>1, <1>3, ViewLinks
  <1> QED
    BY <1>3, <1>5, <1>6 DEF NamesOf, ToMove

LEMMA KindsOf ==
    /\ \A o \in Loggers : o.kind = "logger"
    /\ \A q \in Placeholders : q.kind = "placeholder"
  BY DEF Loggers, Logger, Placeholders, Placeholder

(* The hierarchy that a call leaves, by names: its entries, ...             *)
LEMMA ViewEntries ==
    ASSUME NEW d, NEW m, NEW p, NEW c, Rests(d, m, p, c),
           d = dict, m = maps, p = prnt, c = chld,
           NEW n \in Names, NEW o \in Loggers, NEW up, NEW passed,
           o.name = n, d[n] \notin Loggers, PassedTo(d, n, up, passed),
           Made(d, m, p, c, n, o, up, passed)', Between'
    PROVE  /\ \A x \in Names :
                 Kind(x)' = IF x = n THEN "logger"
                            ELSE IF x \in passed THEN "placeholder" ELSE Kind(x)
           /\ \A x \in Nodes : IsLogger(x)' <=> x = n \/ IsLogger(x)
           /\ Object(n)' = o
           /\ \A x \in Tree!Loggers : x # n /\ Object(x)' = Object(x)
           /\ \A x \in Names : x # n =>
                 (IF Kind(x)' = "placeholder" THEN NamesOf(maps'[dict'[x]]) ELSE {})
                     = (IF Kind(x) = "placeholder" THEN NamesOf(maps[dict[x]]) ELSE {})
                           \cup (IF x \in passed THEN {n} ELSE {})
  <1>1. /\ dict' = [x \in Names |-> IF x = n THEN o
                        ELSE IF x \in passed /\ d[x] = None THEN Placeholder(x, o)
                        ELSE d[x]]
        /\ \A x \in Names :
              /\ d[x] \in Placeholders =>
                    maps'[d[x]] = m[d[x]] \cup (IF x \in passed THEN {o} ELSE {})
              /\ d[x] = None /\ x \in passed => maps'[Placeholder(x, o)] = {o}
    BY DEF Made, EnteredBy, dict, maps
  <1>2. /\ \A x \in Names : d[x] \in Loggers \cup Placeholders \cup {None}
        /\ passed \subseteq Names /\ n \notin passed /\ \A x \in passed : d[x] \notin Loggers
        /\ Root \notin Names
    BY NamesAssumption DEF Rests, PassedTo
  <1>3. \A x \in Names : Kind(x)' = IF x = n THEN "logger"
                                    ELSE IF x \in passed THEN "placeholder" ELSE Kind(x)
    <2> SUFFICES ASSUME NEW x \in Names
                 PROVE  Kind(x)' = IF x = n THEN "logger"
                                   ELSE IF x \in passed THEN "placeholder" ELSE Kind(x)
      OBVIOUS
    <2>1. Kind(x)' = IF dict'[x] = None THEN "absent" ELSE dict'[x].kind
      BY DEF Kind
    <2>2. CASE x = n
      BY <1>1, <2>1, <2>2, KindsOf, RaceObjects
    <2>3. CASE x # n /\ x \in passed
      BY <1>1, <1>2, <2>1, <2>3, KindsOf, RaceObjects
    <2>4. CASE x # n /\ x \notin passed
      BY <1>1, <2>1, <2>4 DEF Kind
    <2> QED
      BY <2>2, <2>3, <2>4
  <1>4. \A x \in Nodes : IsLogger(x)' <=> x = n \/ IsLogger(x)
    BY <1>2, <1>3, KindFacts DEF IsLogger, Nodes
  <1>5. Object(n)' = o
    BY <1>1, <1>2 DEF Object
  <1>6. ASSUME NEW x \in Tree!Loggers
        PROVE  x # n /\ Object(x)' = Object(x)
    <2>1. x = Root \/ (x \in Names /\ d[x] \in Loggers)
      BY ViewFacts
    <2> QED
      BY <1>1, <1>2, <2>1, RaceObjects DEF Object
  <1>7. ASSUME NEW x \in Names, x # n
        PROVE  (IF Kind(x)' = "placeholder" THEN NamesOf(maps'[dict'[x]]) ELSE {})
                   = (IF Kind(x) = "placeholder" THEN NamesOf(maps[dict[x]]) ELSE {})
                         \cup (IF x \in passed THEN {n} ELSE {})
    <2>1. CASE d[x] \in Placeholders
      <3>1. Kind(x) = "placeholder" /\ Kind(x)' = "placeholder" /\ dict'[x] = d[x]
        BY <1>1, <1>3, <1>7, <2>1, KindFacts, RaceObjects
      <3> QED
        BY <1>1, <1>7, <2>1, <3>1 DEF NamesOf
    <2>2. CASE d[x] = None
      <3>1. Kind(x) = "absent"
        BY <2>2, KindFacts
      <3>2. CASE x \in passed
        BY <1>1, <1>3, <1>7, <2>2, <3>1, <3>2 DEF NamesOf
      <3>3. CASE x \notin passed
        BY <1>3, <1>7, <3>1, <3>3
      <3> QED
        BY <3>2, <3>3
    <2>3. CASE d[x] \in Loggers
      BY <1>2, <1>3, <1>7, <2>3, KindFacts
    <2> QED
      BY <1>2, <2>1, <2>2, <2>3
  <1> QED
    BY <1>3, <1>4, <1>5, <1>6, <1>7

(* ... its links, ...                                                       *)
LEMMA ViewParents ==
    ASSUME NEW d, NEW m, NEW p, NEW c, Rests(d, m, p, c),
           d = dict, m = maps, p = prnt, c = chld,
           NEW n \in Names, NEW o \in Loggers, NEW up, NEW passed,
           o.name = n, d[n] \notin Loggers, PassedTo(d, n, up, passed),
           Made(d, m, p, c, n, o, up, passed)', Between', NEW x \in Nodes
    PROVE  (IF IsLogger(x)' /\ prnt'[Object(x)'] # None
            THEN prnt'[Object(x)'].name ELSE None)
           = IF x = n THEN up.name
             ELSE IF x \in NamesOf(ToMove(p, Below(d, m, n), n)) THEN n
             ELSE IF IsLogger(x) /\ prnt[Object(x)] # None
                  THEN prnt[Object(x)].name ELSE None
  <1>1. PICK moving : moving = ToMove(p, Below(d, m, n), n)
    OBVIOUS
  <1>2. \A y \in Objects :
            prnt'[y] = IF y = o THEN up ELSE IF y \in moving THEN o ELSE p[y]
    BY <1>1 DEF Made, prnt
  <1>3. moving \subseteq Used(d) /\ (up = RootLogger \/ up \in Used(d)) /\ up # None
    BY <1>1, ViewMoved, ViewPassed, RaceObjects DEF Used
  <1>4. /\ IsLogger(x)' <=> x = n \/ IsLogger(x)
        /\ IsLogger(x) <=> x \in Tree!Loggers
        /\ Object(n)' = o
        /\ x \in Tree!Loggers => x # n /\ Object(x)' = Object(x)
        /\ Tree!Loggers = Tree!Live \cup {Root} /\ Object(Root) = RootLogger
        /\ \A y \in Tree!Live : Object(y) = d[y] /\ d[y] \in Used(d) /\ d[y].name = y
        /\ \A q \in Used(d) : q \in Loggers /\ q.name \in Tree!Live /\ d[q.name] = q
    BY ViewEntries, ViewFacts
  <1>5. RootLogger # o /\ RootLogger \notin Loggers /\ o \notin Used(d) /\ o # None
    BY RaceObjects, NamesAssumption DEF RootLogger, Used
  <1>6. CASE x = n
    BY <1>2, <1>3, <1>4, <1>6 DEF Objects
  <1>7. CASE x = Root
    <2>1. Root \notin NamesOf(moving) /\ Root # n /\ RootLogger \notin moving
      BY <1>3, <1>4, <1>5, NamesAssumption, RaceObjects DEF NamesOf
    <2>2. prnt'[RootLogger] = p[RootLogger]
      BY <1>2, <1>5, <2>1 DEF Objects
    <2> QED
      BY <1>1, <1>4, <1>7, <2>1, <2>2
  <1>8. CASE x \in Tree!Live
    <2>1. PICK q : q = d[x] /\ q \in Used(d) /\ q.name = x
      BY <1>4, <1>8
    <2>2. q # o /\ q \in Objects /\ Object(x) = q /\ Object(x)' = q /\ IsLogger(x)' /\ IsLogger(x)
          /\ x # n
      BY <1>4, <1>5, <1>8, <2>1 DEF Objects
    <2>3. x \in NamesOf(moving) <=> q \in moving
      BY <1>3, <1>4, <2>1 DEF NamesOf
    <2> QED
      BY <1>1, <1>2, <1>5, <2>2, <2>3
  <1>9. CASE x # n /\ x \notin Tree!Loggers
    <2>1. x \notin NamesOf(moving)
      BY <1>3, <1>4, <1>9 DEF NamesOf
    <2> QED
      BY <1>1, <1>4, <1>9, <2>1
  <1> QED
    BY <1>4, <1>6, <1>7, <1>8, <1>9

LEMMA ViewChildren ==
    ASSUME NEW d, NEW m, NEW p, NEW c, Rests(d, m, p, c),
           d = dict, m = maps, p = prnt, c = chld,
           NEW n \in Names, NEW o \in Loggers, NEW up, NEW passed,
           o.name = n, d[n] \notin Loggers, PassedTo(d, n, up, passed),
           Made(d, m, p, c, n, o, up, passed)', Between', NEW x \in Nodes
    PROVE  (IF IsLogger(x)' THEN NamesOf(chld'[Object(x)']) ELSE {})
           = (IF x = n THEN NamesOf(ToMove(p, Below(d, m, n), n))
              ELSE IF IsLogger(x) THEN NamesOf(chld[Object(x)]) ELSE {})
             \cup (IF x = up.name \/ \E y \in ToMove(p, Below(d, m, n), n) : p[y].name = x
                   THEN {n} ELSE {})
  <1>1. PICK moving : moving = ToMove(p, Below(d, m, n), n)
    OBVIOUS
  <1>2. \A y \in Objects :
            chld'[y] = (IF y = o THEN moving ELSE c[y])
                \cup (IF y = up \/ \E z \in moving : p[z] = y THEN {o} ELSE {})
    BY <1>1 DEF Made, chld
  <1>3. moving \subseteq Used(d) /\ (up = RootLogger \/ up \in Used(d))
    BY <1>1, ViewMoved, ViewPassed
  <1>4. /\ IsLogger(x)' <=> x = n \/ IsLogger(x)
        /\ IsLogger(x) <=> x \in Tree!Loggers
        /\ Object(n)' = o
        /\ x \in Tree!Loggers => x # n /\ Object(x)' = Object(x)
        /\ Tree!Loggers = Tree!Live \cup {Root} /\ Object(Root) = RootLogger
        /\ \A y \in Tree!Live : Object(y) = d[y] /\ d[y] \in Used(d) /\ d[y].name = y
        /\ \A q \in Used(d) : q \in Loggers /\ q.name \in Tree!Live /\ d[q.name] = q
    BY ViewEntries, ViewFacts
  <1>5. RootLogger # o /\ RootLogger \notin Loggers /\ o \notin Used(d) /\ RootLogger.name = Root
        /\ Root \notin Names /\ Tree!Live \subseteq Names /\ n \notin Tree!Live
    BY <1>4, ViewFacts, RaceObjects, NamesAssumption DEF RootLogger, Used
  <1>6. \A y \in moving : p[y] = RootLogger \/ p[y] \in Used(d)
    BY <1>3 DEF Rests
  <1>7. ASSUME NEW q, q = RootLogger \/ q \in Used(d), NEW r, r = RootLogger \/ r \in Used(d)
        PROVE  q.name = r.name <=> q = r
    BY <1>4, <1>5, <1>7
  <1>8. CASE x = n
    <2>1. x # up.name /\ \A y \in moving : p[y].name # x
      BY <1>3, <1>4, <1>5, <1>6, <1>8
    <2>2. o # up /\ \A y \in moving : p[y] # o
      BY <1>3, <1>5, <1>6
    <2>3. chld'[o] = moving
      BY <1>2, <2>2 DEF Objects
    <2>4. IsLogger(x)' /\ Object(x)' = o
      BY <1>4, <1>8
    <2> QED
      BY <1>1, <1>8, <2>1, <2>3, <2>4
  <1>9. CASE x \in Tree!Loggers
    <2>1. PICK q : /\ q = Object(x) /\ q.name = x /\ q # o /\ q \in Objects
                   /\ (q = RootLogger \/ q \in Used(d))
      BY <1>4, <1>5, <1>9 DEF Objects
    <2>2. chld'[q] = c[q] \cup (IF q = up \/ \E z \in moving : p[z] = q THEN {o} ELSE {})
      BY <1>2, <2>1
    <2>3. /\ q = up <=> x = up.name
          /\ (\E z \in moving : p[z] = q) <=> \E z \in moving : p[z].name = x
      BY <1>3, <1>6, <1>7, <2>1
    <2>4. NamesOf(chld'[q])
              = NamesOf(c[q]) \cup (IF x = up.name \/ \E z \in moving : p[z].name = x
                                    THEN {n} ELSE {})
      BY <2>2, <2>3 DEF NamesOf
    <2>5. IsLogger(x) /\ IsLogger(x)' /\ Object(x)' = q /\ x # n
      BY <1>4, <1>9, <2>1
    <2> QED
      BY <1>1, <2>1, <2>4, <2>5
  <1>10. CASE x # n /\ x \notin Tree!Loggers
    <2>1. x # up.name /\ \A y \in moving : p[y].name # x
      BY <1>3, <1>4, <1>5, <1>6, <1>10
    <2> QED
      BY <1>1, <1>4, <1>10, <2>1
  <1> QED
    BY <1>8, <1>9, <1>10

(* ... and with them all that LoggerTree's Create says.                     *)
LEMMA GrowsCreates ==
    ASSUME Grows
    PROVE  Tree!Next
  <1>1. PICK d, m, p, c : \E n \in Names, o \in Loggers : \E up, passed :
            /\ d = dict /\ m = maps /\ p = prnt /\ c = chld
            /\ Rests(d, m, p, c)
            /\ o.name = n /\ d[n] \notin Loggers
            /\ PassedTo(d, n, up, passed)
            /\ Made(d, m, p, c, n, o, up, passed)'
            /\ Between'
    BY DEF Grows
  <1>2. PICK n \in Names, o \in Loggers : \E up, passed :
            /\ d = dict /\ m = maps /\ p = prnt /\ c = chld
            /\ Rests(d, m, p, c)
            /\ o.name = n /\ d[n] \notin Loggers
            /\ PassedTo(d, n, up, passed)
            /\ Made(d, m, p, c, n, o, up, passed)'
            /\ Between'
    BY <1>1
  <1>3. PICK up, passed :
            /\ d = dict /\ m = maps /\ p = prnt /\ c = chld
            /\ Rests(d, m, p, c)
            /\ o.name = n /\ d[n] \notin Loggers
            /\ PassedTo(d, n, up, passed)
            /\ Made(d, m, p, c, n, o, up, passed)'
            /\ Between'
    BY <1>2
  <1>4. PICK moving : moving = ToMove(p, Below(d, m, n), n)
    OBVIOUS
  <1>5. /\ Tree!Passed(n) = passed /\ Tree!NearestLogger(n) = up.name
        /\ Tree!Moved(n) = NamesOf(moving) /\ moving \subseteq Used(d)
        /\ up.name \in Tree!Loggers
    BY <1>3, <1>4, ViewPassed, ViewMoved, ViewFacts DEF RootLogger
  <1>6. n \notin Tree!Live /\ n \notin Tree!Loggers
    BY <1>3, ViewFacts, NamesAssumption
  <1>7. /\ \A x \in Names :
              Kind(x)' = IF x = n THEN "logger"
                         ELSE IF x \in passed THEN "placeholder" ELSE Kind(x)
        /\ \A x \in Nodes : IsLogger(x)' <=> x = n \/ IsLogger(x)
        /\ \A x \in Names : x # n =>
              (IF Kind(x)' = "placeholder" THEN NamesOf(maps'[dict'[x]]) ELSE {})
                  = (IF Kind(x) = "placeholder" THEN NamesOf(maps[dict[x]]) ELSE {})
                        \cup (IF x \in passed THEN {n} ELSE {})
    BY <1>3, ViewEntries
  <1>8. [x \in Names |-> Kind(x)]' = [x \in Names |->
             IF x = n THEN "logger"
             ELSE IF x \in Tree!Passed(n) THEN "placeholder"
             ELSE [y \in Names |-> Kind(y)][x]]
    BY <1>5, <1>7
  <1>9. [x \in Names |->
             IF Kind(x) = "placeholder" THEN NamesOf(maps[dict[x]]) ELSE {}]'
        = [x \in Names |->
             IF x = n THEN {}
             ELSE IF x \in Tree!Passed(n)
                  THEN [y \in Names |-> IF Kind(y) = "placeholder"
                            THEN NamesOf(maps[dict[y]]) ELSE {}][x] \cup {n}
             ELSE [y \in Names |-> IF Kind(y) = "placeholder"
                       THEN NamesOf(maps[dict[y]]) ELSE {}][x]]
    <2>1. PICK M : M = [y \in Names |-> IF Kind(y) = "placeholder"
                            THEN NamesOf(maps[dict[y]]) ELSE {}]
      OBVIOUS
    <2>2. \A x \in Names :
              (IF Kind(x)' = "placeholder" THEN NamesOf(maps'[dict'[x]]) ELSE {})
              = IF x = n THEN {} ELSE IF x \in passed THEN M[x] \cup {n} ELSE M[x]
      BY <1>7, <2>1
    <2> QED
      BY <1>5, <2>1, <2>2 DEF NamesOf
  <1> DEFINE
        lvl == [y \in Nodes |-> IF y = Root THEN WARNING ELSE NOTSET]
        par == [y \in Nodes |-> IF IsLogger(y) /\ prnt[Object(y)] # None
                                THEN prnt[Object(y)].name ELSE None]
        chl == [y \in Nodes |-> IF IsLogger(y) THEN NamesOf(chld[Object(y)]) ELSE {}]
        eff == [y \in Tree!Moved(n) \cup {n} |->
                   IF y = n THEN Tree!FindEffectiveLevel(Tree!NearestLogger(n))
                   ELSE IF lvl[y] > Tree!NOTSET THEN lvl[y]
                   ELSE Tree!FindEffectiveLevel(par[y])]
  <1>10. /\ lvl = [y \in Nodes |-> IF y = Root THEN WARNING ELSE NOTSET]
         /\ par = [y \in Nodes |-> IF IsLogger(y) /\ prnt[Object(y)] # None
                                   THEN prnt[Object(y)].name ELSE None]
         /\ \A y \in Nodes :
               chl[y] = IF IsLogger(y) THEN NamesOf(chld[Object(y)]) ELSE {}
         /\ \A y \in Tree!Moved(n) \cup {n} :
               eff[y] = IF y = n THEN Tree!FindEffectiveLevel(Tree!NearestLogger(n))
                        ELSE IF lvl[y] > Tree!NOTSET THEN lvl[y]
                        ELSE Tree!FindEffectiveLevel(par[y])
    OBVIOUS
  <1> HIDE DEF lvl, par, chl, eff
  <1>11. /\ \A q \in moving : q.name \in Tree!Live /\ par[q.name] = p[q].name
                              /\ par[q.name] \in Tree!Loggers
         /\ Tree!Loggers \subseteq Nodes /\ n \in Nodes /\ Root \notin Tree!Live
    <2>1. \A q \in Used(d) : par[q.name] = p[q].name /\ par[q.name] \in Tree!Loggers
      BY <1>3, <1>10, ViewLinks
    <2>2. /\ \A q \in Used(d) : q.name \in Tree!Live
          /\ Tree!Live \subseteq Names /\ Tree!Loggers = Tree!Live \cup {Root}
      BY <1>3, ViewFacts
    <2> QED
      BY <1>5, <2>1, <2>2, NamesAssumption DEF Nodes
  <1>12. /\ \A y \in Tree!Moved(n) \cup {n} : eff[y] = WARNING
         /\ Tree!Moved(n) \subseteq Tree!Live
    <2>1. Tree!FindEffectiveLevel(Tree!NearestLogger(n)) = WARNING
      BY <1>3, <1>5, ViewLevels
    <2>2. ASSUME NEW y \in Tree!Moved(n)
          PROVE  /\ lvl[y] = NOTSET /\ Tree!FindEffectiveLevel(par[y]) = WARNING
                 /\ y \in Tree!Live
      <3>1. y \in Tree!Live /\ par[y] \in Tree!Loggers
        BY <1>5, <1>11, <2>2 DEF NamesOf
      <3>2. y \in Nodes /\ y # Root
        BY <1>11, <3>1 DEF Tree!Loggers
      <3> QED
        BY <1>3, <1>10, <3>1, <3>2, ViewLevels
    <2> QED
      BY <1>10, <2>1, <2>2 DEF Tree!NOTSET, NOTSET
  <1>13. [x \in Nodes |-> IF IsLogger(x) /\ prnt[Object(x)] # None
                          THEN prnt[Object(x)].name ELSE None]'
         = [x \in Nodes |->
              IF x = n THEN Tree!NearestLogger(n)
              ELSE IF x \in Tree!Moved(n) THEN n ELSE par[x]]
    <2>1. \A x \in Nodes :
              (IF IsLogger(x)' /\ prnt'[Object(x)'] # None
               THEN prnt'[Object(x)'].name ELSE None)
              = IF x = n THEN up.name ELSE IF x \in NamesOf(moving) THEN n ELSE par[x]
      BY <1>3, <1>4, <1>10, ViewParents
    <2> QED
      BY <1>5, <2>1
  <1>14. [x \in Nodes |-> IF IsLogger(x) THEN NamesOf(chld[Object(x)]) ELSE {}]'
         = [x \in Nodes |->
              (IF x = n THEN Tree!Moved(n) ELSE chl[x])
              \cup (IF x = Tree!NearestLogger(n) \/ \E y \in Tree!Moved(n) : par[y] = x
                    THEN {n} ELSE {})]
    <2>1. \A x \in Nodes :
              (IF IsLogger(x)' THEN NamesOf(chld'[Object(x)']) ELSE {})
              = (IF x = n THEN NamesOf(moving) ELSE chl[x])
                \cup (IF x = up.name \/ \E y \in moving : p[y].name = x THEN {n} ELSE {})
      <3> SUFFICES ASSUME NEW x \in Nodes
                   PROVE  (IF IsLogger(x)' THEN NamesOf(chld'[Object(x)']) ELSE {})
                          = (IF x = n THEN NamesOf(moving) ELSE chl[x])
                            \cup (IF x = up.name \/ \E y \in moving : p[y].name = x
                                  THEN {n} ELSE {})
        OBVIOUS
      <3>1. (IF IsLogger(x)' THEN NamesOf(chld'[Object(x)']) ELSE {})
            = (IF x = n THEN NamesOf(moving)
               ELSE IF IsLogger(x) THEN NamesOf(chld[Object(x)]) ELSE {})
              \cup (IF x = up.name \/ \E y \in moving : p[y].name = x THEN {n} ELSE {})
        BY <1>3, <1>4, ViewChildren
      <3> QED
        BY <1>10, <3>1
    <2>2. \A x : (\E y \in moving : p[y].name = x) <=> (\E y \in NamesOf(moving) : par[y] = x)
      BY <1>11 DEF NamesOf
    <2>3. [x \in Nodes |-> IF IsLogger(x) THEN NamesOf(chld[Object(x)]) ELSE {}]'
          = [x \in Nodes |-> IF IsLogger(x)' THEN NamesOf(chld'[Object(x)']) ELSE {}]
      BY DEF NamesOf
    <2> QED
      BY <1>5, <2>1, <2>2, <2>3
  <1>15. [x \in Nodes |-> Eff(x)]'
         = [x \in Nodes |-> IF x \in Tree!Moved(n) \cup {n} THEN eff[x]
                            ELSE [y \in Nodes |-> Eff(y)][x]]
    <2>1. \A x \in Nodes : Eff(x)' = IF x \in Tree!Moved(n) \cup {n} THEN eff[x] ELSE Eff(x)
      BY <1>3, <1>7, <1>12, ViewFacts DEF Eff, Tree!Loggers
    <2> QED
      BY <2>1
  <1>16. [x \in Nodes |-> IF IsLogger(x) THEN {s \in Severities : s >= WARNING} ELSE {}]'
         = [x \in Nodes |->
              IF x \in Tree!Moved(n) \cup {n} THEN Tree!EnabledBasedOn(eff[x])
              ELSE [y \in Nodes |-> IF IsLogger(y) THEN {s \in Severities : s >= WARNING}
                                    ELSE {}][x]]
    <2>1. Tree!EnabledBasedOn(WARNING) = {s \in Severities : s >= WARNING}
      BY DEF Tree!EnabledBasedOn, Tree!Severities, Severities, WARNING
    <2>2. \A x \in Tree!Moved(n) : IsLogger(x)
      BY <1>3, <1>12, ViewFacts, <1>11 DEF Tree!Loggers
    <2> QED
      BY <1>7, <1>12, <2>1, <2>2
  <1>17. Tree!Create(n)
    BY <1>8, <1>9, <1>13, <1>14, <1>15, <1>16
    DEF lvl, par, chl, eff, Tree!Create, Tree!Nodes, Nodes
  <1> QED
    BY <1>6, <1>17 DEF Tree!Next, Tree!GetLogger

LEMMA UnwatchedStays ==
    ASSUME Unwatched
    PROVE  UNCHANGED Tree!vars
  <1>1. UNCHANGED <<dict, maps, prnt, chld>>
    BY DEF Unwatched
  <1>2. /\ \A x : Kind(x)' = Kind(x) /\ Object(x)' = Object(x)
        /\ \A x : IsLogger(x)' <=> IsLogger(x)
        /\ \A x : Eff(x)' = Eff(x)
    BY <1>1 DEF Kind, Object, IsLogger, Eff
  <1>3. \A x : /\ NamesOf(maps[dict[x]])' = NamesOf(maps[dict[x]])
               /\ NamesOf(chld[Object(x)])' = NamesOf(chld[Object(x)])
               /\ prnt[Object(x)]' = prnt[Object(x)]
    BY <1>1, <1>2 DEF NamesOf
  <1> QED
    BY <1>1, <1>2, <1>3 DEF Tree!vars

LEMMA TreeInit == Init => Tree!Init
  <1> SUFFICES ASSUME Init
               PROVE  Tree!Init
    OBVIOUS
  <1>1. /\ \A x \in Names : dict[x] = None
        /\ Between /\ prnt[RootLogger] = None /\ chld[RootLogger] = {}
    BY DEF Init, Between, dict, prnt, chld
  <1>2. Root \notin Names
    BY NamesAssumption
  <1>3. /\ \A x \in Names : Kind(x) = "absent" /\ ~ IsLogger(x)
        /\ IsLogger(Root) /\ Object(Root) = RootLogger
    BY <1>1, <1>2 DEF Kind, IsLogger, Object
  <1>4. /\ [x \in Names |-> Kind(x)] = [x \in Names |-> "absent"]
        /\ [x \in Names |->
              IF Kind(x) = "placeholder" THEN NamesOf(maps[dict[x]]) ELSE {}]
           = [x \in Names |-> {}]
        /\ [x \in Nodes |-> Eff(x)]
           = [x \in Nodes |-> IF x = Root THEN WARNING ELSE NOTSET]
        /\ [x \in Nodes |-> IF IsLogger(x) /\ prnt[Object(x)] # None
                            THEN prnt[Object(x)].name ELSE None]
           = [x \in Nodes |-> None]
        /\ [x \in Nodes |-> IF IsLogger(x) THEN NamesOf(chld[Object(x)]) ELSE {}]
           = [x \in Nodes |-> {}]
    BY <1>1, <1>2, <1>3 DEF Nodes, Eff, NamesOf
  <1>5. [x \in Nodes |-> IF IsLogger(x) THEN {s \in Severities : s >= WARNING} ELSE {}]
        = [x \in Nodes |-> Tree!EnabledBasedOn(
              [y \in Nodes |-> IF y = Root THEN WARNING ELSE NOTSET][x])]
    <2>1. Tree!EnabledBasedOn(WARNING) = {s \in Severities : s >= WARNING}
      BY DEF Tree!EnabledBasedOn, Tree!Severities, Severities, WARNING
    <2>2. Tree!EnabledBasedOn(NOTSET) = {}
      BY DEF Tree!EnabledBasedOn, Tree!Severities, NOTSET
    <2> QED
      BY <1>3, <2>1, <2>2 DEF Nodes
  <1> QED
    BY <1>4, <1>5
    DEF Tree!Init, Tree!Nodes, Nodes, Tree!WARNING, WARNING, Tree!NOTSET, NOTSET

(* Until calls overlap, the hierarchy that getLogger leaves is, name by     *)
(* name, the one that the single step of LoggerTree makes: the steps within *)
(* a call, and a call that finds its logger, change nothing that can be     *)
(* seen between calls, and the last step of a call shows its whole effect.  *)
THEOREM RefinesTree == Spec => ImplementsTree
  <1>1. RaceInv /\ TypeOK' /\ SoloInv /\ [Next]_vars => SoloInv'
    BY SoloStep DEF SoloInv
  <1>2. RaceInv /\ TypeOK' /\ SoloInv /\ [Next]_vars
            => [~ overlapped' => [Tree!Next]_Tree!vars]_vars
    BY SoloStep, GrowsCreates, UnwatchedStays
  <1>3. RaceInv => TypeOK
    BY DEF RaceInv
  <1> QED
    BY <1>1, <1>2, <1>3, RaceInvariant, SoloInit, TreeInit, PTL DEF Spec, ImplementsTree
==============================================================================
