------------------------------ MODULE LoggerRace ------------------------------
(***************************************************************************)
(* Manager.getLogger step by step, called by several threads: nothing       *)
(* locks loggerDict, so the interpreter may switch threads between any two  *)
(* of its operations.  LoggerTree has the same calls as single steps; when  *)
(* calls do not overlap this module implements it.                          *)
(*                                                                         *)
(* Levels are left out: every logger but the root keeps level NOTSET.       *)
(***************************************************************************)
EXTENDS LoggerNames

CONSTANTS
    Threads,
    MaxCalls   \* how many calls a thread makes

(* A logger is known by its name and the call that made it, the k-th one of *)
(* thread t, and a placeholder by its name and the logger it was made for.  *)
Logger(n, t, k) == [kind |-> "logger", name |-> n, by |-> <<t, k>>]
RootLogger == [kind |-> "logger", name |-> Root, by |-> None]
Placeholder(n, o) == [kind |-> "placeholder", name |-> n, by |-> o]

Loggers == {Logger(n, t, k) : n \in Names, t \in Threads, k \in 1 .. MaxCalls}
Placeholders == {Placeholder(n, o) : n \in Names, o \in Loggers}

ASSUME RaceAssumption ==
    /\ MaxCalls \in Nat
    /\ None \notin Loggers \cup Placeholders \cup {RootLogger}

VARIABLES
    loggerDict,  \* Manager.loggerDict: a logger, a placeholder or None
    loggerMap,   \* the loggers each _Placeholder remembers
    parent,      \* Logger.parent
    children,    \* Logger.children
    pc,          \* where each thread is in getLogger
    self,        \* its locals: [name, rv, ph, todo, seen, size, child]
    calls,       \* how many calls each thread has begun
    returned,    \* history: the pairs <<n, logger>> that calls have returned
    overlapped,  \* history: whether calls have overlapped
    before       \* history: the hierarchy as it was between calls until then

hierarchy == <<loggerDict, loggerMap, parent, children>>
history == <<calls, overlapped, before>>
vars == <<hierarchy, pc, self, history, returned>>

NoLocals == [name |-> None, rv |-> None, ph |-> None,
             todo |-> {}, seen |-> {}, size |-> 0, child |-> None]

Between == \A t \in Threads : pc[t] = "idle"

Init ==
    /\ loggerDict = [n \in Names |-> None]
    /\ loggerMap = [p \in Placeholders |-> {}]
    /\ parent = [o \in Loggers \cup {RootLogger} |-> None]
    /\ children = [o \in Loggers \cup {RootLogger} |-> {}]
    /\ pc = [t \in Threads |-> "idle"]
    /\ self = [t \in Threads |-> NoLocals]
    /\ calls = [t \in Threads |-> 0]
    /\ returned = {}
    /\ overlapped = FALSE
    /\ before = hierarchy

-----------------------------------------------------------------------------
Goto(t, label) == pc' = [pc EXCEPT ![t] = label]

Finish(t, o) ==
    /\ Goto(t, "idle")
    /\ self' = [self EXCEPT ![t] = NoLocals]
    /\ returned' = returned \cup {<<self[t].name, o>>}

(* An AttributeError or a RuntimeError leaves the call half done.           *)
Raise(t) ==
    /\ Goto(t, "raised")
    /\ UNCHANGED <<hierarchy, self, returned, history>>

Call(t, n) ==
    /\ pc[t] = "idle"
    /\ calls[t] < MaxCalls /\ calls' = [calls EXCEPT ![t] = @ + 1]
    /\ Goto(t, "check")
    /\ self' = [self EXCEPT ![t] = [NoLocals EXCEPT !.name = n, !.todo = Above[n]]]
    /\ overlapped' = (overlapped \/ ~ Between)
    /\ before' = IF overlapped' THEN None ELSE hierarchy
    /\ UNCHANGED <<hierarchy, returned>>

Holds(entry, kind) == IF entry = None THEN FALSE ELSE entry.kind = kind

(* if name in self.loggerDict: rv = self.loggerDict[name]; otherwise, and   *)
(* for a placeholder, self.cls(name) makes a new object.                    *)
Check(t) ==
    LET entry == loggerDict[self[t].name]
    IN  /\ pc[t] = "check"
        /\ IF Holds(entry, "logger")
           THEN Finish(t, entry)
           ELSE /\ Goto(t, "store")
                /\ self' = [self EXCEPT ![t].ph = entry,
                                        ![t].rv = Logger(self[t].name, t, calls[t])]
                /\ returned' = returned
        /\ UNCHANGED <<hierarchy, history>>

(* self.loggerDict[name] = rv                                               *)
Store(t) ==
    /\ pc[t] = "store"
    /\ loggerDict' = [loggerDict EXCEPT ![self[t].name] = self[t].rv]
    /\ Goto(t, IF self[t].ph = None THEN "climb" ELSE "children")
    /\ UNCHANGED <<loggerMap, parent, children, self, returned, history>>

-----------------------------------------------------------------------------
(* _fixupChildren: the iterator over loggerMap notes its size first, ...    *)
Remembered(t) == loggerMap[self[t].ph]

StartChildren(t) ==
    /\ pc[t] = "children"
    /\ self' = [self EXCEPT ![t].size = Cardinality(Remembered(t))]
    /\ Goto(t, "move")
    /\ UNCHANGED <<hierarchy, returned, history>>

(* ... and raises if another thread has added a logger since.               *)
Unseen(t) == Remembered(t) \ self[t].seen
Resized(t) == Cardinality(Remembered(t)) # self[t].size

(* Mutant: every child is moved.                                            *)
TestNothing(t) ==
    /\ pc[t] = "move" /\ ~ Resized(t)
    /\ \E c \in Unseen(t) :
        /\ parent[c] # None
        /\ self' = [self EXCEPT ![t].seen = @ \cup {c}, ![t].child = c]
        /\ Goto(t, "lift")
    /\ UNCHANGED <<hierarchy, returned, history>>

(* c.parent.name is compared with the new logger's; ...                     *)
TestChild(t) ==
    /\ pc[t] = "move" /\ ~ Resized(t)
    /\ \E c \in Unseen(t) :
        LET moves == parent[c].name \notin TextExt[self[t].name]
        IN  /\ parent[c] # None
            /\ self' = [self EXCEPT ![t].seen = @ \cup {c}, ![t].child = c]
            /\ Goto(t, IF moves THEN "lift" ELSE "move")
    /\ UNCHANGED <<hierarchy, returned, history>>

(* ... a logger whose own call has not linked it yet has no parent to ask.  *)
TestRaises(t) ==
    /\ pc[t] = "move" /\ Unseen(t) # {}
    /\ Resized(t) \/ (~ Resized(t) /\ \E c \in Unseen(t) : parent[c] = None)
    /\ Raise(t)

(* The parent setter, which also enters the logger in its parent's list.    *)
SetParent(o, p) ==
    /\ parent' = [parent EXCEPT ![o] = p]
    /\ children' = [children EXCEPT ![p] = @ \cup {o}]

(* alogger.parent = c.parent                                                *)
Lift(t) ==
    /\ pc[t] = "lift"
    /\ SetParent(self[t].rv, parent[self[t].child])
    /\ Goto(t, "adopt")
    /\ UNCHANGED <<loggerDict, loggerMap, self, returned, history>>

(* c.parent = alogger                                                       *)
Adopt(t) ==
    /\ pc[t] = "adopt"
    /\ SetParent(self[t].child, self[t].rv)
    /\ Goto(t, "move")
    /\ UNCHANGED <<loggerDict, loggerMap, self, returned, history>>

(* Mutant: a name that had a placeholder is returned without _fixupParents. *)
EndChildrenReturns(t) ==
    /\ pc[t] = "move" /\ Unseen(t) = {}
    /\ Finish(t, self[t].rv)
    /\ UNCHANGED <<hierarchy, history>>

EndChildren(t) ==
    /\ pc[t] = "move" /\ Unseen(t) = {}
    /\ Goto(t, "climb")
    /\ UNCHANGED <<hierarchy, self, returned, history>>

-----------------------------------------------------------------------------
(* _fixupParents, from the longest prefix up: look, then plant a new        *)
(* placeholder, add to the one found, or stop at a logger.                  *)
Prefix(t) == Longest(self[t].todo)
Climbing(t) == pc[t] = "climb" /\ self[t].todo # {}
Entry(t) == loggerDict[Prefix(t)]

Look(t) ==
    /\ Climbing(t) /\ ~ Holds(Entry(t), "logger")
    /\ self' = [self EXCEPT ![t].ph = Entry(t)]
    /\ Goto(t, IF Entry(t) = None THEN "plant" ELSE "append")
    /\ UNCHANGED <<hierarchy, returned, history>>

(* Mutant: the placeholder remembers the logger's parent.                   *)
PlantParent(t) ==
    LET p == Placeholder(Prefix(t), self[t].rv)
    IN  /\ pc[t] = "plant"
        /\ loggerDict' = [loggerDict EXCEPT ![Prefix(t)] = p]
        /\ loggerMap' = [loggerMap EXCEPT ![p] = {parent[self[t].rv]}]
        /\ self' = [self EXCEPT ![t].todo = @ \ {Prefix(t)}]
        /\ Goto(t, "climb")
        /\ UNCHANGED <<parent, children, returned, history>>

Plant(t) ==
    LET p == Placeholder(Prefix(t), self[t].rv)
    IN  /\ pc[t] = "plant"
        /\ loggerDict' = [loggerDict EXCEPT ![Prefix(t)] = p]
        /\ loggerMap' = [loggerMap EXCEPT ![p] = {self[t].rv}]
        /\ self' = [self EXCEPT ![t].todo = @ \ {Prefix(t)}]
        /\ Goto(t, "climb")
        /\ UNCHANGED <<parent, children, returned, history>>

AppendTo(t) ==
    /\ pc[t] = "append"
    /\ loggerMap' = [loggerMap EXCEPT ![self[t].ph] = @ \cup {self[t].rv}]
    /\ self' = [self EXCEPT ![t].todo = @ \ {Prefix(t)}]
    /\ Goto(t, "climb")
    /\ UNCHANGED <<loggerDict, parent, children, returned, history>>

(* alogger.parent = logger_parent, or the root; and return.                 *)
LinkTo(t, p) ==
    /\ SetParent(self[t].rv, p)
    /\ Finish(t, self[t].rv)
    /\ UNCHANGED <<loggerDict, loggerMap, history>>

Link(t) == Climbing(t) /\ Holds(Entry(t), "logger") /\ LinkTo(t, Entry(t))
LinkRoot(t) == pc[t] = "climb" /\ self[t].todo = {} /\ LinkTo(t, RootLogger)

-----------------------------------------------------------------------------
Step(t) ==
    \/ Check(t) \/ Store(t)
    \/ StartChildren(t) \/ TestChild(t) \/ TestRaises(t) \/ Lift(t)
    \/ Adopt(t) \/ EndChildren(t)
    \/ Look(t) \/ Plant(t) \/ AppendTo(t) \/ Link(t) \/ LinkRoot(t)

Next ==
    \/ \E t \in Threads, n \in Names : Call(t, n)
    \/ \E t \in Threads : Step(t)

Spec == Init /\ [][Next]_vars

-----------------------------------------------------------------------------
TypeOK ==
    /\ loggerDict \in [Names -> Loggers \cup Placeholders \cup {None}]
    /\ loggerMap \in [Placeholders -> SUBSET Loggers]
    /\ parent \in [Loggers \cup {RootLogger} -> Loggers \cup {RootLogger, None}]
    /\ children \in [Loggers \cup {RootLogger} -> SUBSET Loggers]
    /\ pc \in [Threads -> {"idle", "check", "store", "children", "move", "lift",
                           "adopt", "climb", "plant", "append", "raised"}]
    /\ calls \in [Threads -> 0 .. MaxCalls]
    /\ returned \subseteq Names \X Loggers
    /\ overlapped \in BOOLEAN

(* getLogger(n) gives every caller the same logger: "Get a logger with the  *)
(* specified name (channel name), creating it if it doesn't yet exist".  *)
OneLoggerAlways ==
    \A p, q \in returned : p[1] = q[1] => p[2] = q[2]

(* Following Logger.parent ends at the root.  The setter of parent follows  *)
(* it itself, holding the GIL, for as long as the levels are NOTSET.        *)
ClimbEnds ==
    \A S \in SUBSET Loggers : S # {} => \E o \in S : parent[o] \notin S

(* However calls have overlapped, when all have returned the parent of a    *)
(* logger is the root or has a shorter name, and has it among its children: *)
(* levels pushed down reach it, and records climb to the root.              *)
RestingLinksDescend ==
    Between => \A r \in returned :
        LET up == parent[r[2]]
        IN  /\ up # None
            /\ up = RootLogger \/ up.name \in Above[r[1]]
            /\ r[2] \in children[up]

(* The hierarchy between calls as LoggerTree sees it: by names.             *)
dict == IF Between THEN loggerDict ELSE before[1]
maps == IF Between THEN loggerMap ELSE before[2]
prnt == IF Between THEN parent ELSE before[3]
chld == IF Between THEN children ELSE before[4]

Kind(n) == IF dict[n] = None THEN "absent" ELSE dict[n].kind
Object(n) == IF n = Root THEN RootLogger ELSE dict[n]
IsLogger(n) == n = Root \/ Kind(n) = "logger"
NamesOf(objects) == {o.name : o \in objects}
Eff(n) == IF IsLogger(n) THEN WARNING ELSE NOTSET

Tree == INSTANCE LoggerTree WITH
    loggerDict <- [n \in Names |-> Kind(n)],
    loggerMap <- [n \in Names |->
                     IF Kind(n) = "placeholder" THEN NamesOf(maps[dict[n]]) ELSE {}],
    level <- [n \in Nodes |-> IF n = Root THEN WARNING ELSE NOTSET],
    effective_level <- [n \in Nodes |-> Eff(n)],
    enabledFor <- [n \in Nodes |->
                      IF IsLogger(n) THEN {s \in Severities : s >= WARNING} ELSE {}],
    parent <- [n \in Nodes |->
                  IF IsLogger(n) /\ prnt[Object(n)] # None
                  THEN prnt[Object(n)].name ELSE None],
    children <- [n \in Nodes |->
                    IF IsLogger(n) THEN NamesOf(chld[Object(n)]) ELSE {}],
    careful <- TRUE

(* Until calls overlap, they have the effect LoggerTree gives them.         *)
ImplementsTree ==
    Tree!Init /\ [][~ overlapped' => [Tree!Next]_Tree!vars]_vars
==============================================================================
