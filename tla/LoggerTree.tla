------------------------------ MODULE LoggerTree ------------------------------
(***************************************************************************)
(* The logger hierarchy: Manager.getLogger with _fixupParents and          *)
(* _fixupChildren (__init__.py), and the level machinery of logger.cxx that *)
(* these calls drive through the parent setter: every logger caches the     *)
(* level it inherits (effective_level) and five flags derived from it.      *)
(*                                                                         *)
(* One getLogger or setLevel call is one step.  Calls of several threads    *)
(* that overlap inside getLogger are the subject of LoggerRace.             *)
(***************************************************************************)
EXTENDS LoggerNames

VARIABLES
    loggerDict,       \* what Manager.loggerDict holds under each name
    loggerMap,        \* the loggers a _Placeholder remembers
    level,            \* Logger.level
    effective_level,  \* Logger.effective_level
    enabledFor,       \* the severities whose enabledFor flag is true
    parent,           \* Logger.parent
    children,         \* Logger.children; the list never holds a logger twice
    careful           \* history: whether every use so far has been Careful

vars == <<loggerDict, loggerMap, level, effective_level, enabledFor, parent,
          children, careful>>

Live == {n \in Names : loggerDict[n] = "logger"}
Loggers == Live \cup {Root}

-----------------------------------------------------------------------------
(* findEffectiveLevelFromParents: the loggers its loop visits from n are    *)
(* the least set that holds n and, with a logger whose level is NOTSET,     *)
(* that logger's parent.                                                    *)
ScanClosed(S) ==
    \A m \in S : level[m] = NOTSET /\ parent[m] # None => parent[m] \in S

Visited(n) ==
    {m \in Nodes : \A S \in SUBSET Nodes : n \in S /\ ScanClosed(S) => m \in S}

ScanEnds(m) == level[m] > NOTSET \/ parent[m] = None

FindEffectiveLevel(n) ==
    level[CHOOSE m \in Visited(n) : ScanEnds(m)]

(* Mutant: the cases of the switch end in break.                            *)
EnabledWithBreak(l) == IF l \in Severities THEN {l} ELSE {}

(* setEnabledBasedOnEffectiveLevel: the switch falls through, and a value   *)
(* that is no case label leaves every flag false.                          *)
EnabledBasedOn(l) ==
    IF l \in Severities THEN {s \in Severities : s >= l} ELSE {}

(* setEffectiveLevelOfChildren: the loggers its recursion assigns, which    *)
(* stops at a child that has a level of its own.                           *)
PushClosed(n, S) ==
    \A p \in S \cup {n} : \A c \in children[p] : level[c] = NOTSET => c \in S

(* Mutant: the level is pushed to the direct children only.                 *)
InheritingDirect(n) == {m \in children[n] : level[m] = NOTSET}

Inheriting(n) ==
    {m \in Names : \A S \in SUBSET Names : PushClosed(n, S) => m \in S}

-----------------------------------------------------------------------------
(* _fixupParents climbs from n to the first logger above it, ...            *)
LiveAbove(n) == Above[n] \cap Live
NearestLogger(n) == IF LiveAbove(n) = {} THEN Root ELSE Longest(LiveAbove(n))

(* Mutant: a placeholder that exists is passed without obj.append.          *)
PassedWithoutAppend(n) ==
    {a \in Above[n] : loggerDict[a] = "absent" /\ LiveAbove(n) \subseteq Above[a]}

(* ... and leaves a placeholder that remembers n under every name it passes *)
Passed(n) == {a \in Above[n] \ Live : LiveAbove(n) \subseteq Above[a]}

(* Mutants: no child is moved; every child is, whatever its parent.         *)
MovedNone(n) == {}
MovedUntested(n) == loggerMap[n]

(* _fixupChildren: the remembered loggers that move below n.  The test      *)
(* compares the name string of the current parent with n.                   *)
Moved(n) == {c \in loggerMap[n] : parent[c] \notin TextExt[n]}

(* Manager.getLogger for a name that is not a logger yet.  A child that     *)
(* moves is rescanned while n's parent is the child's old parent and n's    *)
(* own level is NOTSET; the old parent keeps it in its children list.       *)
Create(n) ==
    LET up    == NearestLogger(n)
        moved == Moved(n)
        eff   == [m \in moved \cup {n} |->
                    IF m = n THEN FindEffectiveLevel(up)
                    ELSE IF level[m] > NOTSET THEN level[m]
                    ELSE FindEffectiveLevel(parent[m])]
    IN  /\ loggerDict' = [m \in Names |->
                IF m = n THEN "logger"
                ELSE IF m \in Passed(n) THEN "placeholder"
                ELSE loggerDict[m]]
        /\ loggerMap' = [m \in Names |->
                IF m = n THEN {}
                ELSE IF m \in Passed(n) THEN loggerMap[m] \cup {n}
                ELSE loggerMap[m]]
        /\ parent' = [m \in Nodes |->
                IF m = n THEN up ELSE IF m \in moved THEN n ELSE parent[m]]
        /\ children' = [m \in Nodes |->
                (IF m = n THEN moved ELSE children[m])
                \cup (IF m = up \/ \E c \in moved : parent[c] = m
                      THEN {n} ELSE {})]
        /\ effective_level' = [m \in Nodes |->
                IF m \in moved \cup {n} THEN eff[m] ELSE effective_level[m]]
        /\ enabledFor' = [m \in Nodes |->
                IF m \in moved \cup {n} THEN EnabledBasedOn(eff[m])
                ELSE enabledFor[m]]
        /\ level' = level

(* A name that is a logger already is returned as it is.                    *)
GetLogger(n) == n \notin Live /\ Create(n)

(* Logger.setLevel with an integer.                                         *)
SetLevel(n, l) ==
    LET lev     == UShort(l)
        touched == {n} \cup Inheriting(n)
    IN  /\ n \in Loggers
        /\ level' = [level EXCEPT ![n] = lev]
        /\ effective_level' = [m \in Nodes |->
                IF m \in touched THEN lev ELSE effective_level[m]]
        /\ enabledFor' = [m \in Nodes |->
                IF m \in touched THEN EnabledBasedOn(lev) ELSE enabledFor[m]]
        /\ UNCHANGED <<loggerDict, loggerMap, parent, children>>

-----------------------------------------------------------------------------
(* Logger_new and Logger_init leave level NOTSET and no parent; the root    *)
(* logger is made with level WARNING.                                       *)
Init ==
    /\ loggerDict = [n \in Names |-> "absent"]
    /\ loggerMap  = [n \in Names |-> {}]
    /\ level           = [n \in Nodes |-> IF n = Root THEN WARNING ELSE NOTSET]
    /\ effective_level = level
    /\ enabledFor      = [n \in Nodes |-> EnabledBasedOn(level[n])]
    /\ parent   = [n \in Nodes |-> None]
    /\ children = [n \in Nodes |-> {}]
    /\ careful = TRUE

(* A setLevel that stays clear of two defects of the level cache: no logger *)
(* but the root is set back to NOTSET, and the level is not pushed through  *)
(* a children list that still names a logger which has moved below another. *)
NoStaleChild(m) == \A c \in children[m] : parent[c] = m

Careful(n, l) ==
    /\ UShort(l) > NOTSET \/ n = Root
    /\ \A m \in {n} \cup Inheriting(n) : NoStaleChild(m)

Next ==
    \/ \E n \in Names : GetLogger(n) /\ careful' = careful
    \/ \E n \in Nodes, l \in LevelArgs :
          SetLevel(n, l) /\ careful' = (careful /\ Careful(n, l))

Spec == Init /\ [][Next]_vars

-----------------------------------------------------------------------------
TypeOK ==
    /\ loggerDict \in [Names -> {"absent", "placeholder", "logger"}]
    /\ loggerMap \in [Names -> SUBSET Names]
    /\ level \in [Nodes -> LevelValues]
    /\ effective_level \in [Nodes -> LevelValues]
    /\ enabledFor \in [Nodes -> SUBSET Severities]
    /\ parent \in [Nodes -> Nodes \cup {None}]
    /\ children \in [Nodes -> SUBSET Names]
    /\ parent[Root] = None
    /\ \A n \in Names \ Live :
          level[n] = NOTSET /\ parent[n] = None /\ children[n] = {}

(* A logger's parent is the nearest logger above it, in whatever order the  *)
(* names were asked for ("Ensure that children of the placeholder ph are    *)
(* connected to the specified logger", _fixupChildren).                     *)
ParentIsNearest == \A n \in Live : parent[n] = NearestLogger(n)

(* _fixupParents leaves "either loggers or placeholders all the way" up,    *)
(* and a placeholder remembers every logger that has no logger between the  *)
(* two: all that _fixupChildren must find when the name is created.  It     *)
(* remembers nothing but loggers below it.                                  *)
PlaceholdersComplete ==
    /\ \A a \in Names : \A c \in loggerMap[a] :
          loggerDict[a] = "placeholder" /\ c \in Live /\ a \in Above[c]
    /\ \A n \in Live : \A a \in Above[n] :
          /\ loggerDict[a] # "absent"
          /\ loggerDict[a] = "placeholder" /\ LiveAbove(n) \subseteq Above[a]
                => n \in loggerMap[a]

(* A logger's parent is a logger above it and has it in its children list,  *)
(* so that setLevel reaches it; every entry of a children list is a logger  *)
(* below its owner.  Hence neither findEffectiveLevelFromParents nor the    *)
(* recursion of setEffectiveLevelOfChildren can go round for ever.          *)
LinksDescend ==
    /\ \A n \in Live :
          /\ parent[n] \in Loggers /\ (parent[n] = Root \/ parent[n] \in Above[n])
          /\ n \in children[parent[n]]
    /\ \A p \in Nodes : \A c \in children[p] :
          c \in Live /\ (p = Root \/ p \in Above[c])

(* debug() ... critical() test a flag, log() and isEnabledFor() the number: *)
(* the two agree for every standard level.                                  *)
IsEnabledFor(n, l) == l >= effective_level[n]

FlagsAgree ==
    \A n \in Loggers : effective_level[n] \in Severities =>
        \A s \in Severities : s \in enabledFor[n] <=> IsEnabledFor(n, s)

(* The same for every level a logger can be given by name, NOTSET included. *)
FlagsAgreeAlways ==
    \A n \in Loggers : effective_level[n] \in Severities \cup {NOTSET} =>
        \A s \in Severities : s \in enabledFor[n] <=> IsEnabledFor(n, s)

(* setLevel on one logger changes the effective level of another only when  *)
(* that one is below it and has no level of its own.                        *)
SetLevelStaysBelow ==
    [][\A n, m \in Nodes :
          level'[n] # level[n] /\ effective_level'[m] # effective_level[m]
          => \/ m = n
             \/ level[m] = NOTSET /\ (n = Root \/ n \in Above[m])]_vars

(* What a logger's level means in the logging API: its own, or that of the  *)
(* nearest logger above it that has one, or the root's.  It is said of      *)
(* names, without the parent links.                                         *)
InheritedLevel(n) ==
    LET own == {m \in UpFrom(n) \cap Live : level[m] > NOTSET}
    IN  IF own = {} THEN level[Root] ELSE level[Longest(own)]

(* The cached effective level is the level the hierarchy gives, ...         *)
EffectiveLevelInherited ==
    \A n \in Loggers : effective_level[n] = InheritedLevel(n)

(* ... as long as all uses have been careful.                               *)
CarefulLevelsInherited == careful => EffectiveLevelInherited

Hierarchy == INSTANCE LoggerHierarchy
    WITH live <- Live, lev <- level,
         eff <- [n \in Loggers |-> effective_level[n]]

(* As long as uses are careful, creation and setLevel have exactly the      *)
(* effect LoggerHierarchy gives them on every logger's effective level.     *)
ImplementsHierarchy ==
    Hierarchy!HInit /\ [][careful' => [Hierarchy!HNext]_Hierarchy!hvars]_vars
==============================================================================
