--------------------------- MODULE LoggerTreeProofs ---------------------------
(***************************************************************************)
(* Proofs about LoggerTree for every set of names and every sequence of     *)
(* getLogger and setLevel calls, and about DictConfig, which makes such     *)
(* calls, for every set of configurations.                                  *)
(***************************************************************************)
EXTENDS DictConfig, SequenceTheorems, TLAPS

LEMMA LevelsAreNaturals == LevelValues \subseteq Nat
  BY DEF LevelValues, USHORT

LEMMA UShortIsLevel == \A l \in Int : UShort(l) \in LevelValues
  <1>1. USHORT \in Nat \ {0}
    BY DEF USHORT
  <1>2. \A l, u \in Int : u > 0 => l % u \in 0 .. u - 1
    OBVIOUS
  <1> QED
    BY <1>1, <1>2 DEF UShort, LevelValues

LEMMA FlagsAreSeverities == \A l : EnabledBasedOn(l) \in SUBSET Severities
  BY DEF EnabledBasedOn

(* The longest name of a non-empty set of prefixes is in the set, below all *)
(* the others, and the only one that is.                                    *)
LEMMA LongestOfPrefixes ==
    ASSUME NEW n \in Names, NEW S \in SUBSET Above[n], S # {}
    PROVE  /\ Longest(S) \in S
           /\ S \ {Longest(S)} \subseteq Above[Longest(S)]
           /\ \A m \in S : S \ {m} \subseteq Above[m] => m = Longest(S)
  <1>1. \E m \in S : S \ {m} \subseteq Above[m]
    BY NamesAssumption
  <1>2. /\ Longest(S) \in S
        /\ S \ {Longest(S)} \subseteq Above[Longest(S)]
    BY <1>1 DEF Longest
  <1>3. ASSUME NEW m \in S, S \ {m} \subseteq Above[m], m # Longest(S)
        PROVE  FALSE
    <2>1. /\ m \in Names /\ Longest(S) \in Names
          /\ m \in Above[Longest(S)] /\ Longest(S) \in Above[m]
      BY <1>2, <1>3, NamesAssumption
    <2> QED
      BY <2>1, NamesAssumption
  <1> QED
    BY <1>2, <1>3

(* Two prefixes of one name are comparable.                                 *)
LEMMA PrefixesAreAChain ==
    ASSUME NEW n \in Names, NEW a \in Above[n], NEW b \in Above[n]
    PROVE  a = b \/ a \in Above[b] \/ b \in Above[a]
  <1> DEFINE S == {a, b}
  <1>1. S \in SUBSET Above[n] /\ S # {}
    OBVIOUS
  <1>2. \A T \in SUBSET Above[n] : T # {} => \E m \in T : T \ {m} \subseteq Above[m]
    BY NamesAssumption
  <1>3. \E m \in S : S \ {m} \subseteq Above[m]
    BY <1>1, <1>2
  <1> QED
    BY <1>3

(* What the climb of _fixupParents finds.                                   *)
LEMMA NearestIsNearest ==
    ASSUME NEW n \in Names
    PROVE  \/ LiveAbove(n) = {} /\ NearestLogger(n) = Root
           \/ /\ NearestLogger(n) \in LiveAbove(n)
              /\ LiveAbove(n) \ {NearestLogger(n)} \subseteq Above[NearestLogger(n)]
  <1>1. LiveAbove(n) \in SUBSET Above[n]
    BY DEF LiveAbove
  <1> QED
    BY <1>1, LongestOfPrefixes DEF NearestLogger

(* A logger with a level of its own uses it, whoever else's level changes.  *)
OwnLevelWins ==
    \A n \in Loggers : level[n] > NOTSET => effective_level[n] = level[n]

-----------------------------------------------------------------------------
(* The inductive invariant.                                                 *)
TreeInv == TypeOK /\ PlaceholdersComplete /\ LinksDescend /\ OwnLevelWins

(* The loop of findEffectiveLevelFromParents stops, at a logger it visits.  *)
LEMMA ScanStops ==
    ASSUME TypeOK, LinksDescend, NEW n \in Loggers
    PROVE  /\ \E m \in Visited(n) : ScanEnds(m)
           /\ FindEffectiveLevel(n) \in LevelValues
  <1>1. Visited(n) \subseteq Nodes /\ n \in Visited(n)
    BY DEF Visited, Loggers, Live, Nodes
  <1>2. ScanClosed(Visited(n))
    <2> SUFFICES ASSUME NEW m \in Visited(n), level[m] = NOTSET, parent[m] # None
                 PROVE  parent[m] \in Visited(n)
      BY DEF ScanClosed
    <2>1. parent[m] \in Nodes
      BY <1>1 DEF TypeOK
    <2>2. ASSUME NEW S \in SUBSET Nodes, n \in S, ScanClosed(S)
          PROVE  parent[m] \in S
      <3>1. m \in S
        BY <2>2 DEF Visited
      <3> QED
        BY <3>1, <2>2 DEF ScanClosed
    <2> QED
      BY <2>1, <2>2 DEF Visited
  <1>3. ASSUME \A m \in Visited(n) : ~ ScanEnds(m)
        PROVE  FALSE
    <2>1. \A m \in Visited(n) : level[m] = NOTSET /\ parent[m] # None
      <3> TAKE m \in Visited(n)
      <3>1. level[m] \in Nat
        <4>1. level[m] \in LevelValues
          BY <1>1 DEF TypeOK
        <4> QED
          BY <4>1, LevelsAreNaturals
      <3> QED
        BY <3>1, <1>3 DEF ScanEnds, NOTSET
    <2>2. Root \notin Visited(n)
      BY <2>1 DEF TypeOK
    <2>3. Visited(n) \in SUBSET Names /\ Visited(n) # {}
      BY <1>1, <2>2 DEF Nodes
    <2>4. PICK t \in Visited(n) : Above[t] \cap Visited(n) = {}
      BY <2>3, NamesAssumption
    <2>5. t \in Live
      BY <2>1, <2>3 DEF TypeOK
    <2>6. parent[t] \in Visited(n)
      BY <1>2, <2>1 DEF ScanClosed
    <2> QED
      BY <2>2, <2>4, <2>5, <2>6 DEF LinksDescend
  <1>4. \E m \in Visited(n) : ScanEnds(m)
    BY <1>3
  <1>5. FindEffectiveLevel(n) \in LevelValues
    <2> DEFINE e == CHOOSE m \in Visited(n) : ScanEnds(m)
    <2>1. e \in Visited(n)
      BY <1>4
    <2>2. e \in Nodes
      BY <2>1, <1>1
    <2>3. FindEffectiveLevel(n) = level[e]
      BY DEF FindEffectiveLevel
    <2> HIDE DEF e
    <2>4. level[e] \in LevelValues
      BY <2>2 DEF TypeOK
    <2> QED
      BY <2>3, <2>4
  <1> QED
    BY <1>4, <1>5

(* The effects of one creation, without the LET.                            *)
Rescanned(n, m) ==
    IF m = n THEN FindEffectiveLevel(NearestLogger(n))
    ELSE IF level[m] > NOTSET THEN level[m]
    ELSE FindEffectiveLevel(parent[m])

LEMMA CreateFacts ==
    ASSUME TreeInv, NEW n \in Names, GetLogger(n)
    PROVE  /\ n \notin Live
           /\ Live' = Live \cup {n}
           /\ Moved(n) \subseteq Live
           /\ \A c \in Moved(n) : n \in Above[c] /\ c # n
           /\ NearestLogger(n) \in Loggers
           /\ NearestLogger(n) = Root \/ NearestLogger(n) \in LiveAbove(n)
           /\ NearestLogger(n) # n
           /\ Rescanned(n, n) \in LevelValues
           /\ \A c \in Moved(n) : Rescanned(n, c) \in LevelValues
  <1>1. n \notin Live
    BY DEF GetLogger
  <1>2. Live' = Live \cup {n}
    BY <1>1 DEF Live, GetLogger, Create, Passed
  <1>3. \A c \in Moved(n) : c \in Live /\ n \in Above[c] /\ c # n
    BY NamesAssumption, <1>1 DEF Moved, TreeInv, PlaceholdersComplete
  <1>4. /\ NearestLogger(n) \in Loggers
        /\ NearestLogger(n) = Root \/ NearestLogger(n) \in LiveAbove(n)
        /\ NearestLogger(n) # n
    BY NearestIsNearest, NamesAssumption, <1>1 DEF Loggers, LiveAbove
  <1>5. Rescanned(n, n) \in LevelValues
    BY <1>4, ScanStops DEF Rescanned, TreeInv
  <1>6. ASSUME NEW c \in Moved(n)
        PROVE  Rescanned(n, c) \in LevelValues
    <2>1. parent[c] \in Loggers /\ c \in Live /\ c # n
      BY <1>3 DEF TreeInv, LinksDescend
    <2>2. FindEffectiveLevel(parent[c]) \in LevelValues
      BY <2>1, ScanStops DEF TreeInv
    <2>3. level[c] \in LevelValues
      BY <2>1 DEF TreeInv, TypeOK, Live, Nodes
    <2> QED
      BY <2>1, <2>2, <2>3 DEF Rescanned
  <1> QED
    BY <1>1, <1>2, <1>3, <1>4, <1>5, <1>6

LEMMA CreateEffect ==
    ASSUME NEW n \in Names, GetLogger(n)
    PROVE  /\ \A m \in Names : loggerDict'[m] =
                IF m = n THEN "logger"
                ELSE IF m \in Passed(n) THEN "placeholder" ELSE loggerDict[m]
           /\ \A m \in Names : loggerMap'[m] =
                IF m = n THEN {}
                ELSE IF m \in Passed(n) THEN loggerMap[m] \cup {n} ELSE loggerMap[m]
           /\ \A m \in Nodes : parent'[m] =
                IF m = n THEN NearestLogger(n)
                ELSE IF m \in Moved(n) THEN n ELSE parent[m]
           /\ \A m \in Nodes : children'[m] =
                (IF m = n THEN Moved(n) ELSE children[m])
                \cup (IF m = NearestLogger(n) \/ \E c \in Moved(n) : parent[c] = m
                      THEN {n} ELSE {})
           /\ \A m \in Nodes : effective_level'[m] =
                IF m \in Moved(n) \cup {n} THEN Rescanned(n, m)
                ELSE effective_level[m]
           /\ \A m \in Nodes : enabledFor'[m] =
                IF m \in Moved(n) \cup {n} THEN EnabledBasedOn(Rescanned(n, m))
                ELSE enabledFor[m]
           /\ level' = level
  BY DEF GetLogger, Create, Rescanned, Nodes

(* A creation keeps the types, ...                                          *)
LEMMA CreateTypes ==
    ASSUME TreeInv, NEW n \in Names, GetLogger(n)
    PROVE  TypeOK'
  <1> USE CreateEffect, CreateFacts
  <1>1. loggerDict' \in [Names -> {"absent", "placeholder", "logger"}]
    BY DEF TreeInv, TypeOK, GetLogger, Create
  <1>2. loggerMap' \in [Names -> SUBSET Names]
    BY DEF TreeInv, TypeOK, GetLogger, Create
  <1>3. level' \in [Nodes -> LevelValues]
    BY DEF TreeInv, TypeOK
  <1>4. effective_level' \in [Nodes -> LevelValues]
    <2>1. effective_level' = [m \in Nodes |-> effective_level'[m]]
      BY DEF GetLogger, Create
    <2>2. ASSUME NEW m \in Nodes
          PROVE  effective_level'[m] \in LevelValues
      BY DEF TreeInv, TypeOK
    <2> QED
      BY <2>1, <2>2
  <1>5. enabledFor' \in [Nodes -> SUBSET Severities]
    <2>1. enabledFor' = [m \in Nodes |-> enabledFor'[m]]
      BY DEF GetLogger, Create
    <2>2. ASSUME NEW m \in Nodes
          PROVE  enabledFor'[m] \in SUBSET Severities
      <3>1. enabledFor[m] \in SUBSET Severities
        BY DEF TreeInv, TypeOK
      <3> QED
        BY <3>1, FlagsAreSeverities
    <2> QED
      BY <2>1, <2>2
  <1>6. parent' \in [Nodes -> Nodes \cup {None}]
    <2>1. parent' = [m \in Nodes |-> parent'[m]]
      BY DEF GetLogger, Create
    <2>2. ASSUME NEW m \in Nodes
          PROVE  parent'[m] \in Nodes \cup {None}
      BY DEF TreeInv, TypeOK, Nodes, Loggers, Live
    <2> QED
      BY <2>1, <2>2
  <1>7. children' \in [Nodes -> SUBSET Names]
    <2>1. children' = [m \in Nodes |-> children'[m]]
      BY DEF GetLogger, Create
    <2>2. ASSUME NEW m \in Nodes
          PROVE  children'[m] \in SUBSET Names
      BY DEF TreeInv, TypeOK, Live
    <2> QED
      BY <2>1, <2>2
  <1>8. parent'[Root] = None
    BY NamesAssumption DEF TreeInv, TypeOK, Nodes, Live
  <1>9. ASSUME NEW m \in Names \ Live'
        PROVE  level'[m] = NOTSET /\ parent'[m] = None /\ children'[m] = {}
    <2>1. m \in Names \ Live /\ m # n /\ m \notin Moved(n)
      OBVIOUS
    <2>2. m # NearestLogger(n) /\ \A c \in Moved(n) : parent[c] # m
      BY <2>1, NamesAssumption DEF TreeInv, LinksDescend, Loggers
    <2> QED
      BY <2>1, <2>2 DEF TreeInv, TypeOK, Nodes
  <1> QED
    BY <1>1, <1>2, <1>3, <1>4, <1>5, <1>6, <1>7, <1>8, <1>9 DEF TypeOK

(* ... the placeholders, ...                                                *)
LEMMA CreatePlaceholders ==
    ASSUME TreeInv, NEW n \in Names, GetLogger(n)
    PROVE  PlaceholdersComplete'
  <1> USE CreateEffect, CreateFacts
  <1>1. Passed(n) \subseteq Above[n] \ Live /\ n \notin Passed(n)
    BY NamesAssumption DEF Passed
  <1>2. ASSUME NEW a \in Names, NEW c \in loggerMap'[a]
        PROVE  loggerDict'[a] = "placeholder" /\ c \in Live' /\ a \in Above[c]
    <2>1. a # n
      BY <1>2
    <2>2. \A d \in loggerMap[a] :
             loggerDict[a] = "placeholder" /\ d \in Live /\ a \in Above[d]
      BY DEF TreeInv, PlaceholdersComplete
    <2>3. CASE a \in Passed(n)
      <3>1. c \in loggerMap[a] \cup {n}
        BY <2>1, <2>3, <1>2
      <3>2. loggerDict'[a] = "placeholder"
        BY <2>1, <2>3
      <3> QED
        BY <3>1, <3>2, <2>2, <2>3, <1>1
    <2>4. CASE a \notin Passed(n)
      <3>1. c \in loggerMap[a]
        BY <2>1, <2>4, <1>2
      <3>2. loggerDict'[a] = loggerDict[a]
        BY <2>1, <2>4
      <3> QED
        BY <3>1, <3>2, <2>2
    <2> QED
      BY <2>3, <2>4
  <1>3. ASSUME NEW m \in Live', NEW a \in Above[m]
        PROVE  loggerDict'[a] # "absent"
    <2>0. a \in Names /\ m \in Names
      BY NamesAssumption DEF Live
    <2>1. CASE m = n
      <3>1. CASE a \in Live \/ a \in Passed(n)
        BY <3>1, <2>0 DEF Live
      <3>2. CASE a \notin Live /\ a \notin Passed(n)
        <4>1. PICK b \in LiveAbove(n) : b \notin Above[a]
          BY <2>1, <3>2 DEF Passed
        <4>2. a \in Above[b] /\ b \in Live
          BY <4>1, <3>2, <2>1, PrefixesAreAChain DEF LiveAbove
        <4> QED
          BY <4>2, <2>0 DEF TreeInv, PlaceholdersComplete
      <3> QED
        BY <3>1, <3>2
    <2>2. CASE m # n
      <3>1. m \in Live
        BY <2>2
      <3>2. loggerDict[a] # "absent"
        BY <3>1 DEF TreeInv, PlaceholdersComplete
      <3> QED
        BY <3>2, <2>0
    <2> QED
      BY <2>1, <2>2
  <1>4. ASSUME NEW m \in Live', NEW a \in Above[m],
               loggerDict'[a] = "placeholder", LiveAbove(m)' \subseteq Above[a]
        PROVE  m \in loggerMap'[a]
    <2>0. a \in Names /\ m \in Names /\ a # n /\ loggerDict[a] # "logger"
      BY <1>4, NamesAssumption, <1>1 DEF Live
    <2>1. LiveAbove(m) \subseteq Above[a]
      BY <1>4 DEF LiveAbove
    <2>2. CASE m = n
      <3>1. a \in Passed(n)
        BY <2>0, <2>1, <2>2 DEF Passed, Live
      <3>2. loggerMap'[a] = loggerMap[a] \cup {n}
        BY <2>0, <3>1
      <3> QED
        BY <2>2, <3>2
    <2>3. CASE m # n
      <3>1. loggerDict[a] = "placeholder"
        BY <2>0, <2>3 DEF TreeInv, PlaceholdersComplete, TypeOK
      <3>2. m \in loggerMap[a]
        BY <2>1, <2>3, <3>1 DEF TreeInv, PlaceholdersComplete
      <3>3. loggerMap[a] \subseteq loggerMap'[a]
        <4>1. loggerMap'[a] = IF a \in Passed(n) THEN loggerMap[a] \cup {n}
                             ELSE loggerMap[a]
          BY <2>0
        <4> QED
          BY <4>1
      <3> QED
        BY <3>2, <3>3
    <2> QED
      BY <2>2, <2>3
  <1> QED
    BY <1>2, <1>3, <1>4 DEF PlaceholdersComplete

(* ... and the links.                                                       *)
LEMMA CreateLinks ==
    ASSUME TreeInv, NEW n \in Names, GetLogger(n)
    PROVE  LinksDescend'
  <1> USE CreateFacts
  <1>0. /\ \A m \in Live : /\ parent[m] \in Loggers
                           /\ parent[m] = Root \/ parent[m] \in Above[m]
                           /\ m \in children[parent[m]]
        /\ \A p \in Nodes : \A c \in children[p] :
              c \in Live /\ (p = Root \/ p \in Above[c])
    BY DEF TreeInv, LinksDescend
  <1>1. \A m \in Nodes :
           parent'[m] = IF m = n THEN NearestLogger(n)
                        ELSE IF m \in Moved(n) THEN n ELSE parent[m]
    BY CreateEffect
  <1>2. \A m \in Nodes :
           children'[m] = (IF m = n THEN Moved(n) ELSE children[m])
                \cup (IF m = NearestLogger(n) \/ \E c \in Moved(n) : parent[c] = m
                      THEN {n} ELSE {})
    BY CreateEffect
  <1>3. Live \subseteq Names /\ Names \subseteq Nodes /\ Root \in Nodes
        /\ Loggers \subseteq Nodes /\ n # Root /\ n \notin Loggers
        /\ Loggers' = Loggers \cup {n}
    BY NamesAssumption DEF Live, Nodes, Loggers
  <1>4. ASSUME NEW m \in Live'
        PROVE  /\ parent'[m] \in Loggers'
               /\ parent'[m] = Root \/ parent'[m] \in Above[m]
               /\ m \in children'[parent'[m]]
    <2>1. CASE m = n
      <3>1. parent'[m] = NearestLogger(n)
        BY <1>1, <1>3, <2>1
      <3>2. n \in children'[NearestLogger(n)]
        BY <1>2, <1>3
      <3> QED
        BY <3>1, <3>2, <2>1, <1>3 DEF LiveAbove
    <2>2. CASE m # n /\ m \in Moved(n)
      <3>1. parent'[m] = n
        BY <1>1, <1>3, <2>2
      <3>2. m \in children'[n]
        BY <1>2, <1>3, <2>2
      <3> QED
        BY <3>1, <3>2, <2>2, <1>3
    <2>3. CASE m # n /\ m \notin Moved(n)
      <3>1. m \in Live /\ parent'[m] = parent[m]
        BY <1>1, <1>3, <2>3
      <3>2. parent[m] \in Nodes /\ parent[m] # n
        BY <1>0, <1>3, <3>1
      <3>3. children[parent[m]] \subseteq children'[parent[m]]
        BY <1>2, <3>2
      <3> QED
        BY <1>0, <1>3, <3>1, <3>3
    <2> QED
      BY <2>1, <2>2, <2>3
  <1>5. ASSUME NEW p \in Nodes, NEW c \in children'[p]
        PROVE  c \in Live' /\ (p = Root \/ p \in Above[c])
    <2>1. CASE p = n
      <3>1. \A k \in Moved(n) : parent[k] # n
        BY <1>0, <1>3
      <3>2. c \in Moved(n)
        BY <1>2, <2>1, <3>1
      <3> QED
        BY <2>1, <3>2
    <2>2. CASE p # n /\ c \in children[p]
      BY <1>0, <2>2
    <2>3. CASE p # n /\ c \notin children[p]
      <3>1. c = n /\ (p = NearestLogger(n) \/ \E k \in Moved(n) : parent[k] = p)
        BY <1>2, <2>3
      <3>2. CASE p = NearestLogger(n)
        BY <3>1, <3>2 DEF LiveAbove
      <3>3. ASSUME NEW k \in Moved(n), parent[k] = p, p # Root
            PROVE  p \in Above[n]
        <4>1. p \in Above[k] /\ n \in Above[k] /\ k \in Names
          BY <1>0, <1>3, <3>3
        <4>2. p \notin TextExt[n]
          BY <3>3 DEF Moved
        <4>3. p \in Names
          BY <4>1, NamesAssumption
        <4>4. n \notin Above[p]
          BY <4>2, <4>3, TextAssumption
        <4> QED
          BY <4>1, <4>4, <2>3, PrefixesAreAChain
      <3> QED
        BY <3>1, <3>2, <3>3
    <2> QED
      BY <2>1, <2>2, <2>3
  <1> QED
    BY <1>4, <1>5 DEF LinksDescend

LEMMA CreateOwnLevel ==
    ASSUME TreeInv, NEW n \in Names, GetLogger(n)
    PROVE  OwnLevelWins'
  <1> SUFFICES ASSUME NEW m \in Loggers', level'[m] > NOTSET
               PROVE  effective_level'[m] = level'[m]
    BY DEF OwnLevelWins
  <1>0. level' = level /\ level[n] = NOTSET /\ m \in Nodes
    BY CreateEffect, CreateFacts DEF TreeInv, TypeOK, Loggers, Live, Nodes
  <1>1. m # n
    BY <1>0 DEF NOTSET
  <1>2. m \in Loggers
    BY <1>1, CreateFacts DEF Loggers
  <1>3. effective_level'[m] = IF m \in Moved(n) \cup {n} THEN Rescanned(n, m)
                              ELSE effective_level[m]
    BY <1>0, CreateEffect
  <1>4. effective_level[m] = level[m]
    BY <1>0, <1>2 DEF TreeInv, OwnLevelWins
  <1> QED
    BY <1>0, <1>1, <1>3, <1>4 DEF Rescanned

-----------------------------------------------------------------------------
(* The recursion of setEffectiveLevelOfChildren assigns nothing but loggers *)
(* without a level of their own.                                            *)
LEMMA InheritingHasNoLevel ==
    ASSUME TypeOK, LinksDescend, NEW n \in Nodes
    PROVE  \A m \in Inheriting(n) : m \in Live /\ level[m] = NOTSET
  <1> DEFINE S == {m \in Live : level[m] = NOTSET}
  <1>1. S \in SUBSET Names /\ S \subseteq Nodes
    BY DEF Live, Nodes
  <1>2. PushClosed(n, S)
    BY <1>1 DEF PushClosed, LinksDescend
  <1> QED
    BY <1>1, <1>2 DEF Inheriting

LEMMA SetLevelInv ==
    ASSUME TreeInv, NEW n \in Nodes, NEW l \in LevelArgs, SetLevel(n, l)
    PROVE  TreeInv'
  <1> DEFINE lev     == UShort(l)
             touched == {n} \cup Inheriting(n)
  <1>1. lev \in LevelValues
    BY LevelAssumption, UShortIsLevel
  <1>2. /\ n \in Loggers
        /\ level' = [level EXCEPT ![n] = lev]
        /\ effective_level' = [m \in Nodes |->
                IF m \in touched THEN lev ELSE effective_level[m]]
        /\ enabledFor' = [m \in Nodes |->
                IF m \in touched THEN EnabledBasedOn(lev) ELSE enabledFor[m]]
        /\ UNCHANGED <<loggerDict, loggerMap, parent, children>>
    BY DEF SetLevel
  <1> HIDE DEF lev
  <1>3. Live' = Live /\ Loggers' = Loggers
    BY <1>2 DEF Live, Loggers
  <1>4. TypeOK'
    <2>1. level' \in [Nodes -> LevelValues]
      BY <1>1, <1>2 DEF TreeInv, TypeOK
    <2>2. effective_level' \in [Nodes -> LevelValues]
      BY <1>1, <1>2 DEF TreeInv, TypeOK
    <2>3. enabledFor' \in [Nodes -> SUBSET Severities]
      BY <1>2, FlagsAreSeverities DEF TreeInv, TypeOK
    <2>4. \A m \in Names \ Live : level'[m] = NOTSET
      BY <1>2, NamesAssumption DEF TreeInv, TypeOK, Loggers, Nodes
    <2> QED
      BY <2>1, <2>2, <2>3, <2>4, <1>2, <1>3 DEF TreeInv, TypeOK
  <1>5. PlaceholdersComplete'
    BY <1>2, <1>3 DEF TreeInv, PlaceholdersComplete, LiveAbove
  <1>6. LinksDescend'
    BY <1>2, <1>3 DEF TreeInv, LinksDescend
  <1>7. OwnLevelWins'
    <2> SUFFICES ASSUME NEW m \in Loggers, level'[m] > NOTSET
                 PROVE  effective_level'[m] = level'[m]
      BY <1>3 DEF OwnLevelWins
    <2>1. m \in Nodes /\ level \in [Nodes -> LevelValues]
      BY DEF TreeInv, TypeOK, Loggers, Live, Nodes
    <2>2. CASE m = n
      BY <1>2, <2>1, <2>2
    <2>3. CASE m # n
      <3>1. level'[m] = level[m]
        BY <1>2, <2>1, <2>3
      <3>2. m \notin Inheriting(n)
        BY <3>1, InheritingHasNoLevel DEF TreeInv, NOTSET
      <3> QED
        BY <1>2, <2>1, <2>3, <3>1, <3>2 DEF TreeInv, OwnLevelWins
    <2> QED
      BY <2>2, <2>3
  <1> QED
    BY <1>4, <1>5, <1>6, <1>7 DEF TreeInv

LEMMA InitInv == Init => TreeInv
  <1> SUFFICES ASSUME Init
               PROVE  TreeInv
    OBVIOUS
  <1>1. Live = {} /\ Loggers = {Root} /\ Root \in Nodes
    BY DEF Init, Live, Loggers, Nodes
  <1>2. NOTSET \in LevelValues /\ WARNING \in LevelValues
    BY DEF NOTSET, WARNING, LevelValues, USHORT
  <1>3. level \in [Nodes -> LevelValues] /\ effective_level = level
    BY <1>2 DEF Init
  <1>4. TypeOK
    <2>1. enabledFor \in [Nodes -> SUBSET Severities]
      BY FlagsAreSeverities DEF Init
    <2> QED
      BY <1>1, <1>3, <2>1, NamesAssumption, ZenonT(30) DEF Init, TypeOK, Nodes
  <1>5. PlaceholdersComplete /\ LinksDescend
    BY <1>1 DEF Init, PlaceholdersComplete, LinksDescend
  <1>6. OwnLevelWins
    BY <1>3 DEF OwnLevelWins
  <1> QED
    BY <1>4, <1>5, <1>6 DEF TreeInv

LEMMA NextInv == TreeInv /\ [Next]_vars => TreeInv'
  <1> SUFFICES ASSUME TreeInv, [Next]_vars
               PROVE  TreeInv'
    OBVIOUS
  <1>1. ASSUME NEW n \in Names, GetLogger(n)
        PROVE  TreeInv'
    BY <1>1, CreateTypes, CreatePlaceholders, CreateLinks, CreateOwnLevel
       DEF TreeInv
  <1>2. ASSUME NEW n \in Nodes, NEW l \in LevelArgs, SetLevel(n, l)
        PROVE  TreeInv'
    BY <1>2, SetLevelInv
  <1>3. CASE UNCHANGED vars
    BY <1>3 DEF vars, TreeInv, TypeOK, PlaceholdersComplete, LinksDescend,
                OwnLevelWins, Live, Loggers, LiveAbove
  <1> QED
    BY <1>1, <1>2, <1>3 DEF Next

(* Whatever loggers are asked for and whatever levels are set: placeholders *)
(* remember every logger they must hand over, parent links go up and        *)
(* children lists go down, so that the scan and the recursion end, and a    *)
(* logger's own level is the one in use.                                    *)
THEOREM TreeInvariant == Spec => []TreeInv
  BY InitInv, NextInv, PTL DEF Spec

(* The types of the state.                                                  *)
THEOREM TypesHold == Spec => []TypeOK
  <1>1. TreeInv => TypeOK
    BY DEF TreeInv
  <1> QED
    BY <1>1, TreeInvariant, PTL

(* Links never form a cycle and miss no logger.                             *)
THEOREM LinksHold == Spec => []LinksDescend
  <1>1. TreeInv => LinksDescend
    BY DEF TreeInv
  <1> QED
    BY <1>1, TreeInvariant, PTL

(* Placeholders lose no logger.                                             *)
THEOREM PlaceholdersHold == Spec => []PlaceholdersComplete
  <1>1. TreeInv => PlaceholdersComplete
    BY DEF TreeInv
  <1> QED
    BY <1>1, TreeInvariant, PTL

(* A logger's own level is never overwritten by a level set above it.       *)
THEOREM OwnLevelHolds == Spec => []OwnLevelWins
  <1>1. TreeInv => OwnLevelWins
    BY DEF TreeInv
  <1> QED
    BY <1>1, TreeInvariant, PTL

-----------------------------------------------------------------------------
(* setLevel reaches only loggers below the one it is called on.             *)
LEMMA InheritingIsBelow ==
    ASSUME TypeOK, LinksDescend, NEW n \in Nodes
    PROVE  \A m \in Inheriting(n) : n = Root \/ n \in Above[m]
  <1> DEFINE S == {m \in Names : n = Root \/ n \in Above[m]}
  <1>1. ASSUME NEW p \in S \cup {n}, NEW c \in children[p]
        PROVE  c \in S
    <2>1. p \in Nodes /\ c \in Names /\ (p = Root \/ p \in Above[c])
      BY DEF LinksDescend, Nodes, Live
    <2>2. CASE p = n
      BY <2>1, <2>2
    <2>3. CASE p # n /\ n # Root
      <3>1. p \in Names /\ n \in Above[p]
        BY <2>3
      <3>2. p \in Above[c]
        BY <2>1, <3>1, NamesAssumption
      <3> QED
        BY <2>1, <3>1, <3>2, NamesAssumption
    <2> QED
      BY <2>1, <2>2, <2>3
  <1>2. S \in SUBSET Names /\ PushClosed(n, S)
    BY <1>1 DEF PushClosed
  <1> QED
    BY <1>2 DEF Inheriting

(* No setLevel changes the effective level of a logger that is not below or *)
(* that has its own level.                                                  *)
THEOREM SetLevelIsLocal == Spec => SetLevelStaysBelow
  <1> DEFINE A == \A n, m \in Nodes :
                    level'[n] # level[n] /\ effective_level'[m] # effective_level[m]
                    => \/ m = n
                       \/ level[m] = NOTSET /\ (n = Root \/ n \in Above[m])
  <1>1. TreeInv /\ [Next]_vars => [A]_vars
    <2> SUFFICES ASSUME TreeInv, Next, NEW n \in Nodes, NEW m \in Nodes,
                        level'[n] # level[n],
                        effective_level'[m] # effective_level[m], m # n
                 PROVE  level[m] = NOTSET /\ (n = Root \/ n \in Above[m])
      OBVIOUS
    <2>1. \A k \in Names : ~ GetLogger(k)
      BY DEF GetLogger, Create
    <2>2. PICK k \in Nodes, l \in LevelArgs : SetLevel(k, l)
      BY <2>1 DEF Next
    <2>3. k = n
      BY <2>2 DEF SetLevel, TreeInv, TypeOK
    <2>4. m \in Inheriting(n)
      BY <2>2, <2>3 DEF SetLevel
    <2> QED
      BY <2>4, InheritingIsBelow, InheritingHasNoLevel DEF TreeInv
  <1> QED
    BY <1>1, TreeInvariant, PTL DEF Spec, SetLevelStaysBelow

-----------------------------------------------------------------------------
(* The flags are those setEnabledBasedOnEffectiveLevel computes.            *)
FlagsInv == \A n \in Nodes : enabledFor[n] = EnabledBasedOn(effective_level[n])

(* debug(), info(), ... and isEnabledFor() agree on every standard level.   *)
THEOREM FlagsHold == Spec => []FlagsAgree
  <1>1. Init => FlagsInv
    BY DEF Init, FlagsInv
  <1>2. TreeInv /\ FlagsInv /\ [Next]_vars => FlagsInv'
    <2> SUFFICES ASSUME TreeInv, FlagsInv, [Next]_vars, NEW m \in Nodes
                 PROVE  enabledFor'[m] = EnabledBasedOn(effective_level'[m])
      BY DEF FlagsInv, EnabledBasedOn
    <2>0. enabledFor[m] = EnabledBasedOn(effective_level[m])
      BY DEF FlagsInv
    <2>1. ASSUME NEW n \in Names, GetLogger(n)
          PROVE  enabledFor'[m] = EnabledBasedOn(effective_level'[m])
      BY <2>0, <2>1, CreateEffect
    <2>2. ASSUME NEW n \in Nodes, NEW l \in LevelArgs, SetLevel(n, l)
          PROVE  enabledFor'[m] = EnabledBasedOn(effective_level'[m])
      BY <2>0, <2>2 DEF SetLevel
    <2>3. CASE UNCHANGED vars
      BY <2>0, <2>3 DEF vars
    <2> QED
      BY <2>1, <2>2, <2>3 DEF Next
  <1>3. FlagsInv => FlagsAgree
    BY DEF FlagsInv, FlagsAgree, IsEnabledFor, EnabledBasedOn, Loggers, Live,
           Nodes
  <1> QED
    BY <1>1, <1>2, <1>3, TreeInvariant, PTL DEF Spec

-----------------------------------------------------------------------------
(* No name of the application is a prefix of the string "root".             *)
NoNameShadowsRoot == \A n \in Names : Root \notin TextExt[n]

LEMMA CreateNearest ==
    ASSUME NoNameShadowsRoot, TreeInv, ParentIsNearest,
           NEW n \in Names, GetLogger(n)
    PROVE  ParentIsNearest'
  <1> SUFFICES ASSUME NEW m \in Live'
               PROVE  parent'[m] = NearestLogger(m)'
    BY DEF ParentIsNearest
  <1>0. m \in Names /\ m \in Nodes /\ Live \subseteq Names
    BY DEF Live, Nodes
  <1>1. LiveAbove(m)' = LiveAbove(m) \cup (IF n \in Above[m] THEN {n} ELSE {})
    BY CreateFacts DEF LiveAbove
  <1>2. NearestLogger(m)' =
          IF LiveAbove(m)' = {} THEN Root ELSE Longest(LiveAbove(m)')
    BY DEF NearestLogger, Longest
  <1>3. parent'[m] = IF m = n THEN NearestLogger(n)
                     ELSE IF m \in Moved(n) THEN n ELSE parent[m]
    BY <1>0, CreateEffect
  <1>4. CASE m = n
    BY <1>0, <1>1, <1>2, <1>3, <1>4, NamesAssumption, ZenonT(30) DEF NearestLogger
  <1>5. CASE m # n /\ n \notin Above[m]
    <2>1. m \in Live /\ m \notin Moved(n)
      BY <1>5, CreateFacts
    <2> QED
      BY <1>1, <1>2, <1>3, <1>5, <2>1 DEF ParentIsNearest, NearestLogger
  <1>6. CASE m # n /\ n \in Above[m] /\ LiveAbove(m) \subseteq Above[n]
    <2>1. m \in Live
      BY <1>6, CreateFacts
    <2>2. loggerDict[n] = "placeholder"
      BY <1>6, <2>1, CreateFacts DEF TreeInv, PlaceholdersComplete, TypeOK, Live
    <2>3. m \in loggerMap[n]
      BY <1>6, <2>1, <2>2 DEF TreeInv, PlaceholdersComplete
    <2>4. parent[m] = Root \/ parent[m] \in Above[n]
      BY <1>0, <1>6, <2>1, NearestIsNearest DEF ParentIsNearest
    <2>5. m \in Moved(n)
      BY <2>3, <2>4, TextAssumption DEF Moved, NoNameShadowsRoot
    <2>6. parent'[m] = n
      BY <1>3, <1>6, <2>5
    <2>7. LiveAbove(m)' \in SUBSET Above[m] /\ n \in LiveAbove(m)'
          /\ LiveAbove(m)' \ {n} \subseteq Above[n]
      BY <1>1, <1>6 DEF LiveAbove
    <2>8. n = Longest(LiveAbove(m)')
      BY <1>0, <2>7, LongestOfPrefixes
    <2> QED
      BY <1>2, <2>6, <2>7, <2>8
  <1>7. CASE m # n /\ n \in Above[m] /\ ~ (LiveAbove(m) \subseteq Above[n])
    <2>1. m \in Live
      BY <1>7, CreateFacts
    <2>2. PICK b \in LiveAbove(m) : b \notin Above[n]
      BY <1>7
    <2>3. b \in Names /\ n \in Above[b]
      BY <1>0, <1>7, <2>2, CreateFacts, PrefixesAreAChain DEF LiveAbove
    <2> DEFINE p == NearestLogger(m)
    <2>4. p \in LiveAbove(m) /\ LiveAbove(m) \ {p} \subseteq Above[p]
      BY <1>0, <2>2, NearestIsNearest
    <2>5. p \in Names /\ n \in Above[p]
      BY <1>0, <2>2, <2>3, <2>4, NamesAssumption DEF LiveAbove
    <2>6. parent[m] = p
      BY <2>1 DEF ParentIsNearest
    <2>7. m \notin Moved(n)
      BY <2>5, <2>6, TextAssumption DEF Moved
    <2>8. LiveAbove(m)' \in SUBSET Above[m] /\ p \in LiveAbove(m)'
          /\ LiveAbove(m)' \ {p} \subseteq Above[p]
      BY <1>1, <1>7, <2>4, <2>5 DEF LiveAbove
    <2>9. p = Longest(LiveAbove(m)')
      BY <1>0, <2>8, LongestOfPrefixes
    <2> QED
      BY <1>2, <1>3, <1>7, <2>6, <2>7, <2>8, <2>9
  <1> QED
    BY <1>4, <1>5, <1>6, <1>7

(* In whatever order the loggers are created, each is linked to the nearest *)
(* one above it, provided that no name is a prefix of the string "root".    *)
THEOREM NearestHolds ==
    ASSUME NoNameShadowsRoot
    PROVE  Spec => []ParentIsNearest
  <1>1. Init => ParentIsNearest
    BY DEF Init, ParentIsNearest, Live
  <1>2. TreeInv /\ ParentIsNearest /\ [Next]_vars => ParentIsNearest'
    <2> SUFFICES ASSUME TreeInv, ParentIsNearest, [Next]_vars
                 PROVE  ParentIsNearest'
      OBVIOUS
    <2>1. ASSUME NEW n \in Names, GetLogger(n)
          PROVE  ParentIsNearest'
      BY <2>1, CreateNearest
    <2>2. CASE UNCHANGED <<loggerDict, parent>>
      BY <2>2 DEF ParentIsNearest, NearestLogger, LiveAbove, Live, Longest
    <2> QED
      BY <2>1, <2>2 DEF Next, SetLevel, vars
  <1> QED
    BY <1>1, <1>2, TreeInvariant, PTL DEF Spec

-----------------------------------------------------------------------------
(* What careful uses preserve: a logger without a level of its own caches   *)
(* its parent's effective level.                                            *)
LevelsLocal ==
    /\ effective_level[Root] = level[Root]
    /\ \A n \in Live : level[n] = NOTSET => effective_level[n] = effective_level[parent[n]]

CarefulInv == TreeInv /\ ParentIsNearest /\ LevelsLocal

(* A scan from a logger finds what that logger has cached.                  *)
LEMMA ScanValue ==
    ASSUME TreeInv, LevelsLocal, NEW n \in Loggers
    PROVE  FindEffectiveLevel(n) = effective_level[n]
  <1> DEFINE S == {m \in Nodes : m \in Loggers /\ effective_level[m] = effective_level[n]}
  <1>1. Loggers \subseteq Nodes
    BY DEF Loggers, Live, Nodes
  <1>2. S \in SUBSET Nodes /\ n \in S
    BY <1>1
  <1>3. ScanClosed(S)
    <2> SUFFICES ASSUME NEW m \in S, level[m] = NOTSET, parent[m] # None
                 PROVE  parent[m] \in S
      BY DEF ScanClosed
    <2>1. m \in Live
      BY DEF TreeInv, TypeOK, Loggers
    <2> QED
      BY <2>1, <1>1 DEF TreeInv, LinksDescend, LevelsLocal
  <1>4. Visited(n) \subseteq S
    BY <1>2, <1>3 DEF Visited
  <1> DEFINE e == CHOOSE m \in Visited(n) : ScanEnds(m)
  <1>5. e \in Visited(n) /\ ScanEnds(e)
    BY ScanStops DEF TreeInv
  <1>6. FindEffectiveLevel(n) = level[e]
    BY DEF FindEffectiveLevel
  <1> HIDE DEF e
  <1>7. e \in Loggers /\ effective_level[e] = effective_level[n]
    BY <1>4, <1>5
  <1>8. effective_level[e] = level[e]
    <2>1. CASE level[e] > NOTSET
      BY <1>7, <2>1 DEF TreeInv, OwnLevelWins
    <2>2. CASE parent[e] = None
      <3>1. e = Root
        BY <1>1, <1>7, <2>2, NamesAssumption
           DEF TreeInv, LinksDescend, Loggers, Nodes
      <3> QED
        BY <3>1 DEF LevelsLocal
    <2> QED
      BY <1>5, <2>1, <2>2 DEF ScanEnds
  <1> QED
    BY <1>6, <1>7, <1>8

LEMMA CreateLocal ==
    ASSUME NoNameShadowsRoot, CarefulInv, NEW n \in Names, GetLogger(n)
    PROVE  LevelsLocal'
  <1> USE DEF CarefulInv
  <1>0. Loggers \subseteq Nodes /\ n \in Nodes /\ n # Root /\ n \notin Loggers
        /\ Root \in Loggers /\ Root \notin Live
    BY CreateFacts, NamesAssumption DEF Loggers, Live, Nodes
  <1>1. effective_level'[n] = effective_level[NearestLogger(n)]
    BY <1>0, CreateEffect, CreateFacts, ScanValue DEF Rescanned
  <1>2. ASSUME NEW m \in Loggers
        PROVE  effective_level'[m] = effective_level[m] /\ level'[m] = level[m]
    <2>1. CASE m \notin Moved(n)
      BY <1>0, <2>1, CreateEffect
    <2>2. CASE m \in Moved(n)
      <3>1. m \in Live /\ parent[m] \in Loggers
        BY <2>2, CreateFacts DEF TreeInv, LinksDescend
      <3>2. effective_level'[m] = IF level[m] > NOTSET THEN level[m]
                                  ELSE effective_level[parent[m]]
        BY <1>0, <2>2, <3>1, CreateEffect, ScanValue DEF Rescanned
      <3>3. CASE level[m] > NOTSET
        BY <3>2, <3>3, CreateEffect DEF TreeInv, OwnLevelWins
      <3>4. CASE ~ (level[m] > NOTSET)
        <4>1. level[m] \in LevelValues
          BY <1>0 DEF TreeInv, TypeOK
        <4>2. level[m] \in Nat
          BY <4>1, LevelsAreNaturals
        <4>3. level[m] = NOTSET
          BY <3>4, <4>2 DEF NOTSET
        <4> QED
          BY <3>1, <3>2, <3>4, <4>3, CreateEffect DEF LevelsLocal
      <3> QED
        BY <3>3, <3>4
    <2> QED
      BY <2>1, <2>2
  <1>3. effective_level'[Root] = level'[Root]
    BY <1>0, <1>2 DEF LevelsLocal
  <1>4. ASSUME NEW m \in Live', level'[m] = NOTSET
        PROVE  effective_level'[m] = effective_level'[parent'[m]]
    <2>0. parent'[m] = IF m = n THEN NearestLogger(n)
                       ELSE IF m \in Moved(n) THEN n ELSE parent[m]
      BY CreateEffect DEF Live, Nodes
    <2>1. CASE m = n
      BY <1>1, <1>2, <2>0, <2>1, CreateFacts
    <2>2. CASE m # n /\ m \in Moved(n)
      <3>1. m \in Live /\ n \in Above[m] /\ parent'[m] = n
        BY <2>0, <2>2, CreateFacts
      <3>2. effective_level'[m] = effective_level[parent[m]]
        BY <1>2, <1>4, <3>1 DEF LevelsLocal, Loggers
      <3>3. parent[m] = NearestLogger(n)
        <4>0. m \in Names /\ parent[m] = NearestLogger(m)
          BY <3>1 DEF ParentIsNearest, Live
        <4>1. parent[m] \notin TextExt[n]
          BY <2>2 DEF Moved
        <4>2. CASE LiveAbove(m) = {}
          <5>1. LiveAbove(n) = {}
            BY <3>1, <4>0, <4>2, NamesAssumption DEF LiveAbove
          <5> QED
            BY <4>0, <4>2, <5>1 DEF NearestLogger
        <4>3. CASE LiveAbove(m) # {}
          <5>1. parent[m] \in LiveAbove(m)
                /\ LiveAbove(m) \ {parent[m]} \subseteq Above[parent[m]]
            BY <4>0, <4>3, NearestIsNearest
          <5>2. parent[m] \in Names /\ parent[m] # n /\ n \notin Above[parent[m]]
            BY <4>1, <5>1, TextAssumption DEF LiveAbove, Live
          <5>3. parent[m] \in Above[n]
            BY <3>1, <4>0, <5>1, <5>2, PrefixesAreAChain DEF LiveAbove
          <5>4. LiveAbove(n) \subseteq LiveAbove(m)
            BY <3>1, <4>0, NamesAssumption DEF LiveAbove
          <5>5. parent[m] \in LiveAbove(n)
                /\ LiveAbove(n) \ {parent[m]} \subseteq Above[parent[m]]
                /\ LiveAbove(n) \in SUBSET Above[n]
            BY <5>1, <5>3, <5>4 DEF LiveAbove
          <5> QED
            BY <5>5, LongestOfPrefixes DEF NearestLogger
        <4> QED
          BY <4>2, <4>3
      <3> QED
        BY <1>1, <3>1, <3>2, <3>3
    <2>3. CASE m # n /\ m \notin Moved(n)
      <3>1. m \in Live /\ parent'[m] = parent[m] /\ parent[m] \in Loggers
        BY <2>0, <2>3, CreateFacts DEF TreeInv, LinksDescend
      <3> QED
        BY <1>2, <1>4, <3>1 DEF LevelsLocal, Loggers
    <2> QED
      BY <2>1, <2>2, <2>3
  <1> QED
    BY <1>3, <1>4 DEF LevelsLocal

(* The recursion of setEffectiveLevelOfChildren assigns exactly the loggers *)
(* it reaches through children lists.                                       *)
LEMMA InheritingReached ==
    ASSUME TypeOK, NEW n \in Nodes
    PROVE  /\ PushClosed(n, Inheriting(n))
           /\ \A m \in Inheriting(n) : \E p \in {n} \cup Inheriting(n) : m \in children[p]
  <1> DEFINE I == Inheriting(n)
             S == {m \in I : \E p \in {n} \cup I : m \in children[p]}
  <1>1. I \subseteq Names
    BY DEF Inheriting
  <1>2. PushClosed(n, I)
    <2> SUFFICES ASSUME NEW p \in I \cup {n}, NEW c \in children[p],
                        level[c] = NOTSET
                 PROVE  c \in I
      BY DEF PushClosed
    <2>1. c \in Names
      BY <1>1 DEF TypeOK, Nodes
    <2>2. ASSUME NEW T \in SUBSET Names, PushClosed(n, T)
          PROVE  c \in T
      <3>1. p \in T \cup {n}
        BY <2>2 DEF Inheriting
      <3> QED
        BY <2>2, <3>1 DEF PushClosed
    <2> QED
      BY <2>1, <2>2 DEF Inheriting
  <1>3. S \in SUBSET Names /\ PushClosed(n, S)
    BY <1>1, <1>2 DEF PushClosed
  <1>4. I \subseteq S
    BY <1>3 DEF Inheriting
  <1> QED
    BY <1>2, <1>4

LEMMA CarefulSetLevelLocal ==
    ASSUME CarefulInv, NEW n \in Nodes, NEW l \in LevelArgs, SetLevel(n, l), Careful(n, l)
    PROVE  LevelsLocal'
  <1> USE DEF CarefulInv
  <1> DEFINE lev     == UShort(l)
             touched == {n} \cup Inheriting(n)
  <1>1. /\ n \in Loggers /\ (lev > NOTSET \/ n = Root)
        /\ \A m \in touched : \A c \in children[m] : parent[c] = m
        /\ level' = [level EXCEPT ![n] = lev]
        /\ effective_level' = [m \in Nodes |->
                IF m \in touched THEN lev ELSE effective_level[m]]
        /\ parent' = parent /\ Live' = Live
    BY DEF Careful, SetLevel, NoStaleChild, Live
  <1>2. Root \in Nodes /\ Live \subseteq Nodes /\ Root \notin Live
        /\ Inheriting(n) \subseteq Names /\ Root \notin Inheriting(n)
    BY NamesAssumption DEF Nodes, Live, Inheriting
  <1>3. PushClosed(n, Inheriting(n))
        /\ \A m \in Inheriting(n) : \E p \in touched : m \in children[p]
    BY InheritingReached DEF TreeInv
  <1>4. \A m \in Inheriting(n) : m \in Live /\ level[m] = NOTSET
    BY InheritingHasNoLevel DEF TreeInv
  <1>5. level \in [Nodes -> LevelValues]
    BY DEF TreeInv, TypeOK
  <1> HIDE DEF lev
  <1>6. effective_level'[Root] = level'[Root]
    BY <1>1, <1>2, <1>5 DEF LevelsLocal
  <1>7. ASSUME NEW m \in Live, level'[m] = NOTSET
        PROVE  effective_level'[m] = effective_level'[parent[m]]
    <2>1. m # n
      BY <1>1, <1>2, <1>5, <1>7 DEF NOTSET
    <2>2. level[m] = NOTSET /\ m \in Nodes
      BY <1>1, <1>2, <1>5, <1>7, <2>1
    <2>3. parent[m] \in Nodes /\ m \in children[parent[m]]
          /\ effective_level[m] = effective_level[parent[m]]
      BY <2>2 DEF LevelsLocal, TreeInv, LinksDescend, Loggers, Live, Nodes
    <2>4. CASE parent[m] \in touched
      <3>1. m \in Inheriting(n)
        BY <1>3, <2>2, <2>3, <2>4 DEF PushClosed
      <3> QED
        BY <1>1, <2>2, <2>3, <2>4, <3>1
    <2>5. CASE m \in touched
      <3>1. PICK p \in touched : m \in children[p]
        BY <1>3, <2>1, <2>5
      <3>2. parent[m] = p
        BY <1>1, <3>1
      <3> QED
        BY <2>4, <3>1, <3>2
    <2>6. CASE m \notin touched /\ parent[m] \notin touched
      BY <1>1, <2>2, <2>3, <2>6
    <2> QED
      BY <2>4, <2>5, <2>6
  <1> QED
    BY <1>1, <1>6, <1>7 DEF LevelsLocal

(* The level a name inherits is that of its parent link's logger.           *)
LEMMA LocalIsInherited ==
    ASSUME CarefulInv
    PROVE  EffectiveLevelInherited
  <1> USE DEF CarefulInv
  <1> DEFINE levelled(n) == {m \in UpFrom(n) \cap Live : level[m] > NOTSET}
             S == {n \in Live : effective_level[n] # InheritedLevel(n)}
  <1>0. Live \subseteq Names /\ Live \subseteq Nodes /\ Root \notin Live
    BY NamesAssumption DEF Live, Nodes
  <1>1. effective_level[Root] = InheritedLevel(Root)
    BY DEF InheritedLevel, UpFrom, LevelsLocal
  <1>2. ASSUME S # {}
        PROVE  FALSE
    <2>1. PICK t \in S : Above[t] \cap S = {}
      BY <1>0, <1>2, NamesAssumption
    <2>2. t \in Names /\ t \in Live /\ t # Root /\ level[t] \in LevelValues
          /\ effective_level[t] # InheritedLevel(t)
      BY <1>0, <2>1 DEF TreeInv, TypeOK
    <2>3. UpFrom(t) \cap Live = {t} \cup LiveAbove(t)
      BY <2>2 DEF UpFrom, LiveAbove
    <2>4. CASE level[t] > NOTSET
      <3>1. t \in levelled(t) /\ levelled(t) \ {t} \subseteq Above[t]
        BY <2>3, <2>4 DEF LiveAbove
      <3>2. \A m \in levelled(t) : levelled(t) \ {m} \subseteq Above[m] => m = t
        <4> SUFFICES ASSUME NEW m \in levelled(t), levelled(t) \ {m} \subseteq Above[m], m # t
                     PROVE  FALSE
          OBVIOUS
        <4>1. t \in Above[m] /\ m \in Above[t] /\ m \in Names
          BY <1>0, <3>1
        <4> QED
          BY <2>2, <4>1, NamesAssumption
      <3>3. Longest(levelled(t)) = t
        BY <3>1, <3>2 DEF Longest
      <3>4. InheritedLevel(t) = level[t]
        BY <3>1, <3>3 DEF InheritedLevel
      <3> QED
        BY <2>2, <2>4, <3>4 DEF TreeInv, OwnLevelWins, Loggers
    <2>5. CASE ~ (level[t] > NOTSET)
      <3>1. level[t] = NOTSET
        <4>1. level[t] \in Nat
          BY <2>2, LevelsAreNaturals
        <4> QED
          BY <2>5, <4>1 DEF NOTSET
      <3> DEFINE p == parent[t]
      <3>2. effective_level[t] = effective_level[p] /\ p = NearestLogger(t)
        BY <2>2, <3>1 DEF LevelsLocal, ParentIsNearest
      <3>3. levelled(t) = levelled(p)
        <4>1. CASE LiveAbove(t) = {}
          <5>1. p = Root
            BY <3>2, <4>1 DEF NearestLogger
          <5> QED
            BY <2>3, <2>5, <4>1, <5>1 DEF UpFrom
        <4>2. CASE LiveAbove(t) # {}
          <5>1. p \in LiveAbove(t) /\ LiveAbove(t) \ {p} \subseteq Above[p]
            BY <2>2, <3>2, <4>2, NearestIsNearest
          <5>2. p \in Names /\ p # Root /\ p \in Live /\ Above[p] \subseteq Above[t]
            BY <1>0, <2>2, <5>1, NamesAssumption DEF LiveAbove
          <5>3. UpFrom(p) \cap Live = LiveAbove(t)
            BY <5>1, <5>2 DEF UpFrom, LiveAbove
          <5> QED
            BY <2>3, <2>5, <5>3
        <4> QED
          BY <4>1, <4>2
      <3>4. InheritedLevel(t) = InheritedLevel(p)
        BY <3>3 DEF InheritedLevel
      <3>5. effective_level[p] = InheritedLevel(p)
        <4>1. CASE p = Root
          BY <1>1, <4>1
        <4>2. CASE p # Root
          <5>1. p \in LiveAbove(t)
            BY <2>2, <3>2, <4>2, NearestIsNearest
          <5>2. p \in Live /\ p \notin S
            BY <2>1, <5>1 DEF LiveAbove
          <5> QED
            BY <5>2
        <4> QED
          BY <4>1, <4>2
      <3> QED
        BY <2>2, <3>2, <3>4, <3>5
    <2> QED
      BY <2>4, <2>5
  <1> QED
    BY <1>1, <1>2 DEF EffectiveLevelInherited, Loggers

-----------------------------------------------------------------------------
LEMMA CarefulInvariant ==
    ASSUME NoNameShadowsRoot
    PROVE  Spec => [](careful => CarefulInv)
  <1>1. Init => CarefulInv
    <2> SUFFICES ASSUME Init
                 PROVE  ParentIsNearest /\ LevelsLocal
      BY InitInv DEF CarefulInv
    <2>1. Live = {}
      BY DEF Init, Live
    <2> QED
      BY <2>1 DEF Init, ParentIsNearest, LevelsLocal, Nodes
  <1>2. (careful => CarefulInv) /\ [Next]_vars => (careful => CarefulInv)'
    <2> SUFFICES ASSUME careful => CarefulInv, [Next]_vars, careful'
                 PROVE  CarefulInv'
      OBVIOUS
    <2>0. careful /\ CarefulInv
      BY DEF Next, vars
    <2>1. TreeInv'
      BY <2>0, NextInv DEF CarefulInv
    <2>2. ASSUME NEW n \in Names, GetLogger(n)
          PROVE  ParentIsNearest' /\ LevelsLocal'
      BY <2>0, <2>2, CreateNearest, CreateLocal DEF CarefulInv
    <2>3. ASSUME NEW n \in Nodes, NEW l \in LevelArgs, SetLevel(n, l), Careful(n, l)
          PROVE  ParentIsNearest' /\ LevelsLocal'
      <3>1. LevelsLocal'
        BY <2>0, <2>3, CarefulSetLevelLocal
      <3>2. ParentIsNearest'
        BY <2>0, <2>3 DEF CarefulInv, SetLevel, ParentIsNearest, NearestLogger,
                          LiveAbove, Live, Longest
      <3> QED
        BY <3>1, <3>2
    <2>4. CASE UNCHANGED vars
      <3>1. Live' = Live /\ parent' = parent /\ level' = level
            /\ effective_level' = effective_level
        BY <2>4 DEF vars, Live
      <3>2. LevelsLocal'
        BY <2>0, <3>1 DEF CarefulInv, LevelsLocal
      <3>3. ParentIsNearest'
        BY <2>0, <3>1 DEF CarefulInv, ParentIsNearest, NearestLogger, LiveAbove, Longest
      <3> QED
        BY <2>1, <3>2, <3>3 DEF CarefulInv
    <2> QED
      BY <2>1, <2>2, <2>3, <2>4 DEF Next, CarefulInv
  <1> QED
    BY <1>1, <1>2, PTL DEF Spec

(* With careful uses every logger caches the level its names give it.       *)
THEOREM EffectiveLevelHolds ==
    ASSUME NoNameShadowsRoot
    PROVE  Spec => []CarefulLevelsInherited
  <1>1. (careful => CarefulInv) => CarefulLevelsInherited
    BY LocalIsInherited DEF CarefulLevelsInherited
  <1> QED
    BY <1>1, CarefulInvariant, PTL

(* With careful uses the hierarchy, its placeholders, links and caches      *)
(* implement LoggerHierarchy.                                               *)
THEOREM RefinesHierarchy ==
    ASSUME NoNameShadowsRoot
    PROVE  Spec => ImplementsHierarchy
  <1>1. Init => Hierarchy!HInit
    <2> SUFFICES ASSUME Init
                 PROVE  Hierarchy!HInit
      OBVIOUS
    <2>1. Live = {} /\ Loggers = {Root}
      BY DEF Init, Live, Loggers
    <2>2. level = [n \in Nodes |-> IF n = Root THEN WARNING ELSE NOTSET]
          /\ effective_level = level
      BY DEF Init
    <2> QED
      BY <2>1, <2>2
         DEF Hierarchy!HInit, Hierarchy!Inherit, Hierarchy!Nodes, Nodes,
             Hierarchy!UpFrom, Hierarchy!WARNING, WARNING, Hierarchy!NOTSET,
             NOTSET
  <1> DEFINE HStep == [Hierarchy!HNext]_<<Live, level,
                                          [n \in Loggers |-> effective_level[n]]>>
  <1>2. (careful => CarefulInv) /\ (careful => CarefulInv)' /\ [Next]_vars
          => [careful' => HStep]_vars
    <2> SUFFICES ASSUME careful => CarefulInv, (careful => CarefulInv)',
                        [Next]_vars, careful'
                 PROVE  HStep
      OBVIOUS
    <2>0. CarefulInv /\ CarefulInv'
      BY DEF Next, vars
    <2>1. [n \in Loggers |-> effective_level[n]]' = Hierarchy!Inherit(Live', level')
      <3>1. EffectiveLevelInherited'
        BY <2>0, LocalIsInherited, PTL
      <3> QED
        BY <3>1 DEF EffectiveLevelInherited, InheritedLevel, Loggers, UpFrom,
                    Longest, Hierarchy!Inherit, Hierarchy!UpFrom,
                    Hierarchy!Longest, NOTSET, Hierarchy!NOTSET
    <2>2. ASSUME NEW n \in Names, GetLogger(n)
          PROVE  Hierarchy!Appear(n)
      BY <2>0, <2>1, <2>2, CreateFacts, CreateEffect DEF CarefulInv, Hierarchy!Appear
    <2>3. ASSUME NEW n \in Nodes, NEW l \in LevelArgs, SetLevel(n, l)
          PROVE  Hierarchy!Assign(n, l)
      BY <2>1, <2>3
         DEF SetLevel, Hierarchy!Assign, Loggers, Live,
             UShort, USHORT, Hierarchy!UShort, Hierarchy!USHORT
    <2>4. CASE UNCHANGED vars
      BY <2>4 DEF vars, Live, Loggers
    <2> QED
      BY <2>2, <2>3, <2>4 DEF Next, Hierarchy!HNext, Nodes, Hierarchy!Nodes
  <1> QED
    BY <1>1, <1>2, CarefulInvariant, PTL
       DEF Spec, ImplementsHierarchy, Hierarchy!hvars

-----------------------------------------------------------------------------
(* dictConfig, DictConfig's specification.                                  *)
LEMMA DInitIsInit == DInit => Init
  BY DEF DInit

LEMMA EntryFacts ==
    ASSUME NEW c \in Configs, NEW n \in Range(c.loggers)
    PROVE  /\ n \in Names
           /\ c.entries[n].level = None \/ c.entries[n].level \in LevelArgs
           /\ c.entries[n].handlers \in SUBSET {"old", "new"}
           /\ c.entries[n].propagate = None \/ c.entries[n].propagate \in BOOLEAN
  <1>1. /\ c.loggers \in Seq(Names)
        /\ c.entries \in
              [Range(c.loggers) ->
                  [level : LevelArgs \cup {None}, handlers : SUBSET {"old", "new"},
                   propagate : BOOLEAN \cup {None}, fails : {None, "level", "handlers"}]]
    BY ConfigAssumption
  <1>2. n \in Names
    <2>1. PICK i \in DOMAIN c.loggers : n = c.loggers[i]
      BY DEF Range
    <2> DEFINE s == c.loggers
    <2>2. s \in Seq(Names) /\ i \in DOMAIN s /\ n = s[i]
      BY <1>1, <2>1
    <2> HIDE DEF s
    <2> QED
      BY <2>2
  <1>3. c.entries[n] \in
            [level : LevelArgs \cup {None}, handlers : SUBSET {"old", "new"},
             propagate : BOOLEAN \cup {None}, fails : {None, "level", "handlers"}]
    BY <1>1
  <1> QED
    BY <1>2, <1>3

(* The logger that is configured next, and those after it.                  *)
LEMMA HeadAndTail ==
    ASSUME NEW s \in Seq(Names), s # <<>>, IsInjective(s)
    PROVE  /\ Head(s) \in Names /\ Head(s) \in Range(s)
           /\ Tail(s) \in Seq(Names) /\ IsInjective(Tail(s))
           /\ Range(Tail(s)) = Range(s) \ {Head(s)}
  <1>1. /\ Len(s) \in Nat /\ Len(s) > 0 /\ DOMAIN s = 1 .. Len(s)
        /\ Head(s) = s[1] /\ Head(s) \in Names
        /\ Tail(s) \in Seq(Names) /\ Len(Tail(s)) = Len(s) - 1
        /\ \A i \in 1 .. Len(Tail(s)) : Tail(s)[i] = s[i + 1]
    BY HeadTailProperties
  <1> DEFINE t == Tail(s)
             k == Len(s)
  <1>2. /\ k \in Nat /\ k > 0 /\ DOMAIN s = 1 .. k
        /\ t \in Seq(Names) /\ DOMAIN t = 1 .. k - 1
        /\ \A i \in 1 .. k - 1 : t[i] = s[i + 1]
        /\ Head(s) = s[1]
    BY <1>1
  <1> HIDE DEF t, k
  <1>3. Head(s) \in Range(s)
    <2>1. 1 \in DOMAIN s
      BY <1>2
    <2> QED
      BY <1>2, <2>1 DEF Range
  <1>4. IsInjective(t)
    <2> SUFFICES ASSUME NEW i \in 1 .. k - 1, NEW j \in 1 .. k - 1, t[i] = t[j]
                 PROVE  i = j
      BY <1>2 DEF IsInjective
    <2>1. i + 1 \in DOMAIN s /\ j + 1 \in DOMAIN s /\ s[i + 1] = s[j + 1]
      BY <1>2
    <2>2. i + 1 = j + 1
      BY <2>1 DEF IsInjective
    <2> QED
      BY <1>2, <2>2
  <1>5. ASSUME NEW x \in Range(t)
        PROVE  x \in Range(s) \ {Head(s)}
    <2>1. PICK i \in 1 .. k - 1 : x = t[i]
      BY <1>2 DEF Range
    <2>2. i + 1 \in DOMAIN s /\ 1 \in DOMAIN s /\ i + 1 # 1 /\ x = s[i + 1]
      BY <1>2, <2>1
    <2>3. x # s[1]
      BY <2>2 DEF IsInjective
    <2> QED
      BY <1>2, <2>2, <2>3 DEF Range
  <1>6. ASSUME NEW x \in Range(s), x # Head(s)
        PROVE  x \in Range(t)
    <2>1. PICK i \in 1 .. k : x = s[i]
      BY <1>2 DEF Range
    <2>2. i # 1
      BY <1>2, <1>6, <2>1
    <2>3. i - 1 \in 1 .. k - 1 /\ (i - 1) + 1 = i
      BY <1>2, <2>2
    <2>4. i - 1 \in DOMAIN t /\ x = t[i - 1]
      BY <1>2, <2>1, <2>3
    <2> QED
      BY <2>4 DEF Range
  <1>7. Range(t) = Range(s) \ {Head(s)}
    BY <1>5, <1>6
  <1> QED
    BY <1>1, <1>3, <1>4, <1>7 DEF t


(* Where dictConfig is with the loggers: the names taken so far are no      *)
(* longer among the existing ones, and those below a taken name that was    *)
(* there before are remembered.                                             *)
Befores ==
    [live : SUBSET Names, keys : SUBSET Names, level : [Nodes -> LevelValues],
     handlers : [Nodes -> SUBSET {"old", "new"}], disabled : [Nodes -> BOOLEAN],
     propagate : [Nodes -> BOOLEAN]]

Walking == at \in {"loggers", "getLogger", "setLevel", "handlers"}

Taken ==
    (Named \ Range(todo))
    \cup (IF at \in {"getLogger", "setLevel", "handlers"} THEN {Head(todo)} ELSE {})

WalkFits ==
    /\ todo \in Seq(Names) /\ IsInjective(todo)
    /\ at # "idle" =>
          /\ config \in Configs /\ before \in Befores
          /\ before.live \subseteq before.keys \cap Live
          /\ Range(todo) \subseteq Named
    /\ at \in {"done", "root"} => todo = <<>> /\ existing = {}
    /\ at = "root" => config.root # None
    /\ at \in {"getLogger", "setLevel", "handlers"} => todo # <<>>
    /\ at \in {"setLevel", "handlers"} => Head(todo) \in Live
    /\ Walking =>
          /\ existing \subseteq before.keys \ Taken
          /\ todo # <<>> => existing = before.keys \ Taken
          /\ \A m \in before.keys \ Named :
                m \in child_loggers <=> Above[m] \cap Taken \cap before.keys # {}

(* A logger that has been configured, one that has its level only, and one  *)
(* that was there before and has been handled.                              *)
LevelGiven(n) ==
    HasLevel(n, IF config.entries[n].level = None THEN before.level[n]
                ELSE UShort(config.entries[n].level))

RootLevelGiven ==
    HasLevel(Root, IF config.root.level = None THEN before.level[Root]
                   ELSE UShort(config.root.level))

Finished(n) ==
    /\ n \in Live /\ ~ disabled[n]
    /\ handlers[n] = config.entries[n].handlers
    /\ propagate[n] = IF config.entries[n].propagate = None
                      THEN before.propagate[n] ELSE config.entries[n].propagate
    /\ LevelGiven(n)

HalfDone(n) ==
    /\ LevelGiven(n)
    /\ handlers[n] = before.handlers[n]
    /\ disabled[n] = before.disabled[n] /\ propagate[n] = before.propagate[n]

Settled(m) ==
    IF Above[m] \cap Named \cap before.keys # {}
    THEN /\ HasLevel(m, NOTSET) /\ handlers[m] = {} /\ propagate[m]
         /\ disabled[m] = before.disabled[m]
    ELSE /\ HasLevel(m, before.level[m]) /\ handlers[m] = before.handlers[m]
         /\ propagate[m] = before.propagate[m]
         /\ disabled[m] = config.disable_existing

LoggersFit ==
    /\ Walking \/ at = "root" \/ LoggersDone =>
          /\ \A n \in Named \ Range(todo) : Finished(n)
          /\ \A m \in before.live \ Named :
                IF m \in existing THEN Unchanged(m) ELSE Settled(m)
    /\ Walking =>
          /\ \A n \in Range(todo) :
                IF at = "handlers" /\ n = Head(todo) THEN HalfDone(n) ELSE Unchanged(n)
          /\ Unchanged(Root)
    /\ at = "root" => RootLevelGiven
    /\ at = "done" => RootConfigured
    /\ FailureSpares

LEMMA HeadFacts ==
    ASSUME WalkFits, at # "idle", todo # <<>>
    PROVE  /\ config \in Configs
           /\ Head(todo) \in Named /\ Head(todo) \in Range(todo)
           /\ Head(todo) \in Names /\ Head(todo) \in Nodes /\ Head(todo) # Root
           /\ Entry.level = None \/ Entry.level \in LevelArgs
           /\ Entry.handlers \in SUBSET {"old", "new"}
           /\ Entry.propagate = None \/ Entry.propagate \in BOOLEAN
           /\ Tail(todo) \in Seq(Names) /\ IsInjective(Tail(todo))
           /\ Range(Tail(todo)) = Range(todo) \ {Head(todo)}
  <1>1. /\ todo \in Seq(Names) /\ IsInjective(todo) /\ config \in Configs
        /\ Range(todo) \subseteq Named
    BY DEF WalkFits
  <1>2. /\ Head(todo) \in Names /\ Head(todo) \in Range(todo)
        /\ Tail(todo) \in Seq(Names) /\ IsInjective(Tail(todo))
        /\ Range(Tail(todo)) = Range(todo) \ {Head(todo)}
    BY <1>1, HeadAndTail
  <1>3. Head(todo) \in Range(config.loggers)
    BY <1>1, <1>2 DEF Named
  <1>4. /\ Entry.level = None \/ Entry.level \in LevelArgs
        /\ Entry.handlers \in SUBSET {"old", "new"}
        /\ Entry.propagate = None \/ Entry.propagate \in BOOLEAN
    BY <1>1, <1>3, EntryFacts DEF Entry
  <1> QED
    BY <1>1, <1>2, <1>3, <1>4, NamesAssumption DEF Named, Nodes

LEMMA RootFacts ==
    ASSUME NEW c \in Configs, c.root # None
    PROVE  /\ c.root.level = None \/ c.root.level \in LevelArgs
           /\ c.root.handlers \in SUBSET {"old", "new"}
           /\ Root \in Nodes /\ Root \in Loggers
  <1>1. c.root \in [level : LevelArgs \cup {None}, handlers : SUBSET {"old", "new"},
                    fails : {None, "level", "handlers"}]
    BY ConfigAssumption
  <1> QED
    BY <1>1 DEF Nodes, Loggers

(* dictConfig does to the hierarchy what getLogger and setLevel do.         *)
LEMMA DNextIsNext ==
    ASSUME WalkFits, [DNext]_dvars
    PROVE  [Next]_vars
  <1>1. ASSUME NEW n \in Names, OtherGetLogger(n)
        PROVE  [Next]_vars
    BY <1>1 DEF OtherGetLogger, Next
  <1>2. ASSUME NEW n \in Nodes, NEW l \in OtherLevels, OtherSetLevel(n, l)
        PROVE  [Next]_vars
    BY <1>2, ConfigAssumption DEF OtherSetLevel, Next
  <1>3. CASE Get
    <2>1. Head(todo) \in Names
      BY <1>3, HeadFacts DEF Get, WalkFits
    <2> QED
      BY <1>3, <2>1 DEF Get, Next
  <1>4. CASE Level
    <2>1. Head(todo) \in Nodes /\ (Entry.level = None \/ Entry.level \in LevelArgs)
      BY <1>4, HeadFacts DEF Level, WalkFits
    <2> QED
      BY <1>4, <2>1 DEF Level, Next
  <1>5. ASSUME NEW m \in Names, Reset(m)
        PROVE  [Next]_vars
    BY <1>5, ConfigAssumption DEF Reset, Next, Nodes
  <1>6. CASE RootLevel
    <2>1. config \in Configs /\ config.root # None
      BY <1>6 DEF RootLevel, AtRoot, WalkFits
    <2>2. (config.root.level = None \/ config.root.level \in LevelArgs) /\ Root \in Nodes
      BY <2>1, RootFacts
    <2> QED
      BY <1>6, <2>2 DEF RootLevel, Next
  <1>7. CASE /\ \/ \E n \in Nodes : AddHandler(n)
                \/ \E c \in Configs : Configure(c)
                \/ Take \/ Handlers \/ LevelRaises
                \/ NoRoot \/ RootHandlers \/ RootRaises
                \/ \E m \in Names : ResetRaises(m) \/ Disable(m)
                \/ UNCHANGED dvars
    BY <1>7 DEF AddHandler, Configure, Take, Handlers, LevelRaises, ResetRaises,
                Disable, NoRoot, RootHandlers, RootRaises, dvars
  <1> QED
    BY <1>1, <1>2, <1>3, <1>4, <1>5, <1>6, <1>7 DEF DNext

(* What a call of getLogger and one of setLevel change that dictConfig's    *)
(* promises speak of.                                                       *)
LEMMA GetLoggerKeeps ==
    ASSUME NEW n \in Names, GetLogger(n)
    PROVE  level' = level /\ Live' = Live \cup {n}
  BY DEF GetLogger, Create, Live, Passed

LEMMA SetLevelKeeps ==
    ASSUME TypeOK, NEW n \in Nodes, NEW l, SetLevel(n, l)
    PROVE  /\ Live' = Live /\ n \in Loggers
           /\ level'[n] = UShort(l)
           /\ \A m \in Nodes : m # n => level'[m] = level[m]
  BY DEF SetLevel, TypeOK, Live

ConfigTypes ==
    /\ handlers \in [Nodes -> SUBSET {"old", "new"}]
    /\ disabled \in [Nodes -> BOOLEAN] /\ propagate \in [Nodes -> BOOLEAN]
    /\ \A n \in Names \ Live : handlers[n] = {} /\ ~ disabled[n] /\ propagate[n]
    /\ at \in {"idle", "done", "raised", "loggers", "getLogger", "setLevel",
               "handlers", "root"}
    /\ child_loggers \subseteq Names

LEMMA NowFits ==
    ASSUME TypeOK, ConfigTypes
    PROVE  Now \in Befores /\ Now.live \subseteq Now.keys \cap Live
  <1>1. Live \subseteq {n \in Names : loggerDict[n] # "absent"}
    BY DEF Live
  <1> QED
    BY <1>1 DEF Now, Befores, TypeOK, ConfigTypes, Live

(* The steps that touch no variable of dictConfig's walk but may make a     *)
(* logger or give it a level.                                               *)
LEMMA WalkRests ==
    ASSUME ConfigTypes, WalkFits, Live \subseteq Live', UNCHANGED <<own, at, walk>>
    PROVE  ConfigTypes' /\ WalkFits'
  <1>1. ConfigTypes'
    BY DEF own, walk, ConfigTypes
  <1>2. Named' = Named /\ Walking' = Walking /\ Taken' = Taken
    BY DEF walk, Named, Walking, Taken
  <1>3. WalkFits'
    BY <1>2 DEF walk, WalkFits
  <1> QED
    BY <1>1, <1>3

LEMMA ConfigureWalk ==
    ASSUME TypeOK, ConfigTypes, NEW c \in Configs, Configure(c)
    PROVE  ConfigTypes' /\ WalkFits'
  <1>1. Live' = Live
    BY DEF Configure, vars, Live
  <1>2. ConfigTypes'
    BY <1>1 DEF Configure, own, ConfigTypes
  <1>3. /\ c.loggers \in Seq(Names) /\ IsInjective(c.loggers)
        /\ config' = c /\ todo' = c.loggers /\ at' = "loggers"
        /\ existing' = before'.keys /\ child_loggers' = {}
        /\ before' = Now
    BY ConfigAssumption DEF Configure, Now
  <1>4. Named' = Range(c.loggers) /\ Taken' = {} /\ Walking'
    BY <1>3 DEF Named, Taken, Walking
  <1>5. before' \in Befores /\ before'.live \subseteq before'.keys \cap Live'
    BY <1>1, <1>3, NowFits
  <1> QED
    BY <1>2, <1>3, <1>4, <1>5 DEF WalkFits

LEMMA TakeWalk ==
    ASSUME ConfigTypes, WalkFits, Take
    PROVE  ConfigTypes' /\ WalkFits'
  <1> DEFINE x == Head(todo)
  <1>1. at = "loggers" /\ todo # <<>> /\ Live' = Live
    BY DEF Take, vars, Live
  <1>2. /\ x \in Named /\ x \in Range(todo) /\ x \in Names
        /\ config \in Configs /\ Range(todo) \subseteq Named
    BY <1>1, HeadFacts DEF WalkFits
  <1>3. ConfigTypes'
    BY <1>1 DEF Take, own, ConfigTypes, Below
  <1>4. /\ Named' = Named /\ Walking /\ Walking'
        /\ Taken = Named \ Range(todo) /\ Taken' = Taken \cup {x}
        /\ at' = "getLogger"
    BY <1>1 DEF Take, Named, Taken, Walking
  <1>5. /\ existing = before.keys \ Taken /\ existing' = existing \ {x}
        /\ before' = before
    BY <1>1, <1>4 DEF Take, WalkFits
  <1>6. before.keys \subseteq Names
    BY <1>1 DEF WalkFits, Befores
  <1>7. ASSUME NEW m \in before.keys \ Named
        PROVE  m \in child_loggers' <=> Above[m] \cap Taken' \cap before.keys # {}
    <2>1. m \in child_loggers <=> Above[m] \cap Taken \cap before.keys # {}
      BY <1>4 DEF WalkFits
    <2>2. m \in existing /\ m \in Names
      BY <1>4, <1>5, <1>6, <1>7
    <2>3. m \in Below(x) \cap existing <=> x \in Above[m]
      BY <2>2 DEF Below
    <2>4. x \in existing <=> x \in before.keys
      BY <1>2, <1>4, <1>5
    <2> QED
      BY <1>4, <2>1, <2>3, <2>4 DEF Take
  <1> HIDE DEF x
  <1>8. existing' = before.keys \ Taken'
    BY <1>4, <1>5
  <1>9. WalkFits'
    BY <1>1, <1>4, <1>5, <1>7, <1>8 DEF Take, WalkFits
  <1> QED
    BY <1>3, <1>9

(* A step that gives one logger its attributes.                             *)
LEMMA OneLoggerTypes ==
    ASSUME ConfigTypes, Live' = Live, NEW x \in Loggers,
           handlers' \in [Nodes -> SUBSET {"old", "new"}],
           disabled' \in [Nodes -> BOOLEAN], propagate' \in [Nodes -> BOOLEAN],
           \A m \in Nodes : m # x =>
              handlers'[m] = handlers[m] /\ disabled'[m] = disabled[m]
              /\ propagate'[m] = propagate[m],
           at' \in {"idle", "done", "raised", "loggers", "getLogger", "setLevel",
                   "handlers", "root"},
           child_loggers' = child_loggers
    PROVE  ConfigTypes'
  <1> SUFFICES ASSUME NEW n \in Names \ Live'
               PROVE  handlers'[n] = {} /\ ~ disabled'[n] /\ propagate'[n]
    BY DEF ConfigTypes
  <1>1. n \in Nodes /\ n # x /\ n \in Names \ Live
    BY NamesAssumption DEF Loggers, Nodes
  <1>2. handlers[n] = {} /\ ~ disabled[n] /\ propagate[n]
    BY <1>1 DEF ConfigTypes
  <1> QED
    BY <1>1, <1>2

LEMMA HandlersWalk ==
    ASSUME ConfigTypes, WalkFits, Handlers
    PROVE  ConfigTypes' /\ WalkFits'
  <1> DEFINE x == Head(todo)
  <1>1. at = "handlers" /\ todo # <<>> /\ x \in Live /\ Live' = Live
    BY DEF Handlers, WalkFits, vars, Live
  <1>2. /\ x \in Named /\ x \in Range(todo) /\ x \in Nodes
        /\ Entry.handlers \in SUBSET {"old", "new"}
        /\ Entry.propagate = None \/ Entry.propagate \in BOOLEAN
        /\ Tail(todo) \in Seq(Names) /\ IsInjective(Tail(todo))
        /\ Range(Tail(todo)) = Range(todo) \ {x}
    BY <1>1, HeadFacts
  <1>3. Taken = (Named \ Range(todo)) \cup {x} /\ Walking /\ Named' = Named
    BY <1>1 DEF Taken, Walking, Handlers, Named
  <1>4. CASE Entry.fails = "handlers"
    <2>1. ConfigTypes'
      <3>1. /\ handlers' \in [Nodes -> SUBSET {"old", "new"}]
            /\ \A m \in Nodes : m # x => handlers'[m] = handlers[m]
            /\ disabled' = disabled /\ propagate' = propagate
            /\ at' = "raised" /\ child_loggers' = child_loggers
        BY <1>2, <1>4 DEF Handlers, ConfigTypes
      <3>2. x \in Loggers
        BY <1>1 DEF Loggers
      <3> HIDE DEF x
      <3>3. disabled' \in [Nodes -> BOOLEAN] /\ propagate' \in [Nodes -> BOOLEAN]
        BY <3>1 DEF ConfigTypes
      <3> QED
        BY <1>1, <3>1, <3>2, <3>3, OneLoggerTypes
    <2>2. at' = "raised" /\ ~ Walking'
      BY <1>4 DEF Handlers, Walking
    <2>3. WalkFits'
      BY <1>1, <1>3, <1>4, <2>2 DEF Handlers, WalkFits
    <2> QED
      BY <2>1, <2>3
  <1>5. CASE Entry.fails # "handlers"
    <2>1. ConfigTypes'
      <3>1. /\ handlers' \in [Nodes -> SUBSET {"old", "new"}]
            /\ \A m \in Nodes : m # x => handlers'[m] = handlers[m]
            /\ at' = "loggers" /\ child_loggers' = child_loggers
        BY <1>2, <1>5 DEF Handlers, ConfigTypes
      <3>2. /\ disabled' \in [Nodes -> BOOLEAN]
            /\ \A m \in Nodes : m # x => disabled'[m] = disabled[m]
        BY <1>2, <1>5 DEF Handlers, ConfigTypes
      <3>3. /\ propagate' \in [Nodes -> BOOLEAN]
            /\ \A m \in Nodes : m # x => propagate'[m] = propagate[m]
        BY <1>2, <1>5 DEF Handlers, ConfigTypes
      <3>4. x \in Loggers
        BY <1>1 DEF Loggers
      <3> HIDE DEF x
      <3> QED
        BY <1>1, <3>1, <3>2, <3>3, <3>4, OneLoggerTypes
    <2>2. at' = "loggers" /\ todo' = Tail(todo) /\ Walking'
      BY <1>5 DEF Handlers, Walking
    <2>3. Taken' = Taken
      BY <1>2, <1>3, <2>2 DEF Taken
    <2>4. WalkFits'
      BY <1>1, <1>2, <1>3, <2>2, <2>3 DEF Handlers, WalkFits
    <2> QED
      BY <2>1, <2>4
  <1> QED
    BY <1>4, <1>5

(* Get, Level and the two ways to raise change where dictConfig is.         *)
LEMMA MoveWalk ==
    ASSUME ConfigTypes, WalkFits, Live \subseteq Live', UNCHANGED <<own, walk>>,
           \/ at = "getLogger" /\ at' = "setLevel" /\ Head(todo) \in Live'
           \/ at = "setLevel" /\ at' = "handlers"
           \/ Walking /\ at' = "raised"
    PROVE  ConfigTypes' /\ WalkFits'
  <1>1. ConfigTypes'
    BY DEF own, walk, ConfigTypes
  <1>2. CASE Walking /\ at' = "raised"
    <2>1. at # "idle" /\ ~ Walking' /\ Named' = Named
      BY <1>2 DEF Walking, walk, Named
    <2>2. WalkFits'
      BY <1>2, <2>1 DEF WalkFits, walk
    <2> QED
      BY <1>1, <2>2
  <1>3. CASE \/ at = "getLogger" /\ at' = "setLevel" /\ Head(todo) \in Live'
             \/ at = "setLevel" /\ at' = "handlers"
    <2>1. /\ Walking /\ Walking' /\ Named' = Named /\ Taken' = Taken
          /\ at \notin {"idle", "done", "raised"} /\ todo # <<>>
      BY <1>3 DEF Walking, walk, Named, Taken, WalkFits
    <2>2. at = "setLevel" => Head(todo) \in Live
      BY DEF WalkFits
    <2>3. WalkFits'
      BY <1>3, <2>1, <2>2 DEF WalkFits, walk
    <2> QED
      BY <1>1, <2>3
  <1> QED
    BY <1>2, <1>3

(* A logger that was there before, reset or not, is no longer among them.   *)
LEMMA ExistingWalk ==
    ASSUME WalkFits, HandleExisting, Live' = Live, NEW m \in existing,
           existing' = existing \ {m},
           UNCHANGED <<at, config, todo, child_loggers, before>>
    PROVE  WalkFits'
  <1>1. /\ Walking /\ Walking' /\ Named' = Named /\ Taken' = Taken
        /\ at = "loggers" /\ todo = <<>>
    BY DEF HandleExisting, Walking, Named, Taken
  <1> QED
    BY <1>1 DEF WalkFits

LEMMA ResetWalk ==
    ASSUME TypeOK, ConfigTypes, WalkFits, NEW m \in Names, Reset(m)
    PROVE  ConfigTypes' /\ WalkFits'
  <1>1. m \in Nodes /\ m \in Loggers /\ m \in existing
    BY DEF Reset, Nodes, Loggers
  <1>2. Live' = Live
    BY <1>1, SetLevelKeeps DEF Reset
  <1>3. WalkFits'
    BY <1>1, <1>2, ExistingWalk DEF Reset
  <1>4. /\ handlers' \in [Nodes -> SUBSET {"old", "new"}]
        /\ \A n \in Nodes : n # m => handlers'[n] = handlers[n]
    BY <1>1 DEF Reset, ConfigTypes
  <1>5. /\ propagate' \in [Nodes -> BOOLEAN]
        /\ \A n \in Nodes : n # m => propagate'[n] = propagate[n]
    BY <1>1 DEF Reset, ConfigTypes
  <1>6. disabled' = disabled /\ at' = at /\ child_loggers' = child_loggers
    BY DEF Reset
  <1>7. /\ disabled' \in [Nodes -> BOOLEAN]
        /\ at' \in {"idle", "done", "raised", "loggers", "getLogger", "setLevel",
                    "handlers", "root"}
    BY <1>6 DEF ConfigTypes
  <1>8. ConfigTypes'
    BY <1>1, <1>2, <1>4, <1>5, <1>6, <1>7, OneLoggerTypes
  <1> QED
    BY <1>3, <1>8

LEMMA DisableWalk ==
    ASSUME ConfigTypes, WalkFits, NEW m \in Names, Disable(m)
    PROVE  ConfigTypes' /\ WalkFits'
  <1>1. m \in Nodes /\ m \in existing /\ Live' = Live
    BY DEF Disable, Nodes, vars, Live
  <1>2. WalkFits'
    BY <1>1, ExistingWalk DEF Disable
  <1>3. config.disable_existing \in BOOLEAN
    BY ConfigAssumption DEF Disable, HandleExisting, WalkFits
  <1> DEFINE d == m \in Live /\ config.disable_existing
  <1>4. d \in BOOLEAN /\ (m \notin Live => ~ d) /\ disabled' = [disabled EXCEPT ![m] = d]
    BY <1>3 DEF Disable
  <1> HIDE DEF d
  <1>5. disabled' \in [Nodes -> BOOLEAN]
    BY <1>1, <1>4 DEF ConfigTypes
  <1>6. handlers' = handlers /\ propagate' = propagate /\ at' = at
        /\ child_loggers' = child_loggers
    BY DEF Disable
  <1>7. ASSUME NEW n \in Names \ Live
        PROVE  ~ disabled'[n]
    <2>1. n \in Nodes /\ disabled \in [Nodes -> BOOLEAN] /\ ~ disabled[n]
      BY DEF ConfigTypes, Nodes
    <2>2. CASE n = m
      BY <1>4, <2>1, <2>2
    <2>3. CASE n # m
      <3>1. disabled'[n] = disabled[n]
        BY <1>4, <2>1, <2>3
      <3> QED
        BY <2>1, <3>1
    <2> QED
      BY <2>2, <2>3
  <1>8. ConfigTypes'
    BY <1>1, <1>5, <1>6, <1>7 DEF ConfigTypes
  <1> QED
    BY <1>2, <1>8

(* The steps of the root.                                                   *)
LEMMA RootWalk ==
    ASSUME TypeOK, ConfigTypes, WalkFits,
           NoRoot \/ RootLevel \/ RootHandlers \/ RootRaises
    PROVE  ConfigTypes' /\ WalkFits'
  <1>1. /\ at \in {"loggers", "root"} /\ todo = <<>> /\ existing = {}
        /\ at' \in {"done", "root", "raised"} /\ UNCHANGED walk
        /\ config \in Configs /\ (at' = "root" => config.root # None)
        /\ Root \in Nodes /\ Root \in Loggers
    BY DEF NoRoot, RootLevel, RootHandlers, RootRaises, AtRoot, WalkFits, Nodes, Loggers
  <1>2. Live' = Live
    <2>1. CASE NoRoot \/ RootHandlers \/ RootRaises
      BY <2>1 DEF NoRoot, RootHandlers, RootRaises, vars, Live
    <2>2. CASE RootLevel
      <3>1. CASE config.root.level = None
        BY <2>2, <3>1 DEF RootLevel, vars, Live
      <3>2. CASE config.root.level # None
        BY <1>1, <2>2, <3>2, SetLevelKeeps DEF RootLevel
      <3> QED
        BY <3>1, <3>2
    <2> QED
      BY <2>1, <2>2
  <1>3. /\ handlers' \in [Nodes -> SUBSET {"old", "new"}]
        /\ \A n \in Nodes : n # Root => handlers'[n] = handlers[n]
        /\ disabled' = disabled /\ propagate' = propagate
    <2>1. CASE NoRoot \/ RootLevel \/ RootRaises
      BY <2>1 DEF NoRoot, RootLevel, RootRaises, own, ConfigTypes
    <2>2. CASE RootHandlers
      <3>1. config.root # None
        BY <2>2 DEF RootHandlers, WalkFits
      <3>2. config.root.handlers \in SUBSET {"old", "new"}
        BY <1>1, <3>1, RootFacts
      <3> QED
        BY <2>2, <1>1, <3>2 DEF RootHandlers, ConfigTypes
    <2> QED
      BY <2>1, <2>2
  <1>4. disabled' \in [Nodes -> BOOLEAN] /\ propagate' \in [Nodes -> BOOLEAN]
    BY <1>3 DEF ConfigTypes
  <1>5. child_loggers' = child_loggers
    BY <1>1 DEF walk
  <1>6. ConfigTypes'
    BY <1>1, <1>2, <1>3, <1>4, <1>5, OneLoggerTypes
  <1>7. Named' = Named /\ ~ Walking' /\ at # "idle"
    BY <1>1 DEF walk, Named, Walking
  <1>8. WalkFits'
    BY <1>1, <1>2, <1>7 DEF WalkFits, walk
  <1> QED
    BY <1>6, <1>8

LEMMA AddHandlerWalk ==
    ASSUME ConfigTypes, WalkFits, NEW n \in Nodes, AddHandler(n)
    PROVE  ConfigTypes' /\ WalkFits'
  <1>1. /\ at = "idle" /\ UNCHANGED <<disabled, propagate, at, walk>>
        /\ n \in Loggers /\ Live' = Live
    BY DEF AddHandler, vars, Live
  <1>2. /\ handlers' \in [Nodes -> SUBSET {"old", "new"}]
        /\ \A m \in Nodes : m # n => handlers'[m] = handlers[m]
    BY DEF AddHandler, ConfigTypes
  <1>3. /\ disabled' \in [Nodes -> BOOLEAN] /\ propagate' \in [Nodes -> BOOLEAN]
        /\ at' = at /\ child_loggers' = child_loggers
        /\ disabled' = disabled /\ propagate' = propagate
    BY <1>1 DEF ConfigTypes, walk
  <1>4. ConfigTypes'
    BY <1>1, <1>2, <1>3, OneLoggerTypes
  <1>5. ~ Walking'
    BY <1>1 DEF Walking
  <1>6. WalkFits'
    BY <1>1, <1>5 DEF WalkFits, walk
  <1> QED
    BY <1>4, <1>6

LEMMA WalkStep ==
    ASSUME TypeOK, ConfigTypes, WalkFits, [DNext]_dvars
    PROVE  ConfigTypes' /\ WalkFits'
  <1>1. ASSUME NEW n \in Names, OtherGetLogger(n)
        PROVE  ConfigTypes' /\ WalkFits'
    <2>1. Live \subseteq Live'
      BY <1>1, GetLoggerKeeps DEF OtherGetLogger
    <2> QED
      BY <1>1, <2>1, WalkRests DEF OtherGetLogger
  <1>2. ASSUME NEW n \in Nodes, NEW l \in OtherLevels, OtherSetLevel(n, l)
        PROVE  ConfigTypes' /\ WalkFits'
    <2>1. Live' = Live
      BY <1>2, SetLevelKeeps DEF OtherSetLevel
    <2> QED
      BY <1>2, <2>1, WalkRests DEF OtherSetLevel
  <1>3. CASE Get
    <2>1. Head(todo) \in Names
      BY <1>3, HeadFacts DEF Get, WalkFits
    <2>2. Live \subseteq Live' /\ Head(todo) \in Live'
      <3>1. CASE Head(todo) \in Live
        BY <1>3, <3>1 DEF Get, vars, Live
      <3>2. CASE Head(todo) \notin Live
        BY <1>3, <2>1, <3>2, GetLoggerKeeps DEF Get
      <3> QED
        BY <3>1, <3>2
    <2> QED
      BY <1>3, <2>2, MoveWalk DEF Get
  <1>4. CASE Level
    <2>1. Head(todo) \in Nodes
      BY <1>4, HeadFacts DEF Level, WalkFits
    <2>2. Live' = Live
      <3>1. CASE Entry.level = None
        BY <1>4, <3>1 DEF Level, vars, Live
      <3>2. CASE Entry.level # None
        BY <1>4, <2>1, <3>2, SetLevelKeeps DEF Level
      <3> QED
        BY <3>1, <3>2
    <2> QED
      BY <1>4, <2>2, MoveWalk DEF Level
  <1>5. CASE LevelRaises
    <2>1. Live' = Live
      BY <1>5 DEF LevelRaises, vars, Live
    <2> QED
      BY <1>5, <2>1, MoveWalk DEF LevelRaises, Walking
  <1>6. ASSUME NEW m \in Names, ResetRaises(m)
        PROVE  ConfigTypes' /\ WalkFits'
    <2>1. Live' = Live
      BY <1>6 DEF ResetRaises, vars, Live
    <2> QED
      BY <1>6, <2>1, MoveWalk DEF ResetRaises, HandleExisting, Walking
  <1>7. CASE UNCHANGED dvars
    <2>1. Live' = Live
      BY <1>7 DEF dvars, vars, Live
    <2> QED
      BY <1>7, <2>1, WalkRests DEF dvars
  <1> QED
    BY <1>1, <1>2, <1>3, <1>4, <1>5, <1>6, <1>7, AddHandlerWalk, ConfigureWalk,
       TakeWalk, HandlersWalk, ResetWalk, DisableWalk, RootWalk DEF DNext

(* A logger that keeps its attributes, but perhaps for a level that the     *)
(* application sets, keeps its standing.                                    *)
SameAt(n) ==
    /\ n \in theirs' \/ level'[n] = level[n]
    /\ handlers'[n] = handlers[n]
    /\ disabled'[n] = disabled[n] /\ propagate'[n] = propagate[n]

LEMMA StandingKept ==
    ASSUME NEW n, SameAt(n), config' = config, before' = before,
           theirs \subseteq theirs', n \in Live => n \in Live'
    PROVE  /\ Unchanged(n) => Unchanged(n)'
           /\ HalfDone(n) => HalfDone(n)'
           /\ Settled(n) => Settled(n)'
           /\ Finished(n) => Finished(n)'
  <1>1. Named' = Named
    BY DEF Named
  <1> QED
    BY <1>1 DEF SameAt, Unchanged, HalfDone, Settled, Finished, LevelGiven, HasLevel

LEMMA WalkDomains ==
    ASSUME WalkFits, at # "idle"
    PROVE  /\ config \in Configs /\ Named \subseteq Names /\ Range(todo) \subseteq Named
           /\ before.live \subseteq before.keys \cap Names /\ before.live \subseteq Live
           /\ Root \notin Named
  <1>1. /\ config \in Configs /\ Range(todo) \subseteq Named
        /\ before.live \subseteq before.keys \cap Live /\ before \in Befores
    BY DEF WalkFits
  <1>2. Named \subseteq Names
    BY <1>1, EntryFacts DEF Named
  <1> QED
    BY <1>1, <1>2, NamesAssumption DEF Befores

LEMMA LoggersRest ==
    ASSUME WalkFits, LoggersFit, Live \subseteq Live', at # "idle",
           UNCHANGED <<config, todo, before>>, theirs \subseteq theirs',
           \A n \in Nodes : SameAt(n),
           \A m \in before.live \ Named : m \in existing' <=> m \in existing,
           \/ at' = at /\ existing' = existing
           \/ Walking /\ Walking' /\ at # "handlers" /\ at' # "handlers"
    PROVE  LoggersFit'
  <1>1. /\ Named \subseteq Nodes /\ Range(todo) \subseteq Named /\ Root \in Nodes
        /\ before.live \subseteq Nodes
    BY WalkDomains DEF Nodes
  <1>2. \A n \in Nodes : /\ Unchanged(n) => Unchanged(n)'
                         /\ HalfDone(n) => HalfDone(n)'
                         /\ Settled(n) => Settled(n)'
                         /\ Finished(n) => Finished(n)'
    BY StandingKept
  <1>3. Named' = Named
    BY DEF Named
  <1>4. Walking' => Walking
    BY DEF Walking
  <1>5. /\ Walking' \/ at' = "root" \/ LoggersDone' =>
              Walking \/ at = "root" \/ LoggersDone
        /\ at' = "root" => at = "root"
        /\ at' = "done" => at = "done"
    BY <1>4 DEF Walking, LoggersDone
  <1>6. at' = "raised" => at = "raised"
    BY DEF Walking
  <1>7. at' = "handlers" <=> at = "handlers"
    OBVIOUS
  <1>8. FailureSpares'
    BY <1>1, <1>2, <1>3, <1>6 DEF FailureSpares, LoggersFit
  <1>9. Walking' \/ at' = "root" \/ LoggersDone' =>
            /\ \A n \in Named' \ Range(todo') : Finished(n)'
            /\ \A m \in before'.live \ Named' :
                  IF m \in existing' THEN Unchanged(m)' ELSE Settled(m)'
    BY <1>1, <1>2, <1>3, <1>5 DEF LoggersFit
  <1>10. Walking' =>
            /\ \A n \in Range(todo') :
                  IF at' = "handlers" /\ n = Head(todo') THEN HalfDone(n)' ELSE Unchanged(n)'
            /\ Unchanged(Root)'
    BY <1>1, <1>2, <1>4, <1>7 DEF LoggersFit
  <1>11. RootLevelGiven => RootLevelGiven'
    BY <1>1 DEF RootLevelGiven, HasLevel, SameAt
  <1>12. RootConfigured => RootConfigured'
    BY <1>1, <1>2 DEF RootConfigured, HasLevel, SameAt
  <1> QED
    BY <1>5, <1>8, <1>9, <1>10, <1>11, <1>12 DEF LoggersFit

LEMMA LoggersRaise ==
    ASSUME WalkFits, LoggersFit, Walking, at' = "raised", ~ LoggersDone', Live' = Live,
           UNCHANGED <<config, todo, before, theirs>>,
           \A m \in (before.live \cup {Root}) \ Named : SameAt(m)
    PROVE  LoggersFit'
  <1>1. ~ Walking' /\ Named' = Named
    BY DEF Walking, Named
  <1>2. FailureSpares'
    <2> SUFFICES ASSUME todo # <<>>, NEW m \in (before.live \cup {Root}) \ Named
                 PROVE  Unchanged(m)'
      BY <1>1 DEF FailureSpares
    <2>1. CASE m = Root
      BY <2>1, StandingKept DEF LoggersFit
    <2>2. CASE m \in before.live
      <3>1. at # "idle"
        BY DEF Walking
      <3>2. Taken \subseteq Named
        BY <3>1, HeadFacts DEF Taken
      <3>3. m \in existing
        BY <2>2, <3>1, <3>2, WalkDomains DEF WalkFits
      <3>4. Unchanged(m)
        BY <2>2, <3>3 DEF LoggersFit
      <3> QED
        BY <3>4, StandingKept
    <2> QED
      BY <2>1, <2>2
  <1> QED
    BY <1>1, <1>2 DEF LoggersFit

LEMMA ConfigureLoggers ==
    ASSUME TypeOK, ConfigTypes, NEW c \in Configs, Configure(c)
    PROVE  LoggersFit'
  <1>1. /\ config' = c /\ todo' = c.loggers /\ at' = "loggers"
        /\ UNCHANGED <<vars, own>>
        /\ existing' = before'.keys /\ before' = Now
    BY DEF Configure, Now
  <1>2. /\ before'.level = level /\ before'.handlers = handlers
        /\ before'.disabled = disabled /\ before'.propagate = propagate
        /\ before'.live \subseteq existing'
    BY <1>1, NowFits DEF Now
  <1>3. \A n : Unchanged(n)'
    BY <1>1, <1>2 DEF Unchanged, HasLevel, own, vars
  <1>4. Named' = Range(todo')
    BY <1>1 DEF Named
  <1>5. FailureSpares'
    BY <1>1 DEF FailureSpares
  <1> QED
    BY <1>1, <1>2, <1>3, <1>4, <1>5 DEF LoggersFit

LEMMA LevelLoggers ==
    ASSUME TypeOK, ConfigTypes, WalkFits, LoggersFit, Level
    PROVE  LoggersFit'
  <1>0. PICK x : x = Head(todo)
    OBVIOUS
  <1>1. /\ at = "setLevel" /\ at' = "handlers" /\ todo # <<>> /\ x \in Live
        /\ UNCHANGED <<handlers, disabled, propagate>>
        /\ UNCHANGED <<config, todo, existing, before, theirs>>
    BY <1>0 DEF Level, WalkFits, own, walk
  <1>2. x \in Named /\ x \in Range(todo) /\ x \in Nodes /\ x \in Names
    BY <1>0, <1>1, HeadFacts
  <1>3. /\ Live' = Live
        /\ level'[x] = IF Entry.level = None THEN level[x] ELSE UShort(Entry.level)
        /\ \A m \in Nodes : m # x => level'[m] = level[m]
    <2>1. CASE Entry.level = None
      BY <1>0, <2>1 DEF Level, vars, Live
    <2>2. CASE Entry.level # None
      BY <1>0, <1>2, <2>2, SetLevelKeeps DEF Level
    <2> QED
      BY <2>1, <2>2
  <1>4. Walking /\ Walking' /\ Named' = Named
    BY <1>1 DEF Walking, Named
  <1>5. \A m \in Nodes : m # x => SameAt(m)
    BY <1>1, <1>3 DEF SameAt
  <1>6. \A m \in Nodes : m # x => /\ Unchanged(m) => Unchanged(m)'
                                  /\ Settled(m) => Settled(m)'
                                  /\ Finished(m) => Finished(m)'
    BY <1>1, <1>3, <1>5, StandingKept
  <1>7. /\ Named \subseteq Nodes /\ Range(todo) \subseteq Named /\ Root \in Nodes
        /\ before.live \subseteq Nodes /\ Root \notin Named
    BY <1>1, WalkDomains DEF Nodes
  <1>8. HalfDone(x)'
    <2>1. Unchanged(x)
      BY <1>1, <1>2, <1>4 DEF LoggersFit
    <2>2. \/ x \in theirs
          \/ level'[x] = IF config.entries[x].level = None THEN before.level[x]
                         ELSE UShort(config.entries[x].level)
      BY <1>0, <1>3, <2>1 DEF Entry, Unchanged, HasLevel
    <2> QED
      BY <1>1, <2>1, <2>2 DEF Unchanged, HalfDone, LevelGiven, HasLevel
  <1>9. \A n \in Named' \ Range(todo') : Finished(n)'
    BY <1>1, <1>2, <1>4, <1>6, <1>7 DEF LoggersFit
  <1>10. \A m \in before'.live \ Named' :
            IF m \in existing' THEN Unchanged(m)' ELSE Settled(m)'
    BY <1>1, <1>2, <1>4, <1>6, <1>7 DEF LoggersFit
  <1>11. /\ \A n \in Range(todo') : n # x => Unchanged(n)'
         /\ Unchanged(Root)'
    BY <1>1, <1>2, <1>4, <1>6, <1>7 DEF LoggersFit
  <1>12. FailureSpares'
    BY <1>1 DEF FailureSpares
  <1> QED
    BY <1>8, <1>9, <1>10, <1>11, <1>12, <1>1, <1>0 DEF LoggersFit

LEMMA HandlersLoggers ==
    ASSUME TypeOK, ConfigTypes, WalkFits, LoggersFit, Handlers
    PROVE  LoggersFit'
  <1>0. PICK x : x = Head(todo)
    OBVIOUS
  <1>1. /\ at = "handlers" /\ todo # <<>> /\ x \in Live
        /\ UNCHANGED <<vars, config, existing, child_loggers, before, theirs>>
        /\ Live' = Live /\ level' = level
    BY <1>0 DEF Handlers, WalkFits, vars, Live
  <1>2. /\ x \in Named /\ x \in Range(todo) /\ x \in Nodes /\ x \in Names
        /\ Entry.propagate = None \/ Entry.propagate \in BOOLEAN
        /\ Range(Tail(todo)) = Range(todo) \ {x}
    BY <1>0, <1>1, HeadFacts
  <1>3. Walking /\ Named' = Named
    BY <1>1 DEF Walking, Named
  <1>4. /\ Named \subseteq Nodes /\ Range(todo) \subseteq Named /\ Root \in Nodes
        /\ before.live \subseteq Nodes /\ Root \notin Named
    BY <1>1, WalkDomains DEF Nodes
  <1>5. \A m \in Nodes : m # x => SameAt(m)
    BY <1>0, <1>1 DEF Handlers, SameAt, ConfigTypes
  <1>6. CASE Entry.fails = "handlers"
    <2>1. at' = "raised" /\ todo' = todo /\ ~ LoggersDone'
      BY <1>1, <1>6 DEF Handlers, LoggersDone
    <2>2. \A m \in (before.live \cup {Root}) \ Named : SameAt(m)
      BY <1>2, <1>4, <1>5
    <2> QED
      BY <1>1, <1>3, <2>1, <2>2, LoggersRaise
  <1>7. CASE Entry.fails # "handlers"
    <2>1. at' = "loggers" /\ todo' = Tail(todo) /\ Walking'
      BY <1>7 DEF Handlers, Walking
    <2>2. \A m \in Nodes : m # x => /\ Unchanged(m) => Unchanged(m)'
                                    /\ Settled(m) => Settled(m)'
                                    /\ Finished(m) => Finished(m)'
      BY <1>1, <1>5, StandingKept
    <2>3. Finished(x)'
      <3>1. HalfDone(x)
        BY <1>0, <1>1, <1>2, <1>3 DEF LoggersFit
      <3>2. handlers'[x] = Entry.handlers /\ disabled'[x] = FALSE
        BY <1>0, <1>2, <1>7 DEF Handlers, ConfigTypes
      <3>3. propagate'[x] = IF Entry.propagate = None THEN propagate[x] ELSE Entry.propagate
        BY <1>0, <1>2, <1>7 DEF Handlers, ConfigTypes
      <3>4. Entry = config.entries[x]
        BY <1>0 DEF Entry
      <3>5. propagate'[x] = IF config.entries[x].propagate = None
                            THEN before.propagate[x] ELSE config.entries[x].propagate
        BY <3>1, <3>3, <3>4 DEF HalfDone
      <3>6. LevelGiven(x)'
        BY <1>1, <3>1 DEF HalfDone, LevelGiven, HasLevel
      <3> QED
        BY <1>1, <3>2, <3>4, <3>5, <3>6 DEF Finished
    <2>4. \A n \in Named' \ Range(todo') : Finished(n)'
      BY <1>2, <1>3, <1>4, <2>1, <2>2, <2>3 DEF LoggersFit
    <2>5. \A m \in before'.live \ Named' :
              IF m \in existing' THEN Unchanged(m)' ELSE Settled(m)'
      BY <1>1, <1>2, <1>3, <1>4, <2>2 DEF LoggersFit
    <2>6. /\ \A n \in Range(todo') : Unchanged(n)'
          /\ Unchanged(Root)'
      BY <1>0, <1>2, <1>3, <1>4, <2>1, <2>2 DEF LoggersFit
    <2>7. FailureSpares'
      BY <2>1 DEF FailureSpares
    <2> QED
      BY <2>1, <2>4, <2>5, <2>6, <2>7 DEF LoggersFit
  <1> QED
    BY <1>6, <1>7

(* One of the loggers that were there before, when all of the               *)
(* configuration's are done.                                                *)
LEMMA OneExisting ==
    ASSUME WalkFits, LoggersFit, HandleExisting, Live' = Live,
           NEW m \in existing \cap Names,
           existing' = existing \ {m}, UNCHANGED <<at, config, todo, before, theirs>>,
           \A n \in Nodes : n # m => SameAt(n),
           m \in before.live => Settled(m)'
    PROVE  LoggersFit'
  <1>1. /\ at = "loggers" /\ todo = <<>> /\ Walking /\ Walking' /\ Named' = Named
    BY DEF HandleExisting, Walking, Named
  <1>2. Range(todo) = {}
    BY <1>1 DEF Range
  <1>3. /\ Named \subseteq Nodes /\ Root \in Nodes /\ Root # m
        /\ before.live \subseteq Nodes
    BY <1>1, WalkDomains, NamesAssumption DEF Nodes
  <1>4. m \notin Named
    BY <1>1, <1>2 DEF WalkFits, Taken
  <1>5. \A n \in Nodes : n # m => /\ Unchanged(n) => Unchanged(n)'
                                  /\ Settled(n) => Settled(n)'
                                  /\ Finished(n) => Finished(n)'
    BY StandingKept
  <1>6. \A n \in Named' \ Range(todo') : Finished(n)'
    BY <1>1, <1>3, <1>4, <1>5 DEF LoggersFit
  <1>7. \A n \in before'.live \ Named' :
            IF n \in existing' THEN Unchanged(n)' ELSE Settled(n)'
    BY <1>1, <1>3, <1>5 DEF LoggersFit
  <1>8. Unchanged(Root)'
    BY <1>1, <1>3, <1>5 DEF LoggersFit
  <1>9. FailureSpares'
    BY <1>1 DEF FailureSpares
  <1> QED
    BY <1>1, <1>2, <1>6, <1>7, <1>8, <1>9 DEF LoggersFit

(* What is left to do with a logger that is neither of the configuration    *)
(* nor handled yet.                                                         *)
LEMMA LeftAsBefore ==
    ASSUME WalkFits, LoggersFit, HandleExisting, NEW m \in existing, m \in before.live
    PROVE  /\ m \notin Named /\ Unchanged(m) /\ m \in Nodes
           /\ m \in child_loggers <=> Above[m] \cap Named \cap before.keys # {}
  <1>1. /\ at = "loggers" /\ todo = <<>> /\ Walking
    BY DEF HandleExisting, Walking
  <1>2. Range(todo) = {}
    BY <1>1 DEF Range
  <1>3. Taken = Named
    BY <1>1, <1>2 DEF Taken
  <1>4. m \in before.keys \ Named
    BY <1>1, <1>3 DEF WalkFits
  <1>5. m \in child_loggers <=> Above[m] \cap Named \cap before.keys # {}
    BY <1>1, <1>3, <1>4 DEF WalkFits
  <1>6. Unchanged(m)
    BY <1>1, <1>4 DEF LoggersFit
  <1>7. m \in Nodes
    BY <1>1, WalkDomains DEF Nodes
  <1> QED
    BY <1>4, <1>5, <1>6, <1>7

LEMMA ResetLoggers ==
    ASSUME TypeOK, ConfigTypes, WalkFits, LoggersFit, NEW m \in Names, Reset(m)
    PROVE  LoggersFit'
  <1>1. /\ HandleExisting /\ m \in existing \cap Names /\ m \in child_loggers
        /\ m \in Nodes
        /\ existing' = existing \ {m}
        /\ UNCHANGED <<at, config, todo, before, theirs>> /\ disabled' = disabled
    BY DEF Reset, Nodes
  <1>2. /\ Live' = Live /\ level'[m] = UShort(NOTSET)
        /\ \A n \in Nodes : n # m => level'[n] = level[n]
    BY <1>1, SetLevelKeeps DEF Reset
  <1>3. UShort(NOTSET) = NOTSET
    BY DEF UShort, NOTSET, USHORT
  <1>4. /\ handlers'[m] = {} /\ propagate'[m] = TRUE
        /\ \A n \in Nodes : n # m => SameAt(n)
    BY <1>1, <1>2 DEF Reset, ConfigTypes, SameAt
  <1>5. ASSUME m \in before.live
        PROVE  Settled(m)'
    <2>1. Unchanged(m) /\ Above[m] \cap Named \cap before.keys # {}
      BY <1>1, <1>5, LeftAsBefore
    <2>2. Named' = Named
      BY <1>1 DEF Named
    <2>3. disabled'[m] = before'.disabled[m]
      BY <1>1, <2>1 DEF Unchanged
    <2> QED
      BY <1>1, <1>2, <1>3, <1>4, <2>1, <2>2, <2>3 DEF Settled, HasLevel
  <1> QED
    BY <1>1, <1>2, <1>4, <1>5, OneExisting

LEMMA DisableLoggers ==
    ASSUME TypeOK, ConfigTypes, WalkFits, LoggersFit, NEW m \in Names, Disable(m)
    PROVE  LoggersFit'
  <1>1. /\ HandleExisting /\ m \in existing \cap Names /\ m \notin child_loggers
        /\ m \in Nodes
        /\ existing' = existing \ {m}
        /\ UNCHANGED <<level, handlers, propagate, at, config, todo, before, theirs>>
        /\ Live' = Live
    BY DEF Disable, Nodes, vars, Live
  <1>2. /\ disabled'[m] = (m \in Live /\ config.disable_existing)
        /\ \A n \in Nodes : n # m => disabled'[n] = disabled[n]
    BY <1>1 DEF Disable, ConfigTypes
  <1>3. \A n \in Nodes : n # m => SameAt(n)
    BY <1>1, <1>2 DEF SameAt
  <1>4. ASSUME m \in before.live
        PROVE  Settled(m)'
    <2>1. Unchanged(m) /\ Above[m] \cap Named \cap before.keys = {}
      BY <1>1, <1>4, LeftAsBefore
    <2>2. Named' = Named /\ m \in Live /\ config.disable_existing \in BOOLEAN
      BY <1>1, <1>4, ConfigAssumption, WalkDomains DEF Named, HandleExisting
    <2>3. disabled'[m] = config'.disable_existing
      BY <1>1, <1>2, <2>2
    <2>4. /\ HasLevel(m, before.level[m])' /\ handlers'[m] = before'.handlers[m]
          /\ propagate'[m] = before'.propagate[m]
      BY <1>1, <2>1 DEF Unchanged, HasLevel
    <2> QED
      BY <1>1, <2>1, <2>2, <2>3, <2>4 DEF Settled
  <1> QED
    BY <1>1, <1>3, <1>4, OneExisting

LEMMA RootLoggers ==
    ASSUME TypeOK, ConfigTypes, WalkFits, LoggersFit,
           NoRoot \/ RootLevel \/ RootHandlers \/ RootRaises
    PROVE  LoggersFit'
  <1>1. /\ at \in {"loggers", "root"} /\ todo = <<>> /\ existing = {}
        /\ at' \in {"done", "root", "raised"} /\ at # "idle"
        /\ Walking \/ at = "root"
        /\ UNCHANGED <<disabled, propagate, config, todo, existing, before, theirs>>
    BY DEF NoRoot, RootLevel, RootHandlers, RootRaises, AtRoot, Walking, WalkFits, own, walk
  <1>2. ~ Walking' /\ Named' = Named
    BY <1>1 DEF Walking, Named
  <1>3. /\ Named \subseteq Nodes /\ before.live \subseteq Nodes /\ Root \in Nodes
        /\ Root \notin Named /\ Root \notin before.live /\ config \in Configs
    BY <1>1, WalkDomains, NamesAssumption DEF Nodes
  <1>4. /\ Live' = Live
        /\ \A n \in Nodes : n # Root => level'[n] = level[n]
    <2>1. CASE NoRoot \/ RootHandlers \/ RootRaises
      BY <2>1 DEF NoRoot, RootHandlers, RootRaises, vars, Live
    <2>2. CASE RootLevel
      <3>1. CASE config.root.level = None
        BY <2>2, <3>1 DEF RootLevel, vars, Live
      <3>2. CASE config.root.level # None
        BY <1>3, <2>2, <3>2, SetLevelKeeps DEF RootLevel
      <3> QED
        BY <3>1, <3>2
    <2> QED
      BY <2>1, <2>2
  <1>5. \A n \in Nodes : n # Root => handlers'[n] = handlers[n]
    BY DEF NoRoot, RootLevel, RootHandlers, RootRaises, own, ConfigTypes
  <1>6. \A n \in Nodes : n # Root => SameAt(n)
    BY <1>1, <1>4, <1>5 DEF SameAt
  <1>7. \A n \in Nodes : n # Root => /\ Unchanged(n) => Unchanged(n)'
                                     /\ Settled(n) => Settled(n)'
                                     /\ Finished(n) => Finished(n)'
    BY <1>1, <1>4, <1>6, StandingKept
  <1>8. \A n \in Named' \ Range(todo') : Finished(n)'
    BY <1>1, <1>2, <1>3, <1>7 DEF LoggersFit
  <1>9. \A n \in before'.live \ Named' :
            IF n \in existing' THEN Unchanged(n)' ELSE Settled(n)'
    BY <1>1, <1>2, <1>3, <1>7 DEF LoggersFit
  <1>10. FailureSpares'
    BY <1>1 DEF FailureSpares
  <1>11. at' = "root" => RootLevelGiven'
    <2> SUFFICES ASSUME at' = "root"
                 PROVE  RootLevelGiven'
      OBVIOUS
    <2>1. RootLevel
      BY DEF NoRoot, RootHandlers, RootRaises
    <2>2. Unchanged(Root)
      BY <2>1 DEF RootLevel, AtRoot, Walking, LoggersFit
    <2>3. CASE config.root.level = None
      BY <1>1, <2>1, <2>2, <2>3 DEF RootLevel, vars, Unchanged, RootLevelGiven, HasLevel
    <2>4. CASE config.root.level # None
      <3>1. level'[Root] = UShort(config.root.level)
        BY <1>3, <2>1, <2>4, SetLevelKeeps DEF RootLevel
      <3> QED
        BY <1>1, <2>4, <3>1 DEF RootLevelGiven, HasLevel
    <2> QED
      BY <2>3, <2>4
  <1>12. at' = "done" => RootConfigured'
    <2> SUFFICES ASSUME at' = "done"
                 PROVE  RootConfigured'
      OBVIOUS
    <2>1. CASE NoRoot
      <3>1. Unchanged(Root)
        BY <2>1 DEF NoRoot, AtRoot, Walking, LoggersFit
      <3>2. Unchanged(Root)'
        BY <1>1, <2>1, <3>1 DEF NoRoot, own, vars, Unchanged, HasLevel
      <3> QED
        BY <1>1, <2>1, <3>2 DEF NoRoot, RootConfigured
    <2>2. CASE RootHandlers
      <3>1. RootLevelGiven /\ config.root # None
        BY <2>2 DEF RootHandlers, WalkFits, LoggersFit
      <3>2. handlers'[Root] = config.root.handlers /\ level' = level
        BY <1>3, <2>2 DEF RootHandlers, ConfigTypes, vars
      <3> QED
        BY <1>1, <3>1, <3>2 DEF RootLevelGiven, RootConfigured, HasLevel
    <2> QED
      BY <2>1, <2>2 DEF RootLevel, RootRaises
  <1> QED
    BY <1>2, <1>8, <1>9, <1>10, <1>11, <1>12 DEF LoggersFit

LEMMA LoggersStep ==
    ASSUME TypeOK, ConfigTypes, WalkFits, LoggersFit, [DNext]_dvars
    PROVE  LoggersFit'
  <1>0. at' = "idle" => LoggersFit'
    BY DEF LoggersFit, Walking, FailureSpares, LoggersDone
  <1>1. ASSUME NEW n \in Names, OtherGetLogger(n)
        PROVE  LoggersFit'
    <2>1. /\ Live \subseteq Live' /\ at' = at
          /\ UNCHANGED <<level, own, config, todo, existing, before, theirs>>
      BY <1>1, GetLoggerKeeps DEF OtherGetLogger, walk
    <2>2. \A m \in Nodes : SameAt(m)
      BY <2>1 DEF SameAt, own
    <2> QED
      BY <1>0, <2>1, <2>2, LoggersRest
  <1>3. CASE Take
    <2>1. /\ Live' = Live /\ at = "loggers" /\ at' = "getLogger" /\ todo # <<>>
          /\ UNCHANGED <<level, own, config, todo, before, theirs>>
          /\ existing' = existing \ {Head(todo)}
      BY <1>3 DEF Take, vars, Live
    <2>2. Head(todo) \in Named
      BY <2>1, HeadFacts
    <2>3. \A m \in Nodes : SameAt(m)
      BY <2>1 DEF SameAt, own
    <2> QED
      BY <2>1, <2>2, <2>3, LoggersRest DEF Walking
  <1>4. CASE Get
    <2>1. /\ at = "getLogger" /\ at' = "setLevel"
          /\ UNCHANGED <<own, config, todo, existing, before, theirs>>
      BY <1>4 DEF Get, walk
    <2>2. Head(todo) \in Names
      BY <2>1, HeadFacts DEF WalkFits
    <2>3. Live \subseteq Live' /\ level' = level
      <3>1. CASE Head(todo) \in Live
        BY <1>4, <3>1 DEF Get, vars, Live
      <3>2. CASE Head(todo) \notin Live
        BY <1>4, <2>2, <3>2, GetLoggerKeeps DEF Get
      <3> QED
        BY <3>1, <3>2
    <2>4. \A m \in Nodes : SameAt(m)
      BY <2>1, <2>3 DEF SameAt, own
    <2> QED
      BY <2>1, <2>3, <2>4, LoggersRest DEF Walking
  <1>5. CASE LevelRaises \/ \E m \in Names : ResetRaises(m)
    <2>1. /\ Walking /\ at' = "raised" /\ Live' = Live
          /\ UNCHANGED <<level, own, config, todo, existing, before, theirs>>
          /\ todo # <<>> \/ existing # {}
      BY <1>5 DEF LevelRaises, ResetRaises, HandleExisting, Walking, WalkFits, vars, walk, Live
    <2>2. \A m : SameAt(m)
      BY <2>1 DEF SameAt, own
    <2> QED
      BY <2>1, <2>2, LoggersRaise DEF LoggersDone
  <1>6. CASE UNCHANGED dvars
    <2>1. /\ Live' = Live /\ at' = at
          /\ UNCHANGED <<level, own, config, todo, existing, before, theirs>>
      BY <1>6 DEF dvars, vars, walk, Live
    <2>2. \A m \in Nodes : SameAt(m)
      BY <2>1 DEF SameAt, own
    <2> QED
      BY <1>0, <2>1, <2>2, LoggersRest
  <1>7. CASE \E n \in Nodes : AddHandler(n)
    BY <1>0, <1>7 DEF AddHandler
  <1>8. ASSUME NEW n \in Nodes, NEW l \in OtherLevels, OtherSetLevel(n, l)
        PROVE  LoggersFit'
    <2>1. CASE at = "idle"
      BY <1>0, <1>8, <2>1 DEF OtherSetLevel
    <2>2. CASE at # "idle"
      <3>1. /\ Live' = Live /\ at' = at /\ theirs' = theirs \cup {n}
            /\ UNCHANGED <<own, config, todo, existing, before>>
            /\ \A m \in Nodes : m # n => level'[m] = level[m]
        BY <1>8, <2>2, SetLevelKeeps DEF OtherSetLevel, walk
      <3>2. \A m \in Nodes : SameAt(m)
        BY <3>1 DEF SameAt, own
      <3> QED
        BY <2>2, <3>1, <3>2, LoggersRest
    <2> QED
      BY <2>1, <2>2
  <1> QED
    BY <1>1, <1>3, <1>4, <1>5, <1>6, <1>7, <1>8, ConfigureLoggers, LevelLoggers,
       HandlersLoggers, ResetLoggers, DisableLoggers, RootLoggers DEF DNext

LEMMA TheirsStep ==
    ASSUME theirs \subseteq Nodes, [DNext]_dvars
    PROVE  theirs' \subseteq Nodes
  BY DEF DNext, OtherGetLogger, OtherSetLevel, AddHandler, Configure, Take, Get, Level,
         Handlers, LevelRaises, Reset, ResetRaises, Disable, NoRoot, RootLevel,
         RootHandlers, RootRaises, dvars

ConfigInv == TreeInv /\ ConfigTypes /\ theirs \subseteq Nodes /\ WalkFits /\ LoggersFit

LEMMA ConfigInvariant == DSpec => []ConfigInv
  <1>1. DInit => ConfigInv
    <2> SUFFICES ASSUME DInit
                 PROVE  ConfigInv
      OBVIOUS
    <2>1. TreeInv
      BY InitInv, DInitIsInit
    <2>2. ConfigTypes
      BY DEF DInit, ConfigTypes, Nodes
    <2>3. at = "idle" /\ todo = <<>> /\ ~ Walking
      BY DEF DInit, Walking
    <2>4. WalkFits
      BY <2>3 DEF WalkFits, IsInjective
    <2>5. LoggersFit
      BY <2>3 DEF LoggersFit, FailureSpares, LoggersDone
    <2> QED
      BY <2>1, <2>2, <2>4, <2>5 DEF ConfigInv, DInit
  <1>2. ConfigInv /\ [DNext]_dvars => ConfigInv'
    <2> SUFFICES ASSUME ConfigInv, [DNext]_dvars
                 PROVE  ConfigInv'
      OBVIOUS
    <2>1. TypeOK
      BY DEF ConfigInv, TreeInv
    <2>2. TreeInv'
      BY NextInv, DNextIsNext DEF ConfigInv
    <2> QED
      BY <2>1, <2>2, WalkStep, LoggersStep, TheirsStep DEF ConfigInv
  <1> QED
    BY <1>1, <1>2, PTL DEF DSpec

(* Whatever the configurations, and whatever getLogger, setLevel and        *)
(* addHandler calls come between and during them: dictConfig changes the    *)
(* hierarchy by getLogger and setLevel calls alone, so that everything      *)
(* proved of Spec holds while it runs and after it raised.                  *)
THEOREM DictConfigUsesTheTree == DSpec => Spec
  <1>1. ConfigInv /\ [DNext]_dvars => [Next]_vars
    BY DNextIsNext DEF ConfigInv
  <1> QED
    BY <1>1, DInitIsInit, ConfigInvariant, PTL DEF DSpec, Spec

(* Types; a logger that does not exist has no handlers and is not disabled; *)
(* a logger that is being configured is no longer among the existing ones,  *)
(* which dictConfig would reset or disable afterwards.                      *)
THEOREM ConfigTypesHold == DSpec => []ConfigTypeOK
  <1>1. ConfigInv => ConfigTypeOK
    <2> SUFFICES ASSUME ConfigInv
                 PROVE  ConfigTypeOK
      OBVIOUS
    <2>1. TypeOK
      BY DEF ConfigInv, TreeInv
    <2>2. ASSUME at \in {"getLogger", "setLevel", "handlers"}
          PROVE  todo # <<>> /\ Head(todo) \notin existing
      BY <2>2 DEF ConfigInv, WalkFits, Walking, Taken
    <2> QED
      BY <2>1, <2>2 DEF ConfigInv, ConfigTypes, ConfigTypeOK
  <1> QED
    BY <1>1, ConfigInvariant, PTL

(* When dictConfig returns, every logger it names is as its entry says,     *)
(* every other logger that was there is reset if it is below one that was   *)
(* there too and is named, and otherwise as it was but for disabled, and    *)
(* all but for levels that the application sets meanwhile; the root is as   *)
(* its entry says, and one that makes dictConfig raise spoils no logger;    *)
(* when it raises over another entry, no other logger has been touched.     *)
THEOREM DictConfigDelivers == DSpec => []ConfiguredOrSpared
  <1>1. ConfigInv => ConfiguredOrSpared
    <2> SUFFICES ASSUME ConfigInv
                 PROVE  ConfiguredOrSpared
      OBVIOUS
    <2>1. Configured
      <3>1. at = "done" => RootConfigured
        BY DEF ConfigInv, LoggersFit
      <3> SUFFICES ASSUME LoggersDone
                   PROVE  /\ \A n \in Named : Finished(n)
                          /\ \A m \in before.live \ Named : Settled(m)
        BY <3>1 DEF Configured, Finished, LevelGiven, Settled
      <3>2. todo = <<>> /\ existing = {}
        BY DEF ConfigInv, WalkFits, LoggersDone
      <3>3. Range(todo) = {}
        BY <3>2 DEF Range
      <3> QED
        BY <3>2, <3>3 DEF ConfigInv, LoggersFit
    <2> QED
      BY <2>1 DEF ConfigInv, LoggersFit, ConfiguredOrSpared
  <1> QED
    BY <1>1, ConfigInvariant, PTL

==============================================================================
