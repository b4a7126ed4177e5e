----------------------------- MODULE LoggerNames -----------------------------
(***************************************************************************)
(* The constants every model of the logger hierarchy shares: the dotted    *)
(* logger names as the keys of Manager.loggerDict, the order "is a dotted  *)
(* prefix of" between them, and the severities of __init__.py.             *)
(***************************************************************************)
EXTENDS Integers, FiniteSets

CONSTANTS
    Names,      \* the dotted names getLogger is called with, and their prefixes
    Root,       \* the root logger: it is not a key of loggerDict
    None,       \* Python's None
    Above,      \* Above[n]: the proper prefixes of n that end before a dot
    TextExt,    \* TextExt[n]: the loggers whose name string starts with n
    LevelArgs   \* the integers setLevel is called with

Nodes == Names \cup {Root}

(* A name has a longest prefix in every non-empty set of its prefixes, and *)
(* no set of names descends for ever towards shorter ones.                 *)
ASSUME NamesAssumption ==
    /\ Root \notin Names
    /\ None \notin Names \cup {Root}
    /\ Above \in [Names -> SUBSET Names]
    /\ \A n \in Names : n \notin Above[n]
    /\ \A n \in Names : \A m \in Above[n] : Above[m] \subseteq Above[n]
    /\ \A n \in Names : \A S \in SUBSET Above[n] :
          S # {} => \E m \in S : S \ {m} \subseteq Above[m]
    /\ \A S \in SUBSET Names : S # {} => \E m \in S : Above[m] \cap S = {}

(* A string starts with itself and with each of its own prefixes, and a     *)
(* prefix does not start with the longer string.                           *)
ASSUME TextAssumption ==
    /\ TextExt \in [Names -> SUBSET (Names \cup {Root})]
    /\ \A n, m \in Names : (m = n \/ n \in Above[m]) => m \in TextExt[n]
    /\ \A n \in Names : TextExt[n] \cap Above[n] = {}

ASSUME LevelAssumption == LevelArgs \subseteq Int

NOTSET  == 0
WARNING == 30
Severities == {10, 20, 30, 40, 50}

(* The C struct keeps levels in an unsigned short.                         *)
USHORT == 65536
(* Mutant: the level is stored unmasked.                                   *)
UShortUnmasked(l) == l

UShort(l) == l % USHORT
LevelValues == 0 .. USHORT - 1

(* The names from n itself up to its shortest prefix.                      *)
UpFrom(n) == IF n = Root THEN {} ELSE {n} \cup Above[n]

(* The longest name of a non-empty set of prefixes of one name.            *)
Longest(S) == CHOOSE m \in S : S \ {m} \subseteq Above[m]
==============================================================================
