----------------------------- MODULE MCLoggerTree -----------------------------
(* Small instances of LoggerTree: a chain of three names and a sibling.     *)
EXTENDS LoggerTree

MCNames == {"a", "a.b", "a.b.c", "a.d"}

MCAbove == [n \in MCNames |->
    CASE n = "a" -> {} [] n = "a.b.c" -> {"a", "a.b"} [] OTHER -> {"a"}]

MCTextExt == [n \in MCNames |-> {m \in MCNames : m = n \/ n \in MCAbove[m]}]

(* A second family, whose top name is a prefix of the string "root".        *)
ShadowNames == {"ro", "ro.b", "ro.b.c"}

ShadowAbove == [n \in ShadowNames |->
    CASE n = "ro" -> {} [] n = "ro.b" -> {"ro"} [] OTHER -> {"ro", "ro.b"}]

ShadowTextExt == [n \in ShadowNames |->
    {m \in ShadowNames : m = n \/ n \in ShadowAbove[m]}
    \cup (IF n = "ro" THEN {Root} ELSE {})]

(* NOTSET, two severities and a number that wraps to one of them.           *)
MCLevels == {0, 10, 40, 65546}
==============================================================================
