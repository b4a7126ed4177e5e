----------------------------- MODULE MCLoggerRace -----------------------------
(* Values for LoggerRace's constants.                                        *)
EXTENDS LoggerRace, TLC

CONSTANTS t1, t2

ThreadSymmetry == Permutations({t1, t2})

MCNames == {"a", "a.b", "a.b.c", "a.d"}
MCAbove ==
    [n \in MCNames |->
        CASE n = "a"     -> {}
          [] n = "a.b"   -> {"a"}
          [] n = "a.b.c" -> {"a", "a.b"}
          [] n = "a.d"   -> {"a"}]
MCTextExt == [n \in MCNames |-> {m \in MCNames : m = n \/ n \in MCAbove[m]}]
==============================================================================
