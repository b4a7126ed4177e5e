--------------------------- MODULE LoggerHierarchy ---------------------------
(***************************************************************************)
(* What the logger hierarchy promises its users, with no cache, no links    *)
(* and no placeholders: loggers appear, levels are set, and the effective   *)
(* level of a logger is its own or that of its nearest ancestor with one.   *)
(* LoggerTree implements it as long as its uses are careful.                *)
(***************************************************************************)
EXTENDS LoggerNames

VARIABLES live, lev, eff

hvars == <<live, lev, eff>>

(* The effective levels of the loggers L whose own levels are f.            *)
Inherit(L, f) ==
    [n \in L \cup {Root} |->
        LET own == {m \in UpFrom(n) \cap L : f[m] > NOTSET}
        IN  IF own = {} THEN f[Root] ELSE f[Longest(own)]]

HInit ==
    /\ live = {}
    /\ lev = [n \in Nodes |-> IF n = Root THEN WARNING ELSE NOTSET]
    /\ eff = Inherit(live, lev)

Appear(n) ==
    /\ n \notin live
    /\ live' = live \cup {n}
    /\ lev' = lev
    /\ eff' = Inherit(live', lev')

Assign(n, l) ==
    /\ n \in live \cup {Root}
    /\ lev' = [lev EXCEPT ![n] = UShort(l)]
    /\ live' = live
    /\ eff' = Inherit(live', lev')

HNext ==
    \/ \E n \in Names : Appear(n)
    \/ \E n \in Nodes, l \in LevelArgs : Assign(n, l)

HSpec == HInit /\ [][HNext]_hvars
==============================================================================
