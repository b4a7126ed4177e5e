------------------------------ MODULE MCDispatch ------------------------------
(* Values for Dispatch's constants: a logger below the root logger.          *)
EXTENDS Dispatch

CONSTANTS root, app, h1, h2, h3, r1, r2, object, polite, callable

MCParent == [l \in {root, app} |-> IF l = app THEN root ELSE None]

(* The root logger's level keeps r2 out; records of app pass it all the same. *)
MCEnabled == {<<app, r1>>, <<app, r2>>, <<root, r1>>}

MCWanted == {<<h1, r1>>, <<h1, r2>>, <<h2, r2>>, <<h3, r1>>, <<h3, r2>>}
MCFaulty == {<<h3, r1>>}

(* One method refuses r1 and raises for r2, the other lets both through; the *)
(* callable raises for r1.                                                   *)
MCRefusing == {<<object, r1>>}
MCRaising == {<<object, r2>>, <<callable, r1>>}

MCInitialHandlers ==
    {[l \in {root, app} |-> <<>>],
     [l \in {root, app} |-> IF l = app THEN <<h1, h2>> ELSE <<h3>>]}

MCInitialFilters ==
    {[x \in {root, app, h1, h2, h3} |-> <<>>],
     [x \in {root, app, h1, h2, h3} |->
         CASE x = h1 -> <<callable, object>> [] x = h2 -> <<polite>>
           [] x = h3 -> <<callable>> [] OTHER -> <<>>]}
==============================================================================
