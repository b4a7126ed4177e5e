---------------------------- MODULE MCDictConfig ----------------------------
(* Values for DictConfig's constants: a chain of three names.               *)
EXTENDS DictConfig

MCNames == {"a", "a.b", "a.b.c"}

MCAbove == [n \in MCNames |->
    CASE n = "a" -> {} [] n = "a.b" -> {"a"} [] n = "a.b.c" -> {"a", "a.b"}]

MCTextExt == [n \in MCNames |-> {m \in MCNames : m = n \/ n \in MCAbove[m]}]

EntryOf(lev, hands, up, fails) ==
    [level |-> lev, handlers |-> hands, propagate |-> up, fails |-> fails]

RootOf(lev, hands, fails) == [level |-> lev, handlers |-> hands, fails |-> fails]

(* A logger below another first, and a root without a level that names a    *)
(* handler that is not there; the logger in the middle, with a root; the    *)
(* same with an entry that names such a handler; an entry whose level is    *)
(* bad; an entry that leaves everything out, with a root whose level is     *)
(* bad; an empty dictionary.                                                *)
MCConfigs ==
    {[loggers |-> <<"a.b", "a">>,
      entries |-> [n \in {"a.b", "a"} |->
                      IF n = "a" THEN EntryOf(None, {"new"}, TRUE, None)
                      ELSE EntryOf(10, {"new"}, FALSE, None)],
      root |-> RootOf(None, {"new"}, "handlers"), disable_existing |-> FALSE],
     [loggers |-> <<"a.b">>, entries |-> [n \in {"a.b"} |-> EntryOf(40, {"new"}, None, None)],
      root |-> RootOf(10, {"new"}, None), disable_existing |-> TRUE],
     [loggers |-> <<"a.b">>,
      entries |-> [n \in {"a.b"} |-> EntryOf(40, {"new"}, FALSE, "handlers")],
      root |-> None, disable_existing |-> TRUE],
     [loggers |-> <<"a">>, entries |-> [n \in {"a"} |-> EntryOf(None, {}, None, "level")],
      root |-> None, disable_existing |-> TRUE],
     [loggers |-> <<"a">>, entries |-> [n \in {"a"} |-> EntryOf(None, {}, None, None)],
      root |-> RootOf(10, {"new"}, "level"), disable_existing |-> TRUE],
     [loggers |-> <<>>, entries |-> <<>>, root |-> None, disable_existing |-> FALSE]}

MCLevels == {0, 10, 40}
MCOtherLevels == {40}
=============================================================================
